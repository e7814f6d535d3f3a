------------------------------ MODULE BookMove ------------------------------
(***************************************************************************)
(* The journaled move of a PDF: lib/BookStateMigration (the two-slot       *)
(* journal, recoverOne and the Coordinator) driven by src/util/            *)
(* BookMoveUtils.cpp (moveBook, boot recovery and the domain operations).  *)
(*                                                                         *)
(* A move renames the source file and carries the state that is keyed by   *)
(* the path - cache directory, bookmarks, clippings, recent books, open    *)
(* path - from the old key to the new one.  The journal record names the   *)
(* last finished phase; every phase is redone from there after a failure   *)
(* or a power loss.  One task runs the mutation, so its steps interleave   *)
(* with power loss, I/O failures, uploads and readers, not with another    *)
(* move (BookMutation models the fences between several tasks).            *)
(***************************************************************************)
EXTENDS Naturals, FiniteSets

CONSTANTS
  Paths,        \* absolute paths a PDF may have
  NoPath,       \* no path at all
  CacheFiles,   \* the files below the path-keyed cache directory
  DerivedFiles, \* those that an upload clears
  MaxFaults,    \* bound: I/O failures and power losses
  MaxMoves,     \* bound: calls of moveBook
  MaxUploads    \* bound: files the user puts at a free path

ASSUME PathsAssumption == NoPath \notin Paths
ASSUME PartsAssumption == {"bookmarks", "clippings"} \cap CacheFiles = {}
ASSUME DerivedAssumption == DerivedFiles \subseteq CacheFiles
ASSUME BoundsAssumption == /\ MaxFaults \in Nat
                           /\ MaxMoves \in Nat
                           /\ MaxUploads \in Nat

Slots == {"A", "B"}
Parts == CacheFiles \cup {"bookmarks", "clippings"}

(***************************************************************************)
(* enum class Phase.                                                       *)
(***************************************************************************)
Prepared        == 1
SourceMoved     == 2
CacheCopied     == 3
BookmarksCopied == 4
ClippingsCopied == 5
StateVerified   == 6
Activated       == 7
OldStateRemoved == 8
Abandoned       == 9

Phases == 1..9

Record(seq, phase, old, new, keep) ==
  [kind |-> "record", seq |-> seq, phase |-> phase,
   old |-> old, new |-> new, keep |-> keep]

(***************************************************************************)
(* A slot file that does not exist, and one that fails decode().           *)
(***************************************************************************)
Blank(kind) == [kind |-> kind, seq |-> 0, phase |-> 0,
                old |-> NoPath, new |-> NoPath, keep |-> TRUE]
Absent == Blank("absent")
Torn   == Blank("torn")

IsRecord(v) == v.kind = "record"

NoSlot == "none"
NoSelection == [slot |-> NoSlot, rec |-> Absent]

Opposite(s) == IF s = "A" THEN "B" ELSE "A"

VARIABLES
  slot,     \* content of /.crosspoint/book_move.a and .b
  file,     \* what lies at each path: nothing, the book, an uploaded file
  store,    \* path-keyed state: whose it is, for every part
  recents,  \* recent.json on disk and the list in RAM
  open,     \* openEpubPath in state.json and in RAM
  pc,       \* where the mutating task stands
  sel,      \* the Selection the running recoverOne works on
  out,      \* the slot and record writeRecord is writing
  steps,    \* recoverOne steps of the running Coordinator::recover
  job,      \* the running call: none, boot recovery, moveBook
  result,   \* what the last call returned
  faults, moves, uploads

journalVars == <<slot, out>>
domainVars  == <<file, store, recents, open>>
callVars    == <<sel, steps, job, result>>
boundVars   == <<faults, moves, uploads>>
vars == <<journalVars, domainVars, pc, callVars, boundVars>>

(***************************************************************************)
(* Jobs: "recover" is recoverWithSession at the head of moveBook, "move"   *)
(* is its own move, "boot" is recoverPendingBookMove.                      *)
(***************************************************************************)
Job(kind, old, new, keep) ==
  [kind |-> kind, old |-> old, new |-> new, keep |-> keep]
NoJob == Job("none", NoPath, NoPath, TRUE)

-----------------------------------------------------------------------------
(***************************************************************************)
(* Journal::load.  The sequences of one journal start at 1 and stop at 8,  *)
(* so the wrapping comparison of sequenceNewer is the order of Nat.        *)
(***************************************************************************)
SequenceOlder(candidate, reference) == candidate < reference

SequenceNewer(candidate, reference) == candidate > reference

Select(a, b) ==
  IF IsRecord(b) /\ (IsRecord(a) => SequenceNewer(b.seq, a.seq))
    THEN [slot |-> "B", rec |-> b]
  ELSE IF IsRecord(a) THEN [slot |-> "A", rec |-> a]
  ELSE NoSelection

Corrupt(a, b) == /\ ~IsRecord(a) /\ ~IsRecord(b)
                 /\ a # Absent \/ b # Absent

Selected == Select(slot["A"], slot["B"])

(***************************************************************************)
(* What a reader of path p uses: migrationCacheHash after a journal lookup.*)
(* Before activation both paths read the old key, and only read it.        *)
(***************************************************************************)
IsActivatedOnce(rec) == rec.phase = Activated

IsActivatedEarly(rec) == rec.phase \in {StateVerified, Activated, OldStateRemoved}

IsActivated(rec) == rec.phase \in {Activated, OldStateRemoved}

KeyUnder(s, p) ==
  IF s.slot = NoSlot \/ p \notin {s.rec.old, s.rec.new} THEN p
  ELSE IF IsActivated(s.rec) THEN s.rec.new ELSE s.rec.old

KeyOf(p) == KeyUnder(Selected, p)

CanOpen(p) ==
  /\ ~Corrupt(slot["A"], slot["B"])
  /\ \/ Selected.slot = NoSlot
     \/ p \notin {Selected.rec.old, Selected.rec.new}
     \/ IsActivated(Selected.rec)

-----------------------------------------------------------------------------
Init ==
  /\ slot = [s \in Slots |-> Absent]
  /\ \E home \in Paths :
       /\ file = [p \in Paths |-> IF p = home THEN "book" ELSE "none"]
       /\ \E stale \in [Paths \ {home} -> {"none", "alien"}] :
            store = [p \in Paths |->
                       [x \in Parts |-> IF p = home THEN "own" ELSE stale[p]]]
       /\ \E gone \in SUBSET (Paths \ {home}) :
            recents = [disk |-> gone \cup {home}, ram |-> gone \cup {home}]
       /\ open = [disk |-> home, ram |-> home]
  /\ pc = "idle"
  /\ sel = NoSelection
  /\ out = NoSelection
  /\ steps = 0
  /\ job = NoJob
  /\ result = "none"
  /\ faults = 0 /\ moves = 0 /\ uploads = 0

(***************************************************************************)
(* A call returns.  The recovery at the head of moveBook goes on to the    *)
(* requested move unless it is blocked.                                    *)
(***************************************************************************)
ReturnFromPending(res) ==
  /\ IF job.kind = "recover" /\ pc # "check" /\ res # "conflict"
       THEN pc' = "check" /\ UNCHANGED <<job, result>>
       ELSE pc' = "idle" /\ job' = NoJob /\ result' = res
  /\ sel' = NoSelection
  /\ out' = NoSelection
  /\ steps' = 0

Return(res) ==
  /\ IF /\ job.kind = "recover" /\ pc # "check"
        /\ res \in {"nothing", "complete", "abandoned"}
       THEN pc' = "check" /\ UNCHANGED <<job, result>>
       ELSE pc' = "idle" /\ job' = NoJob /\ result' = res
  /\ sel' = NoSelection
  /\ out' = NoSelection
  /\ steps' = 0

Fault == faults < MaxFaults /\ faults' = faults + 1
NoFault == UNCHANGED faults

Goto(label) == pc' = label /\ UNCHANGED <<job, result>>

(***************************************************************************)
(* Journal::advance: the next phase goes to the opposite slot.             *)
(***************************************************************************)
AdvanceTarget(s) == Opposite(s.slot)

Advance(phase) ==
  /\ out' = [slot |-> AdvanceTarget(sel),
             rec  |-> Record(sel.rec.seq + 1, phase, sel.rec.old, sel.rec.new,
                             sel.rec.keep)]
  /\ Goto("truncate")
  /\ UNCHANGED <<sel, steps>>

-----------------------------------------------------------------------------
(***************************************************************************)
(* The user.                                                               *)
(***************************************************************************)
(* The callers check that the source exists and the target does not.       *)
StartMove(o, n, keep) ==
  /\ pc = "idle" /\ moves < MaxMoves
  /\ o # n /\ file[o] # "none" /\ file[n] = "none"
  /\ job' = Job("recover", o, n, keep)
  /\ pc' = "load"
  /\ moves' = moves + 1 /\ result' = "none"
  /\ UNCHANGED <<journalVars, domainVars, sel, steps, faults, uploads>>

(* clearPdfDerivedCache: an upload clears the cache of its path, but not   *)
(* one a pending move reads or has yet to hand over.                       *)
ClearsAlways(p) == file[p] = "none"

ClearsCache(p) == CanOpen(p) /\ KeyOf(p) = p

(* An upload to a free path.  Over USB or WebDAV it asks neither journal,  *)
(* and it stays when its cache cannot be cleared, or only in part.         *)
Upload(p) ==
  /\ pc = "idle" /\ uploads < MaxUploads /\ file[p] = "none"
  /\ file' = [file EXCEPT ![p] = "other"]
  /\ \E cleared \in SUBSET DerivedFiles :
       /\ cleared # {} => ClearsCache(p)
       /\ store' = [store EXCEPT ![p] =
                      [x \in Parts |-> IF x \in cleared THEN "none" ELSE store[p][x]]]
  /\ uploads' = uploads + 1
  /\ UNCHANGED <<journalVars, recents, open, pc, callVars, faults, moves>>

(* Missing(q): isMissing.  A recent PDF that a pending move has renamed,   *)
(* or whose journal cannot be read, is not missing.                        *)
MissingFile(q) == file[q] = "none"

Missing(q) == file[q] = "none" /\ CanOpen(q)

Listed == {q \in recents.ram : ~Missing(q)}

(* Opening prunes the list of recent books, records the path in it and as  *)
(* the open book.  The cache of an uploaded file is prepared under the key *)
(* of its own path, whatever key the journal resolves for that path.       *)
OpenBook(p) ==
  /\ pc = "idle" /\ file[p] # "none" /\ CanOpen(p)
  /\ store' = IF file[p] = "other"
                THEN [store EXCEPT ![p] = [x \in Parts |-> "alien"]]
                ELSE store
  /\ recents' = [disk |-> Listed \cup {p}, ram |-> Listed \cup {p}]
  /\ open' = [disk |-> p, ram |-> p]
  /\ UNCHANGED <<journalVars, file, pc, callVars, boundVars>>

(* The list of recent books prunes it too, and saves what it dropped.      *)
ShowRecents ==
  /\ pc = "idle" /\ Listed # recents.ram
  /\ recents' = [disk |-> Listed, ram |-> Listed]
  /\ UNCHANGED <<journalVars, file, store, open, pc, callVars, boundVars>>

(* Sleep and wake: every wake is a boot.                                   *)
Sleep ==
  /\ pc = "idle"
  /\ pc' = "off"
  /\ UNCHANGED <<journalVars, domainVars, callVars, boundVars>>

PowerLoss ==
  /\ pc \notin {"idle", "off"} /\ Fault
  /\ pc' = "off"
  /\ sel' = NoSelection /\ out' = NoSelection /\ job' = NoJob
  /\ steps' = 0 /\ result' = "none"
  /\ UNCHANGED <<slot, domainVars, moves, uploads>>

Boot ==
  /\ pc = "off"
  /\ recents' = [recents EXCEPT !.ram = recents.disk]
  /\ open' = [open EXCEPT !.ram = open.disk]
  /\ job' = Job("boot", NoPath, NoPath, TRUE)
  /\ pc' = "load" /\ result' = "none"
  /\ UNCHANGED <<journalVars, file, store, sel, steps, boundVars>>

-----------------------------------------------------------------------------
(***************************************************************************)
(* Journal::load at the head of recoverOne, and the phase it dispatches.   *)
(***************************************************************************)
MaxRecoverySteps == 9

StageOf(phase) ==
  CASE phase = Prepared                     -> "locate"
    [] phase \in SourceMoved..BookmarksCopied -> "copy"
    [] phase = ClippingsCopied              -> "verify"
    [] phase = StateVerified                -> "recent"
    [] phase = Activated                    -> "remove"
    [] OTHER                                -> "cleanup"

Load ==
  /\ pc = "load"
  /\ IF Corrupt(slot["A"], slot["B"]) \/ steps = MaxRecoverySteps
       THEN Return("pending")
     ELSE IF Selected = NoSelection THEN Return("nothing")
     ELSE /\ sel' = Selected
          /\ steps' = steps + 1
          /\ Goto(StageOf(Selected.rec.phase))
          /\ UNCHANGED out
  /\ UNCHANGED <<slot, domainVars, boundVars>>

(***************************************************************************)
(* Phase Prepared: locateSource, renameSource, locateSource again.  A      *)
(* rename that reports failure may have happened.                          *)
(***************************************************************************)
LocationByOldPath(o, n) ==
  IF file[o] # "none" THEN "oldOnly"
  ELSE IF file[n] # "none" THEN "newOnly" ELSE "missing"

Location(o, n) ==
  IF file[o] # "none"
    THEN IF file[n] # "none" THEN "both" ELSE "oldOnly"
    ELSE IF file[n] # "none" THEN "newOnly" ELSE "missing"

SourceLocation == Location(sel.rec.old, sel.rec.new)

Locate ==
  /\ pc = "locate"
  /\ CASE SourceLocation = "both"    -> Return("conflict")
       [] SourceLocation = "missing" -> Return("pending")
       [] SourceLocation = "newOnly" -> Advance(SourceMoved)
       [] SourceLocation = "oldOnly" -> Goto("rename") /\ UNCHANGED <<sel, steps, out>>
  /\ UNCHANGED <<slot, domainVars, boundVars>>

RenameSource ==
  /\ pc = "rename"
  /\ file' = [file EXCEPT ![sel.rec.old] = "none",
                          ![sel.rec.new] = file[sel.rec.old]]
  /\ Advance(SourceMoved)
  /\ UNCHANGED <<slot, store, recents, open, boundVars>>

RenameFails ==
  /\ pc = "rename" /\ Fault
  /\ Advance(Abandoned)
  /\ UNCHANGED <<slot, domainVars, moves, uploads>>

(***************************************************************************)
(* Phases SourceMoved .. BookmarksCopied: copy one kind of state to the    *)
(* new key and verify it; the old key is only read.                        *)
(***************************************************************************)
StageParts(phase) ==
  CASE phase = SourceMoved     -> CacheFiles
    [] phase = CacheCopied     -> {"bookmarks"}
    [] phase = BookmarksCopied -> {"clippings"}
    [] OTHER                   -> {}

Verified(o, n, parts) ==
  \A x \in parts : store[o][x] # "none" => store[n][x] = store[o][x]

CopyPart(x) ==
  /\ pc = "copy" /\ x \in StageParts(sel.rec.phase)
  /\ ~Verified(sel.rec.old, sel.rec.new, {x})
  /\ store' = [store EXCEPT ![sel.rec.new][x] = store[sel.rec.old][x]]
  /\ UNCHANGED <<journalVars, file, recents, open, pc, callVars, boundVars>>

(* The destination is removed before the verified copy is renamed to it.   *)
CopyPartFails(x) ==
  /\ pc = "copy" /\ x \in StageParts(sel.rec.phase) /\ Fault
  /\ ~Verified(sel.rec.old, sel.rec.new, {x})
  /\ store' = [store EXCEPT ![sel.rec.new][x] = "none"]
  /\ Return("pending")
  /\ UNCHANGED <<slot, file, recents, open, moves, uploads>>

CopyDone ==
  /\ pc = "copy"
  /\ Verified(sel.rec.old, sel.rec.new, StageParts(sel.rec.phase))
  /\ Advance(sel.rec.phase + 1)
  /\ UNCHANGED <<slot, domainVars, boundVars>>

VerifyState ==
  /\ pc = "verify"
  /\ IF Verified(sel.rec.old, sel.rec.new, Parts)
       THEN Advance(StateVerified)
       ELSE Return("pending")
  /\ UNCHANGED <<slot, domainVars, boundVars>>

(***************************************************************************)
(* Phase StateVerified: RECENT_BOOKS.activatePathMigration and             *)
(* APP_STATE.activateOpenPathMigration write RAM and disk; a failure rolls *)
(* the RAM copy back although the new file may already be published.       *)
(***************************************************************************)
MigrateRecents(paths, rec) ==
  IF ~rec.keep THEN paths \ {rec.old, rec.new}
  ELSE IF rec.old \in paths THEN (paths \ {rec.old}) \cup {rec.new}
  ELSE paths

MigrateOpenToNothing(p, rec) == IF p = rec.old THEN NoPath ELSE p

MigrateOpen(p, rec) == IF p = rec.old THEN rec.new ELSE p

ActivateRecent ==
  /\ pc = "recent"
  /\ LET migrated == MigrateRecents(recents.ram, sel.rec) IN
     \/ /\ recents' = [disk |-> migrated, ram |-> migrated]
        /\ Goto("openPath") /\ NoFault /\ UNCHANGED <<sel, steps, out>>
     \/ /\ Fault /\ Return("pending")
        /\ recents' = [recents EXCEPT !.disk = migrated]
  /\ UNCHANGED <<slot, file, store, open, moves, uploads>>

ActivateOpenPath ==
  /\ pc = "openPath"
  /\ LET migrated == MigrateOpen(open.ram, sel.rec) IN
     \/ /\ open' = [disk |-> migrated, ram |-> migrated]
        /\ Goto("verifyActivation") /\ NoFault /\ UNCHANGED <<sel, steps, out>>
     \/ /\ Fault /\ Return("pending")
        /\ open' = [open EXCEPT !.disk = migrated]
  /\ UNCHANGED <<slot, file, store, recents, moves, uploads>>

ActivationPersisted(rec) ==
  /\ rec.old \notin recents.disk
  /\ ~rec.keep => rec.new \notin recents.disk
  /\ open.ram # rec.old
  /\ open.disk = open.ram

VerifyActivation ==
  /\ pc = "verifyActivation"
  /\ IF ActivationPersisted(sel.rec) THEN Advance(Activated)
                                     ELSE Return("pending")
  /\ UNCHANGED <<slot, domainVars, boundVars>>

(***************************************************************************)
(* Phase Activated: the cache directory, then the bookmarks, then the      *)
(* clippings of the old key.                                               *)
(***************************************************************************)
OldParts == {x \in Parts : store[sel.rec.old][x] # "none"}

RemoveOldPart(x) ==
  /\ pc = "remove" /\ x \in OldParts
  /\ x \notin CacheFiles => OldParts \cap CacheFiles = {}
  /\ x = "clippings" => "bookmarks" \notin OldParts
  /\ store' = [store EXCEPT ![sel.rec.old][x] = "none"]
  /\ UNCHANGED <<journalVars, file, recents, open, pc, callVars, boundVars>>

RemoveDone ==
  /\ pc = "remove" /\ OldParts = {}
  /\ Advance(OldStateRemoved)
  /\ UNCHANGED <<slot, domainVars, boundVars>>

(***************************************************************************)
(* Journal::cleanup: the stale slot first, the terminal record last.       *)
(***************************************************************************)
FirstRemoved(s) == Opposite(s.slot)

Cleanup ==
  /\ pc = "cleanup"
  /\ slot' = [slot EXCEPT ![FirstRemoved(sel)] = Absent]
  /\ Goto("cleanup2")
  /\ UNCHANGED <<sel, steps, out, domainVars, boundVars>>

CleanupDone ==
  /\ pc = "cleanup2"
  /\ slot' = [slot EXCEPT ![Opposite(FirstRemoved(sel))] = Absent]
  /\ Return(IF sel.rec.phase = Abandoned THEN "abandoned" ELSE "complete")
  /\ UNCHANGED <<domainVars, boundVars>>

-----------------------------------------------------------------------------
(***************************************************************************)
(* moveBook after its own recovery: the existence checks, then             *)
(* Coordinator::begin, which loads the journal once more.                  *)
(***************************************************************************)
Check ==
  /\ pc = "check"
  /\ CASE Location(job.old, job.new) = "newOnly" -> Return("complete")
       [] Location(job.old, job.new) = "both"    -> Return("conflict")
       [] Location(job.old, job.new) = "missing" -> Return("invalid")
       [] OTHER -> /\ pc' = "begin"
                   /\ job' = [job EXCEPT !.kind = "move"]
                   /\ UNCHANGED <<sel, steps, out, result>>
  /\ UNCHANGED <<slot, domainVars, boundVars>>

Begin ==
  /\ pc = "begin"
  /\ IF Corrupt(slot["A"], slot["B"]) THEN Return("pending")
     ELSE IF Selected # NoSelection THEN Return("conflict")
     ELSE /\ out' = [slot |-> "A",
                     rec  |-> Record(1, Prepared, job.old, job.new, job.keep)]
          /\ Goto("truncate")
          /\ UNCHANGED <<sel, steps>>
  /\ UNCHANGED <<slot, domainVars, boundVars>>

(***************************************************************************)
(* writeRecord: open and truncate; write, flush and sync; close and read   *)
(* back; on failure remove the slot, which may itself fail.                *)
(***************************************************************************)
Truncate ==
  /\ pc = "truncate"
  /\ slot' = [slot EXCEPT ![out.slot] = Torn]
  /\ Goto("write")
  /\ UNCHANGED <<sel, steps, out, domainVars, boundVars>>

Write ==
  /\ pc = "write"
  /\ \/ /\ slot' = [slot EXCEPT ![out.slot] = out.rec]
        /\ Goto("close") /\ NoFault
     \/ /\ Fault /\ Goto("unwrite") /\ UNCHANGED slot
  /\ UNCHANGED <<sel, steps, out, domainVars, moves, uploads>>

(* A failed rename is abandoned and still reported as a failure.           *)
Close ==
  /\ pc = "close"
  /\ \/ /\ NoFault
        /\ IF out.rec.phase = Abandoned
             THEN Return("pending")
             ELSE /\ Goto("load") /\ UNCHANGED steps
                  /\ sel' = NoSelection /\ out' = NoSelection
     \/ Fault /\ Goto("unwrite") /\ UNCHANGED <<sel, steps, out>>
  /\ UNCHANGED <<slot, domainVars, moves, uploads>>

Unwrite ==
  /\ pc = "unwrite"
  /\ \/ slot' = [slot EXCEPT ![out.slot] = Absent] /\ NoFault
     \/ Fault /\ UNCHANGED slot
  /\ Return("pending")
  /\ UNCHANGED <<domainVars, moves, uploads>>

(***************************************************************************)
(* A failure that changes nothing on disk.                                 *)
(***************************************************************************)
IoFails ==
  /\ pc \in {"load", "copy", "verify", "recent", "openPath",
             "verifyActivation", "remove", "cleanup", "cleanup2", "begin",
             "truncate"}
  /\ Fault
  /\ Return("pending")
  /\ UNCHANGED <<slot, domainVars, moves, uploads>>

-----------------------------------------------------------------------------
Working ==
  \/ Load \/ Locate \/ RenameSource \/ RenameFails
  \/ \E x \in Parts : CopyPart(x) \/ CopyPartFails(x) \/ RemoveOldPart(x)
  \/ CopyDone \/ VerifyState
  \/ ActivateRecent \/ ActivateOpenPath \/ VerifyActivation
  \/ RemoveDone \/ Cleanup \/ CleanupDone
  \/ Check \/ Begin \/ Truncate \/ Write \/ Close \/ Unwrite
  \/ IoFails

User ==
  \/ \E o, n \in Paths, keep \in BOOLEAN : StartMove(o, n, keep)
  \/ \E p \in Paths : Upload(p) \/ OpenBook(p)
  \/ ShowRecents

Next == Working \/ User \/ Sleep \/ PowerLoss \/ Boot

Spec == Init /\ [][Next]_vars

(***************************************************************************)
(* The running task is scheduled, a sleeping reader is woken again, and a  *)
(* reader left alone goes to sleep.                                        *)
(***************************************************************************)
FairSpec == Spec /\ WF_vars(Working) /\ WF_vars(Boot) /\ WF_vars(Sleep)

-----------------------------------------------------------------------------
(***************************************************************************)
(* Properties.                                                             *)
(***************************************************************************)
(* Every variable holds a value of its kind; the sequence number of a      *)
(* record is the one its phase is reached with, so it never wraps.         *)
SequenceOf(phase) == IF phase = Abandoned THEN 2 ELSE phase

Records == {r \in [kind : {"record"}, seq : Nat, phase : Phases,
                   old : Paths, new : Paths, keep : BOOLEAN] :
              r.seq = SequenceOf(r.phase)}
SlotValues == Records \cup {Absent, Torn}
Selections == [slot : Slots, rec : Records] \cup {NoSelection}
Jobs == [kind : {"boot", "none"}, old : {NoPath}, new : {NoPath}, keep : {TRUE}]
        \cup [kind : {"recover", "move"}, old : Paths, new : Paths, keep : BOOLEAN]
Labels == {"off", "idle", "load", "locate", "rename", "copy", "verify",
           "recent", "openPath", "verifyActivation", "remove", "cleanup",
           "cleanup2", "check", "begin", "truncate", "write", "close", "unwrite"}
Results == {"none", "nothing", "complete", "abandoned", "pending", "conflict",
            "invalid"}

TypeOK ==
  /\ slot \in [Slots -> SlotValues]
  /\ file \in [Paths -> {"none", "book", "other"}]
  /\ store \in [Paths -> [Parts -> {"none", "own", "alien"}]]
  /\ recents \in [disk : SUBSET Paths, ram : SUBSET Paths]
  /\ open \in [disk : Paths, ram : Paths]
  /\ pc \in Labels
  /\ sel \in Selections
  /\ out \in Selections
  /\ steps \in 0..MaxRecoverySteps
  /\ job \in Jobs
  /\ result \in Results
  /\ faults \in 0..MaxFaults /\ moves \in 0..MaxMoves
  /\ uploads \in 0..MaxUploads

(* Whatever was interrupted, the key a reader resolves for the book's      *)
(* current path holds the whole of the book's own state: the copies are    *)
(* complete before the key switches, the originals stay until it has, and  *)
(* the journal is dropped only when path and key agree.                    *)
StateFollowsBook ==
  \A p \in Paths :
    file[p] = "book" => \A x \in Parts : store[KeyOf(p)][x] = "own"

(* From Activated on neither the list of recent books nor the open path,   *)
(* on disk or in RAM, names the old path again (unless a new file was put  *)
(* there): a reboot cannot resume into the path that was left.             *)
OldPathForgotten ==
  IsActivated(Selected.rec) /\ file[Selected.rec.old] = "none" =>
    /\ Selected.rec.old \notin recents.disk \cup recents.ram
    /\ open.disk # Selected.rec.old /\ open.ram # Selected.rec.old

(* No step of a move or of its recovery overwrites a file the user put in  *)
(* the way: a file leaves a path only by being renamed to a free one.      *)
FilesSurvive ==
  [][\A p \in Paths : file[p] # "none" /\ file'[p] # file[p] =>
        \E q \in Paths : file[q] = "none" /\ file'[q] = file[p]]_file

(* The book a user keeps in the list of recent books is not dropped from   *)
(* it by the way: whatever is pruned and saved while its file is under way *)
(* between two paths, only the activation of a move that asks for it takes *)
(* the last of its names off the list on disk.                             *)
BookNames ==
  LET at == {p \in Paths : file[p] = "book"}
      renamed == {Selected.rec.old, Selected.rec.new}
  IN  IF Selected.slot # NoSlot /\ ~IsActivated(Selected.rec) /\ at \cap renamed # {}
        THEN renamed ELSE at

ListedStaysListed ==
  [][recents.disk \cap BookNames # {} /\ recents.disk' \cap BookNames' = {} =>
       pc = "recent" /\ ~sel.rec.keep]_recents

(* moveBook answers Complete only when nothing is left to recover: the     *)
(* journal is gone, the file is at the new path alone, and the persisted   *)
(* recents and open path no longer name the old one.                       *)
CompleteIsDurable ==
  [][job.kind \in {"recover", "move"} /\ result # "complete" /\ result' = "complete" =>
       /\ slot' = [s \in Slots |-> Absent]
       /\ file'[job.old] = "none" /\ file'[job.new] # "none"
       /\ job.old \notin recents'.disk /\ open'.disk # job.old]_vars

(* The fixed budget of recoverOne calls is never what ends a recovery: one *)
(* fault-free run takes a move from any durable phase to its end.          *)
BudgetSuffices == steps < MaxRecoverySteps

(* A move whose Prepared record is durable is finished or abandoned, if    *)
(* faults stop and the reader keeps being woken.                           *)
RecoveryFinishes ==
  Selected # NoSelection ~> slot = [s \in Slots |-> Absent]

(* The PDF plan says of the journal "a pre-rename failure clears safely":  *)
(* if only the record before the rename was begun, the journal is empty    *)
(* again in the end, whatever interrupted it.                              *)
PreRenameFailureClears ==
  slot # [s \in Slots |-> Absent] /\ slot["B"] = Absent
    ~> slot = [s \in Slots |-> Absent]

(***************************************************************************)
(* What a move promises (AtomicMove): the key the book's state is read     *)
(* under switches once, between the durable Prepared record and the end.   *)
(* A record that writeRecord has not yet read back is not yet durable.     *)
(***************************************************************************)
Durable ==
  IF pc \in {"close", "unwrite"}
    THEN IF out.slot = "A" THEN Select(Torn, slot["B"]) ELSE Select(slot["A"], Torn)
    ELSE Selected

BookPath == CHOOSE p \in Paths : file[p] = "book"

Promise == INSTANCE AtomicMove WITH
  home    <- KeyUnder(Durable, BookPath),
  pending <- IF Durable = NoSelection THEN {}
             ELSE {<<Durable.rec.old, Durable.rec.new>>},
  done    <- IsActivated(Durable.rec)

(* The move, with every interruption, implements the atomic move.          *)
ImplementsAtomicMove == Promise!Spec

=============================================================================
