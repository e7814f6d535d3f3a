--------------------------- MODULE PdfPreparation ---------------------------
(***************************************************************************)
(* The preparation of a PDF for reading: PdfPreparation (lib/PdfReflow)    *)
(* and the part of PdfCacheStore it commits through.                       *)
(*                                                                         *)
(* A build writes the sections of a book, page by page, into a generation  *)
(* directory of its own and names it last, in one of two manifest slots.   *)
(* On the way it publishes checkpoints in two slots, from which a later    *)
(* preparation resumes: after discovery, after a page, or, when the user   *)
(* cancels late, at the sections or at the manifest.  The steps of the     *)
(* build interleave with cancellation, power loss, I/O failures and        *)
(* another version of the file put at the path.                            *)
(*                                                                         *)
(* What the pages hold, how they are parsed, and the files that images,    *)
(* fonts and the object table leave in a generation are left out.          *)
(***************************************************************************)
EXTENDS Naturals, Sequences, FiniteSets

CONSTANTS
  Sources,          \* versions of the PDF (PdfSourceIdentity)
  NoSource,         \* no version
  Pages,            \* pages of each version
  Images,           \* the pages of each version that keep an image
  Starts,           \* the pages of each version, after the first, that
                    \* begin a section file
  Capacity,         \* PDF_CACHE_CLEANUP_GENERATION_CAPACITY
  MaxGeneration,    \* bound: generation numbers in use
  FirstGeneration,  \* deterministicGeneration: where each version starts
  MaxFaults,        \* bound: I/O failures and power losses
  MaxCancels,       \* bound: cancellations
  MaxReplacements   \* bound: times the file at the path is replaced

ASSUME SourcesAssumption == NoSource \notin Sources
ASSUME PagesAssumption ==
  /\ Pages \in Nat \ {0}
  /\ Images \in [Sources -> SUBSET (1..Pages)]
  /\ Starts \in [Sources -> SUBSET (2..Pages)]
ASSUME GenerationsAssumption ==
  /\ Capacity \in Nat
  /\ MaxGeneration \in Nat
  /\ MaxGeneration >= Capacity + 4
  /\ FirstGeneration \in [Sources -> 1..MaxGeneration]
ASSUME BoundsAssumption == /\ MaxFaults \in Nat
                           /\ MaxCancels \in Nat
                           /\ MaxReplacements \in Nat

Slots == {"A", "B"}

(***************************************************************************)
(* The sequence itself selects the slot of a checkpoint and of a resume    *)
(* ledger.                                                                 *)
(***************************************************************************)
OneSlot(seq) == "A"

SlotOf(seq) == IF seq % 2 = 1 THEN "A" ELSE "B"

(***************************************************************************)
(* PdfBuildPhase and PdfBuildResumePhase; "sections" stands for            *)
(* AfterEmitSections, AfterImage and AfterImageRepair.                     *)
(***************************************************************************)
Phases == {"pages", "cancelled", "failed", "complete"}
ResumePhases == {"none", "discovery", "page", "sections", "manifest"}
Early == {"discovery", "page"}
Late  == {"sections", "manifest"}

Generations == 1..MaxGeneration

(***************************************************************************)
(* What a checkpoint or manifest slot holds: nothing, a file that does not *)
(* decode, or a record.                                                    *)
(***************************************************************************)
Checkpoint(seq, src, g, phase, resume, page) ==
  [kind |-> "record", seq |-> seq, src |-> src, gen |-> g,
   phase |-> phase, resume |-> resume, page |-> page]

Blank(kind) == [kind |-> kind, seq |-> 0, src |-> NoSource, gen |-> 0,
                phase |-> "failed", resume |-> "none", page |-> 0]
Absent == Blank("absent")
Torn   == Blank("torn")

Manifest(seq, src, g) == Checkpoint(seq, src, g, "complete", "none", Pages)

IsRecord(v) == v.kind = "record"
Matches(v, src) == IsRecord(v) /\ v.src = src

(***************************************************************************)
(* A generation directory: the sections (the version and the page each     *)
(* part was made from) and how many of them a power loss leaves; the page  *)
(* journal's header, records and how many of them a power loss leaves; the *)
(* metadata and outline files; resume.sections; resume.a and resume.b.     *)
(***************************************************************************)
NoGeneration ==
  [made |-> FALSE, sections |-> <<>>, synced |-> 0,
   head |-> NoSource, recs |-> 0, sealed |-> 0,
   outline |-> FALSE, control |-> 0, ledger |-> [s \in Slots |-> 0]]

PagesOf(src, n) == [i \in 1..n |-> <<src, i>>]

(***************************************************************************)
(* A PdfPreparation between begin and its last step.                       *)
(***************************************************************************)
NoBuild ==
  [generation |-> 0,                       \* generation_
   sequence   |-> 0,                       \* sequence_
   page       |-> 0,                       \* currentPageIndex_
   cp         |-> Absent,                  \* checkpointSelection_
   slots      |-> [s \in Slots |-> Absent],\* manifestSelection_.slots
   durable    |-> "none",                  \* durableResumePhase_
   ready      |-> FALSE,                   \* resumeLedgerReady_
   emitReady  |-> FALSE,                   \* emitSectionsResumeReady_
   resumed    |-> "none",                  \* resumedPhase_
   due        |-> FALSE,                   \* pageResumeCheckpointPending_
   writer     |-> FALSE,                   \* outputWriter_.open, on a section
   goal       |-> "none"]                  \* what the checkpoint is for

VARIABLES
  source,           \* the version that lies at the path
  ckpt,             \* build.a and build.b
  manifest,         \* manifest.a and manifest.b
  gen,              \* the generation directories
  pc,               \* phase_ and its stages
  cancelRequested,  \* cancelRequested_
  build,            \* the running preparation
  result,           \* how the last preparation ended
  faults, cancels, replacements

cardVars  == <<source, ckpt, manifest, gen>>
ramVars   == <<pc, cancelRequested, build, result>>
boundVars == <<faults, cancels, replacements>>
vars == <<cardVars, ramVars, boundVars>>

Fault == faults < MaxFaults /\ faults' = faults + 1
NoFault == UNCHANGED faults
Calm == UNCHANGED boundVars

Init ==
  /\ source \in Sources
  /\ ckpt = [s \in Slots |-> Absent]
  /\ manifest = [s \in Slots |-> Absent]
  /\ gen = [g \in Generations |-> NoGeneration]
  /\ pc = "idle" /\ cancelRequested = FALSE
  /\ build = NoBuild /\ result = "none"
  /\ faults = 0 /\ cancels = 0 /\ replacements = 0

-----------------------------------------------------------------------------
(***************************************************************************)
(* Selection and validation of what a card holds for a version.            *)
(***************************************************************************)
SequenceNewer(candidate, reference) == candidate > reference

Newest(slot, src) ==
  LET a == slot["A"]
      b == slot["B"]
  IN IF Matches(b, src) /\ (~Matches(a, src) \/ SequenceNewer(b.seq, a.seq))
       THEN b
       ELSE IF Matches(a, src) THEN a ELSE Absent

Readable(src) == \E s \in Slots : Matches(manifest[s], src)

Listed == {g \in Generations : gen[g].made}
Crowded == Cardinality(Listed) > Capacity

(***************************************************************************)
(* A page checkpoint holds when the journal and the sections it stands on  *)
(* are on the card.                                                        *)
(***************************************************************************)
EarlyHolds(cp) ==
  /\ cp.resume \in Early /\ cp.phase \in {"pages", "cancelled"}
  /\ LET d == gen[cp.gen]
     IN /\ d.made /\ d.head = cp.src
        /\ d.recs >= cp.page
        /\ Len(d.sections) >= cp.page
        /\ SubSeq(d.sections, 1, cp.page) = PagesOf(cp.src, cp.page)

(***************************************************************************)
(* A late checkpoint holds when the ledger of its own sequence, and for    *)
(* the sections the control file, list a complete product.                 *)
(***************************************************************************)
LateHolds(cp) ==
  /\ cp.resume \in Late /\ cp.phase = "cancelled"
  /\ LET d == gen[cp.gen]
     IN /\ d.made /\ d.head = cp.src
        /\ d.ledger[SlotOf(cp.seq)] = cp.seq
        /\ d.outline /\ d.sections = PagesOf(cp.src, Pages)
        /\ cp.resume = "sections" => d.control = cp.seq

(***************************************************************************)
(* The preparation ends; its memory is gone.                               *)
(***************************************************************************)
End(res) ==
  /\ pc' = "idle" /\ cancelRequested' = FALSE
  /\ build' = NoBuild /\ result' = res

(***************************************************************************)
(* While a resume point is being committed a cancellation waits.           *)
(***************************************************************************)
Deferred ==
  \/ pc \in {"snapshot", "record", "seal"}
  \/ pc \in {"cpOpen", "cpWrite"} /\ build.goal \in Early

(***************************************************************************)
(* pdfAbortTrackedCacheFile removes the file of the open writer: with it   *)
(* go all pages of the section that is being written.                      *)
(***************************************************************************)
SectionStart(src, p) ==
  CHOOSE q \in {1} \union Starts[src] :
    /\ q <= p
    /\ \A r \in Starts[src] : r <= p => r <= q

WithoutOpenSection(d) ==
  LET kept == SectionStart(source, Len(d.sections)) - 1
  IN IF build.writer /\ d.sections # <<>>
       THEN [d EXCEPT !.sections = SubSeq(d.sections, 1, kept),
                      !.synced = IF d.synced < kept THEN d.synced ELSE kept]
       ELSE d

AbortWriter ==
  gen' = [g \in Generations |->
            IF g = build.generation THEN WithoutOpenSection(gen[g]) ELSE gen[g]]

(***************************************************************************)
(* fail() publishes a Failed checkpoint, unless the record of the current  *)
(* page can no longer be read: its spool was removed just before.  The     *)
(* write may itself fail.  A failure of a cancellation publishes nothing.  *)
(***************************************************************************)
MayPublishFailure ==
  /\ ~cancelRequested \/ Deferred
  /\ build.generation # 0
  /\ build.page = 0 \/ pc = "emit"

Fail ==
  LET slot   == SlotOf(build.sequence)
      failed == Checkpoint(build.sequence, source, build.generation,
                           "failed", "none", build.page)
  IN /\ \/ UNCHANGED ckpt
        \/ /\ MayPublishFailure
           /\ \E v \in {Torn, failed} : ckpt' = [ckpt EXCEPT ![slot] = v]
     /\ AbortWriter
     /\ End("failed")
     /\ UNCHANGED <<source, manifest>>

-----------------------------------------------------------------------------
(***************************************************************************)
(* The reader opens a PDF that has no product, after the previous          *)
(* preparation ended (ReaderActivity, PdfPrepareActivity).  Between two    *)
(* preparations another version may be put at the path.                    *)
(***************************************************************************)
Open ==
  /\ pc = "idle" /\ ~Readable(source)
  /\ pc' = "load" /\ build' = NoBuild /\ result' = "none"
  /\ UNCHANGED <<cardVars, cancelRequested, boundVars>>

Replace(s) ==
  /\ pc = "idle" /\ s # source
  /\ replacements < MaxReplacements /\ replacements' = replacements + 1
  /\ source' = s
  /\ UNCHANGED <<ckpt, manifest, gen, ramVars, faults, cancels>>

RequestCancel ==
  /\ pc # "idle" /\ ~cancelRequested
  /\ cancels < MaxCancels /\ cancels' = cancels + 1
  /\ cancelRequested' = TRUE
  /\ UNCHANGED <<cardVars, pc, build, result, faults, replacements>>

(***************************************************************************)
(* The activity is left without a cancellation: the destructor.            *)
(***************************************************************************)
Exit ==
  /\ pc # "idle"
  /\ cancels < MaxCancels /\ cancels' = cancels + 1
  /\ AbortWriter
  /\ End("left")
  /\ UNCHANGED <<source, ckpt, manifest, faults, replacements>>

(***************************************************************************)
(* Power loss takes the memory and what the files of the generation were   *)
(* not synchronized for.                                                   *)
(***************************************************************************)
PowerLoss ==
  /\ pc # "idle" /\ Fault
  /\ \/ UNCHANGED gen
     \/ /\ build.generation # 0
        /\ LET d == gen[build.generation]
           IN \E n \in d.synced..Len(d.sections), k \in d.sealed..d.recs :
                gen' = [gen EXCEPT ![build.generation].sections = SubSeq(@, 1, n),
                                   ![build.generation].recs = k]
  /\ End("none")
  /\ UNCHANGED <<source, ckpt, manifest, cancels, replacements>>

(***************************************************************************)
(* A step runs while nobody asked to cancel, or if it is deferred.         *)
(***************************************************************************)
At(p) == pc = p
Runs(p) == pc = p /\ ~cancelRequested
Goto(p) == pc' = p /\ UNCHANGED <<cancelRequested, result>>

-----------------------------------------------------------------------------
(***************************************************************************)
(* stepSetupCache.  The newest checkpoint of this version, and all valid   *)
(* manifest slots, of whichever version.                                   *)
(***************************************************************************)
Load ==
  /\ At("load")
  /\ build' = [build EXCEPT
       !.cp = Newest(ckpt, source),
       !.slots = [s \in Slots |-> IF IsRecord(manifest[s]) THEN manifest[s] ELSE Absent]]
  /\ Goto("restore")
  /\ UNCHANGED cardVars /\ Calm

(***************************************************************************)
(* A checkpoint that holds is resumed in its generation; the sections are  *)
(* cut to the verified page.                                               *)
(***************************************************************************)
RestoreEarlyUncut ==
  /\ At("restore") /\ EarlyHolds(build.cp)
  /\ LET cp == build.cp
     IN build' = [build EXCEPT !.generation = cp.gen, !.page = cp.page,
                               !.durable = cp.resume, !.resumed = cp.resume,
                               !.ready = TRUE]
  /\ Goto("select")
  /\ UNCHANGED cardVars /\ Calm

RestoreEarly ==
  /\ At("restore") /\ EarlyHolds(build.cp)
  /\ LET cp == build.cp
     IN /\ gen' = [gen EXCEPT ![cp.gen].sections = SubSeq(@, 1, cp.page),
                              ![cp.gen].synced = cp.page]
        /\ build' = [build EXCEPT !.generation = cp.gen, !.page = cp.page,
                                  !.durable = cp.resume, !.resumed = cp.resume,
                                  !.ready = TRUE]
  /\ Goto("select")
  /\ UNCHANGED <<source, ckpt, manifest>> /\ Calm

RestoreLate ==
  /\ At("restore") /\ LateHolds(build.cp)
  /\ LET cp == build.cp
     IN build' = [build EXCEPT !.generation = cp.gen, !.page = Pages,
                               !.durable = cp.resume, !.resumed = cp.resume,
                               !.ready = TRUE]
  /\ Goto("select")
  /\ UNCHANGED cardVars /\ Calm

(***************************************************************************)
(* No candidate, or rejectResumeState.                                     *)
(***************************************************************************)
Reject ==
  /\ At("restore") /\ ~EarlyHolds(build.cp) /\ ~LateHolds(build.cp)
  /\ Goto("select")
  /\ UNCHANGED <<cardVars, build>> /\ Calm

(***************************************************************************)
(* SelectGeneration.                                                       *)
(***************************************************************************)
NextSequence ==
  LET m == Newest(build.slots, source)
  IN IF IsRecord(build.cp) /\ (~IsRecord(m) \/ SequenceNewer(build.cp.seq, m.seq))
       THEN build.cp.seq + 1
       ELSE m.seq + 1

ProtectedIfSelected == {Newest(build.slots, source).gen}

Protected == {build.slots[s].gen : s \in {t \in Slots : IsRecord(build.slots[t])}}

Resumes == build.resumed # "none" /\ build.cp.gen \notin Protected

(***************************************************************************)
(* Generations are tried from the hash of the version upwards.             *)
(***************************************************************************)
FirstIfFree == {FirstGeneration[source]} \ (Listed \union Protected)

FreeGenerations ==
  {g \in Generations :
     /\ g >= FirstGeneration[source]
     /\ g \notin Listed \union Protected
     /\ ~(build.resumed = "none" /\ IsRecord(build.cp) /\ build.cp.gen = g)}

FreeGeneration == CHOOSE g \in FreeGenerations : \A h \in FreeGenerations : g <= h

StartCheckpoint(b, goal) == build' = [b EXCEPT !.goal = goal] /\ Goto("cpOpen")

AfterSetupEmits ==
  CASE build.resumed = "manifest"  -> "manifest"
    [] build.resumed = "sections"  -> "finish"
    [] build.resumed \in Early     -> "emit"
    [] OTHER                       -> "discover"

AfterSetup ==
  CASE build.resumed = "manifest"  -> "manifest"
    [] build.resumed = "sections"  -> "finish"
    [] build.resumed \in Early     -> IF build.page = Pages THEN "finish" ELSE "emit"
    [] OTHER                       -> "discover"

Select ==
  /\ At("select") /\ ~Crowded
  /\ Resumes \/ FreeGenerations # {}
  /\ LET g == IF Resumes THEN build.cp.gen ELSE FreeGeneration
         b == [build EXCEPT !.generation = g, !.sequence = NextSequence]
     IN /\ gen' = [gen EXCEPT ![g].made = TRUE]
        /\ IF cancelRequested THEN StartCheckpoint(b, "cancelled")
                              ELSE build' = b /\ Goto(AfterSetup)
  /\ UNCHANGED <<source, ckpt, manifest>> /\ Calm

(***************************************************************************)
(* listGenerations fails on more directories than its list holds.          *)
(***************************************************************************)
SelectFails == At("select") /\ Crowded /\ Fail /\ Calm

-----------------------------------------------------------------------------
(***************************************************************************)
(* Everything up to the page tree, then the journal's header.              *)
(***************************************************************************)
Discover ==
  /\ Runs("discover")
  /\ Goto("snapshot")
  /\ UNCHANGED <<cardVars, build>> /\ Calm

Snapshot ==
  /\ At("snapshot")
  /\ gen' = [gen EXCEPT ![build.generation].head = source]
  /\ StartCheckpoint(build, "discovery")
  /\ UNCHANGED <<source, ckpt, manifest>> /\ Calm

(***************************************************************************)
(* One page, from its content to stepCloseSection: its part is appended to *)
(* the section.  A due page checkpoint synchronizes the file, the end of a *)
(* section closes it.  Checkpoints end with the first image; they may come *)
(* at any other page and must come at the last.                            *)
(***************************************************************************)
ImageSeen(p) == \E i \in Images[source] : i <= p

NextPage(b, p) ==
  /\ build' = [b EXCEPT !.page = p]
  /\ Goto(IF p = Pages THEN "finish" ELSE "emit")

EmitPage(due) ==
  LET p    == build.page + 1
      open == p < Pages /\ p + 1 \notin Starts[source]
      b    == [build EXCEPT !.due = due, !.writer = open]
  IN /\ Runs("emit")
     /\ due => ~ImageSeen(p)
     /\ p = Pages /\ ~ImageSeen(p) => due
     /\ gen' = [gen EXCEPT
          ![build.generation].sections = Append(@, <<source, p>>),
          ![build.generation].synced = IF due \/ ~open THEN p ELSE @]
     /\ IF ImageSeen(p) THEN NextPage(b, p) ELSE build' = b /\ Goto("record")
     /\ UNCHANGED <<source, ckpt, manifest>> /\ Calm

(***************************************************************************)
(* stepCommitPageResume: the journal record of the page is written where   *)
(* the committed journal ends; a due checkpoint closes the journal first.  *)
(***************************************************************************)
Record ==
  /\ At("record")
  /\ gen' = [gen EXCEPT ![build.generation].recs =
                IF @ < build.page + 1 THEN build.page + 1 ELSE @]
  /\ IF build.due THEN build' = build /\ Goto("seal")
                  ELSE NextPage(build, build.page + 1)
  /\ UNCHANGED <<source, ckpt, manifest>> /\ Calm

Seal ==
  /\ At("seal")
  /\ gen' = [gen EXCEPT ![build.generation].sealed = gen[build.generation].recs]
  /\ StartCheckpoint(build, "page")
  /\ UNCHANGED <<source, ckpt, manifest>> /\ Calm

-----------------------------------------------------------------------------
(***************************************************************************)
(* stepCommitCheckpoint.  A cancellation republishes the durable page      *)
(* checkpoint; otherwise it promises what the ledger it wrote lets resume. *)
(***************************************************************************)
Republishes == build.durable \in Early /\ build.cp.resume = build.durable

CancelledResume ==
  IF ~build.ready THEN "none"
  ELSE IF build.emitReady THEN build.durable ELSE "manifest"

NewCheckpoint ==
  CASE build.goal = "discovery" ->
         Checkpoint(build.sequence, source, build.generation, "pages", "discovery", 0)
    [] build.goal = "page" ->
         Checkpoint(build.sequence, source, build.generation, "pages", "page", build.page + 1)
    [] build.goal = "complete" ->
         Checkpoint(build.sequence, source, build.generation, "complete", "none", build.page)
    [] OTHER ->
         IF Republishes
           THEN [build.cp EXCEPT !.seq = build.sequence, !.phase = "cancelled"]
           ELSE Checkpoint(build.sequence, source, build.generation,
                           "cancelled", CancelledResume, build.page)

CommitsCheckpoint(p) ==
  /\ At(p)
  /\ Deferred \/ build.goal = "cancelled" \/ ~cancelRequested

CpOpen ==
  /\ CommitsCheckpoint("cpOpen")
  /\ build' = [build EXCEPT !.cp = NewCheckpoint]
  /\ ckpt' = [ckpt EXCEPT ![SlotOf(build.sequence)] = Torn]
  /\ Goto("cpWrite")
  /\ UNCHANGED <<source, manifest, gen>> /\ Calm

CpWrite ==
  /\ CommitsCheckpoint("cpWrite")
  /\ ckpt' = [ckpt EXCEPT ![SlotOf(build.sequence)] = build.cp]
  /\ LET b == [build EXCEPT !.durable = build.goal, !.ready = TRUE,
                            !.sequence = @ + 1, !.goal = "none"]
     IN CASE build.goal = "discovery" -> build' = b /\ Goto("emit")
          [] build.goal = "page"      -> NextPage(b, build.page + 1)
          [] build.goal = "complete"  -> build' = build /\ Goto("tidy")
          [] OTHER                    -> End("paused")
  /\ UNCHANGED <<source, manifest, gen>> /\ Calm

-----------------------------------------------------------------------------
(***************************************************************************)
(* After the last page: images are decoded and sections repaired, then the *)
(* metadata and the outline are written.  A build resumed at the sections  *)
(* has them.                                                               *)
(***************************************************************************)
CloseSource ==
  /\ Runs("finish")
  /\ Goto(IF build.resumed = "sections" THEN "manifest" ELSE "outline")
  /\ UNCHANGED <<cardVars, build>> /\ Calm

Outline ==
  /\ Runs("outline")
  /\ gen' = [gen EXCEPT ![build.generation].outline = TRUE]
  /\ Goto("manifest")
  /\ UNCHANGED <<source, ckpt, manifest, build>> /\ Calm

(***************************************************************************)
(* stepCommitManifest: the slot opposite the newest valid one.             *)
(***************************************************************************)
TargetSlot ==
  LET a == build.slots["A"]
      b == build.slots["B"]
  IN IF IsRecord(a) /\ (~IsRecord(b) \/ ~SequenceNewer(b.seq, a.seq)) THEN "B" ELSE "A"

OpenManifest ==
  /\ Runs("manifest")
  /\ manifest' = [manifest EXCEPT ![TargetSlot] = Torn]
  /\ Goto("writeManifest")
  /\ UNCHANGED <<source, ckpt, gen, build>> /\ Calm

WriteManifest ==
  /\ Runs("writeManifest")
  /\ manifest' = [manifest EXCEPT ![TargetSlot] =
                     Manifest(build.sequence, source, build.generation)]
  /\ Goto("verify")
  /\ UNCHANGED <<source, ckpt, gen, build>> /\ Calm

VerifyManifest ==
  /\ Runs("verify")
  /\ StartCheckpoint([build EXCEPT !.slots[TargetSlot] = manifest[TargetSlot]], "complete")
  /\ UNCHANGED cardVars /\ Calm

(***************************************************************************)
(* stepCleanup: the build's own resume files, then every generation that   *)
(* no manifest slot held in memory names.                                  *)
(***************************************************************************)
Tidy ==
  /\ Runs("tidy")
  /\ gen' = [gen EXCEPT ![build.generation].ledger = [s \in Slots |-> 0],
                        ![build.generation].control = 0]
  /\ Goto("sweep")
  /\ UNCHANGED <<source, ckpt, manifest, build>> /\ Calm

Unprotected == Listed \ Protected

Sweep(g) ==
  /\ Runs("sweep") /\ ~Crowded /\ g \in Unprotected
  /\ gen' = [gen EXCEPT ![g] = NoGeneration]
  /\ UNCHANGED <<source, ckpt, manifest, ramVars>> /\ Calm

SweepFails == Runs("sweep") /\ Crowded /\ Fail /\ Calm

Complete ==
  /\ Runs("sweep") /\ Unprotected = {}
  /\ End("complete")
  /\ UNCHANGED cardVars /\ Calm

-----------------------------------------------------------------------------
(***************************************************************************)
(* cancel().  During setup the restored page checkpoint is preserved as it *)
(* is, or the handle that was being read is gone and the cancellation      *)
(* fails; else the setup goes on until there is a generation to name.      *)
(***************************************************************************)
StopSetup ==
  /\ cancelRequested
  /\ \E res \in {"paused", "failed"} :
       /\ \/ At("load")
          \/ At("restore") /\ (build.cp.resume \in Early <=> res = "paused")
       /\ End(res)
  /\ UNCHANGED cardVars /\ Calm

(***************************************************************************)
(* canResumeAfterEmitSections: between the last page and the metadata, or  *)
(* between two images.                                                     *)
(***************************************************************************)
AtBoundary == At("finish") /\ (build.resumed # "sections" \/ Images[source] # {})

CancelAtSections ==
  /\ cancelRequested /\ AtBoundary
  /\ build' = [build EXCEPT !.durable = "sections"]
  /\ gen' = [gen EXCEPT ![build.generation].outline = FALSE]
  /\ Goto("resumeOutline")
  /\ UNCHANGED <<source, ckpt, manifest>> /\ Calm

ResumeOutline ==
  /\ At("resumeOutline")
  /\ gen' = [gen EXCEPT ![build.generation].outline = TRUE]
  /\ Goto("resumeControl")
  /\ UNCHANGED <<source, ckpt, manifest, build>> /\ Calm

ResumeControl ==
  /\ At("resumeControl")
  /\ gen' = [gen EXCEPT ![build.generation].control = build.sequence]
  /\ Goto("resumeLedger")
  /\ UNCHANGED <<source, ckpt, manifest, build>> /\ Calm

CancelAtManifest ==
  /\ cancelRequested /\ At("manifest")
  /\ build' = [build EXCEPT !.durable = "manifest"]
  /\ Goto("resumeLedger")
  /\ UNCHANGED cardVars /\ Calm

ResumeLedger ==
  /\ At("resumeLedger")
  /\ gen' = [gen EXCEPT ![build.generation].ledger[SlotOf(build.sequence)] = build.sequence]
  /\ StartCheckpoint([build EXCEPT !.ready = TRUE,
                                   !.emitReady = build.durable = "sections"], "cancelled")
  /\ UNCHANGED <<source, ckpt, manifest>> /\ Calm

(***************************************************************************)
(* Anywhere else: the open writer is aborted, unless the page is just      *)
(* being emitted behind a page checkpoint, and a manifest that is not      *)
(* verified yet is removed.                                                *)
(***************************************************************************)
UnverifiedOrNamed == pc \in {"writeManifest", "verify", "cpOpen", "cpWrite"}

Unverified == pc \in {"writeManifest", "verify"}

KeepsWriter == At("emit") /\ build.durable = "page"

CancelElsewhere ==
  /\ cancelRequested
  /\ \/ pc \in {"discover", "emit", "outline", "writeManifest", "verify", "tidy", "sweep"}
     \/ At("finish") /\ (~AtBoundary \/ Images[source] # {})
     \/ pc \in {"cpOpen", "cpWrite"} /\ build.goal = "complete"
  /\ manifest' = IF Unverified THEN [manifest EXCEPT ![TargetSlot] = Absent] ELSE manifest
  /\ AbortWriter \/ (KeepsWriter /\ UNCHANGED gen)
  /\ StartCheckpoint([build EXCEPT !.writer = FALSE], "cancelled")
  /\ UNCHANGED <<source, ckpt>> /\ Calm

-----------------------------------------------------------------------------
(***************************************************************************)
(* An operation on the card fails: fail, or finishCancelledFailure.        *)
(***************************************************************************)
IoFails ==
  /\ pc # "idle" /\ Fault
  /\ Fail
  /\ UNCHANGED <<cancels, replacements>>

Setup == Load \/ RestoreEarly \/ RestoreLate \/ Reject \/ Select \/ SelectFails

Emission ==
  \/ Discover \/ Snapshot \/ (\E due \in BOOLEAN : EmitPage(due)) \/ Record \/ Seal
  \/ CpOpen \/ CpWrite

Commit ==
  \/ CloseSource \/ Outline \/ OpenManifest \/ WriteManifest \/ VerifyManifest
  \/ Tidy \/ (\E g \in Generations : Sweep(g)) \/ SweepFails \/ Complete

Cancellation ==
  \/ StopSetup \/ CancelAtSections \/ ResumeOutline \/ ResumeControl
  \/ CancelAtManifest \/ ResumeLedger \/ CancelElsewhere

(***************************************************************************)
(* PdfPreparation::step.                                                   *)
(***************************************************************************)
Step == Setup \/ Emission \/ Commit \/ Cancellation

User == Open \/ RequestCancel \/ Exit \/ (\E s \in Sources : Replace(s))

Next == Step \/ User \/ IoFails \/ PowerLoss

Spec == Init /\ [][Next]_vars

(***************************************************************************)
(* The activity's loop steps a preparation until it ends, and a book that  *)
(* is wanted is opened again.                                              *)
(***************************************************************************)
FairSpec == Spec /\ WF_vars(Step) /\ WF_vars(Open)

-----------------------------------------------------------------------------
(***************************************************************************)
(* Properties.                                                             *)
(***************************************************************************)
(* Every variable holds a value of its kind.                               *)
Goals == {"none", "discovery", "page", "complete", "cancelled"}
Labels ==
  {"idle", "load", "restore", "select", "discover", "snapshot", "emit", "record",
   "seal", "cpOpen", "cpWrite", "finish", "outline", "manifest", "writeManifest",
   "verify", "tidy", "sweep", "resumeOutline", "resumeControl", "resumeLedger"}
SlotContents ==
  [kind : {"absent", "torn"}, seq : {0}, src : {NoSource}, gen : {0},
   phase : {"failed"}, resume : {"none"}, page : {0}]
  \union [kind : {"record"}, seq : Nat, src : Sources, gen : Generations,
          phase : Phases, resume : ResumePhases, page : 0..Pages]
GenerationContents ==
  [made : BOOLEAN, sections : Seq(Sources \X (1..Pages)), synced : Nat,
   head : Sources \union {NoSource}, recs : 0..Pages, sealed : 0..Pages,
   outline : BOOLEAN, control : Nat, ledger : [Slots -> Nat]]
Builds ==
  [generation : {0} \union Generations, sequence : Nat, page : 0..Pages,
   cp : SlotContents, slots : [Slots -> SlotContents], durable : ResumePhases,
   ready : BOOLEAN, emitReady : BOOLEAN, resumed : ResumePhases,
   due : BOOLEAN, writer : BOOLEAN, goal : Goals]

TypeOK ==
  /\ source \in Sources
  /\ ckpt \in [Slots -> SlotContents] /\ manifest \in [Slots -> SlotContents]
  /\ gen \in [Generations -> GenerationContents]
  /\ pc \in Labels /\ cancelRequested \in BOOLEAN
  /\ build \in Builds
  /\ result \in {"none", "complete", "paused", "failed", "left"}
  /\ faults \in 0..MaxFaults /\ cancels \in 0..MaxCancels
  /\ replacements \in 0..MaxReplacements

(* A valid manifest names a complete product of its version, whatever      *)
(* preparations of other versions, power losses and cleanups came after.   *)
ManifestNamesProduct ==
  \A s \in Slots : IsRecord(manifest[s]) =>
    LET d == gen[manifest[s].gen]
    IN d.made /\ d.outline /\ d.sections = PagesOf(manifest[s].src, Pages)

(* A build that emits pages stands on the pages before them, each written  *)
(* once and by the same version, however often it was interrupted.         *)
BuildStandsOnItsPages ==
  pc \in {"emit", "finish", "outline", "manifest"} =>
    gen[build.generation].sections = PagesOf(source, build.page)

(***************************************************************************)
(* A manifest that is not verified yet is not published.                   *)
(***************************************************************************)
Published == {s \in Slots : IsRecord(manifest[s]) /\ ~(pc = "verify" /\ s = TargetSlot)}

Have == {manifest[s].src : s \in Published}

(***************************************************************************)
(* What a checkpoint that holds is worth, and how far a preparation of src *)
(* could start from what the card holds.                                   *)
(***************************************************************************)
Grade(cp) ==
  CASE EarlyHolds(cp) /\ cp.resume = "discovery" -> 1
    [] EarlyHolds(cp) /\ cp.resume = "page"      -> 1 + cp.page
    [] LateHolds(cp)                             -> Pages + 2
    [] OTHER                                     -> 0

Progress(src) == IF src \in Have THEN Pages + 3 ELSE Grade(Newest(ckpt, src))

(* No step, no power loss and no I/O error costs the reader's version what *)
(* its preparation has published: only a build that failed, one that is    *)
(* stopped while its section file is open, and one that is stopped again   *)
(* after it was resumed late may lose it.                                  *)
NoProgressLost ==
  [][\/ Progress(source)' >= Progress(source)
     \/ source' # source
     \/ result' = "failed"
     \/ build.writer /\ (cancelRequested \/ result' = "left")
     \/ build.resumed \in Late /\ cancelRequested]_vars

(* An asked-for preparation is finished in the end, if the power stays on  *)
(* and nobody cancels any more, unless unfinished generations have filled  *)
(* the list that a preparation starts from.                                *)
PreparationFinishes == []<>(Readable(source) \/ Crowded)

(* STR_PDF_CANCEL_RESUME (english.yaml) tells the reader: "You can cancel  *)
(* now and resume later"; a preparation cancelled after a page was         *)
(* published can be resumed at a page.                                     *)
CancelKeepsPages ==
  [][result' = "paused" /\ build.durable = "page" => Progress(source)' > 1]_vars

(***************************************************************************)
(* The abstract preparation.                                               *)
(***************************************************************************)
Promise == INSTANCE AtomicPreparation WITH
  have <- Have

(* The interrupted preparation implements the atomic one.                  *)
ImplementsAtomicPreparation == Promise!Spec

=============================================================================
