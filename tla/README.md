# Verification of CrossInk (PDF build)

TLA+ models of the firmware in `src/`, checked with TLC on small instances and,
where a property should hold for every instance, proved with TLAPS. The firmware
runs an e-paper reader on an ESP32: one main loop task, a render task, a handful
of short-lived workers, an SD card that may lose power between any two writes,
and no operating system that would clean up afterwards. Its hard parts are the
protocols that keep the card consistent (journals, two-slot records, replace by
rename) and the hand-offs between tasks; those are what is modelled.

Paths below are relative to the repository root (`src/` here).

## 1. Inventory

### Durable mutations of books

| Part | State it keeps | Operations |
| --- | --- | --- |
| Move journal, `lib/BookStateMigration/BookStateMigrationJournal.cpp` | two slot files `/.crosspoint/book_move.a`, `.b`, each a record (sequence, phase, old and new path and hash, recents policy) with a CRC and a commit marker | `load` (newest valid slot), `begin`, `advance` (opposite slot), `cleanup` (stale slot, then newest), `recoverOne` (one phase) |
| Move coordinator, `BookMoveCoordinator.cpp` | none of its own | `begin`, `recover` with a budget of 9 steps |
| Book move, `src/util/BookMoveUtils.cpp` | the source file; the cache directory, bookmarks and clippings keyed by a hash of the path; `journalPresence`, an atomic summary of the journal for readers | `moveBook`, `recoverPendingBookMove`, `mutationFenceForPath`, `migrationCacheHash`, the domain operations of every phase |
| Delete journal and coordinator, `PdfDeleteJournal.cpp`, `PdfDeleteCoordinator.cpp` | two slot files `pdf_delete.a`, `.b` | `load` (equal sequences are corrupt), `begin` with read-back reconciliation, `advance`, `cleanup`, `discardPrepared`; `begin`, `step`, `recover` with a budget of 7 steps, `abandonPrepared` |
| PDF delete, `src/util/PdfDeleteUtils.cpp` | the source, its hidden tombstone, the path's reading state, an atomic presence | `deletePdfBook`, `recoverPendingPdfDelete`, `mutationFenceForPath` |
| Directory delete, `src/util/PdfDirectoryDeleteScan.cpp` | a bounded spool of the PDFs below a directory | scan, dispatch to the single-book delete |
| Durable replace, `src/util/BookMoveDurableFile.cpp` | canonical, `.tmp`, `.bak` of a state file | `replace`, `recoverArtifacts`, `restoreCanonicalForRead` |
| Atomic upload, `lib/BookUpload/AtomicBookUpload.cpp` | target, `.tmp`, `.bak`, `.commit` marker | `begin`, `write`, `finish`, `abort`, recovery of interrupted uploads |

A move and a delete are run by the main loop task (file browser, web server,
boot). Each refuses to start while the other's journal is pending, because both
replace the one global `recent.json`. Readers ask both for a fence before they
open or mutate a book.

### Reading state

| Part | State | Operations |
| --- | --- | --- |
| `src/RecentBooksStore.cpp`, `src/CrossPointState.cpp` | the recent books, the open book: RAM and JSON on disk | load, save, `activatePathMigration`, `removeByPathDurably`, `activateOpenPathMigration` |
| `lib/PdfReflow/PdfCacheStore.cpp`, `PdfCacheManifest.cpp`, `PdfBuildCheckpoint.cpp` | manifest and checkpoint slots, generation directories | begin and commit a generation, checkpoint, open the current one, clean up unreferenced ones |
| `PdfPreparation.cpp`, `PdfReflowDocument.cpp` | a cooperative build of the reflowed text | step, cancel, resume |
| `PdfProgressStore.cpp`, `PdfSavedItemsStore.cpp`, `src/activities/reader/PdfSavedItemsSession.cpp` | progress slots, bookmarks and clippings | load, save |
| `BookmarkStore`, `ClippingStore`, `GlobalReadingStats`, `StatsBackup`, `ReaderProgressSaveDebouncer` | bookmarks, clippings, statistics, pending save | load, save, merge, backup |

### Tasks

| Part | State | Operations |
| --- | --- | --- |
| `src/activities/ActivityManager.cpp` | the activity stack, the pending action, the render notification, the waiting task | `loop`, `pushActivity`, `replaceActivity`, `popActivity`, `requestUpdate`, `requestUpdateAndWait`, the render task |
| `src/activities/reader/PdfPrepareActivity.cpp` | a preparation in slices on the main loop | start, slice, cancel |
| Dictionary lookup, `DictionaryLookupController`, `DictionaryLookupWorker`, `src/util/Task.h` | a worker task and its result | start, poll, cancel |
| `lib/hal/HalPowerManager`, `HalStorage`, `HalSpiBus` | CPU frequency locks, the SD mutex, the shared bus | lock, unlock, power saving |

### Network and updates

`CrossPointWebServer`, `WebDAVHandler` (file operations over HTTP),
`NearbyBookTransfer`, `NearbyStatsSync`, `NearbyBookPositionSync` (device to
device), `KOReaderSyncActivity` and `lib/KOReaderSync`, `WifiSelection`,
`HttpDownloader`, `UsbSerialFileTransfer`, `FirmwareFlasher`, `OtaUpdater`,
`OtaBootSwitch`.

### Content and presentation

`lib/Epub`, `Txt`, `Xtc`, `lib/PdfReflow`'s parser, `FileIndex`, `GfxRenderer`,
fonts, themes, settings, translations. Mostly pure computation over a file; the
least likely place for a defect that interleaving or power loss would show.

### What is hard

* **Power loss.** A move has nine durable phases over five kinds of state; a
  delete seven. Every write is truncate, write, sync, close, read back, and the
  reader may be switched off between any two.
* **Partial failure.** Removing the slot that could not be written may itself
  fail; a rename that reports failure may have happened; a save that fails may
  have published its file.
* **Two mutations.** If a move and a delete were ever pending together, each
  recovery would refuse because of the other, for good.
* **Uploads.** Over USB and WebDAV they ask neither journal and may put a file at
  a path that a pending move or delete is about; a web upload asks only whether
  a pending move names its path.
* **Budgets.** Recovery is a fixed number of steps with none to spare.
* **Two tasks.** The render task reads whatever activity is current while the
  main task pushes, pops and deletes activities, and the main task may block
  until a drawing is done.

### What makes each part correct

| Part | Correct when |
| --- | --- |
| Book move | the key a reader resolves always holds all of the book's state; a started move ends; nothing else is overwritten |
| PDF delete | only the named book suffers; a started deletion ends; Complete means gone |
| Move and delete | never both pending; a cached absence is true; boot resumes only into a book at rest |
| Atomic upload | old or new content, never neither, never a mixture; the answer is true |
| Activity manager | nothing deleted is drawn; results and wake-ups arrive; changes are drawn |
| Durable replace | a state file is old or new, and readers find it under one of three names |
| PDF cache store | the newest valid manifest refers to complete files; clean-up spares what is referenced |
| Progress, saved items, statistics | the newest saved value is read back; a merge loses nothing |
| Dictionary worker | a result belongs to the lookup that asked; a controller outlives its worker's use of it |
| Nearby transfer, synchronisation | what is received is what was sent, once; a retry changes nothing |
| Firmware update | the device always boots a complete image |

## 2. Plan

The modules, in order of importance. Each detailed module is written together
with an abstract one that says what the component promises, and has its theorems
in a module of its own.

| | Component | Promise | Proofs |
| --- | --- | --- | --- |
| 1 | `BookMove` | `AtomicMove`, `AtomicJournal` | `BookMoveProofs` |
| 2 | `PdfDelete` | `AtomicDelete`, `AtomicJournal` | `PdfDeleteProofs` |
| 3 | `BookMutation`: 1 and 2 composed by their fences | `AtomicJournal`, twice | `BookMutationProofs` |
| 4 | `AtomicUpload` | `AtomicReplace` | `AtomicUploadProofs` |
| 5 | `ActivityManager` | | `ActivityManagerProofs` |
| 6 | `PdfPreparation`, with the part of the cache store it commits through | `AtomicPreparation` | `PdfPreparationProofs`, `PdfResumeProofs` |
| 7 | `DictionaryLookup`: worker, controllers, history and the way back | | `DictionaryLookupProofs` |

`MC<Module>` gives the constants of a module their values for TLC.

TLC's bounds follow one rule: two or three keys, one to four failures placed
anywhere, two operations in a row (the second meets what the first left). The
theorems hold without bounds.

Left out of the plan, and why: section 7.

## 3. Modules and the code

Common to the storage modules. A program counter (`pc`, `stage`) says which
operation on the card comes next, one action per operation; a *fault* is either an
operation that fails or a loss of power, and each takes one from a bound named
`MaxFaults`. Power loss keeps what is on the card and resets what is in RAM. A
slot that was truncated but not completely written is `Torn`: it fails the CRC.
Rename and remove of one name are atomic, as FAT's directory entry updates are
taken to be by the code. Bytes, CRCs and digests are abstracted to equal or not.

### BookMove

| Module | Code |
| --- | --- |
| `slot`, `Select`, `Corrupt` | `Journal::load`, `decode` and the choice of the newest slot |
| `file`, `store` | which file lies at each path; whose state lies under the key of each path, per part |
| `recents`, `open` | `recent.json` and `state.json`, with their copies in RAM |
| `StartMove`, `Load`, `Check`, `Begin` | `moveBook`, its own recovery first, then `Coordinator::begin` |
| `Locate`, `RenameSource`, `RenameFails`, `CopyPart`, `CopyDone`, `VerifyState`, `ActivateRecent`, `ActivateOpenPath`, `VerifyActivation`, `RemoveOldPart`, `RemoveDone`, `Cleanup`, `CleanupDone` | `recoverOne`, phase by phase, with the domain operation it calls |
| `Truncate`, `Write`, `Close`, `Unwrite` | `writeRecord`, with the removal of a slot that could not be written, which may fail too |
| `Upload`, `OpenBook`, `ShowRecents` | other users of the card between the steps: a file put at a free path, the reader that resolves a key, the list that prunes missing files |
| `KeyOf`, `KeyUnder` | `migrationCacheHash`: old key before Activated, new key from it on |

`AtomicMove` knows only the *home* of the book's state; `Promise` maps the journal
and the files to it, and `ImplementsAtomicMove` is the refinement: the home
switches once, between the durable intent and the end of it. `AtomicJournal` knows
only what `load` finds: empty, arming, pending with its mutation, or corrupt; the move's
and the delete's two slots implement it, and `BookMutation` builds on no more.

### PdfDelete

Six operations between seven records, then `Cleanup`. `Find` is the choice of a
pending record over the requested path, `Reconcile` the read-back after a failed
`begin`, `Resume` and the boot `recoverPendingPdfDelete`, `AskFence` the fence,
with `presence` the cached answer. The tombstone name of each path is a place of its own
(`hidden`), where a foreign file may lie (`stray`). `AtomicDelete` is the life of
a path: kept, doomed, hidden, gone. `Coordinator::abandonPrepared` and
`Journal::discardPrepared` are called by tests only and left out.

### BookMutation

Each journal is reduced to what `load` makes of it (empty, corrupt, a pending
record) and each recovery to one or two steps; what is kept is every question one
mutation asks of the other (`MoveFence`, `AskMove`, `DeleteRecoverFence`,
`DeleteFence`), when, with which cached answer (`presence`), and what it does
when the answer is unreadable. `Boot`, `BootMove` and `Resume` are `setup()` of
`main.cpp`: deletion first, move only if that is finished, then the choice to
reopen the book that was open.

### AtomicUpload

One target and its three siblings. `Begin` recovers what an earlier upload left;
`Finish` leads through `BackUp`, `CreateMarker`, `FillMarker`, `Promote`, `Hook`
(the drop of the old caches), `Unmark` and `DropBackup`; every failure enters a
roll-back whose remaining chores are the set `todo`, each of which may fail.
`ForeignWhen` says when other writers (USB, WebDAV) may reach the path: when the
path is clean, or even with an interrupted upload's leftovers beside it. The
runs and the refinement use the first. With `"leftover"`, `KeptSurvives` does not
hold: the next upload's recovery prefers the backup to the newer file, and
nothing in the code promises otherwise. `AtomicReplace` is what an upload
promises: one step that gives the new content and answers Ok, or a refusal.

### ActivityManager

| Module | Code |
| --- | --- |
| `current`, `stack`, `pending`, `handler` | `currentActivity`, `stackActivities`, `pendingAction` with `pendingActivity`, each activity's `resultHandler` |
| `main`, `code` | where the main task is: in activity code (`loop()`, `onEnter` or a result handler), blocked, in the loop over pending actions, at the end of `loop()` |
| `lock`, `notified`, `waiter`, `woken` | `renderingMutex`, the two notification counts as zero or not, `waitingTaskHandle` |
| `painter`, `drawing`, `screen` | the render task, what it draws, and whether the last drawing shows the latest change |
| `Push`, `Pop`, `Replace` | `pushActivity`, `popActivity`, `replaceActivity` |
| `PopTop`, `Resume`, `PushPending`, `ReplacePending`, `Launch`, `Enter` | the loop over pending actions |
| `RequestUpdate`, `RequestUpdateNow`, `Wait`, `Rejected`, `Kick`, `Rendered`, `Flush` | `requestUpdate`, `requestUpdateAndWait`, the end of `loop()` |
| `TakeNotification` .. `Release` | `renderTaskLoop` |

Activity code is one pattern: change what is shown under the lock, request a
drawing in one of the three ways, navigate or return. `onEnter` may also change
what is shown without the lock, as `AlertActivity::onEnter` does; the screen is
then `raced`, and `requestUpdateAndWait` promises nothing of that change. `asked`
and `alive` are history variables. A critical section (`renderStateMux`) or a
section under the mutex into which the other task cannot look is one step.

### PdfPreparation

| Module | Code |
| --- | --- |
| `ckpt`, `manifest` | `build.a`, `build.b` and `manifest.a`, `manifest.b`, each a record, torn or absent |
| `gen` | the generation directories: the sections with the pages in them, the page journal, the outline, the resume ledgers; `synced` and `sealed` are how much of the first two a power loss leaves |
| `build` | the fields of a running `PdfPreparation` |
| `Load`, `RestoreEarly`, `RestoreLate`, `Reject`, `Select` | `stepSetupCache`: the newest checkpoint and the valid manifests, whether a checkpoint still holds, the generation |
| `Discover`, `Snapshot`, `EmitPage`, `Record`, `Seal`, `CpOpen`, `CpWrite` | everything up to the page tree, then page by page, with the checkpoints |
| `CloseSource`, `Outline`, `OpenManifest`, `WriteManifest`, `VerifyManifest`, `Tidy`, `Sweep`, `Complete` | from the last page to the published product and the clean-up |
| `StopSetup`, `CancelAtSections`, `ResumeOutline`, `ResumeControl`, `CancelAtManifest`, `ResumeLedger`, `CancelElsewhere` | `cancel()`, by where it is noticed |
| `Open`, `Replace`, `Exit`, `PowerLoss`, `IoFails` | the reader, another version of the file put at the path, leaving the screen, faults |

What a page holds and how it is parsed is not modelled: a page is the pair of a
version and a number, a section is a sequence of them. `Progress` orders what a
card lets a preparation start from, for the properties. `AtomicPreparation`
knows only which versions have a product; `Have` maps the manifests to it, without
one that is not verified yet.

### DictionaryLookup

| Module | Code |
| --- | --- |
| `lookup` | the fields of both `DictionaryLookupController`s |
| `owner`, `notified`, `worker` | `DictionaryLookupWorker`: `owner_`, its task notification, where it is in `run` and `runLookup` |
| `Take`, `Prepare`, `Locate`, `Judge`, `Finish`, `Release` | `run`, `runLookup`, field by field |
| `Poll`, `RequestCancel`, `AnswerPrompt`, `Dismiss` | `handleInput` and what the screens do with its events |
| `LookUp`, `Suggest`, `OpenPicker`, `PickDictionary`, `Back` | everything that starts a lookup; `Start` is refused while the worker is busy |
| `history`, `chain`, `definition` | the visible `LookupHistory`, `LookupChain`, and the definition screen's index and flags |
| `Leave`, `Left` | `onExit` with `waitForOwner` |

Each entry of `chain` carries the word that was left there, which the code does
not keep: the property compares it with the word that the position in the history
leads to. `steady` is a history variable: it is reset by each of the events after
which the code's positions are known to be wrong (section 5), and
`BackFindsTheWordLeft` speaks of the rest.

## 4. Runs

| Run | Instance | Shows |
| --- | --- | --- |
| `move_safety` | 3 paths, 1 cache file, 3 faults, 2 moves, 1 upload | state follows the book, the old path is forgotten, the budget suffices, Complete is durable, no file is overwritten, the list keeps the book |
| `move_live` | 2 paths, 2 faults, 2 moves | a durable move ends; refinement of `AtomicMove` |
| `move_interrupted_begin` | 2 paths, 1 fault | violation: see findings |
| `delete` | 2 paths, 2 faults, 2 deletions, 1 upload | a cached absence is true, only the named suffer, the tombstone goes last, Complete means gone, a deletion ends; refinement of `AtomicDelete` |
| `mutations` | 3 paths, 4 faults, 4 calls | never both journals, cached presence sound, resume safe, pending work finishes |
| `upload_safety` | 2 contents, unbounded uploads and faults | content survives, answers are true; refinement of `AtomicReplace` |
| `upload_retry` | 2 contents | violation: see findings |
| `screens` | 3 activities, 1 below the current one, 1 navigation by `onEnter` or a handler per `loop()` | all of `ActivityManager`'s properties, safety and liveness |
| `preparation` | 2 versions of 2 pages, 6 generations of which the list holds 2, 1 fault, 1 cancellation, 2 replacements | manifests are true, builds continue where they stopped, nothing published is lost, a preparation finishes; refinement of `AtomicPreparation` |
| `cancel_loses_pages` | the same, 1 cancellation only | violation: see findings |
| `dictionary` | 2 words, 2 dictionaries, a history of 3 | the worker's owner lives, the answer is of the word, the way back is right, lookups end |
| `dictionary_back` | the same | violation: see findings |

**Why the bounds are enough.** Three paths are a source, a target and a bystander;
the delete's properties speak of one path and one other. Two calls in a row let
the second meet what the first left. Two faults are an interrupted operation and an
interrupted recovery; the third in `move_safety` falls into the removal of what
the recovery wrote, and four in `mutations` cover both sides. All files of a cache are
treated alike, so one stands for them. Two contents tell old from new. Three
activities let one be below, one current and one new; a deeper stack repeats
the same steps. `AtomicUpload` has no bound at all: its state is
finite. Two pages are a first, which a checkpoint may name while its section is
still open, and a last; one version has both in one section and the other a
section each, with an image in it. A list of two generations is crowded by three,
which two versions and one interruption reach. A history of three drops words
while the chain still refers to later ones. `dictionary` lets the card take
every word; with `CardFails = TRUE` it holds as well and is larger.

**Symmetry.** Paths are interchangeable in `move_safety`; runs with liveness do
not use symmetry.

**Fairness.** The storage modules assume weak fairness of `Working` (the task that
runs a mutation is scheduled), `Boot` (a sleeping reader is woken again; each wake
is a boot) and `Sleep` (a reader left alone goes to sleep). Nothing is assumed of
the user or of faults; `MaxFaults` says that these end. The recovery that does the
work runs only at boot or with the next mutation, so without `Sleep` and `Boot`
nothing obliges it to. `PdfPreparation` assumes that the activity's loop steps a
running preparation and that a book that is wanted is opened again, nothing of
cancellations. `DictionaryLookup` assumes that the worker task and the main loop
are scheduled (equal priorities, and the main loop delays); that the user presses
anything is not assumed. `ActivityManager` assumes weak fairness of both tasks, that
a task waiting for the mutex gets it in the end (strong fairness of the steps that
only wait for it), and that `loop()` reaches the activity's code again and again:
the frontlight gesture returns before anything is flushed, and a user who made it
in every single loop could hold a drawing back for ever.

**What a deadlock would mean.** TLC checks it in every run but the two of
`PdfPreparation`: the reader can always go on, if only to sleep and boot. In
`screens` this covers the mutex and the two notifications. A preparation that has
finished stops for good once the bounds on replacements are used up, as there is
nothing left to prepare, so its runs do not ask.

## 5. Findings

* `move_interrupted_begin`: power lost while `begin` writes its first record
  leaves a torn slot; `load` reports Corrupt from then on, and nothing removes
  it, although the plan says that a failure before the rename clears safely. Every
  later move, and every delete that asks the move's fence, is refused.
* `upload_retry`: a roll-back interrupted between putting the backup back and
  removing the marker leaves a marker that no later `begin` can roll back.
* `cancel_loses_pages`: a preparation that is cancelled while the page after a
  published one is being parsed removes the open section file, and with it the
  pages its checkpoint names. The next preparation starts from the first page,
  although the screen says "You can cancel now and resume later".
* `dictionary_back`: a word that is not found is recorded in the history, but the
  chain is not told: Back then leads to that word instead of the one that was left.

Behaviour that no document or test contradicts, met on the way; the properties
name these cases as exceptions instead of hiding them.

* An upload at the source path of a pending deletion, after the source was hidden
  but before that was recorded, makes every recovery a Conflict (`Blocked` in
  `PdfDelete`). A `deletePdfBook` of a path whose earlier deletion is pending
  finishes the old record and answers Complete although a new file lies there;
  `CompleteMeansGone` therefore demands that the hidden book is gone, and that
  its state is gone when nothing new lies at the path.
* A preparation that is stopped while its section file is open, or a second time
  after it was resumed at the sections or at the manifest, may lose its progress
  (`NoProgressLost`). When unfinished generations have filled the list, no
  preparation starts until the cache is cleared (`Crowded` in
  `PreparationFinishes`).
* The flags that say what a lookup from a definition is for
  (`chainBackNavInProgress`, `dictionarySwitchLookupInProgress`,
  `nextIsSuggestion`) outlive a lookup that is refused, cancelled, or ends in a
  suggestion; the failure of the card to take a word is ignored; a lookup
  started between `lookupDone` and the moment the worker lets its owner go is
  refused (`steady`, `Upset`, `IsFree` in `DictionaryLookup`).
* A pending activity, such as an alert or a screen opened by the power button,
  is destroyed by what a gesture or activity code pushes or pops before the loop
  over pending actions runs (`Push`, `Pop` in `ActivityManager`).

Every hazard under "hazards" in `PROJECT.json` has a property. Places of the same
kind that lie outside the models: over USB the old file is removed before the new one
is renamed to its path (`src/network/UsbSerialFileTransfer.cpp:456`), and a book is
renamed past the journals (`:515`); two web transports share one upload
(`src/network/CrossPointWebServer.cpp:1061`).

## 6. Proofs

Every theorem holds for all values of the constants that satisfy the named
assumptions of its module: sentinels are no paths, contents or activities, bounds
are natural numbers, the derived files are cache files.

* **BookMoveProofs.** `Inv` strengthens `TypeOK`: what the running step has selected is
  on the card as long as it works on it, what it writes is the successor of
  it, and a slot is only blank or torn where the protocol allows. `TypeCorrect`
  follows. `StateOK` says, per phase, where the book and each part of its
  state is; it is needed because `StateFollowsBook` alone does not say what an
  older slot would resurrect. `Inv /\ StateOK` is inductive and gives
  `StateNeverLost`. `Whole` is `Inv /\ StateOK /\ Outcome`, inductive
  together. The parts of `Outcome`: `WriterOK` (a record was read back before it is
  closed, so publishing it changes nothing else), `BudgetOK` (the steps taken are
  bounded by the sequence number of the record, which is at most eight),
  `ForgetOK` (an activated record's old path is remembered nowhere, also by the
  record being written), `ListsOK` (the list in RAM differs from the one on disk
  only by an activation that was published and rolled back in RAM), `CallOK` (what
  the running call has done to the file: one rename at most) and `OneBook`. The
  action properties `NoFileIsOverwritten`, `CompleteMeansDone` and `BookStaysListed`
  follow. For the refinement `MoveIsAtomic`, the record that counts as durable is
  the one before the one being written, so that the abstract step is taken by
  `Close`, by a power loss during `Write`, or by an `Unwrite` that fails.
  `JournalIsAtomic` uses the same record: the abstract journal is arming while the
  first record is written and names the move of the durable record after that.
* **PdfDeleteProofs.** `Inv` is `CallOK /\ DomainOK`: what the call has found out,
  what presence it may have cached, that a step works on the newest record, and
  that what is being written is already true (`Sound`). `TypeCorrect`,
  `FenceIsTrue`, `TombstoneIsLast` and the action property `NamedSuffer` follow;
  `CompleteIsGone` needs `GoneOK` besides, what the phases so far have removed of
  the file that this call was asked to delete. `Atomic` adds what the refinement
  needs: a hidden book is named by the record that counts (`HiddenIsNamed`), the
  book of a deletion just begun lies at its path or is hidden (`PreparedHasBook`), what
  is written is the first record or follows the one in the other slot (`WritingOK`),
  and a clean-up drops nothing but a terminal record (`CleaningOK`). It gives `DeletionIsAtomic`, every
  step of the deletion against `AtomicDelete`; `Readable` beside it gives
  `JournalIsAtomic`, and `LoadOK` with `StepsOK` give `BudgetIsEnough`: a recovery
  that loads the journal again has steps left and finds a record.
* **BookMutationProofs.** `Inv` adds to the properties what the running call has
  established so far (`CallOK`) and which questions it has already had answered
  (`FencesOK`): a call that is about to begin has seen the other journal empty,
  and nobody else can have filled it since. `NeverBoth`, `PresenceIsSound` and
  `TypeCorrect` are its consequences, `ResumesSafely` an action property from it.
  `JournalsAreAtomic`: the two journals, each reduced here to what `load` finds,
  implement the same `AtomicJournal` that `BookMove` and `PdfDelete` implement with
  their slots; a call at its `begin` is arming, and a running one has armed (`RunOK`).
  This is what joins the three modules: what the composition assumes of a journal is
  what its own module is proved to do.
* **AtomicUploadProofs.** `CallInv` says what each stage finds on the card
  (`StageOK`, split into before, during and after the commit) and what an
  unfinished roll-back has left to do (`ChoresOK`). It holds whoever else writes
  the path. With `"leftover" \notin ForeignWhen`, what a reader could recover is
  always the content last acknowledged: this is the second invariant, and gives
  `KeptIsOnTheCard`, `CleanIsCommitted`, `FailureKeeps` and the refinement
  `UploadIsAtomic`. `OkReplaces` needs no such assumption.
* **ActivityManagerProofs.** `Inv` says who holds the lock where, that a waiter is
  registered or woken but never both and only inside the call, and that a
  drawing under way shows the latest change; types, `NothingDeletedIsDrawn`,
  `PendingCanBeDone`, `WaiterIsNeverForgotten` and `RenderedIsTrue` follow.
  `ScreensInv` adds that an activity has one place on the stack and, for every
  activity, which child its handler waits for: the checked property speaks
  only of the stack, and a step that pops needs to know that the one popped, and
  every object that is on no stack, has no handler left. It gives
  `ResultsAreDelivered` and `EveryEntryIsExited`.
* **PdfPreparationProofs.** `Inv` says of every generation that one with all its
  pages is synchronized (`GensOK`), of every manifest that its product is complete
  and of its version (`ManifestsOK`, stronger than the checked property by the
  journal's header), that no manifest names the generation being built (`NewOK`),
  that the slots in memory are those on the card (`SlotsOK`), where a section file
  may be open (`WriterOK`) and what a build has at each of its steps (`BuildOK`).
  `NewOK` is why neither a failure, a cancellation nor a power loss in a build can
  harm a product. `ManifestsAreTrue`, `BuildsContinueWhereTheyStopped`, types, and the
  refinement `PreparationIsAtomic` follow.
* **PdfResumeProofs.** `PublishedProgressIsKept`. `NoProgressLost` compares what two
  states let a preparation start from, and the step that loses it is often far from
  the one that made the loss possible; `Resumable` says what each step relies on. The
  next checkpoint goes to the slot that does not hold the latest one (`CheckpointsOK`,
  `NamesOK`, `UnnamedOK`); the pages that a checkpoint names are in its generation's
  sections, closed or synchronized (`CoveredOK`, `SealedOK`, `WrittenOK`, `DurableOK`);
  a build in memory stands at or ahead of the checkpoint it was resumed from
  (`RestoredOK`, `AheadOK`); a cancellation after the last page leaves a late
  checkpoint that holds (`CancelledLateOK`); and a product is published before the
  clean-up takes what it was made from (`PublishedOK`).
* **DictionaryLookupProofs.** `Inv` is types, what is open above what (`ScreensOK`),
  who has a word (`WordsOK`), that the owner waits until the worker is done
  (`OwnerOK`) and that the chain is ordered (`ChainOK`); it gives
  `WorkerWritesToTheLiving`. `AnswersOK` says where the answer is whole although it
  is written field by field, and gives `AnswersAreWhole`. `SteadyOK` adds, as long as
  nothing has upset the chain, that every position resolves and what the flags
  mean; it gives `BackLeadsToTheWordLeft` for any history window.

Only model-checked: the liveness properties (`RecoveryFinishes`, `DeletionFinishes`,
`PendingFinishes`, `ChangesAreDrawn`, `PreparationFinishes`, `LookupsEnd`) and the
fairness that `AtomicDelete` promises, since fairness and ENABLED are out of the
prover's reach. Everything else that the passing runs check is a theorem. Induction over
data and RECURSIVE operators are out of reach too; no module here uses either.

## 7. What is not modelled

* Parsing, layout, rendering, fonts, themes, translations, settings, drivers:
  computation over one file or one buffer, or pure input and output. These are
  nearly all of the repository's million lines: the fonts, hyphenation tables
  and vendored libraries alone are most of it, and of `PdfPreparation.cpp` all but
  the order of its phases. The models cover the lines that keep state
  consistent between steps, a small share of the whole.
* Renames and removals over USB and WebDAV. They go past both journals and make no
  promise about state kept by path.
* The order, titles and limit of the recent books, pins, and the contents of
  bookmarks, clippings and caches: a part of a book's state is there, is its own,
  or is another file's.
* A marker of an upload torn by power loss, which is refused on purpose
  (the test `TruncatedOrCorruptMarkerFailsClosedWithEveryRecoverableCopyIntact`),
  is modelled; how a user repairs it is not. Two transports that share one upload
  (HTTP and WebSocket) are not modelled.
* The touch registry, the power lock of a drawing and the other callers of
  `xTaskNotify` in `ActivityManager`.
* `Coordinator::abandonPrepared` and `Journal::discardPrepared` of the deletion,
  which only tests call.
* The search in a dictionary's files, the pages of a definition, the removal of
  words from the list of looked-up words, and a worker that could not be created.
* The durable replacement of a state file (`BookMoveDurableFile.cpp`): `BookMove`
  and `PdfDelete` take it as one step that may fail before or after its effect.
* PDF progress and saved items: two-slot records with one writer, which would
  repeat what the journals and the checkpoints show.
* Directory delete: the deletions of `PdfDelete` one after the other.
* Nearby transfer and synchronisation, KOReader, the switch of the boot partition:
  their other half (delivery over ESP-NOW, a server, the boot loader) is not in the
  repository, so a model would be one of assumptions.
* The file index and the merge of statistics: computation with one writer.
