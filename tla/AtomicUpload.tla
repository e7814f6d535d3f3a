---------------------------- MODULE AtomicUpload ----------------------------
(***************************************************************************)
(* The transactional upload of a PDF by lib/BookUpload/AtomicBookUpload    *)
(* .cpp, for one target path.                                              *)
(*                                                                         *)
(* The new content is received into a temporary sibling, the old file is   *)
(* set aside as a backup, a marker says that a commit is under way, the    *)
(* temporary is renamed to the target, the caches of the old book are      *)
(* dropped, and the marker and then the backup are removed.  Whatever      *)
(* fails is rolled back; what power loss interrupts is rolled back by the  *)
(* next begin for the same target, never at boot.  Power loss and          *)
(* failures fall between any two operations on the card.                   *)
(***************************************************************************)
EXTENDS Naturals

CONSTANTS
  Contents,     \* what a book can hold
  NoFile,       \* a file that is not there
  Partial,      \* a temporary file that has not received everything
  ForeignWhen   \* when other writers reach the target: subset of Moments

Moments == {"clean", "leftover"}

ASSUME ContentsAssumption == NoFile \notin Contents /\ Partial \notin Contents
ASSUME NoFileAssumption == NoFile # Partial
ASSUME ForeignAssumption == ForeignWhen \subseteq Moments

VARIABLES
  target, temp, backup,   \* the book and its hidden siblings
  marker,   \* ".crossink-upload.commit": none, torn, or what it records of
            \* the target, which the upload replaces (had) or creates (fresh)
  cache,    \* derived from the content a reader last found: none or built
  stage,    \* where begin, write, finish or abort is; idle, writing between
  sent,     \* what the client is sending
  record,   \* hadTarget of finish, as the marker records it
  todo,     \* what is left of a roll-back
  reply,    \* the answer it will end with
  status,   \* the last answer
  kept      \* history: the content the path was last acknowledged to have

files == <<target, temp, backup, marker, cache>>
call  == <<stage, sent, record, todo, reply, status>>
vars  == <<files, call, kept>>

Book    == Contents \cup {NoFile}
Chores  == {"restore", "unpublish", "temp", "marker"}
Answers == {"Ok", "Failed", "Aborted", "RecoveryFailed", "CleanupFailed"}

Rollbacks == {"recovering", "rollback", "undo", "discard"}
Finishing == {"backup", "marking", "filling", "unmarked", "promote", "hook",
              "unmark", "dropBackup"}
Stages    == {"idle", "writing"} \cup Rollbacks \cup Finishing

TypeOK ==
  /\ target \in Book /\ backup \in Book
  /\ temp \in Book \cup {Partial}
  /\ marker \in {"none", "torn", "had", "fresh"}
  /\ cache \in {"none", "built"}
  /\ stage \in Stages
  /\ sent \in Contents
  /\ record \in {"had", "fresh"}
  /\ todo \in SUBSET Chores
  /\ reply \in Answers \cup {"go on"}
  /\ status \in Answers \cup {"none"}
  /\ kept \in Book

Init ==
  /\ target \in Book /\ kept = target
  /\ temp = NoFile /\ backup = NoFile /\ marker = "none"
  /\ cache \in {"none", "built"}
  /\ stage = "idle" /\ sent \in Contents /\ record = "fresh"
  /\ todo = {} /\ reply = "Failed" /\ status = "none"

Leftover == backup # NoFile \/ marker # "none"

(***************************************************************************)
(* Entering a roll-back that does the chores of "what", in their fixed     *)
(* order, and ends with "answer" when none fails.                          *)
(***************************************************************************)
RollBack(kind, what, answer) ==
  /\ stage' = kind /\ todo' = what /\ reply' = answer

Stay == UNCHANGED <<stage, todo, reply>>

GoTo(s) == stage' = s /\ UNCHANGED <<todo, reply>>

(***************************************************************************)
(* closeAndDiscardTemp: whatever failed, only the temporary file goes.     *)
(***************************************************************************)
DiscardTemp(answer) == RollBack("discard", {"temp"}, answer)

(***************************************************************************)
(* rollbackMarkedCommit: its chores depend on the marker's record.         *)
(***************************************************************************)
MarkedChores(kind) ==
  {IF kind = "had" THEN "restore" ELSE "unpublish", "temp", "marker"}

-----------------------------------------------------------------------------
(***************************************************************************)
(* begin: recover what an earlier upload left, then open the temporary.    *)
(* A marker that cannot be read, or is no marker, stops everything.        *)
(***************************************************************************)
Begin(c) ==
  /\ stage = "idle"
  /\ sent' = c /\ status' = "none"
  /\ \/ marker \in {"had", "fresh"}
        /\ RollBack("recovering", MarkedChores(marker), "go on")
     \/ marker = "none"
        /\ RollBack("recovering",
                    {"temp"} \cup (IF backup # NoFile THEN {"restore"} ELSE {}),
                    "go on")
  /\ UNCHANGED <<files, record, kept>>

RefuseMarker ==
  /\ stage = "idle" /\ marker # "none"
  /\ status' = "RecoveryFailed"
  /\ UNCHANGED <<files, stage, sent, record, todo, reply, kept>>

Recovered ==
  /\ stage = "recovering" /\ todo = {}
  /\ \/ reply # "go on" /\ stage' = "idle" /\ status' = reply
        /\ UNCHANGED temp
     \/ reply = "go on" /\ stage' = "writing" /\ temp' = Partial /\ UNCHANGED status
     \/ reply = "go on" /\ stage' = "idle" /\ status' = "Failed"
        /\ temp' \in {temp, Partial}
  /\ UNCHANGED <<target, backup, marker, cache, sent, record, todo, reply, kept>>

(***************************************************************************)
(* write: a chunk arrives, and may be the last one.  A failed write or too *)
(* many bytes discard the upload.                                          *)
(***************************************************************************)
Write ==
  /\ stage = "writing"
  /\ \/ temp' \in {Partial, sent} /\ Stay
     \/ UNCHANGED temp /\ DiscardTemp("Failed")
  /\ UNCHANGED <<target, backup, marker, cache, sent, record, status, kept>>

Abort ==
  /\ stage = "writing"
  /\ DiscardTemp("Aborted")
  /\ UNCHANGED <<files, sent, record, status, kept>>

(***************************************************************************)
(* finish, up to the comparison of the temporary file with the digest of   *)
(* what was received: any of it may fail, and fails when the size is not   *)
(* the announced one.                                                      *)
(***************************************************************************)
Finish ==
  /\ stage = "writing"
  /\ \/ temp = sent /\ GoTo("backup")
     \/ DiscardTemp("Failed")
  /\ UNCHANGED <<files, sent, record, status, kept>>

(* Altered forms of definitions, of which the runs must find the fault.    *)
BackUpByRemoving ==
  /\ stage = "backup"
  /\ record' = IF target = NoFile THEN "fresh" ELSE "had"
  /\ target' = NoFile /\ GoTo("marking")
  /\ UNCHANGED <<temp, backup, marker, cache, sent, status, kept>>

BackUp ==
  /\ stage = "backup"
  /\ record' = IF target = NoFile THEN "fresh" ELSE "had"
  /\ \/ target = NoFile /\ UNCHANGED <<target, backup>> /\ GoTo("marking")
     \/ /\ target # NoFile /\ backup = NoFile
        /\ backup' = target /\ target' = NoFile
        /\ GoTo("marking")
     \/ /\ target # NoFile /\ UNCHANGED <<target, backup>>
        /\ RollBack("undo", {"restore", "temp"}, "Failed")
  /\ UNCHANGED <<temp, marker, cache, sent, status, kept>>

(***************************************************************************)
(* createCommitMarker: the marker is created empty, filled, synced, closed *)
(* and read back; when one of these fails it is removed, if that succeeds. *)
(***************************************************************************)
CreateMarker ==
  /\ stage = "marking"
  /\ \/ marker' = "torn" /\ GoTo("filling")
     \/ marker' \in {marker, "torn"} /\ GoTo("unmarked")
  /\ UNCHANGED <<target, temp, backup, cache, sent, record, status, kept>>

FillMarkerAsHad ==
  /\ stage = "filling"
  /\ \/ marker' = "had" /\ GoTo("promote")
     \/ marker' \in {"torn", "had"} /\ GoTo("unmarked")
  /\ UNCHANGED <<target, temp, backup, cache, sent, record, status, kept>>

FillMarker ==
  /\ stage = "filling"
  /\ \/ marker' = record /\ GoTo("promote")
     \/ marker' \in {"torn", record} /\ GoTo("unmarked")
  /\ UNCHANGED <<target, temp, backup, cache, sent, record, status, kept>>

MarkerFailed ==
  /\ stage = "unmarked"
  /\ marker' \in {marker, "none"}
  /\ RollBack("undo", {"temp", "marker"} \cup (IF record = "had" THEN {"restore"} ELSE {}), "Failed")
  /\ UNCHANGED <<target, temp, backup, cache, sent, record, status, kept>>

Promote ==
  /\ stage = "promote"
  /\ \/ target = NoFile /\ target' = temp /\ temp' = NoFile /\ GoTo("hook")
     \/ UNCHANGED <<target, temp>> /\ RollBack("rollback", MarkedChores(record), "Failed")
  /\ UNCHANGED <<backup, marker, cache, sent, record, status, kept>>

HookIgnored ==
  /\ stage = "hook"
  /\ cache' \in {cache, "none"} /\ GoTo("unmark")
  /\ UNCHANGED <<target, temp, backup, marker, sent, record, status, kept>>

(***************************************************************************)
(* The commit hook, clearBookCachePreservingUserState, may fail before or  *)
(* after it has dropped the caches.                                        *)
(***************************************************************************)
Hook ==
  /\ stage = "hook"
  /\ \/ cache' = "none" /\ GoTo("unmark")
     \/ cache' \in {cache, "none"} /\ RollBack("rollback", MarkedChores(record), "Failed")
  /\ UNCHANGED <<target, temp, backup, marker, sent, record, status, kept>>

(***************************************************************************)
(* The upload is committed when nothing would bring the old state back:    *)
(* with the marker of a new book, with the backup of a replaced one.       *)
(***************************************************************************)
Commit ==
  /\ GoTo("idle") /\ status' = "Ok" /\ kept' = sent

Unmark ==
  /\ stage = "unmark"
  /\ \/ marker' = "none" /\ record = "fresh" /\ Commit
     \/ marker' = "none" /\ record = "had" /\ GoTo("dropBackup") /\ UNCHANGED <<status, kept>>
     \/ UNCHANGED <<marker, status, kept>>
        /\ RollBack("rollback", MarkedChores(record), "CleanupFailed")
  /\ UNCHANGED <<target, temp, backup, cache, sent, record>>

DropBackup ==
  /\ stage = "dropBackup"
  /\ \/ backup' = NoFile /\ Commit
     \/ UNCHANGED <<backup, status, kept>>
        /\ RollBack("undo", {"restore"}, "CleanupFailed")
  /\ UNCHANGED <<target, temp, marker, cache, sent, record>>

-----------------------------------------------------------------------------
(***************************************************************************)
(* The chores of a roll-back.  Recovery and rollbackMarkedCommit stop at   *)
(* the first that fails and demand the backup they restore; the undoing    *)
(* in finish does all it can and is content with the target in place.      *)
(***************************************************************************)
Strict == stage \in {"recovering", "rollback"}

Failure == IF stage = "recovering" THEN "RecoveryFailed" ELSE "CleanupFailed"

Done(chore, good) ==
  /\ reply' = IF good THEN reply ELSE Failure
  /\ todo' = IF Strict /\ ~good THEN {} ELSE todo \ {chore}

NotYet == UNCHANGED <<reply, todo>>

(***************************************************************************)
(* restoreBackup: remove what is at the target, then rename the backup.    *)
(***************************************************************************)
Restore ==
  /\ "restore" \in todo
  /\ \/ backup = NoFile
        /\ Done("restore", ~Strict /\ target # NoFile)
        /\ UNCHANGED <<target, backup>>
     \/ backup # NoFile /\ target # NoFile
        /\ target' = NoFile /\ NotYet
        /\ UNCHANGED backup
     \/ backup # NoFile /\ target = NoFile
        /\ target' = backup /\ backup' = NoFile
        /\ Done("restore", TRUE)
     \/ backup # NoFile
        /\ Done("restore", FALSE)
        /\ UNCHANGED <<target, backup>>
  /\ UNCHANGED <<temp, marker, cache, stage, sent, record, status, kept>>

(***************************************************************************)
(* rollbackMarkedCommit of a book that was not there before.               *)
(***************************************************************************)
Unpublish ==
  /\ "unpublish" \in todo
  /\ LET ambiguous == backup # NoFile \/ (target # NoFile /\ temp # NoFile)
     IN \/ ambiguous /\ UNCHANGED target /\ Done("unpublish", FALSE)
        \/ ~ambiguous /\ target' = NoFile /\ Done("unpublish", TRUE)
        \/ target # NoFile /\ UNCHANGED target /\ Done("unpublish", FALSE)
  /\ UNCHANGED <<temp, backup, marker, cache, stage, sent, record, status, kept>>

RemoveTemp ==
  /\ "temp" \in todo /\ todo \cap {"restore", "unpublish"} = {}
  /\ \/ temp' = NoFile /\ Done("temp", TRUE)
     \/ temp # NoFile /\ UNCHANGED temp /\ Done("temp", FALSE)
  /\ UNCHANGED <<target, backup, marker, cache, stage, sent, record, status, kept>>

RemoveMarker ==
  /\ todo = {"marker"}
  /\ \/ marker' = "none" /\ Done("marker", TRUE)
     \/ marker # "none" /\ UNCHANGED marker /\ Done("marker", FALSE)
  /\ UNCHANGED <<target, temp, backup, cache, stage, sent, record, status, kept>>

AnswerRegardless ==
  /\ stage \in Rollbacks \ {"recovering"} /\ todo = {}
  /\ stage' = "idle" /\ status' = "Failed"
  /\ UNCHANGED <<files, sent, record, todo, reply, kept>>

(***************************************************************************)
(* The answer after a roll-back.  closeAndDiscardTemp answers CloseFailed, *)
(* one of "Failed", when the file also did not close.                      *)
(***************************************************************************)
Answer ==
  /\ stage \in Rollbacks \ {"recovering"} /\ todo = {}
  /\ stage' = "idle"
  /\ \/ status' = reply
     \/ stage = "discard" /\ status' = "Failed"
  /\ UNCHANGED <<files, sent, record, todo, reply, kept>>

-----------------------------------------------------------------------------
(***************************************************************************)
(* A reader that opens the book builds its caches.                         *)
(***************************************************************************)
ReadBook ==
  /\ stage \in {"idle", "writing"} /\ target # NoFile
  /\ cache' = "built"
  /\ UNCHANGED <<target, temp, backup, marker, call, kept>>

(***************************************************************************)
(* USB and WebDAV replace or remove the file in a handler of their own,    *)
(* and know nothing of its siblings.                                       *)
(***************************************************************************)
ForeignWrite ==
  /\ stage \in {"idle", "writing"}
  /\ (IF Leftover THEN "leftover" ELSE "clean") \in ForeignWhen
  /\ target' \in Book /\ kept' = target'
  /\ cache' = "none"
  /\ UNCHANGED <<temp, backup, marker, call>>

PowerLoss ==
  /\ stage # "idle"
  /\ stage' = "idle" /\ todo' = {} /\ reply' = "Failed"
  /\ record' = "fresh" /\ status' = "none"
  /\ UNCHANGED <<files, sent, kept>>

Cleaning == Restore \/ Unpublish \/ RemoveTemp \/ RemoveMarker \/ Answer

Next ==
  \/ \E c \in Contents : Begin(c)
  \/ RefuseMarker \/ Recovered \/ Write \/ Abort \/ Finish
  \/ BackUp \/ CreateMarker \/ FillMarker \/ MarkerFailed
  \/ Promote \/ Hook \/ Unmark \/ DropBackup
  \/ Cleaning
  \/ ReadBook \/ ForeignWrite \/ PowerLoss

Spec == Init /\ [][Next]_vars

-----------------------------------------------------------------------------
(***************************************************************************)
(* What a reader of the card is entitled to: the backup while there is     *)
(* one, nothing while a new book awaits its commit, else the target.       *)
(***************************************************************************)
Recoverable ==
  IF backup # NoFile THEN backup
  ELSE IF marker = "fresh" THEN NoFile
  ELSE target

(***************************************************************************)
(* Wherever power is lost and whatever fails, the content last             *)
(* acknowledged for the path is on the card, at the target or as its       *)
(* backup: the test RebootRecoveryPrefersBackupAndNeverDeletesOnlyValidCopy*)
(* claims it for four states of the card.                                  *)
(***************************************************************************)
KeptSurvives == kept # NoFile => kept \in {target, backup}

(***************************************************************************)
(* Between calls, a path without leftovers holds the acknowledged content  *)
(* and nothing else: no upload that failed or was interrupted is visible   *)
(* once its siblings are gone.                                             *)
(***************************************************************************)
CleanMeansCommitted ==
  stage \in {"idle", "writing"} /\ ~Leftover => target = kept

(***************************************************************************)
(* finish answers Ok only when the target has what the client sent,        *)
(* nothing is left that a later begin would roll back, and the caches of   *)
(* the old content are gone.                                               *)
(***************************************************************************)
OkMeansReplaced ==
  [][status' = "Ok" /\ status # "Ok" =>
       /\ target' = sent /\ backup' = NoFile /\ marker' = "none"
       /\ cache' = "none"]_vars

(***************************************************************************)
(* Any answer that claims an orderly failure leaves the old content in     *)
(* place and nothing to recover but a temporary file.                      *)
(***************************************************************************)
FailureRestores ==
  [][status' \in {"Failed", "Aborted"} /\ status # status' =>
       target' = kept /\ backup' = NoFile /\ marker' = "none"]_vars

(***************************************************************************)
(* Tests such as MarkerFailurePreservesOriginalAndRetryIsSafe say that a   *)
(* failed upload can be retried once the card works again: an intact       *)
(* marker must be one that begin can roll back.                            *)
(***************************************************************************)
RetryIsSafe ==
  stage = "idle" =>
    /\ marker = "had" => backup # NoFile
    /\ marker = "fresh" => backup = NoFile /\ (target = NoFile \/ temp = NoFile)

(***************************************************************************)
(* begin that recovers, finish and abort run to their end in one request;  *)
(* between them the loop task may serve another writer.                    *)
(***************************************************************************)
Running == stage \notin {"idle", "writing"}

A == INSTANCE AtomicReplace WITH
  content <- Recoverable, status <- status, running <- Running

(***************************************************************************)
(* While the others keep away from a path with leftovers, every run of     *)
(* uploads, failures and power losses is one of atomic replacements and    *)
(* refusals.                                                               *)
(***************************************************************************)
ImplementsAtomicReplace == A!Spec

=============================================================================
