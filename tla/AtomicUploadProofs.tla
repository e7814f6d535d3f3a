------------------------ MODULE AtomicUploadProofs ------------------------
(***************************************************************************)
(* Proofs about AtomicUpload, for all contents and every number of         *)
(* uploads, failures and power losses.                                     *)
(***************************************************************************)
EXTENDS AtomicUpload, TLAPS

Committing == {"marking", "filling", "unmarked", "promote", "hook", "unmark",
               "dropBackup"}

Trouble == {"RecoveryFailed", "CleanupFailed"}

(***************************************************************************)
(* What begin and finish have achieved at each of their stages.            *)
(***************************************************************************)
CallOK ==
  /\ stage \notin Rollbacks => todo = {}
  /\ stage \in Rollbacks \ {"recovering"} => reply \in Answers \ {"Ok"}
  /\ stage = "recovering" => reply \in {"go on", "RecoveryFailed"}

BeforeOK ==
  /\ stage \in {"writing", "backup", "discard"} => backup = NoFile /\ marker = "none"
  /\ stage = "backup" => temp = sent
  /\ stage \in {"marking", "filling", "unmarked", "promote"} =>
       target = NoFile /\ temp = sent

CommitOK ==
  /\ stage \in Committing => (record = "had" <=> backup # NoFile)
  /\ stage = "marking" => marker = "none"
  /\ stage = "filling" => marker = "torn"
  /\ stage = "unmarked" => marker \in {"none", "torn", record}
  /\ stage \in {"promote", "hook", "unmark"} => marker = record

AfterOK ==
  /\ stage \in {"hook", "unmark", "dropBackup"} => target = sent
  /\ stage \in {"unmark", "dropBackup"} => cache = "none"
  /\ stage = "dropBackup" => marker = "none" /\ record = "had"

StageOK == CallOK /\ BeforeOK /\ CommitOK /\ AfterOK

(***************************************************************************)
(* A roll-back loses its way back only after it has gone it: a new book    *)
(* is unpublished before its marker goes, and while nothing has failed,    *)
(* a backup or a marker that is left is still to be dealt with.            *)
(***************************************************************************)
ChoresOK ==
  /\ marker = "fresh" => backup = NoFile
  /\ "unpublish" \in todo => marker = "fresh" /\ Strict
  /\ marker = "fresh" /\ "marker" \in todo /\ "unpublish" \notin todo => target = NoFile
  /\ stage \in {"recovering", "undo", "rollback"} /\ reply \notin Trouble =>
       /\ "restore" \notin todo => backup = NoFile
       /\ "marker" \notin todo => marker = "none"

IInv == TypeOK /\ StageOK /\ ChoresOK /\ kept = Recoverable

-----------------------------------------------------------------------------
LEMMA InitType == Init => TypeOK
  BY ContentsAssumption DEF Init, TypeOK, Book, Stages, Answers, Chores

(***************************************************************************)
(* Entering a roll-back keeps the types when its chores are chores.        *)
(***************************************************************************)
LEMMA MarkedType ==
  \A k \in {"had", "fresh"} : MarkedChores(k) \subseteq Chores
  BY DEF MarkedChores, Chores

(***************************************************************************)
(* The types of the call's variables and of the files: two lemmas, for the *)
(* finite sets of the one are of no interest to the other.                 *)
(***************************************************************************)
CallType ==
  /\ stage \in Stages
  /\ todo \in SUBSET Chores
  /\ reply \in Answers \cup {"go on"}

FileType ==
  /\ target \in Book /\ backup \in Book
  /\ temp \in Book \cup {Partial}
  /\ marker \in {"none", "torn", "had", "fresh"}
  /\ cache \in {"none", "built"}
  /\ sent \in Contents
  /\ record \in {"had", "fresh"}
  /\ status \in Answers \cup {"none"}
  /\ kept \in Book

LEMMA CallTypeKept == TypeOK /\ [Next]_vars => CallType'
<1> SUFFICES ASSUME TypeOK, [Next]_vars PROVE CallType'
  OBVIOUS
<1> USE DEF TypeOK, CallType
<1>1. CASE \E c \in Contents : Begin(c)
  BY <1>1, MarkedType DEF Begin, RollBack, Stages, Rollbacks, Finishing, Chores, Answers
<1>2. CASE RefuseMarker
  BY <1>2 DEF RefuseMarker
<1>3. CASE Recovered
  BY <1>3 DEF Recovered, Stages, Rollbacks, Finishing, Chores, Answers
<1>4. CASE Write
  BY <1>4 DEF Write, Stay, DiscardTemp, RollBack, Stages, Rollbacks, Finishing, Chores, Answers
<1>5. CASE Abort
  BY <1>5 DEF Abort, DiscardTemp, RollBack, Stages, Rollbacks, Finishing, Chores, Answers
<1>6. CASE Finish
  BY <1>6 DEF Finish, GoTo, DiscardTemp, RollBack, Stages, Rollbacks, Finishing, Chores, Answers
<1>7. CASE BackUp
  BY <1>7 DEF BackUp, GoTo, RollBack, Stages, Rollbacks, Finishing, Chores, Answers
<1>8. CASE CreateMarker
  BY <1>8 DEF CreateMarker, GoTo, Stages, Rollbacks, Finishing, Chores, Answers
<1>9. CASE FillMarker
  BY <1>9 DEF FillMarker, GoTo, Stages, Rollbacks, Finishing, Chores, Answers
<1>10. CASE MarkerFailed
  BY <1>10 DEF MarkerFailed, RollBack, Stages, Rollbacks, Finishing, Chores, Answers
<1>11. CASE Promote
  BY <1>11, MarkedType DEF Promote, GoTo, RollBack, Stages, Rollbacks, Finishing, Chores, Answers
<1>12. CASE Hook
  BY <1>12, MarkedType DEF Hook, GoTo, RollBack, Stages, Rollbacks, Finishing, Chores, Answers
<1>13. CASE Unmark
  BY <1>13, MarkedType DEF Unmark, Commit, GoTo, RollBack, Stages, Rollbacks, Finishing, Chores, Answers
<1>14. CASE DropBackup
  BY <1>14 DEF DropBackup, Commit, GoTo, RollBack, Stages, Rollbacks, Finishing, Chores, Answers
<1>15. CASE Restore
  BY <1>15 DEF Restore, Done, NotYet, Failure, Stages, Rollbacks, Finishing, Chores, Answers
<1>16. CASE Unpublish
  BY <1>16 DEF Unpublish, Done, Failure, Stages, Rollbacks, Finishing, Chores, Answers
<1>17. CASE RemoveTemp
  BY <1>17 DEF RemoveTemp, Done, Failure, Stages, Rollbacks, Finishing, Chores, Answers
<1>18. CASE RemoveMarker
  BY <1>18 DEF RemoveMarker, Done, Failure, Stages, Rollbacks, Finishing, Chores, Answers
<1>19. CASE Answer
  BY <1>19 DEF Answer, Stages, Rollbacks, Finishing, Chores, Answers
<1>20. CASE ReadBook
  BY <1>20 DEF ReadBook, call
<1>21. CASE ForeignWrite
  BY <1>21 DEF ForeignWrite, call
<1>22. CASE PowerLoss
  BY <1>22 DEF PowerLoss, Stages, Rollbacks, Finishing, Chores, Answers
<1>23. CASE UNCHANGED vars
  BY <1>23 DEF vars, call
<1>24. QED
  BY <1>1, <1>2, <1>3, <1>4, <1>5, <1>6, <1>7, <1>8, <1>9, <1>10, <1>11,
     <1>12, <1>13, <1>14, <1>15, <1>16, <1>17, <1>18, <1>19, <1>20, <1>21,
     <1>22, <1>23
  DEF Next, Cleaning

LEMMA FileTypeKept == TypeOK /\ StageOK /\ [Next]_vars => FileType'
<1> SUFFICES ASSUME TypeOK, StageOK, [Next]_vars PROVE FileType'
  OBVIOUS
<1> USE DEF TypeOK, FileType
<1>1. CASE \E c \in Contents : Begin(c)
  BY <1>1 DEF Begin, files
<1>2. CASE RefuseMarker
  BY <1>2 DEF RefuseMarker, files, Answers
<1>3. CASE Recovered
  BY <1>3 DEF Recovered, Answers
<1>4. CASE Write
  <2>1. temp' \in Book \cup {Partial}
    BY <1>4 DEF Write, Book
  <2>2. QED
    BY <1>4, <2>1 DEF Write
<1>5. CASE Abort
  BY <1>5 DEF Abort, files
<1>6. CASE Finish
  BY <1>6 DEF Finish, files
<1>7. CASE BackUp
  BY <1>7 DEF BackUp, Book
<1>8. CASE CreateMarker
  BY <1>8 DEF CreateMarker
<1>9. CASE FillMarker
  BY <1>9 DEF FillMarker
<1>10. CASE MarkerFailed
  BY <1>10 DEF MarkerFailed
<1>11. CASE Promote
  <2>1. temp = sent
    BY <1>11 DEF Promote, StageOK, BeforeOK
  <2>2. QED
    BY <1>11, <2>1 DEF Promote, Book
<1>12. CASE Hook
  BY <1>12 DEF Hook
<1>13. CASE Unmark
  BY <1>13 DEF Unmark, Commit, Answers, Book
<1>14. CASE DropBackup
  BY <1>14 DEF DropBackup, Commit, Answers, Book
<1>15. CASE Restore
  BY <1>15 DEF Restore, Book
<1>16. CASE Unpublish
  BY <1>16 DEF Unpublish, Book
<1>17. CASE RemoveTemp
  BY <1>17 DEF RemoveTemp, Book
<1>18. CASE RemoveMarker
  <2>1. marker' \in {"none", "torn", "had", "fresh"}
    BY <1>18 DEF RemoveMarker
  <2>2. QED
    BY <1>18, <2>1 DEF RemoveMarker
<1>19. CASE Answer
  <2>1. reply \in Answers
    BY <1>19 DEF Answer, StageOK, CallOK
  <2>2. status' \in Answers
    BY <1>19, <2>1 DEF Answer, Answers
  <2>3. QED
    BY <1>19, <2>2 DEF Answer, files
<1>20. CASE ReadBook
  BY <1>20 DEF ReadBook, call
<1>21. CASE ForeignWrite
  BY <1>21 DEF ForeignWrite, call
<1>22. CASE PowerLoss
  BY <1>22 DEF PowerLoss, files
<1>23. CASE UNCHANGED vars
  BY <1>23 DEF vars, call, files
<1>24. QED
  BY <1>1, <1>2, <1>3, <1>4, <1>5, <1>6, <1>7, <1>8, <1>9, <1>10, <1>11,
     <1>12, <1>13, <1>14, <1>15, <1>16, <1>17, <1>18, <1>19, <1>20, <1>21,
     <1>22, <1>23
  DEF Next, Cleaning

LEMMA NextType == TypeOK /\ StageOK /\ [Next]_vars => TypeOK'
  BY CallTypeKept, FileTypeKept DEF TypeOK, CallType, FileType

-----------------------------------------------------------------------------
(***************************************************************************)
(* The inductive step, one lemma for each part of the invariant.           *)
(***************************************************************************)
(***************************************************************************)
(* Nothing is left to do outside a roll-back, and every roll-back but      *)
(* recovery has its answer.                                                *)
(***************************************************************************)
LEMMA CallKept ==
  ASSUME TypeOK, StageOK, ChoresOK, [Next]_vars
  PROVE  CallOK'
<1> USE DEF CallOK, Rollbacks
<1>1. CASE \E c \in Contents : Begin(c)
  BY <1>1 DEF Begin, RollBack, MarkedChores, files, StageOK
<1>2. CASE RefuseMarker
  BY <1>2 DEF RefuseMarker, files, StageOK
<1>3. CASE Recovered
  BY <1>3 DEF Recovered, StageOK
<1>4. CASE Write
  BY <1>4 DEF Write, Stay, DiscardTemp, RollBack, Answers, StageOK
<1>5. CASE Abort
  BY <1>5 DEF Abort, DiscardTemp, RollBack, files, Answers, StageOK
<1>6. CASE Finish
  BY <1>6 DEF Finish, GoTo, DiscardTemp, RollBack, files, Answers, StageOK
<1>7. CASE BackUp
  BY <1>7 DEF BackUp, GoTo, RollBack, Answers, StageOK
<1>8. CASE CreateMarker
  BY <1>8 DEF CreateMarker, GoTo, StageOK
<1>9. CASE FillMarker
  BY <1>9 DEF FillMarker, GoTo, StageOK
<1>10. CASE MarkerFailed
  BY <1>10 DEF MarkerFailed, RollBack, Answers, StageOK
<1>11. CASE Promote
  BY <1>11 DEF Promote, GoTo, RollBack, MarkedChores, Answers, StageOK
<1>12. CASE Hook
  BY <1>12 DEF Hook, GoTo, RollBack, MarkedChores, Answers, StageOK
<1>13. CASE Unmark
  BY <1>13 DEF Unmark, Commit, GoTo, RollBack, MarkedChores, Answers,
     StageOK
<1>14. CASE DropBackup
  BY <1>14 DEF DropBackup, Commit, GoTo, RollBack, Answers, StageOK
<1>15. CASE Restore
  BY <1>15 DEF Restore, Done, NotYet, Failure, Strict, Answers, StageOK
<1>16. CASE Unpublish
  BY <1>16 DEF Unpublish, Done, Failure, Strict, Answers, StageOK
<1>17. CASE RemoveTemp
  BY <1>17 DEF RemoveTemp, Done, Failure, Strict, Answers, StageOK
<1>18. CASE RemoveMarker
  BY <1>18 DEF RemoveMarker, Done, Failure, Strict, Answers, StageOK
<1>19. CASE Answer
  BY <1>19 DEF Answer, files, StageOK
<1>20. CASE ReadBook
  BY <1>20 DEF ReadBook, call, StageOK
<1>21. CASE ForeignWrite
  BY <1>21 DEF ForeignWrite, call, StageOK
<1>22. CASE PowerLoss
  BY <1>22 DEF PowerLoss, files, StageOK
<1>23. CASE UNCHANGED vars
  BY <1>23 DEF vars, call, files, StageOK
<1>24. QED
  BY <1>1, <1>2, <1>3, <1>4, <1>5, <1>6, <1>7, <1>8, <1>9, <1>10, <1>11,
     <1>12, <1>13, <1>14, <1>15, <1>16, <1>17, <1>18, <1>19, <1>20, <1>21,
     <1>22, <1>23
  DEF Next, Cleaning

(***************************************************************************)
(* Recovery leaves neither backup nor marker, and none is made before the  *)
(* temporary file is verified.                                             *)
(***************************************************************************)
LEMMA BeforeKept ==
  ASSUME TypeOK, StageOK, ChoresOK, [Next]_vars
  PROVE  BeforeOK'
<1> USE DEF StageOK, CallOK, BeforeOK, CommitOK, AfterOK
<1>1. CASE \E c \in Contents : Begin(c)
  BY <1>1 DEF Begin, RollBack, MarkedChores, files
<1>2. CASE RefuseMarker
  BY <1>2 DEF RefuseMarker, files
<1>3. CASE Recovered
  BY <1>3 DEF Recovered, Rollbacks, ChoresOK, Trouble
<1>4. CASE Write
  BY <1>4 DEF Write, Stay, DiscardTemp, RollBack
<1>5. CASE Abort
  BY <1>5 DEF Abort, DiscardTemp, RollBack, files
<1>6. CASE Finish
  BY <1>6 DEF Finish, GoTo, DiscardTemp, RollBack, files
<1>7. CASE BackUp
  BY <1>7 DEF BackUp, GoTo, RollBack
<1>8. CASE CreateMarker
  BY <1>8 DEF CreateMarker, GoTo
<1>9. CASE FillMarker
  BY <1>9 DEF FillMarker, GoTo
<1>10. CASE MarkerFailed
  BY <1>10 DEF MarkerFailed, RollBack
<1>11. CASE Promote
  BY <1>11 DEF Promote, GoTo, RollBack, MarkedChores
<1>12. CASE Hook
  BY <1>12 DEF Hook, GoTo, RollBack, MarkedChores
<1>13. CASE Unmark
  BY <1>13 DEF Unmark, Commit, GoTo, RollBack, MarkedChores
<1>14. CASE DropBackup
  BY <1>14 DEF DropBackup, Commit, GoTo, RollBack
<1>15. CASE Restore
  BY <1>15 DEF Restore, Done, NotYet, Failure, Strict, Rollbacks
<1>16. CASE Unpublish
  BY <1>16 DEF Unpublish, Done, Failure, Strict, Rollbacks
<1>17. CASE RemoveTemp
  BY <1>17 DEF RemoveTemp, Done, Failure, Strict, Rollbacks
<1>18. CASE RemoveMarker
  BY <1>18 DEF RemoveMarker, Done, Failure, Strict, Rollbacks
<1>19. CASE Answer
  BY <1>19 DEF Answer, files
<1>20. CASE ReadBook
  BY <1>20 DEF ReadBook, call
<1>21. CASE ForeignWrite
  BY <1>21 DEF ForeignWrite, call
<1>22. CASE PowerLoss
  BY <1>22 DEF PowerLoss, files
<1>23. CASE UNCHANGED vars
  BY <1>23 DEF vars, call, files
<1>24. QED
  BY <1>1, <1>2, <1>3, <1>4, <1>5, <1>6, <1>7, <1>8, <1>9, <1>10, <1>11,
     <1>12, <1>13, <1>14, <1>15, <1>16, <1>17, <1>18, <1>19, <1>20, <1>21,
     <1>22, <1>23
  DEF Next, Cleaning

(***************************************************************************)
(* The marker records whether there is a backup, from its creation to its  *)
(* removal.                                                                *)
(***************************************************************************)
LEMMA CommitKept ==
  ASSUME TypeOK, StageOK, ChoresOK, [Next]_vars
  PROVE  CommitOK'
<1> USE DEF StageOK, CallOK, BeforeOK, CommitOK, AfterOK, Committing
<1>1. CASE \E c \in Contents : Begin(c)
  BY <1>1 DEF Begin, RollBack, MarkedChores, files
<1>2. CASE RefuseMarker
  BY <1>2 DEF RefuseMarker, files
<1>3. CASE Recovered
  BY <1>3 DEF Recovered
<1>4. CASE Write
  BY <1>4 DEF Write, Stay, DiscardTemp, RollBack
<1>5. CASE Abort
  BY <1>5 DEF Abort, DiscardTemp, RollBack, files
<1>6. CASE Finish
  BY <1>6 DEF Finish, GoTo, DiscardTemp, RollBack, files
<1>7. CASE BackUp
  BY <1>7 DEF BackUp, GoTo, RollBack
<1>8. CASE CreateMarker
  BY <1>8 DEF CreateMarker, GoTo
<1>9. CASE FillMarker
  BY <1>9 DEF FillMarker, GoTo
<1>10. CASE MarkerFailed
  BY <1>10 DEF MarkerFailed, RollBack
<1>11. CASE Promote
  BY <1>11 DEF Promote, GoTo, RollBack, MarkedChores
<1>12. CASE Hook
  BY <1>12 DEF Hook, GoTo, RollBack, MarkedChores
<1>13. CASE Unmark
  BY <1>13 DEF Unmark, Commit, GoTo, RollBack, MarkedChores
<1>14. CASE DropBackup
  BY <1>14 DEF DropBackup, Commit, GoTo, RollBack
<1>15. CASE Restore
  BY <1>15 DEF Restore, Done, NotYet, Failure, Strict, Rollbacks
<1>16. CASE Unpublish
  BY <1>16 DEF Unpublish, Done, Failure, Strict, Rollbacks
<1>17. CASE RemoveTemp
  BY <1>17 DEF RemoveTemp, Done, Failure, Strict, Rollbacks
<1>18. CASE RemoveMarker
  BY <1>18 DEF RemoveMarker, Done, Failure, Strict, Rollbacks
<1>19. CASE Answer
  BY <1>19 DEF Answer, files
<1>20. CASE ReadBook
  BY <1>20 DEF ReadBook, call
<1>21. CASE ForeignWrite
  BY <1>21 DEF ForeignWrite, call
<1>22. CASE PowerLoss
  BY <1>22 DEF PowerLoss, files
<1>23. CASE UNCHANGED vars
  BY <1>23 DEF vars, call, files
<1>24. QED
  BY <1>1, <1>2, <1>3, <1>4, <1>5, <1>6, <1>7, <1>8, <1>9, <1>10, <1>11,
     <1>12, <1>13, <1>14, <1>15, <1>16, <1>17, <1>18, <1>19, <1>20, <1>21,
     <1>22, <1>23
  DEF Next, Cleaning

(***************************************************************************)
(* What is promoted is what was sent, and it is committed without the old  *)
(* caches.                                                                 *)
(***************************************************************************)
LEMMA AfterKept ==
  ASSUME TypeOK, StageOK, ChoresOK, [Next]_vars
  PROVE  AfterOK'
<1> USE DEF StageOK, CallOK, BeforeOK, CommitOK, AfterOK
<1>1. CASE \E c \in Contents : Begin(c)
  BY <1>1 DEF Begin, RollBack, MarkedChores, files
<1>2. CASE RefuseMarker
  BY <1>2 DEF RefuseMarker, files
<1>3. CASE Recovered
  BY <1>3 DEF Recovered
<1>4. CASE Write
  BY <1>4 DEF Write, Stay, DiscardTemp, RollBack
<1>5. CASE Abort
  BY <1>5 DEF Abort, DiscardTemp, RollBack, files
<1>6. CASE Finish
  BY <1>6 DEF Finish, GoTo, DiscardTemp, RollBack, files
<1>7. CASE BackUp
  BY <1>7 DEF BackUp, GoTo, RollBack
<1>8. CASE CreateMarker
  BY <1>8 DEF CreateMarker, GoTo
<1>9. CASE FillMarker
  BY <1>9 DEF FillMarker, GoTo
<1>10. CASE MarkerFailed
  BY <1>10 DEF MarkerFailed, RollBack
<1>11. CASE Promote
  BY <1>11 DEF Promote, GoTo, RollBack, MarkedChores
<1>12. CASE Hook
  BY <1>12 DEF Hook, GoTo, RollBack, MarkedChores
<1>13. CASE Unmark
  BY <1>13 DEF Unmark, Commit, GoTo, RollBack, MarkedChores
<1>14. CASE DropBackup
  BY <1>14 DEF DropBackup, Commit, GoTo, RollBack
<1>15. CASE Restore
  BY <1>15 DEF Restore, Done, NotYet, Failure, Strict, Rollbacks
<1>16. CASE Unpublish
  BY <1>16 DEF Unpublish, Done, Failure, Strict, Rollbacks
<1>17. CASE RemoveTemp
  BY <1>17 DEF RemoveTemp, Done, Failure, Strict, Rollbacks
<1>18. CASE RemoveMarker
  BY <1>18 DEF RemoveMarker, Done, Failure, Strict, Rollbacks
<1>19. CASE Answer
  BY <1>19 DEF Answer, files
<1>20. CASE ReadBook
  BY <1>20 DEF ReadBook, call
<1>21. CASE ForeignWrite
  BY <1>21 DEF ForeignWrite, call
<1>22. CASE PowerLoss
  BY <1>22 DEF PowerLoss, files
<1>23. CASE UNCHANGED vars
  BY <1>23 DEF vars, call, files
<1>24. QED
  BY <1>1, <1>2, <1>3, <1>4, <1>5, <1>6, <1>7, <1>8, <1>9, <1>10, <1>11,
     <1>12, <1>13, <1>14, <1>15, <1>16, <1>17, <1>18, <1>19, <1>20, <1>21,
     <1>22, <1>23
  DEF Next, Cleaning

LEMMA StageKept ==
  ASSUME TypeOK, StageOK, ChoresOK, [Next]_vars
  PROVE  StageOK'
  BY CallKept, BeforeKept, CommitKept, AfterKept DEF StageOK

(***************************************************************************)
(* A chore is crossed off when it is done, or when it failed, which the    *)
(* answer tells.                                                           *)
(***************************************************************************)
LEMMA ChoresKept ==
  ASSUME TypeOK, StageOK, ChoresOK, [Next]_vars
  PROVE  ChoresOK'
<1> USE DEF TypeOK, StageOK, CallOK, BeforeOK, CommitOK, AfterOK, ChoresOK, Strict, Trouble, Rollbacks, Committing
<1>1. CASE \E c \in Contents : Begin(c)
  BY <1>1 DEF Begin, RollBack, MarkedChores, files
<1>2. CASE RefuseMarker
  BY <1>2 DEF RefuseMarker, files
<1>3. CASE Recovered
  BY <1>3 DEF Recovered
<1>4. CASE Write
  BY <1>4 DEF Write, Stay, DiscardTemp, RollBack
<1>5. CASE Abort
  BY <1>5 DEF Abort, DiscardTemp, RollBack, files
<1>6. CASE Finish
  BY <1>6 DEF Finish, GoTo, DiscardTemp, RollBack, files
<1>7. CASE BackUp
  BY <1>7 DEF BackUp, GoTo, RollBack
<1>8. CASE CreateMarker
  BY <1>8 DEF CreateMarker, GoTo
<1>9. CASE FillMarker
  BY <1>9 DEF FillMarker, GoTo
<1>10. CASE MarkerFailed
  BY <1>10 DEF MarkerFailed, RollBack
<1>11. CASE Promote
  BY <1>11 DEF Promote, GoTo, RollBack, MarkedChores
<1>12. CASE Hook
  BY <1>12 DEF Hook, GoTo, RollBack, MarkedChores
<1>13. CASE Unmark
  BY <1>13 DEF Unmark, Commit, GoTo, RollBack, MarkedChores
<1>14. CASE DropBackup
  BY <1>14 DEF DropBackup, Commit, GoTo, RollBack
<1>15. CASE Restore
  BY <1>15 DEF Restore, Done, NotYet, Failure, Strict
<1>16. CASE Unpublish
  <2>1. marker = "fresh" /\ backup = NoFile /\ Strict /\ "unpublish" \in todo
    BY <1>16 DEF Unpublish
  <2>2. /\ UNCHANGED <<marker, backup, stage>>
        /\ todo' \subseteq todo
        /\ "unpublish" \notin todo'
    BY <1>16 DEF Unpublish, Done
  <2>3. ASSUME "marker" \in todo' PROVE target' = NoFile
    BY <1>16, <2>1, <2>3 DEF Unpublish, Done, Failure, Strict
  <2>4. ASSUME reply' \notin Trouble
        PROVE  /\ reply \notin Trouble
               /\ "marker" \notin todo' => "marker" \notin todo
    BY <1>16, <2>4 DEF Unpublish, Done, Failure, Strict
  <2>5. QED
    BY <2>1, <2>2, <2>3, <2>4
<1>17. CASE RemoveTemp
  BY <1>17 DEF RemoveTemp, Done, Failure, Strict
<1>18. CASE RemoveMarker
  BY <1>18 DEF RemoveMarker, Done, Failure, Strict
<1>19. CASE Answer
  BY <1>19 DEF Answer, files
<1>20. CASE ReadBook
  BY <1>20 DEF ReadBook, call
<1>21. CASE ForeignWrite
  BY <1>21 DEF ForeignWrite, call
<1>22. CASE PowerLoss
  BY <1>22 DEF PowerLoss, files
<1>23. CASE UNCHANGED vars
  BY <1>23 DEF vars, call, files
<1>24. QED
  BY <1>1, <1>2, <1>3, <1>4, <1>5, <1>6, <1>7, <1>8, <1>9, <1>10, <1>11,
     <1>12, <1>13, <1>14, <1>15, <1>16, <1>17, <1>18, <1>19, <1>20, <1>21,
     <1>22, <1>23
  DEF Next, Cleaning

(***************************************************************************)
(* Only the commit, and a writer that finds no leftover, changes what the  *)
(* card makes of the path.                                                 *)
(***************************************************************************)
LEMMA ContentKept ==
  ASSUME TypeOK, StageOK, ChoresOK, kept = Recoverable,
         "leftover" \notin ForeignWhen, [Next]_vars
  PROVE  kept' = Recoverable'
<1> USE DEF TypeOK, StageOK, CallOK, BeforeOK, CommitOK, AfterOK, ChoresOK, Recoverable, Rollbacks, Committing
<1>1. CASE \E c \in Contents : Begin(c)
  BY <1>1 DEF Begin, RollBack, MarkedChores, files
<1>2. CASE RefuseMarker
  BY <1>2 DEF RefuseMarker, files
<1>3. CASE Recovered
  BY <1>3 DEF Recovered
<1>4. CASE Write
  BY <1>4 DEF Write, Stay, DiscardTemp, RollBack
<1>5. CASE Abort
  BY <1>5 DEF Abort, DiscardTemp, RollBack, files
<1>6. CASE Finish
  BY <1>6 DEF Finish, GoTo, DiscardTemp, RollBack, files
<1>7. CASE BackUp
  BY <1>7 DEF BackUp, GoTo, RollBack
<1>8. CASE CreateMarker
  BY <1>8 DEF CreateMarker, GoTo
<1>9. CASE FillMarker
  BY <1>9 DEF FillMarker, GoTo
<1>10. CASE MarkerFailed
  BY <1>10 DEF MarkerFailed, RollBack
<1>11. CASE Promote
  BY <1>11 DEF Promote, GoTo, RollBack, MarkedChores
<1>12. CASE Hook
  BY <1>12 DEF Hook, GoTo, RollBack, MarkedChores
<1>13. CASE Unmark
  BY <1>13 DEF Unmark, Commit, GoTo, RollBack, MarkedChores
<1>14. CASE DropBackup
  BY <1>14 DEF DropBackup, Commit, GoTo, RollBack
<1>15. CASE Restore
  BY <1>15 DEF Restore, Done, NotYet, Failure, Strict
<1>16. CASE Unpublish
  BY <1>16 DEF Unpublish, Done, Failure, Strict
<1>17. CASE RemoveTemp
  BY <1>17 DEF RemoveTemp, Done, Failure, Strict
<1>18. CASE RemoveMarker
  BY <1>18 DEF RemoveMarker, Done, Failure, Strict
<1>19. CASE Answer
  BY <1>19 DEF Answer, files
<1>20. CASE ReadBook
  BY <1>20 DEF ReadBook, call
<1>21. CASE ForeignWrite
  BY <1>21 DEF ForeignWrite, call, Leftover
<1>22. CASE PowerLoss
  BY <1>22 DEF PowerLoss, files
<1>23. CASE UNCHANGED vars
  BY <1>23 DEF vars, call, files
<1>24. QED
  BY <1>1, <1>2, <1>3, <1>4, <1>5, <1>6, <1>7, <1>8, <1>9, <1>10, <1>11,
     <1>12, <1>13, <1>14, <1>15, <1>16, <1>17, <1>18, <1>19, <1>20, <1>21,
     <1>22, <1>23
  DEF Next, Cleaning

-----------------------------------------------------------------------------
(***************************************************************************)
(* Whoever else writes the path, and whenever, the call's own variables    *)
(* and the files of a running commit stay consistent.                      *)
(***************************************************************************)
CallInv == TypeOK /\ StageOK /\ ChoresOK

LEMMA CallInvariant == Spec => []CallInv
<1>1. Init => CallInv
  <2>1. Init => StageOK /\ ChoresOK
    BY DEF Init, StageOK, CallOK, BeforeOK, CommitOK, AfterOK, ChoresOK, Committing, Rollbacks
  <2>2. QED
    BY <2>1, InitType DEF CallInv
<1>2. CallInv /\ [Next]_vars => CallInv'
  BY NextType, StageKept, ChoresKept DEF CallInv
<1>3. QED
  BY <1>1, <1>2, PTL DEF Spec

(***************************************************************************)
(* The types of all variables.                                             *)
(***************************************************************************)
THEOREM TypeCorrect == Spec => []TypeOK
  BY CallInvariant, PTL DEF CallInv

(***************************************************************************)
(* The card always tells the content last acknowledged, provided no other  *)
(* writer touches a path with leftovers.                                   *)
(***************************************************************************)
LEMMA ContentInvariant ==
  ASSUME "leftover" \notin ForeignWhen
  PROVE  Spec => [](CallInv /\ kept = Recoverable)
<1>1. Init => kept = Recoverable
  BY DEF Init, Recoverable
<1>2. CallInv /\ kept = Recoverable /\ [Next]_vars => (kept = Recoverable)'
  <2> SUFFICES ASSUME CallInv, kept = Recoverable, [Next]_vars
               PROVE  kept' = Recoverable'
    OBVIOUS
  <2> QED
    BY ContentKept DEF CallInv
<1>3. QED
  BY <1>1, <1>2, CallInvariant, PTL DEF Spec

(***************************************************************************)
(* The acknowledged content is at the target or in the backup.             *)
(***************************************************************************)
THEOREM KeptIsOnTheCard ==
  ASSUME "leftover" \notin ForeignWhen
  PROVE  Spec => []KeptSurvives
<1>1. kept = Recoverable => KeptSurvives
  BY DEF KeptSurvives, Recoverable
<1>2. QED
  BY <1>1, ContentInvariant, PTL

(***************************************************************************)
(* Without leftovers the target is the acknowledged content.               *)
(***************************************************************************)
THEOREM CleanIsCommitted ==
  ASSUME "leftover" \notin ForeignWhen
  PROVE  Spec => []CleanMeansCommitted
<1>1. kept = Recoverable => CleanMeansCommitted
  BY DEF CleanMeansCommitted, Recoverable, Leftover
<1>2. QED
  BY <1>1, ContentInvariant, PTL

-----------------------------------------------------------------------------
(***************************************************************************)
(* The answers: only a commit says Ok, and an orderly failure leaves       *)
(* nothing to recover.                                                     *)
(***************************************************************************)
LEMMA OkStep ==
  ASSUME CallInv, [Next]_vars, status' = "Ok", status # "Ok"
  PROVE  /\ target' = sent /\ backup' = NoFile /\ marker' = "none"
         /\ cache' = "none"
<1> USE DEF CallInv, TypeOK
<1>1. CASE \E c \in Contents : Begin(c)
  BY <1>1 DEF Begin, RollBack, MarkedChores, files
<1>2. CASE RefuseMarker
  BY <1>2 DEF RefuseMarker, files
<1>3. CASE Recovered
  BY <1>3 DEF Recovered, StageOK, CallOK
<1>4. CASE Write
  BY <1>4 DEF Write, Stay, DiscardTemp, RollBack
<1>5. CASE Abort
  BY <1>5 DEF Abort, DiscardTemp, RollBack, files
<1>6. CASE Finish
  BY <1>6 DEF Finish, GoTo, DiscardTemp, RollBack, files
<1>7. CASE BackUp
  BY <1>7 DEF BackUp, GoTo, RollBack
<1>8. CASE CreateMarker
  BY <1>8 DEF CreateMarker, GoTo
<1>9. CASE FillMarker
  BY <1>9 DEF FillMarker, GoTo
<1>10. CASE MarkerFailed
  BY <1>10 DEF MarkerFailed, RollBack
<1>11. CASE Promote
  BY <1>11 DEF Promote, GoTo, RollBack, MarkedChores
<1>12. CASE Hook
  BY <1>12 DEF Hook, GoTo, RollBack, MarkedChores
<1>13. CASE Unmark
  BY <1>13 DEF Unmark, Commit, GoTo, RollBack, MarkedChores, StageOK,
     BeforeOK, CommitOK, AfterOK, Committing
<1>14. CASE DropBackup
  BY <1>14 DEF DropBackup, Commit, GoTo, RollBack, StageOK, BeforeOK,
     CommitOK, AfterOK
<1>15. CASE Restore
  BY <1>15 DEF Restore, Done, NotYet, Failure, Strict
<1>16. CASE Unpublish
  BY <1>16 DEF Unpublish, Done, Failure, Strict
<1>17. CASE RemoveTemp
  BY <1>17 DEF RemoveTemp, Done, Failure, Strict
<1>18. CASE RemoveMarker
  BY <1>18 DEF RemoveMarker, Done, Failure, Strict
<1>19. CASE Answer
  BY <1>19 DEF Answer, files, StageOK, CallOK, Rollbacks
<1>20. CASE ReadBook
  BY <1>20 DEF ReadBook, call
<1>21. CASE ForeignWrite
  BY <1>21 DEF ForeignWrite, call
<1>22. CASE PowerLoss
  BY <1>22 DEF PowerLoss, files
<1>23. CASE UNCHANGED vars
  BY <1>23 DEF vars, call, files
<1>24. QED
  BY <1>1, <1>2, <1>3, <1>4, <1>5, <1>6, <1>7, <1>8, <1>9, <1>10, <1>11,
     <1>12, <1>13, <1>14, <1>15, <1>16, <1>17, <1>18, <1>19, <1>20, <1>21,
     <1>22, <1>23
  DEF Next, Cleaning

LEMMA FailureStep ==
  ASSUME CallInv, [Next]_vars, status' \in {"Failed", "Aborted"}, status # status'
  PROVE  /\ backup' = NoFile /\ marker' = "none"
         /\ UNCHANGED <<target, backup, marker, kept>>
<1> USE DEF CallInv, TypeOK
<1>1. CASE \E c \in Contents : Begin(c)
  BY <1>1 DEF Begin, RollBack, MarkedChores, files
<1>2. CASE RefuseMarker
  BY <1>2 DEF RefuseMarker, files
<1>3. CASE Recovered
  BY <1>3 DEF Recovered, ChoresOK, Trouble
<1>4. CASE Write
  BY <1>4 DEF Write, Stay, DiscardTemp, RollBack
<1>5. CASE Abort
  BY <1>5 DEF Abort, DiscardTemp, RollBack, files
<1>6. CASE Finish
  BY <1>6 DEF Finish, GoTo, DiscardTemp, RollBack, files
<1>7. CASE BackUp
  BY <1>7 DEF BackUp, GoTo, RollBack
<1>8. CASE CreateMarker
  BY <1>8 DEF CreateMarker, GoTo
<1>9. CASE FillMarker
  BY <1>9 DEF FillMarker, GoTo
<1>10. CASE MarkerFailed
  BY <1>10 DEF MarkerFailed, RollBack
<1>11. CASE Promote
  BY <1>11 DEF Promote, GoTo, RollBack, MarkedChores
<1>12. CASE Hook
  BY <1>12 DEF Hook, GoTo, RollBack, MarkedChores
<1>13. CASE Unmark
  BY <1>13 DEF Unmark, Commit, GoTo, RollBack, MarkedChores
<1>14. CASE DropBackup
  BY <1>14 DEF DropBackup, Commit, GoTo, RollBack
<1>15. CASE Restore
  BY <1>15 DEF Restore, Done, NotYet, Failure, Strict
<1>16. CASE Unpublish
  BY <1>16 DEF Unpublish, Done, Failure, Strict
<1>17. CASE RemoveTemp
  BY <1>17 DEF RemoveTemp, Done, Failure, Strict
<1>18. CASE RemoveMarker
  BY <1>18 DEF RemoveMarker, Done, Failure, Strict
<1>19. CASE Answer
  BY <1>19 DEF Answer, files, StageOK, BeforeOK, CommitOK, AfterOK,
     ChoresOK, Rollbacks, Trouble
<1>20. CASE ReadBook
  BY <1>20 DEF ReadBook, call
<1>21. CASE ForeignWrite
  BY <1>21 DEF ForeignWrite, call
<1>22. CASE PowerLoss
  BY <1>22 DEF PowerLoss, files
<1>23. CASE UNCHANGED vars
  BY <1>23 DEF vars, call, files
<1>24. QED
  BY <1>1, <1>2, <1>3, <1>4, <1>5, <1>6, <1>7, <1>8, <1>9, <1>10, <1>11,
     <1>12, <1>13, <1>14, <1>15, <1>16, <1>17, <1>18, <1>19, <1>20, <1>21,
     <1>22, <1>23
  DEF Next, Cleaning

(***************************************************************************)
(* Ok means that the target is replaced for good, whoever else writes it.  *)
(***************************************************************************)
THEOREM OkReplaces == Spec => OkMeansReplaced
<1>1. CallInv /\ [Next]_vars =>
        [status' = "Ok" /\ status # "Ok" =>
           /\ target' = sent /\ backup' = NoFile /\ marker' = "none"
           /\ cache' = "none"]_vars
  BY OkStep
<1>2. QED
  BY <1>1, CallInvariant, PTL DEF Spec, OkMeansReplaced

(***************************************************************************)
(* An orderly failure means that the old content is back.                  *)
(***************************************************************************)
THEOREM FailureKeeps ==
  ASSUME "leftover" \notin ForeignWhen
  PROVE  Spec => FailureRestores
<1>1. CallInv /\ kept = Recoverable /\ [Next]_vars =>
        [status' \in {"Failed", "Aborted"} /\ status # status' =>
           target' = kept /\ backup' = NoFile /\ marker' = "none"]_vars
  BY FailureStep DEF Recoverable
<1>2. QED
  BY <1>1, ContentInvariant, PTL DEF Spec, FailureRestores

-----------------------------------------------------------------------------
(***************************************************************************)
(* What a step can do to the acknowledged content and to the answer.       *)
(***************************************************************************)
LEMMA AnswerStep ==
  ASSUME CallInv, [Next]_vars
  PROVE  \/ kept' = kept /\ status' \in {status, "none"}
         \/ kept' = kept /\ status' \in Answers \ {"Ok"} /\ ~Running'
         \/ kept' \in Contents /\ status' = "Ok" /\ Running /\ ~Running'
         \/ kept' \in Book /\ ~Running /\ UNCHANGED <<status, stage>>
<1> USE DEF CallInv, TypeOK, Running
<1>1. CASE \E c \in Contents : Begin(c)
  BY <1>1 DEF Begin, RollBack, MarkedChores, files
<1>2. CASE RefuseMarker
  BY <1>2 DEF RefuseMarker, files, Answers
<1>3. CASE Recovered
  BY <1>3 DEF Recovered, StageOK, CallOK, Answers
<1>4. CASE Write
  BY <1>4 DEF Write, Stay, DiscardTemp, RollBack
<1>5. CASE Abort
  BY <1>5 DEF Abort, DiscardTemp, RollBack, files
<1>6. CASE Finish
  BY <1>6 DEF Finish, GoTo, DiscardTemp, RollBack, files
<1>7. CASE BackUp
  BY <1>7 DEF BackUp, GoTo, RollBack
<1>8. CASE CreateMarker
  BY <1>8 DEF CreateMarker, GoTo
<1>9. CASE FillMarker
  BY <1>9 DEF FillMarker, GoTo
<1>10. CASE MarkerFailed
  BY <1>10 DEF MarkerFailed, RollBack
<1>11. CASE Promote
  BY <1>11 DEF Promote, GoTo, RollBack, MarkedChores
<1>12. CASE Hook
  BY <1>12 DEF Hook, GoTo, RollBack, MarkedChores
<1>13. CASE Unmark
  BY <1>13 DEF Unmark, Commit, GoTo, RollBack, MarkedChores
<1>14. CASE DropBackup
  BY <1>14 DEF DropBackup, Commit, GoTo, RollBack
<1>15. CASE Restore
  BY <1>15 DEF Restore, Done, NotYet, Failure, Strict
<1>16. CASE Unpublish
  BY <1>16 DEF Unpublish, Done, Failure, Strict
<1>17. CASE RemoveTemp
  BY <1>17 DEF RemoveTemp, Done, Failure, Strict
<1>18. CASE RemoveMarker
  BY <1>18 DEF RemoveMarker, Done, Failure, Strict
<1>19. CASE Answer
  BY <1>19 DEF Answer, files, StageOK, CallOK, Rollbacks, Answers
<1>20. CASE ReadBook
  BY <1>20 DEF ReadBook, call
<1>21. CASE ForeignWrite
  BY <1>21 DEF ForeignWrite, call
<1>22. CASE PowerLoss
  BY <1>22 DEF PowerLoss, files
<1>23. CASE UNCHANGED vars
  BY <1>23 DEF vars, call, files
<1>24. QED
  BY <1>1, <1>2, <1>3, <1>4, <1>5, <1>6, <1>7, <1>8, <1>9, <1>10, <1>11,
     <1>12, <1>13, <1>14, <1>15, <1>16, <1>17, <1>18, <1>19, <1>20, <1>21,
     <1>22, <1>23
  DEF Next, Cleaning

(***************************************************************************)
(* An upload implements one atomic replacement: while it runs the file     *)
(* changes with the answer Ok and never otherwise.                         *)
(***************************************************************************)
THEOREM UploadIsAtomic ==
  ASSUME "leftover" \notin ForeignWhen
  PROVE  Spec => ImplementsAtomicReplace
<1>1. Init => A!Init
  BY DEF Init, Book, Recoverable, Running, A!Init
<1>2. ASSUME CallInv, kept = Recoverable, kept' = Recoverable', [Next]_vars
      PROVE  [A!Next]_<<Recoverable, status, Running>>
  <2>1. CASE kept' = kept /\ status' \in {status, "none"}
    BY <1>2, <2>1 DEF A!Next, A!Proceed, Running
  <2>2. CASE kept' = kept /\ status' \in Answers \ {"Ok"} /\ ~Running'
    BY <1>2, <2>2 DEF A!Next, A!Refuse, A!Answers, Answers
  <2>3. CASE kept' \in Contents /\ status' = "Ok" /\ Running /\ ~Running'
    BY <1>2, <2>3 DEF A!Next, A!Replace
  <2>4. CASE kept' \in Book /\ ~Running /\ UNCHANGED <<status, stage>>
    BY <1>2, <2>4 DEF A!Next, A!Overwrite, Book, Running
  <2>5. QED
    BY <1>2, <2>1, <2>2, <2>3, <2>4, AnswerStep
<1>3. Spec => [](CallInv /\ kept = Recoverable)
  BY ContentInvariant
<1>4. CallInv /\ kept = Recoverable /\ (kept = Recoverable)' /\ [Next]_vars
        => [A!Next]_<<Recoverable, status, Running>>
  BY <1>2
<1>5. QED
  BY <1>1, <1>3, <1>4, PTL DEF Spec, ImplementsAtomicReplace, A!Spec, A!vars

=============================================================================
