---------------------------- MODULE BookMutation ----------------------------
(***************************************************************************)
(* The move and the delete of PDFs together: BookMoveUtils.cpp and         *)
(* PdfDeleteUtils.cpp around their two journals, the boot order of         *)
(* main.cpp and the gate before the open book is resumed.                  *)
(*                                                                         *)
(* Both journals end in a replacement of the one global recent.json, so a  *)
(* call asks the other journal before it begins its own.  A journal is     *)
(* here what load makes of it - no record, no valid slot, a record - and   *)
(* one recovery is one or two steps: BookMove and PdfDelete model what is  *)
(* inside.  journalPresence of either side is a cache of load in RAM.      *)
(***************************************************************************)
EXTENDS Naturals

CONSTANTS
  Paths,      \* absolute paths a PDF may have
  NoPath,     \* no path at all
  MaxFaults,  \* bound: failures, conflicts and power losses
  MaxCalls    \* bound: moves and deletes the user asks for

ASSUME PathsAssumption == NoPath \notin Paths
ASSUME BoundsAssumption == MaxFaults \in Nat /\ MaxCalls \in Nat

Kinds == {"move", "delete"}

(***************************************************************************)
(* What load finds.  activated holds from the phase on in which readers of *)
(* a moved book use the new key.  A delete record has no new path.         *)
(***************************************************************************)
Loaded(load, old, new, activated) ==
  [load |-> load, old |-> old, new |-> new, activated |-> activated]

Empty   == Loaded("empty", NoPath, NoPath, FALSE)
Corrupt == Loaded("corrupt", NoPath, NoPath, FALSE)
Pending(old, new) == Loaded("pending", old, new, FALSE)

VARIABLES
  journal,   \* per kind: what load finds on the card
  presence,  \* per kind: journalPresence
  pc,        \* where the main loop task stands
  call,      \* the running call
  open,      \* openBookPath in state.json
  resumed,   \* the book this boot resumed into
  faults, calls

vars == <<journal, presence, pc, call, open, resumed, faults, calls>>
userVars == <<open, resumed, calls>>

(***************************************************************************)
(* A call works on the journal of its kind.  boot: it is the recovery in   *)
(* setup; blocked: that recovery was not finished.                         *)
(***************************************************************************)
Call(kind, old, new, boot, blocked) ==
  [kind |-> kind, old |-> old, new |-> new, boot |-> boot, blocked |-> blocked]
NoCall == Call("none", NoPath, NoPath, FALSE, FALSE)

Init ==
  /\ journal = [k \in Kinds |-> Empty]
  /\ presence = [k \in Kinds |-> "lookup"]
  /\ pc = "off"
  /\ call = NoCall
  /\ open \in Paths \cup {NoPath}
  /\ resumed = NoPath
  /\ faults = 0 /\ calls = 0

Fault == faults < MaxFaults /\ faults' = faults + 1
NoFault == UNCHANGED faults

-----------------------------------------------------------------------------
(***************************************************************************)
(* mutationFenceForPath of either side.  A lookup that finds no record is  *)
(* remembered; an unreadable journal and a running call of that side are   *)
(* no proof of absence.                                                    *)
(***************************************************************************)
Fence(kind, p) ==
  CASE presence[kind] = "absent"      -> "clear"
    [] presence[kind] = "starting"    -> "indeterminate"
    [] OTHER ->
         CASE journal[kind].load = "corrupt" -> "indeterminate"
           [] journal[kind].load = "empty"   -> "clear"
           [] OTHER -> IF p \in {journal[kind].old, journal[kind].new}
                         THEN "matching" ELSE "unrelated"

Remembered(kind) ==
  IF presence[kind] = "lookup" /\ journal[kind] = Empty
    THEN "absent" ELSE presence[kind]

(* Only Clear lets a mutation begin: one that names other paths replaces   *)
(* recent.json just the same.                                              *)
MayBeginBesides(fence) == fence \in {"clear", "unrelated"}

MayBegin(fence) == fence = "clear"

(* migrationCacheHash resolves the path, and not to a key still in use by  *)
(* a move that is not activated.                                           *)
Writable(p) ==
  \/ presence["move"] = "absent"
  \/ /\ presence["move"] = "lookup"
     /\ \/ journal["move"] = Empty
        \/ /\ journal["move"].load = "pending"
           /\ \/ p \notin {journal["move"].old, journal["move"].new}
              \/ journal["move"].activated

-----------------------------------------------------------------------------
(***************************************************************************)
(* A call returns: it publishes what it knows of its own journal, and the  *)
(* boot goes on from the delete journal to the move journal to the resume, *)
(* past the move journal when the delete is not finished.                  *)
(***************************************************************************)
ProvesAbsentUnlessConflict(res) == res # "conflict"

ProvesAbsent(res) == res \in {"nothing", "complete", "invalid"}

BlockedUnlessComplete(res) == res # "complete"

Blocked(res) == res \in {"pending", "conflict", "invalid"}

Returns(res, known) ==
  /\ presence' = [known EXCEPT ![call.kind] =
                    IF ProvesAbsent(res) THEN "absent" ELSE "lookup"]
  /\ IF ~call.boot THEN pc' = "idle" /\ call' = NoCall
     ELSE IF call.kind = "delete" /\ ~Blocked(res)
       THEN pc' = "bootMove" /\ call' = [call EXCEPT !.kind = "move"]
       ELSE pc' = "resume" /\ call' = [call EXCEPT !.blocked = Blocked(res)]
  /\ UNCHANGED userVars

Return(res) == Returns(res, presence)

Goto(label) == pc' = label /\ UNCHANGED <<call, userVars>>

(* What ends a call early without a change on the card: memory, reads.     *)
CallFails ==
  /\ pc \in {"moveFence", "moveRecover", "deleteLoad", "deleteRecoverFence",
             "deleteFence", "bootMove"}
  /\ Fault
  /\ Return("pending")
  /\ UNCHANGED journal

(***************************************************************************)
(* Coordinator::begin arms an empty journal.  A failing or interrupted     *)
(* first record leaves nothing, an undecodable slot, or the whole record.  *)
(***************************************************************************)
Request == Pending(call.old, call.new)

Arm(next) ==
  /\ journal[call.kind] = Empty
  /\ journal' = [journal EXCEPT ![call.kind] = Request]
  /\ Goto(next) /\ NoFault /\ UNCHANGED presence

ArmFails ==
  /\ Fault
  /\ \E left \in {Empty, Corrupt, Request} :
       journal' = [journal EXCEPT ![call.kind] = left]
  /\ Return("pending")

(***************************************************************************)
(* Coordinator::recover empties the journal, or stops half way.            *)
(***************************************************************************)
Emptied == journal' = [journal EXCEPT ![call.kind] = Empty]

Stuck ==
  /\ Fault /\ UNCHANGED journal
  /\ \E res \in {"pending", "conflict"} : Return(res)

-----------------------------------------------------------------------------
(***************************************************************************)
(* moveBook publishes MoveStarting and asks the delete journal.            *)
(***************************************************************************)
StartMove(o, n) ==
  /\ pc = "idle" /\ calls < MaxCalls /\ o # n
  /\ presence' = [presence EXCEPT !["move"] = "starting"]
  /\ call' = Call("move", o, n, FALSE, FALSE)
  /\ pc' = "moveFence"
  /\ calls' = calls + 1
  /\ UNCHANGED <<journal, open, resumed, faults>>

MoveFence ==
  /\ pc = "moveFence"
  /\ LET known == [presence EXCEPT !["delete"] = Remembered("delete")]
         fence == Fence("delete", call.old)
     IN  IF MayBegin(fence) THEN presence' = known /\ Goto("moveRecover")
         ELSE Returns(IF fence = "indeterminate" THEN "pending" ELSE "conflict", known)
  /\ UNCHANGED <<journal, faults>>

(* A move that activates takes the open path along.                        *)
Activate ==
  /\ pc \in {"moveRecover", "moveRun", "bootMove"}
  /\ journal["move"].load = "pending" /\ ~journal["move"].activated
  /\ journal' = [journal EXCEPT !["move"].activated = TRUE]
  /\ open' = IF open = journal["move"].old THEN journal["move"].new ELSE open
  /\ UNCHANGED <<presence, pc, call, resumed, faults, calls>>

MoveRecover ==
  /\ pc = "moveRecover"
  /\ CASE journal["move"] = Corrupt -> Return("pending") /\ UNCHANGED <<journal, faults>>
       [] journal["move"] = Empty ->
            Goto("moveCheck") /\ UNCHANGED <<journal, presence, faults>>
       [] OTHER -> \/ Emptied /\ Goto("moveCheck") /\ UNCHANGED <<presence, faults>>
                   \/ Stuck

(* Whether source and target exist is not modelled here.                   *)
MoveCheck ==
  /\ pc = "moveCheck"
  /\ (Goto("moveBegin") /\ UNCHANGED presence) \/ Return("nothing")
  /\ UNCHANGED <<journal, faults>>

MoveBegin == pc = "moveBegin" /\ (Arm("moveRun") \/ ArmFails)

MoveRun ==
  /\ pc = "moveRun"
  /\ (Emptied /\ Return("complete") /\ NoFault) \/ Stuck

-----------------------------------------------------------------------------
(***************************************************************************)
(* deletePdfBook publishes DeleteStarting and loads its journal.  A        *)
(* pending record is finished first; it answers for the same path.         *)
(***************************************************************************)
StartDelete(p) ==
  /\ pc = "idle" /\ calls < MaxCalls
  /\ presence' = [presence EXCEPT !["delete"] = "starting"]
  /\ call' = Call("delete", p, NoPath, FALSE, FALSE)
  /\ pc' = "deleteLoad"
  /\ calls' = calls + 1
  /\ UNCHANGED <<journal, open, resumed, faults>>

(* recoverPendingPdfDelete, before a directory is deleted.                 *)
StartRecoverDelete ==
  /\ pc = "idle" /\ calls < MaxCalls /\ presence["delete"] # "absent"
  /\ presence' = [presence EXCEPT !["delete"] = "starting"]
  /\ call' = Call("delete", NoPath, NoPath, FALSE, FALSE)
  /\ pc' = "deleteLoad"
  /\ calls' = calls + 1
  /\ UNCHANGED <<journal, open, resumed, faults>>

RecoveryOnly == call.old = NoPath

DeleteLoad ==
  /\ pc = "deleteLoad"
  /\ CASE journal["delete"] = Corrupt -> Return("pending")
       [] journal["delete"] = Empty ->
            IF RecoveryOnly THEN Return("nothing")
            ELSE Goto("deleteFence") /\ UNCHANGED presence
       [] OTHER -> Goto("deleteRecoverFence") /\ UNCHANGED presence
  /\ UNCHANGED <<journal, faults>>

(* checkMoveFence, for the pending record and for the requested path.      *)
AskMove(p, next) ==
  LET known == [presence EXCEPT !["move"] = Remembered("move")]
      fence == Fence("move", p)
  IN  /\ IF MayBegin(fence) THEN presence' = known /\ Goto(next)
         ELSE Returns(IF fence = "indeterminate" THEN "pending" ELSE "conflict", known)
      /\ UNCHANGED <<journal, faults>>

DeleteRecoverFence ==
  pc = "deleteRecoverFence" /\ AskMove(journal["delete"].old, "deleteRecover")

DeleteRecover ==
  /\ pc = "deleteRecover"
  /\ \/ /\ Emptied /\ NoFault
        /\ IF RecoveryOnly \/ call.old = journal["delete"].old
             THEN Return("complete")
             ELSE Goto("deleteFence") /\ UNCHANGED presence
     \/ Stuck

DeleteFence == pc = "deleteFence" /\ AskMove(call.old, "deleteCheck")

(* The source is missing or its tombstone is in the way.                   *)
DeleteCheck ==
  /\ pc = "deleteCheck"
  /\ (Goto("deleteBegin") /\ UNCHANGED presence) \/ Return("invalid")
  /\ UNCHANGED <<journal, faults>>

DeleteBegin == pc = "deleteBegin" /\ (Arm("deleteRun") \/ ArmFails)

DeleteRun ==
  /\ pc = "deleteRun"
  /\ (Emptied /\ Return("complete") /\ NoFault) \/ Stuck

-----------------------------------------------------------------------------
(***************************************************************************)
(* setup: delete recovery, move recovery, then the open book is resumed    *)
(* unless a journal holds it.                                              *)
(***************************************************************************)
Boot ==
  /\ pc = "off"
  /\ presence' = [presence EXCEPT !["delete"] = "starting"]
  /\ call' = Call("delete", NoPath, NoPath, TRUE, FALSE)
  /\ pc' = "deleteLoad"
  /\ UNCHANGED <<journal, userVars, faults>>

(* recoverPendingBookMove                                                  *)
BootMove ==
  /\ pc = "bootMove"
  /\ CASE journal["move"] = Corrupt -> Return("pending") /\ UNCHANGED <<journal, faults>>
       [] journal["move"] = Empty   -> Return("nothing") /\ UNCHANGED <<journal, faults>>
       [] OTHER -> (Emptied /\ Return("complete") /\ NoFault) \/ Stuck

NotDeleted == Fence("delete", open) \in {"clear", "unrelated"}

MayResumeUnlessDeleted == NotDeleted

MayResume == NotDeleted /\ (call.blocked => Writable(open))

Resume ==
  /\ pc = "resume"
  /\ IF open = NoPath
       THEN UNCHANGED <<presence, resumed, faults>>
     ELSE \/ /\ resumed' = IF MayResume THEN open ELSE NoPath
             /\ presence' = [k \in Kinds |->
                              IF k = "delete" \/ (call.blocked /\ NotDeleted)
                                THEN Remembered(k) ELSE presence[k]]
             /\ NoFault
          \/ Fault /\ resumed' = NoPath /\ UNCHANGED presence
  /\ pc' = "idle" /\ call' = NoCall
  /\ UNCHANGED <<journal, open, calls>>

(* The user opens a book.                                                  *)
OpenBook(p) ==
  /\ pc = "idle" /\ Writable(p)
  /\ open' = p
  /\ presence' = [presence EXCEPT !["move"] = Remembered("move")]
  /\ UNCHANGED <<journal, pc, call, resumed, faults, calls>>

(* Sleep and loss of power end in a boot; RAM is lost.                     *)
SwitchOff ==
  /\ presence' = [k \in Kinds |-> "lookup"]
  /\ pc' = "off" /\ call' = NoCall /\ resumed' = NoPath
  /\ UNCHANGED <<open, calls>>

Sleep == pc = "idle" /\ SwitchOff /\ UNCHANGED <<journal, faults>>

PowerLoss ==
  /\ pc \notin {"off", "idle"} /\ Fault
  /\ SwitchOff
  /\ IF pc \in {"moveBegin", "deleteBegin"}
       THEN \E left \in {Empty, Corrupt, Request} :
              journal' = [journal EXCEPT ![call.kind] = left]
       ELSE UNCHANGED journal

-----------------------------------------------------------------------------
Working ==
  \/ MoveFence \/ Activate \/ MoveRecover \/ MoveCheck \/ MoveBegin \/ MoveRun
  \/ DeleteLoad \/ DeleteRecoverFence \/ DeleteRecover \/ DeleteFence
  \/ DeleteCheck \/ DeleteBegin \/ DeleteRun
  \/ BootMove \/ Resume \/ CallFails

User ==
  \/ \E o, n \in Paths : StartMove(o, n)
  \/ \E p \in Paths : StartDelete(p) \/ OpenBook(p)
  \/ StartRecoverDelete

Next == Working \/ User \/ Boot \/ Sleep \/ PowerLoss

Spec == Init /\ [][Next]_vars

(* The task is scheduled, a reader left alone sleeps and is woken again.   *)
FairSpec == Spec /\ WF_vars(Working) /\ WF_vars(Boot) /\ WF_vars(Sleep)

-----------------------------------------------------------------------------
(***************************************************************************)
(* Properties.                                                             *)
(***************************************************************************)
(* Every variable holds a value of its kind, and a record names a path.    *)
MaybePaths == Paths \cup {NoPath}
Journals == {Empty, Corrupt} \cup
            [load : {"pending"}, old : Paths, new : MaybePaths, activated : BOOLEAN]
Labels == {"off", "idle", "moveFence", "moveRecover", "moveCheck", "moveBegin",
           "moveRun", "deleteLoad", "deleteRecoverFence", "deleteRecover",
           "deleteFence", "deleteCheck", "deleteBegin", "deleteRun", "bootMove",
           "resume"}

TypeOK ==
  /\ journal \in [Kinds -> Journals]
  /\ presence \in [Kinds -> {"lookup", "absent", "starting"}]
  /\ pc \in Labels
  /\ call \in [kind : Kinds \cup {"none"}, old : MaybePaths, new : MaybePaths,
               boot : BOOLEAN, blocked : BOOLEAN]
  /\ open \in MaybePaths /\ resumed \in MaybePaths
  /\ faults \in 0..MaxFaults /\ calls \in 0..MaxCalls

(* One journal at most holds anything, whatever was interrupted: two that  *)
(* hold a record would each refuse to go on because of the other, or both  *)
(* replace recent.json.                                                    *)
OneJournal == \E k \in Kinds : journal[k] = Empty

(* What readers and the other side take from RAM instead of the card is    *)
(* right: absent is never cached over a record or a damaged slot, and no   *)
(* call that ended leaves its starting mark, which would refuse everything *)
(* until the next boot.                                                    *)
PresenceSound ==
  \A k \in Kinds : /\ presence[k] = "absent" => journal[k] = Empty
                   /\ presence[k] = "starting" => call.kind = k

(* A boot never resumes into a book that a pending delete names, or that a *)
(* move names that has not activated its new key.                          *)
ResumeIsSafe ==
  [][resumed' \notin {resumed, NoPath} =>
       /\ journal["delete"].load = "pending" => resumed' # journal["delete"].old
       /\ journal["move"].load = "pending" /\ ~journal["move"].activated =>
            resumed' \notin {journal["move"].old, journal["move"].new}]_vars

(* A record is finished in the end, if failures stop and the reader keeps  *)
(* being woken: neither journal waits for the other.                       *)
PendingFinishes ==
  \A k \in Kinds : journal[k].load = "pending" ~> journal[k] = Empty

=============================================================================
