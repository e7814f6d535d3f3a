-------------------------- MODULE BookMutationProofs --------------------------
(***************************************************************************)
(* Theorems about BookMutation, for any set of paths and any bounds.       *)
(***************************************************************************)
EXTENDS BookMutation, TLAPS

(***************************************************************************)
(* What a label says of the journals and the call: past its fence a move   *)
(* has found the delete journal empty and the other way round, and what    *)
(* is about to begin has found its own journal empty too.                  *)
(***************************************************************************)
MoveLabels   == {"moveFence", "moveRecover", "moveCheck", "moveBegin", "moveRun"}
DeleteLabels == {"deleteLoad", "deleteRecoverFence", "deleteRecover",
                 "deleteFence", "deleteCheck", "deleteBegin", "deleteRun"}

CallOK ==
  /\ pc \in MoveLabels => /\ call.kind = "move" /\ ~call.boot
                          /\ call.old \in Paths /\ call.new \in Paths
  /\ pc \in DeleteLabels => call.kind = "delete"
  /\ pc \in MoveLabels \cup DeleteLabels => presence[call.kind] = "starting"
  /\ pc = "bootMove" => call.kind = "move" /\ call.boot
  /\ pc = "resume" => /\ call.kind \in Kinds /\ call.boot
                      /\ \A k \in Kinds : presence[k] # "starting"
  /\ pc \in {"idle", "off"} => call.kind = "none"
  /\ pc \in {"deleteFence", "deleteCheck", "deleteBegin", "deleteRun"} =>
       call.old \in Paths

FencesOK ==
  /\ pc \in {"moveRecover", "moveCheck", "moveBegin", "moveRun"} =>
       journal["delete"] = Empty
  /\ pc \in {"moveCheck", "moveBegin"} => journal["move"] = Empty
  /\ pc \in {"deleteRecover", "deleteCheck", "deleteBegin", "deleteRun"} =>
       journal["move"] = Empty
  /\ pc \in {"deleteFence", "deleteCheck", "deleteBegin"} =>
       journal["delete"] = Empty
  /\ pc \in {"deleteRecoverFence", "deleteRecover"} =>
       journal["delete"].load = "pending"
  /\ pc = "resume" /\ ~call.blocked => journal["move"] = Empty

Results == {"nothing", "complete", "pending", "conflict", "invalid"}

Inv == TypeOK /\ OneJournal /\ PresenceSound /\ CallOK /\ FencesOK

LEMMA JournalValues ==
  /\ Empty \in Journals /\ Corrupt \in Journals
  /\ \A j \in Journals : /\ j.load = "empty" <=> j = Empty
                         /\ j.load = "corrupt" <=> j = Corrupt
                         /\ j.load \in {"empty", "corrupt", "pending"}
                         /\ j.load = "pending" => j.old \in Paths /\ j.new \in MaybePaths
  /\ Empty # Corrupt
  /\ \A o \in Paths, n \in MaybePaths : /\ Pending(o, n) \in Journals
                                        /\ Pending(o, n).load = "pending"
  BY DEF Empty, Corrupt, Pending, Loaded, Journals

LEMMA CallValues ==
  \A k \in Kinds \cup {"none"}, o, n \in MaybePaths, b, x \in BOOLEAN :
    /\ Call(k, o, n, b, x) \in [kind : Kinds \cup {"none"}, old : MaybePaths,
                                new : MaybePaths, boot : BOOLEAN, blocked : BOOLEAN]
    /\ Call(k, o, n, b, x).kind = k /\ Call(k, o, n, b, x).old = o
    /\ Call(k, o, n, b, x).new = n /\ Call(k, o, n, b, x).boot = b
  BY DEF Call

LEMMA NoCallValue ==
  /\ NoCall \in [kind : Kinds \cup {"none"}, old : MaybePaths,
                 new : MaybePaths, boot : BOOLEAN, blocked : BOOLEAN]
  /\ NoCall.kind = "none"
  BY DEF NoCall, Call, MaybePaths

THEOREM InitInv == Init => Inv
  BY NoCallValue, JournalValues, BoundsAssumption
     DEF Init, Inv, TypeOK, OneJournal, PresenceSound, CallOK, FencesOK, Labels,
         Kinds, MaybePaths, MoveLabels, DeleteLabels

LEMMA FaultOK ==
  ASSUME TypeOK, Fault \/ NoFault
  PROVE  faults' \in 0..MaxFaults
  BY BoundsAssumption DEF TypeOK, Fault, NoFault

(***************************************************************************)
(* A clear fence proves the journal empty, and a remembered absence is     *)
(* one.                                                                    *)
(***************************************************************************)
LEMMA ClearIsEmpty ==
  ASSUME Inv, NEW k \in Kinds, NEW p, MayBegin(Fence(k, p)), call.kind # k
  PROVE  journal[k] = Empty
  BY JournalValues DEF Inv, TypeOK, PresenceSound, MayBegin, Fence

LEMMA RememberedSound ==
  ASSUME Inv, NEW k \in Kinds
  PROVE  /\ Remembered(k) \in {"lookup", "absent", "starting"}
         /\ Remembered(k) = "absent" => journal[k] = Empty
         /\ Remembered(k) = "starting" => call.kind = k
  BY DEF Inv, TypeOK, PresenceSound, Remembered

(***************************************************************************)
(* A call that returns what it may: its journal is empty when the result   *)
(* proves it.                                                              *)
(***************************************************************************)
LEMMA ReturnsInv ==
  ASSUME Inv, NEW res \in Results, NEW known,
         pc \in MoveLabels \cup DeleteLabels \cup {"bootMove"},
         known \in [Kinds -> {"lookup", "absent", "starting"}],
         \A k \in Kinds : k # call.kind => /\ known[k] = "absent" => journal'[k] = Empty
                                           /\ known[k] # "starting",
         Returns(res, known),
         journal' \in [Kinds -> Journals], OneJournal', faults' \in 0..MaxFaults,
         ProvesAbsent(res) => journal'[call.kind] = Empty
  PROVE  Inv'
<1>1. call.kind \in Kinds
  BY DEF Inv, CallOK, Kinds, MoveLabels, DeleteLabels
<1>2. /\ presence' \in [Kinds -> {"lookup", "absent", "starting"}]
      /\ \A k \in Kinds : /\ presence'[k] # "starting"
                          /\ presence'[k] = "absent" => journal'[k] = Empty
  BY <1>1 DEF Returns
<1>3. CASE ~call.boot
  <2>1. pc' = "idle" /\ call' = NoCall
    BY <1>3 DEF Returns
  <2> QED
    BY <1>2, <2>1, NoCallValue DEF Inv, TypeOK, Returns, userVars, Labels,
       PresenceSound, CallOK, FencesOK, MoveLabels, DeleteLabels
<1>4. CASE call.boot /\ call.kind = "delete" /\ ~Blocked(res)
  <2>1. /\ pc' = "bootMove" /\ call' = [call EXCEPT !.kind = "move"]
    BY <1>4 DEF Returns
  <2> QED
    BY <1>2, <1>4, <2>1 DEF Inv, TypeOK, Returns, userVars, Labels, Kinds,
       PresenceSound, CallOK, FencesOK, MoveLabels, DeleteLabels
<1>5. CASE call.boot /\ ~(call.kind = "delete" /\ ~Blocked(res))
  <2>1. pc' = "resume" /\ call' = [call EXCEPT !.blocked = Blocked(res)]
    BY <1>5 DEF Returns
  <2>2. Blocked(res) \in BOOLEAN
    BY DEF Blocked
  <2>3. ~Blocked(res) => journal'["move"] = Empty
    BY <1>1, <1>5 DEF Blocked, ProvesAbsent, Results, Kinds
  <2> QED
    BY <1>1, <1>2, <1>5, <2>1, <2>2, <2>3 DEF Inv, TypeOK, Returns, userVars, Labels,
       PresenceSound, CallOK, FencesOK, MoveLabels, DeleteLabels
<1> QED
  BY <1>3, <1>4, <1>5 DEF Inv, TypeOK

(* The same with the presence of the other journal as it was.              *)
LEMMA ReturnInv ==
  ASSUME Inv, NEW res \in Results,
         pc \in MoveLabels \cup DeleteLabels \cup {"bootMove"},
         Return(res),
         journal' \in [Kinds -> Journals], OneJournal', faults' \in 0..MaxFaults,
         \A k \in Kinds : k # call.kind => journal'[k] = journal[k],
         ProvesAbsent(res) => journal'[call.kind] = Empty
  PROVE  Inv'
  BY ReturnsInv DEF Return, Inv, TypeOK, PresenceSound

(* What leaves the card alone and is not a proof of absence.               *)
LEMMA UnprovenInv ==
  ASSUME Inv, NEW res \in {"pending", "conflict"},
         pc \in MoveLabels \cup DeleteLabels \cup {"bootMove"},
         Return(res), UNCHANGED journal, Fault \/ NoFault
  PROVE  Inv'
<1>1. journal' \in [Kinds -> Journals] /\ OneJournal'
  BY DEF Inv, TypeOK, OneJournal
<1>2. faults' \in 0..MaxFaults
  BY FaultOK DEF Inv
<1> QED
  BY <1>1, <1>2, ReturnInv DEF ProvesAbsent, Results

LEMMA CallFailsInv == Inv /\ CallFails => Inv'
  BY UnprovenInv DEF CallFails, MoveLabels, DeleteLabels

LEMMA StuckInv ==
  ASSUME Inv, pc \in {"moveRecover", "moveRun", "deleteRecover", "deleteRun", "bootMove"},
         Stuck
  PROVE  Inv'
  BY UnprovenInv DEF Stuck, MoveLabels, DeleteLabels

(* The journal of the call is emptied, and the call returns or goes on.    *)
LEMMA EmptiedFacts ==
  ASSUME Inv, call.kind \in Kinds, Emptied
  PROVE  /\ journal' \in [Kinds -> Journals] /\ OneJournal'
         /\ journal'[call.kind] = Empty
         /\ \A k \in Kinds : k # call.kind => journal'[k] = journal[k]
  BY JournalValues DEF Inv, TypeOK, Emptied, OneJournal

LEMMA EmptiedReturnInv ==
  ASSUME Inv, pc \in {"moveRun", "deleteRecover", "deleteRun", "bootMove"},
         Emptied, Return("complete"), NoFault
  PROVE  Inv'
<1>1. call.kind \in Kinds
  BY DEF Inv, CallOK, Kinds, MoveLabels, DeleteLabels
<1>2. faults' \in 0..MaxFaults
  BY FaultOK DEF Inv
<1> QED
  BY <1>1, <1>2, EmptiedFacts, ReturnInv DEF MoveLabels, DeleteLabels, Results

(* The first record is written, or what the attempt leaves.  Only the      *)
(* labels before a begin hold both journals empty.                         *)
LEMMA BeginFacts ==
  ASSUME Inv, pc \in {"moveBegin", "deleteBegin"},
         NEW left \in {Empty, Corrupt, Request},
         journal' = [journal EXCEPT ![call.kind] = left]
  PROVE  /\ journal' \in [Kinds -> Journals] /\ OneJournal'
         /\ journal'[call.kind] = left
         /\ \A k \in Kinds : k # call.kind => journal'[k] = Empty
<1>1. call.kind \in Kinds /\ call.old \in Paths /\ call.new \in MaybePaths
  BY DEF Inv, TypeOK, CallOK, Kinds, MoveLabels, DeleteLabels
<1>2. left \in Journals
  BY <1>1, JournalValues DEF Request
<1>3. \A k \in Kinds : journal[k] = Empty
  BY DEF Inv, CallOK, FencesOK, Kinds
<1>4. \E k \in Kinds : k # call.kind
  BY DEF Kinds
<1> QED
  BY <1>1, <1>2, <1>3, <1>4 DEF Inv, TypeOK, OneJournal

LEMMA ArmInv ==
  ASSUME Inv,
         \/ pc = "moveBegin" /\ Arm("moveRun")
         \/ pc = "deleteBegin" /\ Arm("deleteRun")
  PROVE  Inv'
<1>1. journal' \in [Kinds -> Journals] /\ OneJournal'
      /\ (\A k \in Kinds : k # call.kind => journal'[k] = Empty)
  BY BeginFacts DEF Arm
<1>2. /\ UNCHANGED <<presence, call, open, resumed, calls>> /\ faults' = faults
      /\ \/ pc = "moveBegin" /\ pc' = "moveRun"
         \/ pc = "deleteBegin" /\ pc' = "deleteRun"
  BY DEF Arm, Goto, userVars, NoFault
<1>3. PresenceSound'
  BY <1>1, <1>2 DEF Inv, PresenceSound, CallOK, FencesOK, MoveLabels, DeleteLabels, Arm
<1>4. CallOK' /\ FencesOK'
  BY <1>1, <1>2 DEF Inv, CallOK, FencesOK, MoveLabels, DeleteLabels, Kinds
<1> QED
  BY <1>1, <1>2, <1>3, <1>4 DEF Inv, TypeOK, Labels

LEMMA ArmFailsInv ==
  ASSUME Inv, pc \in {"moveBegin", "deleteBegin"}, ArmFails
  PROVE  Inv'
<1>1. PICK left \in {Empty, Corrupt, Request} :
        journal' = [journal EXCEPT ![call.kind] = left]
  BY DEF ArmFails
<1>2. \A k \in Kinds : journal[k] = Empty
  BY DEF Inv, CallOK, FencesOK, Kinds
<1>3. faults' \in 0..MaxFaults
  BY FaultOK DEF Inv, ArmFails
<1>4. ~ProvesAbsent("pending")
  BY DEF ProvesAbsent
<1> QED
  BY <1>1, <1>2, <1>3, <1>4, BeginFacts, ReturnInv
     DEF ArmFails, MoveLabels, DeleteLabels, Results

-----------------------------------------------------------------------------
LEMMA StartMoveInv ==
  ASSUME Inv, NEW o \in Paths, NEW n \in Paths, StartMove(o, n)
  PROVE  Inv'
<1>1. call' = Call("move", o, n, FALSE, FALSE) /\ pc' = "moveFence"
  BY DEF StartMove
<1>2. call'.kind = "move" /\ call'.old = o /\ call'.new = n /\ ~call'.boot
  BY <1>1 DEF Call
<1>3. TypeOK'
  <2>1. call' \in [kind : Kinds \cup {"none"}, old : MaybePaths, new : MaybePaths,
                   boot : BOOLEAN, blocked : BOOLEAN]
    BY <1>1 DEF Call, Kinds, MaybePaths
  <2>2. calls' \in 0..MaxCalls
    BY BoundsAssumption DEF Inv, TypeOK, StartMove
  <2>3. open' \in MaybePaths /\ pc' \in Labels
    BY <1>1 DEF Inv, TypeOK, StartMove, Labels
  <2> QED
    BY <2>1, <2>2, <2>3 DEF Inv, TypeOK, StartMove, Kinds
<1>4. PresenceSound'
  BY <1>2 DEF Inv, TypeOK, PresenceSound, CallOK, StartMove, Kinds
<1>5. CallOK' /\ FencesOK' /\ OneJournal'
  BY <1>1, <1>2 DEF Inv, TypeOK, StartMove, CallOK, FencesOK, OneJournal, MoveLabels,
     DeleteLabels, Kinds
<1> QED
  BY <1>3, <1>4, <1>5 DEF Inv

(* deletePdfBook, the recovery before a directory delete, and setup.       *)
LEMMA StartDeleteInv ==
  ASSUME Inv, pc \in {"idle", "off"}, NEW p \in MaybePaths, NEW boot \in BOOLEAN,
         call' = Call("delete", p, NoPath, boot, FALSE),
         presence' = [presence EXCEPT !["delete"] = "starting"],
         pc' = "deleteLoad", calls' \in 0..MaxCalls,
         UNCHANGED <<journal, open, resumed, faults>>
  PROVE  Inv'
<1>1. call'.kind = "delete"
  BY DEF Call
<1>2. TypeOK'
  BY CallValues DEF Inv, TypeOK, Labels, Kinds, MaybePaths
<1>3. PresenceSound'
  BY <1>1 DEF Inv, TypeOK, PresenceSound, CallOK, Kinds
<1>4. CallOK' /\ FencesOK' /\ OneJournal'
  BY <1>1 DEF Inv, TypeOK, CallOK, FencesOK, OneJournal, MoveLabels, DeleteLabels, Kinds
<1> QED
  BY <1>2, <1>3, <1>4 DEF Inv

LEMMA DeleteStartsInv ==
  ASSUME Inv, (\E p \in Paths : StartDelete(p)) \/ StartRecoverDelete \/ Boot
  PROVE  Inv'
<1>1. calls < MaxCalls => calls + 1 \in 0..MaxCalls
  BY BoundsAssumption DEF Inv, TypeOK
<1>2. NoPath \in MaybePaths /\ Paths \subseteq MaybePaths /\ calls \in 0..MaxCalls
  BY DEF MaybePaths, Inv, TypeOK
<1>3. ASSUME NEW p \in Paths, StartDelete(p) PROVE Inv'
  BY <1>1, <1>2, <1>3, StartDeleteInv DEF StartDelete
<1>4. CASE StartRecoverDelete
  BY <1>1, <1>2, <1>4, StartDeleteInv DEF StartRecoverDelete
<1>5. CASE Boot
  BY <1>2, <1>5, StartDeleteInv DEF Boot, userVars
<1> QED
  BY <1>3, <1>4, <1>5

(***************************************************************************)
(* The two fences.                                                         *)
(***************************************************************************)
LEMMA MoveFenceInv == Inv /\ MoveFence => Inv'
<1> SUFFICES ASSUME Inv, MoveFence PROVE Inv'
  OBVIOUS
<1> DEFINE known == [presence EXCEPT !["delete"] = Remembered("delete")]
           fence == Fence("delete", call.old)
<1>1. /\ pc = "moveFence" /\ call.kind = "move" /\ UNCHANGED <<journal, faults>>
      /\ presence["move"] = "starting" /\ call.old \in Paths
  BY DEF MoveFence, Inv, CallOK, MoveLabels
<1>2. /\ known \in [Kinds -> {"lookup", "absent", "starting"}]
      /\ known["delete"] = "absent" => journal["delete"] = Empty
      /\ known["delete"] # "starting"
      /\ known["move"] = "starting"
  BY <1>1, RememberedSound DEF Inv, TypeOK, Kinds
<1>3. CASE MayBegin(fence)
  <2>1. presence' = known /\ pc' = "moveRecover" /\ UNCHANGED <<call, open, resumed, calls>>
    BY <1>3 DEF MoveFence, Goto, userVars
  <2>2. journal["delete"] = Empty
    BY <1>1, <1>3, ClearIsEmpty DEF Kinds
  <2>3. TypeOK' /\ OneJournal'
    BY <1>1, <1>2, <2>1 DEF Inv, TypeOK, OneJournal, Labels
  <2>4. PresenceSound'
    BY <1>1, <1>2, <2>1 DEF PresenceSound, Kinds
  <2>5. CallOK' /\ FencesOK'
    BY <1>1, <1>2, <2>1, <2>2 DEF Inv, CallOK, FencesOK, MoveLabels, DeleteLabels
  <2> QED
    BY <2>3, <2>4, <2>5 DEF Inv
<1>4. CASE ~MayBegin(fence)
  <2>1. PICK res \in {"pending", "conflict"} : Returns(res, known)
    BY <1>4 DEF MoveFence
  <2>2. ~ProvesAbsent(res)
    BY DEF ProvesAbsent
  <2>3. journal' \in [Kinds -> Journals] /\ OneJournal' /\ faults' \in 0..MaxFaults
    BY <1>1 DEF Inv, TypeOK, OneJournal
  <2>4. \A k \in Kinds : k # call.kind => /\ known[k] = "absent" => journal'[k] = Empty
                                          /\ known[k] # "starting"
    BY <1>1, <1>2 DEF Kinds
  <2> HIDE DEF known
  <2> QED
    BY <1>1, <1>2, <2>1, <2>2, <2>3, <2>4, ReturnsInv DEF MoveLabels, Results
<1> QED
  BY <1>3, <1>4

LEMMA AskMoveInv ==
  ASSUME Inv, NEW p, NEW next,
         \/ pc = "deleteRecoverFence" /\ next = "deleteRecover"
         \/ pc = "deleteFence" /\ next = "deleteCheck",
         AskMove(p, next)
  PROVE  Inv'
<1> DEFINE known == [presence EXCEPT !["move"] = Remembered("move")]
           fence == Fence("move", p)
<1>1. /\ pc \in DeleteLabels /\ call.kind = "delete" /\ UNCHANGED <<journal, faults>>
      /\ presence["delete"] = "starting"
  BY DEF AskMove, Inv, CallOK, DeleteLabels
<1>2. /\ known \in [Kinds -> {"lookup", "absent", "starting"}]
      /\ known["move"] = "absent" => journal["move"] = Empty
      /\ known["move"] # "starting"
      /\ known["delete"] = "starting"
  BY <1>1, RememberedSound DEF Inv, TypeOK, Kinds
<1>3. CASE MayBegin(fence)
  <2>1. presence' = known /\ pc' = next /\ UNCHANGED <<call, open, resumed, calls>>
    BY <1>3 DEF AskMove, Goto, userVars
  <2>2. journal["move"] = Empty
    BY <1>1, <1>3, ClearIsEmpty DEF Kinds
  <2>3. TypeOK' /\ OneJournal'
    BY <1>1, <1>2, <2>1 DEF Inv, TypeOK, OneJournal, Labels
  <2>4. PresenceSound'
    BY <1>1, <1>2, <2>1 DEF PresenceSound, Kinds
  <2>5. CallOK' /\ FencesOK'
    BY <1>1, <1>2, <2>1, <2>2 DEF Inv, CallOK, FencesOK, MoveLabels, DeleteLabels
  <2> QED
    BY <2>3, <2>4, <2>5 DEF Inv
<1>4. CASE ~MayBegin(fence)
  <2>1. PICK res \in {"pending", "conflict"} : Returns(res, known)
    BY <1>4 DEF AskMove
  <2>2. ~ProvesAbsent(res)
    BY DEF ProvesAbsent
  <2>3. journal' \in [Kinds -> Journals] /\ OneJournal' /\ faults' \in 0..MaxFaults
    BY <1>1 DEF Inv, TypeOK, OneJournal
  <2>4. \A k \in Kinds : k # call.kind => /\ known[k] = "absent" => journal'[k] = Empty
                                          /\ known[k] # "starting"
    BY <1>1, <1>2 DEF Kinds
  <2> HIDE DEF known
  <2> QED
    BY <1>1, <1>2, <2>1, <2>2, <2>3, <2>4, ReturnsInv DEF Results
<1> QED
  BY <1>3, <1>4

-----------------------------------------------------------------------------
(***************************************************************************)
(* The other steps of the calls.  A step to the next label that leaves     *)
(* the card and the presences alone needs only what the label claims.      *)
(***************************************************************************)
LEMMA GotoInv ==
  ASSUME Inv, NEW label \in Labels, Goto(label), UNCHANGED <<presence, faults>>,
         journal' \in [Kinds -> Journals], OneJournal',
         \A k \in Kinds : presence[k] = "absent" => journal'[k] = Empty,
         CallOK', FencesOK'
  PROVE  Inv'
  BY DEF Inv, TypeOK, PresenceSound, Goto, userVars

LEMMA ActivateInv == Inv /\ Activate => Inv'
<1> SUFFICES ASSUME Inv, Activate PROVE Inv'
  OBVIOUS
<1>1. /\ journal["move"] \in [load : {"pending"}, old : Paths, new : MaybePaths,
                              activated : BOOLEAN]
      /\ journal["move"] # Empty
  BY JournalValues DEF Activate, Inv, TypeOK, Kinds, Journals, Empty, Corrupt, Loaded
<1>2. /\ journal'["move"] \in [load : {"pending"}, old : Paths, new : MaybePaths,
                               activated : BOOLEAN]
      /\ journal'["delete"] = journal["delete"]
      /\ journal' \in [Kinds -> Journals]
  BY <1>1 DEF Activate, Inv, TypeOK, Kinds, Journals
<1>3. open' \in MaybePaths
  BY <1>1 DEF Activate, Inv, TypeOK
<1>4. TypeOK' /\ PresenceSound' /\ OneJournal'
  BY <1>1, <1>2, <1>3 DEF Activate, Inv, TypeOK, PresenceSound, OneJournal, Kinds
<1>5. CallOK' /\ FencesOK'
  BY <1>1, <1>2 DEF Activate, Inv, CallOK, FencesOK, MoveLabels, DeleteLabels
<1> QED
  BY <1>4, <1>5 DEF Inv

LEMMA MoveRecoverInv == Inv /\ MoveRecover => Inv'
<1> SUFFICES ASSUME Inv, MoveRecover PROVE Inv'
  OBVIOUS
<1>1. pc = "moveRecover" /\ call.kind = "move" /\ presence["move"] = "starting"
  BY DEF MoveRecover, Inv, CallOK, MoveLabels
<1>2. CASE journal["move"] = Corrupt
  BY <1>1, <1>2, UnprovenInv, JournalValues DEF MoveRecover, MoveLabels, NoFault
<1>3. CASE journal["move"] = Empty
  <2>1. Goto("moveCheck") /\ UNCHANGED <<journal, presence, faults>>
    BY <1>3, JournalValues DEF MoveRecover
  <2>2. CallOK' /\ FencesOK' /\ OneJournal'
    BY <1>1, <1>3, <2>1 DEF Inv, CallOK, FencesOK, OneJournal, Goto, MoveLabels, DeleteLabels
  <2> QED
    BY <2>1, <2>2, GotoInv DEF Inv, TypeOK, PresenceSound, Labels
<1>4. CASE journal["move"] \notin {Corrupt, Empty}
  <2>1. CASE Stuck
    BY <1>1, <2>1, StuckInv
  <2>2. CASE Emptied /\ Goto("moveCheck") /\ UNCHANGED <<presence, faults>>
    <3>1. /\ journal' \in [Kinds -> Journals] /\ OneJournal'
          /\ journal'["move"] = Empty /\ journal'["delete"] = journal["delete"]
      BY <1>1, <2>2, EmptiedFacts DEF Kinds
    <3>2. CallOK' /\ FencesOK'
      BY <1>1, <2>2, <3>1 DEF Inv, CallOK, FencesOK, Goto, MoveLabels, DeleteLabels
    <3> QED
      BY <2>2, <3>1, <3>2, GotoInv DEF Inv, PresenceSound, Labels, Kinds
  <2> QED
    BY <1>4, <2>1, <2>2 DEF MoveRecover
<1> QED
  BY <1>2, <1>3, <1>4

(* Nothing pending: the call returns what the empty journal proves.        *)
LEMMA NothingInv ==
  ASSUME Inv, NEW res \in Results, pc \in MoveLabels \cup DeleteLabels \cup {"bootMove"},
         journal[call.kind] = Empty, Return(res), UNCHANGED <<journal, faults>>
  PROVE  Inv'
<1>1. journal' \in [Kinds -> Journals] /\ OneJournal' /\ faults' \in 0..MaxFaults
  BY DEF Inv, TypeOK, OneJournal
<1> QED
  BY <1>1, ReturnInv

LEMMA MoveCheckInv == Inv /\ MoveCheck => Inv'
<1> SUFFICES ASSUME Inv, MoveCheck PROVE Inv'
  OBVIOUS
<1>1. pc = "moveCheck" /\ call.kind = "move" /\ journal["move"] = Empty
  BY DEF MoveCheck, Inv, CallOK, FencesOK, MoveLabels
<1>2. CASE Return("nothing")
  BY <1>1, <1>2, NothingInv DEF MoveCheck, MoveLabels, Results
<1>3. CASE Goto("moveBegin") /\ UNCHANGED presence
  <2>1. UNCHANGED <<journal, faults>>
    BY DEF MoveCheck
  <2>2. CallOK' /\ FencesOK' /\ OneJournal'
    BY <1>1, <1>3, <2>1 DEF Inv, CallOK, FencesOK, OneJournal, Goto, MoveLabels, DeleteLabels
  <2> QED
    BY <1>3, <2>1, <2>2, GotoInv DEF Inv, TypeOK, PresenceSound, Labels
<1> QED
  BY <1>2, <1>3 DEF MoveCheck

LEMMA DeleteCheckInv == Inv /\ DeleteCheck => Inv'
<1> SUFFICES ASSUME Inv, DeleteCheck PROVE Inv'
  OBVIOUS
<1>1. pc = "deleteCheck" /\ call.kind = "delete" /\ journal["delete"] = Empty
  BY DEF DeleteCheck, Inv, CallOK, FencesOK, DeleteLabels
<1>2. CASE Return("invalid")
  BY <1>1, <1>2, NothingInv DEF DeleteCheck, DeleteLabels, Results
<1>3. CASE Goto("deleteBegin") /\ UNCHANGED presence
  <2>1. UNCHANGED <<journal, faults>>
    BY DEF DeleteCheck
  <2>2. CallOK' /\ FencesOK' /\ OneJournal'
    BY <1>1, <1>3, <2>1 DEF Inv, CallOK, FencesOK, OneJournal, Goto, MoveLabels, DeleteLabels
  <2> QED
    BY <1>3, <2>1, <2>2, GotoInv DEF Inv, TypeOK, PresenceSound, Labels
<1> QED
  BY <1>2, <1>3 DEF DeleteCheck

LEMMA DeleteLoadInv == Inv /\ DeleteLoad => Inv'
<1> SUFFICES ASSUME Inv, DeleteLoad PROVE Inv'
  OBVIOUS
<1>1. /\ pc = "deleteLoad" /\ call.kind = "delete" /\ UNCHANGED <<journal, faults>>
      /\ journal["delete"] \in Journals
  BY DEF DeleteLoad, Inv, TypeOK, CallOK, DeleteLabels, Kinds
<1>2. CASE journal["delete"] = Corrupt
  BY <1>1, <1>2, UnprovenInv, JournalValues DEF DeleteLoad, DeleteLabels, NoFault
<1>3. CASE journal["delete"] = Empty /\ RecoveryOnly
  BY <1>1, <1>3, NothingInv, JournalValues DEF DeleteLoad, DeleteLabels, Results
<1>4. CASE journal["delete"] = Empty /\ ~RecoveryOnly
  <2>1. Goto("deleteFence") /\ UNCHANGED presence
    BY <1>4, JournalValues DEF DeleteLoad
  <2>2. call.old \in Paths
    BY <1>4 DEF RecoveryOnly, Inv, TypeOK, MaybePaths
  <2>3. CallOK' /\ FencesOK' /\ OneJournal'
    BY <1>1, <1>4, <2>1, <2>2
       DEF Inv, CallOK, FencesOK, OneJournal, Goto, MoveLabels, DeleteLabels
  <2> QED
    BY <1>1, <2>1, <2>3, GotoInv DEF Inv, TypeOK, PresenceSound, Labels
<1>5. CASE journal["delete"] \notin {Corrupt, Empty}
  <2>1. Goto("deleteRecoverFence") /\ UNCHANGED presence
    BY <1>5 DEF DeleteLoad
  <2>2. journal["delete"].load = "pending"
    BY <1>1, <1>5, JournalValues
  <2>3. CallOK' /\ FencesOK' /\ OneJournal'
    BY <1>1, <2>1, <2>2
       DEF Inv, CallOK, FencesOK, OneJournal, Goto, MoveLabels, DeleteLabels
  <2> QED
    BY <1>1, <2>1, <2>3, GotoInv DEF Inv, TypeOK, PresenceSound, Labels
<1> QED
  BY <1>2, <1>3, <1>4, <1>5

LEMMA DeleteRecoverInv == Inv /\ DeleteRecover => Inv'
<1> SUFFICES ASSUME Inv, DeleteRecover PROVE Inv'
  OBVIOUS
<1>1. pc = "deleteRecover" /\ call.kind = "delete"
  BY DEF DeleteRecover, Inv, CallOK, DeleteLabels
<1>2. CASE Stuck
  BY <1>1, <1>2, StuckInv
<1>3. CASE Emptied /\ NoFault /\ Return("complete")
  BY <1>1, <1>3, EmptiedReturnInv
<1>4. CASE /\ Emptied /\ NoFault /\ ~RecoveryOnly
           /\ Goto("deleteFence") /\ UNCHANGED presence
  <2>1. call.old \in Paths
    BY <1>4 DEF RecoveryOnly, Inv, TypeOK, MaybePaths
  <2>2. /\ journal' \in [Kinds -> Journals] /\ OneJournal'
        /\ journal'["delete"] = Empty /\ journal'["move"] = journal["move"]
    BY <1>1, <1>4, EmptiedFacts DEF Kinds
  <2>3. CallOK' /\ FencesOK'
    BY <1>1, <1>4, <2>1, <2>2 DEF Inv, CallOK, FencesOK, Goto, MoveLabels, DeleteLabels
  <2> QED
    BY <1>4, <2>2, <2>3, GotoInv DEF Inv, PresenceSound, Labels, Kinds, NoFault
<1> QED
  BY <1>2, <1>3, <1>4 DEF DeleteRecover

LEMMA BootMoveInv == Inv /\ BootMove => Inv'
<1> SUFFICES ASSUME Inv, BootMove PROVE Inv'
  OBVIOUS
<1>1. pc = "bootMove" /\ call.kind = "move"
  BY DEF BootMove, Inv, CallOK
<1>2. CASE journal["move"] = Corrupt
  BY <1>1, <1>2, UnprovenInv, JournalValues DEF BootMove, NoFault
<1>3. CASE journal["move"] = Empty
  BY <1>1, <1>3, NothingInv, JournalValues DEF BootMove, Results
<1>4. CASE journal["move"] \notin {Corrupt, Empty}
  BY <1>1, <1>4, StuckInv, EmptiedReturnInv DEF BootMove
<1> QED
  BY <1>2, <1>3, <1>4

-----------------------------------------------------------------------------
LEMMA ResumeInv == Inv /\ Resume => Inv'
<1> SUFFICES ASSUME Inv, Resume PROVE Inv'
  OBVIOUS
<1>1. /\ presence' \in [Kinds -> {"lookup", "absent", "starting"}]
      /\ \A k \in Kinds : /\ presence'[k] # "starting"
                          /\ presence'[k] = "absent" => journal[k] = Empty
  <2>1. \A k \in Kinds : presence[k] # "starting"
    BY DEF Inv, CallOK, Resume
  <2>2. CASE presence' = presence
    BY <2>1, <2>2 DEF Inv, TypeOK, PresenceSound
  <2>3. CASE presence' = [k \in Kinds |->
                            IF k = "delete" \/ (call.blocked /\ NotDeleted)
                              THEN Remembered(k) ELSE presence[k]]
    <3>1. ASSUME NEW k \in Kinds
          PROVE  presence'[k] \in {Remembered(k), presence[k]}
      BY <2>3, <3>1
    <3>2. \A k \in Kinds : Remembered(k) # "starting"
      BY <2>1 DEF Remembered
    <3> QED
      BY <2>1, <2>3, <3>1, <3>2, RememberedSound DEF Inv, TypeOK, PresenceSound
  <2> QED
    BY <2>2, <2>3 DEF Resume
<1>2. resumed' \in MaybePaths /\ faults' \in 0..MaxFaults
  BY BoundsAssumption DEF Inv, TypeOK, Resume, MaybePaths, Fault, NoFault
<1>3. UNCHANGED <<journal, open, calls>> /\ pc' = "idle" /\ call' = NoCall
  BY DEF Resume
<1>4. TypeOK' /\ OneJournal' /\ PresenceSound'
  BY <1>1, <1>2, <1>3, NoCallValue DEF Inv, TypeOK, OneJournal, PresenceSound, Labels
<1>5. CallOK' /\ FencesOK'
  BY <1>3, NoCallValue DEF CallOK, FencesOK, MoveLabels, DeleteLabels
<1> QED
  BY <1>4, <1>5 DEF Inv

LEMMA OpenBookInv ==
  ASSUME Inv, NEW p \in Paths, OpenBook(p)
  PROVE  Inv'
<1>1. TypeOK' /\ PresenceSound' /\ OneJournal'
  BY RememberedSound DEF OpenBook, Inv, TypeOK, PresenceSound, OneJournal, Kinds, MaybePaths
<1>2. CallOK' /\ FencesOK'
  BY DEF OpenBook, Inv, CallOK, FencesOK, MoveLabels, DeleteLabels
<1> QED
  BY <1>1, <1>2 DEF Inv

LEMMA SwitchOffInv ==
  ASSUME Inv, SwitchOff, journal' \in [Kinds -> Journals], OneJournal',
         Fault \/ NoFault
  PROVE  Inv'
<1>1. faults' \in 0..MaxFaults
  BY FaultOK DEF Inv
<1>2. TypeOK' /\ PresenceSound'
  BY <1>1, NoCallValue DEF SwitchOff, Inv, TypeOK, PresenceSound, Labels, MaybePaths
<1>3. CallOK' /\ FencesOK'
  BY NoCallValue DEF SwitchOff, CallOK, FencesOK, MoveLabels, DeleteLabels
<1> QED
  BY <1>2, <1>3 DEF Inv

LEMMA SleepInv == Inv /\ Sleep => Inv'
  BY SwitchOffInv DEF Sleep, Inv, TypeOK, OneJournal, NoFault

LEMMA PowerLossInv == Inv /\ PowerLoss => Inv'
<1> SUFFICES ASSUME Inv, PowerLoss PROVE Inv'
  OBVIOUS
<1>1. journal' \in [Kinds -> Journals] /\ OneJournal'
  <2>1. CASE pc \in {"moveBegin", "deleteBegin"}
    BY <2>1, BeginFacts DEF PowerLoss
  <2>2. CASE pc \notin {"moveBegin", "deleteBegin"}
    BY <2>2 DEF PowerLoss, Inv, TypeOK, OneJournal
  <2> QED
    BY <2>1, <2>2
<1> QED
  BY <1>1, SwitchOffInv DEF PowerLoss

-----------------------------------------------------------------------------
THEOREM StepInv == Inv /\ [Next]_vars => Inv'
<1> SUFFICES ASSUME Inv, [Next]_vars PROVE Inv'
  OBVIOUS
<1>1. CASE Working
  <2>1. CASE MoveBegin \/ MoveRun
    BY <2>1, ArmInv, ArmFailsInv, EmptiedReturnInv, StuckInv DEF MoveBegin, MoveRun
  <2>2. CASE DeleteBegin \/ DeleteRun
    BY <2>2, ArmInv, ArmFailsInv, EmptiedReturnInv, StuckInv DEF DeleteBegin, DeleteRun
  <2>3. CASE DeleteRecoverFence \/ DeleteFence
    BY <2>3, AskMoveInv DEF DeleteRecoverFence, DeleteFence
  <2> QED
    BY <1>1, <2>1, <2>2, <2>3, MoveFenceInv, ActivateInv, MoveRecoverInv, MoveCheckInv,
       DeleteLoadInv, DeleteRecoverInv, DeleteCheckInv, BootMoveInv, ResumeInv,
       CallFailsInv DEF Working
<1>2. CASE User
  BY <1>2, StartMoveInv, DeleteStartsInv, OpenBookInv DEF User
<1>3. CASE UNCHANGED vars
  BY <1>3 DEF vars, Inv, TypeOK, OneJournal, PresenceSound, CallOK, FencesOK
<1> QED
  BY <1>1, <1>2, <1>3, DeleteStartsInv, SleepInv, PowerLossInv DEF Next

THEOREM Invariance == Spec => []Inv
  BY InitInv, StepInv, PTL DEF Spec

(* Every variable keeps its kind and every record names a path, whatever   *)
(* calls, faults and boots follow one another.                             *)
THEOREM TypeCorrect == Spec => []TypeOK
<1>1. Inv => TypeOK
  BY DEF Inv
<1> QED
  BY <1>1, Invariance, PTL

(* The move and the delete journal never both hold something, for any set  *)
(* of paths and any number of calls and interruptions.                     *)
THEOREM NeverBoth == Spec => []OneJournal
<1>1. Inv => OneJournal
  BY DEF Inv
<1> QED
  BY <1>1, Invariance, PTL

(* An absence cached in RAM is always one on the card, and a starting mark *)
(* belongs to a running call.                                              *)
THEOREM PresenceIsSound == Spec => []PresenceSound
<1>1. Inv => PresenceSound
  BY DEF Inv
<1> QED
  BY <1>1, Invariance, PTL

(* Whatever the boot found, failed to read or left pending, it resumes     *)
(* only into a book no pending mutation holds.                             *)
LEMMA ResumeStep ==
  ASSUME Inv, Resume, resumed' \notin {resumed, NoPath}
  PROVE  /\ journal["delete"].load = "pending" => resumed' # journal["delete"].old
         /\ journal["move"].load = "pending" /\ ~journal["move"].activated =>
              resumed' \notin {journal["move"].old, journal["move"].new}
<1>1. pc = "resume" /\ MayResume /\ resumed' = open
  BY DEF Resume
<1>2. Empty.load # "pending"
  BY DEF Empty, Loaded
<1>3. \A k \in Kinds : journal[k].load = "pending" => presence[k] = "lookup"
  BY <1>1, <1>2 DEF Inv, TypeOK, PresenceSound, CallOK
<1>4. ASSUME journal["delete"].load = "pending" PROVE open # journal["delete"].old
  BY <1>1, <1>3, <1>4 DEF MayResume, NotDeleted, Fence, Kinds
<1>5. ASSUME journal["move"].load = "pending", ~journal["move"].activated
      PROVE  open \notin {journal["move"].old, journal["move"].new}
  <2>1. call.blocked /\ journal["move"] # Empty /\ presence["move"] = "lookup"
    BY <1>1, <1>2, <1>3, <1>5 DEF Inv, FencesOK, Kinds
  <2> QED
    BY <1>1, <1>5, <2>1 DEF MayResume, Writable
<1> QED
  BY <1>1, <1>4, <1>5

THEOREM ResumesSafely == Spec => ResumeIsSafe
<1> DEFINE Safe ==
      resumed' \notin {resumed, NoPath} =>
        /\ journal["delete"].load = "pending" => resumed' # journal["delete"].old
        /\ journal["move"].load = "pending" /\ ~journal["move"].activated =>
             resumed' \notin {journal["move"].old, journal["move"].new}
<1>1. Inv /\ [Next]_vars => [Safe]_vars
  <2> SUFFICES ASSUME Inv, Next PROVE Safe
    OBVIOUS
  <2>1. CASE Resume
    BY <2>1, ResumeStep
  <2>2. CASE Working /\ ~Resume
    BY <2>2 DEF Working, MoveFence, Activate, MoveRecover, MoveCheck, MoveBegin, MoveRun,
       DeleteLoad, DeleteRecoverFence, DeleteRecover, DeleteFence, DeleteCheck,
       DeleteBegin, DeleteRun, BootMove, CallFails, AskMove, Arm, ArmFails, Stuck,
       Return, Returns, Goto, userVars
  <2>3. CASE User \/ Boot \/ Sleep \/ PowerLoss
    BY <2>3 DEF User, StartMove, StartDelete, OpenBook, StartRecoverDelete, Boot, Sleep,
       PowerLoss, SwitchOff, userVars
  <2> QED
    BY <2>1, <2>2, <2>3 DEF Next
<1> QED
  BY <1>1, Invariance, PTL DEF Spec, ResumeIsSafe

-----------------------------------------------------------------------------
(***************************************************************************)
(* Both journals keep what AtomicJournal promises, as those of BookMove    *)
(* and PdfDelete do: a call that is about to begin is arming its own.      *)
(***************************************************************************)
BeginLabel(k) == IF k = "move" THEN "moveBegin" ELSE "deleteBegin"

Named(j) == IF j.load = "pending" THEN <<j.old, j.new>> ELSE NoPath

StateOf(k) ==
  IF pc = BeginLabel(k) THEN [load |-> "arming", of |-> <<call.old, call.new>>]
  ELSE [load |-> journal[k].load, of |-> Named(journal[k])]

JournalOf(k) == INSTANCE AtomicJournal WITH
  Mutations <- Paths \X MaybePaths, NoMutation <- NoPath, journal <- StateOf(k)

(* A call that runs its mutation has armed its journal.                    *)
RunOK ==
  /\ pc = "moveRun" => journal["move"].load = "pending"
  /\ pc = "deleteRun" => journal["delete"].load = "pending"

LEMMA RunOKStep ==
  ASSUME Inv, RunOK, [Next]_vars
  PROVE  RunOK'
<1>1. CASE UNCHANGED vars
  BY <1>1 DEF RunOK, vars
<1>2. CASE pc' \notin {"moveRun", "deleteRun"}
  BY <1>2 DEF RunOK
<1>3. CASE Activate
  BY <1>3 DEF Activate, RunOK, Inv, TypeOK, Kinds
<1>4. CASE Next /\ ~Activate /\ pc' \in {"moveRun", "deleteRun"}
  <2>1. \/ pc = "moveBegin" /\ Arm("moveRun")
        \/ pc = "deleteBegin" /\ Arm("deleteRun")
    BY <1>4 DEF Next, Working, User, MoveFence, MoveRecover, MoveCheck, MoveBegin, MoveRun,
       DeleteLoad, DeleteRecoverFence, DeleteRecover, DeleteFence, DeleteCheck,
       DeleteBegin, DeleteRun, BootMove, CallFails, AskMove, Arm, ArmFails, Stuck,
       Return, Returns, Goto, Resume, StartMove, StartDelete, OpenBook,
       StartRecoverDelete, Boot, Sleep, PowerLoss, SwitchOff
  <2>2. /\ journal'[call.kind].load = "pending"
        /\ pc' = IF call.kind = "move" THEN "moveRun" ELSE "deleteRun"
    BY <2>1 DEF Arm, Goto, Request, Pending, Loaded, Inv, TypeOK, CallOK, MoveLabels,
       DeleteLabels, Kinds
  <2>3. call.kind \in Kinds
    BY <2>1 DEF Inv, CallOK, MoveLabels, DeleteLabels, Kinds
  <2> QED
    BY <2>2, <2>3 DEF RunOK, Kinds
<1> QED
  BY <1>1, <1>2, <1>3, <1>4

(***************************************************************************)
(* What a step does to the two journals: it begins, settles what was       *)
(* begun, empties a journal that named a mutation, or keeps both.          *)
(***************************************************************************)
LEMMA StepOfJournals ==
  ASSUME Inv, RunOK, [Next]_vars
  PROVE  \/ /\ journal' = journal /\ pc' \notin {"moveBegin", "deleteBegin"}
            /\ pc \notin {"moveBegin", "deleteBegin"}
         \/ UNCHANGED <<journal, pc, call>>
         \/ /\ UNCHANGED <<journal, call>>
            /\ \/ pc = "moveCheck" /\ pc' = "moveBegin"
               \/ pc = "deleteCheck" /\ pc' = "deleteBegin"
         \/ /\ pc \in {"moveBegin", "deleteBegin"}
            /\ pc' \notin {"moveBegin", "deleteBegin"}
            /\ \E left \in {Empty, Corrupt, Request} :
                 journal' = [journal EXCEPT ![call.kind] = left]
         \/ /\ call.kind \in Kinds /\ Emptied
            /\ {pc, pc'} \cap {"moveBegin", "deleteBegin"} = {}
            /\ journal[call.kind].load \in {"empty", "pending"}
         \/ /\ Activate
            /\ {pc, pc'} \cap {"moveBegin", "deleteBegin"} = {}
<1>1. CASE UNCHANGED vars
  BY <1>1 DEF vars
<1>2. CASE Activate
  BY <1>2 DEF Activate
<1>3. CASE MoveCheck \/ DeleteCheck
  BY <1>3 DEF MoveCheck, DeleteCheck, Goto, Return, Returns
<1>4. CASE MoveBegin \/ DeleteBegin
  BY <1>4 DEF MoveBegin, DeleteBegin, Arm, ArmFails, Goto, Return, Returns
<1>5. CASE PowerLoss
  BY <1>5 DEF PowerLoss, SwitchOff
<1>6. CASE MoveRecover \/ MoveRun \/ DeleteRecover \/ DeleteRun \/ BootMove
  <2>1. /\ {pc, pc'} \cap {"moveBegin", "deleteBegin"} = {}
        /\ Emptied \/ journal' = journal
    BY <1>6 DEF MoveRecover, MoveRun, DeleteRecover, DeleteRun, BootMove, Stuck,
       Goto, Return, Returns
  <2>2. CASE journal' = journal
    BY <2>1, <2>2
  <2>3. CASE Emptied /\ journal' # journal
    <3>1. call.kind \in Kinds /\ journal[call.kind] \in Journals
      BY <1>6 DEF MoveRecover, MoveRun, DeleteRecover, DeleteRun, BootMove, Inv, TypeOK,
         CallOK, MoveLabels, DeleteLabels, Kinds
    <3>2. journal[call.kind].load # "corrupt"
      BY <1>6, <2>3, <3>1, JournalValues
         DEF MoveRecover, MoveRun, DeleteRecover, DeleteRun, BootMove, RunOK, Inv,
             CallOK, FencesOK, MoveLabels, DeleteLabels
    <3>3. journal[call.kind].load \in {"empty", "pending"}
      BY <3>1, <3>2, JournalValues
    <3> QED
      BY <2>1, <2>3, <3>1, <3>3
  <2> QED
    BY <2>1, <2>2, <2>3
<1>7. CASE \/ MoveFence \/ DeleteLoad \/ DeleteRecoverFence \/ DeleteFence
           \/ Resume \/ CallFails
  BY <1>7 DEF MoveFence, DeleteLoad, DeleteRecoverFence, DeleteFence, Resume, CallFails,
     AskMove, Goto, Return, Returns
<1>8. CASE User \/ Boot \/ Sleep
  BY <1>8 DEF User, StartMove, StartDelete, OpenBook, StartRecoverDelete, Boot, Sleep,
     SwitchOff
<1> QED
  BY <1>1, <1>2, <1>3, <1>4, <1>5, <1>6, <1>7, <1>8 DEF Next, Working

LEMMA JournalStep ==
  ASSUME Inv, RunOK, [Next]_vars, NEW k \in Kinds
  PROVE  [JournalOf(k)!Next]_(StateOf(k))
<1> USE DEF Named
<1>0. journal \in [Kinds -> Journals] /\ BeginLabel(k) \in {"moveBegin", "deleteBegin"}
  BY DEF Inv, TypeOK, BeginLabel
<1>1. CASE journal' = journal /\ {pc, pc'} \cap {"moveBegin", "deleteBegin"} = {}
  BY <1>0, <1>1 DEF StateOf
<1>2. CASE UNCHANGED <<journal, pc, call>>
  BY <1>2 DEF StateOf
<1>3. CASE /\ UNCHANGED <<journal, call>>
           /\ \/ pc = "moveCheck" /\ pc' = "moveBegin"
              \/ pc = "deleteCheck" /\ pc' = "deleteBegin"
  <2>1. CASE pc' # BeginLabel(k)
    BY <1>0, <1>3, <2>1 DEF StateOf
  <2>2. CASE pc' = BeginLabel(k)
    <3>1. /\ pc # BeginLabel(k) /\ journal[k] = Empty
          /\ call.old \in Paths /\ call.new \in MaybePaths
      BY <1>3, <2>2 DEF Inv, TypeOK, CallOK, FencesOK, MoveLabels, DeleteLabels, BeginLabel,
         Kinds
    <3>2. JournalOf(k)!Begin(<<call.old, call.new>>)
      BY <1>3, <2>2, <3>1 DEF StateOf, JournalOf!Begin, JournalOf!Empty, JournalOf!Loaded,
         Empty, Loaded
    <3> QED
      BY <3>1, <3>2 DEF JournalOf!Next
  <2> QED
    BY <2>1, <2>2
<1>4. CASE /\ pc \in {"moveBegin", "deleteBegin"}
           /\ pc' \notin {"moveBegin", "deleteBegin"}
           /\ \E left \in {Empty, Corrupt, Request} :
                journal' = [journal EXCEPT ![call.kind] = left]
  <2>1. PICK left \in {Empty, Corrupt, Request} :
          journal' = [journal EXCEPT ![call.kind] = left]
    BY <1>4
  <2>2. /\ pc = BeginLabel(call.kind) /\ call.kind \in Kinds
        /\ call.old \in Paths /\ call.new \in MaybePaths
    BY <1>4 DEF Inv, TypeOK, CallOK, MoveLabels, DeleteLabels, BeginLabel, Kinds
  <2>3. CASE k # call.kind
    <3>1. journal'[k] = journal[k] /\ pc # BeginLabel(k) /\ pc' # BeginLabel(k)
      BY <1>0, <1>4, <2>1, <2>2, <2>3 DEF BeginLabel, Kinds
    <3> QED
      BY <3>1 DEF StateOf
  <2>4. CASE k = call.kind
    <3>1. StateOf(k) = [load |-> "arming", of |-> <<call.old, call.new>>]
      BY <2>2, <2>4 DEF StateOf
    <3>2. StateOf(k)' \in {[load |-> "empty", of |-> NoPath],
                           [load |-> "corrupt", of |-> NoPath],
                           [load |-> "pending", of |-> <<call.old, call.new>>]}
      <4>1. journal'[k] = left /\ pc' # BeginLabel(k)
        BY <1>0, <1>4, <2>1, <2>4
      <4> QED
        BY <4>1 DEF StateOf, Empty, Corrupt, Request, Pending, Loaded
    <3>3. JournalOf(k)!Settle(<<call.old, call.new>>)
      BY <3>1, <3>2 DEF JournalOf!Settle, JournalOf!Empty, JournalOf!Corrupt,
         JournalOf!Loaded
    <3> QED
      BY <2>2, <3>3 DEF JournalOf!Next
  <2> QED
    BY <2>3, <2>4
<1>5. CASE /\ call.kind \in Kinds /\ Emptied
           /\ {pc, pc'} \cap {"moveBegin", "deleteBegin"} = {}
           /\ journal[call.kind].load \in {"empty", "pending"}
  <2>1. pc # BeginLabel(k) /\ pc' # BeginLabel(k)
    BY <1>0, <1>5
  <2>2. CASE k # call.kind
    BY <1>0, <1>5, <2>1, <2>2 DEF Emptied, StateOf
  <2>3. CASE k = call.kind /\ journal[k].load = "empty"
    <3>1. journal[k] = Empty /\ journal'[k] = Empty
      BY <1>0, <1>5, <2>3, JournalValues DEF Emptied
    <3> QED
      BY <2>1, <3>1 DEF StateOf
  <2>4. CASE k = call.kind /\ journal[k].load = "pending"
    <3>1. /\ journal[k].old \in Paths /\ journal[k].new \in MaybePaths
          /\ journal'[k] = Empty
      BY <1>0, <1>5, <2>4, JournalValues DEF Emptied
    <3>2. JournalOf(k)!Finish(<<journal[k].old, journal[k].new>>)
      BY <2>1, <2>4, <3>1 DEF StateOf, JournalOf!Finish, JournalOf!Empty,
         JournalOf!Loaded, Empty, Loaded
    <3> QED
      BY <3>1, <3>2 DEF JournalOf!Next
  <2> QED
    BY <1>5, <2>2, <2>3, <2>4
<1>6. CASE Activate /\ {pc, pc'} \cap {"moveBegin", "deleteBegin"} = {}
  <2>1. /\ journal'[k].load = journal[k].load
        /\ journal'[k].old = journal[k].old /\ journal'[k].new = journal[k].new
    <3>1. journal["move"] \in [load : {"pending"}, old : Paths, new : MaybePaths,
                               activated : BOOLEAN]
      BY <1>0, <1>6 DEF Activate, Kinds, Journals, Empty, Corrupt, Loaded
    <3>2. journal' = [journal EXCEPT !["move"] =
                        [journal["move"] EXCEPT !.activated = TRUE]]
      BY <1>6 DEF Activate
    <3> QED
      BY <1>0, <3>1, <3>2
  <2> QED
    BY <1>0, <1>6, <2>1 DEF StateOf
<1> QED
  BY <1>1, <1>2, <1>3, <1>4, <1>5, <1>6, StepOfJournals

(* Whatever calls, failures and boots follow one another, only the call    *)
(* that found its journal empty arms it, a record of either journal is     *)
(* neither replaced nor damaged by the other mutation, and it goes only    *)
(* when it was finished.                                                   *)
THEOREM JournalsAreAtomic == \A k \in Kinds : Spec => JournalOf(k)!Spec
<1> SUFFICES ASSUME NEW k \in Kinds
             PROVE  Spec => JournalOf(k)!Spec
  OBVIOUS
<1>1. Init => JournalOf(k)!Init /\ RunOK
  BY DEF Init, StateOf, Named, BeginLabel, RunOK, Empty, Loaded, JournalOf!Init,
     JournalOf!Empty, JournalOf!Loaded, Kinds
<1>2. Inv /\ RunOK /\ [Next]_vars => RunOK' /\ [JournalOf(k)!Next]_(StateOf(k))
  BY RunOKStep, JournalStep
<1> QED
  BY <1>1, <1>2, Invariance, PTL DEF Spec, JournalOf!Spec

=============================================================================
