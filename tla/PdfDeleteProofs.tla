-------------------------- MODULE PdfDeleteProofs --------------------------
(***************************************************************************)
(* Proofs about PdfDelete, for every set of paths and every bound.         *)
(***************************************************************************)
EXTENDS PdfDelete, TLAPS

(***************************************************************************)
(* What a journal record says of the card.  As long as no file was put at  *)
(* its path again, what its phase calls purged is gone; and the tombstone  *)
(* of its path is the deletion's own.                                      *)
(***************************************************************************)
Sound(r) ==
  /\ hidden[r.source] # "stray"
  /\ file[r.source] = "none" =>
       /\ r.phase >= FullCachePurged => "cache" \notin state[r.source]
       /\ r.phase >= BookmarksPurged => "bookmarks" \notin state[r.source]
       /\ r.phase >= ClippingsPurged => "clippings" \notin state[r.source]
       /\ r.phase >= RecentsPurged => /\ r.source \notin recents.disk
                                      /\ r.source \notin recents.ram

SlotsOK == \A s \in Slots : IsRecord(slot[s]) => Sound(slot[s])

(* Where the call stands tells which call it is and what it has found out. *)
JobOK ==
  /\ pc = "find" => job.kind \in {"recover", "boot"}
  /\ pc = "check" => job.kind = "recover"
  /\ pc = "begin" => job.kind = "delete" /\ hidden[job.path] = "none"
  /\ pc \in {"check", "begin"} => JournalEmpty

PresenceOK ==
  /\ presence = "absent" => JournalEmpty
  /\ pc \notin {"idle", "off"} => presence = "starting"

(* A step works on the newest record on the card.                          *)
SelOK ==
  /\ pc \in {"operate", "cleanup", "cleanup2"} =>
       sel \in [slot : Slots, rec : Records]
  /\ pc = "operate" => Selected = sel /\ sel.rec.phase # SourceRemoved
  /\ pc = "cleanup2" => slot[FirstRemoved(sel)] = Absent

(* What is being written is true before it is durable.                     *)
OutOK ==
  pc \in {"truncate", "write", "close", "unwrite"} =>
    out \in [slot : Slots, rec : Records] /\ Sound(out.rec)

CallTypes ==
  /\ presence \in {"lookup", "absent", "starting"}
  /\ pc \in Labels
  /\ sel \in Selections /\ out \in Selections
  /\ steps \in 0..MaxRecoverySteps
  /\ job \in [kind : {"none", "boot"}, path : {NoPath}]
             \cup [kind : {"recover", "delete"}, path : Paths]
  /\ result \in {"none", "nothing", "complete", "pending", "conflict", "invalid"}

DomainTypes ==
  /\ slot \in [Slots -> Records \cup {Absent, Torn}]
  /\ file \in [Paths -> {"none", "book", "upload"}]
  /\ hidden \in [Paths -> {"none", "book", "upload", "stray"}]
  /\ state \in [Paths -> SUBSET Parts]
  /\ recents \in [disk : SUBSET Paths, ram : SUBSET Paths]
  /\ faults \in 0..MaxFaults /\ deletes \in 0..MaxDeletes
  /\ uploads \in 0..MaxUploads

CallOK == CallTypes /\ JobOK /\ PresenceOK /\ SelOK /\ OutOK
DomainOK == DomainTypes /\ SlotsOK /\ TombstoneGoesLast

Inv == CallOK /\ DomainOK

-----------------------------------------------------------------------------
(* Facts about the journal's data.                                         *)
LEMMA PhaseFacts ==
  /\ Prepared = 1 /\ SourceHidden = 2 /\ FullCachePurged = 3
  /\ BookmarksPurged = 4 /\ ClippingsPurged = 5 /\ RecentsPurged = 6
  /\ SourceRemoved = 7 /\ Phases = 1..7 /\ MaxRecoverySteps = 7
BY DEF Prepared, SourceHidden, FullCachePurged, BookmarksPurged,
       ClippingsPurged, RecentsPurged, SourceRemoved, Phases, MaxRecoverySteps

LEMMA SlotFacts ==
  /\ \A s \in Slots : Opposite(s) \in Slots /\ Opposite(s) # s
                      /\ Opposite(Opposite(s)) = s
  /\ \A r \in Records : IsRecord(r)
  /\ ~IsRecord(Torn) /\ ~IsRecord(Absent)
  /\ NoSelection \in Selections
  /\ \A s \in [slot : Slots, rec : Records] :
       s \in Selections /\ s # NoSelection /\ s.slot # NoSlot
BY DEF Slots, Opposite, Records, IsRecord, Torn, Absent, Blank, NoSelection,
       Selections, NoSlot

LEMMA SelectedIsOnDisk ==
  ASSUME DomainTypes
  PROVE  /\ Selected # NoSelection =>
              /\ Selected \in [slot : Slots, rec : Records]
              /\ slot[Selected.slot] = Selected.rec
         /\ Selected = NoSelection /\ ~IsCorrupt => JournalEmpty
         /\ JournalEmpty => Selected = NoSelection /\ ~IsCorrupt
<1>1. /\ slot["A"] \in Records \cup {Absent, Torn}
      /\ slot["B"] \in Records \cup {Absent, Torn}
      /\ slot \in [Slots -> Records \cup {Absent, Torn}]
      /\ "A" \in Slots /\ "B" \in Slots
  BY DEF DomainTypes, Slots
<1>2. \A s \in Slots : s = "A" \/ s = "B"
  BY DEF Slots
<1>3. Selected # NoSelection =>
        /\ Selected \in [slot : Slots, rec : Records]
        /\ slot[Selected.slot] = Selected.rec
  BY <1>1, SlotFacts DEF Selected, Select
<1>4. Selected = NoSelection => ~IsRecord(slot["A"]) /\ ~IsRecord(slot["B"])
  BY <1>1, SlotFacts DEF Selected, Select
<1>5. Selected = NoSelection /\ ~IsCorrupt => slot["A"] = Absent /\ slot["B"] = Absent
  BY <1>4 DEF IsCorrupt, Corrupt
<1>6. slot["A"] = Absent /\ slot["B"] = Absent => JournalEmpty
  BY <1>1, <1>2 DEF JournalEmpty
<1>7. JournalEmpty => slot["A"] = Absent /\ slot["B"] = Absent
  BY <1>1 DEF JournalEmpty
<1>8. slot["A"] = Absent /\ slot["B"] = Absent => Selected = NoSelection /\ ~IsCorrupt
  BY SlotFacts DEF Selected, Select, IsCorrupt, Corrupt
<1>9. QED
  BY <1>3, <1>5, <1>6, <1>7, <1>8

(* A fresh reader satisfies the invariant.                                 *)
LEMMA InitInv == Init => Inv
<1> SUFFICES ASSUME Init PROVE Inv
  OBVIOUS
<1>1. CallTypes
  BY SlotFacts, PhaseFacts DEF Init, CallTypes, Labels, NoJob, Job
<1>2. DomainTypes
  <2>1. /\ slot \in [Slots -> Records \cup {Absent, Torn}]
        /\ file \in [Paths -> {"none", "book", "upload"}]
        /\ hidden \in [Paths -> {"none", "book", "upload", "stray"}]
    BY DEF Init
  <2>2. state \in [Paths -> SUBSET Parts]
    BY DEF Init
  <2>3. recents \in [disk : SUBSET Paths, ram : SUBSET Paths]
    BY DEF Init
  <2>4. QED
    BY <2>1, <2>2, <2>3, BoundsAssumption DEF Init, DomainTypes
<1>3. SlotsOK
  BY SlotFacts DEF Init, SlotsOK
<1>4. TombstoneGoesLast
  BY DEF Init, TombstoneGoesLast
<1>5. JobOK /\ PresenceOK /\ SelOK /\ OutOK
  BY DEF Init, JobOK, PresenceOK, SelOK, OutOK
<1>6. QED
  BY <1>1, <1>2, <1>3, <1>4, <1>5 DEF Inv, CallOK, DomainOK

-----------------------------------------------------------------------------
(***************************************************************************)
(* How a call goes on.  These lemmas speak of what the next state holds    *)
(* for the call; that the card is in order is shown per action.            *)
(***************************************************************************)
LEMMA PublishOK ==
  ASSUME Inv, NEW res \in {"nothing", "complete", "pending", "conflict", "invalid"},
         Publish(res), ProvesAbsent(res) => JournalEmpty'
  PROVE  CallOK'
<1>1. CallTypes'
  BY SlotFacts, PhaseFacts DEF Publish, CallTypes, Labels, NoJob, Job
<1>2. JobOK' /\ PresenceOK' /\ SelOK' /\ OutOK'
  BY DEF Publish, JobOK, PresenceOK, SelOK, OutOK
<1>3. QED
  BY <1>1, <1>2 DEF CallOK

LEMMA ReturnOK ==
  ASSUME Inv, NEW res \in {"nothing", "complete", "pending", "conflict", "invalid"},
         Return(res), ProvesAbsent(res) => JournalEmpty', pc \notin {"idle", "off"}
  PROVE  CallOK'
<1>1. CASE Publish(res)
  BY <1>1, PublishOK
<1>2. CASE ~Publish(res)
  <2>1. /\ res = "complete" /\ job.kind = "recover" /\ pc' = "check"
        /\ sel' = NoSelection /\ out' = NoSelection /\ steps' = 0
        /\ UNCHANGED <<job, result, presence>>
    BY <1>2 DEF Return, jobVars
  <2>2. JournalEmpty'
    BY <2>1 DEF ProvesAbsent
  <2>3. CallTypes'
    BY <2>1, SlotFacts, PhaseFacts DEF Inv, CallOK, CallTypes, Labels
  <2>4. JobOK' /\ PresenceOK' /\ SelOK' /\ OutOK'
    BY <2>1, <2>2 DEF Inv, CallOK, PresenceOK, JobOK, SelOK, OutOK
  <2>5. QED
    BY <2>3, <2>4 DEF CallOK
<1>3. QED
  BY <1>1, <1>2

(* The next record is written of a step whose effect is on the card.       *)
LEMMA AdvanceOK ==
  ASSUME Inv, pc = "operate", Advance,
         Sound(Record(sel.rec.seq + 1, sel.rec.phase + 1, sel.rec.source))'
  PROVE  CallOK'
<1>1. /\ sel \in [slot : Slots, rec : Records] /\ sel.rec.phase # SourceRemoved
  BY DEF Inv, CallOK, SelOK
<1>2. /\ pc' = "truncate" /\ UNCHANGED <<sel, steps, job, result, presence>>
      /\ out' = [slot |-> Opposite(sel.slot),
                 rec |-> Record(sel.rec.seq + 1, sel.rec.phase + 1, sel.rec.source)]
  BY DEF Advance, Goto, jobVars, AdvanceSlot, NextPhase
<1>3. out'.rec \in Records
  BY <1>1, <1>2, PhaseFacts DEF Records, Record
<1>4. out' \in [slot : Slots, rec : Records] /\ out' \in Selections
  BY <1>1, <1>2, <1>3, SlotFacts
<1>5. out'.rec = Record(sel.rec.seq + 1, sel.rec.phase + 1, sel.rec.source)'
  BY <1>2 DEF Record
<1>6. Sound(out.rec)'
  BY <1>5
<1>7. CallTypes'
  BY <1>2, <1>4 DEF Inv, CallOK, CallTypes, Labels
<1>8. JobOK' /\ PresenceOK' /\ SelOK'
  BY <1>2 DEF Inv, CallOK, JobOK, PresenceOK, SelOK
<1>9. OutOK'
  BY <1>4, <1>6 DEF OutOK
<1>10. QED
  BY <1>7, <1>8, <1>9 DEF CallOK

LEMMA FaultOK ==
  ASSUME Inv, Fault \/ NoFault
  PROVE  faults' \in 0..MaxFaults
BY BoundsAssumption DEF Inv, DomainOK, DomainTypes, Fault, NoFault

(* The card is as it was.                                                  *)
LEMMA CardOK ==
  ASSUME Inv, UNCHANGED <<slot, domainVars, deletes, uploads>>, Fault \/ NoFault
  PROVE  DomainOK'
<1>1. DomainTypes'
  BY FaultOK DEF Inv, DomainOK, DomainTypes, domainVars
<1>2. SlotsOK' /\ TombstoneGoesLast'
  BY DEF Inv, DomainOK, domainVars, SlotsOK, Sound, TombstoneGoesLast
<1>3. QED
  BY <1>1, <1>2 DEF DomainOK

-----------------------------------------------------------------------------
(* The user, sleep, power loss and boot.                                   *)
LEMMA StartInv ==
  ASSUME Inv, (\E p \in Paths : StartDelete(p)) \/ Resume \/ Boot
  PROVE  Inv'
<1>1. /\ UNCHANGED <<slot, file, hidden, state, sel, out, steps, faults, uploads>>
      /\ pc' = "find" /\ presence' = "starting" /\ result' = "none"
      /\ deletes' = deletes \/ (deletes' = deletes + 1 /\ deletes < MaxDeletes)
      /\ recents' = recents \/ recents' = [recents EXCEPT !.ram = recents.disk]
      /\ \/ \E p \in Paths : job' = Job("recover", p)
         \/ job' = Job("boot", NoPath)
  BY DEF StartDelete, Resume, Boot, domainVars, callVars, boundVars
<1>2. CallTypes'
  BY <1>1 DEF Inv, CallOK, CallTypes, Labels, Job
<1>3. JobOK' /\ PresenceOK' /\ SelOK' /\ OutOK'
  BY <1>1 DEF JobOK, PresenceOK, SelOK, OutOK, Job
<1>4. DomainTypes'
  BY <1>1, BoundsAssumption DEF Inv, DomainOK, DomainTypes
<1>5. /\ recents'.disk = recents.disk
      /\ recents'.ram = recents.ram \/ recents'.ram = recents.disk
  BY <1>1 DEF Inv, DomainOK, DomainTypes
<1>6. SlotsOK' /\ TombstoneGoesLast'
  BY <1>1, <1>5 DEF Inv, DomainOK, SlotsOK, Sound, TombstoneGoesLast
<1>7. QED
  BY <1>2, <1>3, <1>4, <1>6 DEF Inv, CallOK, DomainOK

LEMMA QuietInv ==
  ASSUME Inv, AskFence \/ Sleep \/ PowerLoss
  PROVE  Inv'
<1>1. /\ UNCHANGED <<slot, domainVars, deletes, uploads>> /\ (Fault \/ NoFault)
      /\ pc' \in {"idle", "off"}
      /\ presence' = presence \/ (presence' = "absent" /\ JournalEmpty)
      /\ UNCHANGED <<sel, out, steps>>
         \/ (sel' = NoSelection /\ out' = NoSelection /\ steps' = 0)
      /\ UNCHANGED <<job, result>> \/ (job' = NoJob /\ result' = "none")
  BY DEF AskFence, Sleep, PowerLoss, callVars, jobVars, boundVars, NoFault
<1>2. CallTypes'
  BY <1>1, SlotFacts, PhaseFacts DEF Inv, CallOK, CallTypes, Labels, NoJob, Job
<1>3. JobOK' /\ SelOK' /\ OutOK'
  BY <1>1 DEF JobOK, SelOK, OutOK
<1>4. PresenceOK'
  BY <1>1 DEF Inv, CallOK, PresenceOK, JournalEmpty
<1>5. QED
  BY <1>1, <1>2, <1>3, <1>4, CardOK DEF Inv, CallOK

(* What the user does to the card leaves the call alone.                   *)
LEMMA IdleCall ==
  ASSUME Inv, pc = "idle", UNCHANGED <<slot, pc, callVars, jobVars>>
  PROVE  CallOK'
<1>1. CallTypes'
  BY DEF Inv, CallOK, CallTypes, callVars, jobVars
<1>2. JobOK' /\ SelOK' /\ OutOK'
  BY DEF JobOK, SelOK, OutOK
<1>3. PresenceOK'
  BY DEF Inv, CallOK, PresenceOK, JournalEmpty, jobVars
<1>4. QED
  BY <1>1, <1>2, <1>3 DEF CallOK

LEMMA RecordTypes ==
  ASSUME DomainTypes, NEW s \in Slots, IsRecord(slot[s])
  PROVE  slot[s] \in Records /\ slot[s].source \in Paths
BY SlotFacts DEF DomainTypes, Records

LEMMA UploadInv ==
  ASSUME Inv, NEW p \in Paths, Upload(p)
  PROVE  Inv'
<1>1. CallOK'
  BY IdleCall DEF Upload
<1>2. file' = [file EXCEPT ![p] = "upload"] /\ file'[p] = "upload"
      /\ \A q \in Paths : q # p => file'[q] = file[q]
  BY DEF Inv, DomainOK, DomainTypes, Upload
<1>3. DomainTypes'
  BY <1>2, BoundsAssumption DEF Inv, DomainOK, DomainTypes, Upload
<1>4. TombstoneGoesLast'
  BY <1>2 DEF Inv, DomainOK, Upload, TombstoneGoesLast
<1>5. SlotsOK'
  <2> SUFFICES ASSUME NEW s \in Slots, IsRecord(slot[s]) PROVE Sound(slot[s])'
    BY DEF SlotsOK, Upload
  <2>1. slot[s].source \in Paths /\ Sound(slot[s])
    BY RecordTypes DEF Inv, DomainOK, SlotsOK
  <2>2. QED
    BY <1>2, <2>1 DEF Upload, Sound
<1>6. QED
  BY <1>1, <1>3, <1>4, <1>5 DEF Inv, DomainOK

(* Reading lists no path without a file, and gives it no state.            *)
LEMMA ReadingInv ==
  ASSUME Inv, (\E p \in Paths : OpenBook(p)) \/ ShowRecents
  PROVE  Inv'
<1>1. /\ pc = "idle" /\ UNCHANGED <<slot, file, hidden, pc, callVars, jobVars, boundVars>>
      /\ \/ /\ state' = state
            /\ recents' = [disk |-> Listed, ram |-> Listed]
         \/ \E p \in Paths : /\ file[p] # "none"
                             /\ state' = [state EXCEPT ![p] = Parts]
                             /\ recents' = [disk |-> Listed \cup {p}, ram |-> Listed \cup {p}]
  BY DEF OpenBook, ShowRecents
<1>2. CallOK'
  BY <1>1, IdleCall
<1>3. Listed \subseteq Paths /\ \A p \in Listed : file[p] # "none"
  BY DEF Inv, DomainOK, DomainTypes, Listed
<1>4. DomainTypes'
  <2>1. state' \in [Paths -> SUBSET Parts]
    BY <1>1 DEF Inv, DomainOK, DomainTypes
  <2>2. recents' \in [disk : SUBSET Paths, ram : SUBSET Paths]
    BY <1>1, <1>3
  <2>3. QED
    BY <1>1, <2>1, <2>2 DEF Inv, DomainOK, DomainTypes, boundVars
<1>5. \A q \in Paths : file[q] = "none" =>
        state'[q] = state[q] /\ q \notin recents'.disk /\ q \notin recents'.ram
  BY <1>1, <1>3 DEF Inv, DomainOK, DomainTypes
<1>6. TombstoneGoesLast'
  BY <1>1, <1>5 DEF Inv, DomainOK, TombstoneGoesLast
<1>7. SlotsOK'
  <2> SUFFICES ASSUME NEW s \in Slots, IsRecord(slot[s]) PROVE Sound(slot[s])'
    BY <1>1 DEF SlotsOK
  <2>1. slot[s].source \in Paths /\ Sound(slot[s])
    BY RecordTypes DEF Inv, DomainOK, SlotsOK
  <2>2. QED
    BY <1>1, <1>5, <2>1 DEF Sound
<1>8. QED
  BY <1>2, <1>4, <1>6, <1>7 DEF Inv, DomainOK

-----------------------------------------------------------------------------
(***************************************************************************)
(* The steps of a call that leave everything but the journal alone.        *)
(***************************************************************************)
LEMMA Kept ==
  ASSUME Inv, UNCHANGED <<slot, domainVars, boundVars>>
  PROVE  DomainOK'
<1>1. UNCHANGED <<slot, domainVars, deletes, uploads>> /\ NoFault
  BY DEF boundVars, NoFault
<1>2. QED
  BY <1>1, CardOK

(* Going on to read the journal.                                           *)
LEMMA LoadNext ==
  ASSUME Inv, pc' = "load", UNCHANGED <<jobVars, callVars>>, pc \notin {"idle", "off"}
  PROVE  CallOK'
<1>1. CallTypes'
  BY DEF Inv, CallOK, CallTypes, callVars, jobVars, Labels
<1>2. JobOK' /\ SelOK' /\ OutOK' /\ PresenceOK'
  BY DEF Inv, CallOK, JobOK, SelOK, OutOK, PresenceOK, jobVars
<1>3. QED
  BY <1>1, <1>2 DEF CallOK

LEMMA FindInv == Inv /\ Find => Inv'
<1> SUFFICES ASSUME Inv, Find PROVE Inv'
  OBVIOUS
<1>1. DomainOK' /\ pc = "find" /\ UNCHANGED slot
  BY Kept DEF Find
<1>2. CASE Publish("pending")
  BY <1>1, <1>2, PublishOK DEF ProvesAbsent, Inv
<1>3. CASE ~IsCorrupt /\ Selected # NoSelection /\ Goto("load") /\ UNCHANGED callVars
  BY <1>1, <1>3, LoadNext DEF Goto, Inv
<1>4. CASE ~IsCorrupt /\ Selected = NoSelection
  <2>1. JournalEmpty /\ JournalEmpty'
    BY <1>1, <1>4, SelectedIsOnDisk DEF Inv, DomainOK, JournalEmpty
  <2>2. CASE Publish("nothing")
    BY <1>1, <2>1, <2>2, PublishOK DEF Inv
  <2>3. CASE job.kind # "boot" /\ Goto("check") /\ UNCHANGED callVars
    <3>1. CallTypes'
      BY <2>3 DEF Inv, CallOK, CallTypes, Goto, callVars, jobVars, Labels
    <3>2. JobOK' /\ SelOK' /\ OutOK' /\ PresenceOK'
      BY <1>1, <2>1, <2>3
         DEF Inv, CallOK, JobOK, SelOK, OutOK, PresenceOK, Goto, jobVars
    <3>3. QED
      BY <1>1, <3>1, <3>2 DEF Inv, CallOK
  <2>4. QED
    BY <1>4, <2>2, <2>3 DEF Find
<1>5. QED
  BY <1>2, <1>3, <1>4 DEF Find

LEMMA CheckInv == Inv /\ Check => Inv'
<1> SUFFICES ASSUME Inv, Check PROVE Inv'
  OBVIOUS
<1>1. DomainOK' /\ pc = "check" /\ UNCHANGED <<slot, hidden>>
  BY Kept DEF Check, domainVars
<1>2. JournalEmpty /\ JournalEmpty' /\ job.kind = "recover"
  BY <1>1 DEF Inv, CallOK, JobOK, JournalEmpty
<1>3. CASE Publish("invalid")
  BY <1>1, <1>2, <1>3, PublishOK DEF Inv
<1>4. CASE /\ ~(file[job.path] = "none" \/ hidden[job.path] # "none")
           /\ pc' = "begin" /\ job' = [job EXCEPT !.kind = "delete"]
           /\ UNCHANGED <<callVars, result, presence>>
  <2>1. job \in [kind : {"recover", "delete"}, path : Paths]
    BY <1>2 DEF Inv, CallOK, CallTypes
  <2>2. /\ job' \in [kind : {"recover", "delete"}, path : Paths]
        /\ job'.kind = "delete" /\ job'.path = job.path
    BY <1>4, <2>1
  <2>3. CallTypes'
    BY <1>4, <2>2 DEF Inv, CallOK, CallTypes, callVars, Labels
  <2>4. JobOK' /\ SelOK' /\ OutOK' /\ PresenceOK'
    BY <1>1, <1>2, <1>4, <2>2
       DEF Inv, CallOK, JobOK, SelOK, OutOK, PresenceOK
  <2>5. QED
    BY <1>1, <2>3, <2>4 DEF Inv, CallOK
<1>5. QED
  BY <1>3, <1>4 DEF Check

LEMMA BeginInv == Inv /\ Begin => Inv'
<1> SUFFICES ASSUME Inv, Begin PROVE Inv'
  OBVIOUS
<1>1. DomainOK' /\ pc = "begin" /\ UNCHANGED <<slot, domainVars>>
  BY Kept DEF Begin
<1>2. JournalEmpty /\ job.kind = "delete" /\ hidden[job.path] = "none"
  BY <1>1 DEF Inv, CallOK, JobOK
<1>3. job.path \in Paths
  BY <1>2 DEF Inv, CallOK, CallTypes
<1>4. /\ out' = [slot |-> "A", rec |-> Record(1, Prepared, job.path)]
      /\ Goto("truncate") /\ UNCHANGED <<sel, steps>>
  BY <1>2, SelectedIsOnDisk DEF Begin, Inv, DomainOK
<1>5. out'.rec \in Records /\ out'.rec.source = job.path /\ out'.rec.phase = 1
  BY <1>3, <1>4, PhaseFacts DEF Record, Records
<1>6. out' \in [slot : Slots, rec : Records] /\ out' \in Selections
  BY <1>4, <1>5, SlotFacts DEF Slots
<1>7. Sound(out.rec)'
  BY <1>1, <1>2, <1>5, PhaseFacts DEF Sound, domainVars
<1>8. CallTypes'
  BY <1>4, <1>6 DEF Inv, CallOK, CallTypes, Goto, jobVars, Labels
<1>9. JobOK' /\ SelOK' /\ PresenceOK' /\ OutOK'
  BY <1>1, <1>4, <1>6, <1>7
     DEF Inv, CallOK, JobOK, SelOK, OutOK, PresenceOK, Goto, jobVars
<1>10. QED
  BY <1>1, <1>8, <1>9 DEF Inv, CallOK

LEMMA ReconcileInv == Inv /\ Reconcile => Inv'
<1> SUFFICES ASSUME Inv, Reconcile PROVE Inv'
  OBVIOUS
<1>1. DomainOK' /\ pc = "reconcile"
  BY Kept DEF Reconcile
<1>2. CASE Goto("load") /\ UNCHANGED callVars
  BY <1>1, <1>2, LoadNext DEF Goto, Inv
<1>3. CASE Publish("pending")
  BY <1>1, <1>3, PublishOK DEF ProvesAbsent, Inv
<1>4. QED
  BY <1>2, <1>3 DEF Reconcile

LEMMA LoadInv == Inv /\ Load => Inv'
<1> SUFFICES ASSUME Inv, Load PROVE Inv'
  OBVIOUS
<1>1. DomainOK' /\ pc = "load" /\ UNCHANGED slot
  BY Kept DEF Load
<1>2. CASE Return("pending")
  BY <1>1, <1>2, ReturnOK DEF ProvesAbsent, Inv
<1>3. CASE ~IsCorrupt /\ Selected = NoSelection /\ Return("nothing")
  <2>1. JournalEmpty'
    BY <1>1, <1>3, SelectedIsOnDisk DEF Inv, DomainOK, JournalEmpty
  <2>2. QED
    BY <1>1, <1>3, <2>1, ReturnOK DEF Inv
<1>4. CASE /\ steps # MaxRecoverySteps /\ Selected # NoSelection
           /\ sel' = Selected /\ steps' = steps + 1 /\ out' = NoSelection
           /\ Goto(IF Selected.rec.phase = SourceRemoved THEN "cleanup" ELSE "operate")
  <2>1. Selected \in [slot : Slots, rec : Records]
    BY <1>4, SelectedIsOnDisk DEF Inv, DomainOK
  <2>2. sel' \in Selections /\ out' \in Selections /\ steps' \in 0..MaxRecoverySteps
    BY <1>4, <2>1, SlotFacts, PhaseFacts DEF Inv, CallOK, CallTypes
  <2>3. CallTypes'
    BY <1>4, <2>2 DEF Inv, CallOK, CallTypes, Goto, jobVars, Labels
  <2>4. Selected' = Selected
    BY <1>1 DEF Selected
  <2>5. JobOK' /\ PresenceOK' /\ SelOK' /\ OutOK'
    BY <1>1, <1>4, <2>1, <2>4
       DEF Inv, CallOK, JobOK, SelOK, OutOK, PresenceOK, Goto, jobVars
  <2>6. QED
    BY <1>1, <2>3, <2>5 DEF Inv, CallOK
<1>5. QED
  BY <1>2, <1>3, <1>4 DEF Load

-----------------------------------------------------------------------------
(***************************************************************************)
(* The operations.  What they find is the record selected.                 *)
(***************************************************************************)
LEMMA Operand ==
  ASSUME Inv, pc = "operate"
  PROVE  /\ sel \in [slot : Slots, rec : Records] /\ Selected = sel
         /\ slot[sel.slot] = sel.rec /\ IsRecord(sel.rec) /\ Sound(sel.rec)
         /\ sel.rec.source \in Paths /\ sel.rec.phase \in 1..6
         /\ Target = sel.rec.source
<1>1. sel \in [slot : Slots, rec : Records] /\ Selected = sel
      /\ sel.rec.phase # SourceRemoved
  BY DEF Inv, CallOK, SelOK
<1>2. slot[sel.slot] = sel.rec
  BY <1>1, SelectedIsOnDisk, SlotFacts DEF Inv, DomainOK
<1>3. sel.rec \in Records /\ IsRecord(sel.rec) /\ Sound(sel.rec)
  BY <1>1, <1>2, SlotFacts DEF Inv, DomainOK, SlotsOK
<1>4. sel.rec.source \in Paths /\ sel.rec.phase \in 1..6
  BY <1>1, <1>3, PhaseFacts DEF Records
<1>5. QED
  BY <1>1, <1>2, <1>3, <1>4 DEF Target

(* A step ends in the next record or in an answer that proves nothing.     *)
LEMMA StepEnds ==
  ASSUME Inv, pc = "operate", UNCHANGED <<deletes, uploads>>,
         DomainTypes /\ faults' \in 0..MaxFaults => DomainTypes',
         SlotsOK', TombstoneGoesLast',
         \/ Done /\ Sound(Record(sel.rec.seq + 1, sel.rec.phase + 1, sel.rec.source))'
         \/ Fails
         \/ Return("conflict") /\ NoFault
         \/ Return("pending") /\ NoFault
  PROVE  Inv'
<1>1. DomainOK'
  BY FaultOK DEF Inv, DomainOK, Done, Fails
<1>2. CASE Done /\ Sound(Record(sel.rec.seq + 1, sel.rec.phase + 1, sel.rec.source))'
  BY <1>1, <1>2, AdvanceOK DEF Done, Inv
<1>3. CASE Fails \/ (Return("pending") /\ NoFault)
  BY <1>1, <1>3, ReturnOK DEF Fails, ProvesAbsent, Inv
<1>4. CASE Return("conflict") /\ NoFault
  BY <1>1, <1>4, ReturnOK DEF ProvesAbsent, Inv
<1>5. QED
  BY <1>2, <1>3, <1>4

(* No record but one of phase Prepared is selected beside another of a     *)
(* later phase.                                                            *)
LEMMA PreparedIsAlone ==
  ASSUME Inv, Operating(Prepared), NEW s \in Slots, IsRecord(slot[s])
  PROVE  slot[s].phase = 1
<1>1. /\ sel \in [slot : Slots, rec : Records] /\ Selected = sel
      /\ slot[sel.slot] = sel.rec /\ sel.rec.phase = 1
  BY Operand, PhaseFacts DEF Operating
<1>2. slot[s] \in Records /\ sel.rec \in Records /\ IsRecord(sel.rec)
  BY <1>1, RecordTypes, SlotFacts DEF Inv, DomainOK
<1>3. slot[s].seq = slot[s].phase /\ slot[s].seq \in Nat /\ slot[s].phase \in 1..7
      /\ sel.rec.seq = 1
  BY <1>1, <1>2, PhaseFacts DEF Records
<1>4. CASE s = sel.slot
  BY <1>1, <1>4
<1>5. CASE s # sel.slot
  <2>1. ~(slot[s].seq > sel.rec.seq)
    BY <1>1, <1>2, <1>3, <1>5, SlotFacts
       DEF Selected, Select, Slots, SequenceNewer, NoSelection, NoSlot
  <2>2. QED
    BY <1>3, <2>1
<1>6. QED
  BY <1>4, <1>5

LEMMA HideSourceInv == Inv /\ HideSource => Inv'
<1> SUFFICES ASSUME Inv, HideSource PROVE Inv'
  OBVIOUS
<1>1. pc = "operate" /\ Operating(Prepared)
      /\ UNCHANGED <<slot, state, recents, deletes, uploads>>
  BY DEF HideSource, Operating
<1>2. /\ IsRecord(sel.rec) /\ Sound(sel.rec) /\ sel.rec.source \in Paths
      /\ Target = sel.rec.source /\ sel.rec.phase = 1 /\ sel \in [slot : Slots, rec : Records]
      /\ slot[sel.slot] = sel.rec
  BY <1>1, Operand, PhaseFacts DEF Operating
<1> DEFINE next == Record(sel.rec.seq + 1, sel.rec.phase + 1, sel.rec.source)
<1>3. next.phase = 2 /\ next.source = Target
  BY <1>2 DEF Record
<1>4. next' = Record(sel'.rec.seq + 1, sel'.rec.phase + 1, sel'.rec.source)
  BY DEF Record
<1>5. CASE UNCHANGED <<file, hidden>>
  <2>1. SlotsOK' /\ TombstoneGoesLast'
    BY <1>1, <1>5 DEF Inv, DomainOK, SlotsOK, Sound, TombstoneGoesLast
  <2>2. ASSUME faults' \in 0..MaxFaults PROVE DomainTypes'
    BY <1>1, <1>5, <2>2 DEF Inv, DomainOK, DomainTypes
  <2>3. ASSUME Done
        PROVE  Sound(next)'
    <3>1. sel' = sel
      BY <2>3 DEF Done, Advance
    <3>2. next'.phase = 2 /\ next'.source = Target
      BY <1>3, <3>1 DEF Record
    <3>3. hidden'[Target] # "stray"
      BY <1>2, <1>5 DEF Sound
    <3>4. QED
      BY <3>2, <3>3, PhaseFacts DEF Sound
  <2>4. \/ Done \/ Fails
        \/ Return("conflict") /\ NoFault
        \/ Return("pending") /\ NoFault
    BY DEF HideSource
  <2>5. QED
    BY <1>1, <2>1, <2>2, <2>3, <2>4, StepEnds
<1>6. CASE /\ file[Target] # "none"
           /\ file' = [file EXCEPT ![Target] = "none"]
           /\ hidden' = [hidden EXCEPT ![Target] = file[Target]]
           /\ Done \/ Fails
  <2>1. file[Target] \in {"book", "upload"}
    BY <1>2, <1>6 DEF Inv, DomainOK, DomainTypes
  <2>2. ASSUME faults' \in 0..MaxFaults PROVE DomainTypes'
    BY <1>1, <1>2, <1>6, <2>1, <2>2 DEF Inv, DomainOK, DomainTypes
  <2>3. /\ hidden'[Target] \in {"book", "upload"} /\ file'[Target] = "none"
        /\ \A q \in Paths : q # Target => file'[q] = file[q] /\ hidden'[q] = hidden[q]
    BY <1>2, <1>6, <2>1 DEF Inv, DomainOK, DomainTypes
  <2>4. TombstoneGoesLast'
    BY <1>1, <2>3 DEF Inv, DomainOK, TombstoneGoesLast
  <2>5. SlotsOK'
    <3> SUFFICES ASSUME NEW s \in Slots, IsRecord(slot[s]) PROVE Sound(slot[s])'
      BY <1>1 DEF SlotsOK
    <3>1. slot[s].source \in Paths /\ Sound(slot[s]) /\ slot[s].phase = 1
      BY <1>1, RecordTypes, PreparedIsAlone DEF Inv, DomainOK, SlotsOK
    <3>2. QED
      BY <1>1, <2>3, <3>1, PhaseFacts DEF Sound
  <2>6. ASSUME Done PROVE Sound(next)'
    <3>1. sel' = sel
      BY <2>6 DEF Done, Advance
    <3>2. next'.phase = 2 /\ next'.source = Target
      BY <1>3, <3>1 DEF Record
    <3>3. QED
      BY <2>3, <3>2, PhaseFacts DEF Sound
  <2>7. QED
    BY <1>1, <1>6, <2>2, <2>4, <2>5, <2>6, StepEnds
<1>7. QED
  BY <1>5, <1>6 DEF HideSource

(***************************************************************************)
(* The other operations only take away.                                    *)
(***************************************************************************)
LEMMA TakesAway ==
  ASSUME Inv, pc = "operate", UNCHANGED <<slot, file, deletes, uploads>>,
         sel.rec.phase \in 2..6,
         state' \in [Paths -> SUBSET Parts],
         \A q \in Paths : state'[q] \subseteq state[q],
         recents' \in [disk : SUBSET Paths, ram : SUBSET Paths],
         recents'.disk \subseteq recents.disk, recents'.ram \subseteq recents.ram,
         \/ hidden' = hidden
         \/ /\ sel.rec.phase = 6
            /\ hidden' = [hidden EXCEPT ![Target] = "none"],
         \/ Done /\ LET p == Target IN
              /\ sel.rec.phase + 1 = FullCachePurged => "cache" \notin state'[p]
              /\ sel.rec.phase + 1 = BookmarksPurged => "bookmarks" \notin state'[p]
              /\ sel.rec.phase + 1 = ClippingsPurged => "clippings" \notin state'[p]
              /\ sel.rec.phase + 1 = RecentsPurged =>
                   p \notin recents'.disk /\ p \notin recents'.ram
         \/ Fails
  PROVE  Inv'
<1>1. /\ sel.rec \in Records /\ Sound(sel.rec) /\ Target \in Paths
      /\ Target = sel.rec.source
  BY Operand
<1>2. ASSUME faults' \in 0..MaxFaults PROVE DomainTypes'
  BY <1>1, <1>2 DEF Inv, DomainOK, DomainTypes
<1>3. /\ \A q \in Paths : q # Target => hidden'[q] = hidden[q]
      /\ hidden'[Target] = hidden[Target] \/ (sel.rec.phase = 6 /\ hidden'[Target] = "none")
  BY <1>1 DEF Inv, DomainOK, DomainTypes
<1>4. \A r \in Records : Sound(r) => Sound(r)'
  <2> SUFFICES ASSUME NEW r \in Records, Sound(r) PROVE Sound(r)'
    OBVIOUS
  <2>1. r.source \in Paths
    BY DEF Records
  <2>2. hidden'[r.source] # "stray"
    BY <1>3, <2>1 DEF Sound
  <2>3. QED
    BY <2>1, <2>2 DEF Sound
<1>5. SlotsOK'
  BY <1>4, RecordTypes DEF Inv, DomainOK, SlotsOK
<1>6. TombstoneGoesLast'
  <2> SUFFICES ASSUME NEW p \in Paths, file[p] = "none", hidden'[p] \in {"none", "stray"}
               PROVE  state'[p] = {} /\ p \notin recents'.disk /\ p \notin recents'.ram
    BY DEF TombstoneGoesLast
  <2>1. CASE hidden'[p] = hidden[p]
    <3>1. state[p] = {} /\ p \notin recents.disk /\ p \notin recents.ram
      BY <2>1 DEF Inv, DomainOK, TombstoneGoesLast
    <3>2. QED
      BY <3>1
  <2>2. CASE sel.rec.phase = 6 /\ p = Target
    <3>1. /\ "cache" \notin state[p] /\ "bookmarks" \notin state[p]
          /\ "clippings" \notin state[p] /\ p \notin recents.disk /\ p \notin recents.ram
      BY <1>1, <2>2, PhaseFacts DEF Sound
    <3>2. state[p] \subseteq Parts
      BY DEF Inv, DomainOK, DomainTypes
    <3>3. state'[p] \subseteq state[p]
      OBVIOUS
    <3>4. QED
      BY <3>1, <3>2, <3>3 DEF Parts
  <2>3. QED
    BY <1>3, <2>1, <2>2
<1>7. ASSUME Done,
             sel.rec.phase + 1 = FullCachePurged => "cache" \notin state'[Target],
             sel.rec.phase + 1 = BookmarksPurged => "bookmarks" \notin state'[Target],
             sel.rec.phase + 1 = ClippingsPurged => "clippings" \notin state'[Target],
             sel.rec.phase + 1 = RecentsPurged =>
               Target \notin recents'.disk /\ Target \notin recents'.ram
      PROVE  Sound(Record(sel.rec.seq + 1, sel.rec.phase + 1, sel.rec.source))'
  <2>1. sel' = sel
    BY <1>7 DEF Done, Advance
  <2> DEFINE r == Record(sel.rec.seq + 1, sel.rec.phase + 1, sel.rec.source)
  <2>2. r'.phase = sel.rec.phase + 1 /\ r'.source = Target
    BY <1>1, <2>1 DEF Record
  <2>3. hidden'[Target] # "stray"
    BY <1>1, <1>3 DEF Sound
  <2>4. ASSUME file[Target] = "none"
        PROVE  /\ sel.rec.phase + 1 >= FullCachePurged => "cache" \notin state'[Target]
               /\ sel.rec.phase + 1 >= BookmarksPurged => "bookmarks" \notin state'[Target]
               /\ sel.rec.phase + 1 >= ClippingsPurged => "clippings" \notin state'[Target]
               /\ sel.rec.phase + 1 >= RecentsPurged =>
                    Target \notin recents'.disk /\ Target \notin recents'.ram
    BY <1>1, <1>7, <2>4, PhaseFacts DEF Sound
  <2> HIDE DEF r
  <2>5. Sound(r)'
    BY <2>2, <2>3, <2>4 DEF Sound
  <2>6. QED
    BY <2>5 DEF r
<1>8. QED
  BY <1>2, <1>5, <1>6, <1>7, StepEnds

LEMMA PurgePartInv ==
  ASSUME Inv, NEW part \in Parts, PurgePart(part)
  PROVE  Inv'
<1>1. /\ pc = "operate" /\ sel.rec.phase = PurgePhase(part)
      /\ UNCHANGED <<slot, file, hidden, recents, deletes, uploads>>
  BY DEF PurgePart, Operating
<1>2. sel.rec.phase \in 2..4 /\ Target \in Paths
      /\ (part = "cache" <=> sel.rec.phase = 2)
      /\ (part = "bookmarks" <=> sel.rec.phase = 3)
      /\ (part = "clippings" <=> sel.rec.phase = 4)
  BY <1>1, Operand, PhaseFacts DEF PurgePhase, Parts
<1>3. \/ state' = [state EXCEPT ![Target] = state[Target] \ {part}] /\ (Done \/ Fails)
      \/ Fails /\ state' = state
  BY DEF PurgePart
<1>4. /\ state' \in [Paths -> SUBSET Parts]
      /\ \A q \in Paths : state'[q] \subseteq state[q]
      /\ (Done /\ part \notin state'[Target]) \/ Fails
  BY <1>2, <1>3 DEF Inv, DomainOK, DomainTypes
<1>5. recents' \in [disk : SUBSET Paths, ram : SUBSET Paths]
  BY <1>1 DEF Inv, DomainOK, DomainTypes
<1>6. QED
  BY <1>1, <1>2, <1>3, <1>4, <1>5, TakesAway, PhaseFacts

LEMMA PurgeRecentsInv == Inv /\ PurgeRecents => Inv'
<1> SUFFICES ASSUME Inv, PurgeRecents PROVE Inv'
  OBVIOUS
<1>1. /\ pc = "operate" /\ sel.rec.phase = 5
      /\ UNCHANGED <<slot, file, hidden, state, deletes, uploads>>
  BY PhaseFacts DEF PurgeRecents, Operating
<1>2. \/ recents' = Without(Target) /\ Done
      \/ (recents' = WithoutOnDisk(Target) \/ recents' = recents) /\ Fails
  BY DEF PurgeRecents
<1>3. /\ recents' \in [disk : SUBSET Paths, ram : SUBSET Paths]
      /\ recents'.disk \subseteq recents.disk /\ recents'.ram \subseteq recents.ram
      /\ recents' = Without(Target) =>
           Target \notin recents'.disk /\ Target \notin recents'.ram
  BY <1>2 DEF Inv, DomainOK, DomainTypes, Without, WithoutOnDisk
<1>4. state' \in [Paths -> SUBSET Parts]
  BY <1>1 DEF Inv, DomainOK, DomainTypes
<1>5. QED
  BY <1>1, <1>2, <1>3, <1>4, TakesAway, PhaseFacts

LEMMA RemoveHiddenSourceInv == Inv /\ RemoveHiddenSource => Inv'
<1> SUFFICES ASSUME Inv, RemoveHiddenSource PROVE Inv'
  OBVIOUS
<1>1. /\ pc = "operate" /\ sel.rec.phase = 6
      /\ UNCHANGED <<slot, file, state, recents, deletes, uploads>>
  BY PhaseFacts DEF RemoveHiddenSource, Operating
<1>2. hidden' = [hidden EXCEPT ![Target] = "none"] \/ hidden' = hidden
  BY DEF RemoveHiddenSource
<1>3. Done \/ Fails
  BY DEF RemoveHiddenSource
<1>4. /\ state' \in [Paths -> SUBSET Parts]
      /\ recents' \in [disk : SUBSET Paths, ram : SUBSET Paths]
  BY <1>1 DEF Inv, DomainOK, DomainTypes
<1>5. QED
  BY <1>1, <1>2, <1>3, <1>4, TakesAway, PhaseFacts

-----------------------------------------------------------------------------
(***************************************************************************)
(* The journal.  A slot is emptied, torn, or given the record that is      *)
(* being written.                                                          *)
(***************************************************************************)
LEMMA SlotChange ==
  ASSUME Inv, UNCHANGED <<domainVars, deletes, uploads>>, Fault \/ NoFault,
         NEW s \in Slots, NEW v \in Records \cup {Absent, Torn},
         IsRecord(v) => Sound(v),
         slot' = [slot EXCEPT ![s] = v]
  PROVE  DomainOK'
<1>1. DomainTypes'
  BY FaultOK DEF Inv, DomainOK, DomainTypes, domainVars
<1>2. TombstoneGoesLast'
  BY DEF Inv, DomainOK, domainVars, TombstoneGoesLast
<1>3. SlotsOK'
  BY DEF Inv, DomainOK, DomainTypes, domainVars, SlotsOK, Sound
<1>4. QED
  BY <1>1, <1>2, <1>3 DEF DomainOK

LEMMA CleanupInv == Inv /\ Cleanup => Inv'
<1> SUFFICES ASSUME Inv, Cleanup PROVE Inv'
  OBVIOUS
<1>1. pc = "cleanup" /\ sel \in [slot : Slots, rec : Records]
  BY DEF Cleanup, Inv, CallOK, SelOK
<1>2. FirstRemoved(sel) \in Slots
  BY <1>1, SlotFacts DEF FirstRemoved
<1>3. NoFault /\ UNCHANGED <<domainVars, deletes, uploads>>
      /\ UNCHANGED <<sel, out, steps, job, result, presence>> /\ pc' = "cleanup2"
      /\ slot' = [slot EXCEPT ![FirstRemoved(sel)] = Absent]
  BY DEF Cleanup, Goto, callVars, boundVars, NoFault, jobVars
<1>4. DomainOK'
  BY <1>2, <1>3, SlotChange, SlotFacts
<1>5. slot'[FirstRemoved(sel)] = Absent /\ FirstRemoved(sel') = FirstRemoved(sel)
  BY <1>2, <1>3 DEF Inv, DomainOK, DomainTypes, FirstRemoved
<1>6. CallTypes'
  BY <1>3 DEF Inv, CallOK, CallTypes, Labels
<1>7. JobOK' /\ PresenceOK' /\ OutOK' /\ SelOK'
  BY <1>1, <1>3, <1>5 DEF Inv, CallOK, JobOK, PresenceOK, OutOK, SelOK
<1>8. QED
  BY <1>4, <1>6, <1>7 DEF Inv, CallOK

LEMMA CleanupDoneInv == Inv /\ CleanupDone => Inv'
<1> SUFFICES ASSUME Inv, CleanupDone PROVE Inv'
  OBVIOUS
<1>1. /\ pc = "cleanup2" /\ sel \in [slot : Slots, rec : Records]
      /\ slot[FirstRemoved(sel)] = Absent
  BY DEF CleanupDone, Inv, CallOK, SelOK
<1>2. /\ FirstRemoved(sel) \in Slots /\ Opposite(FirstRemoved(sel)) \in Slots
      /\ Opposite(FirstRemoved(sel)) # FirstRemoved(sel)
  BY <1>1, SlotFacts DEF FirstRemoved
<1>3. NoFault /\ UNCHANGED <<domainVars, deletes, uploads>>
      /\ slot' = [slot EXCEPT ![Opposite(FirstRemoved(sel))] = Absent]
      /\ Return("complete")
  BY DEF CleanupDone, boundVars, NoFault
<1>4. DomainOK'
  BY <1>2, <1>3, SlotChange, SlotFacts
<1>5. \A s \in Slots : s = FirstRemoved(sel) \/ s = Opposite(FirstRemoved(sel))
  BY <1>2 DEF Slots
<1>6. JournalEmpty'
  BY <1>1, <1>2, <1>3, <1>5 DEF Inv, DomainOK, DomainTypes, JournalEmpty
<1>7. CallOK'
  BY <1>1, <1>3, <1>6, ReturnOK
<1>8. QED
  BY <1>4, <1>7 DEF Inv

(* The call goes on writing, or to the reconciliation.                     *)
LEMMA WritingOn ==
  ASSUME Inv, pc \in {"truncate", "write", "close", "unwrite"},
         pc' \in {"write", "close", "unwrite", "reconcile", "load"},
         UNCHANGED <<callVars, jobVars, domainVars>>
  PROVE  CallOK'
<1>1. CallTypes'
  BY DEF Inv, CallOK, CallTypes, callVars, jobVars, Labels
<1>2. PresenceOK' /\ JobOK' /\ SelOK'
  BY DEF Inv, CallOK, PresenceOK, JobOK, SelOK, jobVars
<1>3. OutOK'
  BY DEF Inv, CallOK, OutOK, callVars, domainVars, Sound
<1>4. QED
  BY <1>1, <1>2, <1>3 DEF CallOK

LEMMA WriteFailsOK ==
  ASSUME Inv, pc \in {"truncate", "write", "close", "unwrite"}, WriteFails,
         UNCHANGED domainVars
  PROVE  CallOK'
<1>1. CASE Goto("reconcile") /\ UNCHANGED callVars
  BY <1>1, WritingOn DEF Goto
<1>2. CASE Return("pending")
  BY <1>2, ReturnOK DEF ProvesAbsent
<1>3. QED
  BY <1>1, <1>2 DEF WriteFails

LEMMA WriterFacts ==
  ASSUME Inv, pc \in {"truncate", "write", "close", "unwrite"}
  PROVE  out.slot \in Slots /\ out.rec \in Records /\ Sound(out.rec)
BY DEF Inv, CallOK, OutOK

LEMMA WritingInv ==
  ASSUME Inv, Truncate \/ Write \/ Close \/ Unwrite
  PROVE  Inv'
<1>1. /\ pc \in {"truncate", "write", "close", "unwrite"}
      /\ UNCHANGED <<domainVars, deletes, uploads>> /\ (Fault \/ NoFault)
  BY DEF Truncate, Write, Close, Unwrite
<1>2. \/ slot' = slot
      \/ \E v \in {Absent, Torn, out.rec} : slot' = [slot EXCEPT ![out.slot] = v]
  BY DEF Truncate, Write, Close, Unwrite
<1>3. DomainOK'
  <2>1. CASE slot' = slot
    BY <1>1, <2>1, CardOK
  <2>2. CASE \E v \in {Absent, Torn, out.rec} : slot' = [slot EXCEPT ![out.slot] = v]
    BY <1>1, <2>2, WriterFacts, SlotChange, SlotFacts
  <2>3. QED
    BY <1>2, <2>1, <2>2
<1>4. \/ WriteFails
      \/ /\ pc' \in {"write", "close", "unwrite", "reconcile", "load"}
         /\ UNCHANGED <<callVars, jobVars, domainVars>>
  BY DEF Truncate, Write, Close, Unwrite, Goto
<1>5. CallOK'
  BY <1>1, <1>4, WriteFailsOK, WritingOn
<1>6. QED
  BY <1>3, <1>5 DEF Inv

LEMMA IoFailsInv == Inv /\ IoFails => Inv'
<1> SUFFICES ASSUME Inv, IoFails PROVE Inv'
  OBVIOUS
<1>1. DomainOK'
  BY CardOK DEF IoFails
<1>2. CallOK'
  BY ReturnOK DEF IoFails, ProvesAbsent
<1>3. QED
  BY <1>1, <1>2 DEF Inv

-----------------------------------------------------------------------------
LEMMA StepInv == Inv /\ [Next]_vars => Inv'
<1> SUFFICES ASSUME Inv, [Next]_vars PROVE Inv'
  OBVIOUS
<1>1. CASE Working
  BY <1>1, FindInv, CheckInv, BeginInv, ReconcileInv, LoadInv, HideSourceInv,
     PurgePartInv, PurgeRecentsInv, RemoveHiddenSourceInv, CleanupInv,
     CleanupDoneInv, WritingInv, IoFailsInv DEF Working
<1>2. CASE User
  BY <1>2, StartInv, UploadInv, ReadingInv, QuietInv DEF User
<1>3. CASE Sleep \/ PowerLoss \/ Boot
  BY <1>3, StartInv, QuietInv
<1>4. CASE UNCHANGED vars
  <2>1. UNCHANGED <<slot, domainVars, boundVars>> /\ UNCHANGED <<pc, callVars, jobVars>>
    BY <1>4 DEF vars
  <2>2. CallTypes'
    BY <2>1 DEF Inv, CallOK, CallTypes, callVars, jobVars
  <2>3. Selected' = Selected /\ (JournalEmpty' <=> JournalEmpty)
    BY <2>1 DEF Selected, JournalEmpty
  <2>4. JobOK' /\ PresenceOK'
    BY <2>1, <2>3 DEF Inv, CallOK, JobOK, PresenceOK, jobVars, domainVars
  <2>5. SelOK' /\ OutOK'
    BY <2>1, <2>3 DEF Inv, CallOK, SelOK, OutOK, callVars, domainVars, Sound,
       FirstRemoved
  <2>6. QED
    BY <2>1, <2>2, <2>4, <2>5, Kept DEF Inv, CallOK
<1>5. QED
  BY <1>1, <1>2, <1>3, <1>4 DEF Next

LEMMA Invariance == Spec => []Inv
BY InitInv, StepInv, PTL DEF Spec

(***************************************************************************)
(* Every variable keeps its type, and the sequence number of a journal     *)
(* record is its phase, whatever is deleted, uploaded and interrupted.     *)
(***************************************************************************)
THEOREM TypeCorrect == Spec => []TypeOK
<1>1. Inv => TypeOK
  BY DEF Inv, CallOK, DomainOK, CallTypes, DomainTypes, TypeOK
<1>2. QED
  BY <1>1, Invariance, PTL

(***************************************************************************)
(* When the fence calls the deletion journal absent, both its slots are    *)
(* absent, over all faults, restarts and calls (publishResult of           *)
(* PdfDeleteUtils.cpp).                                                    *)
(***************************************************************************)
THEOREM FenceIsTrue == Spec => []AbsenceIsKnown
<1>1. Inv => AbsenceIsKnown
  BY DEF Inv, CallOK, PresenceOK, AbsenceIsKnown
<1>2. QED
  BY <1>1, Invariance, PTL

(***************************************************************************)
(* Once a path has no file and no tombstone, no reading state and no       *)
(* recent-books entry is left of it, however often its deletion was        *)
(* interrupted, failed halfway or met another book at the path.            *)
(***************************************************************************)
THEOREM TombstoneIsLast == Spec => []TombstoneGoesLast
<1>1. Inv => TombstoneGoesLast
  BY DEF Inv, DomainOK
<1>2. QED
  BY <1>1, Invariance, PTL

-----------------------------------------------------------------------------
(***************************************************************************)
(* Who suffers.  Only an operation takes anything of a book away, and only *)
(* of the record that is the newest on the card.                           *)
(***************************************************************************)
Suffers(p) ==
  \/ file[p] # "none" /\ file'[p] = "none"
  \/ hidden[p] # "none" /\ hidden'[p] = "none"
  \/ ~(state[p] \subseteq state'[p])

Operation ==
  \/ HideSource \/ PurgeRecents \/ RemoveHiddenSource
  \/ \E part \in Parts : PurgePart(part)

LEMMA OthersSpare ==
  ASSUME Inv, [Next]_vars, ~Operation, NEW p \in Paths
  PROVE  ~Suffers(p)
<1>1. CASE UNCHANGED <<file, hidden, state>>
  BY <1>1 DEF Suffers
<1>2. CASE \E q \in Paths : Upload(q)
  <2>1. UNCHANGED <<hidden, state>> /\ file'[p] \in {file[p], "upload"}
    BY <1>2 DEF Upload, Inv, DomainOK, DomainTypes
  <2>2. QED
    BY <2>1 DEF Suffers
<1>3. CASE \E q \in Paths : OpenBook(q)
  <2>1. UNCHANGED <<hidden, file>> /\ state'[p] \in {state[p], Parts}
        /\ state[p] \subseteq Parts
    BY <1>3 DEF OpenBook, Inv, DomainOK, DomainTypes
  <2>2. QED
    BY <2>1 DEF Suffers
<1>4. CASE \/ Find \/ Check \/ Begin \/ Reconcile \/ Load \/ Cleanup \/ CleanupDone
           \/ Truncate \/ Write \/ Close \/ Unwrite \/ IoFails
  BY <1>1, <1>4 DEF Find, Check, Begin, Reconcile, Load, Cleanup, CleanupDone,
     Truncate, Write, Close, Unwrite, IoFails, domainVars
<1>5. CASE \/ \E q \in Paths : StartDelete(q)
           \/ Resume \/ AskFence \/ ShowRecents \/ Sleep \/ PowerLoss \/ Boot
           \/ UNCHANGED vars
  BY <1>1, <1>5 DEF StartDelete, Resume, AskFence, ShowRecents, Sleep, PowerLoss,
     Boot, vars, domainVars
<1>6. QED
  BY <1>2, <1>3, <1>4, <1>5 DEF Next, Working, User, Operation

LEMMA OperationsNamed ==
  ASSUME Inv, Operation, NEW p \in Paths, Suffers(p)
  PROVE  Selected.slot # NoSlot /\ Selected.rec.source = p
<1>1. pc = "operate"
  BY DEF Operation, HideSource, PurgeRecents, RemoveHiddenSource, PurgePart, Operating
<1>2. /\ Selected = sel /\ sel.slot # NoSlot /\ Target = sel.rec.source
      /\ sel.rec.source \in Paths
  BY <1>1, Operand, SlotFacts
<1>3. CASE p # Target
  <2>1. file'[p] = file[p] /\ hidden'[p] = hidden[p] /\ state'[p] = state[p]
    <3>1. CASE HideSource
      BY <1>2, <1>3, <3>1 DEF HideSource, Inv, DomainOK, DomainTypes
    <3>2. CASE PurgeRecents
      BY <3>2 DEF PurgeRecents
    <3>3. CASE RemoveHiddenSource
      BY <1>2, <1>3, <3>3 DEF RemoveHiddenSource, Inv, DomainOK, DomainTypes
    <3>4. CASE \E part \in Parts : PurgePart(part)
      BY <1>2, <1>3, <3>4 DEF PurgePart, Inv, DomainOK, DomainTypes
    <3>5. QED
      BY <3>1, <3>2, <3>3, <3>4 DEF Operation
  <2>2. QED
    BY <2>1 DEF Suffers
<1>4. QED
  BY <1>2, <1>3

(***************************************************************************)
(* Nothing is hidden, purged or removed but what the journal durably names *)
(* at that moment, whatever other deletion was asked for meanwhile.        *)
(***************************************************************************)
THEOREM NamedSuffer == Spec => OnlyTheNamedSuffer
<1> DEFINE Named(p) == Selected.slot # NoSlot /\ Selected.rec.source = p
<1>1. Inv /\ [Next]_vars => [\A p \in Paths : Suffers(p) => Named(p)]_vars
  BY OthersSpare, OperationsNamed
<1>2. [\A p \in Paths : Suffers(p) => Named(p)]_vars =>
      [\A p \in Paths :
         \/ file[p] # "none" /\ file'[p] = "none"
         \/ hidden[p] # "none" /\ hidden'[p] = "none"
         \/ ~(state[p] \subseteq state'[p])
         => Selected.slot # NoSlot /\ Selected.rec.source = p]_vars
  BY DEF Suffers
<1>3. QED
  BY <1>1, <1>2, Invariance, PTL DEF Spec, OnlyTheNamedSuffer

-----------------------------------------------------------------------------
(***************************************************************************)
(* What Complete means.  A record past the hiding has a path without the   *)
(* old book, the terminal one a path without a tombstone; a deletion of    *)
(* its own has no other record on the card.                                *)
(***************************************************************************)
Gone(r) ==
  /\ r.phase >= SourceHidden => file[r.source] # "book"
  /\ r.phase = SourceRemoved => hidden[r.source] = "none"
  /\ job.kind = "delete" => r.source = job.path

GoneOK ==
  /\ \A s \in Slots : IsRecord(slot[s]) => Gone(slot[s])
  /\ pc \in {"truncate", "write", "close", "unwrite"} => Gone(out.rec)
  /\ pc \in {"cleanup", "cleanup2"} =>
       slot[sel.slot] = sel.rec /\ sel.rec.phase = SourceRemoved

LEMMA QuietGone ==
  ASSUME Inv, GoneOK,
         \A p \in Paths : file'[p] \in {file[p], "upload"},
         hidden' = hidden,
         \A s \in Slots : slot'[s] = slot[s] \/ ~IsRecord(slot'[s]),
         pc' \notin {"truncate", "write", "close", "unwrite", "cleanup", "cleanup2"},
         job'.kind = "delete" => job' = job \/ JournalEmpty'
  PROVE  GoneOK'
<1> SUFFICES ASSUME NEW s \in Slots, IsRecord(slot'[s]) PROVE Gone(slot[s])'
  BY DEF GoneOK
<1>1. slot'[s] = slot[s] /\ Gone(slot[s]) /\ slot[s].source \in Paths
  BY RecordTypes DEF GoneOK, Inv, DomainOK
<1>2. ~JournalEmpty'
  BY SlotFacts DEF JournalEmpty
<1>3. QED
  BY <1>1, <1>2 DEF Gone

LEMMA ReturnGone ==
  ASSUME NEW res, Return(res)
  PROVE  /\ pc' \notin {"truncate", "write", "close", "unwrite", "cleanup", "cleanup2"}
         /\ job'.kind = "delete" => job' = job
BY DEF Return, Publish, NoJob, Job, jobVars

LEMMA OthersGone ==
  ASSUME Inv, GoneOK,
         \/ Find \/ Check \/ Reconcile \/ IoFails \/ CleanupDone \/ User
         \/ Sleep \/ PowerLoss \/ Boot
  PROVE  GoneOK'
<1>1. hidden' = hidden /\ \A p \in Paths : file'[p] \in {file[p], "upload"}
  BY DEF Find, Check, Reconcile, IoFails, CleanupDone, User, Sleep, PowerLoss, Boot,
     domainVars, StartDelete, Upload, OpenBook, Resume, AskFence, ShowRecents,
     Inv, DomainOK, DomainTypes
<1>2. \A s \in Slots : slot'[s] = slot[s] \/ ~IsRecord(slot'[s])
  <2>1. CASE CleanupDone
    BY <2>1, SlotFacts DEF CleanupDone, Inv, DomainOK, DomainTypes
  <2>2. CASE ~CleanupDone
    BY <2>2 DEF Find, Check, Reconcile, IoFails, User, Sleep, PowerLoss, Boot,
       StartDelete, Upload, OpenBook, Resume, AskFence, ShowRecents
  <2>3. QED
    BY <2>1, <2>2
<1>3. /\ pc' \notin {"truncate", "write", "close", "unwrite", "cleanup", "cleanup2"}
      /\ job'.kind = "delete" => job' = job \/ JournalEmpty'
  <2>1. CASE Find
    BY <2>1 DEF Find, Publish, Goto, NoJob, Job, jobVars
  <2>2. CASE Check
    <3>1. JournalEmpty'
      BY <2>2 DEF Inv, CallOK, JobOK, Check, JournalEmpty
    <3>2. QED
      BY <2>2, <3>1 DEF Check, Publish
  <2>3. CASE Reconcile
    BY <2>3 DEF Reconcile, Publish, Goto, NoJob, Job, jobVars
  <2>4. CASE IoFails \/ CleanupDone
    BY <2>4, ReturnGone DEF IoFails, CleanupDone
  <2>5. CASE User \/ Sleep \/ PowerLoss \/ Boot
    BY <2>5 DEF User, Sleep, PowerLoss, Boot, StartDelete, Upload, OpenBook, Resume,
       AskFence, ShowRecents, NoJob, Job, jobVars
  <2>6. QED
    BY <2>1, <2>2, <2>3, <2>4, <2>5
<1>4. QED
  BY <1>1, <1>2, <1>3, QuietGone

LEMMA BeginGone == Inv /\ GoneOK /\ Begin => GoneOK'
<1> SUFFICES ASSUME Inv, GoneOK, Begin PROVE GoneOK'
  OBVIOUS
<1>1. JournalEmpty /\ UNCHANGED slot
  BY DEF Inv, CallOK, JobOK, Begin
<1>2. /\ out' = [slot |-> "A", rec |-> Record(1, Prepared, job.path)]
      /\ pc' = "truncate" /\ job' = job
  BY <1>1, SelectedIsOnDisk DEF Begin, Inv, DomainOK, Goto, jobVars
<1>3. out'.rec.phase = 1 /\ out'.rec.source = job.path
  BY <1>2, PhaseFacts DEF Record
<1>4. Gone(out.rec)'
  BY <1>2, <1>3, PhaseFacts DEF Gone
<1>5. \A s \in Slots : ~IsRecord(slot'[s])
  BY <1>1, SlotFacts DEF JournalEmpty
<1>6. QED
  BY <1>2, <1>4, <1>5 DEF GoneOK

LEMMA LoadGone == Inv /\ GoneOK /\ Load => GoneOK'
<1> SUFFICES ASSUME Inv, GoneOK, Load PROVE GoneOK'
  OBVIOUS
<1>1. UNCHANGED <<slot, file, hidden>>
  BY DEF Load, domainVars
<1>2. CASE \E res \in {"pending", "nothing"} : Return(res)
  BY <1>1, <1>2, ReturnGone, QuietGone
<1>3. CASE /\ Selected # NoSelection /\ sel' = Selected
           /\ Goto(IF Selected.rec.phase = SourceRemoved THEN "cleanup" ELSE "operate")
  <2>1. Selected.slot \in Slots /\ slot[Selected.slot] = Selected.rec
    BY <1>3, SelectedIsOnDisk DEF Inv, DomainOK
  <2>2. job' = job
    BY <1>3 DEF Goto, jobVars
  <2>3. \A s \in Slots : IsRecord(slot[s]) => Gone(slot[s])'
    BY <1>1, <2>2 DEF GoneOK, Gone
  <2>4. QED
    BY <1>1, <1>3, <2>1, <2>3 DEF GoneOK, Goto
<1>4. QED
  BY <1>2, <1>3 DEF Load

LEMMA OperationGone == Inv /\ GoneOK /\ Operation => GoneOK'
<1> SUFFICES ASSUME Inv, GoneOK, Operation PROVE GoneOK'
  OBVIOUS
<1>1. pc = "operate" /\ UNCHANGED slot
  BY DEF Operation, HideSource, PurgeRecents, RemoveHiddenSource, PurgePart, Operating
<1>2. /\ sel \in [slot : Slots, rec : Records] /\ IsRecord(sel.rec)
      /\ Target = sel.rec.source /\ Target \in Paths /\ sel.rec.phase \in 1..6
      /\ Gone(sel.rec)
  BY <1>1, Operand DEF GoneOK
<1>3. \/ /\ sel.rec.phase = 1 /\ UNCHANGED hidden
         /\ file' = file
      \/ /\ sel.rec.phase = 1 /\ file[Target] # "none"
         /\ file' = [file EXCEPT ![Target] = "none"]
         /\ hidden' = [hidden EXCEPT ![Target] = file[Target]]
      \/ UNCHANGED <<file, hidden>>
      \/ /\ sel.rec.phase = 6 /\ UNCHANGED file
         /\ hidden' = [hidden EXCEPT ![Target] = "none"]
  BY PhaseFacts DEF Operation, HideSource, PurgeRecents, RemoveHiddenSource, PurgePart, Operating
<1>4. \A s \in Slots : IsRecord(slot[s]) =>
        /\ slot[s].phase >= SourceHidden => file'[slot[s].source] # "book"
        /\ slot[s].phase = SourceRemoved => hidden'[slot[s].source] = "none"
  <2> SUFFICES ASSUME NEW s \in Slots, IsRecord(slot[s])
               PROVE  /\ slot[s].phase >= SourceHidden => file'[slot[s].source] # "book"
                      /\ slot[s].phase = SourceRemoved => hidden'[slot[s].source] = "none"
    OBVIOUS
  <2>1. Gone(slot[s]) /\ slot[s].source \in Paths
    BY RecordTypes DEF GoneOK, Inv, DomainOK
  <2>2. CASE sel.rec.phase = 1
    <3>1. slot[s].phase = 1
      BY <1>1, <2>2, PreparedIsAlone, PhaseFacts DEF Operating
    <3>2. QED
      BY <3>1, PhaseFacts
  <2>3. CASE sel.rec.phase # 1
    <3>1. file' = file /\ (hidden'[slot[s].source] = hidden[slot[s].source]
                           \/ hidden'[slot[s].source] = "none")
      BY <1>2, <1>3, <2>1, <2>3 DEF Inv, DomainOK, DomainTypes
    <3>2. QED
      BY <2>1, <3>1 DEF Gone
  <2>4. QED
    BY <2>2, <2>3
<1>5. Done \/ \E res \in {"pending", "conflict"} : Return(res)
  BY DEF Operation, HideSource, PurgeRecents, RemoveHiddenSource, PurgePart, Fails
<1>6. CASE \E res \in {"pending", "conflict"} : Return(res)
  <2>1. /\ pc' \notin {"truncate", "write", "close", "unwrite", "cleanup", "cleanup2"}
        /\ job'.kind = "delete" => job' = job
    BY <1>6, ReturnGone
  <2>2. QED
    BY <1>1, <1>4, <2>1 DEF GoneOK, Gone
<1>7. CASE Done /\ ~\E res \in {"pending", "conflict"} : Return(res)
  <2>1. /\ pc' = "truncate" /\ job' = job
        /\ out'.rec = Record(sel.rec.seq + 1, sel.rec.phase + 1, sel.rec.source)
    BY <1>7 DEF Done, Advance, Goto, jobVars, AdvanceSlot, NextPhase
  <2>2. out'.rec.source = Target /\ out'.rec.phase = sel.rec.phase + 1
    BY <1>2, <2>1 DEF Record
  <2>3. sel.rec.phase + 1 >= SourceHidden => file'[Target] # "book"
    <3>1. CASE sel.rec.phase = 1
      BY <1>2, <1>7, <3>1, PhaseFacts
         DEF Operation, HideSource, PurgeRecents, RemoveHiddenSource, PurgePart,
             Operating, PurgePhase, Inv, DomainOK, DomainTypes, Fails, Parts
    <3>2. CASE sel.rec.phase # 1
      BY <1>2, <1>3, <3>2, PhaseFacts DEF Gone
    <3>3. QED
      BY <3>1, <3>2
  <2>4. sel.rec.phase + 1 = SourceRemoved => hidden'[Target] = "none"
    <3> SUFFICES ASSUME sel.rec.phase = 6 PROVE hidden'[Target] = "none"
      BY <1>2, PhaseFacts
    <3>1. RemoveHiddenSource
      BY PhaseFacts DEF Operation, HideSource, PurgeRecents, PurgePart, Operating,
         PurgePhase, Parts
    <3>2. hidden' = [hidden EXCEPT ![Target] = "none"]
      BY <1>7, <3>1 DEF RemoveHiddenSource, Fails
    <3>3. QED
      BY <1>2, <3>2 DEF Inv, DomainOK, DomainTypes
  <2>5. Gone(out.rec)'
    BY <1>2, <2>1, <2>2, <2>3, <2>4 DEF Gone
  <2>6. QED
    BY <1>1, <1>4, <2>1, <2>5 DEF GoneOK, Gone
<1>8. QED
  BY <1>5, <1>6, <1>7

LEMMA CleanupGone == Inv /\ GoneOK /\ Cleanup => GoneOK'
<1> SUFFICES ASSUME Inv, GoneOK, Cleanup PROVE GoneOK'
  OBVIOUS
<1>1. /\ pc = "cleanup" /\ pc' = "cleanup2" /\ UNCHANGED <<sel, job, file, hidden>>
      /\ sel.slot \in Slots /\ slot[sel.slot] = sel.rec /\ sel.rec.phase = SourceRemoved
      /\ slot' = [slot EXCEPT ![Opposite(sel.slot)] = Absent]
  BY DEF Cleanup, Goto, jobVars, callVars, domainVars, FirstRemoved, GoneOK,
     Inv, CallOK, SelOK
<1>2. slot'[sel.slot] = sel.rec
  BY <1>1, SlotFacts DEF Inv, DomainOK, DomainTypes
<1>3. \A s \in Slots : slot'[s] = slot[s] \/ ~IsRecord(slot'[s])
  BY <1>1, SlotFacts DEF Inv, DomainOK, DomainTypes
<1>4. \A s \in Slots : IsRecord(slot'[s]) => Gone(slot[s])'
  BY <1>1, <1>3 DEF GoneOK, Gone
<1>5. QED
  BY <1>1, <1>2, <1>4 DEF GoneOK

LEMMA WritingGone ==
  ASSUME Inv, GoneOK, Truncate \/ Write \/ Close \/ Unwrite
  PROVE  GoneOK'
<1>1. /\ pc \in {"truncate", "write", "close", "unwrite"} /\ UNCHANGED <<file, hidden>>
      /\ \/ slot' = slot
         \/ \E v \in {Absent, Torn, out.rec} : slot' = [slot EXCEPT ![out.slot] = v]
  BY DEF Truncate, Write, Close, Unwrite, domainVars
<1>2. out.slot \in Slots /\ Gone(out.rec)
  BY <1>1, WriterFacts DEF GoneOK
<1>3. \A s \in Slots : \/ slot'[s] = slot[s] \/ ~IsRecord(slot'[s])
                       \/ slot'[s] = out.rec
  BY <1>1, <1>2, SlotFacts DEF Inv, DomainOK, DomainTypes
<1>4. job'.kind = "delete" => job' = job
  BY ReturnGone DEF Truncate, Write, Close, Unwrite, WriteFails, Goto, jobVars
<1>5. /\ pc' \notin {"cleanup", "cleanup2"}
      /\ pc' \in {"truncate", "write", "close", "unwrite"} => out' = out
  BY ReturnGone DEF Truncate, Write, Close, Unwrite, WriteFails, Goto, callVars
<1>6. \A s \in Slots : IsRecord(slot'[s]) => Gone(slot[s])'
  BY <1>1, <1>2, <1>3, <1>4 DEF GoneOK, Gone
<1>7. pc' \in {"truncate", "write", "close", "unwrite"} => Gone(out.rec)'
  BY <1>1, <1>2, <1>4, <1>5 DEF Gone
<1>8. QED
  BY <1>5, <1>6, <1>7 DEF GoneOK

LEMMA NextGone == Inv /\ GoneOK /\ [Next]_vars => GoneOK'
<1> SUFFICES ASSUME Inv, GoneOK, [Next]_vars PROVE GoneOK'
  OBVIOUS
<1>1. CASE UNCHANGED vars
  BY <1>1 DEF vars, domainVars, callVars, jobVars, GoneOK, Gone
<1>2. CASE Next
  BY <1>2, OthersGone, BeginGone, LoadGone, OperationGone, CleanupGone, WritingGone
     DEF Next, Working, Operation
<1>3. QED
  BY <1>1, <1>2

LEMMA InitGone == Init => GoneOK
BY SlotFacts DEF Init, GoneOK

(***************************************************************************)
(* deletePdfBook answers Complete only when the journal, the file, its     *)
(* tombstone, its reading state and its recent-books entry are all gone,   *)
(* whichever deletion the call found pending first; what may be there is a *)
(* file uploaded meanwhile, with what reading it has left.                 *)
(***************************************************************************)
THEOREM CompleteIsGone == Spec => CompleteMeansGone
<1>1. ASSUME Inv, GoneOK, [Next]_vars, Inv', Completes
      PROVE  /\ slot' = [s \in Slots |-> Absent]
             /\ hidden'[job.path] = "none" /\ file'[job.path] # "book"
             /\ file'[job.path] = "none" =>
                  /\ state'[job.path] = {}
                  /\ job.path \notin recents'.disk \cup recents'.ram
  <2>1. CleanupDone
    <3>1. result' # result /\ result' = "complete"
      BY <1>1 DEF Completes
    <3>2. \A res \in {"nothing", "pending", "conflict", "invalid"} :
            ~Publish(res) /\ ~Return(res)
      BY <3>1 DEF Publish, Return, jobVars
    <3>3. ~Goto(pc')
      BY <3>1 DEF Goto, jobVars
    <3>4. ~UNCHANGED vars /\ ~Sleep /\ ~PowerLoss /\ ~Boot /\ ~User
      BY <3>1 DEF vars, jobVars, Sleep, PowerLoss, Boot, User, StartDelete, Upload,
         OpenBook, Resume, AskFence, ShowRecents
    <3>5. ~Find /\ ~Check /\ ~Begin /\ ~Reconcile /\ ~Load /\ ~Cleanup /\ ~IoFails
      BY <3>1, <3>2, <3>3 DEF Find, Check, Begin, Reconcile, Load, Cleanup, IoFails, Goto
    <3>6. ~Operation
      BY <3>2, <3>3 DEF Operation, HideSource, PurgeRecents, RemoveHiddenSource,
         PurgePart, Done, Fails, Advance, Goto
    <3>7. ~Truncate /\ ~Write /\ ~Close /\ ~Unwrite
      BY <3>2, <3>3 DEF Truncate, Write, Close, Unwrite, WriteFails, Goto
    <3>8. QED
      BY <1>1, <3>4, <3>5, <3>6, <3>7 DEF Next, Working, Operation
  <2>2. /\ sel.slot \in Slots /\ slot[sel.slot] = sel.rec /\ sel.rec.phase = SourceRemoved
        /\ sel \in [slot : Slots, rec : Records]
    BY <1>1, <2>1 DEF CleanupDone, GoneOK, Inv, CallOK, SelOK
  <2>3. Sound(sel.rec) /\ Gone(sel.rec) /\ sel.rec.source \in Paths
    BY <1>1, <2>2, SlotFacts DEF GoneOK, Inv, DomainOK, SlotsOK, Records
  <2>4. Publish("complete") /\ sel.rec.source = job.path
    <3>1. /\ Return("complete") /\ UNCHANGED domainVars
          /\ job.kind \in {"recover", "delete"} /\ result' # result
      BY <1>1, <2>1 DEF CleanupDone, Completes
    <3>2. QED
      BY <2>3, <3>1 DEF Return, Gone, jobVars
  <2>5. JournalEmpty'
    BY <1>1, <2>4 DEF Publish, ProvesAbsent, Inv, CallOK, PresenceOK
  <2>6. UNCHANGED <<file, hidden, state, recents>>
    BY <2>1 DEF CleanupDone, domainVars
  <2>7. /\ hidden[job.path] = "none" /\ file[job.path] # "book"
        /\ file[job.path] = "none" =>
             job.path \notin recents.disk /\ job.path \notin recents.ram
    BY <2>2, <2>3, <2>4, PhaseFacts DEF Sound, Gone
  <2>8. file[job.path] = "none" => state[job.path] = {}
    BY <1>1, <2>3, <2>4, <2>7 DEF Inv, DomainOK, TombstoneGoesLast
  <2>9. QED
    BY <2>5, <2>6, <2>7, <2>8 DEF JournalEmpty
<1>2. Inv /\ GoneOK /\ [Next]_vars => GoneOK' /\ Inv'
  BY NextGone, StepInv
<1>3. Spec => []GoneOK
  BY InitInv, InitGone, <1>2, PTL DEF Spec
<1>4. Inv /\ GoneOK /\ Inv' /\ [Next]_vars =>
        [Completes =>
          /\ slot' = [s \in Slots |-> Absent]
          /\ hidden'[job.path] = "none" /\ file'[job.path] # "book"
          /\ file'[job.path] = "none" =>
               /\ state'[job.path] = {}
               /\ job.path \notin recents'.disk \cup recents'.ram]_vars
  BY <1>1
<1>5. QED
  BY <1>3, <1>4, Invariance, PTL DEF Spec, CompleteMeansGone

-----------------------------------------------------------------------------
(***************************************************************************)
(* A deletion that has hidden a book is on the card until the book is      *)
(* removed, so one deletion is under way at a time.                        *)
(***************************************************************************)
Hides(p) == hidden[p] \in {"book", "upload"}

HiddenIsNamed ==
  \A p \in Paths : Hides(p) =>
    /\ Selected.slot # NoSlot /\ Selected.rec.source = p
    /\ Selected.rec.phase # SourceRemoved

(* The book of a deletion just begun lies at its path or is hidden.        *)
PreparedHasBook ==
  Selected.slot # NoSlot /\ Selected.rec.phase = Prepared =>
    file[Selected.rec.source] # "none" \/ Hides(Selected.rec.source)

(***************************************************************************)
(* What writeRecord writes, into the slot where nothing is lost: the first *)
(* record of a deletion, on an empty journal, or the one that follows the  *)
(* record in hand.                                                         *)
(***************************************************************************)
Writers == {"truncate", "write", "close", "unwrite"}

SelectedAs(before) ==
  /\ pc \in {"truncate", "write"} => Selected = before
  /\ pc = "close" => Selected = out
  /\ pc = "unwrite" => Selected \in {before, out}

First ==
  /\ out.rec.phase = Prepared /\ out.slot = "A" /\ ~IsRecord(slot["B"])
  /\ file[out.rec.source] # "none" /\ hidden[out.rec.source] = "none"
  /\ SelectedAs(NoSelection)

Following ==
  /\ sel \in [slot : Slots, rec : Records] /\ slot[sel.slot] = sel.rec
  /\ out = [slot |-> Opposite(sel.slot),
            rec |-> Record(sel.rec.seq + 1, sel.rec.phase + 1, sel.rec.source)]
  /\ sel.rec.phase = Prepared => file[sel.rec.source] = "none" /\ Hides(sel.rec.source)
  /\ sel.rec.phase = RecentsPurged => ~Hides(sel.rec.source)
  /\ SelectedAs(sel)

WritingOK == pc \in Writers => First \/ Following

(* The terminal record is selected until the last slot is removed.         *)
CleaningOK ==
  pc \in {"cleanup", "cleanup2"} =>
    Selected = sel /\ sel.slot # NoSlot /\ sel.rec.phase = SourceRemoved

BeginHasBook == pc = "begin" => file[job.path] # "none"

Atomic ==
  /\ HiddenIsNamed /\ PreparedHasBook /\ WritingOK /\ CleaningOK /\ BeginHasBook

-----------------------------------------------------------------------------
(* The newer of two records is selected; the other slot may hold anything. *)
LEMMA SelectNewest ==
  ASSUME NEW f, NEW s \in Slots, f[s] \in Records,
         IsRecord(f[Opposite(s)]) =>
           f[Opposite(s)] \in Records /\ f[s].seq > f[Opposite(s)].seq
  PROVE  Select(f["A"], f["B"]) = [slot |-> s, rec |-> f[s]]
<1>1. IsRecord(f[s]) /\ f[s].seq \in Nat
  BY SlotFacts DEF Records
<1>2. CASE s = "A"
  BY <1>1, <1>2 DEF Select, SequenceNewer, Opposite
<1>3. CASE s = "B"
  <2>1. IsRecord(f["A"]) => f["A"].seq \in Nat /\ f["B"].seq > f["A"].seq
    BY <1>3 DEF Opposite, Records
  <2>2. QED
    BY <1>1, <1>3, <2>1 DEF Select, SequenceNewer
<1>4. QED
  BY <1>2, <1>3 DEF Slots

(* The selection takes its record from the card.                           *)
LEMMA SelectedRecord ==
  ASSUME Inv, Selected.slot # NoSlot
  PROVE  /\ Selected \in [slot : Slots, rec : Records]
         /\ slot[Selected.slot] = Selected.rec /\ Selected.rec.source \in Paths
<1>1. Selected # NoSelection
  BY DEF NoSelection
<1>2. /\ Selected \in [slot : Slots, rec : Records]
      /\ slot[Selected.slot] = Selected.rec
  BY <1>1, SelectedIsOnDisk DEF Inv, DomainOK
<1>3. QED
  BY <1>2 DEF Records

LEMMA NoneSelected == NoSelection.slot = NoSlot
BY DEF NoSelection

(* As long as the card keeps the files and the journal, what is promised   *)
(* of the card holds on.                                                   *)
LEMMA CardKept ==
  ASSUME HiddenIsNamed, PreparedHasBook, UNCHANGED <<file, hidden, slot>>
  PROVE  HiddenIsNamed' /\ PreparedHasBook' /\ Selected' = Selected
<1>1. Selected' = Selected
  BY DEF Selected
<1>2. QED
  BY <1>1 DEF HiddenIsNamed, PreparedHasBook, Hides

(* A call that returns writes nothing, cleans nothing and begins nothing.  *)
LEMMA ReturnLabel ==
  ASSUME NEW res, Return(res) \/ Publish(res)
  PROVE  pc' \in {"idle", "check"}
BY DEF Return, Publish

LEMMA NoHand ==
  ASSUME pc' \notin Writers, pc' \notin {"cleanup", "cleanup2", "begin"}
  PROVE  WritingOK' /\ CleaningOK' /\ BeginHasBook'
BY DEF WritingOK, CleaningOK, BeginHasBook

LEMMA QuietAtomic ==
  ASSUME Atomic, UNCHANGED <<file, hidden, slot>>,
         pc' \notin Writers, pc' \notin {"cleanup", "cleanup2", "begin"}
  PROVE  Atomic'
BY CardKept, NoHand DEF Atomic

LEMMA InitAtomic == Init => Atomic
<1> SUFFICES ASSUME Init PROVE Atomic
  OBVIOUS
<1>1. Selected = NoSelection
  BY SlotFacts DEF Init, Selected, Select, Slots
<1>2. \A p \in Paths : ~Hides(p)
  <2>1. hidden \in [Paths -> {"none", "stray"}]
    BY DEF Init
  <2>2. QED
    BY <2>1 DEF Hides
<1>3. QED
  BY <1>1, <1>2, NoneSelected
     DEF Init, Atomic, HiddenIsNamed, PreparedHasBook, WritingOK, CleaningOK,
         BeginHasBook, Writers

(* What a call does before it writes, and what leaves the card alone.      *)
LEMMA CheckAtomic == Inv /\ Atomic /\ Check => Atomic'
<1> SUFFICES ASSUME Inv, Atomic, Check PROVE Atomic'
  OBVIOUS
<1>1. UNCHANGED <<file, hidden, slot>>
  BY DEF Check, domainVars
<1>2. CASE file[job.path] = "none" \/ hidden[job.path] # "none"
  <2>1. pc' = "idle"
    BY <1>2 DEF Check, Publish
  <2>2. QED
    BY <1>1, <2>1, QuietAtomic DEF Writers
<1>3. CASE ~(file[job.path] = "none" \/ hidden[job.path] # "none")
  <2>1. pc' = "begin" /\ job' = [job EXCEPT !.kind = "delete"]
    BY <1>3 DEF Check
  <2>2. job'.path = job.path
    BY <2>1 DEF Inv, CallOK, CallTypes
  <2>3. WritingOK' /\ CleaningOK' /\ BeginHasBook'
    BY <1>1, <1>3, <2>1, <2>2 DEF WritingOK, CleaningOK, BeginHasBook, Writers
  <2>4. QED
    BY <1>1, <2>3, CardKept DEF Atomic
<1>4. QED
  BY <1>2, <1>3

LEMMA BeginAtomic == Inv /\ Atomic /\ Begin => Atomic'
<1> SUFFICES ASSUME Inv, Atomic, Begin PROVE Atomic'
  OBVIOUS
<1>1. UNCHANGED <<file, hidden, slot>> /\ pc = "begin"
  BY DEF Begin, domainVars
<1>2. /\ file[job.path] # "none" /\ hidden[job.path] = "none" /\ JournalEmpty
  BY <1>1 DEF Atomic, BeginHasBook, Inv, CallOK, JobOK
<1>3. Selected = NoSelection /\ ~IsCorrupt /\ ~IsRecord(slot["B"])
  BY <1>2, SelectedIsOnDisk, SlotFacts DEF Inv, DomainOK, JournalEmpty, Slots
<1>4. /\ out' = [slot |-> "A", rec |-> Record(1, Prepared, job.path)]
      /\ pc' = "truncate"
  BY <1>3 DEF Begin, Goto
<1>5. HiddenIsNamed' /\ PreparedHasBook' /\ Selected' = NoSelection
  BY <1>1, <1>3, CardKept DEF Atomic
<1>6. First'
  BY <1>1, <1>2, <1>3, <1>4, <1>5 DEF First, SelectedAs, Record
<1>7. QED
  BY <1>4, <1>5, <1>6 DEF Atomic, WritingOK, CleaningOK, BeginHasBook

LEMMA LoadAtomic == Inv /\ Atomic /\ Load => Atomic'
<1> SUFFICES ASSUME Inv, Atomic, Load PROVE Atomic'
  OBVIOUS
<1>1. UNCHANGED <<file, hidden, slot>>
  BY DEF Load, domainVars
<1>2. HiddenIsNamed' /\ PreparedHasBook' /\ Selected' = Selected
  BY <1>1, CardKept DEF Atomic
<1>3. CASE Return("pending") \/ Return("nothing")
  <2>1. pc' \in {"idle", "check"}
    BY <1>3, ReturnLabel
  <2>2. QED
    BY <1>1, <2>1, QuietAtomic DEF Writers
<1>4. CASE /\ Selected # NoSelection /\ sel' = Selected
           /\ Goto(IF Selected.rec.phase = SourceRemoved THEN "cleanup" ELSE "operate")
  <2>1. Selected.slot # NoSlot
    BY <1>4, SelectedIsOnDisk, SlotFacts DEF Inv, DomainOK
  <2>2. WritingOK' /\ CleaningOK' /\ BeginHasBook'
    BY <1>2, <1>4, <2>1 DEF WritingOK, CleaningOK, BeginHasBook, Goto, Writers
  <2>3. QED
    BY <1>2, <2>2 DEF Atomic
<1>5. QED
  BY <1>3, <1>4 DEF Load

LEMMA OthersAtomic ==
  ASSUME Inv, Atomic,
         \/ Find \/ Reconcile \/ IoFails \/ Resume \/ AskFence \/ ShowRecents
         \/ Sleep \/ PowerLoss \/ Boot
         \/ \E p \in Paths : StartDelete(p) \/ OpenBook(p)
  PROVE  Atomic'
<1>1. UNCHANGED <<file, hidden, slot>>
  BY DEF Find, Reconcile, IoFails, Resume, AskFence, ShowRecents, Sleep, PowerLoss,
     Boot, StartDelete, OpenBook, domainVars
<1>2. pc' \in {"off", "idle", "check", "find", "load"}
  <2>1. CASE Find \/ Reconcile \/ IoFails
    BY <2>1, ReturnLabel DEF Find, Reconcile, IoFails, Goto
  <2>2. CASE ~(Find \/ Reconcile \/ IoFails)
    BY <2>2 DEF Resume, AskFence, ShowRecents, Sleep, PowerLoss, Boot, StartDelete,
       OpenBook
  <2>3. QED
    BY <2>1, <2>2
<1>3. QED
  BY <1>1, <1>2, QuietAtomic DEF Writers

(* A file that comes to a path takes no book from it.                      *)
LEMMA UploadAtomic ==
  ASSUME Inv, Atomic, NEW p \in Paths, Upload(p)
  PROVE  Atomic'
<1>1. /\ file' = [file EXCEPT ![p] = "upload"] /\ UNCHANGED <<slot, hidden>>
      /\ pc' = "idle"
  BY DEF Upload
<1>2. \A q \in Paths : file[q] # "none" => file'[q] # "none"
  BY <1>1 DEF Inv, DomainOK, DomainTypes
<1>3. Selected' = Selected /\ \A q : Hides(q)' = Hides(q)
  BY <1>1 DEF Selected, Hides
<1>4. HiddenIsNamed'
  BY <1>3 DEF Atomic, HiddenIsNamed
<1>5. PreparedHasBook'
  <2>1. Selected.slot # NoSlot => Selected.rec.source \in Paths
    BY SelectedRecord
  <2>2. QED
    BY <1>2, <1>3, <2>1 DEF Atomic, PreparedHasBook
<1>6. QED
  BY <1>1, <1>4, <1>5, NoHand DEF Atomic, Writers

-----------------------------------------------------------------------------
(* An operation that is done goes on to the record that follows.           *)
LEMMA AdvanceAtomic ==
  ASSUME Inv, pc = "operate", Advance, slot' = slot,
         sel.rec.phase = Prepared =>
           file'[sel.rec.source] = "none" /\ hidden'[sel.rec.source] \in {"book", "upload"},
         sel.rec.phase = RecentsPurged => hidden'[sel.rec.source] \notin {"book", "upload"}
  PROVE  WritingOK' /\ CleaningOK' /\ BeginHasBook'
<1>1. /\ sel \in [slot : Slots, rec : Records] /\ slot[sel.slot] = sel.rec
      /\ Selected = sel
  BY Operand
<1>2. /\ pc' = "truncate" /\ sel' = sel
      /\ out' = [slot |-> Opposite(sel.slot),
                 rec |-> Record(sel.rec.seq + 1, sel.rec.phase + 1, sel.rec.source)]
  BY DEF Advance, Goto, AdvanceSlot, NextPhase
<1>3. Selected' = sel'
  BY <1>1, <1>2 DEF Selected
<1>4. Following'
  BY <1>1, <1>2, <1>3 DEF Following, SelectedAs, Record, Hides
<1>5. QED
  BY <1>2, <1>4 DEF WritingOK, CleaningOK, BeginHasBook

LEMMA StepEndsAtomic ==
  ASSUME Inv, pc = "operate", slot' = slot, HiddenIsNamed', PreparedHasBook',
         \/ /\ Done
            /\ sel.rec.phase = Prepared =>
                 /\ file'[sel.rec.source] = "none"
                 /\ hidden'[sel.rec.source] \in {"book", "upload"}
            /\ sel.rec.phase = RecentsPurged =>
                 hidden'[sel.rec.source] \notin {"book", "upload"}
         \/ Fails \/ Return("pending") \/ Return("conflict")
  PROVE  Atomic'
<1>1. CASE /\ Advance
           /\ sel.rec.phase = Prepared =>
                /\ file'[sel.rec.source] = "none"
                /\ hidden'[sel.rec.source] \in {"book", "upload"}
           /\ sel.rec.phase = RecentsPurged =>
                hidden'[sel.rec.source] \notin {"book", "upload"}
  BY <1>1, AdvanceAtomic DEF Atomic
<1>2. CASE Return("pending") \/ Return("conflict")
  BY <1>2, ReturnLabel, NoHand DEF Atomic, Writers
<1>3. QED
  BY <1>1, <1>2 DEF Done, Fails

(* What hiding may do: nothing, or take the book from its path.            *)
LEMMA HideFacts ==
  ASSUME Inv, HideSource
  PROVE  /\ pc = "operate" /\ slot' = slot /\ Selected = sel /\ Target \in Paths
         /\ Target = sel.rec.source /\ sel.rec.phase = Prepared
         /\ Selected.slot # NoSlot
         /\ \/ UNCHANGED <<file, hidden>>
               /\ \/ Done /\ file[Target] = "none" /\ Hides(Target)
                  \/ Fails \/ Return("pending") \/ Return("conflict")
            \/ /\ file[Target] \in {"book", "upload"} /\ hidden[Target] = "none"
               /\ file' = [file EXCEPT ![Target] = "none"]
               /\ hidden' = [hidden EXCEPT ![Target] = file[Target]]
               /\ Done \/ Fails
<1>1. /\ pc = "operate" /\ slot' = slot /\ sel.rec.phase = Prepared
  BY DEF HideSource, Operating
<1>2. /\ Selected = sel /\ Target \in Paths /\ Target = sel.rec.source
      /\ Sound(sel.rec) /\ sel \in [slot : Slots, rec : Records]
  BY <1>1, Operand
<1>3. /\ file[Target] \in {"none", "book", "upload"}
      /\ hidden[Target] \in {"none", "book", "upload"}
  BY <1>2 DEF Sound, Inv, DomainOK, DomainTypes
<1>4. CASE file[Target] # "none" /\ hidden[Target] = "none"
  BY <1>1, <1>2, <1>3, <1>4, SlotFacts DEF HideSource
<1>5. CASE ~(file[Target] # "none" /\ hidden[Target] = "none")
  BY <1>1, <1>2, <1>3, <1>5, SlotFacts DEF HideSource, Hides
<1>6. QED
  BY <1>4, <1>5

LEMMA HideSourceAtomic == Inv /\ Atomic /\ HideSource => Atomic'
<1> SUFFICES ASSUME Inv, Atomic, HideSource PROVE Atomic'
  OBVIOUS
<1>1. /\ pc = "operate" /\ slot' = slot /\ Selected = sel /\ Target \in Paths
      /\ Target = sel.rec.source /\ sel.rec.phase = Prepared /\ Selected.slot # NoSlot
  BY HideFacts
<1>2. Selected' = Selected
  BY <1>1 DEF Selected
<1>3. CASE UNCHANGED <<file, hidden>>
  <2>1. HiddenIsNamed' /\ PreparedHasBook'
    BY <1>1, <1>3, CardKept DEF Atomic
  <2>2. \/ Done /\ file[Target] = "none" /\ Hides(Target)
        \/ Fails \/ Return("pending") \/ Return("conflict")
    <3>1. ~(/\ file[Target] \in {"book", "upload"}
            /\ file' = [file EXCEPT ![Target] = "none"])
      BY <1>1, <1>3 DEF Inv, DomainOK, DomainTypes
    <3>2. QED
      BY <3>1, HideFacts
  <2>3. QED
    BY <1>1, <1>3, <2>1, <2>2, StepEndsAtomic, PhaseFacts DEF Hides
<1>4. CASE /\ file[Target] \in {"book", "upload"}
           /\ file' = [file EXCEPT ![Target] = "none"]
           /\ hidden' = [hidden EXCEPT ![Target] = file[Target]]
           /\ Done \/ Fails
  <2>1. /\ file'[Target] = "none" /\ hidden'[Target] \in {"book", "upload"}
        /\ \A q \in Paths : q # Target => hidden'[q] = hidden[q]
    BY <1>1, <1>4 DEF Inv, DomainOK, DomainTypes
  <2>2. HiddenIsNamed'
    <3> SUFFICES ASSUME NEW q \in Paths, Hides(q)'
                 PROVE  /\ Selected.slot # NoSlot /\ Selected.rec.source = q
                        /\ Selected.rec.phase # SourceRemoved
      BY <1>2 DEF HiddenIsNamed
    <3>1. CASE q = Target
      BY <1>1, <3>1, PhaseFacts
    <3>2. CASE q # Target
      BY <2>1, <3>2 DEF Hides, Atomic, HiddenIsNamed
    <3>3. QED
      BY <3>1, <3>2
  <2>3. PreparedHasBook'
    BY <1>1, <1>2, <2>1 DEF PreparedHasBook, Hides
  <2>4. QED
    BY <1>1, <1>4, <2>1, <2>2, <2>3, StepEndsAtomic, PhaseFacts
<1>5. QED
  BY <1>3, <1>4, HideFacts

LEMMA PurgeAtomic ==
  ASSUME Inv, Atomic, PurgeRecents \/ (\E part \in Parts : PurgePart(part))
  PROVE  Atomic'
<1>1. /\ pc = "operate" /\ UNCHANGED <<file, hidden, slot>> /\ (Done \/ Fails)
      /\ sel.rec.phase \notin {Prepared, RecentsPurged}
  BY PhaseFacts DEF PurgeRecents, PurgePart, PurgePhase, Operating, Parts
<1>2. HiddenIsNamed' /\ PreparedHasBook'
  BY <1>1, CardKept DEF Atomic
<1>3. QED
  BY <1>1, <1>2, StepEndsAtomic

LEMMA RemoveFacts ==
  ASSUME Inv, RemoveHiddenSource
  PROVE  /\ pc = "operate" /\ UNCHANGED <<slot, file>> /\ Selected = sel
         /\ Target \in Paths /\ Target = sel.rec.source
         /\ sel.rec.phase = RecentsPurged /\ Selected.slot # NoSlot
         /\ \/ hidden' = [hidden EXCEPT ![Target] = "none"] /\ Done
            \/ hidden' \in {hidden, [hidden EXCEPT ![Target] = "none"]} /\ Fails
<1>1. /\ pc = "operate" /\ UNCHANGED <<slot, file>> /\ sel.rec.phase = RecentsPurged
      /\ \/ hidden' = [hidden EXCEPT ![Target] = "none"] /\ Done
         \/ hidden' \in {hidden, [hidden EXCEPT ![Target] = "none"]} /\ Fails
  BY DEF RemoveHiddenSource, Operating
<1>2. QED
  BY <1>1, Operand, SlotFacts

LEMMA RemoveHiddenSourceAtomic == Inv /\ Atomic /\ RemoveHiddenSource => Atomic'
<1> SUFFICES ASSUME Inv, Atomic, RemoveHiddenSource PROVE Atomic'
  OBVIOUS
<1>1. /\ pc = "operate" /\ UNCHANGED <<slot, file>> /\ Selected = sel
      /\ Target \in Paths /\ Target = sel.rec.source
      /\ sel.rec.phase = RecentsPurged /\ Selected.slot # NoSlot
  BY RemoveFacts
<1>2. \A q \in Paths : hidden'[q] \in {hidden[q], "none"}
  BY <1>1, RemoveFacts DEF Inv, DomainOK, DomainTypes
<1>3. Selected' = Selected
  BY <1>1 DEF Selected
<1>4. HiddenIsNamed'
  BY <1>2, <1>3 DEF Atomic, HiddenIsNamed, Hides
<1>5. PreparedHasBook'
  BY <1>1, <1>3, PhaseFacts DEF PreparedHasBook
<1>6. CASE Fails
  BY <1>1, <1>4, <1>5, <1>6, StepEndsAtomic
<1>7. CASE hidden' = [hidden EXCEPT ![Target] = "none"] /\ Done
  <2>1. hidden'[Target] = "none"
    BY <1>1, <1>7 DEF Inv, DomainOK, DomainTypes
  <2>2. QED
    BY <1>1, <1>4, <1>5, <1>7, <2>1, StepEndsAtomic, PhaseFacts
<1>8. QED
  BY <1>6, <1>7, RemoveFacts

-----------------------------------------------------------------------------
(* What is selected once a slot was changed.                               *)
LEMMA SelectedNext ==
  ASSUME NEW s \in Slots, slot'[s] \in Records,
         IsRecord(slot'[Opposite(s)]) =>
           slot'[Opposite(s)] \in Records /\ slot'[s].seq > slot'[Opposite(s)].seq
  PROVE  Selected' = [slot |-> s, rec |-> slot'[s]]
BY SelectNewest DEF Selected

(* The first slot removed is the stale one, so the terminal record stays   *)
(* selected until it goes too.                                             *)
LEMMA CleanupAtomic == Inv /\ Atomic /\ Cleanup => Atomic'
<1> SUFFICES ASSUME Inv, Atomic, Cleanup PROVE Atomic'
  OBVIOUS
<1>1. /\ pc = "cleanup" /\ pc' = "cleanup2" /\ UNCHANGED <<sel, file, hidden>>
      /\ slot' = [slot EXCEPT ![Opposite(sel.slot)] = Absent]
  BY DEF Cleanup, Goto, callVars, domainVars, FirstRemoved
<1>2. /\ Selected = sel /\ sel.slot # NoSlot /\ sel.rec.phase = SourceRemoved
      /\ sel.slot \in Slots /\ sel.rec \in Records /\ slot[sel.slot] = sel.rec
      /\ sel = [slot |-> sel.slot, rec |-> sel.rec]
  BY <1>1, SelectedRecord DEF Atomic, CleaningOK
<1>3. slot'[sel.slot] = sel.rec /\ slot'[Opposite(sel.slot)] = Absent
  BY <1>1, <1>2, SlotFacts DEF Inv, DomainOK, DomainTypes
<1>4. Selected' = sel
  BY <1>2, <1>3, SelectedNext, SlotFacts
<1>5. HiddenIsNamed' /\ PreparedHasBook'
  BY <1>1, <1>2, <1>4 DEF Atomic, HiddenIsNamed, PreparedHasBook, Hides
<1>6. WritingOK' /\ CleaningOK' /\ BeginHasBook'
  BY <1>1, <1>2, <1>4 DEF WritingOK, CleaningOK, BeginHasBook, Writers
<1>7. QED
  BY <1>5, <1>6 DEF Atomic

LEMMA CleanupDoneAtomic == Inv /\ Atomic /\ CleanupDone => Atomic'
<1> SUFFICES ASSUME Inv, Atomic, CleanupDone PROVE Atomic'
  OBVIOUS
<1>1. /\ pc = "cleanup2" /\ UNCHANGED <<file, hidden>> /\ Return("complete")
      /\ slot' = [slot EXCEPT ![sel.slot] = Absent]
      /\ sel \in [slot : Slots, rec : Records] /\ slot[Opposite(sel.slot)] = Absent
  BY SlotFacts DEF CleanupDone, domainVars, FirstRemoved, Inv, CallOK, SelOK
<1>2. Selected = sel /\ sel.rec.phase = SourceRemoved
  BY <1>1 DEF Atomic, CleaningOK
<1>3. \A p \in Paths : ~Hides(p)
  <2>1. Selected.rec.phase = SourceRemoved
    BY <1>2
  <2>2. HiddenIsNamed
    BY DEF Atomic
  <2>3. QED
    BY <2>1, <2>2 DEF HiddenIsNamed
<1>4. slot'["A"] = Absent /\ slot'["B"] = Absent
  BY <1>1, SlotFacts DEF Inv, DomainOK, DomainTypes, Slots, Opposite
<1>5. Selected' = NoSelection
  BY <1>4, SlotFacts DEF Selected, Select
<1>6. HiddenIsNamed' /\ PreparedHasBook'
  BY <1>1, <1>3, <1>5, NoneSelected DEF HiddenIsNamed, PreparedHasBook, Hides
<1>7. pc' \in {"idle", "check"}
  BY <1>1, ReturnLabel
<1>8. QED
  BY <1>6, <1>7, NoHand DEF Atomic, Writers

-----------------------------------------------------------------------------
(***************************************************************************)
(* writeRecord.  The record before the one written stays on the card.      *)
(***************************************************************************)
(* The two ways to write, with the values they write.                      *)
LEMMA FirstFacts ==
  ASSUME Inv, pc \in Writers, First
  PROVE  /\ out \in [slot : Slots, rec : Records] /\ out.rec \in Records
         /\ out = [slot |-> "A", rec |-> out.rec] /\ out # NoSelection
         /\ out.rec.source \in Paths /\ out.rec.phase = 1 /\ out.slot # NoSlot
         /\ "A" \in Slots /\ "B" \in Slots /\ Opposite("A") = "B"
<1>1. out \in [slot : Slots, rec : Records] /\ out.slot = "A" /\ out.rec.phase = 1
  BY PhaseFacts DEF First, Inv, CallOK, OutOK, Writers
<1>2. out.rec \in Records /\ out.rec.source \in Paths
  BY <1>1 DEF Records
<1>3. QED
  BY <1>1, <1>2, SlotFacts DEF Slots, Opposite

LEMMA FollowingFacts ==
  ASSUME Inv, pc \in Writers, Following
  PROVE  /\ out \in [slot : Slots, rec : Records] /\ out.rec \in Records
         /\ sel \in [slot : Slots, rec : Records] /\ sel.rec \in Records
         /\ slot[sel.slot] = sel.rec /\ sel.slot \in Slots
         /\ out.slot = Opposite(sel.slot) /\ out.slot \in Slots
         /\ Opposite(out.slot) = sel.slot /\ out.slot # sel.slot
         /\ out.rec.source = sel.rec.source /\ sel.rec.source \in Paths
         /\ out.rec.phase = sel.rec.phase + 1 /\ out.rec.seq > sel.rec.seq
         /\ sel.rec.phase \in 1..6 /\ out.rec.phase \in 2..7
         /\ sel = [slot |-> sel.slot, rec |-> sel.rec]
         /\ out = [slot |-> out.slot, rec |-> out.rec]
         /\ sel.slot # NoSlot /\ out.slot # NoSlot
<1>1. /\ out \in [slot : Slots, rec : Records]
      /\ sel \in [slot : Slots, rec : Records]
      /\ slot[sel.slot] = sel.rec /\ out.slot = Opposite(sel.slot)
      /\ out.rec = Record(sel.rec.seq + 1, sel.rec.phase + 1, sel.rec.source)
  BY DEF Following, Inv, CallOK, OutOK, Writers
<1>2. out.rec \in Records /\ sel.rec \in Records
  BY <1>1
<1>3. /\ out.rec.seq = sel.rec.seq + 1 /\ out.rec.phase = sel.rec.phase + 1
      /\ out.rec.source = sel.rec.source
  BY <1>1 DEF Record
<1>4. /\ sel.rec.seq \in Nat /\ sel.rec.phase \in 1..7 /\ out.rec.phase \in 1..7
      /\ sel.rec.source \in Paths
  BY <1>2, PhaseFacts DEF Records
<1>5. out.rec.seq > sel.rec.seq /\ sel.rec.phase \in 1..6 /\ out.rec.phase \in 2..7
  BY <1>3, <1>4
<1>6. QED
  BY <1>1, <1>2, <1>3, <1>4, <1>5, SlotFacts

(***************************************************************************)
(* What the slot being written may hold next, and what is selected then.   *)
(***************************************************************************)
LEMMA FirstSelected ==
  ASSUME Inv, pc \in Writers, First, NEW v \in {Absent, Torn, out.rec},
         slot' = [slot EXCEPT ![out.slot] = v]
  PROVE  /\ Selected' = IF v = out.rec THEN out ELSE NoSelection
         /\ ~IsRecord(slot'["B"])
<1>1. slot'["A"] = v /\ ~IsRecord(slot'["B"])
  BY FirstFacts DEF First, Inv, DomainOK, DomainTypes
<1>2. CASE v = out.rec
  BY <1>1, <1>2, FirstFacts, SelectedNext
<1>3. CASE v # out.rec
  BY <1>1, <1>3, SlotFacts DEF Selected, Select
<1>4. QED
  BY <1>1, <1>2, <1>3

LEMMA FollowingSelected ==
  ASSUME Inv, pc \in Writers, Following, NEW v \in {Absent, Torn, out.rec},
         slot' = [slot EXCEPT ![out.slot] = v]
  PROVE  /\ Selected' = IF v = out.rec THEN out ELSE sel
         /\ slot'[sel.slot] = sel.rec
<1>1. slot'[out.slot] = v /\ slot'[sel.slot] = sel.rec
  BY FollowingFacts DEF Inv, DomainOK, DomainTypes
<1>2. CASE v = out.rec
  BY <1>1, <1>2, FollowingFacts, SelectedNext
<1>3. CASE v # out.rec
  BY <1>1, <1>3, FollowingFacts, SelectedNext, SlotFacts
<1>4. QED
  BY <1>1, <1>2, <1>3

(* How each step of writeRecord changes the slot and where it goes on.     *)
LEMMA WriterStep ==
  ASSUME Inv, Atomic, Truncate \/ Write \/ Close \/ Unwrite
  PROVE  /\ pc \in Writers /\ UNCHANGED <<file, hidden>>
         /\ \/ slot' = slot
            \/ \E v \in {Absent, Torn, out.rec} : slot' = [slot EXCEPT ![out.slot] = v]
         /\ \/ pc' \in {"idle", "check", "reconcile", "load"}
            \/ /\ pc' \in Writers /\ UNCHANGED <<sel, out>>
               /\ \/ pc = "truncate" /\ pc' = "write"
                     /\ slot' = [slot EXCEPT ![out.slot] = Torn]
                  \/ pc = "write" /\ pc' = "close"
                     /\ slot' = [slot EXCEPT ![out.slot] = out.rec]
                  \/ pc \in {"write", "close"} /\ pc' = "unwrite" /\ slot' = slot
<1>1. CASE Truncate
  <2>1. /\ pc = "truncate" /\ UNCHANGED <<file, hidden>>
        /\ slot' = slot \/ slot' = [slot EXCEPT ![out.slot] = Torn]
    BY <1>1 DEF Truncate, domainVars
  <2>2. \/ /\ slot' = [slot EXCEPT ![out.slot] = Torn] /\ pc' = "write"
           /\ UNCHANGED <<sel, out>>
        \/ WriteFails
    BY <1>1 DEF Truncate, Goto, callVars
  <2>3. WriteFails => pc' \in {"idle", "check", "reconcile"}
    BY ReturnLabel DEF WriteFails, Goto
  <2>4. QED
    BY <2>1, <2>2, <2>3 DEF Writers
<1>2. CASE Write
  BY <1>2 DEF Write, Goto, domainVars, callVars, Writers
<1>3. CASE Close
  BY <1>3 DEF Close, Goto, domainVars, callVars, Writers
<1>4. CASE Unwrite
  <2>1. /\ pc = "unwrite" /\ UNCHANGED <<file, hidden>> /\ WriteFails
        /\ slot' = slot \/ slot' = [slot EXCEPT ![out.slot] = Absent]
    BY <1>4 DEF Unwrite, domainVars
  <2>2. pc' \in {"idle", "check", "reconcile"}
    BY <2>1, ReturnLabel DEF WriteFails, Goto
  <2>3. QED
    BY <2>1, <2>2 DEF Writers
<1>5. QED
  BY <1>1, <1>2, <1>3, <1>4

LEMMA FirstAtomic ==
  ASSUME Inv, Atomic, Truncate \/ Write \/ Close \/ Unwrite, First
  PROVE  Atomic'
<1>1. pc \in Writers /\ UNCHANGED <<file, hidden>>
  BY WriterStep
<1>2. Selected \in {NoSelection, out}
  BY <1>1 DEF First, SelectedAs, Writers
<1>3. Selected' \in {NoSelection, out}
  <2>1. CASE slot' = slot
    BY <1>2, <2>1 DEF Selected
  <2>2. ASSUME NEW v \in {Absent, Torn, out.rec}, slot' = [slot EXCEPT ![out.slot] = v]
        PROVE  Selected' \in {NoSelection, out}
    BY <1>1, <2>2, FirstSelected
  <2>3. QED
    BY <2>1, <2>2, WriterStep
<1>4. /\ out.rec.source \in Paths /\ ~Hides(out.rec.source)
      /\ file[out.rec.source] # "none" /\ out.rec.phase = 1 /\ out.slot # NoSlot
  BY <1>1, FirstFacts DEF First, Hides
<1>5. \A p \in Paths : ~Hides(p)
  BY <1>2, <1>4, NoneSelected DEF Atomic, HiddenIsNamed
<1>6. HiddenIsNamed'
  BY <1>1, <1>5 DEF HiddenIsNamed, Hides
<1>7. PreparedHasBook'
  BY <1>1, <1>3, <1>4, NoneSelected DEF PreparedHasBook
<1>8. CASE pc' \in {"idle", "check", "reconcile", "load"}
  BY <1>6, <1>7, <1>8, NoHand DEF Atomic, Writers
<1>9. CASE /\ pc' \in Writers /\ UNCHANGED <<sel, out>>
           /\ \/ pc = "truncate" /\ pc' = "write"
                 /\ slot' = [slot EXCEPT ![out.slot] = Torn]
              \/ pc = "write" /\ pc' = "close"
                 /\ slot' = [slot EXCEPT ![out.slot] = out.rec]
              \/ pc \in {"write", "close"} /\ pc' = "unwrite" /\ slot' = slot
  <2>1. /\ pc' = "write" => Selected' = NoSelection
        /\ pc' = "close" => Selected' = out
    BY <1>1, <1>9, FirstSelected, FirstFacts, SlotFacts
  <2>2. SelectedAs(NoSelection)'
    BY <1>3, <1>9, <2>1 DEF SelectedAs
  <2>3. ~IsRecord(slot'["B"])
    BY <1>1, <1>9, FirstSelected DEF First
  <2>4. First'
    BY <1>1, <1>9, <2>2, <2>3 DEF First
  <2>5. QED
    BY <1>6, <1>7, <1>9, <2>4 DEF Atomic, WritingOK, CleaningOK, BeginHasBook, Writers
<1>10. QED
  BY <1>8, <1>9, WriterStep

LEMMA FollowingAtomic ==
  ASSUME Inv, Atomic, Truncate \/ Write \/ Close \/ Unwrite, Following
  PROVE  Atomic'
<1>1. pc \in Writers /\ UNCHANGED <<file, hidden>>
  BY WriterStep
<1>2. Selected \in {sel, out}
  BY <1>1 DEF Following, SelectedAs, Writers
<1>3. Selected' \in {sel, out}
  <2>1. CASE slot' = slot
    BY <1>2, <2>1 DEF Selected
  <2>2. ASSUME NEW v \in {Absent, Torn, out.rec}, slot' = [slot EXCEPT ![out.slot] = v]
        PROVE  Selected' \in {sel, out}
    BY <1>1, <2>2, FollowingSelected
  <2>3. QED
    BY <2>1, <2>2, WriterStep
<1> DEFINE p == sel.rec.source
<1>4. /\ p \in Paths /\ out.rec.source = p /\ sel.slot # NoSlot /\ out.slot # NoSlot
      /\ out.rec.phase = sel.rec.phase + 1 /\ sel.rec.phase \in 1..6
      /\ sel.rec.phase = 1 => file[p] = "none" /\ Hides(p)
      /\ sel.rec.phase = 6 => ~Hides(p)
  BY <1>1, FollowingFacts, PhaseFacts DEF Following
<1>5. \A q \in Paths : Hides(q) => q = p /\ sel.rec.phase # 6
  BY <1>2, <1>4 DEF Atomic, HiddenIsNamed
<1>6. HiddenIsNamed'
  BY <1>1, <1>3, <1>4, <1>5, PhaseFacts DEF HiddenIsNamed, Hides
<1>7. PreparedHasBook'
  BY <1>1, <1>3, <1>4, PhaseFacts DEF PreparedHasBook, Hides
<1>8. CASE pc' \in {"idle", "check", "reconcile", "load"}
  BY <1>6, <1>7, <1>8, NoHand DEF Atomic, Writers
<1>9. CASE /\ pc' \in Writers /\ UNCHANGED <<sel, out>>
           /\ \/ pc = "truncate" /\ pc' = "write"
                 /\ slot' = [slot EXCEPT ![out.slot] = Torn]
              \/ pc = "write" /\ pc' = "close"
                 /\ slot' = [slot EXCEPT ![out.slot] = out.rec]
              \/ pc \in {"write", "close"} /\ pc' = "unwrite" /\ slot' = slot
  <2>1. Torn # out.rec
    BY <1>1, FollowingFacts, SlotFacts
  <2>2. /\ pc' = "write" => Selected' = sel
        /\ pc' = "close" => Selected' = out
    BY <1>1, <1>9, <2>1, FollowingSelected
  <2>3. SelectedAs(sel)'
    BY <1>3, <1>9, <2>2 DEF SelectedAs
  <2>4. slot'[sel.slot] = sel.rec
    BY <1>1, <1>9, FollowingSelected, FollowingFacts
  <2>5. Following'
    BY <1>1, <1>9, <2>3, <2>4 DEF Following, Hides
  <2>6. QED
    BY <1>6, <1>7, <1>9, <2>5 DEF Atomic, WritingOK, CleaningOK, BeginHasBook, Writers
<1>10. QED
  BY <1>8, <1>9, WriterStep

LEMMA NextAtomic == Inv /\ Atomic /\ [Next]_vars => Atomic'
<1> SUFFICES ASSUME Inv, Atomic, [Next]_vars PROVE Atomic'
  OBVIOUS
<1>1. CASE Truncate \/ Write \/ Close \/ Unwrite
  <2>1. First \/ Following
    BY <1>1, WriterStep DEF Atomic, WritingOK
  <2>2. QED
    BY <1>1, <2>1, FirstAtomic, FollowingAtomic
<1>2. CASE UNCHANGED vars
  BY <1>2 DEF vars, domainVars, callVars, jobVars, Atomic, HiddenIsNamed,
     PreparedHasBook, WritingOK, CleaningOK, BeginHasBook, First, Following,
     SelectedAs, Hides, Selected
<1>3. CASE Next
  BY <1>1, <1>3, OthersAtomic, CheckAtomic, BeginAtomic, LoadAtomic, UploadAtomic,
     HideSourceAtomic, PurgeAtomic, RemoveHiddenSourceAtomic, CleanupAtomic,
     CleanupDoneAtomic
     DEF Next, Working, User
<1>4. QED
  BY <1>2, <1>3

LEMMA AtomicInvariance == Spec => []Atomic
<1>1. Inv /\ Atomic /\ [Next]_vars => Atomic'
  BY NextAtomic
<1>2. QED
  BY <1>1, InitAtomic, Invariance, PTL DEF Spec

-----------------------------------------------------------------------------
(***************************************************************************)
(* The steps, as the abstract deletion sees them.                          *)
(***************************************************************************)
Status(p) ==
  IF Hides(p) THEN IF Blocked(p) THEN "blocked" ELSE "hidden"
  ELSE IF file[p] = "none" THEN "gone"
  ELSE IF Doomed(p) THEN "doomed" ELSE "kept"

Statuses == [p \in Paths |-> Status(p)]

(* A record that writeRecord has not read back.                            *)
Arming == pc \in {"close", "unwrite"} /\ out.rec.phase = Prepared

StatusChanges(p, to) ==
  Statuses' = [Statuses EXCEPT ![p] = to]

LEMMA StatusesNext ==
  ASSUME NEW p \in Paths, NEW to, Status(p)' = to,
         \A q \in Paths : q # p => Status(q)' = Status(q)
  PROVE  StatusChanges(p, to)
BY DEF StatusChanges, Statuses

LEMMA StatusesKept ==
  ASSUME \A q \in Paths : Status(q)' = Status(q)
  PROVE  UNCHANGED Statuses
BY DEF Statuses

LEMMA DoomStep ==
  ASSUME NEW p \in Paths, Status(p) = "kept", StatusChanges(p, "doomed"),
         \A q \in Paths : Status(q) \notin {"doomed", "hidden", "blocked"}
  PROVE  Promise!Next
<1>1. Promise!Doom(p)
  BY DEF Promise!Doom, Promise!UnderWay, StatusChanges, Statuses, Status, Hides
<1>2. QED
  BY <1>1 DEF Promise!Next

LEMMA HideStep ==
  ASSUME NEW p \in Paths, Status(p) = "doomed", StatusChanges(p, "hidden")
  PROVE  Promise!Next
<1>1. Promise!Hide(p)
  BY DEF Promise!Hide, StatusChanges, Statuses, Status, Hides
<1>2. QED
  BY <1>1 DEF Promise!Next, Promise!Finish

LEMMA RemoveStep ==
  ASSUME NEW p \in Paths, Status(p) = "hidden", NEW left \in {"gone", "kept"},
         StatusChanges(p, left)
  PROVE  Promise!Next
<1>1. Promise!Remove(p)
  BY DEF Promise!Remove, StatusChanges, Statuses, Status, Hides
<1>2. QED
  BY <1>1 DEF Promise!Next, Promise!Finish

LEMMA ArriveStep ==
  ASSUME NEW p \in Paths,
         \/ Status(p) = "gone" /\ StatusChanges(p, "kept")
         \/ Status(p) = "hidden" /\ StatusChanges(p, "blocked")
  PROVE  Promise!Next
<1>1. Promise!Arrive(p)
  BY DEF Promise!Arrive, StatusChanges, Statuses, Status, Hides
<1>2. QED
  BY <1>1 DEF Promise!Next

(* Nothing is seen of a step that keeps the card and what is armed.        *)
LEMMA SameStatus ==
  ASSUME UNCHANGED <<file, hidden>>, Selected' = Selected, Arming' = Arming
  PROVE  UNCHANGED Statuses
<1>1. Arming' <=> Arming
  OBVIOUS
<1>2. \A p \in Paths : Blocked(p)' <=> Blocked(p)
  BY DEF Blocked
<1>3. \A p \in Paths : Doomed(p)' <=> Doomed(p)
  BY <1>1 DEF Doomed, Arming
<1>4. \A p \in Paths : Status(p)' = Status(p)
  BY <1>2, <1>3 DEF Status, Hides
<1>5. QED
  BY <1>4, StatusesKept

(* Where no record of a deletion just begun is selected before or after,   *)
(* only the files are seen.                                                *)
LEMMA Undecided ==
  ASSUME UNCHANGED <<file, hidden>>,
         \A p \in Paths : ~Doomed(p) /\ ~Doomed(p)' /\ ~Blocked(p) /\ ~Blocked(p)'
  PROVE  UNCHANGED Statuses
<1>1. \A p \in Paths : Status(p)' = Status(p)
  BY DEF Status, Hides
<1>2. QED
  BY <1>1, StatusesKept

(***************************************************************************)
(* The first record is no longer being written and is on the card: now the *)
(* deletion is decided.                                                    *)
(***************************************************************************)
LEMMA ArmedStep ==
  ASSUME Inv, Atomic, UNCHANGED <<file, hidden, slot>>, Arming, ~Arming'
  PROVE  Promise!Next \/ UNCHANGED Statuses
<1>1. First
  <2>1. pc \in Writers
    BY DEF Arming, Writers
  <2>2. ~Following
    BY <2>1, FollowingFacts, PhaseFacts DEF Arming
  <2>3. QED
    BY <2>1, <2>2 DEF Atomic, WritingOK
<1>2. /\ Selected \in {NoSelection, out} /\ Selected' = Selected
      /\ out.rec.source \in Paths /\ out.rec.phase = Prepared /\ out.slot # NoSlot
      /\ file[out.rec.source] # "none" /\ ~Hides(out.rec.source)
  BY <1>1, FirstFacts DEF Arming, Writers, First, SelectedAs, Selected, Hides
<1>3. \A q \in Paths : ~Hides(q)
  BY <1>2, NoneSelected DEF Atomic, HiddenIsNamed
<1>4. \A q \in Paths : ~Doomed(q)
  BY DEF Doomed, Arming
<1>5. CASE Selected = NoSelection
  BY <1>2, <1>4, <1>5, Undecided, NoneSelected DEF Doomed, Blocked
<1>6. CASE Selected = out
  <2> DEFINE p == out.rec.source
  <2>1. Selected.rec.source = p /\ Selected.slot # NoSlot /\ Selected.rec.phase = Prepared
    BY <1>2, <1>6
  <2>2. Status(p) = "kept"
    BY <1>2, <1>3, <1>4 DEF Status
  <2>3. \A q \in Paths : Status(q) \in {"gone", "kept"}
    BY <1>3, <1>4 DEF Status
  <2>4. \A q \in Paths : Doomed(q)' <=> q = p
    BY <1>2, <2>1 DEF Doomed, Arming
  <2>5. \A q \in Paths : Status(q)' = IF q = p THEN "doomed" ELSE Status(q)
    BY <1>2, <1>3, <1>4, <2>4 DEF Status, Hides
  <2>6. StatusChanges(p, "doomed")
    <3> HIDE DEF p
    <3>1. p \in Paths
      BY <1>2 DEF p
    <3>2. QED
      BY <2>5, <3>1, StatusesNext
  <2>7. QED
    BY <1>2, <2>2, <2>3, <2>6, DoomStep
<1>7. QED
  BY <1>2, <1>5, <1>6

(* What leaves the card alone is seen only if it ends the first write.     *)
LEMMA QuietStep ==
  ASSUME Inv, Atomic, UNCHANGED <<file, hidden, slot>>,
         Arming' => Arming
  PROVE  Promise!Next \/ UNCHANGED Statuses
<1>1. CASE Arming /\ ~Arming'
  BY <1>1, ArmedStep
<1>2. CASE ~(Arming /\ ~Arming')
  <2>1. Arming' = Arming
    BY <1>2 DEF Arming
  <2>2. Selected' = Selected
    BY DEF Selected
  <2>3. QED
    BY <2>1, <2>2, SameStatus
<1>3. QED
  BY <1>1, <1>2

LEMMA HidePromise ==
  ASSUME Inv, Atomic, HideSource
  PROVE  Promise!Next \/ UNCHANGED Statuses
<1>1. /\ pc = "operate" /\ slot' = slot /\ Selected = sel /\ Target \in Paths
      /\ Target = sel.rec.source /\ sel.rec.phase = Prepared /\ Selected.slot # NoSlot
  BY HideFacts
<1>2. pc' \notin {"close", "unwrite"}
  BY ReturnLabel DEF HideSource, Done, Fails, Advance, Goto
<1>3. ~Arming /\ ~Arming' /\ Selected' = Selected
  BY <1>1, <1>2 DEF Arming, Selected
<1>4. CASE UNCHANGED <<file, hidden>>
  BY <1>1, <1>3, <1>4, QuietStep
<1>5. CASE /\ file[Target] \in {"book", "upload"} /\ hidden[Target] = "none"
           /\ file' = [file EXCEPT ![Target] = "none"]
           /\ hidden' = [hidden EXCEPT ![Target] = file[Target]]
  <2> DEFINE p == sel.rec.source
  <2>1. Status(p) = "doomed"
    BY <1>1, <1>3, <1>5 DEF Status, Hides, Doomed, Arming
  <2>2. /\ file'[p] = "none" /\ hidden'[p] \in {"book", "upload"}
        /\ \A q \in Paths : q # p => hidden'[q] = hidden[q] /\ file'[q] = file[q]
    BY <1>1, <1>5 DEF Inv, DomainOK, DomainTypes
  <2>3. \A q \in Paths : q # p =>
          ~Doomed(q) /\ ~Doomed(q)' /\ ~Blocked(q) /\ ~Blocked(q)'
    BY <1>1, <1>3 DEF Doomed, Blocked
  <2>4. \A q \in Paths : Status(q)' = IF q = p THEN "hidden" ELSE Status(q)
    BY <2>2, <2>3 DEF Status, Hides, Blocked
  <2>5. StatusChanges(p, "hidden")
    <3> HIDE DEF p
    <3>1. p \in Paths
      BY <1>1 DEF p
    <3>2. QED
      BY <2>4, <3>1, StatusesNext
  <2>6. QED
    BY <1>1, <2>1, <2>5, HideStep
<1>6. QED
  BY <1>4, <1>5, HideFacts

LEMMA RemovePromise ==
  ASSUME Inv, Atomic, RemoveHiddenSource
  PROVE  Promise!Next \/ UNCHANGED Statuses
<1>1. /\ pc = "operate" /\ UNCHANGED <<slot, file>> /\ Selected = sel
      /\ Target \in Paths /\ Target = sel.rec.source
      /\ sel.rec.phase = RecentsPurged /\ Selected.slot # NoSlot
  BY RemoveFacts
<1>2. pc' \notin {"close", "unwrite"}
  BY ReturnLabel DEF RemoveHiddenSource, Done, Fails, Advance, Goto
<1>3. ~Arming /\ ~Arming' /\ Selected' = Selected
  BY <1>1, <1>2 DEF Arming, Selected
<1>4. \A q \in Paths : ~Doomed(q) /\ ~Doomed(q)' /\ ~Blocked(q) /\ ~Blocked(q)'
  BY <1>1, <1>3, PhaseFacts DEF Doomed, Blocked
<1>5. CASE hidden' = hidden
  BY <1>1, <1>3, <1>5, QuietStep
<1>6. CASE hidden' = [hidden EXCEPT ![Target] = "none"]
  <2> DEFINE p == sel.rec.source
  <2>1. hidden'[p] = "none" /\ \A q \in Paths : q # p => hidden'[q] = hidden[q]
    BY <1>1, <1>6 DEF Inv, DomainOK, DomainTypes
  <2>2. CASE ~Hides(p)
    <3>1. \A q \in Paths : Status(q)' = Status(q)
      BY <1>1, <1>4, <2>1, <2>2 DEF Status, Hides
    <3>2. QED
      BY <3>1, StatusesKept
  <2>3. CASE Hides(p)
    <3>1. Status(p) = "hidden"
      BY <1>1, <1>4, <2>3 DEF Status
    <3>2. \A q \in Paths : Status(q)' =
            IF q = p THEN IF file[p] = "none" THEN "gone" ELSE "kept" ELSE Status(q)
      BY <1>1, <1>4, <2>1 DEF Status, Hides
    <3>3. StatusChanges(p, IF file[p] = "none" THEN "gone" ELSE "kept")
      <4> HIDE DEF p
      <4>1. p \in Paths
        BY <1>1 DEF p
      <4>2. QED
        BY <3>2, <4>1, StatusesNext
    <3>4. QED
      BY <1>1, <3>1, <3>3, RemoveStep
  <2>4. QED
    BY <2>2, <2>3
<1>7. QED
  BY <1>5, <1>6, RemoveFacts

(* A file that comes: to a path that is free, or to that of a hidden book, *)
(* whose deletion it blocks if the hiding is not on record.                *)
LEMMA UploadPromise ==
  ASSUME Inv, Atomic, NEW p \in Paths, Upload(p)
  PROVE  Promise!Next \/ UNCHANGED Statuses
<1>1. /\ file'[p] = "upload" /\ UNCHANGED <<slot, hidden, pc, out>> /\ pc = "idle"
      /\ \A q \in Paths : q # p => file'[q] = file[q]
  BY DEF Upload, callVars, Inv, DomainOK, DomainTypes
<1>2. Selected' = Selected /\ ~Arming /\ ~Arming'
  BY <1>1 DEF Selected, Arming
<1>3. \A q \in Paths : Doomed(q)' <=> Doomed(q)
  BY <1>1, <1>2 DEF Doomed
<1>4. \A q \in Paths : q # p => Status(q)' = Status(q)
  BY <1>1, <1>2, <1>3 DEF Status, Hides, Blocked
<1>5. Hides(p)' <=> Hides(p)
  BY <1>1 DEF Hides
<1>6. CASE file[p] # "none"
  <2>1. Status(p)' = Status(p)
    BY <1>1, <1>2, <1>3, <1>5, <1>6 DEF Status, Blocked
  <2>2. QED
    BY <1>4, <2>1, StatusesKept
<1>7. CASE file[p] = "none" /\ Hides(p)
  <2>1. Status(p) = "hidden" /\ Status(p)' \in {"hidden", "blocked"}
    BY <1>1, <1>5, <1>7 DEF Status, Blocked
  <2>2. CASE Status(p)' = "hidden"
    BY <1>4, <2>1, <2>2, StatusesKept
  <2>3. CASE Status(p)' = "blocked"
    BY <1>4, <2>1, <2>3, StatusesNext, ArriveStep
  <2>4. QED
    BY <2>1, <2>2, <2>3
<1>8. CASE file[p] = "none" /\ ~Hides(p)
  <2>1. ~Doomed(p)
    BY <1>8 DEF Doomed, Atomic, PreparedHasBook
  <2>2. Status(p) = "gone" /\ Status(p)' = "kept"
    BY <1>1, <1>3, <1>5, <1>8, <2>1 DEF Status
  <2>3. QED
    BY <1>4, <2>2, StatusesNext, ArriveStep
<1>9. QED
  BY <1>6, <1>7, <1>8

(* Cleaning up removes records of a book that is gone.                     *)
LEMMA CleanupPromise ==
  ASSUME Inv, Atomic, Cleanup \/ CleanupDone, Atomic'
  PROVE  UNCHANGED Statuses
<1>1. /\ pc \in {"cleanup", "cleanup2"} /\ UNCHANGED <<file, hidden>>
      /\ Selected = sel /\ sel.rec.phase = SourceRemoved
  BY DEF Cleanup, CleanupDone, domainVars, Atomic, CleaningOK
<1>2. Selected'.slot = NoSlot \/ Selected'.rec.phase = SourceRemoved
  <2>1. CASE Cleanup
    BY <2>1 DEF Cleanup, Goto, Atomic, CleaningOK
  <2>2. CASE CleanupDone
    <3>1. slot' = [slot EXCEPT ![sel.slot] = Absent] /\ slot[Opposite(sel.slot)] = Absent
          /\ sel.slot \in Slots
      BY <2>2, SlotFacts DEF CleanupDone, FirstRemoved, Inv, CallOK, SelOK
    <3>2. slot'["A"] = Absent /\ slot'["B"] = Absent
      BY <3>1, SlotFacts DEF Inv, DomainOK, DomainTypes, Slots, Opposite
    <3>3. QED
      BY <3>2, SlotFacts, NoneSelected DEF Selected, Select
  <2>3. QED
    BY <2>1, <2>2
<1>3. \A p \in Paths : ~Doomed(p) /\ ~Doomed(p)' /\ ~Blocked(p) /\ ~Blocked(p)'
  BY <1>1, <1>2, PhaseFacts DEF Doomed, Blocked
<1>4. QED
  BY <1>1, <1>3, Undecided

(***************************************************************************)
(* writeRecord.  While the first record is written nothing is decided; the *)
(* record after it says of a hidden book what is seen already.             *)
(***************************************************************************)
LEMMA WriterPromise ==
  ASSUME Inv, Atomic, Truncate \/ Write \/ Close \/ Unwrite
  PROVE  Promise!Next \/ UNCHANGED Statuses
<1>1. pc \in Writers /\ UNCHANGED <<file, hidden>>
  BY WriterStep
<1>2. CASE slot' = slot
  <2>1. CASE Arming' => Arming
    BY <1>1, <1>2, <2>1, QuietStep
  <2>2. CASE Arming' /\ ~Arming
    <3>1. pc' \in {"close", "unwrite"} /\ out'.rec.phase = Prepared
          /\ out' = out /\ pc \in {"truncate", "write"}
      BY <1>1, <2>2, WriterStep DEF Arming, Writers
    <3>2. First
      BY <1>1, <3>1, FollowingFacts, PhaseFacts DEF Atomic, WritingOK
    <3>3. Selected = NoSelection /\ Selected' = NoSelection
      BY <1>2, <3>1, <3>2 DEF First, SelectedAs, Selected
    <3>4. QED
      BY <1>1, <3>3, Undecided, NoneSelected DEF Doomed, Blocked
  <2>3. QED
    BY <2>1, <2>2
<1>3. CASE Following
  <2> DEFINE p == sel.rec.source
  <2>1. Selected \in {sel, out}
    BY <1>1, <1>3 DEF Following, SelectedAs, Writers
  <2>2. Selected' \in {sel, out}
    <3>1. CASE slot' = slot
      BY <2>1, <3>1 DEF Selected
    <3>2. ASSUME NEW v \in {Absent, Torn, out.rec}, slot' = [slot EXCEPT ![out.slot] = v]
          PROVE  Selected' \in {sel, out}
      BY <1>1, <1>3, <3>2, FollowingSelected
    <3>3. QED
      BY <3>1, <3>2, WriterStep
  <2>3. /\ out.rec.source = p /\ out.rec.phase # Prepared
        /\ sel.rec.phase = Prepared => file[p] = "none" /\ Hides(p)
    BY <1>1, <1>3, FollowingFacts, PhaseFacts DEF Following
  <2>4. \A q \in Paths : q # p =>
          ~Doomed(q) /\ ~Doomed(q)' /\ ~Blocked(q) /\ ~Blocked(q)'
    BY <2>1, <2>2, <2>3 DEF Doomed, Blocked
  <2>5. ASSUME NEW q \in Paths, q = p
        PROVE  ~Blocked(q) /\ ~Blocked(q)' /\ (~Hides(q) => ~Doomed(q) /\ ~Doomed(q)')
    <3>1. sel.rec.phase = Prepared => file[q] = "none" /\ Hides(q)
      BY <2>3, <2>5
    <3>2. ~Blocked(q) /\ ~Blocked(q)'
      BY <1>1, <2>1, <2>2, <2>3, <3>1 DEF Blocked
    <3>3. ~Hides(q) => ~Doomed(q) /\ ~Doomed(q)'
      BY <1>1, <2>1, <2>2, <2>3, <3>1 DEF Doomed
    <3>4. QED
      BY <3>2, <3>3
  <2>6. ASSUME NEW q \in Paths, q # p PROVE Status(q)' = Status(q)
    BY <1>1, <2>4, <2>6 DEF Status, Hides
  <2>7. ASSUME NEW q \in Paths, q = p PROVE Status(q)' = Status(q)
    <3>1. (Hides(q)' <=> Hides(q)) /\ file' = file
      BY <1>1 DEF Hides
    <3>2. ~Blocked(q) /\ ~Blocked(q)' /\ (~Hides(q) => ~Doomed(q) /\ ~Doomed(q)')
      BY <2>5, <2>7
    <3>3. QED
      BY <3>1, <3>2 DEF Status
  <2>8. QED
    BY <2>6, <2>7, StatusesKept
<1>4. ASSUME First, slot' # slot PROVE UNCHANGED Statuses
  <2>1. \A q \in Paths : ~Hides(q)
    <3>1. Selected \in {NoSelection, out}
      BY <1>1, <1>4 DEF First, SelectedAs, Writers
    <3>2. ~Hides(out.rec.source)
      BY <1>4 DEF First, Hides
    <3>3. QED
      BY <3>1, <3>2, NoneSelected DEF Atomic, HiddenIsNamed
  <2>2. \A q \in Paths : ~Blocked(q) /\ ~Blocked(q)'
    BY <1>1, <2>1 DEF Blocked, Hides
  <2>3. \A q \in Paths : ~Doomed(q)
    <3>1. Selected = NoSelection \/ Arming
      BY <1>1, <1>4 DEF First, SelectedAs, Writers, Arming
    <3>2. QED
      BY <3>1, NoneSelected DEF Doomed, Arming
  <2>4. \A q \in Paths : ~Doomed(q)'
    <3>1. Torn # out.rec /\ Absent # out.rec
      BY <1>1, <1>4, FirstFacts, SlotFacts
    <3>2. CASE Write
      <4>1. Arming'
        BY <1>4, <3>2 DEF Write, Goto, callVars, Arming, First
      <4>2. QED
        BY <4>1 DEF Doomed, Arming
    <3>3. CASE Truncate \/ Unwrite
      <4>1. \/ slot' = [slot EXCEPT ![out.slot] = Torn]
            \/ slot' = [slot EXCEPT ![out.slot] = Absent]
        BY <1>4, <3>3 DEF Truncate, Unwrite
      <4>2. Selected' = NoSelection
        BY <1>1, <1>4, <3>1, <4>1, FirstSelected
      <4>3. QED
        BY <4>2, NoneSelected DEF Doomed
    <3>4. CASE Close
      BY <1>4, <3>4 DEF Close
    <3>5. QED
      BY <3>2, <3>3, <3>4
  <2>5. QED
    BY <1>1, <2>2, <2>3, <2>4, Undecided
<1>5. First \/ Following
  BY <1>1 DEF Atomic, WritingOK
<1>6. QED
  BY <1>2, <1>3, <1>4, <1>5

LEMMA PromiseStep ==
  ASSUME Inv, Atomic, Atomic', [Next]_vars
  PROVE  Promise!Next \/ UNCHANGED Statuses
<1>1. CASE UNCHANGED vars
  BY <1>1, QuietStep DEF vars, domainVars, callVars, jobVars, Arming
<1>2. CASE Truncate \/ Write \/ Close \/ Unwrite
  BY <1>2, WriterPromise
<1>3. CASE HideSource \/ RemoveHiddenSource
  BY <1>3, HidePromise, RemovePromise
<1>4. CASE Cleanup \/ CleanupDone
  BY <1>4, CleanupPromise
<1>5. CASE \E p \in Paths : Upload(p)
  BY <1>5, UploadPromise
<1>6. CASE \/ Find \/ Check \/ Begin \/ Reconcile \/ Load \/ IoFails
           \/ PurgeRecents \/ \E part \in Parts : PurgePart(part)
  <2>1. UNCHANGED <<file, hidden, slot>>
    BY <1>6 DEF Find, Check, Begin, Reconcile, Load, IoFails, PurgeRecents, PurgePart,
       domainVars
  <2>2. pc' \notin {"close", "unwrite"}
    BY <1>6, ReturnLabel DEF Find, Check, Begin, Reconcile, Load, IoFails,
       PurgeRecents, PurgePart, Done, Fails, Advance, Goto
  <2>3. QED
    BY <2>1, <2>2, QuietStep DEF Arming
<1>7. CASE \/ Resume \/ AskFence \/ ShowRecents \/ Sleep \/ PowerLoss \/ Boot
           \/ \E p \in Paths : StartDelete(p) \/ OpenBook(p)
  <2>1. UNCHANGED <<file, hidden, slot>>
    BY <1>7 DEF Resume, AskFence, ShowRecents, Sleep, PowerLoss, Boot, StartDelete,
       OpenBook, domainVars
  <2>2. pc' \notin {"close", "unwrite"}
    BY <1>7 DEF Resume, AskFence, ShowRecents, Sleep, PowerLoss, Boot, StartDelete,
       OpenBook
  <2>3. QED
    BY <2>1, <2>2, QuietStep DEF Arming
<1>8. QED
  BY <1>1, <1>2, <1>3, <1>4, <1>5, <1>6, <1>7 DEF Next, Working, User

(***************************************************************************)
(* The interrupted deletion implements the safety of the atomic one: it is *)
(* decided once and for all when its first record has been read back or    *)
(* has survived the loss of power, one at a time, and from then on the     *)
(* book is hidden and removed in this order and by nothing else.           *)
(***************************************************************************)
THEOREM DeletionIsAtomic == Spec => Promise!Safe
<1>1. Init => Promise!Init
  <2> SUFFICES ASSUME Init PROVE Statuses \in [Paths -> {"kept", "gone"}]
    BY DEF Promise!Init, Statuses, Status, Hides
  <2>1. Selected = NoSelection
    BY SlotFacts DEF Init, Selected, Select, Slots
  <2>2. \A p \in Paths : ~Hides(p)
    <3>1. hidden \in [Paths -> {"none", "stray"}]
      BY DEF Init
    <3>2. QED
      BY <3>1 DEF Hides
  <2>3. \A p \in Paths : ~Doomed(p)
    BY <2>1, NoneSelected DEF Doomed
  <2>4. \A p \in Paths : Status(p) \in {"kept", "gone"}
    BY <2>2, <2>3 DEF Status
  <2>5. QED
    BY <2>4 DEF Statuses
<1>2. Inv /\ Atomic /\ Atomic' /\ [Next]_vars => [Promise!Next]_Statuses
  BY PromiseStep
<1>3. QED
  BY <1>1, <1>2, AtomicInvariance, Invariance, PTL DEF Spec, Promise!Safe, Statuses, Status, Hides

-----------------------------------------------------------------------------
(***************************************************************************)
(* The budget of recover.  A step is counted before the phase it leads to  *)
(* is recorded, so their number stays below that of the newest record.     *)
(***************************************************************************)
LoadOK ==
  pc = "load" =>
    /\ Selected.slot # NoSlot /\ ~IsCorrupt
    /\ steps < Selected.rec.phase

StepsOK ==
  /\ pc \in {"idle", "off", "find", "check", "begin", "reconcile"} => steps = 0
  /\ pc = "operate" => steps <= sel.rec.phase
  /\ pc \in Writers => steps < out.rec.phase

ReturnSteps == pc' \in {"idle", "check"} /\ steps' = 0

LEMMA ReturnsAnew ==
  ASSUME NEW res, Return(res) \/ Publish(res)
  PROVE  ReturnSteps
BY DEF Return, Publish, ReturnSteps

LEMMA AnewOK == ReturnSteps => LoadOK' /\ StepsOK'
BY DEF ReturnSteps, LoadOK, StepsOK, Writers

(* A step of a call leaves the records of the card to the next one.        *)
LEMMA StepBudget ==
  ASSUME Inv, LoadOK, StepsOK, Load \/ Operation
  PROVE  LoadOK' /\ StepsOK'
<1>1. CASE ReturnSteps
  BY <1>1, AnewOK
<1>2. CASE Load /\ ~ReturnSteps
  <2>1. /\ pc = "load" /\ slot' = slot /\ sel' = Selected /\ steps' = steps + 1
        /\ pc' \in {"cleanup", "operate"}
    BY <1>2, ReturnsAnew DEF Load, Goto
  <2>2. Selected.slot # NoSlot /\ steps < Selected.rec.phase /\ steps \in Nat
    BY <2>1 DEF LoadOK, Inv, CallOK, CallTypes
  <2>3. Selected.rec.phase \in Nat
    BY <2>2, SelectedRecord, PhaseFacts DEF Records
  <2>4. steps' <= sel'.rec.phase
    BY <2>1, <2>2, <2>3
  <2>5. QED
    BY <2>1, <2>4 DEF LoadOK, StepsOK, Writers
<1>3. CASE Operation /\ ~ReturnSteps
  <2>1. pc = "operate" /\ Advance
    BY <1>3, ReturnsAnew DEF Operation, HideSource, PurgePart, PurgeRecents,
       RemoveHiddenSource, Done, Fails, Operating
  <2>2. /\ pc' = "truncate" /\ steps' = steps /\ out'.rec.phase = sel.rec.phase + 1
    BY <2>1 DEF Advance, Goto, NextPhase, Record
  <2>3. steps <= sel.rec.phase /\ steps \in Nat /\ sel.rec.phase \in Nat
    BY <2>1, Operand DEF StepsOK, Inv, CallOK, CallTypes
  <2>4. steps' < out'.rec.phase
    BY <2>2, <2>3
  <2>5. QED
    BY <2>2, <2>4 DEF LoadOK, StepsOK, Writers
<1>4. QED
  BY <1>1, <1>2, <1>3

(* Two records on the card never have one sequence number.                 *)
LEMMA WrittenIsWhole ==
  ASSUME Inv, Atomic, pc = "close"
  PROVE  Selected = out /\ out.slot # NoSlot /\ ~IsCorrupt
<1>1. pc \in Writers
  BY DEF Writers
<1>2. CASE First
  <2>1. Selected = out /\ out.slot # NoSlot
    BY <1>1, <1>2, FirstFacts DEF First, SelectedAs
  <2>2. slot[out.slot] = out.rec /\ out.slot = "A" /\ IsRecord(out.rec)
    BY <1>1, <1>2, <2>1, SelectedRecord, FirstFacts, SlotFacts DEF First
  <2>3. QED
    BY <1>2, <2>1, <2>2 DEF First, IsCorrupt, Corrupt
<1>3. CASE Following
  <2>1. Selected = out /\ out.slot # NoSlot
    BY <1>1, <1>3, FollowingFacts DEF Following, SelectedAs
  <2>2. /\ slot[out.slot] = out.rec /\ IsRecord(out.rec) /\ slot[sel.slot] = sel.rec
        /\ out.slot \in Slots /\ sel.slot \in Slots /\ out.slot # sel.slot
        /\ out.rec.seq > sel.rec.seq /\ out.rec.seq \in Nat /\ sel.rec.seq \in Nat
    BY <1>1, <1>3, <2>1, SelectedRecord, FollowingFacts, SlotFacts DEF Records
  <2>3. out.rec.seq # sel.rec.seq
    BY <2>2
  <2>4. QED
    BY <2>1, <2>2, <2>3 DEF IsCorrupt, Corrupt, Slots
<1>4. QED
  BY <1>1, <1>2, <1>3 DEF Atomic, WritingOK

LEMMA NextBudget ==
  ASSUME Inv, Atomic, LoadOK, StepsOK, [Next]_vars
  PROVE  LoadOK' /\ StepsOK'
<1>1. CASE ReturnSteps
  BY <1>1, AnewOK
<1>2. CASE Load \/ Operation
  BY <1>2, StepBudget
<1>3. CASE (Find \/ Reconcile) /\ ~ReturnSteps
  <2>1. pc \in {"find", "reconcile"} /\ UNCHANGED <<slot, steps>> /\ steps = 0
    BY <1>3, ReturnsAnew DEF Find, Reconcile, callVars, StepsOK
  <2>2. pc' = "check" \/ (pc' = "load" /\ ~IsCorrupt /\ Selected # NoSelection)
    BY <1>3, ReturnsAnew DEF Find, Reconcile, Goto, NoSelection, NoSlot
  <2>3. Selected # NoSelection => Selected.slot # NoSlot /\ Selected.rec.phase > 0
    <3>1. Selected # NoSelection => Selected \in [slot : Slots, rec : Records]
      BY SelectedIsOnDisk DEF Inv, DomainOK
    <3>2. \A r \in Records : r.phase > 0
      BY PhaseFacts DEF Records
    <3>3. QED
      BY <3>1, <3>2, SlotFacts
  <2>4. Selected' = Selected /\ IsCorrupt' = IsCorrupt
    BY <2>1 DEF Selected, IsCorrupt
  <2>5. QED
    BY <2>1, <2>2, <2>3, <2>4 DEF LoadOK, StepsOK, Writers
<1>4. CASE (Check \/ Begin) /\ ~ReturnSteps
  <2>1. steps' = steps /\ steps = 0
    BY <1>4, ReturnsAnew DEF Check, Begin, callVars, StepsOK
  <2>2. pc' = "begin" \/ (pc' = "truncate" /\ out'.rec.phase = 1)
    BY <1>4, ReturnsAnew, PhaseFacts DEF Check, Begin, Goto, Record
  <2>3. QED
    BY <2>1, <2>2 DEF LoadOK, StepsOK, Writers
<1>5. CASE (Truncate \/ Write \/ Close \/ Unwrite) /\ ~ReturnSteps
  <2>1. pc \in Writers /\ UNCHANGED <<steps, out>> /\ steps < out.rec.phase
    BY <1>5, WriterStep, ReturnsAnew
       DEF Truncate, Write, Close, Unwrite, WriteFails, callVars, StepsOK
  <2>2. CASE pc' = "load"
    <3>1. pc = "close" /\ slot' = slot
      BY <1>5, <2>2, ReturnsAnew DEF Truncate, Write, Close, Unwrite, WriteFails, Goto
    <3>2. Selected' = Selected /\ IsCorrupt' = IsCorrupt
      BY <3>1 DEF Selected, IsCorrupt
    <3>3. QED
      BY <2>1, <2>2, <3>1, <3>2, WrittenIsWhole DEF LoadOK, StepsOK, Writers
  <2>3. CASE pc' = "reconcile"
    <3>1. out.rec.phase = 1 /\ steps \in Nat
      BY <1>5, <2>3, ReturnsAnew, PhaseFacts
         DEF Truncate, Write, Close, Unwrite, WriteFails, Goto, Inv, CallOK, CallTypes
    <3>2. steps' = 0
      BY <2>1, <3>1
    <3>3. QED
      BY <2>3, <3>2 DEF LoadOK, StepsOK, Writers
  <2>4. CASE pc' \in Writers
    BY <2>1, <2>4 DEF LoadOK, StepsOK, Writers
  <2>5. QED
    BY <1>5, <2>2, <2>3, <2>4, ReturnsAnew
       DEF Truncate, Write, Close, Unwrite, WriteFails, Goto, Writers
<1>6. CASE Cleanup
  BY <1>6 DEF Cleanup, Goto, LoadOK, StepsOK, Writers
<1>7. CASE CleanupDone \/ IoFails
  BY <1>1, <1>7, ReturnsAnew DEF CleanupDone, IoFails
<1>8. CASE User \/ Sleep \/ PowerLoss \/ Boot
  <2>1. steps' = 0 /\ pc' \in {"idle", "off", "find"}
    BY <1>8 DEF User, Sleep, PowerLoss, Boot, StartDelete, Upload, OpenBook, Resume,
       AskFence, ShowRecents, callVars, StepsOK
  <2>2. QED
    BY <2>1 DEF LoadOK, StepsOK, Writers
<1>9. CASE UNCHANGED vars
  BY <1>9 DEF vars, callVars, LoadOK, StepsOK, Selected, IsCorrupt
<1>10. QED
  BY <1>1, <1>2, <1>3, <1>4, <1>5, <1>6, <1>7, <1>8, <1>9 DEF Next, Working, Operation

(***************************************************************************)
(* kMaxRecoverySteps is exactly enough: Coordinator::recover never runs    *)
(* out of steps, and between its steps it never finds the journal corrupt  *)
(* or empty.  Only the card, the power or a conflict ends it early.        *)
(***************************************************************************)
THEOREM BudgetIsEnough ==
  Spec => [](pc = "load" =>
               steps < MaxRecoverySteps /\ ~IsCorrupt /\ Selected # NoSelection)
<1>1. Init => LoadOK /\ StepsOK
  BY DEF Init, LoadOK, StepsOK, Writers
<1>2. Inv /\ Atomic /\ LoadOK /\ StepsOK /\ [Next]_vars => LoadOK' /\ StepsOK'
  BY NextBudget
<1>3. Inv /\ LoadOK =>
        (pc = "load" => steps < MaxRecoverySteps /\ ~IsCorrupt /\ Selected # NoSelection)
  <2> SUFFICES ASSUME Inv, LoadOK, pc = "load"
               PROVE  steps < MaxRecoverySteps /\ ~IsCorrupt /\ Selected # NoSelection
    OBVIOUS
  <2>1. Selected.slot # NoSlot /\ ~IsCorrupt /\ steps < Selected.rec.phase /\ steps \in Nat
    BY DEF LoadOK, Inv, CallOK, CallTypes
  <2>2. Selected.rec.phase \in 1..7
    BY <2>1, SelectedRecord, PhaseFacts DEF Records
  <2>3. QED
    BY <2>1, <2>2, PhaseFacts, NoneSelected
<1>4. QED
  BY <1>1, <1>2, <1>3, AtomicInvariance, Invariance, PTL DEF Spec

-----------------------------------------------------------------------------
(***************************************************************************)
(* What those see who load the journal (AtomicJournal): moves ask it       *)
(* before they begin, and BookMutation models it as no more than this.     *)
(***************************************************************************)
Beginning == pc \in Writers /\ out.rec.phase = Prepared

JournalState ==
  IF Beginning THEN [load |-> "arming", of |-> out.rec.source]
  ELSE IF IsCorrupt THEN [load |-> "corrupt", of |-> NoPath]
  ELSE IF Selected = NoSelection THEN [load |-> "empty", of |-> NoPath]
  ELSE [load |-> "pending", of |-> Selected.rec.source]

Journal == INSTANCE AtomicJournal WITH
  Mutations <- Paths, NoMutation <- NoPath, journal <- JournalState

(* A call works on a journal it could read.                                *)
Readable ==
  pc \in {"operate", "cleanup", "cleanup2"} \cup Writers => Beginning \/ ~IsCorrupt

LEMMA BeginningIsFirst ==
  ASSUME Inv, Atomic
  PROVE  /\ Beginning => First
         /\ pc \in Writers /\ ~Beginning => Following
<1>1. pc \in Writers /\ Following => out.rec.phase # 1
  BY FollowingFacts
<1>2. QED
  BY <1>1, PhaseFacts DEF Atomic, WritingOK, Beginning, First

(* No write after the first record makes the journal unreadable.           *)
LEMMA FollowingReadable ==
  ASSUME Inv, Atomic, Readable, pc \in Writers, Following,
         \/ slot' = slot
         \/ \E v \in {Absent, Torn, out.rec} : slot' = [slot EXCEPT ![out.slot] = v]
  PROVE  ~IsCorrupt' /\ Selected' \in {sel, out}
<1>1. ~IsCorrupt /\ Selected \in {sel, out}
  BY FollowingFacts, PhaseFacts DEF Readable, Beginning, Following, SelectedAs, Writers
<1>2. CASE slot' = slot
  BY <1>1, <1>2 DEF IsCorrupt, Selected
<1>3. ASSUME NEW v \in {Absent, Torn, out.rec}, slot' = [slot EXCEPT ![out.slot] = v]
      PROVE  ~IsCorrupt' /\ Selected' \in {sel, out}
  <2>1. Selected' \in {sel, out} /\ slot'[sel.slot] = sel.rec
    BY <1>3, FollowingSelected
  <2>2. slot'[out.slot] = v
    BY <1>3, FollowingFacts DEF Inv, DomainOK, DomainTypes
  <2>3. /\ IsRecord(sel.rec) /\ sel.slot \in Slots /\ out.slot \in Slots
        /\ out.slot # sel.slot /\ sel.rec.seq # out.rec.seq
    <3>1. sel.rec \in Records /\ out.rec \in Records /\ out.rec.seq > sel.rec.seq
          /\ sel.slot \in Slots /\ out.slot \in Slots /\ out.slot # sel.slot
      BY FollowingFacts
    <3>2. sel.rec.seq \in Nat /\ out.rec.seq \in Nat
      BY <3>1 DEF Records
    <3>3. QED
      BY <3>1, <3>2, SlotFacts
  <2>4. IsRecord(v) => v = out.rec
    BY SlotFacts
  <2>5. QED
    BY <2>1, <2>2, <2>3, <2>4 DEF IsCorrupt, Corrupt, Slots
<1>4. QED
  BY <1>2, <1>3

(* Where a call goes that works on no record.                              *)
Elsewhere == pc' \notin {"operate", "cleanup", "cleanup2"} \cup Writers

LEMMA JournalKept ==
  ASSUME slot' = slot, ~Beginning, ~Beginning'
  PROVE  UNCHANGED JournalState
BY DEF JournalState, IsCorrupt, Selected

(***************************************************************************)
(* The steps, with what they keep readable.                                *)
(***************************************************************************)
LEMMA WriterJournal ==
  ASSUME Inv, Atomic, Readable, Truncate \/ Write \/ Close \/ Unwrite
  PROVE  Readable' /\ (Journal!Next \/ UNCHANGED JournalState)
<1>1. /\ pc \in Writers
      /\ \/ slot' = slot
         \/ \E v \in {Absent, Torn, out.rec} : slot' = [slot EXCEPT ![out.slot] = v]
      /\ \/ pc' \in {"idle", "check", "reconcile", "load"}
         \/ pc' \in Writers /\ out' = out
  BY WriterStep
<1>2. CASE Beginning
  <2>1. First /\ out.rec.source \in Paths
    BY <1>1, <1>2, BeginningIsFirst, FirstFacts
  <2>2. JournalState = [load |-> "arming", of |-> out.rec.source]
    BY <1>2 DEF JournalState
  <2>3. CASE pc' \in Writers /\ out' = out
    <3>1. Beginning'
      BY <1>2, <2>3 DEF Beginning
    <3>2. QED
      BY <2>2, <2>3, <3>1 DEF JournalState, Readable
  <2>4. CASE pc' \in {"idle", "check", "reconcile", "load"}
    <3>1. ~Beginning' /\ Readable'
      BY <2>4 DEF Beginning, Readable, Writers
    <3>2. Selected' \in {NoSelection, out}
      <4>1. CASE slot' = slot
        BY <1>1, <2>1, <4>1 DEF First, SelectedAs, Selected, Writers
      <4>2. ASSUME NEW v \in {Absent, Torn, out.rec},
                   slot' = [slot EXCEPT ![out.slot] = v]
            PROVE  Selected' \in {NoSelection, out}
        BY <1>1, <2>1, <4>2, FirstSelected
      <4>3. QED
        BY <1>1, <4>1, <4>2
    <3>3. JournalState' \in {[load |-> "empty", of |-> NoPath],
                             [load |-> "corrupt", of |-> NoPath],
                             [load |-> "pending", of |-> out.rec.source]}
      BY <3>1, <3>2 DEF JournalState
    <3>4. Journal!Settle(out.rec.source)
      BY <2>2, <3>3 DEF Journal!Settle, Journal!Empty, Journal!Corrupt, Journal!Loaded
    <3>5. QED
      BY <2>1, <3>1, <3>4 DEF Journal!Next
  <2>5. QED
    BY <1>1, <2>3, <2>4
<1>3. CASE ~Beginning
  <2>1. Following
    BY <1>1, <1>3, BeginningIsFirst
  <2>2. ~IsCorrupt' /\ Selected' \in {sel, out}
    BY <1>1, <2>1, FollowingReadable
  <2>3. ~Beginning'
    BY <1>1, <1>3 DEF Beginning, Writers
  <2>4. /\ ~IsCorrupt /\ Selected \in {sel, out}
        /\ sel # NoSelection /\ out # NoSelection /\ out.rec.source = sel.rec.source
    BY <1>1, <1>3, <2>1, FollowingFacts, SlotFacts
       DEF Readable, Following, SelectedAs, Writers
  <2>5. QED
    BY <1>3, <2>2, <2>3, <2>4 DEF JournalState, Readable
<1>4. QED
  BY <1>2, <1>3

LEMMA CleanupJournal ==
  ASSUME Inv, Atomic, Atomic', Readable, Cleanup \/ CleanupDone
  PROVE  Readable' /\ (Journal!Next \/ UNCHANGED JournalState)
<1>1. /\ pc \in {"cleanup", "cleanup2"} /\ Selected = sel /\ sel.slot # NoSlot
  BY DEF Cleanup, CleanupDone, Atomic, CleaningOK
<1>2. /\ ~Beginning /\ ~IsCorrupt /\ sel # NoSelection
      /\ sel.slot \in Slots /\ sel.rec \in Records /\ slot[sel.slot] = sel.rec
      /\ sel.rec.source \in Paths
  BY <1>1, SelectedRecord, NoneSelected DEF Readable, Beginning, Writers
<1>3. JournalState = [load |-> "pending", of |-> sel.rec.source]
  BY <1>1, <1>2 DEF JournalState
<1>4. CASE Cleanup
  <2>1. /\ pc' = "cleanup2" /\ sel' = sel
        /\ slot' = [slot EXCEPT ![Opposite(sel.slot)] = Absent]
    BY <1>4 DEF Cleanup, Goto, callVars, FirstRemoved
  <2>2. slot'[sel.slot] = sel.rec /\ slot'[Opposite(sel.slot)] = Absent
    BY <1>2, <2>1, SlotFacts DEF Inv, DomainOK, DomainTypes
  <2>3. ~IsCorrupt'
    BY <1>2, <2>2, SlotFacts DEF IsCorrupt, Corrupt, Slots, Opposite
  <2>4. Selected' = sel /\ ~Beginning'
    BY <2>1 DEF Atomic, CleaningOK, Beginning, Writers
  <2>5. QED
    BY <1>2, <1>3, <2>3, <2>4 DEF JournalState, Readable
<1>5. CASE CleanupDone
  <2>1. /\ slot' = [slot EXCEPT ![sel.slot] = Absent] /\ slot[Opposite(sel.slot)] = Absent
        /\ pc' \in {"idle", "check"}
    BY <1>2, <1>5, SlotFacts, ReturnLabel
       DEF CleanupDone, FirstRemoved, Inv, CallOK, SelOK
  <2>2. slot'["A"] = Absent /\ slot'["B"] = Absent
    BY <1>2, <2>1, SlotFacts DEF Inv, DomainOK, DomainTypes, Slots, Opposite
  <2>3. ~IsCorrupt' /\ Selected' = NoSelection
    BY <2>2, SlotFacts DEF IsCorrupt, Corrupt, Selected, Select
  <2>4. ~Beginning' /\ Readable'
    BY <2>1 DEF Beginning, Readable, Writers
  <2>5. Journal!Finish(sel.rec.source)
    BY <1>3, <2>3, <2>4 DEF JournalState, Journal!Finish, Journal!Empty, Journal!Loaded
  <2>6. QED
    BY <1>2, <2>4, <2>5 DEF Journal!Next
<1>6. QED
  BY <1>4, <1>5

LEMMA BeginJournal ==
  ASSUME Inv, Atomic, Begin
  PROVE  Readable' /\ (Journal!Next \/ UNCHANGED JournalState)
<1>1. pc = "begin" /\ JournalEmpty /\ slot' = slot /\ job.path \in Paths
  BY DEF Begin, Inv, CallOK, JobOK, CallTypes
<1>2. ~IsCorrupt /\ Selected = NoSelection
  BY <1>1, SelectedIsOnDisk DEF Inv, DomainOK
<1>3. /\ pc' = "truncate" /\ out'.rec.phase = Prepared /\ out'.rec.source = job.path
  BY <1>2 DEF Begin, Goto, Record
<1>4. Beginning' /\ ~Beginning
  BY <1>1, <1>3 DEF Beginning, Writers
<1>5. Journal!Begin(job.path)
  BY <1>2, <1>3, <1>4 DEF JournalState, Journal!Begin, Journal!Empty, Journal!Loaded
<1>6. QED
  BY <1>1, <1>4, <1>5 DEF Readable, Journal!Next

(* Loss of power settles what was being begun.                             *)
LEMMA PowerLossJournal ==
  ASSUME Inv, Atomic, PowerLoss
  PROVE  Readable' /\ (Journal!Next \/ UNCHANGED JournalState)
<1>1. slot' = slot /\ ~Beginning' /\ Readable'
  BY DEF PowerLoss, Beginning, Readable, Writers
<1>2. CASE ~Beginning
  BY <1>1, <1>2, JournalKept
<1>3. CASE Beginning
  <2>1. First /\ pc \in Writers
    BY <1>3, BeginningIsFirst DEF Beginning
  <2>2. Selected' \in {NoSelection, out} /\ out.rec.source \in Paths
    BY <1>1, <2>1, FirstFacts DEF First, SelectedAs, Selected, Writers
  <2>3. JournalState' \in {[load |-> "empty", of |-> NoPath],
                           [load |-> "corrupt", of |-> NoPath],
                           [load |-> "pending", of |-> out.rec.source]}
    BY <1>1, <2>2 DEF JournalState
  <2>4. Journal!Settle(out.rec.source)
    BY <1>3, <2>3 DEF JournalState, Journal!Settle, Journal!Empty, Journal!Corrupt,
       Journal!Loaded
  <2>5. QED
    BY <1>1, <2>2, <2>4 DEF Journal!Next
<1>4. QED
  BY <1>2, <1>3

LEMMA OthersJournal ==
  ASSUME Inv, Atomic, Readable,
         \/ Find \/ Check \/ Reconcile \/ Load \/ IoFails \/ Operation
         \/ User \/ Sleep \/ Boot
  PROVE  Readable' /\ UNCHANGED JournalState
<1>1. slot' = slot /\ ~Beginning
  BY DEF Find, Check, Reconcile, Load, IoFails, Operation, HideSource, PurgePart,
     PurgeRecents, RemoveHiddenSource, Operating, User, Sleep, Boot, StartDelete,
     Upload, OpenBook, Resume, AskFence, ShowRecents, Beginning, Writers
<1>2. IsCorrupt' = IsCorrupt
  BY <1>1 DEF IsCorrupt
<1>3. CASE Elsewhere
  <2>1. ~Beginning' /\ Readable'
    BY <1>3 DEF Elsewhere, Beginning, Readable
  <2>2. QED
    BY <1>1, <2>1, JournalKept
<1>4. CASE Load /\ ~Elsewhere
  <2>1. ~IsCorrupt /\ pc' \notin Writers
    BY <1>4, ReturnLabel DEF Load, Elsewhere, Goto, Writers
  <2>2. QED
    BY <1>1, <1>2, <2>1, JournalKept DEF Readable, Beginning
<1>5. CASE Operation /\ ~Elsewhere
  <2>1. pc = "operate" /\ Advance
    BY <1>5, ReturnLabel DEF Operation, HideSource, PurgePart, PurgeRecents,
       RemoveHiddenSource, Done, Fails, Operating, Elsewhere, Writers
  <2>2. out'.rec.phase = sel.rec.phase + 1 /\ sel.rec.phase \in 1..6
    BY <2>1, Operand DEF Advance, NextPhase, Record
  <2>3. ~Beginning'
    BY <2>2, PhaseFacts DEF Beginning
  <2>4. Readable'
    BY <1>1, <1>2, <2>1 DEF Readable
  <2>5. QED
    BY <1>1, <2>3, <2>4, JournalKept
<1>6. CASE ~Elsewhere /\ ~Load /\ ~Operation
  <2>1. CASE Find \/ Check \/ Reconcile \/ IoFails
    BY <1>6, <2>1, ReturnLabel DEF Find, Check, Reconcile, IoFails, Goto, Elsewhere,
       Writers
  <2>2. CASE User \/ Sleep \/ Boot
    BY <1>6, <2>2 DEF User, Sleep, Boot, StartDelete, Upload, OpenBook, Resume,
       AskFence, ShowRecents, Elsewhere, Writers
  <2>3. QED
    BY <1>6, <2>1, <2>2
<1>7. QED
  BY <1>3, <1>4, <1>5, <1>6

LEMMA JournalStep ==
  ASSUME Inv, Atomic, Atomic', Readable, [Next]_vars
  PROVE  Readable' /\ (Journal!Next \/ UNCHANGED JournalState)
<1>1. CASE UNCHANGED vars
  BY <1>1 DEF vars, callVars, JournalState, Beginning, Readable, IsCorrupt, Selected
<1>2. CASE Next
  BY <1>2, WriterJournal, CleanupJournal, BeginJournal, PowerLossJournal, OthersJournal
     DEF Next, Working, Operation
<1>3. QED
  BY <1>1, <1>2

(***************************************************************************)
(* The journal of deletions is atomic to those who load it: whatever       *)
(* write, removal or loss of power interrupts a deletion, a durable record *)
(* stays readable and names the same path until the deletion is complete;  *)
(* only the beginning of one can leave the journal corrupt.                *)
(***************************************************************************)
THEOREM JournalIsAtomic == Spec => Journal!Spec
<1>1. Init => Journal!Init /\ Readable
  <2> SUFFICES ASSUME Init PROVE Journal!Init /\ Readable
    OBVIOUS
  <2>1. Selected = NoSelection /\ ~IsCorrupt /\ pc = "idle"
    BY SlotFacts DEF Init, Selected, Select, IsCorrupt, Corrupt, Slots
  <2>2. QED
    BY <2>1 DEF JournalState, Beginning, Readable, Writers, Journal!Init,
       Journal!Empty, Journal!Loaded
<1>2. Inv /\ Atomic /\ Atomic' /\ Readable /\ [Next]_vars =>
        Readable' /\ [Journal!Next]_JournalState
  BY JournalStep
<1>3. QED
  BY <1>1, <1>2, AtomicInvariance, Invariance, PTL DEF Spec, Journal!Spec

=============================================================================
