--------------------------- MODULE PdfResumeProofs ---------------------------
(***************************************************************************)
(* Proofs about what PdfPreparation can resume: that no step, no power     *)
(* loss and no I/O error costs the reader's version what its preparation   *)
(* has published.                                                          *)
(***************************************************************************)
EXTENDS PdfPreparationProofs

(***************************************************************************)
(* The pages a checkpoint promises survive a loss of power, unless their   *)
(* section file was removed.                                               *)
(***************************************************************************)
Safe(c) ==
  LET d == gen[c.gen]
  IN d.sealed >= c.page /\ (d.synced >= c.page \/ Len(d.sections) < c.page)

IsEarly(c) == IsRecord(c) /\ c.resume \in Early

(* Checkpoints lie in the slot of their sequence and name generations that *)
(* are on the card; of two that name one generation, the later promises    *)
(* more.                                                                   *)
CheckpointsOK ==
  /\ \A s \in Slots : IsRecord(ckpt[s]) => SlotOf(ckpt[s].seq) = s /\ gen[ckpt[s].gen].made
  /\ \A s \in Slots : IsEarly(ckpt[s]) => Safe(ckpt[s])
  /\ \A s, t \in Slots :
       IsRecord(ckpt[s]) /\ IsRecord(ckpt[t]) /\ ckpt[s].gen = ckpt[t].gen =>
         /\ ckpt[s].src = ckpt[t].src
         /\ IsEarly(ckpt[s]) /\ IsEarly(ckpt[t]) /\ ckpt[s].seq < ckpt[t].seq =>
              ckpt[s].page <= ckpt[t].page

Latest == Newest(ckpt, source)

Names(c) == IsRecord(c) /\ c.gen = build.generation

(* The checkpoints of the generation that is built are of its version, and *)
(* promise no more than what the build takes for granted.                  *)
NamesOK ==
  /\ build.generation # 0 =>
       /\ gen[build.generation].made
       /\ \A s \in Slots : Names(ckpt[s]) => ckpt[s].src = source
  /\ Names(build.cp) /\ IsEarly(build.cp) =>
       \A s \in Slots : Names(ckpt[s]) /\ IsEarly(ckpt[s]) => ckpt[s].page <= build.cp.page

(* While pages are emitted, what was promised lies behind the page.        *)
CoveredOK ==
  pc \in {"discover", "snapshot", "emit", "record", "seal"} \/ Commits(Early) =>
    \A s \in Slots : Names(ckpt[s]) /\ IsEarly(ckpt[s]) =>
      ckpt[s].page <= build.page /\ ckpt[s].page <= gen[build.generation].synced

(* What a build has restored.                                              *)
RestoredOK ==
  /\ pc = "idle" => build = NoBuild
  /\ pc = "load" => build.durable = "none"
  /\ pc \in {"restore", "select"} => build.cp = Latest
  /\ pc = "restore" => build.durable = "none"
  /\ pc = "select" =>
       /\ build.durable = build.resumed
       /\ build.resumed = "none" => ~EarlyHolds(build.cp) /\ ~LateHolds(build.cp)
       /\ build.resumed # "none" => IsRecord(build.cp)
       /\ build.resumed \in Early =>
            /\ EarlyHolds(build.cp) /\ build.cp.resume = build.resumed
            /\ build.page = build.cp.page /\ gen[build.generation].synced = build.page

Underway == pc \notin {"idle", "load", "restore", "select", "tidy", "sweep"}

(* A checkpoint is still to be written: not the one that is written when   *)
(* the build is cancelled after its product was published.                 *)
Ahead ==
  Underway /\ (Commits({"cancelled"}) /\ source \in Have => IsEarly(build.cp))

(* The next checkpoint goes to the slot opposite the latest, which is the  *)
(* one the build has last written or was resumed from.                     *)
AheadOK ==
  Ahead =>
    /\ build.sequence = Latest.seq + 1
    /\ build.durable # "none" => Names(Latest)
    /\ build.durable \in Early =>
         /\ Latest.resume = build.durable
         /\ pc # "cpWrite" => build.cp = Latest
         /\ ~Commits({"cancelled"}) => EarlyHolds(Latest)
         /\ pc = "cpWrite" /\ build.goal = "cancelled" =>
              build.cp = [Latest EXCEPT !.seq = build.sequence, !.phase = "cancelled"]

(* Before its first checkpoint nothing names the generation.               *)
UnnamedOK ==
  Ahead /\ build.durable = "none" =>
    /\ \A s \in Slots : ~Names(ckpt[s])
    /\ ~EarlyHolds(Latest) /\ ~LateHolds(Latest)

DurableOK ==
  /\ pc \in {"cpOpen", "cpWrite"} => build.goal # "none"
  /\ pc \in {"discover", "snapshot"} \/ Commits({"discovery"}) => build.durable = "none"
  /\ pc \in {"emit", "record", "seal"} \/ Commits({"page"}) => build.durable \in Early
  /\ pc \in {"finish", "outline", "manifest", "writeManifest", "verify", "tidy", "sweep"}
     \/ Commits({"complete"}) =>
       build.durable \in Early \/ build.resumed \in Late
  /\ build.resumed \in Late => build.durable # "none"
  /\ pc \in {"tidy", "sweep"} => ~IsEarly(build.cp)

(* What a page checkpoint waits for.                                       *)
SealedOK ==
  LET d == gen[build.generation] IN
  /\ pc = "record" /\ build.due => d.synced >= build.page + 1
  /\ pc = "seal" => d.synced >= build.page + 1 /\ d.recs >= build.page + 1
  /\ Commits({"page"}) =>
       d.synced >= build.page + 1 /\ d.recs >= build.page + 1 /\ d.sealed >= build.page + 1

WrittenOK ==
  pc = "cpWrite" =>
    /\ IsRecord(build.cp) /\ build.cp.seq = build.sequence
    /\ build.cp.gen = build.generation /\ build.cp.src = source
    /\ ~IsRecord(ckpt[SlotOf(build.sequence)])
    /\ build.cp.resume \in Early => Safe(build.cp)
    /\ build.goal = "discovery" => build.cp.resume = "discovery" /\ build.cp.page = 0
         /\ build.cp.phase = "pages"
    /\ build.goal = "page" => build.cp.resume = "page" /\ build.cp.page = build.page + 1
         /\ build.cp.phase = "pages"
    /\ build.goal = "complete" => build.cp.resume = "none"

(* What a late cancellation leaves for its checkpoint.                     *)
LeftBehind ==
  LET d == gen[build.generation] IN
  /\ d.outline /\ (build.durable = "sections" => d.control = build.sequence)

CancelledLateOK ==
  /\ pc \in {"resumeOutline", "resumeControl"} => build.durable = "sections"
  /\ pc \in {"resumeOutline", "resumeControl", "resumeLedger"} =>
       build.resumed \in Late \/ Latest.resume \in Early
  /\ build.emitReady => Commits({"cancelled"}) /\ build.durable = "sections"
  /\ pc = "resumeControl" => gen[build.generation].outline
  /\ pc = "resumeLedger" => build.durable \in Late /\ LeftBehind
  /\ pc \in {"resumeOutline", "resumeControl", "resumeLedger"} \/ Commits({"cancelled"}) =>
       cancelRequested
  /\ Commits({"cancelled"}) /\ build.durable \in Late /\ build.resumed \notin Late =>
       /\ LeftBehind /\ Stands(Pages)
       /\ gen[build.generation].ledger[SlotOf(build.sequence)] = build.sequence
       /\ build.ready /\ (build.emitReady <=> build.durable = "sections")
       /\ pc = "cpWrite" => build.cp.resume = build.durable /\ build.cp.phase = "cancelled"

(* The product is published before the build is called complete.           *)
PublishedOK ==
  /\ pc = "verify" => manifest[TargetSlot].gen = build.generation
  /\ pc \in {"tidy", "sweep"} \/ Commits({"complete"}) =>
       \E s \in Slots : /\ Matches(manifest[s], source)
                        /\ manifest[s].gen = build.generation
  /\ pc \in {"tidy", "sweep"} =>
       \A s \in Slots : IsRecord(ckpt[s]) => Names(ckpt[s])

Resumable ==
  /\ CheckpointsOK /\ NamesOK /\ CoveredOK /\ RestoredOK /\ AheadOK /\ UnnamedOK /\ DurableOK
  /\ SealedOK /\ WrittenOK /\ CancelledLateOK /\ PublishedOK

-----------------------------------------------------------------------------
LEMMA SlotOfFacts ==
  ASSUME NEW n \in Nat
  PROVE  /\ SlotOf(n) \in Slots /\ SlotOf(n + 1) \in Slots
         /\ SlotOf(n + 1) # SlotOf(n)
         /\ \A s \in Slots : s = SlotOf(n) \/ s = SlotOf(n + 1)
BY DEF SlotOf, Slots

LEMMA LatestFacts ==
  ASSUME TypeOK, CheckpointsOK
  PROVE  /\ Latest \in SlotContents
         /\ IsRecord(Latest) =>
              /\ Latest.src = source /\ Latest.gen \in Generations /\ gen[Latest.gen].made
              /\ ckpt[SlotOf(Latest.seq)] = Latest
         /\ ~IsRecord(Latest) => Latest = Absent
         /\ \A s \in Slots : Matches(ckpt[s], source) =>
              /\ IsRecord(Latest) /\ ckpt[s].seq <= Latest.seq
              /\ ckpt[s] # Latest => ckpt[s].seq < Latest.seq
<1>1. /\ ckpt["A"] \in SlotContents /\ ckpt["B"] \in SlotContents
      /\ "A" \in Slots /\ "B" \in Slots /\ \A s \in Slots : s = "A" \/ s = "B"
  BY DEF TypeOK, Slots
<1>2. \A s \in Slots : IsRecord(ckpt[s]) =>
        /\ SlotOf(ckpt[s].seq) = s /\ gen[ckpt[s].gen].made /\ ckpt[s].seq \in Nat
        /\ ckpt[s].gen \in Generations
  BY <1>1, SlotContentsFacts DEF CheckpointsOK
<1>3. ~IsRecord(Absent) /\ Absent \in SlotContents
  BY SlotContentsFacts
<1>4. Matches(ckpt["A"], source) /\ Matches(ckpt["B"], source) => ckpt["A"].seq # ckpt["B"].seq
  BY <1>1, <1>2 DEF Matches
<1>5. CASE Matches(ckpt["B"], source)
           /\ (~Matches(ckpt["A"], source) \/ ckpt["B"].seq > ckpt["A"].seq)
  <2>1. Latest = ckpt["B"]
    BY <1>5 DEF Latest, Newest, SequenceNewer
  <2>2. QED
    BY <1>1, <1>2, <1>5, <2>1 DEF Matches
<1>6. CASE Matches(ckpt["A"], source)
           /\ ~(Matches(ckpt["B"], source) /\ ckpt["B"].seq > ckpt["A"].seq)
  <2>1. Latest = ckpt["A"]
    BY <1>6 DEF Latest, Newest, SequenceNewer
  <2>2. QED
    BY <1>1, <1>2, <1>4, <1>6, <2>1 DEF Matches
<1>7. CASE ~Matches(ckpt["A"], source) /\ ~Matches(ckpt["B"], source)
  <2>1. Latest = Absent
    BY <1>7 DEF Latest, Newest
  <2>2. QED
    BY <1>1, <1>3, <1>7, <2>1
<1>8. QED
  BY <1>5, <1>6, <1>7

LEMMA SameLatest ==
  ASSUME UNCHANGED <<source, ckpt>>
  PROVE  Latest' = Latest
BY DEF Latest, Newest, Matches, IsRecord

(* Opening the slot opposite the latest checkpoint leaves it the latest.   *)
LEMMA OpenedLatest ==
  ASSUME TypeOK, CheckpointsOK, UNCHANGED source,
         ckpt' = [ckpt EXCEPT ![SlotOf(Latest.seq + 1)] = Torn]
  PROVE  Latest' = Latest
<1>1. Latest.seq \in Nat
  BY LatestFacts, SlotContentsFacts
<1>2. /\ SlotOf(Latest.seq) \in Slots /\ SlotOf(Latest.seq + 1) \in Slots
      /\ SlotOf(Latest.seq + 1) # SlotOf(Latest.seq)
      /\ \A s \in Slots : s = SlotOf(Latest.seq) \/ s = SlotOf(Latest.seq + 1)
  BY <1>1, SlotOfFacts
<1>3. /\ ckpt'[SlotOf(Latest.seq + 1)] = Torn
      /\ ckpt'[SlotOf(Latest.seq)] = ckpt[SlotOf(Latest.seq)]
  BY <1>2 DEF TypeOK
<1>4. ~Matches(Torn, source)
  BY SlotContentsFacts DEF Matches
<1>5. CASE IsRecord(Latest)
  <2>1. ckpt'[SlotOf(Latest.seq)] = Latest /\ Matches(Latest, source)
    BY <1>3, <1>5, LatestFacts DEF Matches
  <2>2. Newest(ckpt', source) = Latest
    BY <1>2, <1>3, <1>4, <2>1 DEF Newest, Slots
  <2>3. QED
    BY <2>2 DEF Latest
<1>6. CASE ~IsRecord(Latest)
  <2>1. Latest = Absent /\ ~Matches(ckpt[SlotOf(Latest.seq)], source)
    BY <1>2, <1>6, LatestFacts
  <2>2. Newest(ckpt', source) = Absent
    BY <1>2, <1>3, <1>4, <2>1 DEF Newest, Slots
  <2>3. QED
    BY <2>1, <2>2 DEF Latest
<1>7. QED
  BY <1>5, <1>6

(* The checkpoint of the next sequence is the latest once it is written.   *)
LEMMA WrittenLatest ==
  ASSUME TypeOK, CheckpointsOK, UNCHANGED source,
         NEW c \in SlotContents, Matches(c, source), c.seq = Latest.seq + 1,
         ckpt' = [ckpt EXCEPT ![SlotOf(c.seq)] = c]
  PROVE  Latest' = c
<1>1. Latest.seq \in Nat
  BY LatestFacts, SlotContentsFacts
<1>2. /\ SlotOf(Latest.seq) \in Slots /\ SlotOf(c.seq) \in Slots
      /\ SlotOf(c.seq) # SlotOf(Latest.seq)
      /\ \A s \in Slots : s = SlotOf(Latest.seq) \/ s = SlotOf(c.seq)
  BY <1>1, SlotOfFacts
<1>3. ckpt'[SlotOf(c.seq)] = c /\ ckpt'[SlotOf(Latest.seq)] = ckpt[SlotOf(Latest.seq)]
  BY <1>2 DEF TypeOK
<1>4. Matches(ckpt[SlotOf(Latest.seq)], source) => ckpt[SlotOf(Latest.seq)].seq < c.seq
  <2>1. ASSUME Matches(ckpt[SlotOf(Latest.seq)], source)
        PROVE  ckpt[SlotOf(Latest.seq)].seq <= Latest.seq
    BY <1>2, <2>1, LatestFacts
  <2>2. ckpt[SlotOf(Latest.seq)].seq \in Nat
    BY <1>2, SlotContentsFacts DEF TypeOK
  <2>3. QED
    BY <1>1, <2>1, <2>2
<1>5. c.seq \in Nat /\ ckpt[SlotOf(Latest.seq)].seq \in Nat
  BY <1>2, SlotContentsFacts DEF TypeOK
<1>6. Newest(ckpt', source) = c
  <2>1. CASE SlotOf(c.seq) = "A"
    <3>1. ckpt'["A"] = c /\ ckpt'["B"] = ckpt[SlotOf(Latest.seq)]
      BY <1>2, <1>3, <2>1 DEF Slots
    <3>2. QED
      BY <3>1, <1>4, <1>5 DEF Newest, SequenceNewer
  <2>2. CASE SlotOf(c.seq) = "B"
    <3>1. ckpt'["B"] = c /\ ckpt'["A"] = ckpt[SlotOf(Latest.seq)]
      BY <1>2, <1>3, <2>2 DEF Slots
    <3>2. QED
      BY <3>1, <1>4, <1>5 DEF Newest, SequenceNewer
  <2>3. QED
    BY <1>2, <2>1, <2>2 DEF Slots
<1>7. QED
  BY <1>6 DEF Latest

(* Checkpoints stay good while the generations they name stay and the      *)
(* pages they promise stay safe.                                           *)
LEMMA CheckpointsKept ==
  ASSUME CheckpointsOK, UNCHANGED ckpt,
         \A s \in Slots : IsRecord(ckpt[s]) => gen'[ckpt[s].gen].made,
         \A s \in Slots : IsEarly(ckpt[s]) => Safe(ckpt[s])'
  PROVE  CheckpointsOK'
BY DEF CheckpointsOK, IsEarly, IsRecord

(* Nothing is asked of a preparation that has ended.                       *)
LEMMA EndedResumable ==
  ASSUME pc' = "idle", build' = NoBuild
  PROVE  /\ NamesOK' /\ CoveredOK' /\ RestoredOK' /\ AheadOK' /\ UnnamedOK' /\ DurableOK'
         /\ SealedOK' /\ WrittenOK' /\ CancelledLateOK' /\ PublishedOK'
<1>1. \A G : ~Commits(G)'
  BY DEF Commits
<1>2. ~Underway' /\ ~Ahead'
  BY DEF Underway, Ahead
<1>3. build'.generation = 0 /\ build'.cp = Absent /\ build'.resumed = "none"
      /\ ~build'.emitReady
  BY DEF NoBuild
<1>4. NamesOK'
  BY <1>3, SlotContentsFacts DEF NamesOK, Names, IsEarly
<1>5. CoveredOK'
  BY <1>1 DEF CoveredOK
<1>6. RestoredOK'
  BY DEF RestoredOK
<1>7. AheadOK' /\ UnnamedOK'
  BY <1>2 DEF AheadOK, UnnamedOK
<1>8. DurableOK'
  BY <1>1, <1>3 DEF DurableOK, Late
<1>9. SealedOK' /\ WrittenOK' /\ PublishedOK'
  BY <1>1 DEF SealedOK, WrittenOK, PublishedOK
<1>10. CancelledLateOK'
  BY <1>1, <1>3 DEF CancelledLateOK
<1>11. QED
  BY <1>4, <1>5, <1>6, <1>7, <1>8, <1>9, <1>10

(* A step of the build that touches no checkpoint and no generation but    *)
(* its own, and there loses nothing that is promised.                      *)
LEMMA Carried ==
  ASSUME Inv, Resumable, Underway, ~Commits({"cancelled"}), pc # "cpWrite",
         Underway', pc' # "cpWrite",
         UNCHANGED <<source, ckpt>>,
         build'.cp = build.cp, build'.sequence = build.sequence,
         build'.generation = build.generation, build'.resumed = build.resumed,
         build'.durable = build.durable \/ (build.durable # "none" /\ build'.durable \in Late),
         \A g \in Generations : gen'[g].made = gen[g].made,
         \A g \in Generations : g # build.generation => gen'[g] = gen[g],
         \A s \in Slots : Names(ckpt[s]) /\ IsEarly(ckpt[s]) => Safe(ckpt[s])',
         Commits({"cancelled"})' \/ (Names(Latest) /\ EarlyHolds(Latest) => EarlyHolds(Latest)')
  PROVE  /\ CheckpointsOK' /\ NamesOK' /\ RestoredOK' /\ AheadOK' /\ UnnamedOK' /\ WrittenOK'
         /\ Latest' = Latest
<1> USE DEF Resumable
<1>1. Ahead /\ Latest' = Latest /\ TypeOK
  BY SameLatest DEF Ahead, Inv
<1>2. \A s \in Slots : IsRecord(ckpt[s]) => ckpt[s].gen \in Generations
  BY <1>1, SlotContentsFacts DEF TypeOK
<1>3. build.generation \in Generations
  BY DEF Inv, BuildOK, Underway
<1>4. CheckpointsOK'
  <2>1. \A s \in Slots : IsRecord(ckpt[s]) => gen'[ckpt[s].gen].made
    BY <1>2 DEF CheckpointsOK
  <2>2. ASSUME NEW s \in Slots, IsEarly(ckpt[s])
        PROVE  Safe(ckpt[s])'
    <3>1. CASE Names(ckpt[s])
      BY <2>2, <3>1
    <3>2. CASE ~Names(ckpt[s])
      <4>1. gen'[ckpt[s].gen] = gen[ckpt[s].gen]
        BY <1>2, <2>2, <3>2 DEF Names, IsEarly
      <4>2. QED
        BY <2>2, <4>1 DEF CheckpointsOK, Safe
    <3>3. QED
      BY <3>1, <3>2
  <2>3. QED
    BY <2>1, <2>2, CheckpointsKept
<1>5. NamesOK'
  BY <1>3 DEF NamesOK, Names, IsEarly, IsRecord
<1>6. RestoredOK'
  BY DEF RestoredOK, Underway
<1>7. WrittenOK'
  BY DEF WrittenOK
<1>8. AheadOK'
  <2>1. build'.durable # "none" <=> build.durable # "none"
    BY DEF Late
  <2>2. build'.durable \in Early => build'.durable = build.durable
    BY DEF Early, Late
  <2>3. build.sequence = Latest.seq + 1 /\ (build.durable # "none" => Names(Latest))
    BY <1>1 DEF AheadOK
  <2>4. build.durable \in Early =>
          Latest.resume = build.durable /\ build.cp = Latest /\ EarlyHolds(Latest)
    BY <1>1 DEF AheadOK
  <2>5. Names(Latest)' <=> Names(Latest)
    BY <1>1 DEF Names, IsRecord
  <2>6. build.durable \in Early => build.durable # "none"
    BY DEF Early
  <2>7. build'.durable \in Early /\ ~Commits({"cancelled"})' => EarlyHolds(Latest)'
    BY <2>2, <2>3, <2>4, <2>6
  <2>8. QED
    BY <1>1, <2>1, <2>2, <2>3, <2>4, <2>5, <2>7 DEF AheadOK
<1>9. UnnamedOK'
  <2> SUFFICES ASSUME build.durable = "none"
               PROVE  /\ \A s \in Slots : ~Names(ckpt[s])'
                      /\ ~EarlyHolds(Latest)' /\ ~LateHolds(Latest)'
    BY DEF UnnamedOK, Late
  <2>1. (\A s \in Slots : ~Names(ckpt[s])) /\ ~EarlyHolds(Latest) /\ ~LateHolds(Latest)
    BY <1>1 DEF UnnamedOK
  <2>2. CASE IsRecord(Latest)
    <3>1. Latest.gen \in Generations /\ Latest.gen # build.generation
      <4>1. /\ SlotOf(Latest.seq) \in Slots /\ ckpt[SlotOf(Latest.seq)] = Latest
            /\ Latest.gen \in Generations
        BY <1>1, <2>2, LatestFacts, ConstantFacts
      <4>2. QED
        BY <2>1, <2>2, <4>1 DEF Names
    <3>2. gen'[Latest.gen] = gen[Latest.gen]
      BY <3>1
    <3>3. QED
      BY <1>1, <2>1, <3>2 DEF EarlyHolds, LateHolds, Names, IsRecord
  <2>3. CASE ~IsRecord(Latest)
    <3>1. Latest.resume = "none"
      BY <1>1, <2>3, LatestFacts DEF Absent, Blank
    <3>2. QED
      BY <1>1, <2>1, <3>1 DEF EarlyHolds, LateHolds, Early, Late, Names, IsRecord
  <2>4. QED
    BY <2>2, <2>3
<1>10. QED
  BY <1>1, <1>4, <1>5, <1>6, <1>7, <1>8, <1>9

-----------------------------------------------------------------------------
(***************************************************************************)
(* The user, the power and failures.                                       *)
(***************************************************************************)
(* The removal of an open section file takes all of its pages or none.     *)
LEMMA AbortKeepsPages ==
  ASSUME Inv, AbortWriter
  PROVE  /\ \A g \in Generations : gen'[g].made = gen[g].made
         /\ \A g \in Generations : g # build.generation => gen'[g] = gen[g]
         /\ \A c \in SlotContents : IsEarly(c) /\ Safe(c) => Safe(c)'
         /\ ~build.writer => gen' = gen
<1> DEFINE h == build.generation
           d == gen[h]
           e == WithoutOpenSection(d)
           kept == SectionStart(source, Len(d.sections)) - 1
<1>1. TypeOK /\ gen' = [g \in Generations |-> IF g = h THEN e ELSE gen[g]]
  BY DEF AbortWriter, Inv
<1>2. \A c \in SlotContents : IsEarly(c) => c.gen \in Generations /\ c.page \in Nat
  <2>1. \A p \in 0..Pages : p \in Nat
    BY ConstantFacts
  <2>2. QED
    BY <2>1, SlotContentsFacts DEF IsEarly
<1>3. CASE build.writer /\ d.sections # <<>>
  <2>1. h \in Generations
    BY <1>3, WriterUnnamed DEF Inv
  <2>2. d.sections \in Seq(Sources \X (1..Pages)) /\ d.synced \in Nat
        /\ Len(d.sections) <= Pages /\ d \in GenerationContents
    BY <1>1, <2>1, GenerationTypes DEF Inv, GensOK, GenOK
  <2>3. Len(d.sections) \in 1..Pages
    BY <1>3, <2>2, ConstantFacts, EmptySeq
  <2>4. kept \in 0..(Len(d.sections) - 1)
    BY <1>1, <2>3, SectionStartFacts DEF TypeOK
  <2>5. Len(SubSeq(d.sections, 1, kept)) = kept
    <3> HIDE DEF kept, d
    <3>1. kept \in Nat /\ kept <= Len(d.sections)
      BY <2>3, <2>4
    <3>2. QED
      BY <2>2, <3>1, SubSeqProperties
  <2>6. e = [d EXCEPT !.sections = SubSeq(d.sections, 1, kept),
                      !.synced = IF d.synced < kept THEN d.synced ELSE kept]
    BY <1>3 DEF WithoutOpenSection
  <2>7. /\ e.made = d.made /\ e.sealed = d.sealed /\ Len(e.sections) = kept
        /\ e.synced = IF d.synced < kept THEN d.synced ELSE kept
    <3> HIDE DEF d, e, kept
    <3>1. QED
      BY <2>2, <2>5, <2>6 DEF GenerationContents
  <2> HIDE DEF e, kept
  <2>8. \A n \in Nat : d.synced >= n \/ Len(d.sections) < n =>
          e.synced >= n \/ Len(e.sections) < n
    BY <2>2, <2>3, <2>4, <2>7
  <2>9. ASSUME NEW c \in SlotContents, IsEarly(c), Safe(c)
        PROVE  Safe(c)'
    <3>1. c.gen = h => gen'[c.gen] = e
      BY <1>1, <2>1
    <3>2. c.gen # h => gen'[c.gen] = gen[c.gen]
      BY <1>1, <1>2, <2>9
    <3>3. QED
      BY <1>2, <2>7, <2>8, <2>9, <3>1, <3>2 DEF Safe
  <2>10. QED
    BY <1>1, <1>3, <2>7, <2>9
<1>4. CASE ~(build.writer /\ d.sections # <<>>)
  <2>1. gen' = gen
    BY <1>1, <1>4 DEF WithoutOpenSection, TypeOK
  <2>2. QED
    BY <1>2, <2>1 DEF Safe
<1>5. QED
  BY <1>3, <1>4

LEMMA CheckpointTypes ==
  ASSUME TypeOK, NEW s \in Slots
  PROVE  /\ ckpt[s] \in SlotContents
         /\ IsRecord(ckpt[s]) => ckpt[s].gen \in Generations /\ ckpt[s].seq \in Nat
BY SlotContentsFacts DEF TypeOK

LEMMA EndResumable ==
  ASSUME pc' = "idle", build' = NoBuild, CheckpointsOK'
  PROVE  Resumable'
BY EndedResumable DEF Resumable

(* An end that leaves the checkpoints, and the files in place but perhaps  *)
(* for the section file that was open.                                     *)
LEMMA ExitResumable ==
  ASSUME Inv, Resumable, AbortWriter \/ UNCHANGED gen, UNCHANGED ckpt,
         pc' = "idle", build' = NoBuild
  PROVE  Resumable'
<1>1. \A g \in Generations : gen'[g].made = gen[g].made
  BY AbortKeepsPages
<1>2. \A c \in SlotContents : IsEarly(c) /\ Safe(c) => Safe(c)'
  BY AbortKeepsPages DEF Safe
<1>3. CheckpointsOK'
  BY <1>1, <1>2, CheckpointTypes, CheckpointsKept DEF Inv, Resumable, CheckpointsOK
<1>4. QED
  BY <1>3, EndResumable

(* A failed checkpoint promises nothing.                                   *)
LEMMA FailResumable ==
  ASSUME Inv, Resumable, Fail
  PROVE  Resumable'
<1> DEFINE slot == SlotOf(build.sequence)
           failed == Checkpoint(build.sequence, source, build.generation,
                                "failed", "none", build.page)
<1>1. AbortWriter /\ pc' = "idle" /\ build' = NoBuild
  BY DEF Fail, End
<1>2. CASE UNCHANGED ckpt
  BY <1>1, <1>2, ExitResumable
<1>3. CASE ~UNCHANGED ckpt
  <2>1. PICK v \in {Torn, failed} : MayPublishFailure /\ ckpt' = [ckpt EXCEPT ![slot] = v]
    BY <1>3 DEF Fail
  <2>2. /\ build.generation # 0 /\ build.generation \in Generations
        /\ gen[build.generation].made /\ slot \in Slots /\ TypeOK
        /\ \A s \in Slots : Names(ckpt[s]) => ckpt[s].src = source
    BY <2>1, BuildTypes, ConstantFacts
       DEF MayPublishFailure, Resumable, NamesOK, Inv
  <2>3. \A s \in Slots : ckpt'[s] = IF s = slot THEN v ELSE ckpt[s]
    BY <2>1, <2>2 DEF TypeOK
  <2>4. /\ IsRecord(v) => /\ v.gen = build.generation /\ v.src = source
                          /\ SlotOf(v.seq) = slot
        /\ v.resume = "none"
    BY SlotContentsFacts DEF Checkpoint, Torn, Blank
  <2> HIDE DEF slot, failed
  <2>5. \A g \in Generations : gen'[g].made = gen[g].made
    BY <1>1, AbortKeepsPages
  <2>6. /\ \A s \in Slots : IsRecord(ckpt[s]) => SlotOf(ckpt[s].seq) = s
        /\ \A s \in Slots : IsRecord(ckpt[s]) => gen'[ckpt[s].gen].made
        /\ \A s \in Slots : IsEarly(ckpt[s]) => Safe(ckpt[s])
    BY <2>2, <2>5, CheckpointTypes DEF Resumable, CheckpointsOK
  <2>7. ~IsEarly(v)
    BY <2>4 DEF IsEarly, Early
  <2>8. \A s \in Slots : IsRecord(ckpt'[s]) =>
          SlotOf(ckpt'[s].seq) = s /\ gen'[ckpt'[s].gen].made
    BY <2>2, <2>3, <2>4, <2>5, <2>6
  <2>9. \A s \in Slots : IsEarly(ckpt'[s]) => Safe(ckpt[s])'
    <3>1. \A c \in SlotContents : IsEarly(c) /\ Safe(c) => Safe(c)'
      BY <1>1, AbortKeepsPages
    <3>2. ASSUME NEW s \in Slots, IsEarly(ckpt'[s])
          PROVE  Safe(ckpt[s])'
      <4>1. ckpt'[s] = ckpt[s] /\ s # slot
        BY <2>3, <2>7, <3>2
      <4>2. PICK c \in SlotContents : c = ckpt[s]
        BY <2>2, CheckpointTypes
      <4>3. Safe(c)'
        BY <2>6, <3>1, <3>2, <4>1, <4>2
      <4>4. QED
        BY <4>1, <4>2, <4>3 DEF Safe
    <3>3. QED
      BY <3>2
  <2>10. ASSUME NEW s \in Slots, NEW t \in Slots,
                IsRecord(ckpt'[s]), IsRecord(ckpt'[t]), ckpt'[s].gen = ckpt'[t].gen
         PROVE  /\ ckpt'[s].src = ckpt'[t].src
                /\ IsEarly(ckpt'[s]) /\ IsEarly(ckpt'[t]) /\ ckpt'[s].seq < ckpt'[t].seq =>
                     ckpt'[s].page <= ckpt'[t].page
    <3>1. CASE s = slot \/ t = slot
      <4>1. ~(IsEarly(ckpt'[s]) /\ IsEarly(ckpt'[t]))
        BY <2>3, <2>7, <3>1
      <4>2. ckpt'[s].src = source /\ ckpt'[t].src = source
        BY <2>2, <2>3, <2>4, <2>10, <3>1 DEF Names
      <4>3. QED
        BY <4>1, <4>2
    <3>2. CASE s # slot /\ t # slot
      BY <2>3, <2>10, <3>2 DEF Resumable, CheckpointsOK
    <3>3. QED
      BY <3>1, <3>2
  <2>11. CheckpointsOK'
    BY <2>8, <2>9, <2>10 DEF CheckpointsOK, IsEarly, IsRecord
  <2>12. QED
    BY <1>1, <2>11, EndResumable
<1>4. QED
  BY <1>2, <1>3

LEMMA PowerLossResumable ==
  ASSUME Inv, Resumable, PowerLoss
  PROVE  Resumable'
<1> DEFINE h == build.generation
           d == gen[h]
<1>1. pc' = "idle" /\ build' = NoBuild /\ UNCHANGED ckpt
  BY DEF PowerLoss, End
<1>2. CASE UNCHANGED gen
  BY <1>1, <1>2, ExitResumable
<1>3. CASE ~UNCHANGED gen
  <2>1. PICK n \in d.synced..Len(d.sections), k \in d.sealed..d.recs :
          /\ h # 0
          /\ gen' = [gen EXCEPT ![h].sections = SubSeq(@, 1, n), ![h].recs = k]
    BY <1>3 DEF PowerLoss
  <2>2. h \in Generations /\ TypeOK
    BY <2>1, BuildTypes DEF Inv
  <2>3. d \in GenerationContents /\ d.sections \in Seq(Sources \X (1..Pages))
        /\ d.synced \in Nat
    BY <2>2, GenerationTypes
  <2>4. n \in Nat /\ n <= Len(d.sections) /\ n >= d.synced
    BY <2>3
  <2>5. Len(SubSeq(d.sections, 1, n)) = n
    <3> HIDE DEF d
    <3>1. QED
      BY <2>3, <2>4, SubSeqProperties
  <2>6. /\ gen'[h].made = d.made /\ gen'[h].sections = SubSeq(d.sections, 1, n)
        /\ gen'[h].synced = d.synced /\ gen'[h].sealed = d.sealed
        /\ \A g \in Generations : g # h => gen'[g] = gen[g]
    BY <2>1, <2>2, <2>3 DEF TypeOK, GenerationContents
  <2>7. \A s \in Slots : IsRecord(ckpt[s]) => gen'[ckpt[s].gen].made
    BY <2>2, <2>6, CheckpointTypes DEF Resumable, CheckpointsOK
  <2>8. ASSUME NEW s \in Slots, IsEarly(ckpt[s])
        PROVE  Safe(ckpt[s])'
    <3>1. Safe(ckpt[s]) /\ ckpt[s].gen \in Generations /\ ckpt[s].page \in Nat
      BY <2>2, <2>8, CheckpointTypes, SlotContentsFacts, ConstantFacts
         DEF IsEarly, Resumable, CheckpointsOK
    <3>2. CASE ckpt[s].gen = h
      <4> HIDE DEF d
      <4>1. d.sealed >= ckpt[s].page
            /\ (d.synced >= ckpt[s].page \/ Len(d.sections) < ckpt[s].page)
        BY <3>1, <3>2 DEF Safe, d
      <4>2. gen'[h].synced >= ckpt[s].page \/ Len(gen'[h].sections) < ckpt[s].page
        BY <2>3, <2>4, <2>5, <2>6, <3>1, <4>1
      <4>3. QED
        BY <1>1, <2>6, <3>2, <4>1, <4>2 DEF Safe
    <3>3. CASE ckpt[s].gen # h
      BY <1>1, <2>6, <3>1, <3>3 DEF Safe
    <3>4. QED
      BY <3>2, <3>3
  <2>9. CheckpointsOK'
    BY <1>1, <2>7, <2>8, CheckpointsKept DEF Resumable
  <2>10. QED
    BY <1>1, <2>9, EndResumable
<1>4. QED
  BY <1>2, <1>3

LEMMA ReplaceResumable ==
  ASSUME Resumable, NEW s \in Sources, Replace(s)
  PROVE  Resumable'
<1>1. pc' = "idle" /\ build' = NoBuild /\ UNCHANGED <<ckpt, gen>>
  BY DEF Replace, ramVars, Resumable, RestoredOK
<1>2. CheckpointsOK'
  BY <1>1 DEF Resumable, CheckpointsOK, IsEarly, IsRecord, Safe
<1>3. QED
  BY <1>1, <1>2, EndResumable

LEMMA OpenResumable ==
  ASSUME Resumable, Open
  PROVE  Resumable'
<1>1. pc' = "load" /\ build' = NoBuild /\ UNCHANGED <<ckpt, gen, source>>
  BY DEF Open, cardVars
<1>2. CheckpointsOK'
  BY <1>1 DEF Resumable, CheckpointsOK, IsEarly, IsRecord, Safe
<1>3. /\ build'.generation = 0 /\ build'.cp = Absent /\ build'.resumed = "none"
      /\ ~build'.emitReady /\ build'.durable = "none" /\ ~IsRecord(Absent)
  BY <1>1, SlotContentsFacts DEF NoBuild
<1>4. \A G : ~Commits(G)'
  BY <1>1 DEF Commits
<1>5. ~Underway' /\ ~Ahead'
  BY <1>1 DEF Underway, Ahead
<1>6. NamesOK' /\ CoveredOK' /\ RestoredOK'
  BY <1>1, <1>3, <1>4 DEF NamesOK, Names, IsEarly, CoveredOK, RestoredOK
<1>7. AheadOK' /\ UnnamedOK' /\ DurableOK'
  BY <1>1, <1>3, <1>4, <1>5 DEF AheadOK, UnnamedOK, DurableOK, Late
<1>8. SealedOK' /\ WrittenOK' /\ CancelledLateOK' /\ PublishedOK'
  BY <1>1, <1>3, <1>4 DEF SealedOK, WrittenOK, CancelledLateOK, PublishedOK
<1>9. QED
  BY <1>2, <1>6, <1>7, <1>8 DEF Resumable

LEMMA RequestCancelResumable ==
  ASSUME Resumable, RequestCancel
  PROVE  Resumable'
<1>1. UNCHANGED <<source, ckpt, manifest, gen, pc, build>> /\ cancelRequested'
  BY DEF RequestCancel, cardVars
<1>2. /\ \A c : Names(c)' <=> Names(c)
      /\ \A c : (EarlyHolds(c)' <=> EarlyHolds(c)) /\ (LateHolds(c)' <=> LateHolds(c))
      /\ \A c : Safe(c)' <=> Safe(c)
      /\ \A G : Commits(G)' <=> Commits(G)
      /\ TargetSlot' = TargetSlot /\ Latest' = Latest /\ (Underway' <=> Underway)
      /\ (\A n : Stands(n)' <=> Stands(n)) /\ (LeftBehind' <=> LeftBehind)
  BY <1>1, SameLatest DEF Names, EarlyHolds, LateHolds, Safe, Commits, TargetSlot,
                          Underway, Stands, LeftBehind
<1>3. Ahead' <=> Ahead
  BY <1>1, <1>2 DEF Ahead, Have, Published
<1>4. CheckpointsOK' /\ NamesOK' /\ CoveredOK'
  BY <1>1, <1>2 DEF Resumable, CheckpointsOK, NamesOK, CoveredOK, Commits
<1>5. RestoredOK' /\ AheadOK' /\ UnnamedOK' /\ DurableOK'
  BY <1>1, <1>2, <1>3 DEF Resumable, RestoredOK, AheadOK, UnnamedOK, DurableOK, Commits
<1>6. SealedOK' /\ WrittenOK' /\ CancelledLateOK' /\ PublishedOK'
  BY <1>1, <1>2 DEF Resumable, SealedOK, WrittenOK, CancelledLateOK, PublishedOK, Commits
<1>7. QED
  BY <1>4, <1>5, <1>6 DEF Resumable

-----------------------------------------------------------------------------
(***************************************************************************)
(* The setup.                                                              *)
(***************************************************************************)
(* Outside of the build itself little is asked.                            *)
LEMMA SetupResumable ==
  ASSUME pc' \in {"restore", "select"}, CheckpointsOK', NamesOK', RestoredOK',
         ~build'.emitReady, build'.resumed \in Late => build'.durable # "none"
  PROVE  Resumable'
<1>1. \A G : ~Commits(G)'
  BY DEF Commits
<1>2. ~Underway' /\ ~Ahead'
  BY DEF Underway, Ahead
<1>3. CoveredOK' /\ AheadOK' /\ UnnamedOK' /\ DurableOK'
  BY <1>1, <1>2 DEF CoveredOK, AheadOK, UnnamedOK, DurableOK
<1>4. SealedOK' /\ WrittenOK' /\ CancelledLateOK' /\ PublishedOK'
  BY <1>1 DEF SealedOK, WrittenOK, CancelledLateOK, PublishedOK
<1>5. QED
  BY <1>3, <1>4 DEF Resumable

LEMMA NotEmitReady ==
  ASSUME Resumable, pc \notin {"cpOpen", "cpWrite"}
  PROVE  ~build.emitReady
BY DEF Resumable, CancelledLateOK, Commits

LEMMA LoadResumable ==
  ASSUME Inv, Resumable, Load
  PROVE  Resumable'
<1>1. /\ pc = "load" /\ pc' = "restore" /\ UNCHANGED <<source, ckpt, manifest, gen>>
      /\ build' = [build EXCEPT !.cp = Latest,
           !.slots = [s \in Slots |-> IF IsRecord(manifest[s]) THEN manifest[s] ELSE Absent]]
  BY DEF Load, At, Goto, cardVars, Latest
<1>2. /\ TypeOK /\ CheckpointsOK /\ build.generation = 0 /\ build.resumed = "none"
      /\ build.durable = "none" /\ ~build.emitReady
  BY <1>1, NotEmitReady DEF Inv, BuildOK, Resumable, RestoredOK
<1>3. /\ build'.cp = Latest /\ build'.generation = 0 /\ build'.resumed = "none"
      /\ build'.durable = "none" /\ ~build'.emitReady
  BY <1>1, <1>2 DEF TypeOK, Builds
<1>4. Latest' = Latest
  BY <1>1, SameLatest
<1>5. CheckpointsOK'
  BY <1>1, <1>2 DEF CheckpointsOK, IsEarly, IsRecord, Safe
<1>6. NamesOK'
  <2>1. ~(IsRecord(Latest) /\ Latest.gen = 0)
    BY <1>2, LatestFacts, ConstantFacts
  <2>2. QED
    BY <1>3, <2>1 DEF NamesOK, Names, IsRecord
<1>7. RestoredOK'
  BY <1>1, <1>3, <1>4 DEF RestoredOK
<1>8. QED
  BY <1>1, <1>3, <1>5, <1>6, <1>7, SetupResumable DEF Late

(* The generation of the latest checkpoint is of its version, and no early *)
(* checkpoint promises more pages of it.                                   *)
LEMMA LatestNames ==
  ASSUME TypeOK, CheckpointsOK, IsRecord(Latest), NEW s \in Slots,
         IsRecord(ckpt[s]), ckpt[s].gen = Latest.gen
  PROVE  /\ ckpt[s].src = source
         /\ IsEarly(ckpt[s]) /\ IsEarly(Latest) => ckpt[s].page <= Latest.page
<1>1. /\ SlotOf(Latest.seq) \in Slots /\ ckpt[SlotOf(Latest.seq)] = Latest
      /\ Latest.src = source /\ Latest.page \in 0..Pages
  BY LatestFacts, ConstantFacts, SlotContentsFacts
<1>2. ckpt[s].src = source
  BY <1>1 DEF CheckpointsOK
<1>3. ckpt[s] # Latest => ckpt[s].seq < Latest.seq
  BY <1>2, LatestFacts DEF Matches
<1>4. ckpt[s] = Latest => ckpt[s].page <= Latest.page
  BY <1>1, ConstantFacts
<1>5. IsEarly(ckpt[s]) /\ IsEarly(Latest) /\ ckpt[s].seq < Latest.seq =>
        ckpt[s].page <= Latest.page
  BY <1>1 DEF CheckpointsOK
<1>6. QED
  BY <1>2, <1>3, <1>4, <1>5

LEMMA RestoreEarlyResumable ==
  ASSUME Inv, Resumable, RestoreEarly
  PROVE  Resumable'
<1> DEFINE cp == build.cp
           h == cp.gen
           d == gen[h]
           n == cp.page
<1>1. /\ pc = "restore" /\ pc' = "select" /\ EarlyHolds(cp)
      /\ gen' = [gen EXCEPT ![h].sections = SubSeq(@, 1, n), ![h].synced = n]
      /\ build' = [build EXCEPT !.generation = h, !.page = n,
                                !.durable = cp.resume, !.resumed = cp.resume,
                                !.ready = TRUE]
      /\ UNCHANGED <<source, ckpt>>
  BY DEF RestoreEarly, At, Goto
<1>2. /\ TypeOK /\ CheckpointsOK /\ cp = Latest /\ ~build.emitReady /\ Latest' = Latest
  BY <1>1, NotEmitReady, SameLatest DEF Inv, Resumable, RestoredOK
<1>3. /\ cp \in SlotContents /\ cp.resume \in Early /\ IsRecord(cp) /\ h \in Generations
      /\ n \in Nat /\ d.made /\ cp.src = source
  BY <1>1, <1>2, LatestFacts, SlotContentsFacts, ConstantFacts DEF EarlyHolds, Early
<1>4. d \in GenerationContents /\ d.sections \in Seq(Sources \X (1..Pages))
      /\ Len(d.sections) >= n /\ SubSeq(d.sections, 1, n) = PagesOf(source, n)
      /\ d.head = source /\ d.recs >= n
  BY <1>1, <1>2, <1>3, GenerationTypes DEF EarlyHolds
<1>5. /\ gen'[h].made = d.made /\ gen'[h].sections = PagesOf(source, n)
      /\ gen'[h].synced = n /\ gen'[h].sealed = d.sealed
      /\ gen'[h].head = source /\ gen'[h].recs = d.recs
      /\ \A g \in Generations : g # h => gen'[g] = gen[g]
  BY <1>1, <1>2, <1>3, <1>4 DEF TypeOK, GenerationContents
<1>6. /\ build'.cp = cp /\ build'.generation = h /\ build'.resumed = cp.resume
      /\ build'.durable = cp.resume /\ ~build'.emitReady /\ build'.page = n
  BY <1>1, <1>2 DEF TypeOK, Builds
<1>7. \A s \in Slots : IsRecord(ckpt[s]) /\ ckpt[s].gen = h =>
        ckpt[s].src = source /\ (IsEarly(ckpt[s]) => ckpt[s].page <= n)
  <2>1. IsEarly(Latest) /\ IsRecord(Latest)
    BY <1>2, <1>3 DEF IsEarly
  <2>2. QED
    BY <1>2, <2>1, LatestNames
<1> HIDE DEF cp, h, d, n
<1>8. CheckpointsOK'
  <2>1. \A s \in Slots : IsRecord(ckpt[s]) => gen'[ckpt[s].gen].made
    BY <1>2, <1>3, <1>5, CheckpointTypes DEF CheckpointsOK
  <2>2. ASSUME NEW s \in Slots, IsEarly(ckpt[s])
        PROVE  Safe(ckpt[s])'
    <3>1. Safe(ckpt[s]) /\ ckpt[s].gen \in Generations /\ ckpt[s].page \in Nat
      BY <1>2, <2>2, CheckpointTypes, SlotContentsFacts, ConstantFacts
         DEF IsEarly, CheckpointsOK
    <3>2. CASE ckpt[s].gen = h
      <4>1. d.sealed >= ckpt[s].page /\ ckpt[s].page <= n
        BY <1>7, <2>2, <3>1, <3>2 DEF Safe, IsEarly, d
      <4>2. QED
        BY <1>1, <1>3, <1>5, <3>1, <3>2, <4>1 DEF Safe
    <3>3. CASE ckpt[s].gen # h
      BY <1>1, <1>5, <3>1, <3>3 DEF Safe
    <3>4. QED
      BY <3>2, <3>3
  <2>3. QED
    BY <1>1, <1>2, <2>1, <2>2, CheckpointsKept
<1>9. NamesOK'
  <2>1. gen'[build'.generation].made
    BY <1>3, <1>5, <1>6
  <2>2. \A s \in Slots : Names(ckpt[s])' => ckpt[s].src = source
    BY <1>1, <1>6, <1>7 DEF Names, IsRecord
  <2>3. \A s \in Slots : Names(ckpt[s])' /\ IsEarly(ckpt[s])' => ckpt[s].page <= n
    BY <1>1, <1>6, <1>7 DEF Names, IsRecord, IsEarly
  <2>4. QED
    BY <1>1, <1>6, <2>1, <2>2, <2>3 DEF NamesOK, n
<1>10. RestoredOK'
  <2>1. EarlyHolds(cp)'
    <3>1. SubSeq(PagesOf(source, n), 1, n) = PagesOf(source, n)
          /\ Len(PagesOf(source, n)) = n
      <4>1. PagesOf(source, n) \in Seq(Sources \X (1..Pages)) /\ Len(PagesOf(source, n)) = n
        BY <1>2, <1>3, PagesOfFacts, SlotContentsFacts DEF TypeOK, n
      <4>2. SubSeq(PagesOf(source, n), 1, n) = PagesOf(source, n)
        BY <1>3, <4>1
      <4>3. QED
        BY <4>1, <4>2
    <3>2. build'.cp.gen = h /\ build'.cp.page = n /\ build'.cp.src = source
          /\ build'.cp.resume \in Early /\ build'.cp.phase \in {"pages", "cancelled"}
      BY <1>1, <1>3, <1>6 DEF EarlyHolds, cp, h, n
    <3>3. gen'[h].made /\ gen'[h].recs >= n /\ Len(gen'[h].sections) >= n
      BY <1>3, <1>4, <1>5, <3>1
    <3>4. EarlyHolds(build.cp)'
      BY <1>5, <3>1, <3>2, <3>3 DEF EarlyHolds
    <3>5. QED
      BY <3>4 DEF cp
  <2>2. cp.resume \notin Late /\ cp.resume # "none"
    BY <1>3 DEF Early, Late
  <2>3. QED
    BY <1>1, <1>2, <1>3, <1>5, <1>6, <2>1, <2>2 DEF RestoredOK, cp, h, n
<1>11. QED
  BY <1>1, <1>3, <1>6, <1>8, <1>9, <1>10, SetupResumable DEF Early, Late

LEMMA RestoreLateResumable ==
  ASSUME Inv, Resumable, RestoreLate
  PROVE  Resumable'
<1> DEFINE cp == build.cp
           h == cp.gen
<1>1. /\ pc = "restore" /\ pc' = "select" /\ LateHolds(cp) /\ UNCHANGED <<source, ckpt, gen>>
      /\ build' = [build EXCEPT !.generation = h, !.page = Pages,
                                !.durable = cp.resume, !.resumed = cp.resume,
                                !.ready = TRUE]
  BY DEF RestoreLate, At, Goto, cardVars
<1>2. /\ TypeOK /\ CheckpointsOK /\ cp = Latest /\ ~build.emitReady /\ Latest' = Latest
  BY <1>1, NotEmitReady, SameLatest DEF Inv, Resumable, RestoredOK
<1>3. /\ cp.resume \in Late /\ IsRecord(cp) /\ h \in Generations /\ gen[h].made
  BY <1>1, <1>2, LatestFacts, SlotContentsFacts DEF LateHolds, Late
<1>4. /\ build'.cp = cp /\ build'.generation = h /\ build'.resumed = cp.resume
      /\ build'.durable = cp.resume /\ ~build'.emitReady
  BY <1>1, <1>2 DEF TypeOK, Builds
<1>5. \A s \in Slots : IsRecord(ckpt[s]) /\ ckpt[s].gen = h => ckpt[s].src = source
  BY <1>2, <1>3, LatestNames
<1> HIDE DEF cp, h
<1>6. CheckpointsOK'
  BY <1>1, <1>2 DEF CheckpointsOK, IsEarly, IsRecord, Safe
<1>7. ~IsEarly(cp) /\ cp.resume # "none" /\ cp.resume \notin Early
  BY <1>3 DEF IsEarly, Early, Late
<1>8. NamesOK'
  BY <1>1, <1>3, <1>4, <1>5, <1>7 DEF NamesOK, Names, IsRecord, IsEarly
<1>9. RestoredOK'
  BY <1>1, <1>2, <1>3, <1>4, <1>7 DEF RestoredOK, IsRecord
<1>10. QED
  BY <1>1, <1>4, <1>6, <1>7, <1>8, <1>9, SetupResumable

LEMMA RejectResumable ==
  ASSUME Inv, Resumable, Reject
  PROVE  Resumable'
<1>1. /\ pc = "restore" /\ pc' = "select" /\ UNCHANGED <<source, ckpt, gen, build>>
      /\ ~EarlyHolds(build.cp) /\ ~LateHolds(build.cp)
  BY DEF Reject, At, Goto, cardVars
<1>2. /\ TypeOK /\ CheckpointsOK /\ build.cp = Latest /\ ~build.emitReady /\ Latest' = Latest
      /\ build.durable = "none" /\ build.resumed = "none" /\ NamesOK
  BY <1>1, NotEmitReady, SameLatest DEF Inv, BuildOK, Resumable, RestoredOK
<1>3. CheckpointsOK'
  BY <1>1, <1>2 DEF CheckpointsOK, IsEarly, IsRecord, Safe
<1>4. NamesOK'
  BY <1>1, <1>2 DEF NamesOK, Names, IsRecord, IsEarly
<1>5. ~EarlyHolds(build.cp)' /\ ~LateHolds(build.cp)'
  BY <1>1 DEF EarlyHolds, LateHolds
<1>6. RestoredOK'
  BY <1>1, <1>2, <1>5 DEF RestoredOK, Early
<1>7. QED
  BY <1>1, <1>2, <1>3, <1>4, <1>6, SetupResumable DEF Late

(* A build continues the sequence of the checkpoints of its version.       *)
LEMMA NextSequenceFacts ==
  ASSUME Inv, Resumable, pc = "select"
  PROVE  NextSequence = Latest.seq + 1
<1>1. \A s \in Slots : ~Matches(build.slots[s], source)
  <2>1. \A s \in Slots : IsRecord(manifest[s]) => manifest[s].src # source
    BY DEF Inv, NewOK, Unpublished
  <2>2. \A s \in Slots :
          build.slots[s] = IF IsRecord(manifest[s]) THEN manifest[s] ELSE Absent
    BY DEF Inv, SlotsOK
  <2>3. QED
    BY <2>1, <2>2, SlotContentsFacts DEF Matches
<1>2. Newest(build.slots, source) = Absent
  BY <1>1 DEF Newest, Slots
<1>3. build.cp = Latest
  BY DEF Resumable, RestoredOK
<1>4. CASE IsRecord(Latest)
  BY <1>2, <1>3, <1>4, SlotContentsFacts DEF NextSequence
<1>5. CASE ~IsRecord(Latest)
  BY <1>2, <1>3, <1>5, LatestFacts DEF NextSequence, Inv, Resumable
<1>6. QED
  BY <1>4, <1>5

LEMMA SelectResumable ==
  ASSUME Inv, Resumable, Select
  PROVE  Resumable'
<1> DEFINE g == IF Resumes THEN build.cp.gen ELSE FreeGeneration
           b == [build EXCEPT !.generation = g, !.sequence = NextSequence]
           d == gen[g]
<1>1. /\ pc = "select" /\ gen' = [gen EXCEPT ![g].made = TRUE]
      /\ \/ pc' = "cpOpen" /\ build' = [b EXCEPT !.goal = "cancelled"] /\ cancelRequested
         \/ pc' = AfterSetup /\ build' = b
      /\ Resumes \/ FreeGenerations # {}
      /\ UNCHANGED <<source, ckpt, cancelRequested>>
  BY DEF Select, At, Goto, StartCheckpoint
<1>2. /\ TypeOK /\ CheckpointsOK /\ NamesOK /\ build.cp = Latest /\ Latest' = Latest
      /\ ~build.emitReady /\ build.durable = build.resumed
  BY <1>1, NotEmitReady, SameLatest DEF Inv, Resumable, RestoredOK
<1>3. /\ g \in Generations
      /\ build.resumed # "none" => g = build.generation /\ build.generation = Latest.gen
                                   /\ IsRecord(Latest) /\ d.made
      /\ build.resumed = "none" => ~d.made
  <2>1. /\ g \in Generations
        /\ build.resumed # "none" => g = build.generation
    <3>1. g = IF Resumes THEN build.cp.gen ELSE FreeGeneration
      OBVIOUS
    <3> HIDE DEF g
    <3>2. QED
      BY <1>1, <3>1, SelectedFacts
  <2>2. build.resumed # "none" => /\ build.generation = Latest.gen /\ IsRecord(Latest)
                                  /\ gen[Latest.gen].made
    BY <1>1, <1>2, LatestFacts DEF Inv, BuildOK, Resumable, RestoredOK
  <2>3. build.resumed = "none" => g \notin Listed
    <3>1. build.resumed = "none" => ~Resumes
      BY DEF Resumes
    <3>2. build.resumed = "none" => g = FreeGeneration /\ FreeGenerations # {}
      BY <1>1, <3>1
    <3> HIDE DEF g
    <3>3. QED
      BY <3>2, FreeGenerationFacts
  <2> HIDE DEF g
  <2>4. QED
    BY <2>1, <2>2, <2>3 DEF Listed
<1> HIDE DEF g
<1>4. /\ gen'[g] = [d EXCEPT !.made = TRUE] /\ d \in GenerationContents
      /\ \A k \in Generations : k # g => gen'[k] = gen[k]
  BY <1>1, <1>2, <1>3, GenerationTypes DEF TypeOK
<1>5. /\ gen'[g].made /\ gen'[g].sections = d.sections /\ gen'[g].synced = d.synced
      /\ gen'[g].sealed = d.sealed /\ gen'[g].recs = d.recs /\ gen'[g].head = d.head
  BY <1>4 DEF GenerationContents
<1> HIDE DEF d
<1>6. /\ build'.cp = Latest /\ build'.generation = g /\ build'.resumed = build.resumed
      /\ build'.durable = build.durable /\ ~build'.emitReady /\ build'.page = build.page
      /\ build'.sequence = Latest.seq + 1
      /\ \/ pc' = "cpOpen" /\ build'.goal = "cancelled" /\ cancelRequested'
         \/ pc' = AfterSetup
  <2>1. NextSequence = Latest.seq + 1
    BY <1>1, NextSequenceFacts
  <2>2. b \in Builds
    <3>1. Latest.seq + 1 \in Nat
      BY <1>2, LatestFacts, SlotContentsFacts
    <3>2. QED
      BY <1>2, <1>3, <2>1, <3>1 DEF TypeOK, Builds
  <2>3. /\ b.cp = build.cp /\ b.generation = g /\ b.resumed = build.resumed
        /\ b.durable = build.durable /\ b.emitReady = build.emitReady /\ b.page = build.page
        /\ b.sequence = Latest.seq + 1
    BY <1>2, <2>1 DEF TypeOK, Builds
  <2> HIDE DEF b
  <2>4. QED
    BY <1>1, <1>2, <2>2, <2>3 DEF Builds
<1>7. /\ pc' \in {"cpOpen", "discover", "finish", "emit", "manifest"}
      /\ pc' = "discover" => build.resumed = "none"
      /\ pc' = "emit" => build.resumed \in Early
      /\ pc' = "finish" => build.resumed \in Early \union Late
      /\ pc' = "manifest" => build.resumed \in Late
      /\ pc' = "cpOpen" => build'.goal = "cancelled" /\ cancelRequested'
      /\ \A G : Commits(G)' => "cancelled" \in G
  BY <1>2, <1>6, BuildTypes DEF AfterSetup, ResumePhases, Early, Late, Commits
<1>8. ~Commits(Early)' /\ ~Commits({"discovery"})' /\ ~Commits({"page"})' /\ ~Commits({"complete"})'
  BY <1>7 DEF Early
<1>9. \A s \in Slots : IsRecord(ckpt[s]) => ckpt[s].gen \in Generations /\ gen[ckpt[s].gen].made
  BY <1>2, CheckpointTypes DEF CheckpointsOK
<1>10. build.resumed = "none" => \A s \in Slots : ~(IsRecord(ckpt[s]) /\ ckpt[s].gen = g)
  BY <1>3, <1>9 DEF d
<1>11. IsRecord(Latest) => /\ SlotOf(Latest.seq) \in Slots /\ ckpt[SlotOf(Latest.seq)] = Latest
                           /\ Latest.gen \in Generations
  BY <1>2, LatestFacts, ConstantFacts
<1>12. \A c \in SlotContents : IsRecord(c) =>
         /\ EarlyHolds(c) /\ gen[c.gen].made => EarlyHolds(c)'
         /\ c.gen # g => (EarlyHolds(c)' => EarlyHolds(c)) /\ (LateHolds(c)' => LateHolds(c))
         /\ Safe(c) => Safe(c)'
  <2> SUFFICES ASSUME NEW c \in SlotContents, IsRecord(c)
               PROVE  /\ EarlyHolds(c) /\ gen[c.gen].made => EarlyHolds(c)'
                      /\ c.gen # g => /\ EarlyHolds(c)' => EarlyHolds(c)
                                      /\ LateHolds(c)' => LateHolds(c)
                      /\ Safe(c) => Safe(c)'
    OBVIOUS
  <2>1. c.gen \in Generations
    BY SlotContentsFacts
  <2>2. CASE c.gen = g
    BY <1>5, <2>2 DEF EarlyHolds, Safe, d
  <2>3. CASE c.gen # g
    BY <1>4, <2>1, <2>3 DEF EarlyHolds, LateHolds, Safe
  <2>4. QED
    BY <2>2, <2>3
<1>13. CheckpointsOK'
  <2>1. \A s \in Slots : IsRecord(ckpt[s]) => gen'[ckpt[s].gen].made
    BY <1>3, <1>4, <1>5, <1>9
  <2>2. \A s \in Slots : IsEarly(ckpt[s]) => Safe(ckpt[s])'
    <3>1. \A s \in Slots : ckpt[s] \in SlotContents /\ ckpt'[s] = ckpt[s]
      BY <1>1, <1>2 DEF TypeOK
    <3>2. ASSUME NEW s \in Slots, NEW c \in SlotContents, c = ckpt[s], IsEarly(c)
          PROVE  Safe(c)'
      BY <1>2, <1>12, <3>2 DEF CheckpointsOK, IsEarly
    <3>3. QED
      BY <3>1, <3>2 DEF Safe, IsEarly, IsRecord
  <2>3. QED
    BY <1>1, <1>2, <2>1, <2>2, CheckpointsKept
<1>14. NamesOK'
  <2>1. CASE build.resumed = "none"
    <3>1. \A s \in Slots : ~Names(ckpt[s])'
      BY <1>1, <1>6, <1>10, <2>1 DEF Names, IsRecord
    <3>2. QED
      BY <1>5, <1>6, <3>1 DEF NamesOK
  <2>2. CASE build.resumed # "none"
    <3>1. g = build.generation /\ \A c : Names(c)' <=> Names(c)
      BY <1>3, <1>6, <2>2 DEF Names, IsRecord
    <3>2. QED
      BY <1>1, <1>2, <1>3, <1>5, <1>6, <3>1, ConstantFacts
         DEF NamesOK, Names, IsRecord, IsEarly
  <2>3. QED
    BY <2>1, <2>2
<1>15. RestoredOK' /\ WrittenOK' /\ SealedOK' /\ PublishedOK'
  BY <1>7, <1>8 DEF RestoredOK, WrittenOK, SealedOK, PublishedOK
<1>16. build.resumed \in Early =>
         /\ EarlyHolds(Latest) /\ Latest.resume = build.resumed
         /\ build.page = Latest.page /\ d.synced = build.page
  BY <1>1, <1>2, <1>3 DEF Resumable, RestoredOK, d, Early
<1>17. AheadOK'
  <2>1. build.durable # "none" => Names(Latest)'
    BY <1>2, <1>3, <1>6 DEF Names, IsRecord
  <2>2. build.durable \in Early => EarlyHolds(Latest)'
    <3>1. ASSUME build.durable \in Early, NEW c \in SlotContents, c = Latest
          PROVE  EarlyHolds(c)'
      BY <1>2, <1>3, <1>9, <1>11, <1>12, <1>16, <3>1 DEF Early, d
    <3>2. QED
      BY <1>2, <3>1, LatestFacts DEF EarlyHolds
  <2>3. pc' # "cpWrite"
    BY <1>7
  <2>4. build.durable \in Early => Latest.resume = build.durable
    BY <1>2, <1>16
  <2>5. QED
    BY <1>2, <1>6, <2>1, <2>2, <2>3, <2>4 DEF AheadOK
<1>18. UnnamedOK'
  <2> SUFFICES ASSUME build.resumed = "none"
               PROVE  /\ \A s \in Slots : ~Names(ckpt[s])'
                      /\ ~EarlyHolds(Latest)' /\ ~LateHolds(Latest)'
    BY <1>2, <1>6 DEF UnnamedOK
  <2>1. \A s \in Slots : ~Names(ckpt[s])'
    BY <1>1, <1>6, <1>10 DEF Names, IsRecord
  <2>2. ~EarlyHolds(Latest) /\ ~LateHolds(Latest)
    BY <1>1, <1>2 DEF Resumable, RestoredOK
  <2>3. ASSUME NEW c \in SlotContents, c = Latest
        PROVE  ~EarlyHolds(c)' /\ ~LateHolds(c)'
    <3>1. CASE IsRecord(c)
      BY <1>10, <1>11, <1>12, <2>2, <2>3, <3>1
    <3>2. CASE ~IsRecord(c)
      BY <3>2, SlotContentsFacts DEF EarlyHolds, LateHolds, Early, Late
    <3>3. QED
      BY <3>1, <3>2
  <2>4. QED
    BY <1>2, <2>1, <2>3, LatestFacts DEF EarlyHolds, LateHolds
<1>19. CoveredOK'
  <2> SUFFICES ASSUME pc' \in {"discover", "emit"}, NEW s \in Slots,
                      Names(ckpt[s])', IsEarly(ckpt[s])'
               PROVE  ckpt[s].page <= build.page /\ ckpt[s].page <= gen'[g].synced
    BY <1>1, <1>6, <1>7, <1>8 DEF CoveredOK
  <2>1. IsRecord(ckpt[s]) /\ ckpt[s].gen = g /\ IsEarly(ckpt[s])
    BY <1>1, <1>6 DEF Names, IsRecord, IsEarly
  <2>2. build.resumed \in Early
    BY <1>7, <1>10, <2>1
  <2>3. IsEarly(Latest) /\ Latest.gen = g
    BY <1>3, <1>16, <2>2 DEF IsEarly, Early
  <2>4. ckpt[s].page <= Latest.page
    BY <1>2, <2>1, <2>3, LatestNames DEF IsEarly
  <2>5. QED
    BY <1>5, <1>16, <2>2, <2>4
<1>20. DurableOK'
  BY <1>2, <1>6, <1>7, <1>8 DEF DurableOK, Early, Late
<1>21. CancelledLateOK'
  BY <1>2, <1>6, <1>7 DEF CancelledLateOK, Late, Commits
<1>22. QED
  BY <1>13, <1>14, <1>15, <1>17, <1>18, <1>19, <1>20, <1>21 DEF Resumable

-----------------------------------------------------------------------------
(***************************************************************************)
(* The pages.                                                              *)
(***************************************************************************)
(* While pages are emitted, or an early checkpoint is opened, nothing is   *)
(* asked of cancellations and manifests.                                   *)
LEMMA EmissionResumable ==
  ASSUME CheckpointsOK', NamesOK', RestoredOK', AheadOK', UnnamedOK', WrittenOK',
         pc' \in {"discover", "snapshot", "emit", "record", "seal", "finish"}
           \/ (pc' = "cpOpen" /\ build'.goal \in Early),
         CoveredOK', SealedOK', ~build'.emitReady, build'.resumed \notin Late,
         pc' \in {"discover", "snapshot"} \/ Commits({"discovery"})' => build'.durable = "none",
         pc' \in {"emit", "record", "seal", "finish"} \/ Commits({"page"})' =>
           build'.durable \in Early
  PROVE  Resumable'
<1>1. ~Commits({"cancelled"})' /\ ~Commits({"complete"})'
  BY DEF Commits, Early
<1>2. DurableOK'
  BY <1>1 DEF DurableOK, Commits, Early
<1>3. CancelledLateOK' /\ PublishedOK'
  BY <1>1 DEF CancelledLateOK, PublishedOK
<1>4. QED
  BY <1>2, <1>3 DEF Resumable

LEMMA DiscoverResumable ==
  ASSUME Inv, Resumable, Discover
  PROVE  Resumable'
<1>1. /\ pc = "discover" /\ pc' = "snapshot"
      /\ UNCHANGED <<source, ckpt, manifest, gen, build>>
  BY DEF Discover, Runs, Goto, cardVars
<1>2. ~Commits({"cancelled"}) /\ Underway /\ Underway' /\ \A G : ~Commits(G)'
  BY <1>1 DEF Commits, Underway
<1>3. \A s \in Slots : IsEarly(ckpt[s]) => Safe(ckpt[s])'
  BY <1>1 DEF Resumable, CheckpointsOK, Safe
<1>4. Latest' = Latest /\ (EarlyHolds(Latest) => EarlyHolds(Latest)')
  BY <1>1, SameLatest DEF EarlyHolds
<1>5. /\ CheckpointsOK' /\ NamesOK' /\ RestoredOK' /\ AheadOK' /\ UnnamedOK' /\ WrittenOK'
  BY <1>1, <1>2, <1>3, <1>4, Carried
<1>6. CoveredOK' /\ SealedOK'
  BY <1>1, <1>2 DEF Resumable, CoveredOK, SealedOK, Names, IsEarly, IsRecord
<1>7. ~build.emitReady /\ build.resumed \notin Late /\ build.durable = "none"
  BY <1>1, NotEmitReady DEF Inv, BuildOK, Resumable, DurableOK
<1>8. QED
  BY <1>1, <1>2, <1>5, <1>6, <1>7, EmissionResumable

LEMMA SnapshotResumable ==
  ASSUME Inv, Resumable, Snapshot
  PROVE  Resumable'
<1> DEFINE h == build.generation
           d == gen[h]
<1>1. /\ pc = "snapshot" /\ pc' = "cpOpen"
      /\ gen' = [gen EXCEPT ![h].head = source]
      /\ build' = [build EXCEPT !.goal = "discovery"]
      /\ UNCHANGED <<source, ckpt>>
  BY DEF Snapshot, At, Goto, StartCheckpoint
<1>2. /\ ~Commits({"cancelled"}) /\ Underway /\ Underway' /\ ~Commits({"page"})'
      /\ ~Commits({"cancelled"})' /\ Building /\ TypeOK /\ build.sequence \in Nat
  BY <1>1, BuildTypes DEF Commits, Underway, Building, Unpublished, Inv, TypeOK, Builds
<1>3. h \in Generations /\ d \in GenerationContents
  BY <1>2, BuildingFacts
<1>4. /\ gen'[h].made = d.made /\ gen'[h].sections = d.sections
      /\ gen'[h].synced = d.synced /\ gen'[h].sealed = d.sealed /\ gen'[h].recs = d.recs
      /\ \A g \in Generations : g # h => gen'[g] = gen[g]
  BY <1>1, <1>2, <1>3 DEF TypeOK, GenerationContents
<1>5. /\ build'.cp = build.cp /\ build'.generation = h /\ build'.resumed = build.resumed
      /\ build'.durable = build.durable /\ build'.emitReady = build.emitReady
      /\ build'.sequence = build.sequence /\ build'.goal = "discovery"
      /\ build'.page = build.page
  BY <1>1, <1>2 DEF TypeOK, Builds
<1>6. ~build.emitReady /\ build.resumed \notin Late /\ build.durable = "none"
  BY <1>1, NotEmitReady DEF Inv, BuildOK, Resumable, DurableOK
<1>7. (\A s \in Slots : ~Names(ckpt[s])) /\ ~EarlyHolds(Latest)
  BY <1>2, <1>6 DEF Resumable, UnnamedOK, Ahead
<1> HIDE DEF d
<1>8. /\ CheckpointsOK' /\ NamesOK' /\ RestoredOK' /\ AheadOK' /\ UnnamedOK' /\ WrittenOK'
  <2>1. \A g \in Generations : gen'[g].made = gen[g].made
    BY <1>4 DEF d
  <2>2. QED
    BY <1>1, <1>2, <1>4, <1>5, <1>7, <2>1, Carried
<1>9. CoveredOK' /\ SealedOK'
  <2>1. \A s \in Slots : ~Names(ckpt[s])'
    BY <1>1, <1>5, <1>7 DEF Names, IsRecord
  <2>2. QED
    BY <1>1, <1>2, <2>1 DEF CoveredOK, SealedOK
<1>10. QED
  BY <1>1, <1>2, <1>5, <1>6, <1>8, <1>9, EmissionResumable DEF Early

(* What a checkpoint that the latest build wrote promises survives every   *)
(* step that only adds to the generation.                                  *)
LEMMA EmissionFacts ==
  ASSUME Inv, Resumable, pc \in {"emit", "record", "seal"}
  PROVE  /\ ~Commits({"cancelled"}) /\ Underway /\ Building /\ TypeOK /\ CheckpointsOK
         /\ ~build.emitReady /\ build.resumed \notin Late /\ build.durable \in Early
         /\ build.generation \in Generations /\ gen[build.generation] \in GenerationContents
         /\ gen[build.generation].head = source
         /\ build.page \in Nat /\ build.page < Pages
         /\ \A s \in Slots : Names(ckpt[s]) /\ IsEarly(ckpt[s]) =>
              /\ Safe(ckpt[s]) /\ ckpt[s].page \in Nat /\ ckpt[s].page <= build.page
              /\ ckpt[s].page <= gen[build.generation].synced
              /\ ckpt[s].gen = build.generation
         /\ Latest \in SlotContents /\ Names(Latest) /\ IsEarly(Latest)
         /\ EarlyHolds(Latest) /\ Latest.page \in Nat /\ Latest.page <= build.page
<1>1. /\ ~Commits({"cancelled"}) /\ Underway /\ Building /\ TypeOK /\ CheckpointsOK
  BY DEF Commits, Underway, Building, Unpublished, Inv, Resumable
<1>2. /\ ~build.emitReady /\ build.resumed \notin Late /\ build.durable \in Early
  BY NotEmitReady DEF Inv, BuildOK, Resumable, DurableOK
<1>3. /\ build.generation \in Generations /\ gen[build.generation] \in GenerationContents
  BY <1>1, BuildingFacts
<1>4. /\ build.page \in Nat /\ build.page < Pages /\ gen[build.generation].head = source
  BY <1>1, BuildTypes, ConstantFacts DEF Inv, BuildOK, Stands
<1>5. \A s \in Slots : ckpt[s] \in SlotContents /\ ckpt[s].page \in Nat
  BY <1>1, CheckpointTypes, SlotContentsFacts, ConstantFacts
<1>6. \A s \in Slots : Names(ckpt[s]) /\ IsEarly(ckpt[s]) =>
        /\ Safe(ckpt[s]) /\ ckpt[s].page <= build.page
        /\ ckpt[s].page <= gen[build.generation].synced
        /\ ckpt[s].gen = build.generation
  BY <1>1 DEF CheckpointsOK, Resumable, CoveredOK, Names
<1>7. /\ Latest \in SlotContents /\ Names(Latest) /\ IsEarly(Latest) /\ EarlyHolds(Latest)
  BY <1>1, <1>2, LatestFacts DEF Resumable, AheadOK, Ahead, IsEarly, Early, Names
<1>8. Latest.page \in Nat /\ Latest.page <= build.page
  <2>1. SlotOf(Latest.seq) \in Slots /\ ckpt[SlotOf(Latest.seq)] = Latest
    BY <1>1, <1>7, LatestFacts, ConstantFacts DEF Names
  <2>2. QED
    BY <1>5, <1>6, <1>7, <2>1
<1>9. QED
  BY <1>1, <1>2, <1>3, <1>4, <1>5, <1>6, <1>7, <1>8

(* A page behind the committed ones takes nothing from them.               *)
LEMMA PrefixKept ==
  ASSUME NEW S, NEW q \in Seq(S), NEW x \in S, NEW n \in Nat, n <= Len(q)
  PROVE  /\ Append(q, x) \in Seq(S) /\ Len(Append(q, x)) = Len(q) + 1
         /\ SubSeq(Append(q, x), 1, n) = SubSeq(q, 1, n)
<1>1. Append(q, x) \in Seq(S) /\ Len(Append(q, x)) = Len(q) + 1
  OBVIOUS
<1>2. \A i \in 1..n : Append(q, x)[i] = q[i]
  OBVIOUS
<1>3. SubSeq(Append(q, x), 1, n) = SubSeq(q, 1, n)
  BY <1>1, <1>2
<1>4. QED
  BY <1>1, <1>3

LEMMA EmitPageResumable ==
  ASSUME Inv, Resumable, NEW due \in BOOLEAN, EmitPage(due)
  PROVE  Resumable'
<1> DEFINE h == build.generation
           d == gen[h]
           p == build.page + 1
           open == p < Pages /\ p + 1 \notin Starts[source]
           b == [build EXCEPT !.due = due, !.writer = open]
<1>1. /\ pc = "emit"
      /\ gen' = [gen EXCEPT ![h].sections = Append(@, <<source, p>>),
                            ![h].synced = IF due \/ ~open THEN p ELSE @]
      /\ \/ /\ build' = [b EXCEPT !.page = p]
            /\ pc' \in {"finish", "emit"}
         \/ build' = b /\ pc' = "record"
      /\ UNCHANGED <<source, ckpt>>
  BY DEF EmitPage, Runs, Goto, NextPage
<1>2. /\ ~Commits({"cancelled"}) /\ Underway /\ TypeOK /\ CheckpointsOK
      /\ ~build.emitReady /\ build.resumed \notin Late /\ build.durable \in Early
      /\ h \in Generations /\ d \in GenerationContents
      /\ build.page \in Nat /\ build.page < Pages
      /\ \A s \in Slots : Names(ckpt[s]) /\ IsEarly(ckpt[s]) =>
           /\ Safe(ckpt[s]) /\ ckpt[s].page \in Nat /\ ckpt[s].page <= build.page
           /\ ckpt[s].page <= d.synced
           /\ ckpt[s].gen = h
      /\ Latest \in SlotContents /\ Names(Latest) /\ EarlyHolds(Latest)
      /\ Latest.page \in Nat /\ Latest.page <= build.page
  BY <1>1, EmissionFacts
<1>3. /\ d.sections \in Seq(Sources \X (1..Pages)) /\ d.synced \in Nat
      /\ Len(d.sections) = build.page
      /\ <<source, p>> \in Sources \X (1..Pages)
  <2>1. d.sections = PagesOf(source, build.page) /\ build.page \in 0..Pages
    BY <1>1, <1>2, BuildTypes DEF Inv, BuildOK, Stands
  <2>2. Len(d.sections) = build.page
    BY <1>2, <2>1, PagesOfFacts DEF TypeOK
  <2>3. p \in 1..Pages /\ source \in Sources
    BY <1>2, ConstantFacts DEF TypeOK
  <2> HIDE DEF p
  <2>4. QED
    BY <1>2, <2>2, <2>3, GenerationTypes
<1>4. /\ gen'[h].made = d.made /\ gen'[h].sealed = d.sealed /\ gen'[h].recs = d.recs
      /\ gen'[h].head = d.head
      /\ gen'[h].synced = (IF due \/ ~open THEN p ELSE d.synced)
      /\ gen'[h].sections = Append(d.sections, <<source, p>>)
      /\ \A g \in Generations : g # h => gen'[g] = gen[g]
  <2> HIDE DEF open, p
  <2>1. QED
    BY <1>1, <1>2 DEF TypeOK, GenerationContents
<1>5. /\ build'.cp = build.cp /\ build'.generation = h /\ build'.resumed = build.resumed
      /\ build'.durable = build.durable /\ build'.emitReady = build.emitReady
      /\ build'.sequence = build.sequence /\ build'.due = due
      /\ pc' \in {"emit", "finish"} => build'.page = p
      /\ pc' = "record" => build'.page = build.page
  <2> HIDE DEF open, p
  <2>1. QED
    BY <1>1, <1>2 DEF TypeOK, Builds
<1>6. pc' \in {"emit", "finish", "record"} /\ Underway' /\ \A G : ~Commits(G)'
  BY <1>1 DEF Underway, Commits
<1>7. gen'[h].synced >= d.synced \/ gen'[h].synced = p
  BY <1>3, <1>4
<1> HIDE DEF open, d
<1>8. \A s \in Slots : Names(ckpt[s]) /\ IsEarly(ckpt[s]) =>
        Safe(ckpt[s])' /\ ckpt[s].page <= gen'[h].synced
  <2> SUFFICES ASSUME NEW s \in Slots, Names(ckpt[s]), IsEarly(ckpt[s])
               PROVE  Safe(ckpt[s])' /\ ckpt[s].page <= gen'[h].synced
    OBVIOUS
  <2>1. /\ Safe(ckpt[s]) /\ ckpt[s].page \in Nat /\ ckpt[s].page <= build.page
        /\ ckpt[s].page <= d.synced /\ ckpt[s].gen = h
    BY <1>2
  <2>2. gen'[h].synced \in Nat
    BY <1>2, <1>3, <1>4
  <2>3. ckpt[s].page <= gen'[h].synced
    BY <1>2, <1>3, <1>7, <2>1, <2>2
  <2>4. Safe(ckpt[s])'
    BY <1>1, <1>4, <2>1, <2>3 DEF Safe, d
  <2>5. QED
    BY <2>3, <2>4
<1>9. EarlyHolds(Latest)'
  <2>1. ASSUME NEW c \in SlotContents, c = Latest
        PROVE  EarlyHolds(c)'
    <3>1. c.gen = h /\ c.page \in Nat /\ c.page <= Len(d.sections)
      BY <1>2, <1>3, <2>1 DEF Names
    <3>2. /\ Len(Append(d.sections, <<source, p>>)) = Len(d.sections) + 1
          /\ SubSeq(Append(d.sections, <<source, p>>), 1, c.page) = SubSeq(d.sections, 1, c.page)
      <4> HIDE DEF p
      <4>1. QED
        BY <1>3, <3>1, PrefixKept
    <3>3. Len(gen'[h].sections) >= c.page
          /\ SubSeq(gen'[h].sections, 1, c.page) = SubSeq(d.sections, 1, c.page)
      BY <1>3, <1>4, <3>1, <3>2
    <3>4. EarlyHolds(c)
      BY <1>2, <2>1
    <3> HIDE DEF p, h
    <3>5. QED
      BY <1>4, <3>1, <3>3, <3>4 DEF EarlyHolds, d
  <2>2. Latest' = Latest
    BY <1>1, SameLatest
  <2>3. QED
    BY <1>2, <2>1, <2>2 DEF EarlyHolds
<1>10. /\ CheckpointsOK' /\ NamesOK' /\ RestoredOK' /\ AheadOK' /\ UnnamedOK' /\ WrittenOK'
  <2>1. \A g \in Generations : gen'[g].made = gen[g].made
    BY <1>4 DEF d
  <2>2. QED
    BY <1>1, <1>2, <1>4, <1>5, <1>6, <1>8, <1>9, <2>1, Carried
<1>11. CoveredOK'
  <2>1. \A s \in Slots : Names(ckpt[s])' /\ IsEarly(ckpt[s])' =>
          Names(ckpt[s]) /\ IsEarly(ckpt[s])
    BY <1>1, <1>5 DEF Names, IsRecord, IsEarly
  <2>2. build'.page >= build.page
    BY <1>2, <1>5, <1>6
  <2>3. build'.page \in Nat
    BY <1>2, <1>5, <1>6
  <2>4. \A s \in Slots : Names(ckpt[s])' /\ IsEarly(ckpt[s])' =>
          ckpt[s].page <= build'.page /\ ckpt[s].page <= gen'[h].synced
    BY <1>2, <1>8, <2>1, <2>2, <2>3
  <2>5. QED
    BY <1>1, <1>5, <2>4 DEF CoveredOK
<1>12. SealedOK'
  BY <1>2, <1>4, <1>5, <1>6 DEF SealedOK
<1>13. QED
  BY <1>2, <1>5, <1>6, <1>10, <1>11, <1>12, EmissionResumable

LEMMA RecordResumable ==
  ASSUME Inv, Resumable, Record
  PROVE  Resumable'
<1> DEFINE h == build.generation
           d == gen[h]
           p == build.page + 1
<1>1. /\ pc = "record"
      /\ gen' = [gen EXCEPT ![h].recs = IF @ < p THEN p ELSE @]
      /\ \/ build' = build /\ pc' = "seal" /\ build.due
         \/ /\ build' = [build EXCEPT !.page = p]
            /\ pc' \in {"finish", "emit"}
      /\ UNCHANGED <<source, ckpt>>
  BY DEF Record, At, Goto, NextPage
<1>2. /\ ~Commits({"cancelled"}) /\ Underway /\ TypeOK /\ CheckpointsOK
      /\ ~build.emitReady /\ build.resumed \notin Late /\ build.durable \in Early
      /\ h \in Generations /\ d \in GenerationContents
      /\ build.page \in Nat /\ build.page < Pages
      /\ \A s \in Slots : Names(ckpt[s]) /\ IsEarly(ckpt[s]) =>
           /\ Safe(ckpt[s]) /\ ckpt[s].page \in Nat /\ ckpt[s].page <= build.page
           /\ ckpt[s].page <= d.synced
           /\ ckpt[s].gen = h
      /\ Latest \in SlotContents /\ Names(Latest) /\ EarlyHolds(Latest)
      /\ Latest.page \in Nat /\ Latest.page <= build.page
  BY <1>1, EmissionFacts
<1>3. d.recs \in Nat
  BY <1>2, GenerationTypes, ConstantFacts
<1>4. /\ gen'[h].made = d.made /\ gen'[h].sealed = d.sealed
      /\ gen'[h].head = d.head /\ gen'[h].synced = d.synced /\ gen'[h].sections = d.sections
      /\ gen'[h].recs = (IF d.recs < p THEN p ELSE d.recs)
      /\ \A g \in Generations : g # h => gen'[g] = gen[g]
  <2> HIDE DEF p
  <2>1. QED
    BY <1>1, <1>2 DEF TypeOK, GenerationContents
<1>5. /\ build'.cp = build.cp /\ build'.generation = h /\ build'.resumed = build.resumed
      /\ build'.durable = build.durable /\ build'.emitReady = build.emitReady
      /\ build'.sequence = build.sequence
      /\ pc' \in {"emit", "finish"} => build'.page = p
      /\ pc' = "seal" => build'.page = build.page
  <2> HIDE DEF p
  <2>1. QED
    BY <1>1, <1>2 DEF TypeOK, Builds
<1>6. pc' \in {"emit", "finish", "seal"} /\ Underway' /\ \A G : ~Commits(G)'
  BY <1>1 DEF Underway, Commits
<1>7. gen'[h].recs >= d.recs /\ gen'[h].recs >= p /\ gen'[h].recs \in Nat
  BY <1>2, <1>3, <1>4
<1>8. build.due => d.synced >= p
  BY <1>1 DEF Resumable, SealedOK
<1> HIDE DEF d
<1>9. \A s \in Slots : Names(ckpt[s]) /\ IsEarly(ckpt[s]) => Safe(ckpt[s])'
  BY <1>1, <1>2, <1>4 DEF Safe, d
<1>10. EarlyHolds(Latest)'
  <2>1. ASSUME NEW c \in SlotContents, c = Latest
        PROVE  EarlyHolds(c)'
    <3>1. c.gen = h /\ EarlyHolds(c) /\ c.page \in Nat
      BY <1>2, <2>1 DEF Names
    <3> HIDE DEF h, p
    <3>2. QED
      BY <1>3, <1>4, <1>7, <3>1 DEF EarlyHolds, d
  <2>2. Latest' = Latest
    BY <1>1, SameLatest
  <2>3. QED
    BY <1>2, <2>1, <2>2 DEF EarlyHolds
<1>11. /\ CheckpointsOK' /\ NamesOK' /\ RestoredOK' /\ AheadOK' /\ UnnamedOK' /\ WrittenOK'
  <2>1. \A g \in Generations : gen'[g].made = gen[g].made
    BY <1>4 DEF d
  <2>2. QED
    BY <1>1, <1>2, <1>4, <1>5, <1>6, <1>9, <1>10, <2>1, Carried
<1>12. CoveredOK'
  <2>1. \A s \in Slots : Names(ckpt[s])' /\ IsEarly(ckpt[s])' =>
          Names(ckpt[s]) /\ IsEarly(ckpt[s])
    BY <1>1, <1>5 DEF Names, IsRecord, IsEarly
  <2>2. build'.page >= build.page /\ build'.page \in Nat
    BY <1>2, <1>5, <1>6
  <2>3. QED
    BY <1>1, <1>2, <1>4, <1>5, <1>6, <2>1, <2>2 DEF CoveredOK
<1>13. SealedOK'
  BY <1>1, <1>4, <1>5, <1>6, <1>7, <1>8 DEF SealedOK
<1>14. QED
  BY <1>2, <1>5, <1>6, <1>11, <1>12, <1>13, EmissionResumable

LEMMA SealResumable ==
  ASSUME Inv, Resumable, Seal
  PROVE  Resumable'
<1> DEFINE h == build.generation
           d == gen[h]
           p == build.page + 1
<1>1. /\ pc = "seal" /\ pc' = "cpOpen"
      /\ gen' = [gen EXCEPT ![h].sealed = gen[h].recs]
      /\ build' = [build EXCEPT !.goal = "page"]
      /\ UNCHANGED <<source, ckpt>>
  BY DEF Seal, At, Goto, StartCheckpoint
<1>2. /\ ~Commits({"cancelled"}) /\ Underway /\ TypeOK /\ CheckpointsOK
      /\ ~build.emitReady /\ build.resumed \notin Late /\ build.durable \in Early
      /\ h \in Generations /\ d \in GenerationContents
      /\ build.page \in Nat /\ build.page < Pages
      /\ \A s \in Slots : Names(ckpt[s]) /\ IsEarly(ckpt[s]) =>
           /\ Safe(ckpt[s]) /\ ckpt[s].page \in Nat /\ ckpt[s].page <= build.page
           /\ ckpt[s].page <= d.synced
           /\ ckpt[s].gen = h
      /\ Latest \in SlotContents /\ Names(Latest) /\ EarlyHolds(Latest)
  BY <1>1, EmissionFacts
<1>3. d.recs \in Nat /\ d.recs >= p /\ d.synced >= p
  BY <1>1, <1>2, GenerationTypes, ConstantFacts DEF Resumable, SealedOK
<1>4. /\ gen'[h].made = d.made /\ gen'[h].sealed = d.recs /\ gen'[h].recs = d.recs
      /\ gen'[h].head = d.head /\ gen'[h].synced = d.synced /\ gen'[h].sections = d.sections
      /\ \A g \in Generations : g # h => gen'[g] = gen[g]
  BY <1>1, <1>2 DEF TypeOK, GenerationContents
<1>5. /\ build'.cp = build.cp /\ build'.generation = h /\ build'.resumed = build.resumed
      /\ build'.durable = build.durable /\ build'.emitReady = build.emitReady
      /\ build'.sequence = build.sequence /\ build'.goal = "page"
      /\ build'.page = build.page
  BY <1>1, <1>2 DEF TypeOK, Builds
<1>6. Underway' /\ ~Commits({"discovery"})' /\ ~Commits({"cancelled"})'
  BY <1>1, <1>5 DEF Underway, Commits
<1> HIDE DEF d
<1>7. \A s \in Slots : Names(ckpt[s]) /\ IsEarly(ckpt[s]) => Safe(ckpt[s])'
  BY <1>1, <1>2, <1>3, <1>4 DEF Safe, d
<1>8. EarlyHolds(Latest)'
  <2>1. ASSUME NEW c \in SlotContents, c = Latest
        PROVE  EarlyHolds(c)'
    <3>1. c.gen = h /\ EarlyHolds(c)
      BY <1>2, <2>1 DEF Names
    <3>2. QED
      BY <1>4, <3>1 DEF EarlyHolds, d
  <2>2. Latest' = Latest
    BY <1>1, SameLatest
  <2>3. QED
    BY <1>2, <2>1, <2>2 DEF EarlyHolds
<1>9. /\ CheckpointsOK' /\ NamesOK' /\ RestoredOK' /\ AheadOK' /\ UnnamedOK' /\ WrittenOK'
  <2>1. \A g \in Generations : gen'[g].made = gen[g].made
    BY <1>4 DEF d
  <2>2. QED
    BY <1>1, <1>2, <1>4, <1>5, <1>6, <1>7, <1>8, <2>1, Carried
<1>10. CoveredOK'
  <2>1. \A s \in Slots : Names(ckpt[s])' /\ IsEarly(ckpt[s])' =>
          Names(ckpt[s]) /\ IsEarly(ckpt[s])
    BY <1>1, <1>5 DEF Names, IsRecord, IsEarly
  <2>2. QED
    BY <1>1, <1>2, <1>4, <1>5, <2>1 DEF CoveredOK
<1>11. SealedOK'
  BY <1>1, <1>2, <1>3, <1>4, <1>5 DEF SealedOK
<1>12. QED
  BY <1>1, <1>2, <1>5, <1>6, <1>9, <1>10, <1>11, EmissionResumable DEF Early

-----------------------------------------------------------------------------
(***************************************************************************)
(* The checkpoint.                                                         *)
(***************************************************************************)
LEMMA RepublishedFacts ==
  ASSUME Inv, Resumable, pc = "cpOpen", Republishes
  PROVE  /\ IsEarly(build.cp) /\ Ahead /\ build.cp = Latest /\ Names(build.cp)
         /\ build.cp.src = source /\ Safe(build.cp)
<1>1. TypeOK /\ CheckpointsOK /\ IsEarly(build.cp)
  BY BuildTypes, SlotContentsFacts DEF Inv, Resumable, Republishes, IsEarly, Early
<1>2. Ahead
  BY <1>1 DEF Ahead, Underway
<1>3. build.cp = Latest /\ Names(build.cp)
  BY <1>2 DEF Resumable, AheadOK, Republishes, Early
<1>4. /\ Latest.src = source /\ SlotOf(Latest.seq) \in Slots
      /\ ckpt[SlotOf(Latest.seq)] = Latest
  BY <1>1, <1>3, LatestFacts, ConstantFacts DEF Names
<1>5. Safe(build.cp)
  BY <1>1, <1>3, <1>4 DEF CheckpointsOK
<1>6. QED
  BY <1>1, <1>2, <1>3, <1>4, <1>5

(* What the new checkpoint says.                                           *)
LEMMA NewCheckpointSays ==
  ASSUME Inv, Resumable, pc = "cpOpen"
  PROVE  /\ NewCheckpoint \in SlotContents /\ IsRecord(NewCheckpoint)
         /\ NewCheckpoint.seq = build.sequence /\ NewCheckpoint.gen = build.generation
         /\ NewCheckpoint.src = source
         /\ build.goal = "discovery" =>
              NewCheckpoint.resume = "discovery" /\ NewCheckpoint.page = 0
              /\ NewCheckpoint.phase = "pages"
         /\ build.goal = "page" =>
              NewCheckpoint.resume = "page" /\ NewCheckpoint.page = build.page + 1
              /\ NewCheckpoint.phase = "pages"
         /\ build.goal = "complete" => NewCheckpoint.resume = "none"
         /\ build.goal = "cancelled" /\ Republishes =>
              NewCheckpoint = [build.cp EXCEPT !.seq = build.sequence, !.phase = "cancelled"]
         /\ build.goal = "cancelled" /\ ~Republishes =>
              NewCheckpoint.resume = CancelledResume /\ NewCheckpoint.phase = "cancelled"
              /\ NewCheckpoint.resume \notin Early
<1>1. NewCheckpoint \in SlotContents
  BY NewCheckpointFacts
<1>2. build.goal \in {"discovery", "page", "complete", "cancelled"}
  BY BuildTypes DEF Inv, Resumable, DurableOK, Goals
<1>3. CASE build.goal \in {"discovery", "page", "complete"}
  BY <1>1, <1>3 DEF NewCheckpoint, Checkpoint, IsRecord
<1>4. CASE build.goal = "cancelled" /\ Republishes
  <2>1. NewCheckpoint = [build.cp EXCEPT !.seq = build.sequence, !.phase = "cancelled"]
    BY <1>4 DEF NewCheckpoint
  <2>2. IsRecord(build.cp) /\ build.cp.gen = build.generation /\ build.cp.src = source
        /\ build.cp \in SlotContents
    BY <1>4, RepublishedFacts, BuildTypes DEF Names, Inv
  <2>3. QED
    BY <1>1, <1>4, <2>1, <2>2 DEF SlotContents, IsRecord
<1>5. CASE build.goal = "cancelled" /\ ~Republishes
  <2>1. NewCheckpoint = Checkpoint(build.sequence, source, build.generation, "cancelled",
                                   CancelledResume, build.page)
    BY <1>5 DEF NewCheckpoint
  <2>2. build.emitReady => build.durable = "sections"
    BY DEF Resumable, CancelledLateOK
  <2>3. CancelledResume \notin Early
    BY <2>2 DEF CancelledResume, Early
  <2>4. QED
    BY <1>1, <1>5, <2>1, <2>3 DEF Checkpoint, IsRecord
<1>6. QED
  BY <1>2, <1>3, <1>4, <1>5

LEMMA CpOpenResumable ==
  ASSUME Inv, Resumable, CpOpen
  PROVE  Resumable'
<1> DEFINE slot == SlotOf(build.sequence)
           c == NewCheckpoint
<1>1. /\ pc = "cpOpen" /\ pc' = "cpWrite"
      /\ build' = [build EXCEPT !.cp = c]
      /\ ckpt' = [ckpt EXCEPT ![slot] = Torn]
      /\ UNCHANGED <<source, manifest, gen, cancelRequested>>
  BY DEF CpOpen, CommitsCheckpoint, At, Goto
<1>2. /\ TypeOK /\ CheckpointsOK /\ slot \in Slots /\ Underway /\ Underway'
      /\ build.generation \in Generations
  BY <1>1, ConstantFacts DEF Inv, BuildOK, Resumable, Underway
<1>3. /\ c \in SlotContents /\ IsRecord(c) /\ c.seq = build.sequence
      /\ c.gen = build.generation /\ c.src = source
      /\ build.goal = "discovery" => c.resume = "discovery" /\ c.page = 0 /\ c.phase = "pages"
      /\ build.goal = "page" =>
           c.resume = "page" /\ c.page = build.page + 1 /\ c.phase = "pages"
      /\ build.goal = "complete" => c.resume = "none"
      /\ build.goal = "cancelled" /\ Republishes =>
           c = [build.cp EXCEPT !.seq = build.sequence, !.phase = "cancelled"]
      /\ build.goal = "cancelled" /\ ~Republishes =>
           c.resume = CancelledResume /\ c.phase = "cancelled" /\ c.resume \notin Early
  BY <1>1, NewCheckpointSays
<1>4. build.goal \in {"discovery", "page", "complete", "cancelled"}
  BY <1>1, <1>2, BuildTypes DEF Resumable, DurableOK, Goals
<1> HIDE DEF slot, c
<1>5. /\ build'.cp = c /\ build'.generation = build.generation
      /\ build'.sequence = build.sequence /\ build'.durable = build.durable
      /\ build'.resumed = build.resumed /\ build'.emitReady = build.emitReady
      /\ build'.ready = build.ready /\ build'.page = build.page
      /\ build'.goal = build.goal /\ build'.due = build.due
  BY <1>1, <1>2 DEF TypeOK, Builds
<1>6. /\ \A G : Commits(G)' <=> Commits(G)
      /\ \A k : Names(k)' <=> Names(k)
      /\ \A s \in Slots : ckpt'[s] = IF s = slot THEN Torn ELSE ckpt[s]
      /\ ~IsRecord(Torn)
  BY <1>1, <1>2, <1>5, SlotContentsFacts DEF Commits, Names, TypeOK
<1>7. \A s \in Slots : IsRecord(ckpt'[s]) => s # slot /\ ckpt'[s] = ckpt[s] /\ IsRecord(ckpt[s])
  BY <1>6
<1>8. CheckpointsOK'
  BY <1>1, <1>2, <1>7 DEF CheckpointsOK, IsEarly, IsRecord, Safe
<1>9. IsEarly(c) =>
        /\ Ahead /\ c.page \in Nat /\ Safe(c)
        /\ \A s \in Slots : Names(ckpt[s]) /\ IsEarly(ckpt[s]) => ckpt[s].page <= c.page
  <2> SUFFICES ASSUME IsEarly(c)
               PROVE  /\ Ahead /\ c.page \in Nat /\ Safe(c)
                      /\ \A s \in Slots : Names(ckpt[s]) /\ IsEarly(ckpt[s]) =>
                           ckpt[s].page <= c.page
    OBVIOUS
  <2>1. /\ c.page \in Nat /\ build.page \in Nat
        /\ gen[build.generation].synced \in Nat /\ gen[build.generation].sealed \in Nat
        /\ \A s \in Slots : ckpt[s].page \in Nat
    BY <1>2, <1>3, CheckpointTypes, SlotContentsFacts, ConstantFacts, GenerationTypes, BuildTypes
  <2>2. CASE build.goal = "discovery"
    <3>1. Ahead /\ Commits({"discovery"})
      BY <1>1, <1>2, <2>2 DEF Ahead, Commits
    <3>2. \A s \in Slots : ~Names(ckpt[s])
      BY <3>1 DEF Resumable, DurableOK, UnnamedOK
    <3>3. QED
      BY <1>3, <2>1, <2>2, <3>1, <3>2 DEF Safe
  <2>3. CASE build.goal = "page"
    <3>1. Ahead /\ Commits({"page"}) /\ Commits(Early)
      BY <1>1, <1>2, <2>3 DEF Ahead, Commits, Early
    <3>2. \A s \in Slots : Names(ckpt[s]) /\ IsEarly(ckpt[s]) => ckpt[s].page <= build.page
      BY <3>1 DEF Resumable, CoveredOK
    <3>3. gen[build.generation].synced >= build.page + 1
          /\ gen[build.generation].sealed >= build.page + 1
      BY <3>1 DEF Resumable, SealedOK
    <3>4. Safe(c)
      BY <1>3, <2>3, <3>3 DEF Safe
    <3>5. QED
      BY <1>3, <2>1, <2>3, <3>1, <3>2, <3>4
  <2>4. CASE build.goal = "cancelled"
    <3>1. Republishes
      BY <1>3, <2>4 DEF IsEarly
    <3>2. IsEarly(build.cp) /\ Ahead /\ Names(build.cp) /\ Safe(build.cp)
          /\ build.cp \in SlotContents
      BY <1>1, <1>2, <3>1, RepublishedFacts, BuildTypes
    <3>3. c.page = build.cp.page /\ c.gen = build.cp.gen
      BY <1>3, <2>4, <3>1, <3>2 DEF SlotContents
    <3>4. QED
      BY <2>1, <3>2, <3>3 DEF Resumable, NamesOK, Safe
  <2>5. QED
    BY <1>3, <1>4, <2>2, <2>3, <2>4 DEF IsEarly, Early
<1>10. Names(c)
  BY <1>3 DEF Names
<1>11. NamesOK'
  <2>1. gen'[build.generation].made
    BY <1>1, <1>2, ConstantFacts DEF Resumable, NamesOK
  <2>2. \A s \in Slots : Names(ckpt'[s]) => Names(ckpt[s]) /\ ckpt'[s] = ckpt[s]
    BY <1>7 DEF Names
  <2>3. build.generation # 0 => \A s \in Slots : Names(ckpt[s]) => ckpt[s].src = source
    BY DEF Resumable, NamesOK
  <2>4. \A s \in Slots : Names(ckpt[s])' => Names(ckpt'[s])
    BY <1>5 DEF Names, IsRecord
  <2>5. IsEarly(build.cp)' <=> IsEarly(c)
    BY <1>5 DEF IsEarly, IsRecord
  <2>6. \A s \in Slots : IsEarly(ckpt[s])' <=> IsEarly(ckpt'[s])
    BY DEF IsEarly, IsRecord
  <2>7. QED
    BY <1>1, <1>5, <1>9, <2>1, <2>2, <2>3, <2>4, <2>5, <2>6, <1>2, ConstantFacts DEF NamesOK
<1>12. Ahead' => Ahead
  <2>1. Have' = Have
    BY <1>1, SameHave
  <2>2. IsEarly(build.cp)' => IsEarly(c)
    BY <1>5 DEF IsEarly, IsRecord
  <2>3. build.goal = "cancelled" /\ IsEarly(c) => IsEarly(build.cp)
    BY <1>1, <1>3, RepublishedFacts DEF IsEarly
  <2>4. Commits({"cancelled"})' => build.goal = "cancelled"
    BY <1>5 DEF Commits
  <2>5. QED
    BY <1>1, <1>2, <1>6, <2>1, <2>2, <2>3, <2>4 DEF Ahead
<1>13. Ahead => Latest' = Latest
  BY <1>1, <1>2, OpenedLatest DEF Resumable, AheadOK, slot
<1>14. AheadOK'
  <2> SUFFICES ASSUME Ahead'
               PROVE  AheadOK'
    BY DEF AheadOK
  <2>1. Ahead /\ Latest' = Latest
    BY <1>12, <1>13
  <2>2. /\ build.sequence = Latest.seq + 1
        /\ build.durable # "none" => Names(Latest)
        /\ build.durable \in Early => Latest.resume = build.durable /\ build.cp = Latest
        /\ build.durable \in Early /\ ~Commits({"cancelled"}) => EarlyHolds(Latest)
    BY <1>1, <2>1 DEF Resumable, AheadOK
  <2>3. EarlyHolds(Latest) => EarlyHolds(Latest)'
    BY <1>1, <2>1 DEF EarlyHolds
  <2>4. Names(Latest)' <=> Names(Latest)
    BY <1>5, <2>1 DEF Names, IsRecord
  <2>5. build.durable \in Early /\ build.goal = "cancelled" =>
          c = [Latest EXCEPT !.seq = build.sequence, !.phase = "cancelled"]
    BY <1>3, <2>2 DEF Republishes
  <2>6. QED
    BY <1>1, <1>5, <1>6, <2>1, <2>2, <2>3, <2>4, <2>5 DEF AheadOK
<1>15. UnnamedOK'
  <2> SUFFICES ASSUME Ahead', build.durable = "none"
               PROVE  UnnamedOK'
    BY <1>5 DEF UnnamedOK
  <2>1. Ahead /\ Latest' = Latest
    BY <1>12, <1>13
  <2>2. (\A s \in Slots : ~Names(ckpt[s])) /\ ~EarlyHolds(Latest) /\ ~LateHolds(Latest)
    BY <2>1 DEF Resumable, UnnamedOK
  <2>3. \A s \in Slots : ~Names(ckpt[s])'
    BY <1>5, <1>7, <2>2 DEF Names, IsRecord
  <2>4. ~EarlyHolds(Latest)' /\ ~LateHolds(Latest)'
    BY <1>1, <2>1, <2>2 DEF EarlyHolds, LateHolds
  <2>5. QED
    BY <2>3, <2>4 DEF UnnamedOK
<1>16. RestoredOK' /\ DurableOK' /\ SealedOK'
  <2>1. /\ pc = "cpOpen" /\ pc' = "cpWrite"
        /\ gen'[build'.generation] = gen[build.generation]
    BY <1>1, <1>5
  <2>2. QED
    BY <1>5, <1>6, <2>1 DEF Resumable, RestoredOK, DurableOK, SealedOK
<1>17. CoveredOK'
  <2>1. \A s \in Slots : Names(ckpt[s])' /\ IsEarly(ckpt[s])' =>
          ckpt'[s] = ckpt[s] /\ Names(ckpt[s]) /\ IsEarly(ckpt[s])
    BY <1>5, <1>7 DEF Names, IsRecord, IsEarly
  <2>2. Commits(Early)' <=> Commits(Early)
    BY <1>6
  <2>3. QED
    BY <1>1, <1>5, <2>1, <2>2 DEF Resumable, CoveredOK
<1>18. WrittenOK'
  <2>1. ~IsRecord(ckpt[SlotOf(build.sequence)])'
    BY <1>2, <1>5, <1>6 DEF slot, IsRecord
  <2>2. c.resume \in Early => Safe(build.cp)'
    BY <1>1, <1>3, <1>5, <1>9 DEF IsEarly, Safe
  <2>3. IsRecord(build.cp)'
    BY <1>3, <1>5 DEF IsRecord
  <2>4. QED
    BY <1>1, <1>3, <1>5, <2>1, <2>2, <2>3 DEF WrittenOK
<1>19. CancelledLateOK'
  <2>1. /\ LeftBehind' <=> LeftBehind
        /\ Stands(Pages)' <=> Stands(Pages)
    BY <1>1, <1>5 DEF LeftBehind, Stands
  <2>2. Commits({"cancelled"}) /\ build.durable \in Late /\ build.resumed \notin Late =>
          c.resume = build.durable /\ c.phase = "cancelled"
    <3> SUFFICES ASSUME Commits({"cancelled"}), build.durable \in Late, build.resumed \notin Late
                 PROVE  c.resume = build.durable /\ c.phase = "cancelled"
      OBVIOUS
    <3>1. ~Republishes /\ build.goal = "cancelled"
      BY DEF Republishes, Commits, Early, Late
    <3>2. build.ready /\ (build.emitReady <=> build.durable = "sections")
      BY DEF Resumable, CancelledLateOK
    <3>3. CancelledResume = build.durable
      BY <3>2 DEF CancelledResume, Late
    <3>4. QED
      BY <1>3, <3>1, <3>3
  <2>3. Commits({"cancelled"})' <=> Commits({"cancelled"})
    BY <1>6
  <2>4. gen'[build'.generation].ledger[SlotOf(build'.sequence)] =
          gen[build.generation].ledger[SlotOf(build.sequence)]
    BY <1>1, <1>5
  <2>5. QED
    BY <1>1, <1>5, <2>1, <2>2, <2>3, <2>4 DEF Resumable, CancelledLateOK
<1>20. PublishedOK'
  <2>1. Commits({"complete"})' <=> Commits({"complete"})
    BY <1>6
  <2>2. QED
    BY <1>1, <1>5, <2>1 DEF Resumable, PublishedOK, Matches, IsRecord
<1>21. QED
  BY <1>8, <1>11, <1>14, <1>15, <1>16, <1>17, <1>18, <1>19, <1>20 DEF Resumable

(* The checkpoint that is written supersedes the others of its generation. *)
LEMMA CpWriteFacts ==
  ASSUME Inv, Resumable, pc = "cpWrite",
         ckpt' = [ckpt EXCEPT ![SlotOf(build.sequence)] = build.cp],
         UNCHANGED <<source, gen>>
  PROVE  /\ CheckpointsOK' /\ (Ahead => Latest' = build.cp)
         /\ Names(build.cp) /\ build.cp.src = source /\ build.cp.seq = build.sequence
         /\ \A s \in Slots : Names(ckpt'[s]) =>
              /\ ckpt'[s].src = source
              /\ IsEarly(ckpt'[s]) /\ IsEarly(build.cp) => ckpt'[s].page <= build.cp.page
         /\ \A s \in Slots :
              ckpt'[s] = IF s = SlotOf(build.sequence) THEN build.cp ELSE ckpt[s]
<1> DEFINE slot == SlotOf(build.sequence)
           c == build.cp
<1>1. /\ TypeOK /\ CheckpointsOK /\ slot \in Slots /\ build.generation \in Generations
      /\ gen[build.generation].made /\ c \in SlotContents
      /\ build.sequence \in Nat /\ build.generation # 0
  BY BuildTypes, ConstantFacts DEF Inv, BuildOK, Resumable, NamesOK
<1>2. /\ IsRecord(c) /\ c.seq = build.sequence /\ c.gen = build.generation /\ c.src = source
      /\ c.resume \in Early => Safe(c)
  BY DEF Resumable, WrittenOK
<1>3. Names(c) /\ c.page \in Nat
  BY <1>1, <1>2, SlotContentsFacts, ConstantFacts DEF Names
<1> HIDE DEF c
<1>4. \A s \in Slots : ckpt'[s] = IF s = slot THEN c ELSE ckpt[s]
  BY <1>1 DEF TypeOK, c
<1>5. IsEarly(c) => Ahead
  BY DEF Ahead, Underway, c
<1>6. Ahead => Latest' = c
  BY <1>1, <1>2, WrittenLatest DEF Matches, Resumable, AheadOK, c
<1>7. \A s \in Slots : Names(ckpt[s]) => ckpt[s].src = source
  BY <1>1 DEF Resumable, NamesOK
<1>8. \A s \in Slots : Names(ckpt[s]) /\ IsEarly(ckpt[s]) /\ IsEarly(c) =>
        ckpt[s].page <= c.page /\ ckpt[s].seq < c.seq
  <2> SUFFICES ASSUME NEW s \in Slots, Names(ckpt[s]), IsEarly(ckpt[s]), IsEarly(c)
               PROVE  ckpt[s].page <= c.page /\ ckpt[s].seq < c.seq
    OBVIOUS
  <2>1. ckpt[s].page <= c.page
    BY <1>3 DEF Resumable, NamesOK, c
  <2>2. c.seq = Latest.seq + 1
    BY <1>2, <1>5 DEF Resumable, AheadOK
  <2>3. ckpt[s].seq <= Latest.seq /\ ckpt[s].seq \in Nat /\ Latest.seq \in Nat
    BY <1>1, <1>7, CheckpointTypes, LatestFacts, SlotContentsFacts DEF Names, Matches
  <2>4. QED
    BY <2>1, <2>2, <2>3
<1> HIDE DEF slot
<1>9. CheckpointsOK'
  <2>1. \A s \in Slots : IsRecord(ckpt'[s]) =>
          SlotOf(ckpt'[s].seq) = s /\ gen'[ckpt'[s].gen].made
    BY <1>1, <1>2, <1>4 DEF CheckpointsOK, slot
  <2>2. \A s \in Slots : IsEarly(ckpt'[s]) => Safe(ckpt[s])'
    BY <1>1, <1>2, <1>4 DEF CheckpointsOK, IsEarly, Safe
  <2>3. ASSUME NEW s \in Slots, NEW t \in Slots,
               IsRecord(ckpt'[s]), IsRecord(ckpt'[t]), ckpt'[s].gen = ckpt'[t].gen
        PROVE  /\ ckpt'[s].src = ckpt'[t].src
               /\ IsEarly(ckpt'[s]) /\ IsEarly(ckpt'[t]) /\ ckpt'[s].seq < ckpt'[t].seq =>
                    ckpt'[s].page <= ckpt'[t].page
    <3>1. CASE s = slot /\ t = slot
      BY <1>3, <1>4, <3>1
    <3>2. CASE s = slot /\ t # slot
      <4>1. ckpt'[s] = c /\ ckpt'[t] = ckpt[t] /\ Names(ckpt[t])
        BY <1>2, <1>4, <2>3, <3>2 DEF Names
      <4>2. ckpt[t].seq \in Nat /\ c.seq \in Nat
        BY <1>1, <1>2, <4>1, CheckpointTypes DEF Names
      <4>3. QED
        BY <1>2, <1>7, <1>8, <4>1, <4>2
    <3>3. CASE s # slot /\ t = slot
      <4>1. ckpt'[t] = c /\ ckpt'[s] = ckpt[s] /\ Names(ckpt[s])
        BY <1>2, <1>4, <2>3, <3>3 DEF Names
      <4>2. QED
        BY <1>2, <1>7, <1>8, <4>1
    <3>4. CASE s # slot /\ t # slot
      BY <1>1, <1>4, <2>3, <3>4 DEF CheckpointsOK
    <3>5. QED
      BY <3>1, <3>2, <3>3, <3>4
  <2>4. QED
    BY <2>1, <2>2, <2>3 DEF CheckpointsOK, IsEarly, IsRecord
<1>10. \A s \in Slots : Names(ckpt'[s]) =>
         /\ ckpt'[s].src = source
         /\ IsEarly(ckpt'[s]) /\ IsEarly(c) => ckpt'[s].page <= c.page
  BY <1>2, <1>3, <1>4, <1>7, <1>8
<1>11. QED
  BY <1>2, <1>3, <1>4, <1>6, <1>9, <1>10 DEF slot, c

LEMMA CpWriteResumable ==
  ASSUME Inv, Resumable, CpWrite
  PROVE  Resumable'
<1> DEFINE slot == SlotOf(build.sequence)
           c == build.cp
           h == build.generation
           b == [build EXCEPT !.durable = build.goal, !.ready = TRUE,
                              !.sequence = @ + 1, !.goal = "none"]
           p == build.page + 1
<1>1. /\ pc = "cpWrite" /\ ckpt' = [ckpt EXCEPT ![slot] = c]
      /\ UNCHANGED <<source, manifest, gen>>
  BY DEF CpWrite, CommitsCheckpoint, At
<1>2. \/ build.goal = "discovery" /\ build' = b /\ pc' = "emit"
      \/ build.goal = "page" /\ build' = [b EXCEPT !.page = p] /\ pc' \in {"finish", "emit"}
      \/ build.goal = "complete" /\ build' = build /\ pc' = "tidy"
      \/ pc' = "idle" /\ build' = NoBuild
  BY DEF CpWrite, Goto, NextPage, End
<1>3. /\ TypeOK /\ slot \in Slots /\ h \in Generations /\ gen[h].made /\ h # 0
      /\ c \in SlotContents
  BY <1>1, BuildTypes, ConstantFacts DEF Inv, BuildOK, Resumable, NamesOK
<1>4. /\ CheckpointsOK' /\ (Ahead => Latest' = c)
      /\ Names(c) /\ c.src = source /\ c.seq = build.sequence
      /\ \A s \in Slots : Names(ckpt'[s]) =>
           /\ ckpt'[s].src = source
           /\ IsEarly(ckpt'[s]) /\ IsEarly(c) => ckpt'[s].page <= c.page
      /\ \A s \in Slots : ckpt'[s] = IF s = slot THEN c ELSE ckpt[s]
  BY <1>1, CpWriteFacts
<1> HIDE DEF c, slot
<1>5. CASE pc' = "idle" /\ build' = NoBuild
  BY <1>4, <1>5, EndResumable
<1>6. ASSUME build'.generation = h, build'.cp = c
      PROVE  NamesOK'
  <2>1. \A s \in Slots : Names(ckpt[s])' => Names(ckpt'[s])
    BY <1>6 DEF Names, IsRecord
  <2>2. \A s \in Slots : IsEarly(ckpt[s])' => IsEarly(ckpt'[s])
    BY DEF IsEarly, IsRecord
  <2>3. IsEarly(build.cp)' => IsEarly(c)
    BY <1>6 DEF IsEarly, IsRecord
  <2>4. QED
    BY <1>1, <1>3, <1>4, <1>6, <2>1, <2>2, <2>3 DEF NamesOK
<1>7. CASE \/ build.goal = "discovery" /\ build' = b /\ pc' = "emit"
           \/ build.goal = "page" /\ build' = [b EXCEPT !.page = p] /\ pc' \in {"finish", "emit"}
  <2>1. /\ Commits(Early) /\ build.goal \in Early /\ Ahead /\ ~Commits({"cancelled"})
        /\ build.resumed \notin Late
    BY <1>1, <1>7 DEF Commits, Early, Ahead, Underway, Inv, BuildOK
  <2> DEFINE q == IF build.goal = "page" THEN p ELSE build.page
  <2>2. /\ c.resume = build.goal /\ c.page = q /\ c.phase = "pages" /\ IsEarly(c)
        /\ build.page \in Nat /\ q \in 0..Pages /\ q \in Nat
        /\ gen[h].head = source /\ gen[h].sections = PagesOf(source, q)
        /\ gen[h].synced >= q /\ gen[h].recs >= q
    <3>1. build.page \in 0..Pages /\ build.page \in Nat /\ gen[h].synced \in Nat
          /\ gen[h].recs \in Nat /\ Pages \in Nat
      <4>1. build.page \in 0..Pages /\ Pages \in Nat
        BY <1>3, BuildTypes, ConstantFacts
      <4>2. gen[h].synced \in Nat /\ gen[h].recs \in 0..Pages
        BY <1>3, GenerationTypes
      <4>3. QED
        BY <4>1, <4>2
    <3>2. CASE build.goal = "discovery"
      <4>1. build.page = 0 /\ Stands(0)
        BY <1>1, <3>2 DEF Inv, BuildOK, Commits
      <4>2. c.resume = "discovery" /\ c.page = 0 /\ c.phase = "pages"
        BY <1>1, <3>2 DEF Resumable, WrittenOK, c
      <4>3. QED
        BY <1>4, <3>1, <3>2, <4>1, <4>2 DEF Stands, IsEarly, Early, Names
    <3>3. CASE build.goal = "page"
      <4>1. build.page < Pages /\ Stands(p)
        BY <1>1, <3>3 DEF Inv, BuildOK, Commits
      <4>2. c.resume = "page" /\ c.page = p /\ c.phase = "pages"
        BY <1>1, <3>3 DEF Resumable, WrittenOK, c
      <4>3. gen[h].synced >= p /\ gen[h].recs >= p
        BY <1>1, <3>3 DEF Resumable, SealedOK, Commits
      <4>4. QED
        BY <1>4, <3>1, <3>3, <4>1, <4>2, <4>3 DEF Stands, IsEarly, Early, Names
    <3>4. QED
      BY <1>7, <3>2, <3>3
  <2>3. /\ build'.cp = c /\ build'.generation = h /\ build'.resumed = build.resumed
        /\ build'.durable = build.goal /\ build'.emitReady = build.emitReady
        /\ build'.sequence = build.sequence + 1 /\ build'.page = q
    <3>1. /\ b.cp = c /\ b.generation = h /\ b.resumed = build.resumed
          /\ b.durable = build.goal /\ b.emitReady = build.emitReady
          /\ b.sequence = build.sequence + 1 /\ b.page = build.page
          /\ b \in Builds
      <4>1. build.goal \in ResumePhases /\ build.sequence + 1 \in Nat
        BY <1>3, <2>1, BuildTypes DEF Early, ResumePhases
      <4>2. QED
        BY <1>3, <4>1 DEF TypeOK, Builds, Goals, c
    <3> HIDE DEF b, p
    <3>2. QED
      BY <1>7, <2>2, <3>1 DEF Builds
  <2> HIDE DEF q, b, p
  <2>4. pc' \in {"emit", "finish"} /\ \A G : ~Commits(G)'
    BY <1>7 DEF Commits
  <2>5. NamesOK'
    BY <1>6, <2>3
  <2>6. RestoredOK' /\ WrittenOK' /\ SealedOK'
    BY <2>4 DEF RestoredOK, WrittenOK, SealedOK
  <2>7. build'.durable \in Early /\ build'.durable # "none"
    BY <2>1, <2>3 DEF Early
  <2>8. UnnamedOK'
    BY <2>7 DEF UnnamedOK
  <2>9. EarlyHolds(Latest)'
    <3>1. Len(PagesOf(source, q)) = q /\ SubSeq(PagesOf(source, q), 1, q) = PagesOf(source, q)
      <4>1. PagesOf(source, q) \in Seq(Sources \X (1..Pages)) /\ Len(PagesOf(source, q)) = q
        BY <1>3, <2>2, PagesOfFacts DEF TypeOK
      <4>2. QED
        BY <2>2, <4>1
    <3>2. EarlyHolds(c)
      BY <1>3, <1>4, <2>1, <2>2, <3>1 DEF EarlyHolds, Names
    <3>3. Latest' = c
      BY <1>4, <2>1
    <3>4. QED
      BY <1>1, <3>2, <3>3 DEF EarlyHolds
  <2>10. AheadOK'
    <3>1. Latest' = c /\ Latest'.seq = build.sequence
      BY <1>4, <2>1
    <3>2. Names(Latest)'
      BY <1>4, <2>3, <3>1 DEF Names, IsRecord
    <3>3. QED
      BY <2>2, <2>3, <2>4, <2>9, <3>1, <3>2 DEF AheadOK
  <2>11. CoveredOK'
    <3>1. \A s \in Slots : Names(ckpt[s])' /\ IsEarly(ckpt[s])' =>
            Names(ckpt'[s]) /\ IsEarly(ckpt'[s])
      BY <2>3 DEF Names, IsRecord, IsEarly
    <3>2. \A s \in Slots : ckpt'[s].page \in Nat
      BY <1>3, <1>4, CheckpointTypes, SlotContentsFacts, ConstantFacts
    <3>3. gen[h].synced \in Nat
      BY <1>3, GenerationTypes
    <3>4. \A s \in Slots : Names(ckpt[s])' /\ IsEarly(ckpt[s])' =>
            ckpt'[s].page <= q /\ ckpt'[s].page <= gen[h].synced
      BY <1>4, <2>2, <3>1, <3>2, <3>3
    <3>5. QED
      BY <1>1, <2>3, <3>4 DEF CoveredOK
  <2>12. ~build.emitReady
    BY <2>1 DEF Resumable, CancelledLateOK
  <2>13. QED
    BY <1>4, <2>1, <2>3, <2>4, <2>5, <2>6, <2>7, <2>8, <2>10, <2>11, <2>12,
       EmissionResumable
<1>8. CASE build.goal = "complete" /\ build' = build /\ pc' = "tidy"
  <2>1. /\ Commits({"complete"}) /\ Ahead /\ ~Commits({"cancelled"}) /\ \A G : ~Commits(G)'
    BY <1>1, <1>8 DEF Commits, Ahead, Underway
  <2>2. NamesOK'
    BY <1>6, <1>8 DEF c
  <2>3. ~Underway' /\ ~Ahead'
    BY <1>8 DEF Underway, Ahead
  <2>4. CoveredOK' /\ RestoredOK' /\ AheadOK' /\ UnnamedOK' /\ SealedOK' /\ WrittenOK'
    BY <1>8, <2>1, <2>3 DEF CoveredOK, RestoredOK, AheadOK, UnnamedOK, SealedOK, WrittenOK
  <2>5. ~IsEarly(build.cp)' /\ build.durable # "none"
        /\ (build.durable \in Early \/ build.resumed \in Late)
    <3>1. build.cp.resume = "none"
      BY <1>1, <1>8 DEF Resumable, WrittenOK
    <3>2. build.durable # "none" /\ (build.durable \in Early \/ build.resumed \in Late)
      BY <2>1 DEF Resumable, DurableOK, Early
    <3>3. QED
      BY <1>8, <3>1, <3>2 DEF IsEarly, Early
  <2>6. DurableOK'
    BY <1>8, <2>1, <2>5 DEF DurableOK
  <2>7. CancelledLateOK'
    BY <1>8, <2>1 DEF Resumable, CancelledLateOK
  <2>8. PublishedOK'
    <3>1. \E s \in Slots : Matches(manifest[s], source) /\ manifest[s].gen = h
      BY <2>1 DEF Resumable, PublishedOK
    <3>2. ASSUME NEW s \in Slots, IsRecord(ckpt'[s])
          PROVE  Names(ckpt'[s])
      <4>1. CASE s = slot
        BY <1>4, <4>1
      <4>2. CASE s # slot
        <5>1. Names(Latest) /\ build.sequence = Latest.seq + 1
          BY <2>1, <2>5 DEF Resumable, AheadOK
        <5>2. Latest.seq \in Nat /\ ckpt[SlotOf(Latest.seq)] = Latest
          BY <1>3, <5>1, LatestFacts, SlotContentsFacts DEF Resumable, Names
        <5>3. s = SlotOf(Latest.seq)
          BY <4>2, <5>1, <5>2, SlotOfFacts DEF slot
        <5>4. QED
          BY <1>4, <4>2, <5>1, <5>2, <5>3
      <4>3. QED
        BY <4>1, <4>2
    <3>3. \A s \in Slots : IsRecord(ckpt[s])' => Names(ckpt[s])'
      BY <1>8, <3>2 DEF IsRecord, Names
    <3>4. QED
      BY <1>1, <1>8, <2>1, <3>1, <3>3 DEF PublishedOK, Matches, IsRecord
  <2>9. QED
    BY <1>4, <2>2, <2>4, <2>6, <2>7, <2>8 DEF Resumable
<1>9. QED
  BY <1>2, <1>5, <1>7, <1>8

-----------------------------------------------------------------------------
(***************************************************************************)
(* The commit of the product.                                              *)
(***************************************************************************)
Finishing == {"finish", "outline", "manifest", "writeManifest", "verify",
              "resumeOutline", "resumeControl", "resumeLedger"}

SamePages(g) ==
  /\ gen'[g].made = gen[g].made /\ gen'[g].head = gen[g].head
  /\ gen'[g].sections = gen[g].sections /\ gen'[g].synced = gen[g].synced
  /\ gen'[g].recs = gen[g].recs /\ gen'[g].sealed = gen[g].sealed

(* After the last page no step touches what the checkpoints promise.       *)
LEMMA FinishingKept ==
  ASSUME Inv, Resumable, UNCHANGED <<source, ckpt>>, pc \in Finishing,
         pc' \in Finishing \union {"cpOpen"}, pc' = "cpOpen" => build'.goal \notin Early,
         build'.cp = build.cp, build'.sequence = build.sequence,
         build'.generation = build.generation, build'.resumed = build.resumed,
         build'.durable = build.durable \/ (build.durable # "none" /\ build'.durable \in Late),
         \A g \in Generations : SamePages(g),
         \A g \in Generations : g # build.generation => gen'[g] = gen[g]
  PROVE  /\ CheckpointsOK' /\ NamesOK' /\ CoveredOK' /\ RestoredOK' /\ AheadOK'
         /\ UnnamedOK' /\ SealedOK' /\ WrittenOK' /\ Latest' = Latest
<1>1. /\ ~Commits({"cancelled"}) /\ Underway /\ Underway' /\ pc # "cpWrite" /\ pc' # "cpWrite"
      /\ TypeOK /\ CheckpointsOK
  BY DEF Commits, Underway, Finishing, Inv, Resumable
<1>2. \A s \in Slots : IsEarly(ckpt[s]) => Safe(ckpt[s])'
  BY <1>1, CheckpointTypes DEF CheckpointsOK, Safe, SamePages, IsEarly
<1>3. EarlyHolds(Latest) => EarlyHolds(Latest)'
  <2>1. Latest' = Latest
    BY SameLatest
  <2>2. EarlyHolds(Latest) => Latest.gen \in Generations
    BY <1>1, LatestFacts, SlotContentsFacts DEF EarlyHolds, Early
  <2>3. QED
    BY <2>1, <2>2 DEF EarlyHolds, SamePages
<1>4. \A g \in Generations : gen'[g].made = gen[g].made
  BY DEF SamePages
<1>5. /\ CheckpointsOK' /\ NamesOK' /\ RestoredOK' /\ AheadOK' /\ UnnamedOK' /\ WrittenOK'
      /\ Latest' = Latest
  BY <1>1, <1>2, <1>3, <1>4, Carried
<1>6. ~Commits(Early)' /\ ~Commits({"page"})'
  BY DEF Commits, Finishing, Early
<1>7. CoveredOK' /\ SealedOK'
  BY <1>6 DEF CoveredOK, SealedOK, Finishing
<1>8. QED
  BY <1>5, <1>7

LEMMA CloseSourceResumable ==
  ASSUME Inv, Resumable, CloseSource
  PROVE  Resumable'
<1>1. /\ pc = "finish" /\ pc' \in {"manifest", "outline"}
      /\ UNCHANGED <<source, ckpt, manifest, gen, build>>
  BY DEF CloseSource, Runs, Goto, cardVars
<1>2. /\ CheckpointsOK' /\ NamesOK' /\ CoveredOK' /\ RestoredOK' /\ AheadOK'
      /\ UnnamedOK' /\ SealedOK' /\ WrittenOK'
  BY <1>1, FinishingKept DEF Finishing, SamePages
<1>3. ~build.emitReady /\ \A G : ~Commits(G)'
  BY <1>1, NotEmitReady DEF Commits
<1>4. DurableOK' /\ CancelledLateOK' /\ PublishedOK'
  BY <1>1, <1>3 DEF Resumable, DurableOK, CancelledLateOK, PublishedOK
<1>5. QED
  BY <1>2, <1>4 DEF Resumable

LEMMA OutlineResumable ==
  ASSUME Inv, Resumable, Outline
  PROVE  Resumable'
<1>1. /\ pc = "outline" /\ pc' = "manifest" /\ UNCHANGED <<source, ckpt, manifest, build>>
      /\ gen' = [gen EXCEPT ![build.generation].outline = TRUE]
      /\ build.generation \in Generations /\ TypeOK
  BY DEF Outline, Runs, Goto, Inv, BuildOK
<1>2. /\ \A g \in Generations : SamePages(g)
      /\ \A g \in Generations : g # build.generation => gen'[g] = gen[g]
  BY <1>1 DEF SamePages, TypeOK, GenerationContents
<1>3. /\ CheckpointsOK' /\ NamesOK' /\ CoveredOK' /\ RestoredOK' /\ AheadOK'
      /\ UnnamedOK' /\ SealedOK' /\ WrittenOK'
  BY <1>1, <1>2, FinishingKept DEF Finishing
<1>4. ~build.emitReady /\ \A G : ~Commits(G)'
  BY <1>1, NotEmitReady DEF Commits
<1>5. DurableOK' /\ CancelledLateOK' /\ PublishedOK'
  BY <1>1, <1>4 DEF Resumable, DurableOK, CancelledLateOK, PublishedOK
<1>6. QED
  BY <1>3, <1>5 DEF Resumable

LEMMA OpenManifestResumable ==
  ASSUME Inv, Resumable, OpenManifest
  PROVE  Resumable'
<1>1. /\ pc = "manifest" /\ pc' = "writeManifest" /\ UNCHANGED <<source, ckpt, gen, build>>
  BY DEF OpenManifest, Runs, Goto
<1>2. /\ CheckpointsOK' /\ NamesOK' /\ CoveredOK' /\ RestoredOK' /\ AheadOK'
      /\ UnnamedOK' /\ SealedOK' /\ WrittenOK'
  BY <1>1, FinishingKept DEF Finishing, SamePages
<1>3. ~build.emitReady /\ \A G : ~Commits(G)'
  BY <1>1, NotEmitReady DEF Commits
<1>4. DurableOK' /\ CancelledLateOK' /\ PublishedOK'
  BY <1>1, <1>3 DEF Resumable, DurableOK, CancelledLateOK, PublishedOK
<1>5. QED
  BY <1>2, <1>4 DEF Resumable

LEMMA WriteManifestResumable ==
  ASSUME Inv, Resumable, WriteManifest
  PROVE  Resumable'
<1>1. /\ pc = "writeManifest" /\ pc' = "verify" /\ UNCHANGED <<source, ckpt, gen, build>>
      /\ manifest' = [manifest EXCEPT ![TargetSlot] =
           Manifest(build.sequence, source, build.generation)]
      /\ TypeOK
  BY DEF WriteManifest, Runs, Goto, Inv
<1>2. /\ CheckpointsOK' /\ NamesOK' /\ CoveredOK' /\ RestoredOK' /\ AheadOK'
      /\ UnnamedOK' /\ SealedOK' /\ WrittenOK'
  BY <1>1, FinishingKept DEF Finishing, SamePages
<1>3. ~build.emitReady /\ \A G : ~Commits(G)'
  BY <1>1, NotEmitReady DEF Commits
<1>4. TargetSlot' = TargetSlot /\ manifest'[TargetSlot].gen = build.generation
  BY <1>1, TargetSlotFacts DEF TargetSlot, TypeOK, Manifest, Checkpoint
<1>5. DurableOK' /\ CancelledLateOK' /\ PublishedOK'
  BY <1>1, <1>3, <1>4 DEF Resumable, DurableOK, CancelledLateOK, PublishedOK
<1>6. QED
  BY <1>2, <1>5 DEF Resumable

LEMMA VerifyManifestResumable ==
  ASSUME Inv, Resumable, VerifyManifest
  PROVE  Resumable'
<1>1. /\ pc = "verify" /\ pc' = "cpOpen" /\ UNCHANGED <<source, ckpt, manifest, gen>>
      /\ build' = [[build EXCEPT !.slots[TargetSlot] = manifest[TargetSlot]]
                    EXCEPT !.goal = "complete"]
      /\ TypeOK
  BY DEF VerifyManifest, Runs, Goto, StartCheckpoint, cardVars, Inv
<1>2. /\ build'.cp = build.cp /\ build'.generation = build.generation
      /\ build'.resumed = build.resumed /\ build'.durable = build.durable
      /\ build'.emitReady = build.emitReady /\ build'.sequence = build.sequence
      /\ build'.goal = "complete"
  BY <1>1 DEF TypeOK, Builds
<1>3. /\ CheckpointsOK' /\ NamesOK' /\ CoveredOK' /\ RestoredOK' /\ AheadOK'
      /\ UnnamedOK' /\ SealedOK' /\ WrittenOK'
  BY <1>1, <1>2, FinishingKept DEF Finishing, SamePages, Early
<1>4. /\ ~build.emitReady /\ ~Commits({"cancelled"})' /\ ~Commits({"discovery"})'
      /\ ~Commits({"page"})' /\ Commits({"complete"})'
  BY <1>1, <1>2, NotEmitReady DEF Commits
<1>5. Matches(manifest[TargetSlot], source) /\ manifest[TargetSlot].gen = build.generation
      /\ TargetSlot \in Slots
  BY <1>1, TargetSlotFacts, SourcesAssumption
     DEF Inv, TypeOK, SlotsOK, SlotContents, IsRecord, Matches, Resumable, PublishedOK
<1>6. DurableOK' /\ CancelledLateOK'
  BY <1>1, <1>2, <1>4 DEF Resumable, DurableOK, CancelledLateOK
<1>7. PublishedOK'
  <2>1. \E s \in Slots : Matches(manifest[s], source)' /\ (manifest[s].gen = build.generation)'
    BY <1>1, <1>2, <1>5 DEF Matches, IsRecord
  <2>2. QED
    BY <1>1, <2>1 DEF PublishedOK
<1>8. QED
  BY <1>3, <1>6, <1>7 DEF Resumable

(* The clean-up: the product is published, and nothing is asked of the     *)
(* checkpoints but that they name its generation.                          *)
LEMMA CleanupResumable ==
  ASSUME Resumable, pc \in {"tidy", "sweep"}, pc' \in {"tidy", "sweep"}, CheckpointsOK',
         UNCHANGED <<source, ckpt, manifest, build>>,
         build.generation # 0 => gen'[build.generation].made
  PROVE  Resumable'
<1>1. \A G : ~Commits(G)'
  BY DEF Commits
<1>2. ~Underway' /\ ~Ahead' /\ ~build.emitReady
  BY NotEmitReady DEF Underway, Ahead
<1>3. NamesOK'
  BY DEF Resumable, NamesOK, Names, IsEarly, IsRecord
<1>4. CoveredOK' /\ RestoredOK' /\ AheadOK' /\ UnnamedOK' /\ SealedOK' /\ WrittenOK'
  BY <1>1, <1>2 DEF CoveredOK, RestoredOK, AheadOK, UnnamedOK, SealedOK, WrittenOK
<1>5. DurableOK' /\ CancelledLateOK'
  BY <1>1, <1>2 DEF Resumable, DurableOK, CancelledLateOK, IsEarly, IsRecord
<1>6. PublishedOK'
  BY <1>1 DEF Resumable, PublishedOK, Matches, IsRecord, Names
<1>7. QED
  BY <1>3, <1>4, <1>5, <1>6 DEF Resumable

LEMMA TidyResumable ==
  ASSUME Inv, Resumable, Tidy
  PROVE  Resumable'
<1> DEFINE h == build.generation
<1>1. /\ pc = "tidy" /\ pc' = "sweep" /\ UNCHANGED <<source, ckpt, manifest, build>>
      /\ gen' = [gen EXCEPT ![h].ledger = [s \in Slots |-> 0], ![h].control = 0]
      /\ TypeOK /\ CheckpointsOK
  BY DEF Tidy, Runs, Goto, Inv, Resumable
<1>2. h \in Generations
  BY <1>1 DEF Inv, BuildOK
<1>3. \A g \in Generations : SamePages(g)
  BY <1>1, <1>2 DEF SamePages, TypeOK, GenerationContents
<1>4. CheckpointsOK'
  <2>1. \A s \in Slots : IsRecord(ckpt[s]) => gen'[ckpt[s].gen].made
    BY <1>1, <1>3, CheckpointTypes DEF CheckpointsOK, SamePages
  <2>2. ASSUME NEW s \in Slots, IsEarly(ckpt[s])
        PROVE  Safe(ckpt[s])'
    <3>1. ckpt[s].gen \in Generations /\ Safe(ckpt[s]) /\ ckpt'[s] = ckpt[s]
      BY <1>1, <2>2, CheckpointTypes DEF CheckpointsOK, IsEarly
    <3>2. SamePages(ckpt[s].gen)
      BY <1>3, <3>1
    <3>3. QED
      BY <3>1, <3>2 DEF SamePages, Safe
  <2>3. QED
    BY <1>1, <2>1, <2>2, CheckpointsKept
<1>5. h # 0 => gen'[h].made
  BY <1>1, <1>2, <1>3 DEF SamePages, Resumable, NamesOK
<1>6. QED
  BY <1>1, <1>4, <1>5, CleanupResumable

(* The generation that is kept is the one the checkpoints name.            *)
LEMMA SweepResumable ==
  ASSUME Inv, Resumable, NEW g \in Generations, Sweep(g)
  PROVE  Resumable'
<1> DEFINE h == build.generation
<1>1. /\ pc = "sweep" /\ pc' = "sweep" /\ UNCHANGED <<source, ckpt, manifest, build>>
      /\ gen' = [gen EXCEPT ![g] = NoGeneration] /\ g \notin Protected
      /\ TypeOK /\ CheckpointsOK
  BY DEF Sweep, Runs, ramVars, Unprotected, Inv, Resumable
<1>2. g # h
  <2>1. PICK s \in Slots : Matches(manifest[s], source) /\ manifest[s].gen = h
    BY <1>1 DEF Resumable, PublishedOK
  <2>2. build.slots[s] = manifest[s] /\ IsRecord(manifest[s])
    BY <1>1, <2>1 DEF Inv, SlotsOK, Matches
  <2>3. QED
    BY <1>1, <2>1, <2>2 DEF Protected
<1>3. \A k \in Generations : k # g => gen'[k] = gen[k]
  BY <1>1 DEF TypeOK
<1>4. \A s \in Slots : IsRecord(ckpt[s]) => ckpt[s].gen = h /\ h \in Generations
  BY <1>1, CheckpointTypes DEF Resumable, PublishedOK, Names
<1>5. CheckpointsOK'
  <2>1. \A s \in Slots : IsRecord(ckpt[s]) => gen'[ckpt[s].gen].made
    BY <1>1, <1>2, <1>3, <1>4 DEF CheckpointsOK
  <2>2. ASSUME NEW s \in Slots, IsEarly(ckpt[s])
        PROVE  Safe(ckpt[s])'
    <3>1. Safe(ckpt[s]) /\ ckpt'[s] = ckpt[s]
      BY <1>1, <2>2 DEF CheckpointsOK
    <3>2. gen'[ckpt[s].gen] = gen[ckpt[s].gen]
      BY <1>2, <1>3, <1>4, <2>2 DEF IsEarly
    <3>3. QED
      BY <3>1, <3>2 DEF Safe
  <2>3. QED
    BY <1>1, <2>1, <2>2, CheckpointsKept
<1>6. h # 0 => gen'[h].made
  BY <1>1, <1>2, <1>3 DEF Resumable, NamesOK, Inv, BuildOK
<1>7. QED
  BY <1>1, <1>5, <1>6, CleanupResumable

-----------------------------------------------------------------------------
(***************************************************************************)
(* Cancellation.                                                           *)
(***************************************************************************)
(* A build that has all pages has its latest page checkpoint, or the one   *)
(* it was resumed from.                                                    *)
LEMMA FinishedFacts ==
  ASSUME Inv, Resumable, pc \in {"finish", "manifest"}
  PROVE  /\ build.durable # "none" /\ ~build.emitReady
         /\ build.resumed \in Late \/ Latest.resume \in Early
<1>1. Ahead
  BY DEF Ahead, Underway, Commits
<1>2. build.durable \in Early \/ build.resumed \in Late
  BY DEF Resumable, DurableOK
<1>3. build.durable # "none"
  BY <1>2 DEF Resumable, DurableOK, Early
<1>4. build.durable \in Early => Latest.resume \in Early
  BY <1>1 DEF Resumable, AheadOK
<1>5. QED
  BY <1>2, <1>3, <1>4, NotEmitReady

LEMMA CancelAtSectionsResumable ==
  ASSUME Inv, Resumable, CancelAtSections
  PROVE  Resumable'
<1> DEFINE h == build.generation
<1>1. /\ pc = "finish" /\ pc' = "resumeOutline" /\ UNCHANGED <<source, ckpt, manifest>>
      /\ gen' = [gen EXCEPT ![h].outline = FALSE]
      /\ build' = [build EXCEPT !.durable = "sections"]
      /\ cancelRequested /\ cancelRequested' = cancelRequested
      /\ h \in Generations /\ TypeOK
  BY DEF CancelAtSections, AtBoundary, At, Goto, Inv, BuildOK
<1>2. /\ \A g \in Generations : SamePages(g)
      /\ \A g \in Generations : g # h => gen'[g] = gen[g]
  BY <1>1 DEF SamePages, TypeOK, GenerationContents
<1>3. /\ build'.cp = build.cp /\ build'.sequence = build.sequence
      /\ build'.generation = h /\ build'.resumed = build.resumed
      /\ build'.durable = "sections" /\ build'.emitReady = build.emitReady
  BY <1>1 DEF TypeOK, Builds
<1>4. /\ build.durable # "none" /\ ~build.emitReady
      /\ build.resumed \in Late \/ Latest.resume \in Early
  BY <1>1, FinishedFacts
<1>5. /\ CheckpointsOK' /\ NamesOK' /\ CoveredOK' /\ RestoredOK' /\ AheadOK'
      /\ UnnamedOK' /\ SealedOK' /\ WrittenOK' /\ Latest' = Latest
  BY <1>1, <1>2, <1>3, <1>4, FinishingKept DEF Finishing, Late
<1>6. \A G : ~Commits(G)'
  BY <1>1 DEF Commits
<1>7. DurableOK' /\ CancelledLateOK' /\ PublishedOK'
  BY <1>1, <1>3, <1>4, <1>5, <1>6 DEF DurableOK, CancelledLateOK, PublishedOK
<1>8. QED
  BY <1>5, <1>7 DEF Resumable

LEMMA ResumeOutlineResumable ==
  ASSUME Inv, Resumable, ResumeOutline
  PROVE  Resumable'
<1> DEFINE h == build.generation
<1>1. /\ pc = "resumeOutline" /\ pc' = "resumeControl"
      /\ UNCHANGED <<source, ckpt, manifest, build, cancelRequested>>
      /\ gen' = [gen EXCEPT ![h].outline = TRUE]
      /\ h \in Generations /\ TypeOK
  BY DEF ResumeOutline, At, Goto, Inv, BuildOK
<1>2. /\ \A g \in Generations : SamePages(g)
      /\ \A g \in Generations : g # h => gen'[g] = gen[g]
      /\ gen'[h].outline
  BY <1>1 DEF SamePages, TypeOK, GenerationContents
<1>3. /\ CheckpointsOK' /\ NamesOK' /\ CoveredOK' /\ RestoredOK' /\ AheadOK'
      /\ UnnamedOK' /\ SealedOK' /\ WrittenOK' /\ Latest' = Latest
  BY <1>1, <1>2, FinishingKept DEF Finishing
<1>4. ~build.emitReady /\ \A G : ~Commits(G)'
  BY <1>1, NotEmitReady DEF Commits
<1>5. DurableOK' /\ CancelledLateOK' /\ PublishedOK'
  BY <1>1, <1>2, <1>3, <1>4 DEF Resumable, DurableOK, CancelledLateOK, PublishedOK
<1>6. QED
  BY <1>3, <1>5 DEF Resumable

LEMMA ResumeControlResumable ==
  ASSUME Inv, Resumable, ResumeControl
  PROVE  Resumable'
<1> DEFINE h == build.generation
<1>1. /\ pc = "resumeControl" /\ pc' = "resumeLedger"
      /\ UNCHANGED <<source, ckpt, manifest, build, cancelRequested>>
      /\ gen' = [gen EXCEPT ![h].control = build.sequence]
      /\ h \in Generations /\ TypeOK
  BY DEF ResumeControl, At, Goto, Inv, BuildOK
<1>2. /\ \A g \in Generations : SamePages(g)
      /\ \A g \in Generations : g # h => gen'[g] = gen[g]
      /\ gen'[h].outline = gen[h].outline /\ gen'[h].control = build.sequence
  BY <1>1 DEF SamePages, TypeOK, GenerationContents
<1>3. /\ CheckpointsOK' /\ NamesOK' /\ CoveredOK' /\ RestoredOK' /\ AheadOK'
      /\ UnnamedOK' /\ SealedOK' /\ WrittenOK' /\ Latest' = Latest
  BY <1>1, <1>2, FinishingKept DEF Finishing
<1>4. ~build.emitReady /\ \A G : ~Commits(G)'
  BY <1>1, NotEmitReady DEF Commits
<1>5. LeftBehind' /\ build'.durable \in Late
  BY <1>1, <1>2 DEF Resumable, CancelledLateOK, LeftBehind, Late
<1>6. DurableOK' /\ CancelledLateOK' /\ PublishedOK'
  BY <1>1, <1>3, <1>4, <1>5 DEF Resumable, DurableOK, CancelledLateOK, PublishedOK
<1>7. QED
  BY <1>3, <1>6 DEF Resumable

LEMMA CancelAtManifestResumable ==
  ASSUME Inv, Resumable, CancelAtManifest
  PROVE  Resumable'
<1> DEFINE h == build.generation
<1>1. /\ pc = "manifest" /\ pc' = "resumeLedger" /\ UNCHANGED <<source, ckpt, manifest, gen>>
      /\ build' = [build EXCEPT !.durable = "manifest"]
      /\ cancelRequested /\ cancelRequested' = cancelRequested
      /\ h \in Generations /\ TypeOK /\ gen[h].outline
  BY DEF CancelAtManifest, At, Goto, cardVars, Inv, BuildOK
<1>2. /\ build'.cp = build.cp /\ build'.sequence = build.sequence
      /\ build'.generation = h /\ build'.resumed = build.resumed
      /\ build'.durable = "manifest" /\ build'.emitReady = build.emitReady
  BY <1>1 DEF TypeOK, Builds
<1>3. /\ build.durable # "none" /\ ~build.emitReady
      /\ build.resumed \in Late \/ Latest.resume \in Early
  BY <1>1, FinishedFacts
<1>4. /\ CheckpointsOK' /\ NamesOK' /\ CoveredOK' /\ RestoredOK' /\ AheadOK'
      /\ UnnamedOK' /\ SealedOK' /\ WrittenOK' /\ Latest' = Latest
  BY <1>1, <1>2, <1>3, FinishingKept DEF Finishing, Late, SamePages
<1>5. \A G : ~Commits(G)'
  BY <1>1 DEF Commits
<1>6. LeftBehind' /\ build'.durable \in Late
  BY <1>1, <1>2 DEF LeftBehind, Late
<1>7. DurableOK' /\ CancelledLateOK' /\ PublishedOK'
  BY <1>1, <1>2, <1>3, <1>4, <1>5, <1>6 DEF DurableOK, CancelledLateOK, PublishedOK
<1>8. QED
  BY <1>4, <1>7 DEF Resumable

LEMMA ResumeLedgerResumable ==
  ASSUME Inv, Resumable, ResumeLedger
  PROVE  Resumable'
<1> DEFINE h == build.generation
           t == SlotOf(build.sequence)
<1>1. /\ pc = "resumeLedger" /\ pc' = "cpOpen"
      /\ UNCHANGED <<source, ckpt, manifest, cancelRequested>>
      /\ gen' = [gen EXCEPT ![h].ledger[t] = build.sequence]
      /\ build' = [[build EXCEPT !.ready = TRUE, !.emitReady = build.durable = "sections"]
                     EXCEPT !.goal = "cancelled"]
      /\ h \in Generations /\ TypeOK /\ Stands(Pages) /\ t \in Slots
  BY ConstantFacts DEF ResumeLedger, At, Goto, StartCheckpoint, Inv, BuildOK
<1>2. /\ \A g \in Generations : SamePages(g)
      /\ \A g \in Generations : g # h => gen'[g] = gen[g]
      /\ gen'[h].outline = gen[h].outline /\ gen'[h].control = gen[h].control
      /\ gen'[h].ledger[t] = build.sequence
  <2> HIDE DEF t
  <2>1. gen'[h] = [gen[h] EXCEPT !.ledger[t] = build.sequence]
        /\ \A g \in Generations : g # h => gen'[g] = gen[g]
    BY <1>1 DEF TypeOK
  <2>2. gen[h] \in GenerationContents /\ gen[h].ledger \in [Slots -> Nat]
    BY <1>1, GenerationTypes
  <2>3. /\ gen'[h].outline = gen[h].outline /\ gen'[h].control = gen[h].control
        /\ gen'[h].ledger[t] = build.sequence /\ SamePages(h)
    BY <1>1, <2>1, <2>2 DEF SamePages, GenerationContents
  <2>4. QED
    BY <2>1, <2>3 DEF SamePages
<1>3. /\ build'.cp = build.cp /\ build'.sequence = build.sequence
      /\ build'.generation = h /\ build'.resumed = build.resumed /\ build'.ready
      /\ build'.durable = build.durable /\ build'.emitReady = (build.durable = "sections")
      /\ build'.goal = "cancelled"
  BY <1>1 DEF TypeOK, Builds
<1>4. /\ CheckpointsOK' /\ NamesOK' /\ CoveredOK' /\ RestoredOK' /\ AheadOK'
      /\ UnnamedOK' /\ SealedOK' /\ WrittenOK' /\ Latest' = Latest
  BY <1>1, <1>2, <1>3, FinishingKept DEF Finishing, Early
<1>5. Commits({"cancelled"})' /\ ~Commits({"discovery"})' /\ ~Commits({"page"})'
      /\ ~Commits({"complete"})'
  BY <1>1, <1>3 DEF Commits
<1>6. DurableOK' /\ PublishedOK'
  BY <1>1, <1>3, <1>5 DEF Resumable, DurableOK, PublishedOK
<1>7. LeftBehind' /\ Stands(Pages)' /\ gen'[h].ledger[t] = build.sequence
  <2>1. LeftBehind
    BY <1>1 DEF Resumable, CancelledLateOK
  <2>2. SamePages(h)
    BY <1>1, <1>2
  <2>3. QED
    BY <1>1, <1>2, <1>3, <2>1, <2>2 DEF LeftBehind, Stands, SamePages, PagesOf
<1>8. CancelledLateOK'
  BY <1>1, <1>3, <1>5, <1>7 DEF Resumable, CancelledLateOK
<1>9. QED
  BY <1>4, <1>6, <1>8 DEF Resumable

(* A cancellation anywhere else: the checkpoint it writes republishes what *)
(* is durable, and promises nothing once the product is published.         *)
LEMMA CancelElsewhereResumable ==
  ASSUME Inv, Resumable, CancelElsewhere
  PROVE  Resumable'
<1> DEFINE h == build.generation
<1>1. /\ pc \in {"discover", "emit", "outline", "writeManifest", "verify", "tidy",
                  "sweep", "finish", "cpOpen", "cpWrite"}
      /\ pc \in {"cpOpen", "cpWrite"} => build.goal = "complete"
      /\ pc' = "cpOpen" /\ cancelRequested /\ cancelRequested' = cancelRequested
      /\ build' = [[build EXCEPT !.writer = FALSE] EXCEPT !.goal = "cancelled"]
      /\ AbortWriter \/ UNCHANGED gen
      /\ ~Unverified => UNCHANGED manifest
      /\ UNCHANGED <<source, ckpt>>
  BY DEF CancelElsewhere, StartCheckpoint, Goto, At
<1>2. /\ build'.cp = build.cp /\ build'.sequence = build.sequence
      /\ build'.generation = h /\ build'.resumed = build.resumed
      /\ build'.durable = build.durable /\ build'.emitReady = build.emitReady
      /\ build'.goal = "cancelled"
  BY <1>1 DEF Inv, TypeOK, Builds
<1>3. /\ ~Commits({"cancelled"}) /\ Underway' /\ Commits({"cancelled"})'
      /\ ~Commits(Early)' /\ ~Commits({"page"})' /\ ~Commits({"discovery"})'
      /\ ~Commits({"complete"})'
  BY <1>1, <1>2 DEF Commits, Underway, Early
<1>4. /\ \A g \in Generations : gen'[g].made = gen[g].made
      /\ \A g \in Generations : g # h => gen'[g] = gen[g]
      /\ \A c \in SlotContents : IsEarly(c) /\ Safe(c) => Safe(c)'
  BY <1>1, AbortKeepsPages DEF Safe
<1>5. \A s \in Slots : IsEarly(ckpt[s]) => Safe(ckpt[s])'
  <2> SUFFICES ASSUME NEW s \in Slots, IsEarly(ckpt[s])
               PROVE  Safe(ckpt[s])'
    OBVIOUS
  <2>1. PICK c \in SlotContents : c = ckpt[s]
    BY CheckpointTypes DEF Inv
  <2>2. Safe(c)'
    BY <1>4, <2>1 DEF Resumable, CheckpointsOK
  <2>3. QED
    BY <1>1, <2>1, <2>2 DEF Safe
<1>6. CheckpointsOK' /\ NamesOK' /\ RestoredOK' /\ AheadOK' /\ UnnamedOK' /\ WrittenOK'
  <2>1. CASE pc \in {"tidy", "sweep", "cpWrite"}
    <3>1. \E s \in Slots : Matches(manifest[s], source)
      BY <1>1, <2>1 DEF Resumable, PublishedOK, Commits
    <3>2. source \in Have'
      BY <1>1, <2>1, <3>1 DEF Have, Published, Matches, IsRecord, Unverified
    <3>3. ~IsEarly(build.cp)
      BY <1>1, <2>1 DEF Resumable, DurableOK, WrittenOK, IsEarly, Early
    <3>4. ~Ahead'
      BY <1>1, <1>2, <1>3, <3>2, <3>3 DEF Ahead, IsEarly, IsRecord
    <3>5. CheckpointsOK'
      BY <1>1, <1>4, <1>5, CheckpointTypes, CheckpointsKept DEF Inv, Resumable, CheckpointsOK
    <3>6. NamesOK'
      <4>1. h # 0 => h \in Generations
        BY BuildTypes DEF Inv
      <4>2. QED
        BY <1>1, <1>2, <1>4, <3>3, <4>1 DEF Resumable, NamesOK, Names, IsEarly, IsRecord
    <3>7. RestoredOK' /\ AheadOK' /\ UnnamedOK' /\ WrittenOK'
      BY <1>1, <3>4 DEF RestoredOK, AheadOK, UnnamedOK, WrittenOK
    <3>8. QED
      BY <3>5, <3>6, <3>7
  <2>2. CASE pc \notin {"tidy", "sweep", "cpWrite"}
    <3>1. Underway
      BY <1>1, <2>2 DEF Underway
    <3>2. QED
      BY <1>1, <1>2, <1>3, <1>4, <1>5, <2>2, <3>1, Carried
  <2>3. QED
    BY <2>1, <2>2
<1>7. CoveredOK' /\ SealedOK' /\ PublishedOK'
  BY <1>1, <1>3 DEF CoveredOK, SealedOK, PublishedOK
<1>8. DurableOK'
  BY <1>1, <1>2, <1>3 DEF Resumable, DurableOK
<1>9. CancelledLateOK'
  <2>1. ~build.emitReady
    BY <1>3 DEF Resumable, CancelledLateOK
  <2>2. build.durable \notin Late \/ build.resumed \in Late
    BY <1>1 DEF Resumable, DurableOK, Commits, Early, Late
  <2>3. QED
    BY <1>1, <1>2, <1>3, <2>1, <2>2 DEF CancelledLateOK
<1>10. QED
  BY <1>6, <1>7, <1>8, <1>9 DEF Resumable

-----------------------------------------------------------------------------
(***************************************************************************)
(* The invariant.                                                          *)
(***************************************************************************)
LEMMA InitResumable == Init => Resumable
<1> SUFFICES ASSUME Init PROVE Resumable
  OBVIOUS
<1>1. /\ pc = "idle" /\ build = NoBuild /\ \A s \in Slots : ckpt[s] = Absent
  BY DEF Init
<1>2. build.generation = 0 /\ build.cp = Absent /\ build.resumed = "none" /\ ~build.emitReady
      /\ build.durable = "none"
  BY <1>1 DEF NoBuild
<1>3. ~IsRecord(Absent) /\ ~IsEarly(Absent)
  BY SlotContentsFacts DEF IsEarly
<1>4. (\A G : ~Commits(G)) /\ ~Underway /\ ~Ahead
  BY <1>1 DEF Commits, Underway, Ahead
<1>5. CheckpointsOK /\ NamesOK
  BY <1>1, <1>2, <1>3 DEF CheckpointsOK, NamesOK, Names
<1>6. CoveredOK /\ RestoredOK /\ AheadOK /\ UnnamedOK
  BY <1>1, <1>4 DEF CoveredOK, RestoredOK, AheadOK, UnnamedOK
<1>7. DurableOK /\ SealedOK /\ WrittenOK
  BY <1>1, <1>2, <1>4 DEF DurableOK, SealedOK, WrittenOK, Late
<1>8. CancelledLateOK /\ PublishedOK
  BY <1>1, <1>2, <1>4 DEF CancelledLateOK, PublishedOK
<1>9. QED
  BY <1>5, <1>6, <1>7, <1>8 DEF Resumable

LEMMA StutterResumable ==
  ASSUME Resumable, UNCHANGED vars
  PROVE  Resumable'
<1>1. UNCHANGED <<source, ckpt, manifest, gen, pc, build, cancelRequested>>
  BY DEF vars, cardVars, ramVars
<1>2. /\ \A c : Names(c)' <=> Names(c)
      /\ \A c : (EarlyHolds(c)' <=> EarlyHolds(c)) /\ (LateHolds(c)' <=> LateHolds(c))
      /\ \A c : Safe(c)' <=> Safe(c)
      /\ \A G : Commits(G)' <=> Commits(G)
      /\ TargetSlot' = TargetSlot /\ Latest' = Latest /\ (Underway' <=> Underway)
      /\ (\A n : Stands(n)' <=> Stands(n)) /\ (LeftBehind' <=> LeftBehind)
  BY <1>1, SameLatest DEF Names, EarlyHolds, LateHolds, Safe, Commits, TargetSlot,
                          Underway, Stands, LeftBehind
<1>3. Ahead' <=> Ahead
  BY <1>1, <1>2 DEF Ahead, Have, Published
<1>4. CheckpointsOK' /\ NamesOK' /\ CoveredOK'
  BY <1>1, <1>2 DEF Resumable, CheckpointsOK, NamesOK, CoveredOK, Commits
<1>5. RestoredOK' /\ AheadOK' /\ UnnamedOK' /\ DurableOK'
  BY <1>1, <1>2, <1>3 DEF Resumable, RestoredOK, AheadOK, UnnamedOK, DurableOK, Commits
<1>6. SealedOK' /\ WrittenOK' /\ CancelledLateOK' /\ PublishedOK'
  BY <1>1, <1>2 DEF Resumable, SealedOK, WrittenOK, CancelledLateOK, PublishedOK, Commits
<1>7. QED
  BY <1>4, <1>5, <1>6 DEF Resumable

LEMMA NextResumable ==
  ASSUME Inv, Resumable, [Next]_vars
  PROVE  Resumable'
<1>1. CASE Setup
  BY <1>1, LoadResumable, RestoreEarlyResumable, RestoreLateResumable, RejectResumable,
     SelectResumable, FailResumable DEF Setup, SelectFails
<1>2. CASE Emission
  BY <1>2, DiscoverResumable, SnapshotResumable, EmitPageResumable, RecordResumable,
     SealResumable, CpOpenResumable, CpWriteResumable DEF Emission
<1>3. CASE Commit
  <2>1. Complete => Resumable'
    BY ExitResumable DEF Complete, End, cardVars
  <2>2. QED
    BY <1>3, <2>1, CloseSourceResumable, OutlineResumable, OpenManifestResumable,
       WriteManifestResumable, VerifyManifestResumable, TidyResumable, SweepResumable,
       FailResumable DEF Commit, SweepFails
<1>4. CASE Cancellation
  <2>1. StopSetup => Resumable'
    BY ExitResumable DEF StopSetup, End, cardVars
  <2>2. QED
    BY <1>4, <2>1, CancelAtSectionsResumable, ResumeOutlineResumable,
       ResumeControlResumable, CancelAtManifestResumable, ResumeLedgerResumable,
       CancelElsewhereResumable DEF Cancellation
<1>5. CASE User
  <2>1. Exit => Resumable'
    BY ExitResumable DEF Exit, End
  <2>2. QED
    BY <1>5, <2>1, OpenResumable, RequestCancelResumable, ReplaceResumable DEF User
<1>6. CASE IoFails
  BY <1>6, FailResumable DEF IoFails
<1>7. CASE PowerLoss
  BY <1>7, PowerLossResumable
<1>8. CASE UNCHANGED vars
  BY <1>8, StutterResumable
<1>9. QED
  BY <1>1, <1>2, <1>3, <1>4, <1>5, <1>6, <1>7, <1>8 DEF Next, Step

LEMMA ResumableInvariance == Spec => [](Inv /\ Resumable)
<1>1. Init => Inv /\ Resumable
  BY InitInv, InitResumable
<1>2. Inv /\ Resumable /\ [Next]_vars => (Inv /\ Resumable)'
  BY NextInv, NextResumable
<1>3. QED
  BY <1>1, <1>2, PTL DEF Spec

-----------------------------------------------------------------------------
(***************************************************************************)
(* What has been published is kept.                                        *)
(***************************************************************************)
(* What a checkpoint is worth.                                             *)
LEMMA GradeFacts ==
  ASSUME NEW c \in SlotContents
  PROVE  /\ Grade(c) \in Nat /\ Grade(c) <= Pages + 2
         /\ EarlyHolds(c) =>
              /\ ~LateHolds(c) /\ Grade(c) <= Pages + 1
              /\ c.resume = "discovery" => Grade(c) = 1
              /\ c.resume = "page" => Grade(c) = 1 + c.page
         /\ LateHolds(c) => Grade(c) = Pages + 2
         /\ ~EarlyHolds(c) /\ ~LateHolds(c) => Grade(c) = 0
<1>1. c.page \in Nat /\ c.page <= Pages /\ Pages \in Nat /\ Pages >= 1
  BY SlotContentsFacts, ConstantFacts
<1>2. ~(EarlyHolds(c) /\ LateHolds(c))
  BY DEF EarlyHolds, LateHolds, Early, Late
<1>3. EarlyHolds(c) => c.resume = "discovery" \/ c.resume = "page"
  BY DEF EarlyHolds, Early
<1>4. CASE EarlyHolds(c)
  BY <1>1, <1>2, <1>3, <1>4 DEF Grade
<1>5. CASE LateHolds(c)
  BY <1>1, <1>2, <1>5 DEF Grade
<1>6. CASE ~EarlyHolds(c) /\ ~LateHolds(c)
  BY <1>1, <1>6 DEF Grade
<1>7. QED
  BY <1>4, <1>5, <1>6

(* The grade of a checkpoint in the next state.                            *)
LEMMA NextGrade ==
  ASSUME NEW c \in SlotContents, c = Latest'
  PROVE  /\ Grade(Latest)' \in Nat /\ Grade(Latest)' <= Pages + 2
         /\ EarlyHolds(Latest)' =>
              /\ c.resume = "discovery" => Grade(Latest)' = 1
              /\ c.resume = "page" => Grade(Latest)' = 1 + c.page
         /\ LateHolds(Latest)' => Grade(Latest)' = Pages + 2
<1>1. c.page \in Nat /\ c.page <= Pages /\ Pages \in Nat /\ Pages >= 1
  BY SlotContentsFacts, ConstantFacts
<1>2. ~(EarlyHolds(Latest)' /\ LateHolds(Latest)')
  BY DEF EarlyHolds, LateHolds, Early, Late
<1>3. EarlyHolds(Latest)' => c.resume = "discovery" \/ c.resume = "page"
  BY DEF EarlyHolds, Early
<1>4. CASE EarlyHolds(Latest)'
  BY <1>1, <1>2, <1>3, <1>4 DEF Grade
<1>5. CASE LateHolds(Latest)'
  BY <1>1, <1>2, <1>5 DEF Grade
<1>6. CASE ~EarlyHolds(Latest)' /\ ~LateHolds(Latest)'
  BY <1>1, <1>6 DEF Grade
<1>7. QED
  BY <1>4, <1>5, <1>6

Kept == Grade(Latest)' >= Grade(Latest)

LEMMA LatestTypes ==
  ASSUME Inv, Resumable
  PROVE  /\ Latest \in SlotContents /\ TypeOK /\ CheckpointsOK
         /\ EarlyHolds(Latest) \/ LateHolds(Latest) =>
              IsRecord(Latest) /\ Latest.gen \in Generations /\ Latest.src = source
<1>1. Latest \in SlotContents /\ TypeOK /\ CheckpointsOK
  BY LatestFacts DEF Inv, Resumable
<1>2. EarlyHolds(Latest) \/ LateHolds(Latest) => Latest.resume # "none"
  BY DEF EarlyHolds, LateHolds, Early, Late
<1>3. QED
  BY <1>1, <1>2, LatestFacts, SlotContentsFacts

LEMMA HoldsKept ==
  ASSUME Inv, Resumable, UNCHANGED <<source, ckpt>>,
         EarlyHolds(Latest) => EarlyHolds(Latest)',
         LateHolds(Latest) => LateHolds(Latest)'
  PROVE  Kept
<1>1. Latest \in SlotContents /\ Latest' = Latest
  BY LatestTypes, SameLatest
<1>2. Grade(Latest)' \in Nat
  BY <1>1, NextGrade
<1>3. CASE EarlyHolds(Latest)
  <2>1. Latest.resume = "discovery" \/ Latest.resume = "page"
    BY <1>3 DEF EarlyHolds, Early
  <2>2. Grade(Latest)' = Grade(Latest)
    BY <1>1, <1>3, <2>1, GradeFacts, NextGrade
  <2>3. QED
    BY <1>2, <2>2 DEF Kept
<1>4. CASE LateHolds(Latest)
  <2>1. Grade(Latest)' = Pages + 2 /\ Grade(Latest) = Pages + 2
    BY <1>1, <1>4, GradeFacts, NextGrade
  <2>2. QED
    BY <1>2, <2>1 DEF Kept
<1>5. CASE ~EarlyHolds(Latest) /\ ~LateHolds(Latest)
  BY <1>1, <1>2, <1>5, GradeFacts DEF Kept
<1>6. QED
  BY <1>3, <1>4, <1>5

(* A step that leaves the checkpoints and the generations.                 *)
LEMMA SameFilesKept ==
  ASSUME Inv, Resumable, UNCHANGED <<source, ckpt, gen>>
  PROVE  Kept
<1>1. Latest' = Latest
  BY SameLatest
<1>2. QED
  BY <1>1, HoldsKept DEF EarlyHolds, LateHolds

(* A page checkpoint that holds afterwards was never worth more.           *)
LEMMA EarlyKept ==
  ASSUME Inv, Resumable, UNCHANGED <<source, ckpt>>, EarlyHolds(Latest)'
  PROVE  Kept
<1>1. ~LateHolds(Latest)
  BY SameLatest DEF EarlyHolds, LateHolds, Early, Late
<1>2. QED
  BY <1>1, HoldsKept

(* Nothing was promised.                                                   *)
LEMMA NothingKept ==
  ASSUME Inv, Resumable, ~EarlyHolds(Latest), ~LateHolds(Latest), Inv'
  PROVE  Kept
<1>1. Grade(Latest) = 0
  BY LatestTypes, GradeFacts
<1>2. PICK c \in SlotContents : c = Latest'
  BY NewestFacts DEF Inv, TypeOK, Latest
<1>3. QED
  BY <1>1, <1>2, NextGrade DEF Kept

LEMMA CutTwice ==
  ASSUME NEW S, NEW q \in Seq(S), NEW n \in Nat, NEW m \in Nat, m <= n, n <= Len(q)
  PROVE  /\ Len(SubSeq(q, 1, n)) = n
         /\ SubSeq(SubSeq(q, 1, n), 1, m) = SubSeq(q, 1, m)
<1>1. SubSeq(q, 1, n) \in Seq(S) /\ Len(SubSeq(q, 1, n)) = n
      /\ \A i \in 1..n : SubSeq(q, 1, n)[i] = q[i]
  BY SubSeqProperties
<1>2. /\ SubSeq(q, 1, m) \in Seq(S) /\ Len(SubSeq(q, 1, m)) = m
      /\ \A i \in 1..m : SubSeq(q, 1, m)[i] = q[i]
  BY SubSeqProperties
<1> DEFINE r == SubSeq(q, 1, n)
<1> HIDE DEF r
<1>3. /\ SubSeq(r, 1, m) \in Seq(S) /\ Len(SubSeq(r, 1, m)) = m
      /\ \A i \in 1..m : SubSeq(r, 1, m)[i] = r[i]
  BY <1>1, SubSeqProperties DEF r
<1>4. QED
  BY <1>1, <1>2, <1>3, SeqEqual DEF r

(***************************************************************************)
(* The steps, as long as the version has no product.                       *)
(***************************************************************************)
LEMMA RestoreEarlyKept ==
  ASSUME Inv, Resumable, RestoreEarly, Resumable'
  PROVE  Kept
<1>1. /\ pc' = "select" /\ UNCHANGED <<source, ckpt>> /\ TypeOK
      /\ build'.resumed \in Early
  BY DEF RestoreEarly, At, Goto, EarlyHolds, Inv, TypeOK, Builds
<1>2. EarlyHolds(build.cp)' /\ build'.cp = Latest'
  BY <1>1 DEF Resumable, RestoredOK
<1>3. EarlyHolds(Latest)'
  BY <1>2 DEF EarlyHolds
<1>4. QED
  BY <1>1, <1>3, EarlyKept

LEMMA SelectKept ==
  ASSUME Inv, Resumable, Select
  PROVE  Kept
<1>1. PICK g : gen' = [gen EXCEPT ![g].made = TRUE]
  BY DEF Select
<1>2. UNCHANGED <<source, ckpt>> /\ Latest' = Latest /\ TypeOK
  BY SameLatest DEF Select, Inv
<1>3. \A k \in Generations :
        /\ gen[k].made => gen'[k].made
        /\ gen'[k].head = gen[k].head /\ gen'[k].recs = gen[k].recs
        /\ gen'[k].sections = gen[k].sections /\ gen'[k].outline = gen[k].outline
        /\ gen'[k].ledger = gen[k].ledger /\ gen'[k].control = gen[k].control
  BY <1>1, <1>2 DEF TypeOK, GenerationContents
<1>4. QED
  BY <1>2, <1>3, LatestTypes, HoldsKept DEF EarlyHolds, LateHolds

(* The outline is written.                                                 *)
LEMMA OutlineKept ==
  ASSUME Inv, Resumable, Outline \/ ResumeOutline
  PROVE  Kept
<1>1. UNCHANGED <<source, ckpt>> /\ Latest' = Latest /\ TypeOK
      /\ gen' = [gen EXCEPT ![build.generation].outline = TRUE]
  BY SameLatest DEF Outline, ResumeOutline, Inv
<1>2. \A k \in Generations :
        /\ gen'[k].made = gen[k].made
        /\ gen'[k].head = gen[k].head /\ gen'[k].recs = gen[k].recs
        /\ gen'[k].sections = gen[k].sections /\ (gen[k].outline => gen'[k].outline)
        /\ gen'[k].ledger = gen[k].ledger /\ gen'[k].control = gen[k].control
  BY <1>1 DEF TypeOK, GenerationContents
<1>3. QED
  BY <1>1, <1>2, LatestTypes, HoldsKept DEF EarlyHolds, LateHolds

(* While pages are emitted, the latest checkpoint holds before and after.  *)
LEMMA EmitKept ==
  ASSUME Inv, Resumable, Resumable',
         (\E due \in BOOLEAN : EmitPage(due)) \/ Record \/ Seal
  PROVE  Kept
<1>1. /\ pc \in {"emit", "record", "seal"} /\ UNCHANGED <<source, ckpt>>
      /\ pc' \in {"emit", "record", "seal", "finish"} \/ (pc' = "cpOpen" /\ build'.goal = "page")
      /\ build'.durable = build.durable
  BY DEF EmitPage, Record, Seal, Runs, At, Goto, NextPage, StartCheckpoint, Inv, TypeOK, Builds
<1>2. ~Commits({"cancelled"})' /\ Underway'
  BY <1>1 DEF Commits, Underway
<1>3. Ahead' /\ build.durable \in Early
  BY <1>1, <1>2, EmissionFacts DEF Ahead
<1>4. EarlyHolds(Latest)'
  BY <1>1, <1>2, <1>3 DEF Resumable, AheadOK
<1>5. QED
  BY <1>1, <1>4, EarlyKept

LEMMA SnapshotKept ==
  ASSUME Inv, Resumable, Snapshot, Inv'
  PROVE  Kept
<1>1. pc = "snapshot"
  BY DEF Snapshot, At
<1>2. Ahead /\ build.durable = "none"
  BY <1>1 DEF Ahead, Underway, Commits, Resumable, DurableOK
<1>3. QED
  BY <1>2, NothingKept DEF Resumable, UnnamedOK

(* The files a late cancellation writes are of no use to a page checkpoint *)
(* and take the place of those of a late one.                              *)
LEMMA CancelLateKept ==
  ASSUME Inv, Resumable, CancelAtSections \/ ResumeControl \/ ResumeLedger
  PROVE  Kept \/ (build.resumed \in Late /\ cancelRequested)
<1>1. /\ UNCHANGED <<source, ckpt>> /\ Latest' = Latest /\ TypeOK
      /\ build.resumed \in Late \/ Latest.resume \in Early
      /\ cancelRequested
  <2>1. CASE CancelAtSections
    BY <2>1, FinishedFacts, SameLatest DEF CancelAtSections, AtBoundary, At, Inv
  <2>2. CASE ResumeControl \/ ResumeLedger
    BY <2>2, SameLatest DEF ResumeControl, ResumeLedger, At, Inv, Resumable, CancelledLateOK
  <2>3. QED
    BY <2>1, <2>2
<1>2. \A k \in Generations :
        /\ gen'[k].made = gen[k].made /\ gen'[k].head = gen[k].head
        /\ gen'[k].recs = gen[k].recs /\ gen'[k].sections = gen[k].sections
  <2> DEFINE h == build.generation
  <2>1. CASE CancelAtSections
    BY <1>1, <2>1 DEF CancelAtSections, TypeOK, GenerationContents
  <2>2. CASE ResumeControl
    BY <1>1, <2>2 DEF ResumeControl, TypeOK, GenerationContents
  <2>3. CASE ResumeLedger
    <3>1. gen' = [gen EXCEPT ![h].ledger[SlotOf(build.sequence)] = build.sequence]
      BY <2>3 DEF ResumeLedger
    <3>2. ASSUME NEW k \in Generations
          PROVE  gen'[k] = gen[k] \/ \E l : gen'[k] = [gen[k] EXCEPT !.ledger = l]
      BY <1>1, <3>1 DEF TypeOK
    <3>3. QED
      BY <1>1, <3>2, GenerationTypes DEF GenerationContents
  <2>4. QED
    BY <2>1, <2>2, <2>3
<1>3. CASE Latest.resume \in Early
  <2>1. ~LateHolds(Latest)
    BY <1>3 DEF LateHolds, Early, Late
  <2>2. EarlyHolds(Latest) => EarlyHolds(Latest)'
    BY <1>1, <1>2, LatestTypes DEF EarlyHolds
  <2>3. QED
    BY <1>1, <2>1, <2>2, HoldsKept
<1>4. QED
  BY <1>1, <1>3

(* No section file is open.                                                *)
LEMMA AbortKept ==
  ASSUME Inv, Resumable, UNCHANGED <<source, ckpt>>, AbortWriter \/ UNCHANGED gen,
         ~build.writer
  PROVE  Kept
BY AbortKeepsPages, SameFilesKept

(* What a checkpoint promises is on the card, synchronized.                *)
LEMMA PowerLossKept ==
  ASSUME Inv, Resumable, PowerLoss
  PROVE  Kept
<1> DEFINE h == build.generation
           d == gen[h]
           q == d.sections
<1>1. UNCHANGED <<source, ckpt>> /\ Latest' = Latest /\ TypeOK
  BY SameLatest DEF PowerLoss, Inv
<1>2. CASE UNCHANGED gen
  BY <1>1, <1>2, SameFilesKept
<1>3. CASE ~UNCHANGED gen
  <2>1. PICK n \in d.synced..Len(q), k \in d.sealed..d.recs :
          /\ h # 0
          /\ gen' = [gen EXCEPT ![h].sections = SubSeq(@, 1, n), ![h].recs = k]
    BY <1>3 DEF PowerLoss
  <2>2. h \in Generations
    BY <1>1, <2>1, BuildTypes
  <2>3. /\ d \in GenerationContents /\ q \in Seq(Sources \X (1..Pages))
        /\ d.synced \in Nat /\ d.recs \in Nat /\ d.sealed \in Nat
        /\ n \in Nat /\ n >= d.synced /\ n <= Len(q) /\ k \in Nat /\ k >= d.sealed
        /\ (Len(q) = Pages => d.synced = Pages)
    <3>1. /\ d \in GenerationContents /\ q \in Seq(Sources \X (1..Pages))
          /\ d.synced \in Nat /\ d.recs \in 0..Pages /\ d.sealed \in 0..Pages /\ GenOK(d)
      BY <1>1, <2>2, GenerationTypes DEF Inv, GensOK
    <3> HIDE DEF d, h
    <3>2. QED
      BY <3>1 DEF GenOK
  <2>4. /\ gen'[h].made = d.made /\ gen'[h].head = d.head /\ gen'[h].recs = k
        /\ gen'[h].sections = SubSeq(q, 1, n) /\ gen'[h].outline = d.outline
        /\ gen'[h].ledger = d.ledger /\ gen'[h].control = d.control
        /\ \A g \in Generations : g # h => gen'[g] = gen[g]
    BY <1>1, <2>1, <2>2, <2>3 DEF TypeOK, GenerationContents
  <2> HIDE DEF h, d, q
  <2>5. EarlyHolds(Latest) => EarlyHolds(Latest)'
    <3> SUFFICES ASSUME EarlyHolds(Latest) PROVE EarlyHolds(Latest)'
      OBVIOUS
    <3>1. IsRecord(Latest) /\ Latest.gen \in Generations /\ Latest.page \in Nat
      BY LatestTypes, SlotContentsFacts, ConstantFacts
    <3>2. CASE Latest.gen # h
      BY <1>1, <2>4, <3>1, <3>2 DEF EarlyHolds
    <3>3. CASE Latest.gen = h
      <4>1. Safe(Latest)
        <5>1. SlotOf(Latest.seq) \in Slots /\ ckpt[SlotOf(Latest.seq)] = Latest
          BY <3>1, LatestTypes, LatestFacts, ConstantFacts
        <5>2. IsEarly(Latest) /\ CheckpointsOK
          BY <3>1, LatestTypes DEF EarlyHolds, IsEarly
        <5>3. QED
          BY <5>1, <5>2 DEF CheckpointsOK
      <4>2. /\ d.sealed >= Latest.page /\ (d.synced >= Latest.page \/ Len(q) < Latest.page)
            /\ Len(q) >= Latest.page /\ SubSeq(q, 1, Latest.page) = PagesOf(Latest.src, Latest.page)
            /\ d.made /\ d.head = Latest.src
            /\ Latest.resume \in Early /\ Latest.phase \in {"pages", "cancelled"}
        BY <3>3, <4>1 DEF Safe, EarlyHolds, d, q, h
      <4>3. n >= Latest.page /\ k >= Latest.page
        BY <2>3, <3>1, <4>2
      <4>4. /\ Len(SubSeq(q, 1, n)) = n
            /\ SubSeq(SubSeq(q, 1, n), 1, Latest.page) = SubSeq(q, 1, Latest.page)
        BY <2>3, <3>1, <4>3, CutTwice
      <4>5. QED
        BY <1>1, <2>3, <2>4, <3>1, <3>3, <4>2, <4>3, <4>4 DEF EarlyHolds
    <3>4. QED
      BY <3>2, <3>3
  <2>6. LateHolds(Latest) => LateHolds(Latest)'
    <3> SUFFICES ASSUME LateHolds(Latest) PROVE LateHolds(Latest)'
      OBVIOUS
    <3>1. Latest.gen \in Generations /\ Latest.src \in Sources
      BY <1>1, LatestTypes DEF TypeOK
    <3>2. CASE Latest.gen # h
      BY <1>1, <2>4, <3>1, <3>2 DEF LateHolds
    <3>3. CASE Latest.gen = h
      <4>1. q = PagesOf(Latest.src, Pages)
        BY <3>3 DEF LateHolds, d, q, h
      <4>2. Len(q) = Pages
        BY <3>1, <4>1, PagesOfFacts, ConstantFacts
      <4>3. n = Len(q)
        BY <2>3, <4>2, ConstantFacts
      <4>4. SubSeq(q, 1, n) = q
        BY <2>3, <4>3
      <4>5. QED
        BY <1>1, <2>4, <3>3, <4>4 DEF LateHolds, d, q, h
    <3>4. QED
      BY <3>2, <3>3
  <2>7. QED
    BY <1>1, <2>5, <2>6, HoldsKept
<1>4. QED
  BY <1>2, <1>3

(* The slot that is opened is not the one of the latest checkpoint.        *)
LEMMA CpOpenKept ==
  ASSUME Inv, Resumable, CpOpen
  PROVE  Kept \/ source \in Have
<1>1. /\ pc = "cpOpen" /\ ckpt' = [ckpt EXCEPT ![SlotOf(build.sequence)] = Torn]
      /\ UNCHANGED <<source, gen>>
  BY DEF CpOpen, CommitsCheckpoint, At
<1>2. CASE Ahead
  <2>1. Latest' = Latest
    BY <1>1, <1>2, LatestTypes, OpenedLatest DEF Resumable, AheadOK
  <2>2. (EarlyHolds(Latest)' <=> EarlyHolds(Latest)) /\ (LateHolds(Latest)' <=> LateHolds(Latest))
    BY <1>1, <2>1 DEF EarlyHolds, LateHolds
  <2>3. Grade(Latest)' = Grade(Latest)
    BY <2>1, <2>2 DEF Grade
  <2>4. Grade(Latest) \in Nat
    BY LatestTypes, GradeFacts
  <2>5. QED
    BY <2>3, <2>4 DEF Kept
<1>3. CASE ~Ahead
  BY <1>1, <1>3 DEF Ahead, Underway
<1>4. QED
  BY <1>2, <1>3

(* The checkpoint of a late cancellation holds.                            *)
LEMMA LateCheckpointHolds ==
  ASSUME Inv, Resumable, pc = "cpWrite", build.goal = "cancelled",
         build.durable \in Late, build.resumed \notin Late
  PROVE  LateHolds(build.cp)
<1> DEFINE c == build.cp
           d == gen[build.generation]
<1>1. Commits({"cancelled"})
  BY DEF Commits
<1>2. /\ LeftBehind /\ Stands(Pages) /\ d.ledger[SlotOf(build.sequence)] = build.sequence
      /\ c.resume = build.durable /\ c.phase = "cancelled"
  BY <1>1 DEF Resumable, CancelledLateOK
<1>3. c.seq = build.sequence /\ c.gen = build.generation /\ c.src = source
  BY DEF Resumable, WrittenOK
<1>4. d.made
  BY ConstantFacts DEF Resumable, NamesOK, Inv, BuildOK
<1>5. QED
  BY <1>2, <1>3, <1>4 DEF LateHolds, LeftBehind, Stands

(* The checkpoint that is written promises no less than the one before it. *)
LEMMA CpWriteKept ==
  ASSUME Inv, Resumable, CpWrite, Inv', Resumable'
  PROVE  Kept \/ source \in Have \/ (build.resumed \in Late /\ cancelRequested)
<1> DEFINE c == build.cp
<1>1. /\ pc = "cpWrite" /\ ckpt' = [ckpt EXCEPT ![SlotOf(build.sequence)] = c]
      /\ UNCHANGED <<source, gen>>
  BY DEF CpWrite, CommitsCheckpoint, At
<1>2. build.goal \in {"discovery", "page", "complete", "cancelled"} /\ c \in SlotContents
      /\ build.durable \in ResumePhases /\ build.page \in Nat /\ TypeOK
  BY <1>1, BuildTypes, ConstantFacts DEF Inv, Resumable, DurableOK, Goals
<1>3. CASE ~Ahead
  BY <1>1, <1>3 DEF Ahead, Underway
<1>4. CASE Ahead /\ build.durable = "none"
  BY <1>4, NothingKept DEF Resumable, UnnamedOK
<1>5. CASE build.goal = "complete"
  <2>1. \E s \in Slots : Matches(manifest[s], source)
    BY <1>1, <1>5 DEF Resumable, PublishedOK, Commits
  <2>2. QED
    BY <1>1, <2>1 DEF Have, Published, Matches
<1>6. CASE Ahead /\ build.goal = "discovery"
  <2>1. build.durable = "none"
    BY <1>1, <1>6 DEF Resumable, DurableOK, Commits
  <2>2. QED
    BY <1>4, <1>6, <2>1
<1>7. ASSUME Ahead
      PROVE  Latest' = c
  BY <1>1, <1>7, CpWriteFacts
<1>8. CASE Ahead /\ build.goal = "page"
  <2>1. build.durable \in Early /\ ~Commits({"cancelled"}) /\ Commits({"page"}) /\ Commits(Early)
    BY <1>1, <1>8 DEF Resumable, DurableOK, Commits, Early
  <2>2. build.durable # "none"
    BY <2>1 DEF Early
  <2>3. EarlyHolds(Latest) /\ Names(Latest)
    BY <1>8, <2>1, <2>2 DEF Resumable, AheadOK
  <2>4. Latest.page \in Nat /\ Latest.page <= build.page
    <3>1. IsRecord(Latest) /\ IsEarly(Latest) /\ SlotOf(Latest.seq) \in Slots
          /\ ckpt[SlotOf(Latest.seq)] = Latest /\ Latest.page \in Nat
      BY <2>3, LatestTypes, LatestFacts, ConstantFacts, SlotContentsFacts
         DEF EarlyHolds, IsEarly
    <3>2. QED
      BY <2>1, <2>3, <3>1 DEF Resumable, CoveredOK
  <2>5. Grade(Latest) \in Nat /\ Grade(Latest) <= 1 + build.page
    <3>1. Latest.resume = "discovery" \/ Latest.resume = "page"
      BY <2>3 DEF EarlyHolds, Early
    <3>2. QED
      BY <1>2, <2>3, <2>4, <3>1, LatestTypes, GradeFacts
  <2>6. EarlyHolds(Latest)'
    <3>1. /\ pc' \in {"emit", "finish"} /\ build'.durable = "page"
      BY <1>1, <1>8 DEF CpWrite, NextPage, Goto, Inv, TypeOK, Builds
    <3>2. ~Commits({"cancelled"})' /\ Ahead'
      BY <3>1 DEF Commits, Ahead, Underway
    <3>3. QED
      BY <3>1, <3>2 DEF Resumable, AheadOK, Early
  <2>7. c.resume = "page" /\ c.page = build.page + 1
    BY <1>1, <1>8 DEF Resumable, WrittenOK
  <2>8. Grade(Latest)' = 1 + (build.page + 1)
    BY <1>2, <1>7, <1>8, <2>6, <2>7, NextGrade
  <2>9. QED
    BY <1>2, <2>5, <2>8 DEF Kept
<1>9. CASE Ahead /\ build.goal = "cancelled" /\ build.durable \in Early
  <2>1. /\ c = [Latest EXCEPT !.seq = build.sequence, !.phase = "cancelled"]
        /\ Latest.resume = build.durable
    BY <1>1, <1>9 DEF Resumable, AheadOK
  <2>2. Latest \in SlotContents
    BY LatestTypes
  <2>3. c.resume = Latest.resume /\ c.page = Latest.page /\ c.gen = Latest.gen
        /\ c.src = Latest.src /\ c.phase = "cancelled"
    <3> HIDE DEF c
    <3>1. QED
      BY <2>1, <2>2 DEF SlotContents
  <2>4. ~LateHolds(Latest)
    BY <1>9, <2>1 DEF LateHolds, Early, Late
  <2>5. CASE EarlyHolds(Latest)
    <3>1. EarlyHolds(Latest)'
      BY <1>1, <1>7, <1>9, <2>3, <2>5 DEF EarlyHolds
    <3>2. Latest.resume = "discovery" \/ Latest.resume = "page"
      BY <2>5 DEF EarlyHolds, Early
    <3>3. Grade(Latest)' = Grade(Latest)
      BY <1>2, <1>7, <1>9, <2>2, <2>3, <2>5, <3>1, <3>2, GradeFacts, NextGrade
    <3>4. QED
      BY <2>2, <3>3, GradeFacts DEF Kept
  <2>6. CASE ~EarlyHolds(Latest)
    BY <2>4, <2>6, NothingKept
  <2>7. QED
    BY <2>5, <2>6
<1>10. CASE Ahead /\ build.goal = "cancelled" /\ build.durable \in Late
  <2>1. CASE build.resumed \in Late
    <3>1. cancelRequested
      BY <1>1, <1>10 DEF Resumable, CancelledLateOK, Commits
    <3>2. QED
      BY <2>1, <3>1
  <2>2. CASE build.resumed \notin Late
    <3>1. LateHolds(build.cp)
      BY <1>1, <1>10, <2>2, LateCheckpointHolds
    <3>2. LateHolds(Latest)'
      BY <1>1, <1>7, <1>10, <3>1 DEF LateHolds
    <3>3. Grade(Latest)' = Pages + 2
      BY <1>2, <1>7, <1>10, <3>2, NextGrade
    <3>4. Grade(Latest) \in Nat /\ Grade(Latest) <= Pages + 2
      BY LatestTypes, GradeFacts
    <3>5. QED
      BY <3>3, <3>4, ConstantFacts DEF Kept
  <2>3. QED
    BY <2>1, <2>2
<1>11. build.durable = "none" \/ build.durable \in Early \/ build.durable \in Late
  BY <1>2 DEF ResumePhases, Early, Late
<1>12. QED
  BY <1>2, <1>3, <1>4, <1>5, <1>6, <1>8, <1>9, <1>10, <1>11

(* A step that costs no progress, or one of those that may.                *)
Exempt ==
  \/ source' # source
  \/ result' = "failed"
  \/ build.writer /\ (cancelRequested \/ result' = "left")
  \/ build.resumed \in Late /\ cancelRequested

LEMMA BuildKept ==
  ASSUME Inv, Resumable, Step, Inv', Resumable'
  PROVE  Kept \/ source \in Have \/ Exempt
<1>1. CASE Load \/ RestoreLate \/ Reject \/ Discover \/ CloseSource \/ OpenManifest
           \/ WriteManifest \/ VerifyManifest \/ Complete \/ StopSetup \/ CancelAtManifest
  <2>1. UNCHANGED <<source, ckpt, gen>>
    BY <1>1 DEF Load, RestoreLate, Reject, Discover, CloseSource, OpenManifest,
                WriteManifest, VerifyManifest, Complete, StopSetup, CancelAtManifest, cardVars
  <2>2. QED
    BY <2>1, SameFilesKept
<1>2. CASE RestoreEarly \/ Select \/ Snapshot \/ Outline \/ ResumeOutline \/ Record \/ Seal
           \/ \E due \in BOOLEAN : EmitPage(due)
  BY <1>2, RestoreEarlyKept, SelectKept, SnapshotKept, OutlineKept, EmitKept
<1>3. CASE CpOpen \/ CpWrite \/ CancelAtSections \/ ResumeControl \/ ResumeLedger
  BY <1>3, CpOpenKept, CpWriteKept, CancelLateKept DEF Exempt
<1>4. CASE Tidy \/ \E g \in Generations : Sweep(g)
  <2>1. pc \in {"tidy", "sweep"}
    BY <1>4 DEF Tidy, Sweep, Runs
  <2>2. QED
    BY <2>1 DEF Resumable, PublishedOK, Have, Published, Matches
<1>5. CASE SelectFails \/ SweepFails
  BY <1>5 DEF SelectFails, SweepFails, Fail, End, Exempt
<1>6. CASE CancelElsewhere
  <2>1. cancelRequested /\ UNCHANGED <<source, ckpt>> /\ (AbortWriter \/ UNCHANGED gen)
    BY <1>6 DEF CancelElsewhere
  <2>2. QED
    BY <2>1, AbortKept DEF Exempt
<1>7. QED
  BY <1>1, <1>2, <1>3, <1>4, <1>5, <1>6 DEF Step, Setup, Emission, Commit, Cancellation

LEMMA StepKept ==
  ASSUME Inv, Resumable, [Next]_vars, Inv', Resumable'
  PROVE  Kept \/ source \in Have \/ Exempt
<1>1. CASE Step
  BY <1>1, BuildKept
<1>2. CASE Open \/ RequestCancel \/ UNCHANGED vars
  <2>1. UNCHANGED <<source, ckpt, gen>>
    BY <1>2 DEF Open, RequestCancel, vars, cardVars
  <2>2. QED
    BY <2>1, SameFilesKept
<1>3. CASE Exit
  <2>1. result' = "left" /\ UNCHANGED <<source, ckpt>> /\ AbortWriter
    BY <1>3 DEF Exit, End
  <2>2. QED
    BY <2>1, AbortKept DEF Exempt
<1>4. CASE \E s \in Sources : Replace(s)
  BY <1>4 DEF Replace, Exempt
<1>5. CASE IoFails
  BY <1>5 DEF IoFails, Fail, End, Exempt
<1>6. CASE PowerLoss
  BY <1>6, PowerLossKept
<1>7. QED
  BY <1>1, <1>2, <1>3, <1>4, <1>5, <1>6 DEF Next, User

LEMMA ProgressFacts ==
  /\ Progress(source) = IF source \in Have THEN Pages + 3 ELSE Grade(Latest)
  /\ source' = source =>
       Progress(source)' = IF source \in Have' THEN Pages + 3 ELSE Grade(Latest)'
BY DEF Progress, Latest

LEMMA StepKeepsProgress ==
  ASSUME Inv, Resumable, [Next]_vars
  PROVE  Progress(source)' >= Progress(source) \/ Exempt
<1>1. Inv' /\ Resumable'
  BY NextInv, NextResumable
<1> SUFFICES ASSUME ~Exempt PROVE Progress(source)' >= Progress(source)
  OBVIOUS
<1>2. source' = source /\ (Kept \/ source \in Have)
  BY <1>1, StepKept DEF Exempt
<1>3. source \in Have => source \in Have'
  BY <1>2, PromiseStep DEF Promise!Next, Promise!Replace, Promise!Finish, Promise!Evict
<1>4. Grade(Latest) \in Nat /\ Grade(Latest) <= Pages + 2 /\ Pages \in Nat
  BY LatestTypes, GradeFacts, ConstantFacts
<1>5. Grade(Latest)' \in Nat
  <2>1. PICK c \in SlotContents : c = Latest'
    BY <1>1, NewestFacts DEF Inv, TypeOK, Latest
  <2>2. QED
    BY <2>1, NextGrade
<1>6. QED
  BY <1>2, <1>3, <1>4, <1>5, ProgressFacts DEF Kept

(* No step, no power loss and no I/O error costs the reader's version what *)
(* its preparation has published: only a build that failed, one that is    *)
(* stopped while its section file is open, and one that is stopped again   *)
(* after it was resumed late may lose it.                                  *)
THEOREM PublishedProgressIsKept == Spec => NoProgressLost
<1>1. Inv /\ Resumable /\ [Next]_vars =>
        [\/ Progress(source)' >= Progress(source)
         \/ source' # source
         \/ result' = "failed"
         \/ build.writer /\ (cancelRequested \/ result' = "left")
         \/ build.resumed \in Late /\ cancelRequested]_vars
  BY StepKeepsProgress DEF Exempt
<1>2. QED
  BY <1>1, ResumableInvariance, PTL DEF Spec, NoProgressLost

=============================================================================
