------------------------ MODULE PdfPreparationProofs ------------------------
(***************************************************************************)
(* Proofs about PdfPreparation, for every number of pages, every set of    *)
(* versions and every bound: that a valid manifest names a complete        *)
(* product, that a build stands on its own pages, and that preparation     *)
(* implements the atomic one.                                              *)
(***************************************************************************)
EXTENDS PdfPreparation, SequenceTheorems, WellFoundedInduction, TLAPS

(***************************************************************************)
(* A generation that was not made is empty, and one that has all its pages *)
(* keeps them when power is lost.                                          *)
(***************************************************************************)
GenOK(d) ==
  /\ ~d.made => d.sections = <<>>
  /\ Len(d.sections) <= Pages
  /\ Len(d.sections) = Pages => d.synced = Pages

GensOK == \A g \in Generations : GenOK(gen[g])

Product(m) ==
  /\ gen[m.gen].made /\ gen[m.gen].outline /\ gen[m.gen].head = m.src
  /\ gen[m.gen].sections = PagesOf(m.src, Pages)

ManifestsOK == \A s \in Slots : IsRecord(manifest[s]) => Product(manifest[s])

(* Where a build stands: whether it commits a checkpoint for a goal.       *)
Commits(goals) == pc \in {"cpOpen", "cpWrite"} /\ build.goal \in goals

(* Up to the manifest, no manifest is of this version or names the         *)
(* generation that is being built.                                         *)
Unpublished ==
  \/ pc \in {"load", "restore", "select", "discover", "snapshot", "emit", "record",
             "seal", "finish", "outline", "manifest", "writeManifest",
             "resumeOutline", "resumeControl", "resumeLedger"}
  \/ Commits(Early)

NewOK ==
  Unpublished => \A s \in Slots : IsRecord(manifest[s]) =>
    manifest[s].src # source /\ manifest[s].gen # build.generation

(* The slots in memory are those on the card, but for the one being        *)
(* written.                                                                *)
SlotsOK ==
  /\ pc \in {"restore", "select"} => \A s \in Slots :
       build.slots[s] = IF IsRecord(manifest[s]) THEN manifest[s] ELSE Absent
  /\ pc \notin {"idle", "load"} => \A s \in Slots : IsRecord(manifest[s]) =>
       build.slots[s] = manifest[s] \/ (pc = "verify" /\ s = TargetSlot)
  /\ pc = "writeManifest" => ~IsRecord(manifest[TargetSlot])
  /\ pc = "verify" =>
       /\ manifest[TargetSlot].src = source
       /\ \A s \in Slots : IsRecord(manifest[s]) /\ s # TargetSlot =>
            manifest[s].src # source

(* A section file is open only while pages are emitted.                    *)
WriterOK ==
  build.writer => \/ pc = "emit"
                  \/ pc \in {"record", "seal"} /\ build.page + 1 < Pages
                  \/ Commits({"page"}) /\ build.page + 1 < Pages

(* What a build has in its generation.                                     *)
Stands(n) ==
  /\ gen[build.generation].head = source
  /\ gen[build.generation].sections = PagesOf(source, n)

BuildOK ==
  /\ pc \in {"load", "restore"} =>
       build.generation = 0 /\ build.page = 0 /\ build.resumed = "none"
  /\ pc = "restore" /\ IsRecord(build.cp) => build.cp.src = source
  /\ pc = "select" /\ build.resumed = "none" => build.generation = 0 /\ build.page = 0
  /\ pc = "select" /\ build.resumed # "none" =>
       /\ build.generation = build.cp.gen /\ build.generation \in Generations
       /\ Stands(build.page)
       /\ build.resumed \in Late => build.page = Pages
  /\ pc \in {"select", "finish"} /\ build.resumed = "sections" =>
       gen[build.generation].outline
  /\ pc = "select" /\ build.resumed = "manifest" => gen[build.generation].outline
  /\ pc \in {"manifest", "writeManifest"} => gen[build.generation].outline
  /\ pc \notin {"idle", "load", "restore", "select"} => build.generation \in Generations
  /\ Unpublished /\ build.generation # 0 =>
       build.generation \in Generations /\ gen[build.generation].made
  /\ pc \in {"discover", "snapshot", "emit", "record", "seal"} \/ Commits(Early) =>
       build.resumed \notin Late
  /\ pc \in {"discover", "snapshot"} =>
       build.page = 0 /\ gen[build.generation].sections = <<>>
  /\ Commits({"discovery"}) => build.page = 0 /\ Stands(0)
  /\ pc = "emit" => build.page < Pages /\ Stands(build.page)
  /\ pc \in {"record", "seal"} \/ Commits({"page"}) =>
       build.page < Pages /\ Stands(build.page + 1)
  /\ pc \in {"finish", "outline", "manifest", "writeManifest",
             "resumeOutline", "resumeControl", "resumeLedger"} =>
       build.page = Pages /\ Stands(Pages)

Inv == /\ TypeOK /\ GensOK /\ ManifestsOK /\ NewOK /\ SlotsOK
       /\ WriterOK /\ BuildOK

-----------------------------------------------------------------------------
(***************************************************************************)
(* Facts about the data.                                                   *)
(***************************************************************************)
LEMMA ConstantFacts ==
  /\ Pages \in Nat /\ Pages >= 1 /\ MaxGeneration \in Nat /\ MaxFaults \in Nat
  /\ MaxCancels \in Nat /\ MaxReplacements \in Nat
  /\ 0 \notin Generations /\ Generations \subseteq Nat
  /\ \A n : SlotOf(n) \in Slots
  /\ \A s \in Slots : s = "A" \/ s = "B"
BY PagesAssumption, GenerationsAssumption, BoundsAssumption DEF Generations, SlotOf, Slots

LEMMA PagesOfFacts ==
  ASSUME NEW src \in Sources, NEW n \in 0..Pages
  PROVE  /\ PagesOf(src, n) \in Seq(Sources \X (1..Pages))
         /\ Len(PagesOf(src, n)) = n
         /\ n < Pages => Append(PagesOf(src, n), <<src, n + 1>>) = PagesOf(src, n + 1)
<1>1. PagesOf(src, n) \in Seq(Sources \X (1..Pages)) /\ Len(PagesOf(src, n)) = n
  BY ConstantFacts DEF PagesOf
<1>2. ASSUME n < Pages
      PROVE  Append(PagesOf(src, n), <<src, n + 1>>) = PagesOf(src, n + 1)
  <2>1. Append(PagesOf(src, n), <<src, n + 1>>) \in Seq(Sources \X (1..Pages))
    BY <1>1, <1>2, ConstantFacts
  <2>2. PagesOf(src, n + 1) \in Seq(Sources \X (1..Pages)) /\ Len(PagesOf(src, n + 1)) = n + 1
    BY <1>2, ConstantFacts DEF PagesOf
  <2>3. \A i \in 1..n + 1 :
          Append(PagesOf(src, n), <<src, n + 1>>)[i] = PagesOf(src, n + 1)[i]
    BY <1>1 DEF PagesOf
  <2>4. Len(Append(PagesOf(src, n), <<src, n + 1>>)) = n + 1
    BY <1>1
  <2>5. QED
    BY <2>1, <2>2, <2>3, <2>4, SeqEqual
<1>3. QED
  BY <1>1, <1>2

LEMMA SlotContentsFacts ==
  /\ Absent \in SlotContents /\ Torn \in SlotContents
  /\ ~IsRecord(Absent) /\ ~IsRecord(Torn)
  /\ \A v \in SlotContents :
       /\ v.seq \in Nat /\ v.page \in 0..Pages /\ v.resume \in ResumePhases
       /\ IsRecord(v) => v.src \in Sources /\ v.gen \in Generations
       /\ v.resume # "none" => IsRecord(v)
  /\ \A seq \in Nat, src \in Sources, g \in Generations, phase \in Phases,
        resume \in ResumePhases, page \in 0..Pages :
       LET c == Checkpoint(seq, src, g, phase, resume, page)
       IN c \in SlotContents /\ IsRecord(c) /\ c.src = src /\ c.gen = g
BY ConstantFacts DEF Absent, Torn, Blank, SlotContents, IsRecord, Checkpoint, Phases, ResumePhases

LEMMA NewestFacts ==
  ASSUME NEW slot \in [Slots -> SlotContents], NEW src \in Sources
  PROVE  /\ Newest(slot, src) \in SlotContents
         /\ IsRecord(Newest(slot, src)) => Newest(slot, src).src = src
BY SlotContentsFacts DEF Newest, Matches, Slots

(* The section that a page belongs to begins with it or before it.         *)
LEMMA SectionStartFacts ==
  ASSUME NEW src \in Sources, NEW p \in 1..Pages
  PROVE  SectionStart(src, p) \in 1..p
<1> DEFINE Q == {q \in {1} \union Starts[src] : q <= p}
           D == {p - q : q \in Q}
           Is(q) == q <= p /\ \A r \in Starts[src] : r <= p => r <= q
<1>1. Starts[src] \subseteq 2..Pages /\ Starts[src] \subseteq Nat
  BY PagesAssumption
<1>2. Q \subseteq 1..p /\ 1 \in Q
  BY <1>1, ConstantFacts
<1>3. D \subseteq Nat /\ D # {}
  BY <1>2
<1>4. PICK d \in D : \A e \in D : ~(<<e, d>> \in OpToRel(<, Nat))
  <2> HIDE DEF D
  <2>1. QED
    BY <1>3, NatLessThanWellFounded, WFMin
<1>5. \A i, j \in Nat : i < j => <<i, j>> \in OpToRel(<, Nat)
  BY DEF OpToRel
<1>6. PICK q \in Q : d = p - q
  BY <1>4
<1>7. \A r \in Q : r <= q
  <2> SUFFICES ASSUME NEW r \in Q, ~(r <= q) PROVE FALSE
    OBVIOUS
  <2>1. p - r \in D /\ p - r \in Nat /\ d \in Nat /\ p - r < d
    BY <1>2, <1>3, <1>6
  <2>2. QED
    BY <1>4, <1>5, <2>1
<1>8. q \in {1} \union Starts[src] /\ Is(q)
  BY <1>1, <1>7
<1>9. SectionStart(src, p) \in {1} \union Starts[src] /\ Is(SectionStart(src, p))
  <2> HIDE DEF Is
  <2>1. SectionStart(src, p) = CHOOSE r \in {1} \union Starts[src] : Is(r)
    BY DEF SectionStart, Is
  <2>2. QED
    BY <1>8, <2>1
<1>10. QED
  BY <1>1, <1>9

-----------------------------------------------------------------------------
(***************************************************************************)
(* What a change of the card or of the memory leaves in place.             *)
(***************************************************************************)
LEMMA BuildTypes ==
  ASSUME TypeOK
  PROVE  /\ build.generation \in {0} \union Generations /\ build.sequence \in Nat
         /\ build.page \in 0..Pages /\ build.cp \in SlotContents
         /\ build.slots \in [Slots -> SlotContents]
         /\ build.durable \in ResumePhases /\ build.resumed \in ResumePhases
         /\ build.ready \in BOOLEAN /\ build.emitReady \in BOOLEAN
         /\ build.due \in BOOLEAN /\ build.writer \in BOOLEAN /\ build.goal \in Goals
BY DEF TypeOK, Builds

LEMMA GenerationTypes ==
  ASSUME TypeOK, NEW g \in Generations
  PROVE  /\ gen[g] \in GenerationContents
         /\ gen[g].made \in BOOLEAN /\ gen[g].sections \in Seq(Sources \X (1..Pages))
         /\ gen[g].synced \in Nat /\ gen[g].head \in Sources \union {NoSource}
         /\ gen[g].recs \in 0..Pages /\ gen[g].sealed \in 0..Pages
         /\ gen[g].outline \in BOOLEAN /\ gen[g].control \in Nat
         /\ gen[g].ledger \in [Slots -> Nat]
BY DEF TypeOK, GenerationContents

LEMMA NoBuildTypes == NoBuild \in Builds
BY SlotContentsFacts, ConstantFacts
   DEF NoBuild, Builds, ResumePhases, Goals

(* A generation that no manifest names may change freely.                  *)
LEMMA UnnamedChanges ==
  ASSUME TypeOK, GensOK, ManifestsOK,
         NEW h \in Generations, NEW d \in GenerationContents, GenOK(d),
         gen' = [gen EXCEPT ![h] = d], manifest' = manifest,
         \A s \in Slots : IsRecord(manifest[s]) => manifest[s].gen # h
  PROVE  /\ gen' \in [Generations -> GenerationContents] /\ gen'[h] = d
         /\ GensOK' /\ ManifestsOK'
<1>1. gen' \in [Generations -> GenerationContents] /\ gen'[h] = d
  BY DEF TypeOK
<1>2. \A g \in Generations : g # h => gen'[g] = gen[g]
  BY DEF TypeOK
<1>3. GensOK'
  BY <1>1, <1>2 DEF GensOK, GenOK
<1>4. ManifestsOK'
  <2> SUFFICES ASSUME NEW s \in Slots, IsRecord(manifest[s])
               PROVE  Product(manifest[s])'
    BY DEF ManifestsOK
  <2>1. manifest[s].gen \in Generations /\ manifest[s].gen # h
    BY SlotContentsFacts DEF TypeOK
  <2>2. QED
    BY <1>2, <2>1 DEF ManifestsOK, Product
<1>5. QED
  BY <1>1, <1>3, <1>4

(* Nothing on the card but checkpoints changes.                            *)
LEMMA SameCard ==
  ASSUME GensOK, ManifestsOK, UNCHANGED <<gen, manifest>>
  PROVE  GensOK' /\ ManifestsOK'
BY DEF GensOK, GenOK, ManifestsOK, Product

(* A section file is open only in a generation that no manifest names.     *)
LEMMA WriterUnnamed ==
  ASSUME TypeOK, NewOK, WriterOK, BuildOK, build.writer
  PROVE  /\ build.generation \in Generations
         /\ \A s \in Slots : IsRecord(manifest[s]) => manifest[s].gen # build.generation
<1>1. Unpublished /\ pc \notin {"idle", "load", "restore", "select"}
  BY DEF WriterOK, Unpublished, Commits, Early
<1>2. QED
  BY <1>1 DEF NewOK, BuildOK

LEMMA AbortKeepsCard ==
  ASSUME TypeOK, GensOK, ManifestsOK, NewOK, WriterOK, BuildOK, AbortWriter,
         manifest' = manifest
  PROVE  gen' \in [Generations -> GenerationContents] /\ GensOK' /\ ManifestsOK'
<1>1. CASE build.writer /\ gen[build.generation].sections # <<>>
  <2> DEFINE d == gen[build.generation]
             kept == SectionStart(source, Len(d.sections)) - 1
             e == WithoutOpenSection(d)
  <2>1. build.generation \in Generations
        /\ \A s \in Slots : IsRecord(manifest[s]) => manifest[s].gen # build.generation
    BY <1>1, WriterUnnamed
  <2>2. d.sections \in Seq(Sources \X (1..Pages)) /\ d.synced \in Nat /\ GenOK(d)
        /\ d \in GenerationContents
    BY <2>1, GenerationTypes DEF GensOK
  <2>3. Len(d.sections) \in 1..Pages
    BY <1>1, <2>2, ConstantFacts, EmptySeq DEF GenOK
  <2>4. kept \in 0..(Len(d.sections) - 1)
    BY <2>3, SectionStartFacts DEF TypeOK
  <2>5. e = [d EXCEPT !.sections = SubSeq(d.sections, 1, kept),
                      !.synced = IF d.synced < kept THEN d.synced ELSE kept]
    BY <1>1 DEF WithoutOpenSection
  <2>6. SubSeq(d.sections, 1, kept) \in Seq(Sources \X (1..Pages))
        /\ Len(SubSeq(d.sections, 1, kept)) = kept
    <3> HIDE DEF kept, d
    <3>1. kept \in Nat /\ kept <= Len(d.sections)
      BY <2>4, <2>3
    <3>2. QED
      BY <2>2, <3>1, SubSeqProperties
  <2>7. e \in GenerationContents /\ GenOK(e)
    <3> HIDE DEF kept
    <3>1. d.made
      BY <1>1, <2>2 DEF GenOK
    <3>2. e.made = d.made /\ e.sections = SubSeq(d.sections, 1, kept)
      BY <2>2, <2>5 DEF GenerationContents
    <3>3. e \in GenerationContents
      <4>1. (IF d.synced < kept THEN d.synced ELSE kept) \in Nat
        BY <2>2, <2>3, <2>4
      <4> HIDE DEF d, e
      <4>2. QED
        BY <2>2, <2>5, <2>6, <4>1 DEF GenerationContents
    <3>4. QED
      BY <2>3, <2>4, <2>6, <3>1, <3>2, <3>3, ConstantFacts DEF GenOK
  <2>8. gen' = [gen EXCEPT ![build.generation] = e]
    BY <2>1 DEF AbortWriter, TypeOK
  <2>9. QED
    <3> HIDE DEF e
    <3>1. QED
      BY <2>1, <2>7, <2>8, UnnamedChanges
<1>2. CASE ~(build.writer /\ gen[build.generation].sections # <<>>)
  <2>1. gen' = gen
    BY <1>2 DEF AbortWriter, WithoutOpenSection, TypeOK
  <2>2. QED
    BY <2>1, SameCard DEF TypeOK
<1>3. QED
  BY <1>1, <1>2

(* A preparation that has ended.                                           *)
LEMMA EndedOK ==
  ASSUME End("none") \/ End("failed") \/ End("left") \/ End("paused") \/ End("complete"),
         TypeOK
  PROVE  /\ pc' \in Labels /\ cancelRequested' \in BOOLEAN /\ build' \in Builds
         /\ result' \in {"none", "complete", "paused", "failed", "left"}
         /\ NewOK' /\ SlotsOK' /\ WriterOK' /\ BuildOK'
<1>1. pc' = "idle" /\ build' = NoBuild /\ cancelRequested' = FALSE
      /\ result' \in {"none", "complete", "paused", "failed", "left"}
  BY DEF End
<1>2. ~Unpublished'
  BY <1>1 DEF Unpublished, Commits
<1>3. NewOK'
  BY <1>2 DEF NewOK
<1>4. SlotsOK'
  BY <1>1 DEF SlotsOK
<1>5. WriterOK'
  BY <1>1 DEF WriterOK, NoBuild
<1>6. BuildOK'
  BY <1>1, <1>2 DEF BuildOK, Commits
<1>7. QED
  BY <1>1, <1>3, <1>4, <1>5, <1>6, NoBuildTypes DEF Labels

-----------------------------------------------------------------------------
(***************************************************************************)
(* The initial states, the user and the power.                             *)
(***************************************************************************)
LEMMA InitInv == Init => Inv
<1> SUFFICES ASSUME Init PROVE Inv
  OBVIOUS
<1> USE DEF Init
<1>1. NoGeneration \in GenerationContents /\ GenOK(NoGeneration)
  <2>1. <<>> \in Seq(Sources \X (1..Pages)) /\ Len(<<>>) = 0
    OBVIOUS
  <2>2. QED
    BY <2>1, ConstantFacts DEF NoGeneration, GenerationContents, GenOK
<1>2. TypeOK
  <2>1. ckpt \in [Slots -> SlotContents] /\ manifest \in [Slots -> SlotContents]
    BY SlotContentsFacts
  <2>2. gen \in [Generations -> GenerationContents]
    BY <1>1
  <2>3. pc \in Labels /\ cancelRequested \in BOOLEAN /\ build \in Builds
    BY NoBuildTypes DEF Labels
  <2>4. faults \in 0..MaxFaults /\ cancels \in 0..MaxCancels
        /\ replacements \in 0..MaxReplacements
    BY ConstantFacts
  <2>5. QED
    BY <2>1, <2>2, <2>3, <2>4 DEF TypeOK
<1>3. ~Unpublished
  BY DEF Unpublished, Commits
<1>4. GensOK /\ ManifestsOK /\ NewOK /\ SlotsOK
  BY <1>1, <1>3, SlotContentsFacts DEF GensOK, ManifestsOK, NewOK, SlotsOK
<1>5. WriterOK /\ BuildOK
  BY <1>3 DEF WriterOK, BuildOK, NoBuild, Commits
<1>6. QED
  BY <1>2, <1>4, <1>5 DEF Inv

LEMMA OpenInv ==
  ASSUME Inv, Open
  PROVE  Inv'
<1> USE DEF Inv
<1>1. /\ pc' = "load" /\ build' = NoBuild /\ result' = "none"
      /\ UNCHANGED <<cardVars, cancelRequested, boundVars>> /\ ~Readable(source)
  BY DEF Open
<1>2. TypeOK'
  BY <1>1, NoBuildTypes DEF TypeOK, Labels, cardVars, boundVars
<1>3. GensOK' /\ ManifestsOK'
  BY <1>1, SameCard DEF cardVars
<1>4. NewOK'
  <2> SUFFICES ASSUME NEW s \in Slots, IsRecord(manifest[s])
               PROVE  manifest[s].src # source /\ manifest[s].gen # 0
    BY <1>1 DEF NewOK, NoBuild, cardVars
  <2>1. manifest[s].gen \in Generations
    BY SlotContentsFacts DEF TypeOK
  <2>2. QED
    BY <1>1, <2>1, ConstantFacts DEF Readable, Matches
<1>5. SlotsOK'
  BY <1>1 DEF SlotsOK
<1>6. WriterOK' /\ BuildOK'
  BY <1>1 DEF WriterOK, BuildOK, NoBuild, Commits, Unpublished
<1>7. QED
  BY <1>2, <1>3, <1>4, <1>5, <1>6

LEMMA ReplaceInv ==
  ASSUME Inv, NEW s \in Sources, Replace(s)
  PROVE  Inv'
<1> USE DEF Inv
<1>1. /\ pc = "idle" /\ source' = s /\ replacements < MaxReplacements
      /\ replacements' = replacements + 1
      /\ UNCHANGED <<ckpt, manifest, gen, ramVars, faults, cancels>>
  BY DEF Replace
<1>2. TypeOK'
  BY <1>1, ConstantFacts DEF TypeOK, ramVars
<1>3. GensOK' /\ ManifestsOK'
  BY <1>1, SameCard
<1>4. ~Unpublished'
  BY <1>1 DEF Unpublished, Commits, ramVars
<1>5. NewOK' /\ SlotsOK'
  BY <1>1, <1>4 DEF NewOK, SlotsOK, ramVars
<1>6. WriterOK' /\ BuildOK'
  BY <1>1, <1>4 DEF WriterOK, BuildOK, Commits, ramVars
<1>7. QED
  BY <1>2, <1>3, <1>5, <1>6

LEMMA RequestCancelInv ==
  ASSUME Inv, RequestCancel
  PROVE  Inv'
<1> USE DEF Inv
<1>1. /\ cancels < MaxCancels /\ cancels' = cancels + 1 /\ cancelRequested' = TRUE
      /\ UNCHANGED <<cardVars, pc, build, result, faults, replacements>>
  BY DEF RequestCancel
<1>2. TypeOK'
  BY <1>1, ConstantFacts DEF TypeOK, cardVars
<1>3. GensOK' /\ ManifestsOK'
  BY <1>1, SameCard DEF cardVars
<1>4. Unpublished' = Unpublished /\ \A G : Commits(G)' = Commits(G)
  BY <1>1 DEF Unpublished, Commits
<1>5. NewOK' /\ SlotsOK'
  BY <1>1, <1>4 DEF NewOK, SlotsOK, TargetSlot, cardVars
<1>6. WriterOK' /\ BuildOK'
  BY <1>1, <1>4 DEF WriterOK, BuildOK, Stands, Commits, cardVars
<1>7. QED
  BY <1>2, <1>3, <1>5, <1>6

LEMMA ExitInv ==
  ASSUME Inv, Exit
  PROVE  Inv'
<1> USE DEF Inv
<1>1. /\ AbortWriter /\ End("left") /\ cancels < MaxCancels /\ cancels' = cancels + 1
      /\ UNCHANGED <<source, ckpt, manifest, faults, replacements>>
  BY DEF Exit
<1>2. gen' \in [Generations -> GenerationContents] /\ GensOK' /\ ManifestsOK'
  BY <1>1, AbortKeepsCard
<1>3. TypeOK'
  BY <1>1, <1>2, EndedOK, ConstantFacts DEF TypeOK
<1>4. QED
  BY <1>1, <1>2, <1>3, EndedOK

LEMMA PowerLossInv ==
  ASSUME Inv, PowerLoss
  PROVE  Inv'
<1> USE DEF Inv
<1>1. /\ Fault /\ End("none")
      /\ UNCHANGED <<source, ckpt, manifest, cancels, replacements>>
  BY DEF PowerLoss
<1>2. gen' \in [Generations -> GenerationContents] /\ GensOK' /\ ManifestsOK'
  <2>1. CASE UNCHANGED gen
    BY <1>1, <2>1, SameCard DEF TypeOK
  <2>2. CASE ~UNCHANGED gen
    <3> DEFINE h == build.generation
               d == gen[h]
    <3>1. h \in Generations
      BY <2>2, BuildTypes DEF PowerLoss
    <3>2. PICK n \in d.synced..Len(d.sections), k \in d.sealed..d.recs :
            gen' = [gen EXCEPT ![h].sections = SubSeq(@, 1, n), ![h].recs = k]
      BY <2>2 DEF PowerLoss
    <3> DEFINE e == [d EXCEPT !.sections = SubSeq(d.sections, 1, n), !.recs = k]
    <3>3. d \in GenerationContents /\ GenOK(d)
          /\ d.sections \in Seq(Sources \X (1..Pages)) /\ Len(d.sections) \in Nat
          /\ d.synced \in Nat /\ d.recs \in 0..Pages /\ d.sealed \in 0..Pages
          /\ Len(d.sections) <= Pages
      BY <3>1, GenerationTypes DEF GensOK, GenOK
    <3>4. n \in Nat /\ n <= Len(d.sections) /\ k \in 0..Pages
      <4>1. n \in d.synced..Len(d.sections) /\ k \in d.sealed..d.recs
        OBVIOUS
      <4> HIDE DEF d
      <4>2. QED
        BY <3>3, <4>1, ConstantFacts
    <3>5. SubSeq(d.sections, 1, n) \in Seq(Sources \X (1..Pages))
          /\ Len(SubSeq(d.sections, 1, n)) = n
          /\ \A i \in 1..n : SubSeq(d.sections, 1, n)[i] = d.sections[i]
      <4> HIDE DEF d
      <4>1. QED
        BY <3>3, <3>4, SubSeqProperties
    <3>6. n = Len(d.sections) => SubSeq(d.sections, 1, n) = d.sections
      <4> HIDE DEF d
      <4>1. QED
        BY <3>3, <3>5, SeqEqual
    <3>7. gen' = [gen EXCEPT ![h] = e]
      BY <3>1, <3>2 DEF TypeOK
    <3>8. e \in GenerationContents /\ e.made = d.made /\ e.outline = d.outline
          /\ e.head = d.head /\ e.synced = d.synced
          /\ e.sections = SubSeq(d.sections, 1, n)
      <4> HIDE DEF d
      <4>1. QED
        BY <3>3, <3>4, <3>5 DEF GenerationContents
    <3>9. Len(d.sections) = Pages => e.sections = d.sections
      BY <3>2, <3>3, <3>4, <3>6, <3>8 DEF GenOK
    <3>10. GenOK(e)
      <4>1. ~d.made => n = 0
        BY <3>3, <3>4 DEF GenOK
      <4>2. ~d.made => e.sections = <<>>
        BY <3>3, <3>6, <3>8, <4>1 DEF GenOK
      <4> HIDE DEF e, d
      <4>3. Len(e.sections) = n
        BY <3>5, <3>8
      <4>4. Len(e.sections) = Pages => e.synced = Pages
        BY <3>3, <3>4, <3>8, <4>3, ConstantFacts DEF GenOK
      <4>5. Len(e.sections) <= Pages
        BY <3>3, <3>4, <4>3, ConstantFacts
      <4>6. QED
        BY <3>8, <4>2, <4>4, <4>5 DEF GenOK
    <3> HIDE DEF e
    <3>11. gen' \in [Generations -> GenerationContents] /\ gen'[h] = e
           /\ \A g \in Generations : g # h => gen'[g] = gen[g]
      BY <3>1, <3>7, <3>8 DEF TypeOK
    <3>12. GensOK'
      BY <3>10, <3>11 DEF GensOK, GenOK
    <3>13. ManifestsOK'
      <4> SUFFICES ASSUME NEW s \in Slots, IsRecord(manifest[s])
                   PROVE  Product(manifest[s])'
        BY <1>1 DEF ManifestsOK
      <4>1. manifest[s].gen \in Generations /\ manifest[s].src \in Sources
        BY SlotContentsFacts DEF TypeOK
      <4>2. Product(manifest[s])
        BY DEF ManifestsOK
      <4>3. Len(PagesOf(manifest[s].src, Pages)) = Pages
        <5>1. Pages \in 0..Pages
          BY ConstantFacts
        <5>2. QED
          BY <4>1, <5>1, PagesOfFacts
      <4>4. manifest'[s] = manifest[s]
        BY <1>1
      <4>5. CASE manifest[s].gen = h
        BY <3>8, <3>9, <3>11, <4>2, <4>3, <4>4, <4>5 DEF Product
      <4>6. CASE manifest[s].gen # h
        BY <3>11, <4>1, <4>2, <4>4, <4>6 DEF Product
      <4>7. QED
        BY <4>5, <4>6
    <3>14. QED
      BY <3>11, <3>12, <3>13
  <2>3. QED
    BY <2>1, <2>2
<1>3. TypeOK'
  BY <1>1, <1>2, EndedOK, ConstantFacts DEF TypeOK, Fault
<1>4. QED
  BY <1>1, <1>2, <1>3, EndedOK

LEMMA FailKeepsInv ==
  ASSUME Inv, Fail, faults' \in 0..MaxFaults, UNCHANGED <<cancels, replacements>>
  PROVE  Inv'
<1> USE DEF Inv
<1>1. /\ AbortWriter /\ End("failed") /\ UNCHANGED <<source, manifest>>
  BY DEF Fail
<1>2. gen' \in [Generations -> GenerationContents] /\ GensOK' /\ ManifestsOK'
  BY <1>1, AbortKeepsCard
<1>3. ckpt' \in [Slots -> SlotContents]
  <2>1. CASE UNCHANGED ckpt
    BY <2>1 DEF TypeOK
  <2>2. CASE ~UNCHANGED ckpt
    <3> DEFINE failed == Checkpoint(build.sequence, source, build.generation,
                                    "failed", "none", build.page)
    <3>1. MayPublishFailure /\ \E v \in {Torn, failed} :
            ckpt' = [ckpt EXCEPT ![SlotOf(build.sequence)] = v]
      BY <2>2 DEF Fail
    <3>2. build.generation \in Generations
      BY <3>1, BuildTypes DEF MayPublishFailure
    <3>3. failed \in SlotContents
      BY <3>2, BuildTypes, SlotContentsFacts DEF TypeOK, Phases, ResumePhases
    <3> HIDE DEF failed
    <3>4. QED
      BY <3>1, <3>3, SlotContentsFacts, ConstantFacts DEF TypeOK
  <2>3. QED
    BY <2>1, <2>2
<1>4. TypeOK'
  BY <1>1, <1>2, <1>3, EndedOK DEF TypeOK
<1>5. QED
  BY <1>1, <1>2, <1>4, EndedOK

-----------------------------------------------------------------------------
(***************************************************************************)
(* The setup of a preparation.                                             *)
(***************************************************************************)
LEMMA LoadInv ==
  ASSUME Inv, Load
  PROVE  Inv'
<1> USE DEF Inv
<1> DEFINE kept == [s \in Slots |-> IF IsRecord(manifest[s]) THEN manifest[s] ELSE Absent]
<1>1. /\ pc = "load" /\ pc' = "restore"
      /\ build' = [build EXCEPT !.cp = Newest(ckpt, source), !.slots = kept]
      /\ UNCHANGED <<cardVars, cancelRequested, result, boundVars>>
  BY DEF Load, At, Goto, Calm
<1>2. kept \in [Slots -> SlotContents]
      /\ \A s \in Slots : kept[s] = IF IsRecord(manifest[s]) THEN manifest[s] ELSE Absent
  BY SlotContentsFacts DEF TypeOK
<1> HIDE DEF kept
<1>3. Newest(ckpt, source) \in SlotContents
      /\ (IsRecord(Newest(ckpt, source)) => Newest(ckpt, source).src = source)
  BY NewestFacts DEF TypeOK
<1>4. build' \in Builds /\ build'.cp = Newest(ckpt, source) /\ build'.slots = kept
      /\ build'.generation = build.generation /\ build'.page = build.page
      /\ build'.resumed = build.resumed /\ build'.writer = build.writer
      /\ build'.goal = build.goal
  BY <1>1, <1>2, <1>3 DEF TypeOK, Builds
<1>5. TypeOK'
  BY <1>1, <1>4 DEF TypeOK, Labels, cardVars, boundVars
<1>6. GensOK' /\ ManifestsOK'
  BY <1>1, SameCard DEF cardVars
<1>7. NewOK' /\ SlotsOK'
  BY <1>1, <1>2, <1>4 DEF NewOK, SlotsOK, Unpublished, Commits, cardVars
<1>8. WriterOK' /\ BuildOK'
  BY <1>1, <1>3, <1>4 DEF WriterOK, BuildOK, Commits, Unpublished, cardVars
<1>9. QED
  BY <1>5, <1>6, <1>7, <1>8

LEMMA RestoreEarlyInv ==
  ASSUME Inv, RestoreEarly
  PROVE  Inv'
<1> USE DEF Inv
<1> DEFINE cp == build.cp
           h == cp.gen
           d == gen[h]
           e == [d EXCEPT !.sections = SubSeq(d.sections, 1, cp.page), !.synced = cp.page]
<1>1. /\ pc = "restore" /\ pc' = "select" /\ EarlyHolds(cp)
      /\ gen' = [gen EXCEPT ![h].sections = SubSeq(@, 1, cp.page), ![h].synced = cp.page]
      /\ build' = [build EXCEPT !.generation = h, !.page = cp.page,
                                !.durable = cp.resume, !.resumed = cp.resume,
                                !.ready = TRUE]
      /\ UNCHANGED <<source, ckpt, manifest, cancelRequested, result, boundVars>>
  BY DEF RestoreEarly, At, Goto, Calm
<1>2. cp \in SlotContents /\ cp.resume \in Early /\ IsRecord(cp) /\ h \in Generations
      /\ cp.page \in 0..Pages /\ cp.src = source
  BY <1>1, BuildTypes, SlotContentsFacts DEF EarlyHolds, Early, BuildOK
<1>3. /\ d.made /\ d.head = source /\ Len(d.sections) >= cp.page
      /\ SubSeq(d.sections, 1, cp.page) = PagesOf(source, cp.page)
  BY <1>1, <1>2 DEF EarlyHolds
<1>4. d \in GenerationContents /\ d.sections \in Seq(Sources \X (1..Pages))
  BY <1>2, GenerationTypes
<1>5. PagesOf(source, cp.page) \in Seq(Sources \X (1..Pages))
      /\ Len(PagesOf(source, cp.page)) = cp.page
  BY <1>2, PagesOfFacts DEF TypeOK
<1>6. gen' = [gen EXCEPT ![h] = e]
  BY <1>1, <1>2 DEF TypeOK
<1> HIDE DEF d
<1>7. e \in GenerationContents /\ e.made = d.made /\ e.head = d.head
      /\ e.sections = PagesOf(source, cp.page) /\ e.synced = cp.page
  <2>1. cp.page \in Nat
    BY <1>2, ConstantFacts
  <2> HIDE DEF cp
  <2>2. QED
    BY <1>3, <1>4, <1>5, <2>1 DEF GenerationContents
<1>8. GenOK(e)
  <2> HIDE DEF e, cp
  <2>1. QED
    BY <1>2, <1>3, <1>5, <1>7, ConstantFacts DEF GenOK
<1>9. \A s \in Slots : IsRecord(manifest[s]) =>
        manifest[s].src # source /\ manifest[s].gen # h
  <2> SUFFICES ASSUME NEW s \in Slots, IsRecord(manifest[s])
               PROVE  manifest[s].src # source /\ manifest[s].gen # h
    OBVIOUS
  <2>1. manifest[s].src # source
    BY <1>1 DEF NewOK, Unpublished
  <2>2. gen[manifest[s].gen].head = manifest[s].src
    BY DEF ManifestsOK, Product
  <2>3. QED
    BY <1>3, <2>1, <2>2 DEF d
<1> HIDE DEF e
<1>10. gen' \in [Generations -> GenerationContents] /\ gen'[h] = e /\ GensOK' /\ ManifestsOK'
  BY <1>1, <1>2, <1>6, <1>7, <1>8, <1>9, UnnamedChanges
<1>11. build' \in Builds /\ build'.slots = build.slots /\ build'.generation = h
       /\ build'.page = cp.page /\ build'.resumed = cp.resume
       /\ build'.writer = build.writer /\ build'.goal = build.goal /\ build'.cp = cp
  <2>1. cp.resume \in ResumePhases
    BY <1>2 DEF Early, ResumePhases
  <2>2. QED
    BY <1>1, <1>2, <2>1 DEF TypeOK, Builds
<1>12. TypeOK'
  BY <1>1, <1>10, <1>11 DEF TypeOK, Labels, boundVars
<1>13. NewOK' /\ SlotsOK'
  BY <1>1, <1>9, <1>11 DEF NewOK, SlotsOK
<1>14. WriterOK'
  BY <1>1, <1>11 DEF WriterOK, Commits
<1>15. BuildOK'
  BY <1>1, <1>2, <1>3, <1>7, <1>10, <1>11, ConstantFacts
     DEF BuildOK, Commits, Stands, Early, Late
<1>16. QED
  BY <1>10, <1>12, <1>13, <1>14, <1>15

LEMMA RestoreLateInv ==
  ASSUME Inv, RestoreLate
  PROVE  Inv'
<1> USE DEF Inv
<1> DEFINE cp == build.cp
           h == cp.gen
           d == gen[h]
<1>1. /\ pc = "restore" /\ pc' = "select" /\ LateHolds(cp)
      /\ build' = [build EXCEPT !.generation = h, !.page = Pages,
                                !.durable = cp.resume, !.resumed = cp.resume,
                                !.ready = TRUE]
      /\ UNCHANGED <<cardVars, cancelRequested, result, boundVars>>
  BY DEF RestoreLate, At, Goto, Calm
<1>2. cp.resume \in Late /\ IsRecord(cp) /\ h \in Generations /\ cp.src = source
  BY <1>1, BuildTypes, SlotContentsFacts DEF LateHolds, Late, BuildOK
<1>3. d.made /\ d.head = source /\ d.outline /\ d.sections = PagesOf(source, Pages)
  BY <1>1, <1>2 DEF LateHolds
<1>4. \A s \in Slots : IsRecord(manifest[s]) =>
        manifest[s].src # source /\ manifest[s].gen # h
  <2> SUFFICES ASSUME NEW s \in Slots, IsRecord(manifest[s])
               PROVE  manifest[s].src # source /\ manifest[s].gen # h
    OBVIOUS
  <2>1. manifest[s].src # source
    BY <1>1 DEF NewOK, Unpublished
  <2>2. gen[manifest[s].gen].head = manifest[s].src
    BY DEF ManifestsOK, Product
  <2>3. QED
    BY <1>3, <2>1, <2>2
<1>5. build' \in Builds /\ build'.slots = build.slots /\ build'.generation = h
      /\ build'.page = Pages /\ build'.resumed = cp.resume
      /\ build'.writer = build.writer /\ build'.goal = build.goal /\ build'.cp = cp
  <2>1. cp.resume \in ResumePhases /\ Pages \in 0..Pages
    BY <1>2, ConstantFacts DEF Late, ResumePhases
  <2>2. QED
    BY <1>1, <1>2, <2>1 DEF TypeOK, Builds
<1>6. TypeOK'
  BY <1>1, <1>5 DEF TypeOK, Labels, cardVars, boundVars
<1>7. GensOK' /\ ManifestsOK'
  BY <1>1, SameCard DEF cardVars
<1>8. NewOK' /\ SlotsOK'
  BY <1>1, <1>4, <1>5 DEF NewOK, SlotsOK, cardVars
<1>9. WriterOK'
  BY <1>1, <1>5 DEF WriterOK, Commits
<1>10. BuildOK'
  BY <1>1, <1>2, <1>3, <1>5 DEF BuildOK, Commits, Stands, Late, cardVars
<1>11. QED
  BY <1>6, <1>7, <1>8, <1>9, <1>10

LEMMA RejectInv ==
  ASSUME Inv, Reject
  PROVE  Inv'
<1> USE DEF Inv
<1>1. /\ pc = "restore" /\ pc' = "select"
      /\ UNCHANGED <<cardVars, build, cancelRequested, result, boundVars>>
  BY DEF Reject, At, Goto, Calm
<1>2. TypeOK'
  BY <1>1 DEF TypeOK, Labels, cardVars, boundVars
<1>3. GensOK' /\ ManifestsOK'
  BY <1>1, SameCard DEF cardVars
<1>4. NewOK' /\ SlotsOK'
  BY <1>1 DEF NewOK, SlotsOK, Unpublished, cardVars
<1>5. WriterOK' /\ BuildOK'
  BY <1>1 DEF WriterOK, BuildOK, Commits, cardVars
<1>6. QED
  BY <1>2, <1>3, <1>4, <1>5

LEMMA FreeGenerationFacts ==
  ASSUME FreeGenerations # {}
  PROVE  FreeGeneration \in Generations /\ FreeGeneration \notin Listed \union Protected
<1> DEFINE Is(g) == \A h \in FreeGenerations : g <= h
<1>1. FreeGenerations \subseteq Nat /\ FreeGenerations \subseteq Generations
  BY ConstantFacts DEF FreeGenerations
<1>2. PICK g \in FreeGenerations :
        \A h \in FreeGenerations : ~(<<h, g>> \in OpToRel(<, Nat))
  BY <1>1, NatLessThanWellFounded, WFMin
<1>3. \A i, j \in Nat : i < j => <<i, j>> \in OpToRel(<, Nat)
  BY DEF OpToRel
<1>4. Is(g)
  <2> SUFFICES ASSUME NEW h \in FreeGenerations, ~(g <= h) PROVE FALSE
    OBVIOUS
  <2>1. h \in Nat /\ g \in Nat /\ h < g
    BY <1>1
  <2>2. QED
    BY <1>2, <1>3, <2>1
<1> HIDE DEF Is
<1>5. FreeGeneration = CHOOSE x \in FreeGenerations : Is(x)
  BY DEF FreeGeneration, Is
<1>6. FreeGeneration \in FreeGenerations
  BY <1>4, <1>5
<1>7. QED
  BY <1>1, <1>6 DEF FreeGenerations

(* The generation that is selected is the one resumed or a new one; no     *)
(* manifest names it.                                                      *)
LEMMA SelectedFacts ==
  ASSUME Inv, pc = "select", Resumes \/ FreeGenerations # {},
         NEW g, g = IF Resumes THEN build.cp.gen ELSE FreeGeneration
  PROVE  /\ g \in Generations
         /\ build.resumed # "none" => g = build.generation
         /\ build.resumed = "none" => gen[g].sections = <<>>
         /\ \A s \in Slots : IsRecord(manifest[s]) =>
              manifest[s].src # source /\ manifest[s].gen # g
<1> USE DEF Inv
<1>1. \A s \in Slots : IsRecord(manifest[s]) =>
        /\ manifest[s].src # source /\ manifest[s].gen # build.generation
        /\ manifest[s].gen \in Protected
  BY SlotContentsFacts DEF NewOK, Unpublished, SlotsOK, Protected, TypeOK
<1>2. \A p \in Protected : \E s \in Slots : IsRecord(manifest[s]) /\ p = manifest[s].gen
  BY SlotContentsFacts DEF SlotsOK, Protected
<1>3. CASE build.resumed # "none"
  <2>1. build.generation = build.cp.gen
    BY <1>3 DEF BuildOK
  <2>2. build.cp.gen \notin Protected
    BY <1>1, <1>2, <2>1
  <2>3. g = build.generation
    BY <1>3, <2>1, <2>2 DEF Resumes
  <2>4. g \in Generations
    BY <1>3, <2>3 DEF BuildOK
  <2>5. QED
    BY <1>1, <1>3, <2>3, <2>4
<1>4. CASE build.resumed = "none"
  <2>1. g = FreeGeneration /\ g \in Generations /\ g \notin Listed /\ g \notin Protected
    BY <1>4, FreeGenerationFacts DEF Resumes
  <2>2. gen[g].sections = <<>>
    BY <2>1 DEF GensOK, GenOK, Listed
  <2>3. QED
    BY <1>1, <1>4, <2>1, <2>2
<1>5. QED
  BY <1>3, <1>4

LEMMA SelectInv ==
  ASSUME Inv, Select
  PROVE  Inv'
<1> USE DEF Inv
<1> DEFINE g == IF Resumes THEN build.cp.gen ELSE FreeGeneration
           e == [gen[g] EXCEPT !.made = TRUE]
           b == [build EXCEPT !.generation = g, !.sequence = NextSequence]
<1>1. /\ pc = "select" /\ gen' = [gen EXCEPT ![g].made = TRUE]
      /\ \/ pc' = "cpOpen" /\ build' = [b EXCEPT !.goal = "cancelled"]
         \/ pc' = AfterSetup /\ build' = b
      /\ Resumes \/ FreeGenerations # {}
      /\ UNCHANGED <<source, ckpt, manifest, cancelRequested, result, boundVars>>
  BY DEF Select, At, Goto, Calm, StartCheckpoint
<1>2. /\ g \in Generations
      /\ build.resumed # "none" => g = build.generation
      /\ build.resumed = "none" => gen[g].sections = <<>>
      /\ \A s \in Slots : IsRecord(manifest[s]) =>
           manifest[s].src # source /\ manifest[s].gen # g
  <2> HIDE DEF g
  <2>1. g = IF Resumes THEN build.cp.gen ELSE FreeGeneration
    BY DEF g
  <2>2. QED
    BY <1>1, <2>1, SelectedFacts
<1> HIDE DEF g
<1>3. e \in GenerationContents /\ GenOK(e) /\ e.made /\ e.sections = gen[g].sections
      /\ e.head = gen[g].head /\ e.outline = gen[g].outline
  BY <1>2, GenerationTypes DEF GenerationContents, GensOK, GenOK
<1>4. gen' = [gen EXCEPT ![g] = e]
  BY <1>1, <1>2 DEF TypeOK
<1> HIDE DEF e
<1>5. gen' \in [Generations -> GenerationContents] /\ gen'[g] = e /\ GensOK' /\ ManifestsOK'
  BY <1>1, <1>2, <1>3, <1>4, UnnamedChanges
<1>6. NextSequence \in Nat
  <2>1. Newest(build.slots, source) \in SlotContents /\ build.cp \in SlotContents
    BY BuildTypes, NewestFacts DEF TypeOK
  <2>2. QED
    BY <2>1, SlotContentsFacts DEF NextSequence
<1>7. build' \in Builds /\ build'.generation = g /\ build'.page = build.page
      /\ build'.resumed = build.resumed /\ build'.writer = build.writer
      /\ build'.slots = build.slots
      /\ build'.goal = IF pc' = "cpOpen" THEN "cancelled" ELSE build.goal
  <2>1. b \in Builds /\ b.generation = g /\ b.page = build.page
        /\ b.resumed = build.resumed /\ b.writer = build.writer
        /\ b.slots = build.slots /\ b.goal = build.goal
    BY <1>2, <1>6 DEF TypeOK, Builds
  <2>2. AfterSetup # "cpOpen"
    BY DEF AfterSetup
  <2> HIDE DEF b
  <2>3. [b EXCEPT !.goal = "cancelled"] \in Builds
    BY <2>1 DEF Builds, Goals
  <2>4. QED
    BY <1>1, <2>1, <2>2, <2>3 DEF Builds
<1>8. pc' \in {"cpOpen", "discover", "finish", "emit", "manifest"}
      /\ (pc' = "discover" => build.resumed = "none")
      /\ (pc' = "emit" => build.resumed \in Early /\ build.page # Pages)
      /\ (pc' = "finish" => build.resumed = "sections" \/ build.page = Pages)
      /\ (pc' = "manifest" => build.resumed = "manifest")
  <2>1. build.resumed \in ResumePhases
    BY BuildTypes
  <2>2. QED
    BY <1>1, <2>1 DEF AfterSetup, ResumePhases, Early
<1>9. TypeOK'
  BY <1>1, <1>5, <1>7, <1>8 DEF TypeOK, Labels, boundVars
<1>10. ~build'.writer
  BY <1>1, <1>7, BuildTypes DEF WriterOK, Commits
<1>11. NewOK' /\ SlotsOK' /\ WriterOK'
  BY <1>1, <1>2, <1>7, <1>8, <1>10 DEF NewOK, SlotsOK, WriterOK
<1>12. BuildOK'
  <2>1. build.page \in 0..Pages /\ Pages \in Nat /\ g # 0
    BY BuildTypes, ConstantFacts, <1>2
  <2>2. build.resumed = "none" => build.page = 0
    BY <1>1 DEF BuildOK
  <2>3. build.resumed # "none" =>
          gen'[g].head = source /\ gen'[g].sections = PagesOf(source, build.page)
    BY <1>1, <1>2, <1>3, <1>5 DEF BuildOK, Stands
  <2>4. build.resumed \in Late => build.page = Pages /\ gen'[g].outline
    BY <1>1, <1>2, <1>3, <1>5 DEF BuildOK, Late
  <2>5. pc' = "discover" => gen'[g].sections = <<>>
    BY <1>2, <1>3, <1>5, <1>8
  <2>6. ~Commits(Early)' /\ ~Commits({"discovery"})' /\ ~Commits({"page"})'
    BY <1>7, <1>8 DEF Commits, Early
  <2>7. pc' = "emit" => build.page < Pages
    BY <1>8, <2>1
  <2>8. pc' = "finish" => build.resumed # "none" /\ build.page = Pages
    BY <1>8, <2>1, <2>2, <2>4, ConstantFacts DEF Late
  <2>9. gen'[g].made
    BY <1>3, <1>5
  <2>10. source' = source
    BY <1>1
  <2>11. QED
    BY <1>2, <1>7, <1>8, <2>1, <2>2, <2>3, <2>4, <2>5, <2>6, <2>7, <2>8, <2>9, <2>10
       DEF BuildOK, Stands, Early, Late, Unpublished
<1>13. QED
  BY <1>5, <1>9, <1>11, <1>12

-----------------------------------------------------------------------------
(***************************************************************************)
(* The pages.  A build works in a generation that no manifest names.       *)
(***************************************************************************)
Building == Unpublished /\ pc \notin {"load", "restore", "select"}

LEMMA BuildingFacts ==
  ASSUME Inv, Building
  PROVE  /\ build.generation \in Generations /\ gen[build.generation].made
         /\ gen[build.generation] \in GenerationContents /\ GenOK(gen[build.generation])
         /\ \A s \in Slots : IsRecord(manifest[s]) =>
              manifest[s].src # source /\ manifest[s].gen # build.generation
<1>1. build.generation \in Generations /\ build.generation # 0
  BY ConstantFacts DEF Inv, BuildOK, Building, Unpublished, Commits
<1>2. QED
  BY <1>1, GenerationTypes DEF Inv, BuildOK, NewOK, GensOK, Building

LEMMA BuildChanges ==
  ASSUME Inv, Building, NEW e \in GenerationContents, GenOK(e),
         gen' = [gen EXCEPT ![build.generation] = e], manifest' = manifest
  PROVE  /\ gen' \in [Generations -> GenerationContents]
         /\ gen'[build.generation] = e /\ GensOK' /\ ManifestsOK'
BY BuildingFacts, UnnamedChanges DEF Inv

(* Only the program counter and the goal of the build change.              *)
LEMMA GoalTypes ==
  ASSUME TypeOK, NEW goal \in Goals, build' = [build EXCEPT !.goal = goal]
  PROVE  /\ build' \in Builds /\ build'.goal = goal
         /\ build'.generation = build.generation /\ build'.page = build.page
         /\ build'.resumed = build.resumed /\ build'.writer = build.writer
         /\ build'.slots = build.slots /\ build'.cp = build.cp
BY DEF TypeOK, Builds

LEMMA DiscoverInv ==
  ASSUME Inv, Discover
  PROVE  Inv'
<1> USE DEF Inv
<1>1. /\ pc = "discover" /\ pc' = "snapshot"
      /\ UNCHANGED <<cardVars, build, cancelRequested, result, boundVars>>
  BY DEF Discover, Runs, Goto, Calm
<1>2. TypeOK'
  BY <1>1 DEF TypeOK, Labels, cardVars, boundVars
<1>3. GensOK' /\ ManifestsOK'
  BY <1>1, SameCard DEF cardVars
<1>4. NewOK' /\ SlotsOK'
  BY <1>1 DEF NewOK, SlotsOK, Unpublished, cardVars
<1>5. WriterOK' /\ BuildOK'
  BY <1>1 DEF WriterOK, BuildOK, Commits, Unpublished, cardVars
<1>6. QED
  BY <1>2, <1>3, <1>4, <1>5

LEMMA SnapshotInv ==
  ASSUME Inv, Snapshot
  PROVE  Inv'
<1> USE DEF Inv
<1> DEFINE h == build.generation
           e == [gen[h] EXCEPT !.head = source]
<1>1. /\ pc = "snapshot" /\ pc' = "cpOpen"
      /\ gen' = [gen EXCEPT ![h].head = source]
      /\ build' = [build EXCEPT !.goal = "discovery"]
      /\ UNCHANGED <<source, ckpt, manifest, cancelRequested, result, boundVars>>
  BY DEF Snapshot, At, Goto, Calm, StartCheckpoint
<1>2. Building /\ source \in Sources
  BY <1>1 DEF Building, Unpublished, TypeOK
<1>3. e \in GenerationContents /\ GenOK(e) /\ e.made /\ e.sections = gen[h].sections
      /\ e.head = source /\ gen' = [gen EXCEPT ![h] = e]
  BY <1>1, <1>2, BuildingFacts DEF GenerationContents, GenOK, TypeOK
<1> HIDE DEF e
<1>4. gen' \in [Generations -> GenerationContents] /\ gen'[h] = e /\ GensOK' /\ ManifestsOK'
  BY <1>1, <1>2, <1>3, BuildChanges
<1>5. build' \in Builds /\ build'.goal = "discovery"
      /\ build'.generation = h /\ build'.page = build.page
      /\ build'.resumed = build.resumed /\ build'.writer = build.writer
      /\ build'.slots = build.slots
  BY <1>1, GoalTypes DEF Goals
<1>6. TypeOK'
  BY <1>1, <1>4, <1>5 DEF TypeOK, Labels, boundVars
<1>7. NewOK' /\ SlotsOK'
  BY <1>1, <1>2, <1>5, BuildingFacts DEF NewOK, SlotsOK
<1>8. WriterOK'
  BY <1>1, <1>5 DEF WriterOK, Commits
<1>9. BuildOK'
  <2>1. build.page = 0 /\ gen[h].sections = <<>> /\ build.resumed \notin Late
    BY <1>1 DEF BuildOK
  <2>2. <<>> = PagesOf(source, 0)
    <3>1. 0 \in 0..Pages
      BY ConstantFacts
    <3>2. QED
      BY <1>2, <3>1, PagesOfFacts, EmptySeq
  <2>3. QED
    BY <1>1, <1>2, <1>3, <1>4, <1>5, <2>1, <2>2, BuildingFacts
       DEF BuildOK, Stands, Commits, Unpublished, Early
<1>10. QED
  BY <1>4, <1>6, <1>7, <1>8, <1>9

LEMMA EmitPageInv ==
  ASSUME Inv, NEW due \in BOOLEAN, EmitPage(due)
  PROVE  Inv'
<1> USE DEF Inv
<1> DEFINE h == build.generation
           d == gen[h]
           p == build.page + 1
           open == p < Pages /\ p + 1 \notin Starts[source]
           synced == IF due \/ ~open THEN p ELSE d.synced
           e == [d EXCEPT !.sections = Append(d.sections, <<source, p>>),
                          !.synced = synced]
           b == [build EXCEPT !.due = due, !.writer = open]
<1>1. /\ pc = "emit"
      /\ gen' = [gen EXCEPT ![h].sections = Append(@, <<source, p>>),
                            ![h].synced = IF due \/ ~open THEN p ELSE @]
      /\ \/ /\ build' = [b EXCEPT !.page = p]
            /\ pc' = IF p = Pages THEN "finish" ELSE "emit"
         \/ build' = b /\ pc' = "record"
      /\ p = Pages /\ ~ImageSeen(p) => due
      /\ UNCHANGED <<source, ckpt, manifest, cancelRequested, result, boundVars>>
  BY DEF EmitPage, Runs, Goto, Calm, NextPage
<1>2. Building /\ source \in Sources
  BY <1>1 DEF Building, Unpublished, TypeOK
<1>3. /\ d \in GenerationContents /\ GenOK(d) /\ h \in Generations /\ d.made
      /\ d.synced \in Nat
  BY <1>2, BuildingFacts DEF GenerationContents
<1>4. /\ build.page < Pages /\ d.sections = PagesOf(source, build.page) /\ d.head = source
      /\ build.resumed \notin Late
  BY <1>1 DEF BuildOK, Stands
<1>5. p \in 1..Pages /\ p \in Nat /\ build.page \in 0..Pages /\ Pages \in Nat
  BY <1>4, BuildTypes, ConstantFacts
<1>6. /\ Append(d.sections, <<source, p>>) = PagesOf(source, p)
      /\ PagesOf(source, p) \in Seq(Sources \X (1..Pages)) /\ Len(PagesOf(source, p)) = p
  <2>1. Append(PagesOf(source, build.page), <<source, p>>) = PagesOf(source, p)
    BY <1>2, <1>4, <1>5, PagesOfFacts
  <2>2. p \in 0..Pages
    BY <1>5
  <2> HIDE DEF p
  <2>3. PagesOf(source, p) \in Seq(Sources \X (1..Pages)) /\ Len(PagesOf(source, p)) = p
    BY <1>2, <2>2, PagesOfFacts
  <2>4. QED
    BY <1>4, <2>1, <2>3
<1>7. gen' = [gen EXCEPT ![h] = e]
  BY <1>1, <1>3 DEF TypeOK
<1>8. /\ e \in GenerationContents /\ e.made /\ e.head = source
      /\ e.sections = PagesOf(source, p) /\ e.synced = synced
  <2>1. synced \in Nat
    BY <1>3, <1>5
  <2> HIDE DEF d, synced, p
  <2>2. QED
    BY <1>3, <1>4, <1>6, <2>1 DEF GenerationContents
<1>9. GenOK(e)
  <2>1. p = Pages => synced = Pages
    BY <1>5
  <2> HIDE DEF e, synced, p
  <2>2. QED
    BY <1>5, <1>6, <1>8, <2>1 DEF GenOK
<1> HIDE DEF e, d, synced
<1>10. gen' \in [Generations -> GenerationContents] /\ gen'[h] = e /\ GensOK' /\ ManifestsOK'
  BY <1>1, <1>2, <1>7, <1>8, <1>9, BuildChanges
<1>11. /\ build' \in Builds /\ build'.generation = h /\ build'.slots = build.slots
       /\ build'.resumed = build.resumed /\ build'.goal = build.goal
       /\ build'.writer = open
       /\ build'.page = IF pc' = "record" THEN build.page ELSE p
       /\ pc' = "record" \/ (pc' = "finish" /\ p = Pages) \/ (pc' = "emit" /\ p # Pages)
  <2>1. p \in 0..Pages /\ open \in BOOLEAN
    BY <1>5
  <2> HIDE DEF p, open
  <2>2. QED
    BY <1>1, <2>1 DEF TypeOK, Builds
<1>12. TypeOK'
  BY <1>1, <1>10, <1>11 DEF TypeOK, Labels, boundVars
<1>13. NewOK' /\ SlotsOK'
  BY <1>1, <1>2, <1>11, BuildingFacts DEF NewOK, SlotsOK
<1>14. WriterOK'
  <2>1. CASE pc' = "record"
    <3>1. build'.page + 1 = p /\ (build'.writer => p < Pages)
      BY <1>11, <2>1
    <3>2. QED
      BY <2>1, <3>1 DEF WriterOK
  <2>2. CASE pc' = "finish" /\ p = Pages
    <3>1. ~open
      BY <1>5, <2>2
    <3> HIDE DEF open
    <3>2. ~build'.writer
      BY <1>11, <3>1
    <3>3. QED
      BY <3>2 DEF WriterOK
  <2>3. CASE pc' = "emit"
    BY <2>3 DEF WriterOK
  <2>4. QED
    BY <1>11, <2>1, <2>2, <2>3
<1>15. BuildOK'
  <2>1. /\ source' = source /\ gen'[build.generation].made
        /\ gen'[build.generation].head = source
        /\ gen'[build.generation].sections = PagesOf(source, p)
        /\ build'.resumed \notin Late
    BY <1>1, <1>4, <1>8, <1>10, <1>11
  <2>2. pc' # "cpOpen" /\ pc' # "cpWrite"
    BY <1>11
  <2>3. CASE pc' = "record"
    BY <1>3, <1>4, <1>11, <2>1, <2>2, <2>3 DEF BuildOK, Stands, Commits
  <2>4. CASE pc' = "finish" /\ p = Pages
    BY <1>3, <1>11, <2>1, <2>2, <2>4 DEF BuildOK, Stands, Commits, Late
  <2>5. CASE pc' = "emit" /\ p # Pages
    <3>1. build'.page = p /\ p < Pages
      BY <1>5, <1>11, <2>5
    <3> HIDE DEF p
    <3>2. QED
      BY <1>3, <1>11, <2>1, <2>2, <2>5, <3>1 DEF BuildOK, Stands, Commits
  <2>6. QED
    BY <1>11, <2>3, <2>4, <2>5
<1>16. QED
  BY <1>10, <1>12, <1>13, <1>14, <1>15

LEMMA RecordInv ==
  ASSUME Inv, Record
  PROVE  Inv'
<1> USE DEF Inv
<1> DEFINE h == build.generation
           d == gen[h]
           p == build.page + 1
           recs == IF d.recs < p THEN p ELSE d.recs
           e == [d EXCEPT !.recs = recs]
<1>1. /\ pc = "record"
      /\ gen' = [gen EXCEPT ![h].recs = IF @ < p THEN p ELSE @]
      /\ \/ build' = build /\ pc' = "seal"
         \/ /\ build' = [build EXCEPT !.page = p]
            /\ pc' = IF p = Pages THEN "finish" ELSE "emit"
      /\ UNCHANGED <<source, ckpt, manifest, cancelRequested, result, boundVars>>
  BY DEF Record, At, Goto, Calm, NextPage
<1>2. Building /\ source \in Sources
  BY <1>1 DEF Building, Unpublished, TypeOK
<1>3. d \in GenerationContents /\ GenOK(d) /\ h \in Generations /\ d.made /\ d.recs \in 0..Pages
  BY <1>2, BuildingFacts DEF GenerationContents
<1>4. /\ build.page < Pages /\ d.sections = PagesOf(source, p) /\ d.head = source
      /\ build.resumed \notin Late /\ (build.writer => p < Pages)
  BY <1>1 DEF BuildOK, Stands, WriterOK, Commits
<1>5. p \in 0..Pages /\ p \in Nat /\ Pages \in Nat
  BY <1>4, BuildTypes, ConstantFacts
<1>6. /\ e \in GenerationContents /\ GenOK(e) /\ e.made /\ e.head = d.head
      /\ e.sections = d.sections /\ gen' = [gen EXCEPT ![h] = e]
  <2>1. recs \in 0..Pages
    BY <1>3, <1>5
  <2>2. gen' = [gen EXCEPT ![h] = e]
    BY <1>1, <1>3 DEF TypeOK
  <2> HIDE DEF recs, d
  <2>3. QED
    BY <1>3, <2>1, <2>2 DEF GenerationContents, GenOK
<1> HIDE DEF e
<1>7. gen' \in [Generations -> GenerationContents] /\ gen'[h] = e /\ GensOK' /\ ManifestsOK'
  BY <1>1, <1>2, <1>6, BuildChanges
<1>8. /\ build' \in Builds /\ build'.generation = h /\ build'.slots = build.slots
      /\ build'.resumed = build.resumed /\ build'.goal = build.goal
      /\ build'.writer = build.writer
      /\ build'.page = IF pc' = "seal" THEN build.page ELSE p
      /\ pc' = "seal" \/ (pc' = "finish" /\ p = Pages) \/ (pc' = "emit" /\ p # Pages)
  <2> HIDE DEF p
  <2>1. QED
    BY <1>1, <1>5 DEF TypeOK, Builds
<1>9. TypeOK'
  BY <1>1, <1>7, <1>8 DEF TypeOK, Labels, boundVars
<1>10. NewOK' /\ SlotsOK'
  BY <1>1, <1>2, <1>8, BuildingFacts DEF NewOK, SlotsOK
<1>11. WriterOK'
  BY <1>4, <1>5, <1>8 DEF WriterOK
<1>12. BuildOK'
  BY <1>1, <1>3, <1>4, <1>5, <1>6, <1>7, <1>8, ConstantFacts
     DEF BuildOK, Stands, Commits, Unpublished, Late
<1>13. QED
  BY <1>7, <1>9, <1>10, <1>11, <1>12

LEMMA SealInv ==
  ASSUME Inv, Seal
  PROVE  Inv'
<1> USE DEF Inv
<1> DEFINE h == build.generation
           d == gen[h]
           e == [d EXCEPT !.sealed = d.recs]
<1>1. /\ pc = "seal" /\ pc' = "cpOpen"
      /\ gen' = [gen EXCEPT ![h].sealed = gen[h].recs]
      /\ build' = [build EXCEPT !.goal = "page"]
      /\ UNCHANGED <<source, ckpt, manifest, cancelRequested, result, boundVars>>
  BY DEF Seal, At, Goto, Calm, StartCheckpoint
<1>2. Building
  BY <1>1 DEF Building, Unpublished
<1>3. d \in GenerationContents /\ GenOK(d) /\ h \in Generations /\ d.made
  BY <1>2, BuildingFacts
<1>4. /\ e \in GenerationContents /\ GenOK(e) /\ e.made /\ e.head = d.head
      /\ e.sections = d.sections /\ gen' = [gen EXCEPT ![h] = e]
  BY <1>1, <1>3 DEF GenerationContents, GenOK, TypeOK
<1> HIDE DEF e
<1>5. gen' \in [Generations -> GenerationContents] /\ gen'[h] = e /\ GensOK' /\ ManifestsOK'
  BY <1>1, <1>2, <1>4, BuildChanges
<1>6. build' \in Builds /\ build'.goal = "page"
      /\ build'.generation = h /\ build'.page = build.page
      /\ build'.resumed = build.resumed /\ build'.writer = build.writer
      /\ build'.slots = build.slots
  BY <1>1, GoalTypes DEF Goals
<1>7. TypeOK'
  BY <1>1, <1>5, <1>6 DEF TypeOK, Labels, boundVars
<1>8. NewOK' /\ SlotsOK'
  BY <1>1, <1>2, <1>6, BuildingFacts DEF NewOK, SlotsOK
<1>9. WriterOK'
  BY <1>1, <1>6 DEF WriterOK, Commits
<1>10. BuildOK'
  BY <1>1, <1>3, <1>4, <1>5, <1>6
     DEF BuildOK, Stands, Commits, Unpublished, Early
<1>11. QED
  BY <1>5, <1>7, <1>8, <1>9, <1>10

-----------------------------------------------------------------------------
(***************************************************************************)
(* The checkpoint.                                                         *)
(***************************************************************************)
LEMMA NewCheckpointFacts ==
  ASSUME Inv, pc = "cpOpen"
  PROVE  NewCheckpoint \in SlotContents
<1> USE DEF Inv
<1>1. build.generation \in Generations /\ build.page \in 0..Pages
      /\ build.sequence \in Nat /\ source \in Sources
      /\ build.cp \in SlotContents /\ build.durable \in ResumePhases
  BY BuildTypes DEF BuildOK, TypeOK
<1>2. CASE build.goal = "discovery"
  <2>1. 0 \in 0..Pages /\ "discovery" \in ResumePhases /\ "pages" \in Phases
    BY ConstantFacts DEF ResumePhases, Phases
  <2>2. QED
    BY <1>1, <1>2, <2>1, SlotContentsFacts DEF NewCheckpoint
<1>3. CASE build.goal = "page"
  <2>1. build.page + 1 \in 0..Pages
    BY <1>1, <1>3, ConstantFacts DEF BuildOK, Commits
  <2>2. "page" \in ResumePhases /\ "pages" \in Phases
    BY DEF ResumePhases, Phases
  <2>3. QED
    BY <1>1, <1>3, <2>1, <2>2, SlotContentsFacts DEF NewCheckpoint
<1>4. CASE build.goal = "complete"
  <2>1. "none" \in ResumePhases /\ "complete" \in Phases
    BY DEF ResumePhases, Phases
  <2>2. QED
    BY <1>1, <1>4, <2>1, SlotContentsFacts DEF NewCheckpoint
<1>5. CASE build.goal \notin {"discovery", "page", "complete"}
  <2>1. CancelledResume \in ResumePhases /\ "cancelled" \in Phases
    BY <1>1 DEF CancelledResume, ResumePhases, Phases
  <2>2. Checkpoint(build.sequence, source, build.generation,
                   "cancelled", CancelledResume, build.page) \in SlotContents
    BY <1>1, <2>1, SlotContentsFacts
  <2>3. Republishes => IsRecord(build.cp)
    BY <1>1, SlotContentsFacts DEF Republishes, Early
  <2>4. Republishes => [build.cp EXCEPT !.seq = build.sequence, !.phase = "cancelled"]
                         \in SlotContents
    BY <1>1, <2>1, <2>3 DEF IsRecord, SlotContents
  <2>5. QED
    BY <1>5, <2>2, <2>4 DEF NewCheckpoint
<1>6. QED
  BY <1>2, <1>3, <1>4, <1>5

LEMMA CpOpenInv ==
  ASSUME Inv, CpOpen
  PROVE  Inv'
<1> USE DEF Inv
<1>1. /\ pc = "cpOpen" /\ pc' = "cpWrite"
      /\ build' = [build EXCEPT !.cp = NewCheckpoint]
      /\ ckpt' = [ckpt EXCEPT ![SlotOf(build.sequence)] = Torn]
      /\ UNCHANGED <<source, manifest, gen, cancelRequested, result, boundVars>>
  BY DEF CpOpen, CommitsCheckpoint, At, Goto, Calm
<1>2. NewCheckpoint \in SlotContents
  BY <1>1, NewCheckpointFacts
<1>3. /\ build' \in Builds /\ build'.generation = build.generation
      /\ build'.page = build.page /\ build'.goal = build.goal
      /\ build'.resumed = build.resumed /\ build'.writer = build.writer
      /\ build'.slots = build.slots
  BY <1>1, <1>2 DEF TypeOK, Builds
<1>4. TypeOK'
  BY <1>1, <1>3, SlotContentsFacts, ConstantFacts DEF TypeOK, Labels, boundVars
<1>5. GensOK' /\ ManifestsOK'
  BY <1>1, SameCard
<1>6. \A G : Commits(G)' = Commits(G)
  BY <1>1, <1>3 DEF Commits
<1>7. NewOK' /\ SlotsOK'
  BY <1>1, <1>3, <1>6 DEF NewOK, SlotsOK, Unpublished
<1>8. WriterOK' /\ BuildOK'
  BY <1>1, <1>3, <1>6 DEF WriterOK, BuildOK, Stands, Unpublished
<1>9. QED
  BY <1>4, <1>5, <1>7, <1>8

LEMMA CpWriteInv ==
  ASSUME Inv, CpWrite
  PROVE  Inv'
<1> USE DEF Inv
<1> DEFINE b == [build EXCEPT !.durable = build.goal, !.ready = TRUE,
                              !.sequence = @ + 1, !.goal = "none"]
           p == build.page + 1
<1>1. /\ pc = "cpWrite"
      /\ ckpt' = [ckpt EXCEPT ![SlotOf(build.sequence)] = build.cp]
      /\ UNCHANGED <<source, manifest, gen, boundVars>>
  BY DEF CpWrite, CommitsCheckpoint, At, Calm
<1>2. ckpt' \in [Slots -> SlotContents]
  BY <1>1, BuildTypes, ConstantFacts DEF TypeOK
<1>3. GensOK' /\ ManifestsOK'
  BY <1>1, SameCard
<1>4. \/ /\ build.goal = "discovery" /\ build' = b /\ pc' = "emit"
         /\ UNCHANGED <<cancelRequested, result>>
      \/ /\ build.goal = "page" /\ build' = [b EXCEPT !.page = p]
         /\ pc' = (IF p = Pages THEN "finish" ELSE "emit")
         /\ UNCHANGED <<cancelRequested, result>>
      \/ /\ build.goal = "complete" /\ build' = build /\ pc' = "tidy"
         /\ UNCHANGED <<cancelRequested, result>>
      \/ End("paused")
  BY DEF CpWrite, Goto, NextPage
<1>5. CASE build.goal \in Early /\ UNCHANGED <<cancelRequested, result>>
           /\ \/ build.goal = "discovery" /\ build' = b /\ pc' = "emit"
              \/ /\ build.goal = "page" /\ build' = [b EXCEPT !.page = p]
                 /\ pc' = IF p = Pages THEN "finish" ELSE "emit"
  <2>1. Building
    BY <1>1, <1>5 DEF Building, Unpublished, Commits
  <2>2. b \in Builds /\ b.generation = build.generation /\ b.page = build.page
        /\ b.resumed = build.resumed /\ b.writer = build.writer /\ b.slots = build.slots
    <3>1. build.goal \in ResumePhases /\ build.sequence + 1 \in Nat
      BY <1>5, BuildTypes DEF Early, ResumePhases
    <3>2. QED
      BY <3>1 DEF TypeOK, Builds, Goals
  <2>3. build.page \in 0..Pages /\ Pages \in Nat /\ Pages >= 1 /\ p \in Nat
        /\ (build.goal = "page" => p \in 0..Pages)
    BY <1>1, BuildTypes, ConstantFacts DEF BuildOK, Commits
  <2> DEFINE q == IF build.goal = "page" THEN p ELSE build.page
  <2>4. /\ build' \in Builds /\ build'.generation = build.generation /\ build'.page = q
        /\ build'.resumed = build.resumed /\ build'.writer = build.writer
        /\ build'.slots = build.slots
    <3> HIDE DEF b, p
    <3>1. QED
      BY <1>5, <2>2, <2>3 DEF Builds
  <2>5. q \in 0..Pages /\ Stands(q)
    BY <1>1, <1>5, <2>3 DEF BuildOK, Commits
  <2>6. \/ pc' = "emit" /\ q < Pages
        \/ pc' = "finish" /\ q = Pages /\ ~build'.writer
    <3>1. CASE build.goal = "discovery"
      BY <1>1, <1>5, <2>3, <3>1 DEF BuildOK, Commits
    <3>2. CASE build.goal = "page"
      <4>1. build.writer => p < Pages
        BY <1>1, <3>2 DEF WriterOK, Commits
      <4>2. QED
        BY <1>5, <2>3, <2>4, <3>2, <4>1, BuildTypes
    <3>3. QED
      BY <1>5, <3>1, <3>2
  <2> HIDE DEF q
  <2>7. TypeOK'
    BY <1>1, <1>2, <1>5, <2>4, <2>6 DEF TypeOK, Labels, boundVars
  <2>8. NewOK' /\ SlotsOK'
    BY <1>1, <2>1, <2>4, <2>6, BuildingFacts DEF NewOK, SlotsOK
  <2>9. WriterOK'
    BY <2>6 DEF WriterOK
  <2>10. build.resumed \notin Late
    BY <1>1, <1>5 DEF BuildOK, Commits
  <2>11. BuildOK'
    BY <1>1, <2>1, <2>4, <2>5, <2>6, <2>10, BuildingFacts
       DEF BuildOK, Stands, Commits, Late
  <2>12. QED
    BY <1>3, <2>7, <2>8, <2>9, <2>11
<1>6. CASE build.goal = "complete" /\ build' = build /\ pc' = "tidy"
           /\ UNCHANGED <<cancelRequested, result>>
  <2>1. TypeOK'
    BY <1>1, <1>2, <1>6 DEF TypeOK, Labels, boundVars
  <2>2. NewOK' /\ SlotsOK'
    BY <1>1, <1>6 DEF NewOK, SlotsOK, Unpublished, Commits
  <2>3. ~build.writer
    BY <1>1, <1>6, BuildTypes DEF WriterOK, Commits
  <2>4. WriterOK' /\ BuildOK'
    BY <1>1, <1>6, <2>3 DEF WriterOK, BuildOK, Unpublished, Commits
  <2>5. QED
    BY <1>3, <2>1, <2>2, <2>4
<1>7. CASE End("paused")
  <2>1. TypeOK'
    BY <1>1, <1>2, <1>7, EndedOK DEF TypeOK, boundVars
  <2>2. QED
    BY <1>3, <1>7, <2>1, EndedOK
<1>8. QED
  BY <1>4, <1>5, <1>6, <1>7 DEF Early

-----------------------------------------------------------------------------
(***************************************************************************)
(* The commit of the product.                                              *)
(***************************************************************************)
(* A step that changes nothing but the outline, the ledgers or the control *)
(* file of the generation being built.                                     *)
LEMMA FinishingChanges ==
  ASSUME Inv, pc \in {"finish", "outline", "manifest", "resumeOutline",
                      "resumeControl", "resumeLedger"},
         NEW e \in GenerationContents,
         e.made = gen[build.generation].made, e.head = gen[build.generation].head,
         e.sections = gen[build.generation].sections,
         e.synced = gen[build.generation].synced,
         gen' = [gen EXCEPT ![build.generation] = e],
         UNCHANGED <<source, ckpt, manifest, boundVars>>
  PROVE  /\ gen' \in [Generations -> GenerationContents] /\ GensOK' /\ ManifestsOK'
         /\ gen'[build.generation] = e /\ build.generation \in Generations
         /\ e.made /\ e.head = source /\ e.sections = PagesOf(source, Pages)
         /\ build.page = Pages /\ build.generation # 0 /\ ~build.writer
         /\ \A s \in Slots : IsRecord(manifest[s]) =>
              manifest[s].src # source /\ manifest[s].gen # build.generation
<1>1. Building
  BY DEF Building, Unpublished
<1>2. GenOK(e)
  BY <1>1, BuildingFacts DEF GenOK
<1>3. gen[build.generation].head = source
      /\ gen[build.generation].sections = PagesOf(source, Pages) /\ build.page = Pages
  BY DEF Inv, BuildOK, Stands
<1>4. ~build.writer
  BY BuildTypes DEF Inv, WriterOK, Commits
<1>5. QED
  BY <1>1, <1>2, <1>3, <1>4, BuildingFacts, BuildChanges, ConstantFacts

LEMMA CloseSourceInv ==
  ASSUME Inv, CloseSource
  PROVE  Inv'
<1> USE DEF Inv
<1>1. /\ pc = "finish"
      /\ pc' = IF build.resumed = "sections" THEN "manifest" ELSE "outline"
      /\ UNCHANGED <<cardVars, build, cancelRequested, result, boundVars>>
  BY DEF CloseSource, Runs, Goto, Calm
<1>2. TypeOK'
  BY <1>1 DEF TypeOK, Labels, cardVars, boundVars
<1>3. GensOK' /\ ManifestsOK'
  BY <1>1, SameCard DEF cardVars
<1>4. NewOK' /\ SlotsOK'
  BY <1>1 DEF NewOK, SlotsOK, Unpublished, cardVars
<1>5. WriterOK' /\ BuildOK'
  BY <1>1, BuildTypes DEF WriterOK, BuildOK, Stands, Commits, Unpublished, cardVars
<1>6. QED
  BY <1>2, <1>3, <1>4, <1>5

LEMMA OutlineInv ==
  ASSUME Inv, Outline
  PROVE  Inv'
<1> USE DEF Inv
<1> DEFINE h == build.generation
           e == [gen[h] EXCEPT !.outline = TRUE]
<1>1. /\ pc = "outline" /\ pc' = "manifest"
      /\ gen' = [gen EXCEPT ![h].outline = TRUE]
      /\ UNCHANGED <<source, ckpt, manifest, build, cancelRequested, result, boundVars>>
  BY DEF Outline, Runs, Goto, Calm
<1>2. h \in Generations
  BY <1>1, BuildingFacts DEF Building, Unpublished
<1>3. e \in GenerationContents /\ e.made = gen[h].made /\ e.head = gen[h].head
      /\ e.sections = gen[h].sections /\ e.synced = gen[h].synced /\ e.outline
      /\ gen' = [gen EXCEPT ![h] = e]
  BY <1>1, <1>2, GenerationTypes DEF GenerationContents, TypeOK
<1> HIDE DEF e
<1>4. /\ gen' \in [Generations -> GenerationContents] /\ GensOK' /\ ManifestsOK'
      /\ gen'[h] = e /\ e.made /\ e.head = source /\ e.sections = PagesOf(source, Pages)
      /\ build.page = Pages /\ h # 0 /\ ~build.writer
      /\ \A s \in Slots : IsRecord(manifest[s]) =>
           manifest[s].src # source /\ manifest[s].gen # h
  BY <1>1, <1>3, FinishingChanges
<1>5. TypeOK'
  BY <1>1, <1>4 DEF TypeOK, Labels, boundVars
<1>6. NewOK' /\ SlotsOK' /\ WriterOK'
  BY <1>1, <1>4 DEF NewOK, SlotsOK, WriterOK
<1>7. BuildOK'
  BY <1>1, <1>2, <1>3, <1>4 DEF BuildOK, Stands, Commits
<1>8. QED
  BY <1>4, <1>5, <1>6, <1>7

LEMMA TargetSlotFacts == TargetSlot \in Slots
BY DEF TargetSlot, Slots

LEMMA OpenManifestInv ==
  ASSUME Inv, OpenManifest
  PROVE  Inv'
<1> USE DEF Inv
<1>1. /\ pc = "manifest" /\ pc' = "writeManifest"
      /\ manifest' = [manifest EXCEPT ![TargetSlot] = Torn]
      /\ UNCHANGED <<source, ckpt, gen, build, cancelRequested, result, boundVars>>
  BY DEF OpenManifest, Runs, Goto, Calm
<1>2. TargetSlot' = TargetSlot /\ TargetSlot \in Slots
  BY <1>1, TargetSlotFacts DEF TargetSlot
<1>3. /\ manifest'[TargetSlot] = Torn /\ ~IsRecord(Torn) /\ Torn \in SlotContents
      /\ \A s \in Slots : IsRecord(manifest'[s]) =>
           manifest'[s] = manifest[s] /\ s # TargetSlot
  BY <1>1, <1>2, SlotContentsFacts DEF TypeOK
<1>4. TypeOK'
  BY <1>1, <1>2, <1>3 DEF TypeOK, Labels, boundVars
<1>5. GensOK' /\ ManifestsOK'
  BY <1>1, <1>3 DEF GensOK, GenOK, ManifestsOK, Product
<1>6. NewOK'
  BY <1>1, <1>3 DEF NewOK, Unpublished
<1>7. SlotsOK'
  BY <1>1, <1>2, <1>3 DEF SlotsOK
<1>8. WriterOK' /\ BuildOK'
  BY <1>1, BuildTypes DEF WriterOK, BuildOK, Stands, Commits, Unpublished
<1>9. QED
  BY <1>4, <1>5, <1>6, <1>7, <1>8

LEMMA WriteManifestInv ==
  ASSUME Inv, WriteManifest
  PROVE  Inv'
<1> USE DEF Inv
<1> DEFINE m == Manifest(build.sequence, source, build.generation)
<1>1. /\ pc = "writeManifest" /\ pc' = "verify"
      /\ manifest' = [manifest EXCEPT ![TargetSlot] = m]
      /\ UNCHANGED <<source, ckpt, gen, build, cancelRequested, result, boundVars>>
  BY DEF WriteManifest, Runs, Goto, Calm
<1>2. TargetSlot' = TargetSlot /\ TargetSlot \in Slots
  BY <1>1, TargetSlotFacts DEF TargetSlot
<1>3. Building
  BY <1>1 DEF Building, Unpublished
<1>4. m \in SlotContents /\ IsRecord(m) /\ m.src = source /\ m.gen = build.generation
  <2>1. "complete" \in Phases /\ "none" \in ResumePhases /\ Pages \in 0..Pages
    BY ConstantFacts DEF Phases, ResumePhases
  <2>2. QED
    BY <1>3, <2>1, BuildTypes, BuildingFacts, SlotContentsFacts DEF Manifest, TypeOK
<1> HIDE DEF m
<1>5. /\ manifest' \in [Slots -> SlotContents] /\ manifest'[TargetSlot] = m
      /\ \A s \in Slots : s # TargetSlot => manifest'[s] = manifest[s]
  BY <1>1, <1>2, <1>4 DEF TypeOK
<1>6. TypeOK'
  BY <1>1, <1>5 DEF TypeOK, Labels, boundVars
<1>7. gen[build.generation].outline /\ Stands(Pages) /\ gen[build.generation].made
  BY <1>1, <1>3, BuildingFacts DEF BuildOK
<1>8. GensOK' /\ ManifestsOK'
  <2>1. ASSUME NEW s \in Slots, IsRecord(manifest'[s])
        PROVE  Product(manifest[s])'
    <3>1. CASE s = TargetSlot
      BY <1>1, <1>4, <1>5, <1>7, <3>1 DEF Product, Stands
    <3>2. CASE s # TargetSlot
      BY <1>1, <1>5, <2>1, <3>2 DEF Product, ManifestsOK
    <3>3. QED
      BY <3>1, <3>2
  <2>2. QED
    BY <1>1, <2>1 DEF GensOK, GenOK, ManifestsOK
<1>9. NewOK'
  BY <1>1 DEF NewOK, Unpublished, Commits
<1>10. SlotsOK'
  BY <1>1, <1>2, <1>3, <1>4, <1>5, BuildingFacts DEF SlotsOK
<1>11. WriterOK' /\ BuildOK'
  BY <1>1, <1>3, BuildTypes, BuildingFacts DEF WriterOK, BuildOK, Commits, Unpublished
<1>12. QED
  BY <1>6, <1>8, <1>9, <1>10, <1>11

LEMMA VerifyManifestInv ==
  ASSUME Inv, VerifyManifest
  PROVE  Inv'
<1> USE DEF Inv
<1> DEFINE b == [build EXCEPT !.slots[TargetSlot] = manifest[TargetSlot]]
<1>1. /\ pc = "verify" /\ pc' = "cpOpen"
      /\ build' = [b EXCEPT !.goal = "complete"]
      /\ UNCHANGED <<cardVars, cancelRequested, result, boundVars>>
  BY DEF VerifyManifest, Runs, Goto, Calm, StartCheckpoint
<1>2. /\ b \in Builds /\ b.generation = build.generation /\ b.writer = build.writer
      /\ b.slots = [build.slots EXCEPT ![TargetSlot] = manifest[TargetSlot]]
  <2>1. [build.slots EXCEPT ![TargetSlot] = manifest[TargetSlot]] \in [Slots -> SlotContents]
    BY TargetSlotFacts, BuildTypes DEF TypeOK
  <2>2. b = [build EXCEPT !.slots = [build.slots EXCEPT ![TargetSlot] = manifest[TargetSlot]]]
    BY DEF TypeOK, Builds
  <2> HIDE DEF b
  <2>3. QED
    BY <2>1, <2>2 DEF TypeOK, Builds
<1> HIDE DEF b
<1>3. /\ build' \in Builds /\ build'.goal = "complete"
      /\ build'.generation = build.generation /\ build'.writer = build.writer
      /\ build'.slots = [build.slots EXCEPT ![TargetSlot] = manifest[TargetSlot]]
  BY <1>1, <1>2 DEF Builds, Goals
<1>4. TypeOK'
  BY <1>1, <1>3 DEF TypeOK, Labels, cardVars, boundVars
<1>5. GensOK' /\ ManifestsOK'
  BY <1>1, SameCard DEF cardVars
<1>6. ~Unpublished' /\ \A G : "complete" \notin G => ~Commits(G)'
  BY <1>1, <1>3 DEF Unpublished, Commits, Early
<1>7. NewOK'
  BY <1>6 DEF NewOK
<1>8. SlotsOK'
  <2>1. \A s \in Slots : IsRecord(manifest[s]) => build'.slots[s] = manifest[s]
    BY <1>1, <1>3, BuildTypes, TargetSlotFacts DEF SlotsOK
  <2>2. QED
    BY <1>1, <2>1 DEF SlotsOK, cardVars
<1>9. ~build.writer
  BY <1>1, BuildTypes DEF WriterOK, Commits
<1>10. WriterOK' /\ BuildOK'
  BY <1>1, <1>3, <1>6, <1>9 DEF WriterOK, BuildOK, Early
<1>11. QED
  BY <1>4, <1>5, <1>7, <1>8, <1>10

LEMMA TidyInv ==
  ASSUME Inv, Tidy
  PROVE  Inv'
<1> USE DEF Inv
<1> DEFINE h == build.generation
           none == [s \in Slots |-> 0]
           e == [gen[h] EXCEPT !.ledger = none, !.control = 0]
<1>1. /\ pc = "tidy" /\ pc' = "sweep"
      /\ gen' = [gen EXCEPT ![h].ledger = none, ![h].control = 0]
      /\ UNCHANGED <<source, ckpt, manifest, build, cancelRequested, result, boundVars>>
  BY DEF Tidy, Runs, Goto, Calm
<1>2. h \in Generations
  BY <1>1 DEF BuildOK
<1>3. /\ e \in GenerationContents /\ e.made = gen[h].made /\ e.head = gen[h].head
      /\ e.sections = gen[h].sections /\ e.synced = gen[h].synced
      /\ e.outline = gen[h].outline /\ gen' = [gen EXCEPT ![h] = e]
  <2>1. none \in [Slots -> Nat]
    OBVIOUS
  <2>2. gen' = [gen EXCEPT ![h] = e]
    BY <1>1, <1>2 DEF TypeOK
  <2> HIDE DEF none
  <2>3. QED
    BY <1>2, <2>1, <2>2, GenerationTypes DEF GenerationContents
<1> HIDE DEF e
<1>4. gen' \in [Generations -> GenerationContents] /\ gen'[h] = e
      /\ \A g \in Generations : g # h => gen'[g] = gen[g]
  BY <1>2, <1>3 DEF TypeOK
<1>5. GensOK'
  BY <1>2, <1>3, <1>4 DEF GensOK, GenOK
<1>6. ManifestsOK'
  <2> SUFFICES ASSUME NEW s \in Slots, IsRecord(manifest[s])
               PROVE  Product(manifest[s])'
    BY <1>1 DEF ManifestsOK
  <2>1. manifest[s].gen \in Generations /\ Product(manifest[s]) /\ manifest'[s] = manifest[s]
    BY <1>1, SlotContentsFacts DEF TypeOK, ManifestsOK
  <2>2. QED
    BY <1>3, <1>4, <2>1 DEF Product
<1>7. TypeOK'
  BY <1>1, <1>4 DEF TypeOK, Labels, boundVars
<1>8. NewOK' /\ SlotsOK'
  BY <1>1 DEF NewOK, SlotsOK, Unpublished, Commits
<1>9. WriterOK' /\ BuildOK'
  BY <1>1, <1>2 DEF WriterOK, BuildOK, Unpublished, Commits
<1>10. QED
  BY <1>5, <1>6, <1>7, <1>8, <1>9

(* Every generation that a valid manifest names is protected.              *)
LEMMA SweepInv ==
  ASSUME Inv, NEW g \in Generations, Sweep(g)
  PROVE  Inv'
<1> USE DEF Inv
<1>1. /\ pc = "sweep" /\ g \notin Protected /\ gen' = [gen EXCEPT ![g] = NoGeneration]
      /\ UNCHANGED <<source, ckpt, manifest, ramVars, boundVars>>
  BY DEF Sweep, Runs, Calm, Unprotected
<1>2. \A s \in Slots : IsRecord(manifest[s]) => manifest[s].gen # g
  BY <1>1 DEF SlotsOK, Protected
<1>3. NoGeneration \in GenerationContents /\ GenOK(NoGeneration)
  <2>1. <<>> \in Seq(Sources \X (1..Pages)) /\ Len(<<>>) = 0
    OBVIOUS
  <2>2. QED
    BY <2>1, ConstantFacts DEF NoGeneration, GenerationContents, GenOK
<1>4. gen' \in [Generations -> GenerationContents] /\ GensOK' /\ ManifestsOK'
  BY <1>1, <1>2, <1>3, UnnamedChanges
<1>5. TypeOK'
  BY <1>1, <1>4 DEF TypeOK, ramVars, boundVars
<1>6. NewOK' /\ SlotsOK'
  BY <1>1 DEF NewOK, SlotsOK, Unpublished, Commits, ramVars
<1>7. WriterOK' /\ BuildOK'
  BY <1>1 DEF WriterOK, BuildOK, Unpublished, Commits, ramVars
<1>8. QED
  BY <1>4, <1>5, <1>6, <1>7

LEMMA EndKeepsInv ==
  ASSUME Inv, End("paused") \/ End("failed") \/ End("complete"),
         UNCHANGED cardVars, UNCHANGED boundVars
  PROVE  Inv'
<1> USE DEF Inv
<1>1. GensOK' /\ ManifestsOK'
  BY SameCard DEF cardVars
<1>2. TypeOK'
  BY EndedOK DEF TypeOK, cardVars, boundVars
<1>3. QED
  BY <1>1, <1>2, EndedOK

-----------------------------------------------------------------------------
(***************************************************************************)
(* Cancellation.                                                           *)
(***************************************************************************)
LEMMA CancelAtSectionsInv ==
  ASSUME Inv, CancelAtSections
  PROVE  Inv'
<1> USE DEF Inv
<1> DEFINE h == build.generation
           e == [gen[h] EXCEPT !.outline = FALSE]
<1>1. /\ pc = "finish" /\ pc' = "resumeOutline"
      /\ gen' = [gen EXCEPT ![h].outline = FALSE]
      /\ build' = [build EXCEPT !.durable = "sections"]
      /\ UNCHANGED <<source, ckpt, manifest, cancelRequested, result, boundVars>>
  BY DEF CancelAtSections, AtBoundary, At, Goto, Calm
<1>2. h \in Generations
  BY <1>1, BuildingFacts DEF Building, Unpublished
<1>3. e \in GenerationContents /\ e.made = gen[h].made /\ e.head = gen[h].head
      /\ e.sections = gen[h].sections /\ e.synced = gen[h].synced
      /\ gen' = [gen EXCEPT ![h] = e]
  BY <1>1, <1>2, GenerationTypes DEF GenerationContents, TypeOK
<1> HIDE DEF e
<1>4. /\ gen' \in [Generations -> GenerationContents] /\ GensOK' /\ ManifestsOK'
      /\ gen'[h] = e /\ e.made /\ e.head = source /\ e.sections = PagesOf(source, Pages)
      /\ build.page = Pages /\ h # 0 /\ ~build.writer
      /\ \A s \in Slots : IsRecord(manifest[s]) =>
           manifest[s].src # source /\ manifest[s].gen # h
  BY <1>1, <1>3, FinishingChanges
<1>5. build' \in Builds /\ build'.generation = h /\ build'.page = build.page
      /\ build'.resumed = build.resumed /\ build'.writer = build.writer
      /\ build'.slots = build.slots
  BY <1>1 DEF TypeOK, Builds, ResumePhases
<1>6. TypeOK'
  BY <1>1, <1>4, <1>5 DEF TypeOK, Labels, boundVars
<1>7. NewOK' /\ SlotsOK' /\ WriterOK'
  BY <1>1, <1>4, <1>5 DEF NewOK, SlotsOK, WriterOK
<1>8. BuildOK'
  BY <1>1, <1>2, <1>4, <1>5 DEF BuildOK, Stands, Commits
<1>9. QED
  BY <1>4, <1>6, <1>7, <1>8

LEMMA ResumeOutlineInv ==
  ASSUME Inv, ResumeOutline
  PROVE  Inv'
<1> USE DEF Inv
<1> DEFINE h == build.generation
           e == [gen[h] EXCEPT !.outline = TRUE]
<1>1. /\ pc = "resumeOutline" /\ pc' = "resumeControl"
      /\ gen' = [gen EXCEPT ![h].outline = TRUE]
      /\ UNCHANGED <<source, ckpt, manifest, build, cancelRequested, result, boundVars>>
  BY DEF ResumeOutline, At, Goto, Calm
<1>2. h \in Generations
  BY <1>1, BuildingFacts DEF Building, Unpublished
<1>3. e \in GenerationContents /\ e.made = gen[h].made /\ e.head = gen[h].head
      /\ e.sections = gen[h].sections /\ e.synced = gen[h].synced
      /\ gen' = [gen EXCEPT ![h] = e]
  BY <1>1, <1>2, GenerationTypes DEF GenerationContents, TypeOK
<1> HIDE DEF e
<1>4. /\ gen' \in [Generations -> GenerationContents] /\ GensOK' /\ ManifestsOK'
      /\ gen'[h] = e /\ e.made /\ e.head = source /\ e.sections = PagesOf(source, Pages)
      /\ build.page = Pages /\ h # 0 /\ ~build.writer
      /\ \A s \in Slots : IsRecord(manifest[s]) =>
           manifest[s].src # source /\ manifest[s].gen # h
  BY <1>1, <1>3, FinishingChanges
<1>5. TypeOK'
  BY <1>1, <1>4 DEF TypeOK, Labels, boundVars
<1>6. NewOK' /\ SlotsOK' /\ WriterOK'
  BY <1>1, <1>4 DEF NewOK, SlotsOK, WriterOK
<1>7. BuildOK'
  BY <1>1, <1>2, <1>4 DEF BuildOK, Stands, Commits
<1>8. QED
  BY <1>4, <1>5, <1>6, <1>7

LEMMA ResumeControlInv ==
  ASSUME Inv, ResumeControl
  PROVE  Inv'
<1> USE DEF Inv
<1> DEFINE h == build.generation
           e == [gen[h] EXCEPT !.control = build.sequence]
<1>1. /\ pc = "resumeControl" /\ pc' = "resumeLedger"
      /\ gen' = [gen EXCEPT ![h].control = build.sequence]
      /\ UNCHANGED <<source, ckpt, manifest, build, cancelRequested, result, boundVars>>
  BY DEF ResumeControl, At, Goto, Calm
<1>2. h \in Generations
  BY <1>1, BuildingFacts DEF Building, Unpublished
<1>3. e \in GenerationContents /\ e.made = gen[h].made /\ e.head = gen[h].head
      /\ e.sections = gen[h].sections /\ e.synced = gen[h].synced
      /\ gen' = [gen EXCEPT ![h] = e]
  BY <1>1, <1>2, GenerationTypes, BuildTypes DEF GenerationContents, TypeOK
<1> HIDE DEF e
<1>4. /\ gen' \in [Generations -> GenerationContents] /\ GensOK' /\ ManifestsOK'
      /\ gen'[h] = e /\ e.made /\ e.head = source /\ e.sections = PagesOf(source, Pages)
      /\ build.page = Pages /\ h # 0 /\ ~build.writer
      /\ \A s \in Slots : IsRecord(manifest[s]) =>
           manifest[s].src # source /\ manifest[s].gen # h
  BY <1>1, <1>3, FinishingChanges
<1>5. TypeOK'
  BY <1>1, <1>4 DEF TypeOK, Labels, boundVars
<1>6. NewOK' /\ SlotsOK' /\ WriterOK'
  BY <1>1, <1>4 DEF NewOK, SlotsOK, WriterOK
<1>7. BuildOK'
  BY <1>1, <1>2, <1>4 DEF BuildOK, Stands, Commits
<1>8. QED
  BY <1>4, <1>5, <1>6, <1>7

LEMMA CancelAtManifestInv ==
  ASSUME Inv, CancelAtManifest
  PROVE  Inv'
<1> USE DEF Inv
<1>1. /\ pc = "manifest" /\ pc' = "resumeLedger"
      /\ build' = [build EXCEPT !.durable = "manifest"]
      /\ UNCHANGED <<cardVars, cancelRequested, result, boundVars>>
  BY DEF CancelAtManifest, At, Goto, Calm
<1>2. build' \in Builds /\ build'.generation = build.generation
      /\ build'.page = build.page /\ build'.resumed = build.resumed
      /\ build'.writer = build.writer /\ build'.slots = build.slots
  BY <1>1 DEF TypeOK, Builds, ResumePhases
<1>3. TypeOK'
  BY <1>1, <1>2 DEF TypeOK, Labels, cardVars, boundVars
<1>4. GensOK' /\ ManifestsOK'
  BY <1>1, SameCard DEF cardVars
<1>5. NewOK' /\ SlotsOK'
  BY <1>1, <1>2 DEF NewOK, SlotsOK, Unpublished, cardVars
<1>6. WriterOK' /\ BuildOK'
  BY <1>1, <1>2 DEF WriterOK, BuildOK, Stands, Commits, Unpublished, cardVars
<1>7. QED
  BY <1>3, <1>4, <1>5, <1>6

(* A build that commits the checkpoint of a cancellation.                  *)
LEMMA CancelledOK ==
  ASSUME Inv, pc' = "cpOpen", build' \in Builds, build'.goal = "cancelled",
         build'.generation = build.generation, build'.slots = build.slots,
         ~build'.writer, build.generation \in Generations,
         \A s \in Slots : IsRecord(manifest'[s]) => build.slots[s] = manifest'[s]
  PROVE  NewOK' /\ SlotsOK' /\ WriterOK' /\ BuildOK'
<1>1. ~Unpublished' /\ ~Commits(Early)' /\ ~Commits({"page"})' /\ ~Commits({"discovery"})'
  BY DEF Unpublished, Commits, Early
<1>2. NewOK' /\ SlotsOK' /\ WriterOK'
  BY <1>1 DEF NewOK, SlotsOK, WriterOK
<1>3. BuildOK'
  BY <1>1 DEF BuildOK
<1>4. QED
  BY <1>2, <1>3

LEMMA ResumeLedgerInv ==
  ASSUME Inv, ResumeLedger
  PROVE  Inv'
<1> USE DEF Inv
<1> DEFINE h == build.generation
           ledger == [gen[h].ledger EXCEPT ![SlotOf(build.sequence)] = build.sequence]
           e == [gen[h] EXCEPT !.ledger = ledger]
<1>1. /\ pc = "resumeLedger" /\ pc' = "cpOpen"
      /\ gen' = [gen EXCEPT ![h].ledger[SlotOf(build.sequence)] = build.sequence]
      /\ build' = [[build EXCEPT !.ready = TRUE, !.emitReady = build.durable = "sections"]
                     EXCEPT !.goal = "cancelled"]
      /\ UNCHANGED <<source, ckpt, manifest, cancelRequested, result, boundVars>>
  BY DEF ResumeLedger, At, Goto, Calm, StartCheckpoint
<1>2. h \in Generations
  BY <1>1, BuildingFacts DEF Building, Unpublished
<1>3. e \in GenerationContents /\ e.made = gen[h].made /\ e.head = gen[h].head
      /\ e.sections = gen[h].sections /\ e.synced = gen[h].synced
      /\ gen' = [gen EXCEPT ![h] = e]
  <2>1. ledger \in [Slots -> Nat]
    BY <1>2, GenerationTypes, BuildTypes
  <2>2. gen' = [gen EXCEPT ![h] = e]
    BY <1>1, <1>2, GenerationTypes DEF TypeOK, GenerationContents
  <2> HIDE DEF ledger
  <2>3. QED
    BY <1>2, <2>1, <2>2, GenerationTypes DEF GenerationContents
<1> HIDE DEF e
<1>4. gen' \in [Generations -> GenerationContents] /\ GensOK' /\ ManifestsOK'
      /\ ~build.writer
  BY <1>1, <1>3, FinishingChanges
<1>5. build' \in Builds /\ build'.goal = "cancelled" /\ build'.generation = h
      /\ build'.writer = build.writer /\ build'.slots = build.slots
  BY <1>1 DEF TypeOK, Builds, Goals
<1>6. TypeOK'
  BY <1>1, <1>4, <1>5 DEF TypeOK, Labels, boundVars
<1>7. \A s \in Slots : IsRecord(manifest'[s]) => build.slots[s] = manifest'[s]
  BY <1>1 DEF SlotsOK
<1>8. NewOK' /\ SlotsOK' /\ WriterOK' /\ BuildOK'
  BY <1>1, <1>2, <1>4, <1>5, <1>7, CancelledOK
<1>9. QED
  BY <1>4, <1>6, <1>8

LEMMA CancelElsewhereInv ==
  ASSUME Inv, CancelElsewhere
  PROVE  Inv'
<1> USE DEF Inv
<1>1. /\ pc \in {"discover", "emit", "outline", "writeManifest", "verify", "tidy",
                  "sweep", "finish", "cpOpen", "cpWrite"}
      /\ pc \in {"cpOpen", "cpWrite"} => build.goal = "complete"
      /\ pc' = "cpOpen"
      /\ build' = [[build EXCEPT !.writer = FALSE] EXCEPT !.goal = "cancelled"]
      /\ AbortWriter \/ UNCHANGED gen
      /\ manifest' = IF Unverified THEN [manifest EXCEPT ![TargetSlot] = Absent] ELSE manifest
      /\ UNCHANGED <<source, ckpt, cancelRequested, result, boundVars>>
  BY DEF CancelElsewhere, StartCheckpoint, Goto, Calm, At
<1>2. build.generation \in Generations
  BY <1>1 DEF BuildOK
<1>3. build' \in Builds /\ build'.goal = "cancelled" /\ build'.slots = build.slots
      /\ build'.generation = build.generation /\ ~build'.writer
  BY <1>1 DEF TypeOK, Builds, Goals
<1>4. /\ manifest' \in [Slots -> SlotContents]
      /\ \A s \in Slots : IsRecord(manifest'[s]) =>
           manifest'[s] = manifest[s] /\ build.slots[s] = manifest'[s]
  <2>1. CASE Unverified
    <3>1. /\ manifest' \in [Slots -> SlotContents] /\ manifest'[TargetSlot] = Absent
          /\ \A s \in Slots : s # TargetSlot => manifest'[s] = manifest[s]
      BY <1>1, <2>1, TargetSlotFacts, SlotContentsFacts DEF TypeOK
    <3>2. pc \notin {"idle", "load"} /\ ~IsRecord(Absent)
      BY <1>1, SlotContentsFacts
    <3>3. QED
      BY <3>1, <3>2 DEF SlotsOK
  <2>2. CASE ~Unverified
    BY <1>1, <2>2 DEF SlotsOK, TypeOK, Unverified
  <2>3. QED
    BY <2>1, <2>2
<1>5. gen' \in [Generations -> GenerationContents] /\ GensOK' /\ ManifestsOK'
  <2>1. CASE UNCHANGED gen
    <3>1. GensOK' /\ gen' \in [Generations -> GenerationContents]
      BY <2>1 DEF GensOK, GenOK, TypeOK
    <3>2. ManifestsOK'
      BY <1>4, <2>1 DEF ManifestsOK, Product
    <3>3. QED
      BY <3>1, <3>2
  <2>2. CASE Unverified /\ AbortWriter
    <3>1. ~build.writer
      BY <2>2, BuildTypes DEF WriterOK, Commits, Unverified
    <3>2. gen' = gen
      BY <2>2, <3>1 DEF AbortWriter, WithoutOpenSection, TypeOK
    <3>3. QED
      BY <2>1, <3>2
  <2>3. CASE ~Unverified /\ AbortWriter
    BY <1>1, <2>3, AbortKeepsCard
  <2>4. QED
    BY <1>1, <2>1, <2>2, <2>3
<1>6. TypeOK'
  BY <1>1, <1>3, <1>4, <1>5 DEF TypeOK, Labels, boundVars
<1>7. NewOK' /\ SlotsOK' /\ WriterOK' /\ BuildOK'
  <2>1. \A s \in Slots : IsRecord(manifest'[s]) => build.slots[s] = manifest'[s]
    BY <1>4
  <2>2. QED
    BY <1>1, <1>2, <1>3, <2>1, CancelledOK
<1>8. QED
  BY <1>5, <1>6, <1>7

-----------------------------------------------------------------------------
(***************************************************************************)
(* The invariant.                                                          *)
(***************************************************************************)
LEMMA SetupInv ==
  ASSUME Inv, Setup
  PROVE  Inv'
<1>1. CASE Load
  BY <1>1, LoadInv
<1>2. CASE RestoreEarly
  BY <1>2, RestoreEarlyInv
<1>3. CASE RestoreLate
  BY <1>3, RestoreLateInv
<1>4. CASE Reject
  BY <1>4, RejectInv
<1>5. CASE Select
  BY <1>5, SelectInv
<1>6. CASE SelectFails
  BY <1>6, FailKeepsInv DEF SelectFails, Calm, boundVars, Inv, TypeOK
<1>7. QED
  BY <1>1, <1>2, <1>3, <1>4, <1>5, <1>6 DEF Setup

LEMMA EmissionInv ==
  ASSUME Inv, Emission
  PROVE  Inv'
BY DiscoverInv, SnapshotInv, EmitPageInv, RecordInv, SealInv, CpOpenInv, CpWriteInv
   DEF Emission

LEMMA CommitInv ==
  ASSUME Inv, Commit
  PROVE  Inv'
<1>1. CASE SweepFails
  BY <1>1, FailKeepsInv DEF SweepFails, Calm, boundVars, Inv, TypeOK
<1>2. CASE Complete
  BY <1>2, EndKeepsInv DEF Complete, Calm
<1>3. CASE Commit /\ ~SweepFails /\ ~Complete
  BY <1>3, CloseSourceInv, OutlineInv, OpenManifestInv, WriteManifestInv,
     VerifyManifestInv, TidyInv, SweepInv DEF Commit
<1>4. QED
  BY <1>1, <1>2, <1>3

LEMMA CancellationInv ==
  ASSUME Inv, Cancellation
  PROVE  Inv'
<1>1. CASE StopSetup
  BY <1>1, EndKeepsInv DEF StopSetup, Calm
<1>2. CASE ~StopSetup
  BY <1>2, CancelAtSectionsInv, ResumeOutlineInv, ResumeControlInv, CancelAtManifestInv,
     ResumeLedgerInv, CancelElsewhereInv DEF Cancellation
<1>3. QED
  BY <1>1, <1>2

LEMMA IoFailsInv ==
  ASSUME Inv, IoFails
  PROVE  Inv'
<1>1. Fail /\ faults' \in 0..MaxFaults /\ UNCHANGED <<cancels, replacements>>
  BY ConstantFacts DEF IoFails, Fault, Inv, TypeOK
<1>2. QED
  BY <1>1, FailKeepsInv

LEMMA StutterInv ==
  ASSUME Inv, UNCHANGED vars
  PROVE  Inv'
<1> USE DEF Inv, vars, cardVars, ramVars, boundVars
<1>1. TypeOK'
  BY DEF TypeOK
<1>2. GensOK' /\ ManifestsOK'
  BY SameCard
<1>3. \A G : Commits(G)' = Commits(G)
  BY DEF Commits
<1>4. NewOK' /\ SlotsOK'
  BY <1>3 DEF NewOK, SlotsOK, Unpublished, TargetSlot
<1>5. WriterOK' /\ BuildOK'
  BY <1>3 DEF WriterOK, BuildOK, Stands, Unpublished
<1>6. QED
  BY <1>1, <1>2, <1>4, <1>5

LEMMA NextInv ==
  ASSUME Inv, [Next]_vars
  PROVE  Inv'
<1>1. CASE Step
  BY <1>1, SetupInv, EmissionInv, CommitInv, CancellationInv DEF Step
<1>2. CASE User
  BY <1>2, OpenInv, RequestCancelInv, ExitInv, ReplaceInv DEF User
<1>3. CASE IoFails
  BY <1>3, IoFailsInv
<1>4. CASE PowerLoss
  BY <1>4, PowerLossInv
<1>5. CASE UNCHANGED vars
  BY <1>5, StutterInv
<1>6. QED
  BY <1>1, <1>2, <1>3, <1>4, <1>5 DEF Next

LEMMA Invariance == Spec => []Inv
<1>1. Init => Inv
  BY InitInv
<1>2. Inv /\ [Next]_vars => Inv'
  BY NextInv
<1>3. QED
  BY <1>1, <1>2, PTL DEF Spec

(* Every variable keeps its type: a checkpoint names a generation and a    *)
(* page that exist, whatever a power loss or an interrupted build left.    *)
THEOREM TypeCorrect == Spec => []TypeOK
<1>1. Inv => TypeOK
  BY DEF Inv
<1>2. QED
  BY <1>1, Invariance, PTL

(* A valid manifest names a complete product of its version, whatever      *)
(* preparations of other versions, power losses and cleanups came after.   *)
THEOREM ManifestsAreTrue == Spec => []ManifestNamesProduct
<1>1. Inv => ManifestNamesProduct
  BY DEF Inv, ManifestsOK, Product, ManifestNamesProduct
<1>2. QED
  BY <1>1, Invariance, PTL

(* A build that emits pages stands on the pages before them, each written  *)
(* once and by the same version, however often it was interrupted.         *)
THEOREM BuildsContinueWhereTheyStopped == Spec => []BuildStandsOnItsPages
<1>1. Inv => BuildStandsOnItsPages
  <2> SUFFICES ASSUME Inv, pc \in {"emit", "finish", "outline", "manifest"}
               PROVE  gen[build.generation].sections = PagesOf(source, build.page)
    BY DEF BuildStandsOnItsPages
  <2>1. CASE pc = "emit"
    BY <2>1 DEF Inv, BuildOK, Stands
  <2>2. CASE pc # "emit"
    BY <2>2 DEF Inv, BuildOK, Stands
  <2>3. QED
    BY <2>1, <2>2
<1>2. QED
  BY <1>1, Invariance, PTL

-----------------------------------------------------------------------------
(***************************************************************************)
(* The refinement.                                                         *)
(***************************************************************************)
Records == {s \in Slots : IsRecord(manifest[s])}

LEMMA HaveFacts ==
  /\ pc # "verify" => Have = {manifest[s].src : s \in Records}
  /\ pc = "verify" => Have = {manifest[s].src : s \in Records \ {TargetSlot}}
BY DEF Have, Published, Records

(* Nothing is published or withdrawn.                                      *)
LEMMA SameHave ==
  ASSUME pc # "verify", pc' # "verify", UNCHANGED manifest
  PROVE  UNCHANGED Have
BY DEF Have, Published

(* The end of the verification, whichever way it comes about.              *)
LEMMA PublishStep ==
  ASSUME Inv, pc = "verify", pc' # "verify", UNCHANGED <<source, manifest>>
  PROVE  Promise!Finish
<1> USE DEF Inv
<1>1. IsRecord(manifest[TargetSlot])
  BY TargetSlotFacts, SourcesAssumption DEF TypeOK, SlotsOK, SlotContents, IsRecord
<1>2. TargetSlot \in Records /\ manifest[TargetSlot].src = source
      /\ \A s \in Records \ {TargetSlot} : manifest[s].src # source
  BY <1>1, TargetSlotFacts DEF Records, SlotsOK
<1>3. Have = {manifest[s].src : s \in Records \ {TargetSlot}}
  BY HaveFacts
<1>4. Have' = {manifest[s].src : s \in Records}
  BY DEF Have, Published, Records
<1>5. source \notin Have /\ Have' = Have \union {source}
  BY <1>2, <1>3, <1>4
<1>6. QED
  BY <1>5 DEF Promise!Finish

(* The slot of another version is opened for the new manifest.             *)
LEMMA EvictStep ==
  ASSUME Inv, OpenManifest
  PROVE  UNCHANGED <<source, Have>> \/ \E s \in Sources : Promise!Evict(s)
<1> USE DEF Inv
<1> DEFINE T == TargetSlot
           m == manifest
<1>1. /\ pc = "manifest" /\ pc' = "writeManifest" /\ source' = source
      /\ manifest' = [manifest EXCEPT ![T] = Torn]
  BY DEF OpenManifest, Runs, Goto
<1>2. Have = {m[s].src : s \in Records}
  BY <1>1, HaveFacts
<1>3. Have' = {m[s].src : s \in Records \ {T}}
  <2>1. ~IsRecord(manifest'[T]) /\ \A s \in Slots : s # T => manifest'[s] = m[s]
    BY <1>1, TargetSlotFacts, SlotContentsFacts DEF TypeOK
  <2>2. Records' = Records \ {T}
    BY <2>1, TargetSlotFacts DEF Records
  <2>3. Have' = {manifest'[s].src : s \in Records'}
    BY <1>1 DEF Have, Published, Records
  <2>4. \A s \in Records \ {T} : manifest'[s] = m[s]
    BY <2>1 DEF Records
  <2> HIDE DEF T, m
  <2>5. QED
    BY <2>2, <2>3, <2>4
<1>4. CASE T \notin Records \/ m[T].src \in Have'
  BY <1>1, <1>2, <1>3, <1>4
<1>5. CASE T \in Records /\ m[T].src \notin Have'
  <2>1. m[T].src \in Sources /\ m[T].src # source
    BY <1>1, <1>5, SlotContentsFacts DEF Records, TypeOK, NewOK, Unpublished
  <2>2. m[T].src \in Have /\ Have' = Have \ {m[T].src}
    <3> HIDE DEF T, m
    <3>1. QED
      BY <1>2, <1>3, <1>5
  <2>3. Promise!Evict(m[T].src)
    BY <1>1, <2>1, <2>2 DEF Promise!Evict
  <2>4. QED
    BY <2>1, <2>3
<1>6. QED
  BY <1>4, <1>5

(* A manifest that is not verified is not published.                       *)
LEMMA WriteManifestStep ==
  ASSUME Inv, WriteManifest
  PROVE  UNCHANGED <<source, Have>>
<1> USE DEF Inv
<1> DEFINE T == TargetSlot
<1>1. /\ pc = "writeManifest" /\ pc' = "verify" /\ source' = source /\ build' = build
      /\ manifest' = [manifest EXCEPT ![T] =
           Manifest(build.sequence, source, build.generation)]
  BY DEF WriteManifest, Runs, Goto
<1>2. T' = T /\ T \in Slots /\ ~IsRecord(manifest[T])
      /\ \A s \in Slots : s # T => manifest'[s] = manifest[s]
  BY <1>1, TargetSlotFacts DEF TargetSlot, SlotsOK, TypeOK
<1>3. Published' = Published
  BY <1>1, <1>2 DEF Published
<1>4. T \notin Published
  BY <1>2 DEF Published
<1>5. \A s \in Published : manifest'[s].src = manifest[s].src
  BY <1>2, <1>4 DEF Published
<1>6. QED
  BY <1>1, <1>3, <1>5 DEF Have

(* A cancellation withdraws only what was not published.                   *)
LEMMA CancelElsewhereStep ==
  ASSUME Inv, CancelElsewhere
  PROVE  UNCHANGED <<source, Have>>
<1> USE DEF Inv
<1> DEFINE T == TargetSlot
<1>1. /\ pc' = "cpOpen" /\ source' = source
      /\ manifest' = IF Unverified THEN [manifest EXCEPT ![T] = Absent] ELSE manifest
  BY DEF CancelElsewhere, StartCheckpoint, Goto
<1>2. CASE Unverified
  <2>1. T \in Slots /\ ~IsRecord(manifest'[T])
        /\ \A s \in Slots : s # T => manifest'[s] = manifest[s]
    BY <1>1, <1>2, TargetSlotFacts, SlotContentsFacts DEF TypeOK
  <2>2. pc = "writeManifest" => ~IsRecord(manifest[T])
    BY DEF SlotsOK
  <2>3. Published = Records \ {T}
    BY <1>2, <2>2 DEF Published, Records, Unverified
  <2>4. Published' = Records \ {T}
    BY <1>1, <2>1 DEF Published, Records
  <2>5. \A s \in Published : manifest'[s].src = manifest[s].src
    BY <2>1, <2>3 DEF Records
  <2>6. QED
    BY <1>1, <2>3, <2>4, <2>5 DEF Have
<1>3. CASE ~Unverified
  BY <1>1, <1>3, SameHave DEF Unverified
<1>4. QED
  BY <1>2, <1>3

(* An end of the preparation.                                              *)
LEMMA EndStep ==
  ASSUME Inv, pc' = "idle", UNCHANGED <<source, manifest>>
  PROVE  UNCHANGED <<source, Have>> \/ Promise!Finish
<1>1. CASE pc = "verify"
  BY <1>1, PublishStep
<1>2. CASE pc # "verify"
  BY <1>2, SameHave
<1>3. QED
  BY <1>1, <1>2

(* Every other step of the build leaves the manifests as they are and is   *)
(* none of the verification.                                               *)
LEMMA OtherSteps ==
  ASSUME \/ Load \/ RestoreEarly \/ RestoreLate \/ Reject \/ Select
         \/ Emission \/ CloseSource \/ Outline \/ Tidy
         \/ (\E g \in Generations : Sweep(g))
         \/ CancelAtSections \/ ResumeOutline \/ ResumeControl
         \/ CancelAtManifest \/ ResumeLedger
  PROVE  pc # "verify" /\ pc' # "verify" /\ UNCHANGED <<source, manifest>>
<1> USE DEF At, Runs, Goto, cardVars, ramVars, StartCheckpoint
<1>1. CASE Load \/ RestoreEarly \/ RestoreLate \/ Reject
  BY <1>1 DEF Load, RestoreEarly, RestoreLate, Reject
<1>2. CASE Select
  BY <1>2 DEF Select, AfterSetup
<1>3. CASE Discover \/ Snapshot \/ Record \/ Seal \/ \E due \in BOOLEAN : EmitPage(due)
  BY <1>3 DEF Discover, Snapshot, Record, Seal, EmitPage, NextPage
<1>4. CASE CpOpen \/ CpWrite
  BY <1>4 DEF CpOpen, CpWrite, CommitsCheckpoint, NextPage, End
<1>5. CASE CloseSource \/ Outline \/ Tidy \/ \E g \in Generations : Sweep(g)
  BY <1>5 DEF CloseSource, Outline, Tidy, Sweep
<1>6. CASE \/ CancelAtSections \/ ResumeOutline \/ ResumeControl
           \/ CancelAtManifest \/ ResumeLedger
  BY <1>6 DEF CancelAtSections, AtBoundary, ResumeOutline, ResumeControl,
              CancelAtManifest, ResumeLedger
<1>7. QED
  BY <1>1, <1>2, <1>3, <1>4, <1>5, <1>6 DEF Emission

LEMMA PromiseStep ==
  ASSUME Inv, [Next]_vars
  PROVE  [Promise!Next]_<<source, Have>>
<1>1. CASE Step
  <2>1. CASE OpenManifest
    BY <2>1, EvictStep DEF Promise!Next
  <2>2. CASE WriteManifest
    BY <2>2, WriteManifestStep
  <2>3. CASE VerifyManifest
    <3>1. pc = "verify" /\ pc' = "cpOpen" /\ UNCHANGED <<source, manifest>>
      BY <2>3 DEF VerifyManifest, Runs, StartCheckpoint, Goto, cardVars
    <3>2. QED
      BY <3>1, PublishStep DEF Promise!Next
  <2>4. CASE CancelElsewhere
    BY <2>4, CancelElsewhereStep
  <2>5. CASE SelectFails \/ SweepFails \/ Complete \/ StopSetup
    <3>1. pc' = "idle" /\ UNCHANGED <<source, manifest>>
      BY <2>5 DEF SelectFails, SweepFails, Complete, StopSetup, Fail, End, cardVars
    <3>2. QED
      BY <3>1, EndStep DEF Promise!Next
  <2>6. CASE \/ Load \/ RestoreEarly \/ RestoreLate \/ Reject \/ Select
             \/ Emission \/ CloseSource \/ Outline \/ Tidy
             \/ (\E g \in Generations : Sweep(g))
             \/ CancelAtSections \/ ResumeOutline \/ ResumeControl
             \/ CancelAtManifest \/ ResumeLedger
    <3>1. pc # "verify" /\ pc' # "verify" /\ UNCHANGED <<source, manifest>>
      BY <2>6, OtherSteps
    <3>2. QED
      BY <3>1, SameHave
  <2>7. QED
    BY <1>1, <2>1, <2>2, <2>3, <2>4, <2>5, <2>6 DEF Step, Setup, Commit, Cancellation
<1>2. CASE User
  <2>1. CASE Open
    BY <2>1, SameHave DEF Open, cardVars
  <2>2. CASE RequestCancel
    <3>1. UNCHANGED <<source, manifest, pc, build>>
      BY <2>2 DEF RequestCancel, cardVars
    <3>2. QED
      BY <3>1 DEF Have, Published, TargetSlot
  <2>3. CASE Exit
    <3>1. pc' = "idle" /\ UNCHANGED <<source, manifest>>
      BY <2>3 DEF Exit, End
    <3>2. QED
      BY <3>1, EndStep DEF Promise!Next
  <2>4. ASSUME NEW s \in Sources, Replace(s)
        PROVE  Promise!Replace(s)
    <3>1. pc = "idle" /\ pc' = "idle" /\ source' = s /\ UNCHANGED manifest
      BY <2>4 DEF Replace, ramVars
    <3>2. QED
      BY <3>1, SameHave DEF Promise!Replace
  <2>5. QED
    BY <1>2, <2>1, <2>2, <2>3, <2>4 DEF User, Promise!Next
<1>3. CASE IoFails \/ PowerLoss
  <2>1. pc' = "idle" /\ UNCHANGED <<source, manifest>>
    BY <1>3 DEF IoFails, PowerLoss, Fail, End
  <2>2. QED
    BY <2>1, EndStep DEF Promise!Next
<1>4. CASE UNCHANGED vars
  BY <1>4 DEF vars, cardVars, ramVars, Have, Published, TargetSlot
<1>5. QED
  BY <1>1, <1>2, <1>3, <1>4 DEF Next

(* The interrupted preparation implements the atomic one: the product of   *)
(* the version at the path appears in one step and is never taken away.    *)
THEOREM PreparationIsAtomic == Spec => ImplementsAtomicPreparation
<1>1. Init => Promise!Init
  <2> SUFFICES ASSUME Init PROVE source \in Sources /\ Have = {}
    BY DEF Promise!Init
  <2>1. \A s \in Slots : ~IsRecord(manifest[s])
    BY SlotContentsFacts DEF Init
  <2>2. QED
    BY <2>1 DEF Init, Have, Published
<1>2. Inv /\ [Next]_vars => [Promise!Next]_<<source, Have>>
  BY PromiseStep
<1>3. QED
  BY <1>1, <1>2, Invariance, PTL DEF Spec, ImplementsAtomicPreparation, Promise!Spec

=============================================================================
