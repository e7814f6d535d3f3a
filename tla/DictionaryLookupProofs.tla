----------------------- MODULE DictionaryLookupProofs -----------------------
(***************************************************************************)
(* What holds of looking words up whatever the words, the dictionaries and *)
(* the length of the visible history are: types and bounds of the indices, *)
(* who owns the worker, that an answer is the answer to the question, and  *)
(* that the way back leads to the words that were left.                    *)
(***************************************************************************)
EXTENDS DictionaryLookup, SequenceTheorems, WellFoundedInduction, TLAPS

-----------------------------------------------------------------------------
(***************************************************************************)
(* The definition has a word for as long as it is open, above a screen     *)
(* that asks nothing; a child is open above a screen that asks nothing.    *)
(***************************************************************************)
ScreensOK ==
  /\ "definition" \notin open => chain = <<>> /\ definition = NoDefinition
  /\ "definition" \in open =>
       /\ definition.headword \in Words /\ definition.shown \in Words
       /\ lookup["select"].state = "Idle"
  /\ child # "none" =>
       open # {} /\ ~leaving /\ lookup[Top].state = "Idle"

(* Who asks, or is told that nothing was found, has a word.                *)
WordsOK ==
  /\ \A c \in Controllers : lookup[c].state # "Idle" => lookup[c].word \in Words
  /\ child = "suggestions" \/ (child = "picker" /\ Top = "select")
       => lookup[Top].word \in Words

(* The worker's owner waits for it until the worker says that it is done.  *)
OwnerOK ==
  /\ OwnerLives
  /\ owner # NoOwner /\ worker # "releasing" =>
       lookup[owner].state = "LookingUp" /\ ~lookup[owner].done

(* The chain leads from the newest word back to the oldest.                *)
ChainOK ==
  /\ \A i, j \in 1..Len(chain) :
       i <= j => chain[j].histIndex <= chain[i].histIndex
  /\ \A i \in 1..Len(chain) : definition.current <= chain[i].histIndex
  /\ definition.back => definition.pending = definition.current

Inv == TypeOK /\ ScreensOK /\ WordsOK /\ OwnerOK /\ ChainOK

-----------------------------------------------------------------------------
LEMMA ControllersFacts ==
  /\ "select" \in Controllers /\ "definition" \in Controllers
  /\ "select" # "definition"
  /\ NoOwner \notin Controllers
BY DictionaryAssumption DEF Controllers

LEMMA TopFacts ==
  ASSUME TypeOK
  PROVE  /\ Top \in Controllers
         /\ open # {} => Top \in open
         /\ "definition" \in open <=> Top = "definition"
BY DEF TypeOK, Top, Controllers

LEMMA AtRestType ==
  ASSUME NEW w \in Words \union {NoWord}, NEW suggestion \in BOOLEAN,
         NEW s \in {"Idle", "LookingUp", "AltFormPrompt", "NotFound", "ReadError"}
  PROVE  /\ AtRest(w, suggestion, s) \in Lookups
         /\ AtRest(w, suggestion, s).state = s
         /\ AtRest(w, suggestion, s).word = w
         /\ AtRest(w, suggestion, s).record = FALSE
BY DEF AtRest, Fresh, Lookups

LEMMA FreshType ==
  ASSUME NEW w \in Words \union {NoWord}, NEW record \in BOOLEAN,
         NEW suggestion \in BOOLEAN
  PROVE  /\ Fresh(w, record, suggestion) \in Lookups
         /\ Fresh(w, record, suggestion).state = "LookingUp"
         /\ Fresh(w, record, suggestion).word = w
         /\ Fresh(w, record, suggestion).record = record
         /\ Fresh(w, record, suggestion).done = FALSE
BY DEF Fresh, Lookups

LEMMA BlankType == Blank \in Lookups /\ Blank.state = "Idle"
BY DEF Blank, AtRest, Fresh, Lookups

LEMMA FieldTypes ==
  ASSUME TypeOK, NEW c \in Controllers
  PROVE  /\ lookup[c] \in Lookups
         /\ lookup[c].word \in Words \union {NoWord}
         /\ lookup[c].record \in BOOLEAN /\ lookup[c].suggestion \in BOOLEAN
         /\ lookup[c].done \in BOOLEAN /\ lookup[c].cancelRequested \in BOOLEAN
         /\ lookup[c].cancelled \in BOOLEAN
         /\ lookup[c].found \in Words \union {NoWord}
BY DEF TypeOK, Lookups

(* Only the fields of c change.                                            *)
LEMMA OneLookup ==
  ASSUME TypeOK, NEW c \in Controllers, NEW l \in Lookups,
         lookup' = [lookup EXCEPT ![c] = l]
  PROVE  /\ lookup' \in [Controllers -> Lookups]
         /\ lookup'[c] = l
         /\ \A d \in Controllers : d # c => lookup'[d] = lookup[d]
BY DEF TypeOK

LEMMA InitInv == Init => Inv
<1> SUFFICES ASSUME Init PROVE Inv
  OBVIOUS
<1>1. lookup \in [Controllers -> Lookups] /\ \A c \in Controllers : lookup[c].state = "Idle"
  BY BlankType DEF Init
<1>2. definition \in Definitions
  BY DictionaryAssumption DEF Init, Definitions, NoDefinition
<1>3. TypeOK
  <2>1. history \in Seq(Words) /\ Len(history) <= MaxVisible /\ chain \in Seq(Entries)
    BY DictionaryAssumption DEF Init
  <2>2. QED
    BY <1>1, <1>2, <2>1, DictionaryAssumption DEF Init, TypeOK
<1>4. ScreensOK /\ WordsOK
  BY <1>1 DEF Init, ScreensOK, WordsOK, Controllers
<1>5. OwnerOK /\ ChainOK
  BY DEF Init, OwnerOK, OwnerLives, ChainOK, NoDefinition
<1>6. QED
  BY <1>3, <1>4, <1>5 DEF Inv

LEMMA Stutter == ASSUME Inv, UNCHANGED vars PROVE Inv'
BY DEF vars, main, screen, task, Inv, TypeOK, ScreensOK, WordsOK, OwnerOK,
       OwnerLives, ChainOK, Top

-----------------------------------------------------------------------------
(***************************************************************************)
(* The worker.                                                             *)
(***************************************************************************)
LEMMA WorkerInv ==
  ASSUME Inv, Worker
  PROVE  Inv'
<1> USE DEF Inv
<1> UNCHANGED <<main, screen>>
  BY DEF Worker, Take, Prepare, Locate, Judge, Finish, Release
<1> UNCHANGED <<open, child, leaving, dictionary, history, chain, definition, steady>>
  BY DEF main, screen
<1>1. lookup' \in [Controllers -> Lookups]
      /\ \A c \in Controllers : /\ lookup'[c].state = lookup[c].state
                                /\ lookup'[c].word = lookup[c].word
                                /\ worker # "finishing" => lookup'[c].done = lookup[c].done
  <2>1. CASE Take \/ Release
    BY <2>1 DEF Take, Release, TypeOK
  <2>2. \/ owner \in Controllers /\ lookup[owner] \in Lookups
        \/ worker = "waiting"
    BY DEF OwnerOK, OwnerLives, TypeOK
  <2>3. CASE Prepare
    <3>1. \/ lookup' = lookup
          \/ lookup' = [lookup EXCEPT ![owner].cancelled = TRUE]
      BY <2>3 DEF Prepare
    <3>2. owner \in Controllers /\ lookup[owner] \in Lookups
      BY <2>2, <2>3 DEF Prepare
    <3>3. CASE lookup' = [lookup EXCEPT ![owner].cancelled = TRUE]
      BY <3>2, <3>3 DEF TypeOK, Lookups
    <3>4. QED
      BY <3>1, <3>3 DEF TypeOK
  <2>4. CASE Locate
    <3>1. Answer(lookup[owner].word) \in Words \union {NoWord}
      BY <2>2, <2>4, DictionaryAssumption DEF Locate, Answer, TypeOK
    <3>2. PICK r : /\ r.found \in Words \union {NoWord} /\ r.readError \in BOOLEAN
                   /\ lookup' = [lookup EXCEPT ![owner].found = r.found,
                                               ![owner].readError = r.readError]
      BY <2>4, <3>1 DEF Locate
    <3>3. QED
      BY <2>2, <2>4, <3>2 DEF Locate, TypeOK, Lookups
  <2>5. CASE Judge
    BY <2>2, <2>5 DEF Judge, TypeOK, Lookups
  <2>6. CASE Finish
    BY <2>2, <2>6 DEF Finish, TypeOK, Lookups
  <2>7. QED
    BY <2>1, <2>3, <2>4, <2>5, <2>6 DEF Worker
<1>2. TypeOK'
  <2>1. owner' \in Controllers \union {NoOwner} /\ notified' \in BOOLEAN
        /\ worker' \in {"waiting", "preparing", "locating", "judging", "finishing",
                        "releasing"}
    BY DEF Worker, Take, Prepare, Locate, Judge, Finish, Release, TypeOK, task
  <2>2. QED
    BY <1>1, <2>1 DEF TypeOK
<1>3. ScreensOK' /\ WordsOK' /\ ChainOK'
  <2>1. Top' = Top /\ Top \in Controllers
    BY TopFacts DEF Top
  <2>2. ScreensOK'
    BY <1>1, <2>1, ControllersFacts DEF ScreensOK
  <2>3. WordsOK'
    BY <1>1, <2>1 DEF WordsOK
  <2>4. ChainOK'
    BY DEF ChainOK
  <2>5. QED
    BY <2>2, <2>3, <2>4
<1>4. OwnerOK'
  <2>1. CASE Take \/ Release
    BY <1>1, <2>1 DEF Take, Release, OwnerOK, OwnerLives, TypeOK
  <2>2. CASE Prepare \/ Locate \/ Judge \/ Finish
    BY <1>1, <2>2 DEF Prepare, Locate, Judge, Finish, OwnerOK, OwnerLives, TypeOK
  <2>3. QED
    BY <2>1, <2>2 DEF Worker
<1>5. QED
  BY <1>2, <1>3, <1>4

-----------------------------------------------------------------------------
(***************************************************************************)
(* The history and the chain.                                              *)
(***************************************************************************)
(* The word comes first and moves the others on; the last drops out.       *)
LEMMA LoggedFacts ==
  ASSUME TypeOK, NEW w \in Words
  PROVE  /\ Logged(w) \in Seq(Words)
         /\ Len(Logged(w)) = IF Len(history) < MaxVisible THEN Len(history) + 1
                                                          ELSE MaxVisible
         /\ Len(Logged(w)) >= 1 /\ Logged(w)[1] = w
         /\ \A i \in 1..Len(history) : i + 1 <= MaxVisible =>
              i + 1 <= Len(Logged(w)) /\ Logged(w)[i + 1] = history[i]
<1> DEFINE n == IF Len(history) < MaxVisible THEN Len(history) + 1 ELSE MaxVisible
           whole == <<w>> \o history
<1>1. history \in Seq(Words) /\ Len(history) \in Nat /\ Len(history) <= MaxVisible
      /\ MaxVisible \in Nat \ {0}
  BY DictionaryAssumption DEF TypeOK
<1>2. whole \in Seq(Words) /\ Len(whole) = Len(history) + 1
      /\ whole[1] = w /\ \A i \in 1..Len(history) : whole[i + 1] = history[i]
  BY <1>1
<1>3. n \in 1..Len(whole)
  BY <1>1, <1>2
<1> HIDE DEF n, whole
<1>4. /\ SubSeq(whole, 1, n) \in Seq(Words) /\ Len(SubSeq(whole, 1, n)) = n
      /\ \A i \in 1..n : SubSeq(whole, 1, n)[i] = whole[i]
  BY <1>2, <1>3
<1>5. Logged(w) = SubSeq(whole, 1, n)
  BY DEF Logged, n, whole
<1>6. QED
  BY <1>1, <1>2, <1>3, <1>4, <1>5 DEF n

LEMMA LogType ==
  ASSUME TypeOK, NEW w \in Words, NEW record \in BOOLEAN, Log(w, record)
  PROVE  /\ history' \in Seq(Words) /\ Len(history') <= MaxVisible
         /\ history' = history \/ (record /\ history' = Logged(w))
<1>1. history' = history \/ (record /\ history' = Logged(w))
  BY DEF Log
<1>2. MaxVisible \in Nat /\ Len(history) \in Nat
  BY DictionaryAssumption DEF TypeOK
<1>3. QED
  BY <1>1, <1>2, LoggedFacts DEF TypeOK

(* Where Reachable begins: there always is a first entry within reach, or  *)
(* the place behind the last.                                              *)
FirstWithin(entries, k) ==
  /\ \A j \in 1..k - 1 : entries[j].histIndex >= MaxVisible
  /\ k <= Len(entries) => entries[k].histIndex < MaxVisible

LEMMA FirstExists ==
  ASSUME NEW entries, Len(entries) \in Nat,
         \A j \in 1..Len(entries) : entries[j].histIndex \in Nat
  PROVE  \E k \in 1..Len(entries) + 1 : FirstWithin(entries, k)
<1> DEFINE Within == {k \in 1..Len(entries) : entries[k].histIndex < MaxVisible}
<1>1. CASE Within = {}
  <2>1. FirstWithin(entries, Len(entries) + 1)
    BY <1>1, DictionaryAssumption DEF FirstWithin
  <2>2. QED
    BY <2>1
<1>2. CASE Within # {}
  <2>1. Within \subseteq Nat
    OBVIOUS
  <2>2. PICK k \in Within : \A j \in Within : ~(<<j, k>> \in OpToRel(<, Nat))
    <3> HIDE DEF Within
    <3>1. QED
      BY <1>2, <2>1, NatLessThanWellFounded, WFMin
  <2>3. \A i, j \in Nat : i < j => <<i, j>> \in OpToRel(<, Nat)
    BY DEF OpToRel
  <2>4. k \in 1..Len(entries) /\ entries[k].histIndex < MaxVisible
    BY <2>2
  <2>5. \A j \in 1..k - 1 : entries[j].histIndex >= MaxVisible
    <3> SUFFICES ASSUME NEW j \in 1..k - 1 PROVE entries[j].histIndex >= MaxVisible
      OBVIOUS
    <3>1. j \in 1..Len(entries) /\ j \in Nat /\ k \in Nat /\ j < k
      BY <2>4
    <3>2. j \notin Within
      BY <2>2, <2>3, <3>1
    <3>3. entries[j].histIndex \in Nat /\ MaxVisible \in Nat
      BY <3>1, DictionaryAssumption
    <3>4. QED
      BY <3>1, <3>2, <3>3
  <2>6. QED
    BY <2>4, <2>5 DEF FirstWithin
<1>3. QED
  BY <1>1, <1>2

(* Reachable drops the oldest entries, all that the window has lost.       *)
LEMMA ReachableFacts ==
  ASSUME NEW S, NEW entries \in Seq(S),
         \A j \in 1..Len(entries) : entries[j].histIndex \in Nat,
         \A i, j \in 1..Len(entries) :
           i <= j => entries[j].histIndex <= entries[i].histIndex
  PROVE  /\ Reachable(entries) \in Seq(S)
         /\ Len(Reachable(entries)) <= Len(entries)
         /\ \A i \in 1..Len(Reachable(entries)) :
              /\ i + Len(entries) - Len(Reachable(entries)) \in 1..Len(entries)
              /\ Reachable(entries)[i] =
                   entries[i + Len(entries) - Len(Reachable(entries))]
              /\ Reachable(entries)[i].histIndex < MaxVisible
<1> DEFINE first == CHOOSE k \in 1..Len(entries) + 1 : FirstWithin(entries, k)
<1>1. Len(entries) \in Nat
  OBVIOUS
<1>2. first \in 1..Len(entries) + 1 /\ FirstWithin(entries, first)
  BY <1>1, FirstExists
<1>3. Reachable(entries) = SubSeq(entries, first, Len(entries))
  BY DEF Reachable, FirstWithin
<1> HIDE DEF first
<1>4. /\ Reachable(entries) \in Seq(S)
      /\ Len(Reachable(entries)) = Len(entries) + 1 - first
      /\ \A i \in 1..Len(Reachable(entries)) :
           /\ i + first - 1 \in 1..Len(entries)
           /\ Reachable(entries)[i] = entries[i + first - 1]
  BY <1>1, <1>2, <1>3
<1>5. \A i \in 1..Len(entries) : first <= i => entries[i].histIndex < MaxVisible
  BY <1>1, <1>2, DictionaryAssumption DEF FirstWithin
<1>6. first \in Nat /\ first = Len(entries) + 1 - Len(Reachable(entries))
      /\ Len(Reachable(entries)) <= Len(entries) /\ Len(Reachable(entries)) \in Nat
  BY <1>1, <1>2, <1>4
<1>7. ASSUME NEW i \in 1..Len(Reachable(entries))
      PROVE  /\ i + Len(entries) - Len(Reachable(entries)) \in 1..Len(entries)
             /\ Reachable(entries)[i] =
                  entries[i + Len(entries) - Len(Reachable(entries))]
             /\ Reachable(entries)[i].histIndex < MaxVisible
  <2>1. i + first - 1 = i + Len(entries) - Len(Reachable(entries))
        /\ first <= i + first - 1
    BY <1>1, <1>6
  <2>2. QED
    BY <1>4, <1>5, <2>1
<1>8. QED
  BY <1>4, <1>6, <1>7

(* What OnForward cuts Reachable from.                                     *)
Lengthened(by) ==
  Append([i \in DOMAIN chain |-> [chain[i] EXCEPT !.histIndex = @ + by]],
         [histIndex |-> definition.current + by, word |-> definition.shown])

LEMMA LengthenedFacts ==
  ASSUME TypeOK, ChainOK, definition.current >= 0, NEW by \in {0, 1}
  PROVE  /\ Lengthened(by) \in Seq([histIndex: 0..MaxVisible, word: Words \union {NoWord}])
         /\ Len(Lengthened(by)) = Len(chain) + 1
         /\ \A i \in 1..Len(chain) :
              /\ Lengthened(by)[i].histIndex = chain[i].histIndex + by
              /\ Lengthened(by)[i].word = chain[i].word
         /\ Lengthened(by)[Len(chain) + 1].histIndex = definition.current + by
         /\ Lengthened(by)[Len(chain) + 1].word = definition.shown
         /\ \A i, j \in 1..Len(chain) + 1 : i <= j =>
              Lengthened(by)[j].histIndex <= Lengthened(by)[i].histIndex
<1> DEFINE E == [histIndex: 0..MaxVisible, word: Words \union {NoWord}]
           shifted == [i \in DOMAIN chain |-> [chain[i] EXCEPT !.histIndex = @ + by]]
           left == [histIndex |-> definition.current + by, word |-> definition.shown]
<1>1. /\ chain \in Seq(Entries) /\ Len(chain) \in Nat /\ MaxVisible \in Nat \ {0}
      /\ definition.current \in 0..MaxVisible - 1
      /\ definition.shown \in Words \union {NoWord}
  BY DictionaryAssumption DEF TypeOK, Definitions
<1>2. left \in E
  BY <1>1
<1>3. /\ DOMAIN chain = 1..Len(chain)
      /\ \A i \in 1..Len(chain) : chain[i] \in Entries
  BY <1>1
<1>4. \A i \in 1..Len(chain) :
        /\ shifted[i] \in E
        /\ shifted[i].histIndex = chain[i].histIndex + by
        /\ shifted[i].word = chain[i].word
  BY <1>1, <1>3 DEF Entries
<1>5. shifted \in Seq(E) /\ Len(shifted) = Len(chain)
  <2>1. shifted \in [1..Len(chain) -> E]
    BY <1>3, <1>4
  <2> HIDE DEF shifted, E
  <2>2. QED
    BY <1>1, <2>1
<1>6. /\ Lengthened(by) \in Seq(E)
      /\ Len(Lengthened(by)) = Len(chain) + 1
      /\ \A i \in 1..Len(chain) : Lengthened(by)[i] = shifted[i]
      /\ Lengthened(by)[Len(chain) + 1] = left
  <2>1. Lengthened(by) = Append(shifted, left)
    BY DEF Lengthened
  <2> HIDE DEF shifted, left, E
  <2>2. QED
    BY <1>2, <1>5, <2>1, AppendProperties
<1>7. \A i \in 1..Len(chain) : chain[i].histIndex \in 0..MaxVisible - 1
  BY <1>3 DEF Entries
<1>9. left.histIndex = definition.current + by /\ left.word = definition.shown
  OBVIOUS
<1> HIDE DEF shifted, left
<1>8. ASSUME NEW i \in 1..Len(chain) + 1, NEW j \in 1..Len(chain) + 1, i <= j
      PROVE  Lengthened(by)[j].histIndex <= Lengthened(by)[i].histIndex
  <2>1. CASE j <= Len(chain)
    <3>1. i \in 1..Len(chain) /\ j \in 1..Len(chain)
      BY <1>1, <1>8, <2>1
    <3>2. chain[j].histIndex <= chain[i].histIndex
      BY <1>8, <3>1 DEF ChainOK
    <3>3. /\ Lengthened(by)[i].histIndex = chain[i].histIndex + by
          /\ Lengthened(by)[j].histIndex = chain[j].histIndex + by
      BY <1>4, <1>6, <3>1
    <3>4. chain[i].histIndex \in Int /\ chain[j].histIndex \in Int /\ by \in Int
      BY <1>1, <1>7, <3>1
    <3>5. QED
      BY <3>2, <3>3, <3>4
  <2>2. CASE i <= Len(chain) /\ j = Len(chain) + 1
    <3>1. definition.current <= chain[i].histIndex
      BY <1>1, <2>2 DEF ChainOK
    <3>2. Lengthened(by)[i].histIndex = chain[i].histIndex + by
      BY <1>1, <1>4, <1>6, <2>2
    <3>3. Lengthened(by)[j].histIndex = definition.current + by
      BY <1>6, <1>9, <2>2
    <3>4. chain[i].histIndex \in 0..MaxVisible - 1
      BY <1>1, <1>7, <2>2
    <3>5. QED
      BY <1>1, <3>1, <3>2, <3>3, <3>4
  <2>3. CASE i = Len(chain) + 1
    <3>1. i = j
      BY <1>1, <1>8, <2>3
    <3>2. Lengthened(by)[i].histIndex = definition.current + by
      BY <1>6, <1>9, <2>3
    <3>3. QED
      BY <1>1, <3>1, <3>2
  <2>4. QED
    BY <1>1, <2>1, <2>2, <2>3
<1>10. QED
  BY <1>4, <1>6, <1>8, <1>9

LEMMA ShiftIsOne == ASSUME NEW appended \in BOOLEAN PROVE Shift(appended) \in {0, 1}
BY DEF Shift

LEMMA OnForwardIs ==
  ASSUME NEW appended \in BOOLEAN
  PROVE  OnForward(appended) = IF definition.current >= 0
                               THEN Reachable(Lengthened(Shift(appended)))
                               ELSE chain
BY DEF OnForward, Lengthened

LEMMA OnForwardFacts ==
  ASSUME TypeOK, ChainOK, NEW appended \in BOOLEAN
  PROVE  /\ OnForward(appended) \in Seq(Entries)
         /\ \A i, j \in 1..Len(OnForward(appended)) : i <= j =>
              OnForward(appended)[j].histIndex <= OnForward(appended)[i].histIndex
<1>1. CASE ~(definition.current >= 0)
  BY <1>1, OnForwardIs DEF TypeOK, ChainOK
<1>2. CASE definition.current >= 0
  <2> DEFINE long == Lengthened(Shift(appended))
             E == [histIndex: 0..MaxVisible, word: Words \union {NoWord}]
  <2>1. OnForward(appended) = Reachable(long)
    BY <1>2, OnForwardIs
  <2>2. /\ long \in Seq(E) /\ Len(long) \in Nat
        /\ \A j \in 1..Len(long) : long[j] \in E
        /\ \A i, j \in 1..Len(long) : i <= j => long[j].histIndex <= long[i].histIndex
    <3>1. long \in Seq(E) /\ Len(long) = Len(chain) + 1
      BY <1>2, LengthenedFacts, ShiftIsOne
    <3>2. \A i, j \in 1..Len(long) : i <= j => long[j].histIndex <= long[i].histIndex
      BY <1>2, <3>1, LengthenedFacts, ShiftIsOne
    <3> HIDE DEF long, E
    <3>3. QED
      BY <3>1, <3>2
  <2>3. \A j \in 1..Len(long) : long[j].histIndex \in Nat
    <3> HIDE DEF long
    <3>1. QED
      BY <2>2
  <2> HIDE DEF long
  <2>4. /\ Reachable(long) \in Seq(E) /\ Len(Reachable(long)) <= Len(long)
        /\ \A i \in 1..Len(Reachable(long)) :
             /\ i + Len(long) - Len(Reachable(long)) \in 1..Len(long)
             /\ Reachable(long)[i] = long[i + Len(long) - Len(Reachable(long))]
             /\ Reachable(long)[i].histIndex < MaxVisible
    <3> HIDE DEF E
    <3>1. QED
      BY <2>2, <2>3, ReachableFacts
  <2>5. \A i \in 1..Len(Reachable(long)) : Reachable(long)[i] \in Entries
    <3> SUFFICES ASSUME NEW i \in 1..Len(Reachable(long))
                 PROVE  Reachable(long)[i] \in Entries
      OBVIOUS
    <3>1. Reachable(long)[i] \in E /\ Reachable(long)[i].histIndex < MaxVisible
      BY <2>2, <2>4
    <3>2. QED
      BY <3>1, DictionaryAssumption DEF Entries
  <2>6. Reachable(long) \in Seq(Entries)
    BY <2>4, <2>5
  <2>7. ASSUME NEW i \in 1..Len(Reachable(long)), NEW j \in 1..Len(Reachable(long)),
               i <= j
        PROVE  Reachable(long)[j].histIndex <= Reachable(long)[i].histIndex
    <3>1. Len(Reachable(long)) \in Nat
      BY <2>4
    <3> DEFINE drop == Len(long) - Len(Reachable(long))
    <3>2. /\ i + drop \in 1..Len(long) /\ Reachable(long)[i] = long[i + drop]
          /\ j + drop \in 1..Len(long) /\ Reachable(long)[j] = long[j + drop]
          /\ i + drop <= j + drop
      <4>1. i + drop = i + Len(long) - Len(Reachable(long))
            /\ j + drop = j + Len(long) - Len(Reachable(long))
            /\ i + drop <= j + drop
        BY <2>2, <2>7, <3>1
      <4>2. QED
        BY <2>4, <4>1
    <3> HIDE DEF drop
    <3>3. QED
      BY <2>2, <3>2
  <2>8. QED
    BY <2>1, <2>6, <2>7
<1>3. QED
  BY <1>1, <1>2

-----------------------------------------------------------------------------
(***************************************************************************)
(* The answers the main loop sees, and those the user gives.               *)
(***************************************************************************)
Answerable(c) ==
  /\ Attends(c)
  /\ \/ lookup[c].state = "LookingUp" /\ lookup[c].done
     \/ lookup[c].state = "AltFormPrompt"

Ended(c) == Cancelled(c) \/ ReadFailed(c) \/ AltFormPrompt(c) \/ LookupFailed(c)

(* What both do.                                                           *)
Answering(c) ==
  /\ Answerable(c)
  /\ Ended(c) \/ \E h \in Words : Found(c, h)
  /\ UNCHANGED <<leaving, dictionary, task>>

LEMMA AnsweringIs ==
  ASSUME Inv, NEW c \in Controllers, Poll(c) \/ AnswerPrompt(c)
  PROVE  Answering(c)
<1> USE DEF Inv
<1>1. lookup[c].found \in Words \union {NoWord}
  BY FieldTypes
<1>2. lookup[c].state = "AltFormPrompt" => Headword[lookup[c].word] \in Words
  BY DictionaryAssumption DEF WordsOK
<1>3. CASE Poll(c)
  BY <1>1, <1>3 DEF Poll, Answering, Answerable, Ended
<1>4. CASE AnswerPrompt(c)
  BY <1>2, <1>4 DEF AnswerPrompt, Answering, Answerable, Ended
<1>5. QED
  BY <1>3, <1>4

LEMMA AnswerableFacts ==
  ASSUME Inv, NEW c \in Controllers, Answerable(c)
  PROVE  /\ c \in open /\ c = Top /\ child = "none" /\ ~leaving
         /\ lookup[c].word \in Words
         /\ owner = c => worker = "releasing"
         /\ c = "select" => definition = NoDefinition /\ chain = <<>>
                            /\ "definition" \notin open /\ owner # "definition"
         /\ c = "definition" => lookup["select"].state = "Idle" /\ open = Controllers
<1> USE DEF Inv
<1>1. c \in open /\ c = Top /\ child = "none" /\ ~leaving
  BY DEF Answerable, Attends
<1>2. lookup[c].word \in Words
  BY DEF Answerable, WordsOK
<1>3. owner = c => worker = "releasing"
  BY ControllersFacts DEF Answerable, OwnerOK
<1>4. c = "select" => "definition" \notin open
  BY <1>1 DEF Top
<1>5. QED
  BY <1>1, <1>2, <1>3, <1>4, ControllersFacts
     DEF ScreensOK, OwnerOK, OwnerLives, TypeOK

LEMMA EndedFacts ==
  ASSUME Inv, NEW c \in Controllers, Answerable(c), Ended(c)
  PROVE  /\ lookup' \in [Controllers -> Lookups]
         /\ \A d \in Controllers : d # c => lookup'[d] = lookup[d]
         /\ lookup'[c].word = lookup[c].word
         /\ lookup'[c].state # "LookingUp"
         /\ child' = "none" \/ (child' = "suggestions" /\ lookup'[c].state = "Idle")
         /\ open' = open /\ chain' = chain
         /\ definition' = definition \/
              (c = "definition" /\ definition' = [definition EXCEPT !.switch = FALSE])
         /\ history' \in Seq(Words) /\ Len(history') <= MaxVisible
         /\ steady' \in BOOLEAN
<1> USE DEF Inv
<1> DEFINE R(s, suggestion) == AtRest(lookup[c].word, suggestion, s)
<1>1. /\ child = "none" /\ lookup[c].word \in Words
      /\ lookup[c].word \in Words \union {NoWord}
      /\ lookup[c].suggestion \in BOOLEAN /\ lookup[c].record \in BOOLEAN
  BY AnswerableFacts, FieldTypes
<1>2. steady \in BOOLEAN /\ history \in Seq(Words) /\ Len(history) <= MaxVisible
  BY DEF TypeOK
<1>3. CASE Cancelled(c)
  <2>1. lookup' = [lookup EXCEPT ![c] = R("Idle", FALSE)]
    BY <1>3 DEF Cancelled, Answered
  <2>2. R("Idle", FALSE) \in Lookups /\ R("Idle", FALSE).state = "Idle"
        /\ R("Idle", FALSE).word = lookup[c].word
    BY <1>1, AtRestType
  <2> HIDE DEF R
  <2>3. QED
    BY <1>1, <1>2, <1>3, <2>1, <2>2, OneLookup DEF Cancelled
<1>4. CASE ReadFailed(c)
  <2>1. lookup' = [lookup EXCEPT ![c] = R("ReadError", FALSE)]
    BY <1>4 DEF ReadFailed, Answered
  <2>2. R("ReadError", FALSE) \in Lookups /\ R("ReadError", FALSE).state = "ReadError"
        /\ R("ReadError", FALSE).word = lookup[c].word
    BY <1>1, AtRestType
  <2> HIDE DEF R
  <2>3. QED
    BY <1>1, <1>2, <1>4, <2>1, <2>2, OneLookup DEF ReadFailed
<1>5. CASE AltFormPrompt(c)
  <2> DEFINE r == R("AltFormPrompt", lookup[c].suggestion)
  <2>1. lookup' = [lookup EXCEPT ![c] = [r EXCEPT !.record = lookup[c].record]]
    BY <1>5 DEF AltFormPrompt
  <2>2. r \in Lookups /\ r.state = "AltFormPrompt" /\ r.word = lookup[c].word
    BY <1>1 DEF AtRest, Fresh, Lookups
  <2> HIDE DEF r
  <2>3. [r EXCEPT !.record = lookup[c].record] \in Lookups
        /\ [r EXCEPT !.record = lookup[c].record].state = "AltFormPrompt"
        /\ [r EXCEPT !.record = lookup[c].record].word = lookup[c].word
    BY <1>1, <2>2 DEF Lookups
  <2>4. QED
    BY <1>1, <1>2, <1>5, <2>1, <2>3, OneLookup DEF AltFormPrompt, screen
<1>6. CASE LookupFailed(c)
  <2>1. PICK s \in {"Idle", "NotFound"}, suggestion \in BOOLEAN :
          /\ lookup' = [lookup EXCEPT ![c] = R(s, suggestion)]
          /\ child' = "none" \/ (child' = "suggestions" /\ s = "Idle")
    BY <1>1, <1>6 DEF LookupFailed, Answered
  <2>2. R(s, suggestion) \in Lookups /\ R(s, suggestion).state = s
        /\ R(s, suggestion).word = lookup[c].word
    BY <1>1 DEF AtRest, Fresh, Lookups
  <2>3. history' \in Seq(Words) /\ Len(history') <= MaxVisible
    BY <1>1, <1>2, <1>6, LogType DEF LookupFailed
  <2>4. open' = open /\ chain' = chain /\ definition' = definition /\ steady' \in BOOLEAN
    BY <1>2, <1>6 DEF LookupFailed
  <2> HIDE DEF R
  <2>5. QED
    BY <2>1, <2>2, <2>3, <2>4, OneLookup
<1>7. QED
  BY <1>3, <1>4, <1>5, <1>6 DEF Ended

LEMMA EndedInv ==
  ASSUME Inv, NEW c \in Controllers, Answerable(c), Ended(c),
         UNCHANGED <<leaving, dictionary, task>>
  PROVE  Inv'
<1> USE DEF Inv
<1>1. /\ c \in open /\ c = Top /\ child = "none" /\ ~leaving
      /\ lookup[c].word \in Words
      /\ owner = c => worker = "releasing"
  BY AnswerableFacts
<1>2. /\ lookup' \in [Controllers -> Lookups]
      /\ \A d \in Controllers : d # c => lookup'[d] = lookup[d]
      /\ lookup'[c].word = lookup[c].word
      /\ lookup'[c].state # "LookingUp"
      /\ child' = "none" \/ (child' = "suggestions" /\ lookup'[c].state = "Idle")
      /\ open' = open /\ chain' = chain
      /\ history' \in Seq(Words) /\ Len(history') <= MaxVisible
      /\ steady' \in BOOLEAN
  BY EndedFacts
<1>3. Top' = Top
  BY <1>2 DEF Top
<1>4. /\ definition' \in Definitions
      /\ definition'.headword = definition.headword
      /\ definition'.shown = definition.shown
      /\ definition'.current = definition.current
      /\ definition'.pending = definition.pending
      /\ definition'.back = definition.back
      /\ definition' = definition \/ "definition" \in open
  <2>1. definition' = definition \/
          (c = "definition" /\ definition' = [definition EXCEPT !.switch = FALSE])
    BY EndedFacts
  <2>2. QED
    BY <1>1, <2>1 DEF TypeOK, Definitions
<1>5. TypeOK'
  BY <1>2, <1>4 DEF TypeOK, task
<1>6. ScreensOK'
  BY <1>1, <1>2, <1>3, <1>4, AnswerableFacts, ControllersFacts DEF ScreensOK
<1>7. WordsOK'
  BY <1>1, <1>2, <1>3 DEF WordsOK
<1>8. OwnerOK'
  BY <1>1, <1>2, ControllersFacts DEF OwnerOK, OwnerLives, task, TypeOK
<1>9. ChainOK'
  BY <1>2, <1>4 DEF ChainOK
<1>10. QED
  BY <1>5, <1>6, <1>7, <1>8, <1>9

LEMMA FoundInSelectInv ==
  ASSUME Inv, Answerable("select"), NEW h \in Words, FoundInSelect(h),
         UNCHANGED <<child, leaving, dictionary, task>>
  PROVE  Inv'
<1> USE DEF Inv
<1> DEFINE l == lookup["select"]
           rest == AtRest(l.word, FALSE, "Idle")
<1>1. /\ "select" \in open /\ child = "none" /\ ~leaving /\ l.word \in Words
      /\ owner = "select" => worker = "releasing"
      /\ definition = NoDefinition /\ chain = <<>>
      /\ "definition" \notin open /\ owner # "definition"
  BY AnswerableFacts, ControllersFacts
<1>2. rest \in Lookups /\ rest.state = "Idle" /\ rest.word = l.word
  BY <1>1 DEF AtRest, Fresh, Lookups
<1>3. l.record \in BOOLEAN
  BY FieldTypes, ControllersFacts
<1> HIDE DEF l, rest
<1>4. CASE lookup' = [lookup EXCEPT !["select"] = rest] /\ UNCHANGED <<open, screen>>
  <2>1. /\ lookup' \in [Controllers -> Lookups]
        /\ lookup'["select"] = rest /\ lookup'["definition"] = lookup["definition"]
        /\ UNCHANGED <<open, history, chain, definition, steady>>
    BY <1>2, <1>4, OneLookup, ControllersFacts DEF screen
  <2>2. TypeOK'
    BY <2>1 DEF TypeOK, task
  <2>3. ScreensOK' /\ ChainOK' /\ WordsOK'
    BY <1>1, <1>2, <2>1 DEF ScreensOK, ChainOK, WordsOK, Controllers, l
  <2>4. OwnerOK'
    <3>1. owner \in {"select", NoOwner} /\ UNCHANGED <<owner, worker, open>>
      BY <1>1, <2>1 DEF TypeOK, Controllers, task
    <3>2. owner # NoOwner => owner \in open
      BY DEF OwnerOK, OwnerLives
    <3>3. QED
      BY <1>1, <3>1, <3>2 DEF OwnerOK, OwnerLives
  <2>5. QED
    BY <2>2, <2>3, <2>4
<1>5. ASSUME open' = Controllers,
             lookup' = [[lookup EXCEPT !["select"] = rest] EXCEPT !["definition"] = Blank],
             Log(l.word, l.record), chain' = <<>>,
             definition' = [NoDefinition EXCEPT
               !.headword = h, !.shown = l.word,
               !.current = IF l.record THEN 0 ELSE -1],
             steady' = ~Lost(l.record)
      PROVE  Inv'
  <2>1. /\ lookup' \in [Controllers -> Lookups]
        /\ lookup'["select"] = rest /\ lookup'["definition"] = Blank
    BY <1>2, <1>5, BlankType, ControllersFacts DEF TypeOK
  <2>2. /\ definition' \in Definitions
        /\ definition'.headword = h /\ definition'.shown = l.word
        /\ definition'.back = FALSE
    <3> DEFINE current == IF l.record THEN 0 ELSE -1
    <3>1. current \in -1..MaxVisible - 1 /\ 0 \in 0..MaxVisible - 1
      BY DictionaryAssumption
    <3>2. definition' = [NoDefinition EXCEPT
            !.headword = h, !.shown = l.word, !.current = current]
      BY <1>5
    <3> HIDE DEF current
    <3>3. QED
      BY <1>1, <3>1, <3>2 DEF NoDefinition, Definitions
  <2>3. history' \in Seq(Words) /\ Len(history') <= MaxVisible
    BY <1>1, <1>3, <1>5, LogType
  <2>4. TypeOK'
    BY <1>5, <2>1, <2>2, <2>3 DEF TypeOK, task, Lost
  <2>5. ScreensOK'
    BY <1>1, <1>2, <1>5, <2>1, <2>2, ControllersFacts DEF ScreensOK
  <2>6. WordsOK'
    BY <1>1, <1>2, <2>1, BlankType DEF WordsOK, Controllers
  <2>7. OwnerOK'
    BY <1>1, <1>5, <2>1 DEF OwnerOK, OwnerLives, task, Controllers, TypeOK
  <2>8. ChainOK'
    BY <1>5, <2>2 DEF ChainOK
  <2>9. QED
    BY <2>4, <2>5, <2>6, <2>7, <2>8
<1>6. QED
  BY <1>4, <1>5 DEF FoundInSelect, Answered, l, rest

(* What the definition screen takes from what was found.                   *)
LEMMA FoundInDefinitionFacts ==
  ASSUME Inv, Answerable("definition"), NEW h \in Words, FoundInDefinition(h)
  PROVE  /\ definition' \in Definitions
         /\ definition'.headword = h
         /\ definition'.shown \in Words
         /\ ~definition'.back
         /\ history' \in Seq(Words) /\ Len(history') <= MaxVisible
         /\ chain' \in Seq(Entries)
         /\ ChainOK'
         /\ steady' \in BOOLEAN
<1> USE DEF Inv
<1> DEFINE l == lookup["definition"]
           willLog == ~definition.back /\ l.record
<1>1. /\ "definition" \in open /\ l.word \in Words /\ l.record \in BOOLEAN
      /\ definition.shown \in Words /\ definition \in Definitions
  BY AnswerableFacts, ControllersFacts, FieldTypes DEF ScreensOK, TypeOK
<1>2. willLog \in BOOLEAN
  BY <1>1 DEF Definitions
<1> HIDE DEF l, willLog
<1>3. /\ Log(l.word, willLog)
      /\ chain' = IF definition.back \/ definition.switch THEN chain ELSE OnForward(willLog)
      /\ definition' = [definition EXCEPT
           !.headword = h, !.back = FALSE, !.switch = FALSE, !.pending = 0,
           !.shown = IF definition.switch /\ ~definition.back THEN @ ELSE l.word,
           !.current = IF definition.back THEN definition.pending
                       ELSE IF definition.switch THEN @
                       ELSE IF willLog THEN 0 ELSE -1]
      /\ steady' = (steady /\ ~Lost(willLog))
  BY DEF FoundInDefinition, l, willLog
<1>4. history' \in Seq(Words) /\ Len(history') <= MaxVisible
  BY <1>1, <1>2, <1>3, LogType
<1>5. /\ definition' \in Definitions
      /\ definition'.headword = h /\ definition'.shown \in Words
      /\ definition'.back = FALSE
      /\ definition'.current = IF definition.back THEN definition.pending
                               ELSE IF definition.switch THEN definition.current
                               ELSE IF willLog THEN 0 ELSE -1
  <2> DEFINE shown == IF definition.switch /\ ~definition.back THEN definition.shown
                      ELSE l.word
             current == IF definition.back THEN definition.pending
                        ELSE IF definition.switch THEN definition.current
                        ELSE IF willLog THEN 0 ELSE -1
  <2>1. shown \in Words /\ current \in -1..MaxVisible - 1 /\ 0 \in 0..MaxVisible - 1
    BY <1>1, <1>2, DictionaryAssumption DEF Definitions
  <2>2. definition' = [definition EXCEPT
           !.headword = h, !.back = FALSE, !.switch = FALSE, !.pending = 0,
           !.shown = shown, !.current = current]
    BY <1>3
  <2>3. current = IF definition.back THEN definition.pending
                  ELSE IF definition.switch THEN definition.current
                  ELSE IF willLog THEN 0 ELSE -1
    OBVIOUS
  <2> HIDE DEF shown, current
  <2>4. /\ definition' \in Definitions
        /\ definition'.headword = h /\ definition'.shown = shown
        /\ definition'.back = FALSE /\ definition'.current = current
    BY <1>1, <2>1, <2>2 DEF Definitions
  <2>5. QED
    BY <2>1, <2>3, <2>4
<1>6. chain \in Seq(Entries) /\ OnForward(willLog) \in Seq(Entries)
  BY <1>2, OnForwardFacts DEF TypeOK
<1>7. chain' \in Seq(Entries)
  BY <1>3, <1>6
<1>8. ChainOK'
  <2>1. CASE definition.back \/ definition.switch
    BY <1>1, <1>3, <1>5, <2>1 DEF ChainOK, Definitions
  <2>2. CASE ~(definition.back \/ definition.switch)
    <3>1. chain' = OnForward(willLog) /\ definition'.current \in {0, -1}
      BY <1>3, <1>5, <2>2
    <3>2. \A i \in 1..Len(chain') : chain'[i].histIndex \in Nat
      <4>1. \A i \in 1..Len(chain') : chain'[i] \in Entries
        BY <1>7
      <4>2. QED
        BY <4>1 DEF Entries
    <3>3. QED
      BY <1>2, <1>5, <3>1, <3>2, OnForwardFacts DEF ChainOK
  <2>3. QED
    BY <2>1, <2>2
<1>9. QED
  BY <1>3, <1>4, <1>5, <1>7, <1>8 DEF TypeOK, Lost

LEMMA FoundInDefinitionInv ==
  ASSUME Inv, Answerable("definition"), NEW h \in Words, FoundInDefinition(h),
         UNCHANGED <<child, leaving, dictionary, task>>
  PROVE  Inv'
<1> USE DEF Inv
<1> DEFINE l == lookup["definition"]
           rest == AtRest(l.word, FALSE, "Idle")
<1>1. /\ open = Controllers /\ child = "none" /\ ~leaving /\ l.word \in Words
      /\ owner = "definition" => worker = "releasing"
      /\ lookup["select"].state = "Idle"
  BY AnswerableFacts, ControllersFacts
<1>2. rest \in Lookups /\ rest.state = "Idle" /\ rest.word = l.word
  BY <1>1 DEF AtRest, Fresh, Lookups
<1>3. lookup' = [lookup EXCEPT !["definition"] = rest] /\ open' = open
  BY DEF FoundInDefinition, Answered
<1>4. /\ lookup' \in [Controllers -> Lookups]
      /\ lookup'["definition"] = rest /\ lookup'["select"] = lookup["select"]
  <2> HIDE DEF l, rest
  <2>1. QED
    BY <1>2, <1>3, OneLookup, ControllersFacts
<1> HIDE DEF l, rest
<1>5. TypeOK'
  BY <1>3, <1>4, FoundInDefinitionFacts DEF TypeOK, task
<1>6. ScreensOK'
  BY <1>1, <1>3, <1>4, FoundInDefinitionFacts, ControllersFacts DEF ScreensOK
<1>7. WordsOK'
  BY <1>1, <1>2, <1>4 DEF WordsOK, Controllers
<1>8. OwnerOK'
  BY <1>1, <1>3, <1>4 DEF OwnerOK, OwnerLives, task, Controllers
<1>9. QED
  BY <1>5, <1>6, <1>7, <1>8, FoundInDefinitionFacts

LEMMA AnsweringInv ==
  ASSUME Inv, NEW c \in Controllers, Poll(c) \/ AnswerPrompt(c)
  PROVE  Inv'
<1>1. Answering(c)
  BY AnsweringIs
<1>2. CASE Ended(c)
  BY <1>1, <1>2, EndedInv DEF Answering
<1>3. ASSUME NEW h \in Words, Found(c, h) PROVE Inv'
  BY <1>1, <1>3, FoundInSelectInv, FoundInDefinitionInv
     DEF Answering, Found, Controllers
<1>4. QED
  BY <1>1, <1>2, <1>3 DEF Answering

-----------------------------------------------------------------------------
(***************************************************************************)
(* Everything that starts a lookup.                                        *)
(***************************************************************************)
LEMMA StartFacts ==
  ASSUME Inv, NEW c \in Controllers, NEW w \in Words \union {NoWord},
         NEW record \in BOOLEAN, NEW suggestion \in BOOLEAN,
         Start(c, w, record, suggestion)
  PROVE  /\ lookup' \in [Controllers -> Lookups]
         /\ \A d \in Controllers : d # c => lookup'[d] = lookup[d]
         /\ lookup'[c].word = w
         /\ owner' \in Controllers \union {NoOwner} /\ notified' \in BOOLEAN
         /\ worker' = worker
         /\ \/ /\ owner = NoOwner /\ owner' = c /\ worker = "waiting"
               /\ lookup'[c].state = "LookingUp" /\ ~lookup'[c].done
               /\ lookup'[c].record = record
            \/ /\ owner # NoOwner /\ owner' = owner
               /\ lookup'[c].state = "Idle"
<1> USE DEF Inv
<1>1. CASE owner = NoOwner
  <2>1. lookup' = [lookup EXCEPT ![c] = Fresh(w, record, suggestion)]
        /\ owner' = c /\ notified' = TRUE /\ worker' = worker
    BY <1>1 DEF Start, IsFree
  <2>2. worker = "waiting"
    BY <1>1 DEF OwnerOK, OwnerLives
  <2> DEFINE r == Fresh(w, record, suggestion)
  <2>3. /\ r \in Lookups /\ r.state = "LookingUp" /\ r.word = w
        /\ r.record = record /\ ~r.done
    BY DEF Fresh, Lookups
  <2> HIDE DEF r
  <2>4. lookup' \in [Controllers -> Lookups] /\ lookup'[c] = r
        /\ \A d \in Controllers : d # c => lookup'[d] = lookup[d]
    BY <2>1, <2>3, OneLookup DEF r
  <2>5. QED
    BY <1>1, <2>1, <2>2, <2>3, <2>4
<1>2. CASE owner # NoOwner
  <2>1. lookup' = [lookup EXCEPT ![c] = AtRest(w, suggestion, "Idle")]
        /\ UNCHANGED <<owner, notified, worker>>
    BY <1>2 DEF Start, IsFree, task
  <2>2. AtRest(w, suggestion, "Idle") \in Lookups
        /\ AtRest(w, suggestion, "Idle").state = "Idle"
        /\ AtRest(w, suggestion, "Idle").word = w
    BY DEF AtRest, Fresh, Lookups
  <2>3. QED
    BY <1>2, <2>1, <2>2, OneLookup DEF TypeOK
<1>3. QED
  BY <1>1, <1>2

(* Whoever starts a lookup asks nothing, and is on top.                    *)
LEMMA StartOwner ==
  ASSUME Inv, NEW c \in Controllers, NEW w \in Words \union {NoWord},
         NEW record \in BOOLEAN, NEW suggestion \in BOOLEAN,
         Start(c, w, record, suggestion),
         c \in open, lookup[c].state = "Idle", open' = open
  PROVE  OwnerOK'
<1> USE DEF Inv
<1>1. owner = c => worker = "releasing"
  BY ControllersFacts DEF OwnerOK
<1>2. QED
  BY <1>1, StartFacts, ControllersFacts DEF OwnerOK, OwnerLives, TypeOK

LEMMA LookUpInv ==
  ASSUME Inv, NEW c \in Controllers, NEW w \in Words, LookUp(c, w)
  PROVE  Inv'
<1> USE DEF Inv
<1>1. /\ c \in open /\ c = Top /\ child = "none" /\ ~leaving /\ lookup[c].state = "Idle"
      /\ Start(c, w, TRUE, lookup[c].suggestion)
      /\ UNCHANGED <<open, child, leaving, dictionary, history, chain, definition, steady>>
      /\ lookup[c].suggestion \in BOOLEAN /\ w \in Words \union {NoWord}
  BY FieldTypes DEF LookUp, Attends, main, screen
<1>2. /\ lookup' \in [Controllers -> Lookups]
      /\ \A d \in Controllers : d # c => lookup'[d] = lookup[d]
      /\ lookup'[c].word = w
      /\ owner' \in Controllers \union {NoOwner} /\ notified' \in BOOLEAN
      /\ worker' = worker
  <2> DEFINE yes == TRUE
             asBefore == lookup[c].suggestion
  <2>1. /\ yes \in BOOLEAN /\ asBefore \in BOOLEAN /\ w \in Words \union {NoWord}
        /\ Start(c, w, yes, asBefore) /\ Inv
    BY <1>1
  <2> HIDE DEF yes, asBefore, Inv
  <2>2. QED
    BY <2>1, StartFacts, Zenon
<1>3. TypeOK'
  BY <1>1, <1>2 DEF TypeOK
<1>4. ScreensOK' /\ WordsOK' /\ ChainOK'
  BY <1>1, <1>2, ControllersFacts, TopFacts DEF ScreensOK, WordsOK, ChainOK, Top
<1>5. OwnerOK'
  BY <1>1, StartOwner
<1>6. QED
  BY <1>3, <1>4, <1>5

LEMMA SuggestInv ==
  ASSUME Inv, NEW c \in Controllers, NEW w \in Words, Suggest(c, w)
  PROVE  Inv'
<1> USE DEF Inv
<1>1. /\ child = "suggestions" /\ c = Top /\ ~leaving /\ child' = "none"
      /\ Start(c, w, TRUE, TRUE)
      /\ UNCHANGED <<open, leaving, dictionary, history, chain, definition, steady>>
      /\ w \in Words \union {NoWord}
  BY DEF Suggest, screen
<1>2. c \in open /\ lookup[c].state = "Idle"
  BY <1>1, TopFacts DEF ScreensOK
<1>3. /\ lookup' \in [Controllers -> Lookups]
      /\ \A d \in Controllers : d # c => lookup'[d] = lookup[d]
      /\ lookup'[c].word = w
      /\ owner' \in Controllers \union {NoOwner} /\ notified' \in BOOLEAN
      /\ worker' = worker
  <2> DEFINE yes == TRUE
  <2>1. yes \in BOOLEAN /\ w \in Words \union {NoWord} /\ Start(c, w, yes, yes) /\ Inv
    BY <1>1
  <2> HIDE DEF yes, Inv
  <2>2. QED
    BY <2>1, StartFacts, Zenon
<1>4. TypeOK'
  BY <1>1, <1>3 DEF TypeOK
<1>5. ScreensOK' /\ WordsOK' /\ ChainOK'
  BY <1>1, <1>2, <1>3, ControllersFacts, TopFacts DEF ScreensOK, WordsOK, ChainOK, Top
<1>6. OwnerOK'
  BY <1>1, <1>2, StartOwner
<1>7. QED
  BY <1>4, <1>5, <1>6

LEMMA PickDictionaryInv ==
  ASSUME Inv, NEW c \in Controllers, NEW d \in Dictionaries, PickDictionary(c, d)
  PROVE  Inv'
<1> USE DEF Inv
<1> DEFINE w == IF c = "definition" THEN definition.headword ELSE lookup[c].word
<1>1. /\ child = "picker" /\ c = Top /\ ~leaving /\ child' = "none" /\ dictionary' = d
      /\ Start(c, w, FALSE, lookup[c].suggestion)
      /\ definition' = IF c = "definition" THEN [definition EXCEPT !.switch = TRUE]
                                           ELSE definition
      /\ steady' = (steady /\ ~Upset(c, TRUE))
      /\ UNCHANGED <<open, leaving, history, chain>>
  BY DEF PickDictionary
<1>2. c \in open /\ lookup[c].state = "Idle" /\ lookup[c].suggestion \in BOOLEAN
  BY <1>1, TopFacts, FieldTypes DEF ScreensOK
<1>3. w \in Words /\ w \in Words \union {NoWord}
  BY <1>1, <1>2 DEF ScreensOK, WordsOK, Controllers
<1> HIDE DEF w
<1>4. /\ lookup' \in [Controllers -> Lookups]
      /\ \A e \in Controllers : e # c => lookup'[e] = lookup[e]
      /\ lookup'[c].word = w
      /\ owner' \in Controllers \union {NoOwner} /\ notified' \in BOOLEAN
      /\ worker' = worker
  <2> DEFINE no == FALSE
  <2>1. no \in BOOLEAN /\ Start(c, w, no, lookup[c].suggestion)
    BY <1>1
  <2> HIDE DEF no
  <2>2. QED
    BY <1>1, <1>2, <1>3, <2>1, StartFacts
<1>5. /\ definition' \in Definitions
      /\ definition'.headword = definition.headword
      /\ definition'.shown = definition.shown
      /\ definition'.current = definition.current
      /\ definition'.pending = definition.pending
      /\ definition'.back = definition.back
      /\ definition' = definition \/ "definition" \in open
  BY <1>1, <1>2 DEF TypeOK, Definitions
<1>6. TypeOK'
  BY <1>1, <1>4, <1>5 DEF TypeOK, Upset
<1>7. ScreensOK'
  BY <1>1, <1>2, <1>4, <1>5, ControllersFacts, TopFacts DEF ScreensOK, Top
<1>8. WordsOK' /\ ChainOK'
  BY <1>1, <1>2, <1>3, <1>4, <1>5 DEF WordsOK, ChainOK, Top
<1>9. OwnerOK'
  BY <1>1, <1>2, <1>3, StartOwner
<1>10. QED
  BY <1>6, <1>7, <1>8, <1>9

LEMMA BackInv ==
  ASSUME Inv, Back
  PROVE  Inv'
<1> USE DEF Inv
<1> DEFINE c == "definition"
           e == chain[Len(chain)]
           w == history[e.histIndex + 1]
           d == [definition EXCEPT !.pending = e.histIndex, !.current = e.histIndex]
<1>1. /\ c \in open /\ c = Top /\ child = "none" /\ ~leaving /\ lookup[c].state = "Idle"
      /\ chain # <<>> /\ chain' = SubSeq(chain, 1, Len(chain) - 1)
      /\ steady' = (steady /\ ~Upset(c, TRUE))
      /\ UNCHANGED <<open, child, dictionary, history>>
  BY DEF Back, Attends
<1>2. c \in Controllers /\ lookup[c] \in Lookups /\ lookup[c].suggestion \in BOOLEAN
  BY ControllersFacts, FieldTypes
<1>3. /\ Len(chain) \in Nat \ {0} /\ chain \in Seq(Entries) /\ e \in Entries
      /\ chain' \in Seq(Entries) /\ Len(chain') = Len(chain) - 1
      /\ \A i \in 1..Len(chain) - 1 : chain'[i] = chain[i]
  <2>1. chain \in Seq(Entries)
    BY DEF TypeOK
  <2>2. Len(chain) \in Nat \ {0}
    BY <1>1, <2>1, EmptySeq
  <2>3. \A i \in 1..Len(chain) : chain[i] \in Entries
    BY <2>1
  <2>4. /\ chain' \in Seq(Entries) /\ Len(chain') = Len(chain) - 1
        /\ \A i \in 1..Len(chain) - 1 : chain'[i] = chain[i]
    <3> DEFINE n == Len(chain) - 1
    <3>1. n \in Nat /\ n <= Len(chain) /\ chain' = SubSeq(chain, 1, n)
      BY <1>1, <2>2
    <3>2. \A i \in 1..n : chain[i] \in Entries
      BY <2>3, <3>1
    <3> HIDE DEF n
    <3>3. /\ chain' \in Seq(Entries) /\ Len(chain') = n
          /\ \A i \in 1..n : chain'[i] = chain[i]
      BY <2>1, <3>1, <3>2
    <3>4. QED
      BY <3>3 DEF n
  <2>5. QED
    BY <2>1, <2>2, <2>3, <2>4
<1>4. e.histIndex \in 0..MaxVisible - 1 /\ e.histIndex \in -1..MaxVisible - 1
  BY <1>3, DictionaryAssumption DEF Entries
<1>5. definition \in Definitions
  BY DEF TypeOK
<1> HIDE DEF e
<1>6. /\ definition' \in Definitions
      /\ definition'.headword = definition.headword
      /\ definition'.shown = definition.shown
      /\ definition'.current = e.histIndex /\ definition'.pending = e.histIndex
  <2>1. definition' = d \/ definition' = [definition EXCEPT !.pending = e.histIndex,
                                 !.current = e.histIndex, !.back = TRUE]
    BY DEF Back, e
  <2>2. QED
    BY <1>4, <1>5, <2>1 DEF Definitions
<1>7. ChainOK'
  <2>1. \A i \in 1..Len(chain') : e.histIndex <= chain'[i].histIndex
    BY <1>3 DEF ChainOK, e
  <2>2. \A i, j \in 1..Len(chain') : i <= j => chain'[j].histIndex <= chain'[i].histIndex
    BY <1>3 DEF ChainOK
  <2>3. QED
    BY <1>6, <2>1, <2>2 DEF ChainOK
<1>8. CASE e.histIndex < Len(history)
  <2>1. Start(c, w, FALSE, lookup[c].suggestion) /\ leaving' = leaving
    BY <1>8 DEF Back, e
  <2>2. w \in Words /\ w \in Words \union {NoWord}
    BY <1>4, <1>8 DEF TypeOK
  <2> HIDE DEF w
  <2>3. /\ lookup' \in [Controllers -> Lookups]
        /\ \A b \in Controllers : b # c => lookup'[b] = lookup[b]
        /\ lookup'[c].word = w
        /\ owner' \in Controllers \union {NoOwner} /\ notified' \in BOOLEAN
        /\ worker' = worker
    BY <1>2, <2>1, <2>2, StartFacts
  <2>4. TypeOK'
    BY <1>1, <1>3, <1>6, <2>1, <2>3 DEF TypeOK, Upset
  <2>5. ScreensOK' /\ WordsOK'
    BY <1>1, <1>6, <2>1, <2>2, <2>3, ControllersFacts DEF ScreensOK, WordsOK, Top
  <2>6. OwnerOK'
    BY <1>1, <1>2, <2>1, <2>2, StartOwner
  <2>7. QED
    BY <1>7, <2>4, <2>5, <2>6
<1>9. CASE ~(e.histIndex < Len(history))
  <2>1. /\ lookup' = [lookup EXCEPT ![c].cancelRequested = TRUE]
        /\ leaving' = TRUE /\ UNCHANGED <<owner, notified, worker>>
    BY <1>9 DEF Back, e, task
  <2>2. /\ lookup' \in [Controllers -> Lookups]
        /\ \A b \in Controllers : /\ lookup'[b].state = lookup[b].state
                                  /\ lookup'[b].word = lookup[b].word
                                  /\ lookup'[b].done = lookup[b].done
    BY <1>2, <2>1 DEF TypeOK, Lookups
  <2>3. TypeOK'
    BY <1>1, <1>3, <1>6, <2>1, <2>2 DEF TypeOK, Upset
  <2>4. ScreensOK' /\ WordsOK'
    BY <1>1, <1>6, <2>1, <2>2, ControllersFacts DEF ScreensOK, WordsOK, Top
  <2>5. OwnerOK'
    BY <1>1, <2>1, <2>2 DEF OwnerOK, OwnerLives, TypeOK
  <2>6. QED
    BY <1>7, <2>3, <2>4, <2>5
<1>10. QED
  BY <1>8, <1>9

-----------------------------------------------------------------------------
(***************************************************************************)
(* What the user does without a lookup, and the screens.                   *)
(***************************************************************************)
(* Steps that change the fields of one controller, and the child.          *)
LEMMA FieldsInv ==
  ASSUME Inv, NEW c \in Controllers,
         RequestCancel(c) \/ Dismiss(c) \/ NoSuggestion(c) \/ OpenPicker(c) \/ ClosePicker(c)
  PROVE  Inv'
<1> USE DEF Inv
<1>1. /\ c \in open /\ c = Top /\ ~leaving /\ lookup[c] \in Lookups
      /\ definition \in Definitions /\ steady \in BOOLEAN
  BY TopFacts, FieldTypes
     DEF RequestCancel, Dismiss, NoSuggestion, OpenPicker, ClosePicker, Attends, ScreensOK, TypeOK
<1>2. /\ UNCHANGED <<open, leaving, dictionary, history, chain, owner, notified, worker>>
      /\ child' \in {"none", "suggestions", "picker"}
      /\ steady' \in BOOLEAN
      /\ \/ definition' = definition
         \/ c = "definition" /\ definition' = [definition EXCEPT !.switch = FALSE]
  BY <1>1 DEF RequestCancel, Dismiss, NoSuggestion, OpenPicker, ClosePicker, main, screen, task,
     TypeOK
<1>3. /\ definition' \in Definitions
      /\ definition'.headword = definition.headword
      /\ definition'.shown = definition.shown
      /\ definition'.current = definition.current
      /\ definition'.pending = definition.pending
      /\ definition'.back = definition.back
      /\ definition' = definition \/ "definition" \in open
  BY <1>1, <1>2 DEF Definitions
<1>4. /\ lookup' \in [Controllers -> Lookups]
      /\ \A d \in Controllers : d # c => lookup'[d] = lookup[d]
      /\ lookup'[c].word = lookup[c].word
      /\ \/ RequestCancel(c) /\ lookup'[c].state = lookup[c].state
                             /\ lookup'[c].done = lookup[c].done
         \/ Dismiss(c) /\ lookup'[c].state = "Idle"
         \/ NoSuggestion(c) /\ lookup'[c].state = "NotFound"
         \/ OpenPicker(c) /\ lookup'[c].state = "Idle"
         \/ ClosePicker(c) /\ lookup'[c].state = lookup[c].state
                           /\ lookup'[c].done = lookup[c].done
  <2>1. CASE RequestCancel(c)
    BY <1>1, <2>1 DEF RequestCancel, TypeOK, Lookups
  <2>2. CASE Dismiss(c)
    BY <1>1, <2>2 DEF Dismiss, TypeOK, Lookups
  <2>3. CASE NoSuggestion(c)
    BY <1>1, <2>3 DEF NoSuggestion, TypeOK, Lookups
  <2>4. CASE OpenPicker(c)
    BY <1>1, <2>4 DEF OpenPicker, TypeOK, Lookups
  <2>5. CASE ClosePicker(c)
    BY <2>5 DEF ClosePicker, TypeOK
  <2>6. QED
    BY <2>1, <2>2, <2>3, <2>4, <2>5
<1>5. TypeOK'
  BY <1>2, <1>3, <1>4 DEF TypeOK
<1>6. Top' = Top /\ ("definition" \in open <=> c = "definition")
  BY <1>1, <1>2, TopFacts DEF Top
<1>7. ScreensOK'
  <2>1. /\ "definition" \notin open' => chain' = <<>> /\ definition' = NoDefinition
        /\ "definition" \in open' =>
             definition'.headword \in Words /\ definition'.shown \in Words
    BY <1>2, <1>3 DEF ScreensOK
  <2>2. "definition" \in open' => lookup'["select"].state = "Idle"
    BY <1>2, <1>4, <1>6, ControllersFacts DEF ScreensOK
  <2>3. child' # "none" => open' # {} /\ ~leaving' /\ lookup'[Top'].state = "Idle"
    BY <1>1, <1>2, <1>4, <1>6
       DEF ScreensOK, RequestCancel, Dismiss, NoSuggestion, OpenPicker, ClosePicker, Attends, main
  <2>4. QED
    BY <2>1, <2>2, <2>3 DEF ScreensOK
<1>8. WordsOK'
  <2>1. lookup'[c].state # "Idle" => lookup'[c].word \in Words
    BY <1>1, <1>4 DEF WordsOK, NoSuggestion
  <2>2. child' = "suggestions" \/ (child' = "picker" /\ Top' = "select")
          => lookup'[Top'].word \in Words
    BY <1>1, <1>4, <1>6, ControllersFacts
       DEF WordsOK, RequestCancel, Dismiss, NoSuggestion, OpenPicker, ClosePicker, Attends, main
  <2>3. QED
    BY <1>4, <2>1, <2>2 DEF WordsOK
<1>9. OwnerOK'
  <2>1. owner = c /\ worker # "releasing" =>
          lookup[c].state = "LookingUp" /\ ~lookup[c].done
    BY ControllersFacts DEF OwnerOK
  <2>2. owner = c /\ worker # "releasing" => RequestCancel(c)
    BY <1>1, <1>4, <2>1 DEF Dismiss, NoSuggestion, OpenPicker, ClosePicker, ScreensOK
  <2>3. RequestCancel(c) => lookup'[c].state = lookup[c].state
                            /\ lookup'[c].done = lookup[c].done
    BY <1>1 DEF RequestCancel, TypeOK, Lookups
  <2>4. owner \in Controllers \union {NoOwner}
    BY DEF TypeOK
  <2>5. QED
    BY <1>2, <1>4, <2>1, <2>2, <2>3, <2>4 DEF OwnerOK, OwnerLives
<1>10. ChainOK'
  BY <1>2, <1>3 DEF ChainOK
<1>11. QED
  BY <1>5, <1>7, <1>8, <1>9, <1>10

LEMMA ScreensInv ==
  ASSUME Inv, OpenSelect \/ Left \/ \E c \in Controllers : Leave(c)
  PROVE  Inv'
<1> USE DEF Inv
<1>1. CASE OpenSelect
  <2>1. /\ open = {} /\ open' = {"select"}
        /\ lookup' = [lookup EXCEPT !["select"] = Blank]
        /\ UNCHANGED <<child, leaving, dictionary, history, chain, definition, steady,
                       owner, notified, worker>>
    BY <1>1 DEF OpenSelect, screen, task
  <2>2. /\ lookup' \in [Controllers -> Lookups] /\ lookup'["select"].state = "Idle"
        /\ lookup'["definition"] = lookup["definition"]
    BY <2>1, BlankType, OneLookup, ControllersFacts
  <2>3. owner = NoOwner /\ child = "none"
    BY <2>1 DEF OwnerOK, OwnerLives, ScreensOK
  <2>4. TypeOK'
    BY <2>1, <2>2 DEF TypeOK
  <2>5. ScreensOK' /\ WordsOK' /\ ChainOK'
    BY <2>1, <2>2, <2>3 DEF ScreensOK, WordsOK, ChainOK, Controllers
  <2>6. OwnerOK'
    BY <2>1, <2>3 DEF OwnerOK, OwnerLives
  <2>7. QED
    BY <2>4, <2>5, <2>6
<1>2. CASE Left
  <2>1. /\ owner # Top /\ open' = open \ {Top}
        /\ lookup' = [lookup EXCEPT ![Top] = Blank]
        /\ leaving' = FALSE /\ dictionary' = Default
        /\ chain' = <<>> /\ definition' = NoDefinition /\ steady' = TRUE
        /\ UNCHANGED <<child, history, owner, notified, worker>>
    BY <1>2 DEF Left, MayDestroy, task
  <2>2. Top \in Controllers /\ child = "none" /\ "definition" \notin open'
    BY <1>2, <2>1, TopFacts, ControllersFacts DEF Left, ScreensOK, Top
  <2>3. /\ lookup' \in [Controllers -> Lookups] /\ lookup'[Top].state = "Idle"
        /\ \A d \in Controllers : d # Top => lookup'[d] = lookup[d]
    BY <2>1, <2>2, BlankType, OneLookup
  <2>4. NoDefinition \in Definitions /\ ~NoDefinition.back
    BY DictionaryAssumption DEF NoDefinition, Definitions
  <2>5. open' \in {{}, {"select"}}
    BY <2>1, <2>2 DEF TypeOK, Top, Controllers
  <2>6. TypeOK'
    <3>1. chain' \in Seq(Entries) /\ definition' \in Definitions /\ dictionary' \in Dictionaries
      BY <2>1, <2>4, DictionaryAssumption
    <3>2. open' \in {{}, {"select"}, Controllers} /\ leaving' \in BOOLEAN /\ steady' \in BOOLEAN
      BY <2>1, <2>5
    <3>3. QED
      BY <2>1, <2>3, <3>1, <3>2 DEF TypeOK
  <2>7. ScreensOK' /\ WordsOK' /\ ChainOK'
    BY <2>1, <2>2, <2>3, <2>4 DEF ScreensOK, WordsOK, ChainOK
  <2>8. OwnerOK'
    BY <2>1, <2>2, <2>3 DEF OwnerOK, OwnerLives, TypeOK
  <2>9. QED
    BY <2>6, <2>7, <2>8
<1>3. ASSUME NEW c \in Controllers, Leave(c) PROVE Inv'
  <2>1. /\ c \in open /\ c = Top /\ leaving' = TRUE /\ child' = "none"
        /\ lookup' = [lookup EXCEPT ![c].cancelRequested = TRUE]
        /\ UNCHANGED <<open, dictionary, history, chain, definition, steady,
                       owner, notified, worker>>
    BY <1>3 DEF Leave, screen, task
  <2>2. /\ lookup' \in [Controllers -> Lookups]
        /\ \A d \in Controllers : /\ lookup'[d].state = lookup[d].state
                                  /\ lookup'[d].word = lookup[d].word
                                  /\ lookup'[d].done = lookup[d].done
    <3>1. lookup[c] \in Lookups /\ lookup \in [Controllers -> Lookups]
      BY DEF TypeOK
    <3>2. QED
      BY <2>1, <3>1 DEF Lookups
  <2>3. TypeOK'
    BY <2>1, <2>2 DEF TypeOK
  <2>4. ScreensOK' /\ WordsOK' /\ ChainOK'
    BY <2>1, <2>2, ControllersFacts DEF ScreensOK, WordsOK, ChainOK
  <2>5. OwnerOK'
    BY <2>1, <2>2 DEF OwnerOK, OwnerLives, TypeOK
  <2>6. QED
    BY <2>3, <2>4, <2>5
<1>4. QED
  BY <1>1, <1>2, <1>3

LEMMA NextInv == Inv /\ [Next]_vars => Inv'
<1> SUFFICES ASSUME Inv, [Next]_vars PROVE Inv'
  OBVIOUS
<1>1. CASE UNCHANGED vars
  BY <1>1, Stutter
<1>2. CASE Worker
  BY <1>2, WorkerInv
<1>3. CASE Answers \/ \E c \in Controllers : AnswerPrompt(c)
  BY <1>3, AnsweringInv DEF Answers
<1>4. CASE Left \/ OpenSelect \/ \E c \in Controllers : Leave(c)
  BY <1>4, ScreensInv
<1>5. CASE Back
  BY <1>5, BackInv
<1>6. ASSUME NEW c \in Controllers, NEW w \in Words, LookUp(c, w) \/ Suggest(c, w)
      PROVE  Inv'
  BY <1>6, LookUpInv, SuggestInv
<1>7. ASSUME NEW c \in Controllers, NEW d \in Dictionaries, PickDictionary(c, d)
      PROVE  Inv'
  BY <1>7, PickDictionaryInv
<1>8. ASSUME NEW c \in Controllers,
             RequestCancel(c) \/ Dismiss(c) \/ NoSuggestion(c) \/ OpenPicker(c) \/ ClosePicker(c)
      PROVE  Inv'
  BY <1>8, FieldsInv
<1>9. QED
  BY <1>1, <1>2, <1>3, <1>4, <1>5, <1>6, <1>7, <1>8 DEF Next, User

LEMMA SpecInv == Spec => []Inv
BY InitInv, NextInv, PTL DEF Spec

-----------------------------------------------------------------------------
(***************************************************************************)
(* Answers.                                                                *)
(***************************************************************************)
Whole(l) == l.found = Answer(l.word)

(* What the worker has found so far is the answer, unless it says that it  *)
(* was disturbed.                                                          *)
AnswersOK ==
  /\ worker = "judging" =>
       \/ lookup[owner].cancelRequested \/ lookup[owner].readError
       \/ Whole(lookup[owner])
  /\ worker = "finishing" =>
       \/ lookup[owner].cancelled \/ lookup[owner].readError
       \/ Whole(lookup[owner])
  /\ AnswerIsOfTheWord

(* A step of the main loop leaves alone what the worker is at, and what an *)
(* answer that is there consists of.                                       *)
SameAnswer(d) ==
  /\ lookup'[d].word = lookup[d].word /\ lookup'[d].found = lookup[d].found
  /\ lookup'[d].readError = lookup[d].readError
  /\ lookup'[d].cancelled = lookup[d].cancelled
  /\ lookup[d].cancelRequested => lookup'[d].cancelRequested

KeepsAnswers ==
  /\ worker \in {"judging", "finishing"} =>
       /\ UNCHANGED <<owner, dictionary>>
       /\ SameAnswer(owner)
  /\ worker' = worker
  /\ \A d \in open' : lookup'[d].state = "LookingUp" /\ lookup'[d].done =>
       /\ d \in open /\ lookup[d].state = "LookingUp" /\ lookup[d].done
       /\ SameAnswer(d) /\ UNCHANGED dictionary

LEMMA KeepsAnswersOK == ASSUME AnswersOK, KeepsAnswers PROVE AnswersOK'
<1>1. ASSUME worker \in {"judging", "finishing"}
      PROVE  Whole(lookup[owner])' <=> Whole(lookup[owner])
  BY <1>1 DEF KeepsAnswers, SameAnswer, Whole, Answer
<1>2. (worker = "judging" =>
        \/ lookup[owner].cancelRequested \/ lookup[owner].readError
        \/ Whole(lookup[owner]))'
  BY <1>1 DEF AnswersOK, KeepsAnswers, SameAnswer
<1>3. (worker = "finishing" =>
        \/ lookup[owner].cancelled \/ lookup[owner].readError
        \/ Whole(lookup[owner]))'
  BY <1>1 DEF AnswersOK, KeepsAnswers, SameAnswer
<1>4. AnswerIsOfTheWord'
  BY DEF AnswersOK, KeepsAnswers, SameAnswer, AnswerIsOfTheWord, Answer
<1>5. QED
  BY <1>2, <1>3, <1>4 DEF AnswersOK

(* While the worker judges or finishes, its owner is asking.               *)
LEMMA BusyOwner ==
  ASSUME Inv, worker \in {"judging", "finishing"}
  PROVE  /\ owner \in open /\ owner \in Controllers
         /\ lookup[owner].state = "LookingUp" /\ ~lookup[owner].done
         /\ owner = Top /\ child = "none"
<1> USE DEF Inv
<1>1. /\ owner \in open /\ owner # NoOwner /\ owner \in Controllers
      /\ lookup[owner].state = "LookingUp" /\ ~lookup[owner].done
  BY DEF OwnerOK, OwnerLives, TypeOK
<1>2. owner = Top
  BY <1>1 DEF ScreensOK, Top, Controllers
<1>3. QED
  BY <1>1, <1>2 DEF ScreensOK

(* Steps that leave the dictionary, and change the fields of one           *)
(* controller that is not asking, or only ask it to cancel.                *)
LEMMA OneKeeps ==
  ASSUME Inv, NEW c \in Controllers, UNCHANGED <<dictionary, worker>>,
         worker # "waiting" => owner' = owner,
         open' \in SUBSET Controllers,
         \A d \in open' : d \in open \/ lookup'[d].state # "LookingUp",
         \A d \in Controllers : d # c => lookup'[d] = lookup[d]
                                         \/ (lookup'[d].state = "Idle" /\ owner # d),
         \/ lookup'[c].state # "LookingUp" /\ (owner = c => worker = "releasing")
         \/ ~lookup'[c].done /\ lookup[c].state # "LookingUp"
         \/ SameAnswer(c) /\ lookup'[c].state = lookup[c].state
                          /\ lookup'[c].done = lookup[c].done
  PROVE  KeepsAnswers
<1>1. ASSUME worker \in {"judging", "finishing"}
      PROVE  UNCHANGED <<owner, dictionary>> /\ SameAnswer(owner)
  <2>1. /\ owner \in Controllers
        /\ lookup[owner].state = "LookingUp" /\ ~lookup[owner].done
    BY <1>1, BusyOwner
  <2>2. CASE owner = c
    BY <1>1, <2>1, <2>2
  <2>3. CASE owner # c
    BY <1>1, <2>1, <2>3 DEF SameAnswer
  <2>4. QED
    BY <2>2, <2>3
<1>2. ASSUME NEW d \in open', lookup'[d].state = "LookingUp", lookup'[d].done
      PROVE  /\ d \in open /\ lookup[d].state = "LookingUp" /\ lookup[d].done
             /\ SameAnswer(d) /\ UNCHANGED dictionary
  BY <1>2 DEF SameAnswer
<1>3. QED
  BY <1>1, <1>2 DEF KeepsAnswers

LEMMA WorkerAnswers ==
  ASSUME Inv, AnswersOK, Worker
  PROVE  AnswersOK'
<1> USE DEF Inv
<1>1. UNCHANGED <<open, dictionary>>
  BY DEF Worker, Take, Prepare, Locate, Judge, Finish, Release, main
<1>2. CASE Take
  BY <1>1, <1>2 DEF Take, AnswersOK, Whole, AnswerIsOfTheWord, Answer
<1>3. CASE Release
  BY <1>1, <1>3 DEF Release, AnswersOK, Whole, AnswerIsOfTheWord, Answer
<1>4. CASE Prepare \/ Locate \/ Judge \/ Finish
  <2> DEFINE o == owner
             l == lookup[owner]
  <2>1. /\ o \in Controllers /\ o \in open /\ owner' = owner
        /\ l \in Lookups /\ l.state = "LookingUp" /\ ~l.done
        /\ lookup \in [Controllers -> Lookups] /\ open \subseteq Controllers
    BY <1>4 DEF Prepare, Locate, Judge, Finish, OwnerOK, OwnerLives, TypeOK
  <2>2. \A d \in Controllers : d # o => lookup'[d] = lookup[d]
    BY <1>4, <2>1 DEF Prepare, Locate, Judge, Finish
  <2>3. CASE Prepare
    <3>1. /\ \/ lookup' = lookup /\ worker' = "locating"
             \/ lookup' = [lookup EXCEPT ![o].cancelled = TRUE] /\ worker' = "finishing"
      BY <2>3 DEF Prepare
    <3>2. ~lookup'[o].done /\ (worker' = "finishing" => lookup'[o].cancelled)
      BY <2>1, <3>1 DEF Lookups
    <3>3. QED
      BY <1>1, <2>1, <2>2, <3>1, <3>2 DEF AnswersOK, AnswerIsOfTheWord, Answer
  <2>4. CASE Locate
    <3>1. PICK r :
            /\ lookup' = [lookup EXCEPT ![o].found = r.found, ![o].readError = r.readError]
            /\ r.found = Answer(l.word) \/ r.readError \/ l.cancelRequested
      <4> DEFINE found == [found |-> Answer(l.word), readError |-> FALSE]
                 failed == [found |-> NoWord, readError |-> TRUE]
                 cut == [found |-> NoWord, readError |-> FALSE]
      <4>1. PICK r \in {found, failed} \union (IF l.cancelRequested THEN {cut} ELSE {}) :
              lookup' = [lookup EXCEPT ![o].found = r.found, ![o].readError = r.readError]
        BY <2>4 DEF Locate
      <4>2. found.found = Answer(l.word) /\ failed.readError
        OBVIOUS
      <4> HIDE DEF found, failed, cut
      <4>3. r = found \/ r = failed \/ l.cancelRequested
        OBVIOUS
      <4>4. QED
        BY <4>1, <4>2, <4>3
    <3>2. /\ lookup'[o].word = l.word /\ lookup'[o].found = r.found
          /\ lookup'[o].readError = r.readError /\ ~lookup'[o].done
          /\ lookup'[o].cancelRequested = l.cancelRequested
      BY <2>1, <3>1 DEF Lookups
    <3>3. worker' = "judging"
      BY <2>4 DEF Locate
    <3>4. Answer(l.word)' = Answer(lookup[o].word)'
      OBVIOUS
    <3>5. \A w : Answer(w)' = Answer(w)
      BY <1>1 DEF Answer
    <3>6. QED
      BY <1>1, <2>1, <2>2, <3>1, <3>2, <3>3, <3>5
         DEF AnswersOK, AnswerIsOfTheWord, Answer, Whole
  <2>5. CASE Judge
    <3>1. /\ lookup' = [lookup EXCEPT ![o].cancelled = l.cancelRequested]
          /\ worker = "judging" /\ worker' = "finishing"
      BY <2>5 DEF Judge
    <3>2. /\ lookup'[o].word = l.word /\ lookup'[o].found = l.found
          /\ lookup'[o].readError = l.readError /\ ~lookup'[o].done
          /\ lookup'[o].cancelled = l.cancelRequested
      BY <2>1, <3>1 DEF Lookups
    <3>3. QED
      BY <1>1, <2>1, <2>2, <3>1, <3>2 DEF AnswersOK, AnswerIsOfTheWord, Answer, Whole
  <2>6. CASE Finish
    <3>1. /\ lookup' = [lookup EXCEPT ![o].done = TRUE]
          /\ worker = "finishing" /\ worker' = "releasing"
      BY <2>6 DEF Finish
    <3>2. SameAnswer(o)
      BY <2>1, <3>1 DEF Lookups, SameAnswer
    <3>3. QED
      BY <1>1, <2>1, <2>2, <3>1, <3>2
         DEF AnswersOK, AnswerIsOfTheWord, Answer, Whole, SameAnswer
  <2>7. QED
    BY <1>4, <2>3, <2>4, <2>5, <2>6
<1>5. QED
  BY <1>2, <1>3, <1>4 DEF Worker

LEMMA OpenType == ASSUME TypeOK PROVE open \subseteq Controllers /\ open \in SUBSET Controllers
<1>1. open \in {{}, {"select"}, Controllers}
  BY DEF TypeOK
<1>2. QED
  BY <1>1 DEF Controllers

LEMMA AnsweringKeeps ==
  ASSUME Inv, NEW c \in Controllers, Poll(c) \/ AnswerPrompt(c)
  PROVE  KeepsAnswers
<1> USE DEF Inv
<1>1. /\ Answerable(c) /\ UNCHANGED <<leaving, dictionary, owner, worker>>
      /\ Ended(c) \/ \E h \in Words : Found(c, h)
  BY AnsweringIs DEF Answering, task
<1>2. owner = c => worker = "releasing"
  BY <1>1, AnswerableFacts
<1>3. open \in SUBSET Controllers
  BY OpenType
<1>4. CASE Ended(c)
  BY <1>1, <1>2, <1>3, <1>4, EndedFacts, OneKeeps
<1>5. ASSUME NEW h \in Words, Found(c, h) PROVE KeepsAnswers
  <2>1. CASE c = "definition"
    <3>1. FoundInDefinition(h)
      BY <1>5, <2>1, ControllersFacts DEF Found
    <3>2. lookup' = [lookup EXCEPT ![c] = AtRest(lookup[c].word, FALSE, "Idle")]
          /\ open' = open
      BY <2>1, <3>1 DEF FoundInDefinition, Answered
    <3>3. lookup'[c].state = "Idle" /\ \A d \in Controllers : d # c => lookup'[d] = lookup[d]
      BY <3>2 DEF TypeOK, AtRest, Fresh
    <3>4. QED
      BY <1>1, <1>2, <1>3, <3>2, <3>3, OneKeeps
  <2>2. CASE c = "select"
    <3>1. FoundInSelect(h) /\ "definition" \notin open /\ owner # "definition"
      BY <1>1, <1>5, <2>2, AnswerableFacts DEF Found
    <3>2. /\ open' \in SUBSET Controllers
          /\ \/ open' = open
                /\ lookup' = [lookup EXCEPT ![c] = AtRest(lookup[c].word, FALSE, "Idle")]
             \/ lookup' = [[lookup EXCEPT ![c] = AtRest(lookup[c].word, FALSE, "Idle")]
                             EXCEPT !["definition"] = Blank]
      BY <1>3, <2>2, <3>1 DEF FoundInSelect, Answered
    <3>3. /\ lookup'[c].state = "Idle"
          /\ \/ open' = open /\ lookup'["definition"] = lookup["definition"]
             \/ lookup'["definition"].state = "Idle"
      BY <2>2, <3>2, ControllersFacts, BlankType DEF TypeOK, AtRest, Fresh
    <3>4. \A d \in open' : d \in open \/ lookup'[d].state # "LookingUp"
      BY <2>2, <3>2, <3>3 DEF Controllers
    <3>5. QED
      BY <1>1, <1>2, <2>2, <3>1, <3>2, <3>3, <3>4, OneKeeps DEF Controllers
  <2>3. QED
    BY <2>1, <2>2 DEF Controllers
<1>6. QED
  BY <1>1, <1>4, <1>5

LEMMA StartKeeps ==
  ASSUME Inv, NEW c \in Controllers,
         Back \/ \E w \in Words : LookUp(c, w) \/ Suggest(c, w)
  PROVE  KeepsAnswers
<1> USE DEF Inv
<1>1. open \in SUBSET Controllers /\ "definition" \in Controllers
  BY ControllersFacts DEF TypeOK
<1>2. ASSUME NEW b \in Controllers, NEW w, NEW record, NEW suggestion,
             Start(b, w, record, suggestion),
             lookup[b].state = "Idle", UNCHANGED <<open, dictionary>>
      PROVE  KeepsAnswers
  <2>1. /\ \A d \in Controllers : d # b => lookup'[d] = lookup[d]
        /\ worker' = worker
        /\ \/ owner = NoOwner /\ ~lookup'[b].done
           \/ owner' = owner /\ lookup'[b].state = "Idle"
    BY <1>2 DEF Start, IsFree, task, Fresh, AtRest, TypeOK
  <2>2. owner = b => worker = "releasing"
    BY <1>2, ControllersFacts DEF OwnerOK
  <2>3. owner = NoOwner => worker = "waiting"
    BY DEF OwnerOK, OwnerLives
  <2>4. QED
    BY <1>1, <1>2, <2>1, <2>2, <2>3, OneKeeps
<1>3. ASSUME NEW w \in Words, LookUp(c, w) PROVE KeepsAnswers
  BY <1>2, <1>3 DEF LookUp, Attends, main
<1>4. ASSUME NEW w \in Words, Suggest(c, w) PROVE KeepsAnswers
  <2>1. lookup[c].state = "Idle"
    BY <1>4 DEF Suggest, ScreensOK
  <2>2. QED
    BY <1>2, <1>4, <2>1 DEF Suggest
<1>5. CASE Back
  <2>1. /\ lookup["definition"].state = "Idle" /\ UNCHANGED <<open, dictionary>>
        /\ \/ Start("definition", history[chain[Len(chain)].histIndex + 1], FALSE,
                    lookup["definition"].suggestion)
           \/ /\ lookup' = [lookup EXCEPT !["definition"].cancelRequested = TRUE]
              /\ UNCHANGED task
    BY <1>5 DEF Back, Attends
  <2>2. CASE lookup' = [lookup EXCEPT !["definition"].cancelRequested = TRUE]
             /\ UNCHANGED task
    <3>1. /\ \A d \in Controllers : d # "definition" => lookup'[d] = lookup[d]
          /\ lookup'["definition"].state = "Idle"
      BY <1>1, <2>1, <2>2 DEF TypeOK, Lookups
    <3>2. owner = "definition" => worker = "releasing"
      BY <2>1, ControllersFacts DEF OwnerOK
    <3>3. QED
      BY <1>1, <2>1, <2>2, <3>1, <3>2, OneKeeps DEF task
  <2>3. QED
    BY <1>1, <1>2, <2>1, <2>2
<1>6. QED
  BY <1>3, <1>4, <1>5

LEMMA FieldsKeep ==
  ASSUME Inv, NEW c \in Controllers,
         \/ RequestCancel(c) \/ Dismiss(c) \/ NoSuggestion(c) \/ OpenPicker(c)
         \/ ClosePicker(c) \/ Leave(c)
  PROVE  KeepsAnswers
<1> USE DEF Inv
<1>1. /\ UNCHANGED <<open, dictionary, owner, worker>> /\ open \in SUBSET Controllers
      /\ lookup[c] \in Lookups /\ lookup \in [Controllers -> Lookups]
  BY OpenType
     DEF RequestCancel, Dismiss, NoSuggestion, OpenPicker, ClosePicker, Leave, main, task, TypeOK
<1>2. \A d \in Controllers : d # c => lookup'[d] = lookup[d]
  BY <1>1 DEF RequestCancel, Dismiss, NoSuggestion, OpenPicker, ClosePicker, Leave
<1>3. CASE RequestCancel(c) \/ Leave(c) \/ ClosePicker(c)
  <2>1. lookup' = [lookup EXCEPT ![c].cancelRequested = TRUE] \/ lookup' = lookup
    BY <1>3 DEF RequestCancel, Leave, ClosePicker
  <2>2. SameAnswer(c) /\ lookup'[c].state = lookup[c].state
                      /\ lookup'[c].done = lookup[c].done
    BY <1>1, <2>1 DEF SameAnswer, Lookups
  <2>3. QED
    BY <1>1, <1>2, <2>2, OneKeeps
<1>4. CASE Dismiss(c) \/ NoSuggestion(c) \/ OpenPicker(c)
  <2>1. lookup[c].state # "LookingUp"
    BY <1>4 DEF Dismiss, NoSuggestion, OpenPicker, ScreensOK
  <2>2. owner = c => worker = "releasing"
    BY <2>1, ControllersFacts DEF OwnerOK
  <2>3. lookup'[c].state # "LookingUp"
    BY <1>1, <1>4 DEF Dismiss, NoSuggestion, OpenPicker, Lookups
  <2>4. QED
    BY <1>1, <1>2, <2>2, <2>3, OneKeeps
<1>5. QED
  BY <1>3, <1>4

(* Nobody asks, and the worker is not at it, when the dictionary changes.  *)
LEMMA DictionaryKeeps ==
  ASSUME Inv,
         \/ OpenSelect \/ Left
         \/ \E c \in Controllers, d \in Dictionaries : PickDictionary(c, d)
  PROVE  KeepsAnswers
<1> USE DEF Inv
<1>1. CASE OpenSelect
  <2>1. /\ open = {} /\ open' = {"select"}
        /\ lookup' = [lookup EXCEPT !["select"] = Blank]
        /\ UNCHANGED <<dictionary, owner, worker>>
    BY <1>1 DEF OpenSelect, task
  <2>2. worker = "waiting" /\ lookup'["select"].state = "Idle"
    BY <2>1, BlankType, ControllersFacts DEF OwnerOK, OwnerLives, TypeOK
  <2>3. QED
    BY <2>1, <2>2 DEF KeepsAnswers
<1>2. CASE Left
  <2>1. /\ owner # Top /\ open' = open \ {Top} /\ leaving
        /\ \A d \in Controllers : d # Top => lookup'[d] = lookup[d]
        /\ UNCHANGED <<owner, worker>>
    BY <1>2 DEF Left, MayDestroy, task, TypeOK
  <2>2. worker \notin {"judging", "finishing"}
    BY <2>1, BusyOwner
  <2>3. \A d \in open' : lookup'[d].state # "LookingUp"
    BY <2>1 DEF ScreensOK, TypeOK, Top, Controllers
  <2>4. QED
    BY <2>1, <2>2, <2>3 DEF KeepsAnswers
<1>3. ASSUME NEW c \in Controllers, NEW d \in Dictionaries, PickDictionary(c, d)
      PROVE  KeepsAnswers
  <2> DEFINE w == IF c = "definition" THEN definition.headword ELSE lookup[c].word
  <2>1. /\ child = "picker" /\ c = Top /\ open' = open
        /\ Start(c, w, FALSE, lookup[c].suggestion)
    BY <1>3 DEF PickDictionary
  <2> HIDE DEF w
  <2>2. /\ \A e \in Controllers : e # c => lookup'[e] = lookup[e]
        /\ worker' = worker
        /\ ~lookup'[c].done
    BY <2>1 DEF Start, IsFree, task, Fresh, AtRest, TypeOK
  <2>3. worker \notin {"judging", "finishing"}
    BY <2>1, BusyOwner
  <2>4. \A e \in open : e # c => lookup[e].state = "Idle"
    BY <2>1 DEF ScreensOK, TypeOK, Top, Controllers
  <2>5. open \subseteq Controllers
    BY OpenType
  <2>6. QED
    BY <2>1, <2>2, <2>3, <2>4, <2>5 DEF KeepsAnswers
<1>4. QED
  BY <1>1, <1>2, <1>3

LEMMA NextAnswers == Inv /\ AnswersOK /\ [Next]_vars => AnswersOK'
<1> SUFFICES ASSUME Inv, AnswersOK, [Next]_vars PROVE AnswersOK'
  OBVIOUS
<1>1. CASE UNCHANGED vars
  BY <1>1 DEF vars, main, task, AnswersOK, AnswerIsOfTheWord, Whole, Answer
<1>2. CASE Worker
  BY <1>2, WorkerAnswers
<1>3. CASE Answers \/ Left \/ User
  <2>1. KeepsAnswers
    BY <1>3, AnsweringKeeps, StartKeeps, FieldsKeep, DictionaryKeeps, ControllersFacts
       DEF Answers, User
  <2>2. QED
    BY <2>1, KeepsAnswersOK
<1>4. QED
  BY <1>1, <1>2, <1>3 DEF Next

LEMMA SpecAnswers == Spec => []AnswersOK
<1>1. Init => AnswersOK
  BY DEF Init, AnswersOK, AnswerIsOfTheWord
<1>2. QED
  BY <1>1, NextAnswers, SpecInv, PTL DEF Spec

-----------------------------------------------------------------------------
(***************************************************************************)
(* The way back.                                                           *)
(***************************************************************************)
Resolves(entries, words) ==
  \A i \in 1..Len(entries) :
    /\ entries[i].histIndex < Len(words)
    /\ words[entries[i].histIndex + 1] = entries[i].word

(* The chain and the word on the screen are found in the history; a word   *)
(* that is not recorded stands at the beginning of the chain.              *)
ResolvesOK ==
  /\ Resolves(chain, history)
  /\ ~definition.back /\ definition.current >= 0 =>
       /\ definition.current < Len(history)
       /\ history[definition.current + 1] = definition.shown
  /\ definition.current = -1 => chain = <<>>

Asked == lookup["definition"].state \in {"LookingUp", "AltFormPrompt"}

(* The flags say what the lookup under way is for.                         *)
FlagsOK ==
  /\ definition.back =>
       /\ Asked /\ definition.pending < Len(history)
       /\ history[definition.pending + 1] = lookup["definition"].word
  /\ definition.switch =>
       \/ Asked \/ lookup["definition"].state \in {"NotFound", "ReadError"}
       \/ child = "picker" \/ leaving
  /\ "definition" \in open /\ Asked =>
       (lookup["definition"].record <=> ~definition.back /\ ~definition.switch)

SteadyOK == steady => ResolvesOK /\ FlagsOK

LEMMA ClosedSteady ==
  ASSUME ScreensOK, "definition" \notin open PROVE SteadyOK
BY DEF ScreensOK, SteadyOK, ResolvesOK, Resolves, FlagsOK, NoDefinition

(* Recording a word moves every other by one.                              *)
LEMMA OnForwardResolves ==
  ASSUME TypeOK, ChainOK, ResolvesOK, ~definition.back, NEW w \in Words
  PROVE  Resolves(OnForward(TRUE), Logged(w))
<1>1. CASE ~(definition.current >= 0)
  <2>1. definition.current = -1
    BY <1>1 DEF TypeOK, Definitions
  <2>2. OnForward(TRUE) = chain /\ chain = <<>>
    BY <1>1, <2>1, OnForwardIs DEF ResolvesOK
  <2>3. Resolves(chain, Logged(w))
    BY <2>2 DEF Resolves
  <2>4. QED
    BY <2>2, <2>3
<1>2. CASE definition.current >= 0
  <2> DEFINE long == Lengthened(1)
             E == [histIndex: 0..MaxVisible, word: Words \union {NoWord}]
  <2>1. OnForward(TRUE) = Reachable(long)
    BY <1>2, OnForwardIs DEF Shift
  <2>2. /\ long \in Seq(E) /\ Len(long) = Len(chain) + 1
        /\ \A i \in 1..Len(chain) : /\ long[i].histIndex = chain[i].histIndex + 1
                                    /\ long[i].word = chain[i].word
        /\ long[Len(chain) + 1].histIndex = definition.current + 1
        /\ long[Len(chain) + 1].word = definition.shown
        /\ \A i, j \in 1..Len(long) : i <= j => long[j].histIndex <= long[i].histIndex
    <3>1. 1 \in {0, 1}
      OBVIOUS
    <3>2. QED
      BY <1>2, <3>1, LengthenedFacts
  <2> HIDE DEF long
  <2>3. \A j \in 1..Len(long) : long[j].histIndex \in Nat
    <3>1. \A j \in 1..Len(long) : long[j] \in E
      <4> HIDE DEF E
      <4>1. QED
        BY <2>2
    <3>2. QED
      BY <3>1
  <2>4. \A i \in 1..Len(Reachable(long)) :
          /\ i + Len(long) - Len(Reachable(long)) \in 1..Len(long)
          /\ Reachable(long)[i] = long[i + Len(long) - Len(Reachable(long))]
          /\ Reachable(long)[i].histIndex < MaxVisible
    <3> HIDE DEF E
    <3>1. QED
      BY <2>2, <2>3, ReachableFacts
  <2>5. /\ chain \in Seq(Entries) /\ Len(chain) \in Nat /\ Len(history) \in Nat
        /\ MaxVisible \in Nat /\ definition.current \in Nat
    BY <1>2, DictionaryAssumption DEF TypeOK, Definitions
  <2>6. ASSUME NEW k \in 1..Len(long), long[k].histIndex < MaxVisible
        PROVE  /\ long[k].histIndex < Len(Logged(w))
               /\ Logged(w)[long[k].histIndex + 1] = long[k].word
    <3> DEFINE i == long[k].histIndex
    <3>1. /\ i - 1 \in Nat /\ i - 1 < Len(history) /\ history[i] = long[k].word
      <4>1. CASE k \in 1..Len(chain)
        <5>1. chain[k] \in Entries
          BY <2>5, <4>1
        <5>2. chain[k].histIndex \in Nat
          BY <5>1 DEF Entries
        <5>3. chain[k].histIndex < Len(history)
              /\ history[chain[k].histIndex + 1] = chain[k].word
          BY <4>1 DEF ResolvesOK, Resolves
        <5>4. i = chain[k].histIndex + 1 /\ long[k].word = chain[k].word
          BY <2>2, <4>1
        <5>5. QED
          BY <5>2, <5>3, <5>4
      <4>2. CASE k = Len(chain) + 1
        BY <1>2, <2>2, <2>5, <4>2 DEF ResolvesOK
      <4>3. QED
        BY <2>2, <2>5, <4>1, <4>2
    <3> HIDE DEF i
    <3>2. i \in 1..Len(history) /\ i + 1 <= MaxVisible
      BY <2>3, <2>5, <2>6, <3>1 DEF i
    <3>3. i + 1 <= Len(Logged(w)) /\ Logged(w)[i + 1] = history[i]
      BY <3>2, LoggedFacts
    <3>4. Len(Logged(w)) \in Nat
      BY <2>5, LoggedFacts
    <3>5. QED
      BY <3>1, <3>2, <3>3, <3>4 DEF i
  <2>7. QED
    BY <2>1, <2>4, <2>6 DEF Resolves
<1>3. QED
  BY <1>1, <1>2

LEMMA FoundInDefinitionSteady ==
  ASSUME Inv, SteadyOK, Answerable("definition"), NEW h \in Words,
         FoundInDefinition(h), steady'
  PROVE  ResolvesOK' /\ FlagsOK'
<1> USE DEF Inv
<1> DEFINE l == lookup["definition"]
           willLog == ~definition.back /\ l.record
<1>1. /\ "definition" \in open /\ l.word \in Words /\ l.record \in BOOLEAN
      /\ definition \in Definitions /\ Asked
  BY AnswerableFacts, ControllersFacts, FieldTypes DEF TypeOK, Answerable, Asked
<1>2. /\ willLog \in BOOLEAN /\ (willLog <=> ~definition.back /\ ~definition.switch)
      /\ steady /\ ~Lost(willLog) /\ ResolvesOK
      /\ definition.back => /\ definition.pending < Len(history)
                            /\ history[definition.pending + 1] = l.word
  BY <1>1 DEF FoundInDefinition, SteadyOK, FlagsOK, Definitions
<1>3. /\ Log(l.word, willLog)
      /\ chain' = IF definition.back \/ definition.switch THEN chain ELSE OnForward(willLog)
      /\ lookup' = [lookup EXCEPT !["definition"] = AtRest(l.word, FALSE, "Idle")]
  BY DEF FoundInDefinition, Answered
<1>4. /\ ~definition'.back /\ ~definition'.switch
      /\ definition'.shown = IF definition.switch /\ ~definition.back
                             THEN definition.shown ELSE l.word
      /\ definition'.current = IF definition.back THEN definition.pending
                               ELSE IF definition.switch THEN definition.current
                               ELSE IF willLog THEN 0 ELSE -1
  BY <1>1 DEF FoundInDefinition, Definitions
<1>5. lookup'["definition"].state = "Idle"
  BY <1>3, ControllersFacts DEF TypeOK, AtRest, Fresh
<1>6. FlagsOK'
  BY <1>4, <1>5 DEF FlagsOK, Asked
<1> HIDE DEF l, willLog
<1>7. CASE definition.back
  <2>1. ~willLog /\ history' = history /\ chain' = chain
    BY <1>2, <1>3, <1>7 DEF Log
  <2>2. definition'.current = definition.pending /\ definition'.shown = l.word
        /\ definition.pending \in Nat
    BY <1>1, <1>4, <1>7 DEF Definitions
  <2>3. Resolves(chain, history)'
    BY <1>2, <2>1 DEF ResolvesOK, Resolves
  <2>4. QED
    BY <1>2, <1>6, <1>7, <2>1, <2>2, <2>3 DEF ResolvesOK
<1>8. CASE ~definition.back /\ definition.switch
  <2>1. ~willLog /\ history' = history /\ chain' = chain
    BY <1>2, <1>3, <1>8 DEF Log
  <2>2. definition'.current = definition.current /\ definition'.shown = definition.shown
    BY <1>4, <1>8
  <2>3. Resolves(chain, history)'
    BY <1>2, <2>1 DEF ResolvesOK, Resolves
  <2>4. QED
    BY <1>2, <1>6, <1>8, <2>1, <2>2, <2>3 DEF ResolvesOK
<1>9. CASE ~definition.back /\ ~definition.switch
  <2>1. willLog
    BY <1>2, <1>9
  <2>2. history' = Logged(l.word)
    BY <1>2, <1>3, <2>1 DEF Log, Lost
  <2>3. chain' = OnForward(willLog)
    BY <1>3, <1>9
  <2>4. Resolves(OnForward(TRUE), Logged(l.word))
    BY <1>1, <1>2, <1>9, OnForwardResolves
  <2>5. willLog = TRUE
    BY <1>2, <2>1
  <2>6. Resolves(chain', history')
    BY <2>2, <2>3, <2>4, <2>5
  <2>7. definition'.current = 0 /\ definition'.shown = l.word
    BY <1>4, <1>9, <2>1
  <2>8. Len(Logged(l.word)) >= 1 /\ Logged(l.word)[1] = l.word /\ Len(Logged(l.word)) \in Nat
    BY <1>1, LoggedFacts
  <2>9. QED
    BY <1>6, <2>2, <2>6, <2>7, <2>8 DEF ResolvesOK, Resolves
<1>10. QED
  BY <1>7, <1>8, <1>9

LEMMA FoundInSelectSteady ==
  ASSUME Inv, Answerable("select"), NEW h \in Words, FoundInSelect(h),
         "definition" \in open', steady'
  PROVE  ResolvesOK' /\ FlagsOK'
<1> USE DEF Inv
<1> DEFINE l == lookup["select"]
<1>1. "definition" \notin open /\ l.word \in Words /\ l.record \in BOOLEAN
  BY AnswerableFacts, FieldTypes, ControllersFacts
<1>2. /\ lookup'["definition"] = Blank
      /\ Log(l.word, l.record) /\ ~Lost(l.record) /\ chain' = <<>>
      /\ definition' = [NoDefinition EXCEPT
           !.headword = h, !.shown = l.word,
           !.current = IF l.record THEN 0 ELSE -1]
  BY <1>1, ControllersFacts DEF FoundInSelect, Answered, TypeOK
<1>3. /\ definition'.shown = l.word /\ ~definition'.back /\ ~definition'.switch
      /\ definition'.current = IF l.record THEN 0 ELSE -1
  BY <1>2 DEF NoDefinition
<1>4. FlagsOK'
  BY <1>2, <1>3, BlankType DEF FlagsOK, Asked
<1>5. Resolves(chain, history)'
  BY <1>2 DEF Resolves
<1> HIDE DEF l
<1>6. CASE l.record
  <2>1. history' = Logged(l.word)
    BY <1>2, <1>6 DEF Log, Lost
  <2>2. Len(Logged(l.word)) >= 1 /\ Logged(l.word)[1] = l.word /\ Len(Logged(l.word)) \in Nat
    BY <1>1, LoggedFacts
  <2>3. QED
    BY <1>2, <1>3, <1>4, <1>5, <1>6, <2>1, <2>2 DEF ResolvesOK
<1>7. CASE ~l.record
  BY <1>2, <1>3, <1>4, <1>5, <1>7 DEF ResolvesOK
<1>8. QED
  BY <1>1, <1>6, <1>7

LEMMA EndedSteady ==
  ASSUME Inv, SteadyOK, Answerable("definition"), Ended("definition"),
         leaving' = leaving, steady'
  PROVE  ResolvesOK' /\ FlagsOK'
<1> USE DEF Inv
<1> DEFINE c == "definition"
           l == lookup[c]
<1>1. /\ steady /\ ResolvesOK /\ FlagsOK
      /\ c \in Controllers /\ c \in open /\ Asked /\ definition \in Definitions
      /\ l \in Lookups /\ lookup \in [Controllers -> Lookups]
  BY AnswerableFacts, ControllersFacts
     DEF SteadyOK, Ended, Cancelled, ReadFailed, AltFormPrompt, LookupFailed, screen,
         Answerable, Asked, TypeOK
<1>2. /\ open' = open /\ chain' = chain /\ l \in Lookups
  BY <1>1, EndedFacts
<1>3. CASE Cancelled(c)
  <2>1. /\ ~definition.back /\ history' = history
        /\ definition' = [definition EXCEPT !.switch = FALSE]
        /\ lookup' = [lookup EXCEPT ![c] = AtRest(l.word, FALSE, "Idle")]
    BY <1>3 DEF Cancelled, Answered, StrandsBack
  <2>2. /\ ~definition'.back /\ ~definition'.switch /\ definition'.current = definition.current
        /\ definition'.shown = definition.shown /\ lookup'[c].state = "Idle"
    BY <1>1, <2>1 DEF Definitions, AtRest, Fresh
  <2>3. ResolvesOK'
    BY <1>1, <1>2, <2>1, <2>2 DEF ResolvesOK, Resolves
  <2>4. QED
    BY <2>2, <2>3 DEF FlagsOK, Asked
<1>4. CASE ReadFailed(c)
  <2>1. /\ ~definition.back /\ history' = history /\ definition' = definition
        /\ lookup' = [lookup EXCEPT ![c] = AtRest(l.word, FALSE, "ReadError")]
    BY <1>4 DEF ReadFailed, Answered, StrandsBack
  <2>2. lookup'[c].state = "ReadError"
    BY <1>1, <2>1 DEF AtRest, Fresh
  <2>3. ResolvesOK'
    BY <1>1, <1>2, <2>1 DEF ResolvesOK, Resolves
  <2>4. QED
    BY <2>1, <2>2, <2>3 DEF FlagsOK, Asked
<1>5. CASE AltFormPrompt(c)
  <2>1. /\ history' = history /\ definition' = definition
        /\ lookup' = [lookup EXCEPT ![c] =
             [AtRest(l.word, l.suggestion, "AltFormPrompt") EXCEPT !.record = l.record]]
    BY <1>5 DEF AltFormPrompt, screen
  <2>2. /\ lookup'[c].state = "AltFormPrompt" /\ lookup'[c].word = l.word
        /\ lookup'[c].record = l.record
    BY <1>1, <2>1 DEF AtRest, Fresh
  <2>3. ResolvesOK'
    BY <1>1, <1>2, <2>1 DEF ResolvesOK, Resolves
  <2>4. QED
    BY <1>1, <1>2, <2>1, <2>2, <2>3 DEF FlagsOK, Asked
<1>6. CASE LookupFailed(c)
  <2>1. /\ ~definition.back /\ history' = history /\ definition' = definition
        /\ \/ ~definition.switch
              /\ lookup' = [lookup EXCEPT ![c] = AtRest(l.word, l.suggestion, "Idle")]
           \/ ~definition.switch
              /\ lookup' = [lookup EXCEPT ![c] = AtRest(l.word, FALSE, "Idle")]
           \/ lookup' = [lookup EXCEPT ![c] = AtRest(l.word, FALSE, "NotFound")]
    BY <1>6 DEF LookupFailed, Answered, StrandsBack, StrandsFlags
  <2>2. \/ ~definition.switch /\ lookup'[c].state = "Idle"
        \/ lookup'[c].state = "NotFound"
    BY <1>1, <2>1 DEF AtRest, Fresh
  <2>3. ResolvesOK'
    BY <1>1, <1>2, <2>1 DEF ResolvesOK, Resolves
  <2>4. QED
    BY <2>1, <2>2, <2>3 DEF FlagsOK, Asked
<1>7. QED
  BY <1>3, <1>4, <1>5, <1>6 DEF Ended

LEMMA AnsweringSteady ==
  ASSUME Inv, SteadyOK, NEW c \in Controllers, Poll(c) \/ AnswerPrompt(c),
         "definition" \in open', steady'
  PROVE  ResolvesOK' /\ FlagsOK'
<1>1. Answering(c)
  BY AnsweringIs
<1>2. CASE c = "definition"
  <2>1. CASE Ended(c)
    BY <1>1, <1>2, <2>1, EndedSteady DEF Answering
  <2>2. ASSUME NEW h \in Words, Found(c, h) PROVE ResolvesOK' /\ FlagsOK'
    BY <1>1, <1>2, <2>2, FoundInDefinitionSteady, ControllersFacts DEF Answering, Found
  <2>3. QED
    BY <1>1, <2>1, <2>2 DEF Answering
<1>3. CASE c = "select"
  <2>1. "definition" \notin open
    BY <1>1, <1>3, AnswerableFacts DEF Answering
  <2>2. ~Ended(c)
    BY <1>1, <2>1, EndedFacts DEF Answering
  <2>3. PICK h \in Words : FoundInSelect(h)
    BY <1>1, <1>3, <2>2 DEF Answering, Found
  <2>4. QED
    BY <1>1, <1>3, <2>3, FoundInSelectSteady DEF Answering
<1>4. QED
  BY <1>2, <1>3 DEF Controllers

LEMMA StartSteady ==
  ASSUME Inv, SteadyOK, NEW c \in Controllers,
         \/ \E w \in Words : LookUp(c, w) \/ Suggest(c, w)
         \/ \E d \in Dictionaries : PickDictionary(c, d),
         "definition" \in open', steady'
  PROVE  ResolvesOK' /\ FlagsOK'
<1> USE DEF Inv
<1>1. /\ open' = open /\ c = Top /\ UNCHANGED <<leaving, history, chain>>
      /\ ~leaving /\ lookup[c].state = "Idle" /\ child' = "none"
      /\ steady
  BY DEF LookUp, Suggest, PickDictionary, Attends, main, screen, ScreensOK
<1>2. /\ c = "definition" /\ "definition" \in open /\ "definition" \in Controllers
      /\ ResolvesOK /\ FlagsOK /\ ~definition.back /\ definition \in Definitions
  BY <1>1, TopFacts, ControllersFacts DEF SteadyOK, FlagsOK, Asked, TypeOK
<1>3. ASSUME NEW w \in Words, LookUp(c, w) \/ Suggest(c, w)
      PROVE  ResolvesOK' /\ FlagsOK'
  <2>1. /\ definition' = definition
        /\ \E suggestion : Start("definition", w, TRUE, suggestion)
    BY <1>2, <1>3 DEF LookUp, Suggest, screen
  <2>2. ~definition.switch
    BY <1>1, <1>2, <1>3 DEF FlagsOK, Asked, LookUp, Suggest, Attends
  <2>3. \/ lookup'["definition"].state = "Idle"
        \/ lookup'["definition"].record = TRUE
    BY <1>2, <2>1 DEF Start, IsFree, Fresh, AtRest, TypeOK
  <2>4. ResolvesOK'
    BY <1>1, <1>2, <2>1 DEF ResolvesOK, Resolves
  <2>5. QED
    BY <1>2, <2>1, <2>2, <2>3, <2>4 DEF FlagsOK, Asked
<1>4. ASSUME NEW d \in Dictionaries, PickDictionary(c, d)
      PROVE  ResolvesOK' /\ FlagsOK'
  <2>1. /\ definition' = [definition EXCEPT !.switch = TRUE]
        /\ owner = NoOwner
        /\ Start("definition", definition.headword, FALSE, lookup["definition"].suggestion)
    BY <1>2, <1>4 DEF PickDictionary, Upset, IsFree
  <2>2. /\ lookup'["definition"].state = "LookingUp"
        /\ lookup'["definition"].record = FALSE
    BY <1>2, <2>1 DEF Start, IsFree, Fresh, TypeOK
  <2>3. /\ ~definition'.back /\ definition'.switch
        /\ definition'.current = definition.current /\ definition'.shown = definition.shown
    BY <1>2, <2>1 DEF Definitions
  <2>4. ResolvesOK'
    BY <1>1, <1>2, <2>3 DEF ResolvesOK, Resolves
  <2>5. QED
    BY <2>2, <2>3, <2>4 DEF FlagsOK, Asked
<1>5. QED
  BY <1>3, <1>4

LEMMA BackSteady ==
  ASSUME Inv, SteadyOK, Back, steady'
  PROVE  ResolvesOK' /\ FlagsOK'
<1> USE DEF Inv
<1> DEFINE c == "definition"
           e == chain[Len(chain)]
<1>1. /\ c \in open /\ c \in Controllers /\ child = "none" /\ ~leaving
      /\ lookup[c].state = "Idle" /\ history' = history
      /\ chain # <<>> /\ chain' = SubSeq(chain, 1, Len(chain) - 1)
      /\ steady /\ owner = NoOwner
      /\ ResolvesOK /\ FlagsOK /\ definition \in Definitions
  BY ControllersFacts DEF Back, Attends, Upset, IsFree, SteadyOK, TypeOK
<1>2. ~definition.back /\ ~definition.switch
  BY <1>1 DEF FlagsOK, Asked
<1>3. /\ chain \in Seq(Entries) /\ Len(chain) \in Nat \ {0} /\ e \in Entries
  <2>1. chain \in Seq(Entries)
    BY DEF TypeOK
  <2>2. Len(chain) \in Nat \ {0}
    BY <1>1, <2>1, EmptySeq
  <2>3. QED
    BY <2>1, <2>2
<1>4. Resolves(chain, history)'
  <2> DEFINE n == Len(chain) - 1
  <2>1. n \in Nat /\ n <= Len(chain) /\ chain' = SubSeq(chain, 1, n)
    BY <1>1, <1>3
  <2> HIDE DEF n
  <2>2. Len(chain') = n /\ \A i \in 1..n : chain'[i] = chain[i]
    BY <1>3, <2>1
  <2>3. \A i \in 1..n : i \in 1..Len(chain)
    BY <1>3, <2>1
  <2>4. QED
    BY <1>1, <2>2, <2>3 DEF ResolvesOK, Resolves
<1>5. e.histIndex < Len(history) /\ e.histIndex \in Nat
  <2>1. e.histIndex \in Nat
    BY <1>3 DEF Entries
  <2>2. Len(chain) \in 1..Len(chain)
    BY <1>3
  <2>3. QED
    BY <1>1, <2>1, <2>2 DEF ResolvesOK, Resolves
<1>6. /\ definition' = [definition EXCEPT !.pending = e.histIndex,
                                 !.current = e.histIndex, !.back = TRUE]
      /\ Start(c, history[e.histIndex + 1], FALSE, lookup[c].suggestion)
  BY <1>5 DEF Back
<1> HIDE DEF e
<1>7. /\ definition'.back /\ ~definition'.switch
      /\ definition'.current = e.histIndex /\ definition'.pending = e.histIndex
  BY <1>1, <1>2, <1>6 DEF Definitions
<1>8. /\ lookup'[c].state = "LookingUp" /\ lookup'[c].record = FALSE
      /\ lookup'[c].word = history[e.histIndex + 1]
  BY <1>1, <1>6 DEF Start, IsFree, Fresh, TypeOK
<1>9. ResolvesOK'
  BY <1>4, <1>5, <1>7 DEF ResolvesOK
<1>10. FlagsOK'
  BY <1>1, <1>5, <1>7, <1>8 DEF FlagsOK, Asked
<1>11. QED
  BY <1>9, <1>10

LEMMA FieldsSteady ==
  ASSUME Inv, SteadyOK, NEW c \in Controllers,
         \/ RequestCancel(c) \/ Dismiss(c) \/ NoSuggestion(c) \/ OpenPicker(c)
         \/ ClosePicker(c) \/ Leave(c),
         "definition" \in open', steady'
  PROVE  ResolvesOK' /\ FlagsOK'
<1> USE DEF Inv
<1>1. /\ open' = open /\ c = Top /\ UNCHANGED <<history, chain>> /\ steady
  BY DEF RequestCancel, Dismiss, NoSuggestion, OpenPicker, ClosePicker, Leave, Attends, main, screen
<1>2. /\ c = "definition" /\ "definition" \in open /\ lookup[c] \in Lookups
      /\ lookup \in [Controllers -> Lookups]
      /\ ResolvesOK /\ FlagsOK /\ definition \in Definitions
  BY <1>1, TopFacts, ControllersFacts DEF SteadyOK, TypeOK
<1>3. /\ definition' = definition \/ definition' = [definition EXCEPT !.switch = FALSE]
      /\ definition'.back = definition.back
      /\ definition'.current = definition.current /\ definition'.shown = definition.shown
  BY <1>2 DEF RequestCancel, Dismiss, NoSuggestion, OpenPicker, ClosePicker, Leave, main, screen,
     Definitions
<1>4. ResolvesOK'
  BY <1>1, <1>2, <1>3 DEF ResolvesOK, Resolves
<1>5. CASE RequestCancel(c) \/ Leave(c)
  <2>1. /\ lookup' = [lookup EXCEPT ![c].cancelRequested = TRUE]
        /\ definition' = definition
        /\ (child' = child /\ leaving' = leaving) \/ leaving'
    BY <1>5 DEF RequestCancel, Leave, main, screen
  <2>2. /\ lookup'[c].state = lookup[c].state /\ lookup'[c].word = lookup[c].word
        /\ lookup'[c].record = lookup[c].record
    BY <1>2, <2>1 DEF Lookups
  <2>3. FlagsOK'
    BY <1>1, <1>2, <2>1, <2>2 DEF FlagsOK, Asked
  <2>4. QED
    BY <1>4, <2>3
<1>6. CASE Dismiss(c) \/ NoSuggestion(c) \/ OpenPicker(c) \/ ClosePicker(c)
  <2>1. lookup[c].state \in {"NotFound", "ReadError", "Idle"}
    BY <1>6 DEF Dismiss, NoSuggestion, OpenPicker, ClosePicker, ScreensOK
  <2>2. ~definition.back
    BY <1>2, <2>1 DEF FlagsOK, Asked
  <2>3. lookup'[c].state \in {"NotFound", "Idle"}
    BY <1>2, <1>6 DEF Dismiss, NoSuggestion, OpenPicker, ClosePicker, ScreensOK, Lookups
  <2>4. definition'.switch => child' = "picker" \/ lookup'[c].state = "NotFound"
    <3>1. CASE Dismiss(c)
      BY <1>2, <3>1 DEF Dismiss, Definitions
    <3>2. CASE NoSuggestion(c)
      BY <1>2, <3>2 DEF NoSuggestion, Lookups
    <3>3. CASE OpenPicker(c)
      BY <1>1, <1>2, <3>3 DEF OpenPicker, StrandsFlags
    <3>4. CASE ClosePicker(c)
      BY <1>1, <1>2, <3>4 DEF ClosePicker, StrandsFlags
    <3>5. QED
      BY <1>6, <3>1, <3>2, <3>3, <3>4
  <2>5. FlagsOK'
    BY <1>2, <1>3, <2>2, <2>3, <2>4 DEF FlagsOK, Asked
  <2>6. QED
    BY <1>4, <2>5
<1>7. QED
  BY <1>5, <1>6

LEMMA WorkerSteady ==
  ASSUME Inv, SteadyOK, Worker, steady'
  PROVE  ResolvesOK' /\ FlagsOK'
<1> USE DEF Inv
<1>1. UNCHANGED <<open, child, leaving, dictionary, history, chain, definition, steady>>
  BY DEF Worker, Take, Prepare, Locate, Judge, Finish, Release, main, screen
<1>2. \A c \in Controllers : /\ lookup'[c].state = lookup[c].state
                             /\ lookup'[c].word = lookup[c].word
                             /\ lookup'[c].record = lookup[c].record
  <2>1. CASE Take \/ Release
    BY <2>1 DEF Take, Release
  <2>2. CASE Prepare \/ Locate \/ Judge \/ Finish
    <3>1. owner \in Controllers /\ lookup[owner] \in Lookups
          /\ lookup \in [Controllers -> Lookups]
      BY <2>2 DEF Prepare, Locate, Judge, Finish, OwnerOK, OwnerLives, TypeOK
    <3>2. \E r, d, x :
            \/ lookup' = [lookup EXCEPT ![owner].found = x, ![owner].readError = r]
            \/ lookup' = [lookup EXCEPT ![owner].cancelled = x]
            \/ lookup' = [lookup EXCEPT ![owner].done = d]
            \/ lookup' = lookup
      BY <2>2 DEF Prepare, Locate, Judge, Finish
    <3>3. QED
      BY <3>1, <3>2 DEF Lookups
  <2>3. QED
    BY <2>1, <2>2 DEF Worker
<1>3. steady /\ ResolvesOK /\ FlagsOK
  BY <1>1 DEF SteadyOK
<1>4. QED
  BY <1>1, <1>2, <1>3, ControllersFacts DEF ResolvesOK, Resolves, FlagsOK, Asked

LEMMA NextSteady == Inv /\ SteadyOK /\ [Next]_vars => SteadyOK'
<1> SUFFICES ASSUME Inv, SteadyOK, [Next]_vars, steady'
             PROVE  ResolvesOK' /\ FlagsOK'
  BY DEF SteadyOK
<1>1. CASE "definition" \notin open'
  <2>1. Inv'
    BY NextInv
  <2>2. chain' = <<>> /\ definition' = NoDefinition
    BY <1>1, <2>1 DEF Inv, ScreensOK
  <2>3. ResolvesOK'
    BY <2>2 DEF ResolvesOK, Resolves, NoDefinition
  <2>4. FlagsOK'
    BY <1>1, <2>2 DEF FlagsOK, NoDefinition
  <2>5. QED
    BY <2>3, <2>4
<1>2. CASE "definition" \in open'
  <2>1. CASE UNCHANGED vars
    BY <2>1 DEF vars, main, screen, SteadyOK, ResolvesOK, Resolves, FlagsOK, Asked
  <2>2. CASE Worker
    BY <2>2, WorkerSteady
  <2>3. ASSUME NEW c \in Controllers, Poll(c) \/ AnswerPrompt(c)
        PROVE  ResolvesOK' /\ FlagsOK'
    BY <1>2, <2>3, AnsweringSteady
  <2>4. ASSUME NEW c \in Controllers,
               \/ \E w \in Words : LookUp(c, w) \/ Suggest(c, w)
               \/ \E d \in Dictionaries : PickDictionary(c, d)
        PROVE  ResolvesOK' /\ FlagsOK'
    BY <1>2, <2>4, StartSteady
  <2>5. ASSUME NEW c \in Controllers,
               \/ RequestCancel(c) \/ Dismiss(c) \/ NoSuggestion(c) \/ OpenPicker(c)
               \/ ClosePicker(c) \/ Leave(c)
        PROVE  ResolvesOK' /\ FlagsOK'
    BY <1>2, <2>5, FieldsSteady
  <2>6. CASE Back
    BY <2>6, BackSteady
  <2>7. ~OpenSelect /\ ~Left
    BY <1>2, ControllersFacts DEF OpenSelect, Left, Top
  <2>8. QED
    BY <2>1, <2>2, <2>3, <2>4, <2>5, <2>6, <2>7 DEF Next, User, Answers
<1>3. QED
  BY <1>1, <1>2

LEMMA SpecSteady == Spec => []SteadyOK
<1>1. Init => SteadyOK
  BY InitInv, ClosedSteady DEF Inv, Init
<1>2. QED
  BY <1>1, NextSteady, SpecInv, PTL DEF Spec

-----------------------------------------------------------------------------
(***************************************************************************)
(* Every variable keeps its type, and every index of the chain lies within *)
(* the visible history, whatever is looked up and gone back to.            *)
(***************************************************************************)
THEOREM TypeCorrect == Spec => []TypeOK
<1>1. Inv => TypeOK
  BY DEF Inv
<1>2. QED
  BY <1>1, SpecInv, PTL

(***************************************************************************)
(* The worker only writes into the controller of an open screen.           *)
(***************************************************************************)
THEOREM WorkerWritesToTheLiving == Spec => []OwnerLives
<1>1. Inv => OwnerLives
  BY DEF Inv, OwnerOK
<1>2. QED
  BY <1>1, SpecInv, PTL

(***************************************************************************)
(* What the main loop reads behind lookupDone is the whole answer to the   *)
(* word last asked for, unless it says that it was cancelled or failed.    *)
(***************************************************************************)
THEOREM AnswersAreWhole == Spec => []AnswerIsOfTheWord
<1>1. AnswersOK => AnswerIsOfTheWord
  BY DEF AnswersOK
<1>2. QED
  BY <1>1, SpecAnswers, PTL

(***************************************************************************)
(* As long as the chain is steady, every entry of it resolves to the word  *)
(* that was left there, for any length of the visible history.             *)
(***************************************************************************)
THEOREM BackLeadsToTheWordLeft == Spec => []BackFindsTheWordLeft
<1>1. Inv /\ SteadyOK => BackFindsTheWordLeft
  <2> SUFFICES ASSUME Inv, ResolvesOK PROVE IndicesResolve
    BY DEF SteadyOK, BackFindsTheWordLeft
  <2>1. DOMAIN chain = 1..Len(chain)
    BY DEF Inv, TypeOK
  <2>2. QED
    BY <2>1 DEF ResolvesOK, Resolves, IndicesResolve
<1>2. QED
  BY <1>1, SpecInv, SpecSteady, PTL
=============================================================================
