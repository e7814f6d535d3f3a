-------------------------- MODULE DictionaryLookup --------------------------
(***************************************************************************)
(* Looking words up in a dictionary (src/util/DictionaryLookupController,  *)
(* DictionaryLookupWorker, LookupChain, LookupHistory and the activities   *)
(* that show definitions).                                                 *)
(*                                                                         *)
(* Two screens have a controller: the one a word is selected on            *)
(* (DictionaryWordSelectActivity or LookedUpWordsActivity) and, above it,  *)
(* the definition, in which further words can be looked up.  The           *)
(* controllers share one worker task.  The main loop asks and polls; the   *)
(* worker writes its answer into the controller field by field.  Whether a *)
(* word has alternative forms or similar words, and whether memory         *)
(* suffices, is left open.  Pages, layout and drawing are left out.        *)
(***************************************************************************)
EXTENDS Integers, Sequences

CONSTANTS
  Words,          \* what can be looked up
  NoWord,         \* no headword: nothing was found
  Headword,       \* [Words -> Words]: the headword of a word's entry
  Dictionaries,   \* the dictionaries on the card: sets of the words they know
  Default,        \* the one configured for the book
  NoOwner,        \* owner_ == nullptr
  MaxVisible,     \* LookupHistory::MAX_VISIBLE_ENTRIES
  CardFails       \* whether the card may refuse an entry of the history

ASSUME DictionaryAssumption ==
  /\ NoWord \notin Words
  /\ Headword \in [Words -> Words]
  /\ Dictionaries \subseteq SUBSET Words /\ Default \in Dictionaries
  /\ MaxVisible \in Nat \ {0} /\ CardFails \in BOOLEAN
  /\ NoOwner \notin {"select", "definition"}

Controllers == {"select", "definition"}

VARIABLES
  open,        \* the controllers of the open screens, "definition" on top
  child,       \* the screen without a controller above them
  leaving,     \* the top screen is in onExit, waiting for the worker
  lookup,      \* the fields of each controller
  owner,       \* owner_ of the worker
  notified,    \* the worker's task notification
  worker,      \* where the worker is in run() and runLookup()
  dictionary,  \* the dictionary in use
  history,     \* the visible words of dictionary_history.txt, newest first
  chain,       \* LookupChain::entries_, oldest first, each with its word
  definition,  \* the other fields of the definition screen
  steady       \* history variable: nothing has upset this definition's chain

main == <<open, child, leaving, dictionary>>
screen == <<history, chain, definition, steady>>
task == <<owner, notified, worker>>
vars == <<main, screen, task, lookup>>

-----------------------------------------------------------------------------

Fresh(w, record, suggestion) ==
  [state |-> "LookingUp", word |-> w, record |-> record,
   suggestion |-> suggestion, done |-> FALSE, cancelRequested |-> FALSE,
   cancelled |-> FALSE, readError |-> FALSE, found |-> NoWord]

\* A controller at rest.  What the next startLookup sets anew before anyone
\* reads it is forgotten.
AtRest(w, suggestion, state) ==
  [Fresh(w, FALSE, suggestion) EXCEPT !.state = state]

Blank == AtRest(NoWord, FALSE, "Idle")

NoDefinition ==
  [headword |-> NoWord, shown |-> NoWord, current |-> -1, pending |-> 0,
   back |-> FALSE, switch |-> FALSE]

Init ==
  /\ open = {} /\ child = "none" /\ leaving = FALSE
  /\ lookup = [c \in Controllers |-> Blank]
  /\ owner = NoOwner /\ notified = FALSE /\ worker = "waiting"
  /\ dictionary = Default
  /\ history = <<>> /\ chain = <<>> /\ definition = NoDefinition
  /\ steady = TRUE

\* What the dictionary in use answers, stem variants included.
Answer(w) == IF w \in dictionary THEN Headword[w] ELSE NoWord

Top == IF "definition" \in open THEN "definition" ELSE "select"

\* The screen of c runs its loop().
Attends(c) == c \in open /\ c = Top /\ child = "none" /\ ~leaving

\* After the question of c has been answered: nextIsSuggestion is reset.
Answered(c, state) == [lookup EXCEPT ![c] = AtRest(@.word, FALSE, state)]

\* Ends of a lookup that leave a flag of the definition set: the next word it
\* finds is taken for the one gone back to, or for a change of dictionary.
StrandsBack(c) == c = "definition" /\ definition.back
StrandsFlags(c) == c = "definition" /\ (definition.back \/ definition.switch)

-----------------------------------------------------------------------------
\* The worker.

\* DictionaryLookupWorker::start
IsFree == owner = NoOwner

Start(c, w, record, suggestion) ==
  LET asked == Fresh(w, record, suggestion) IN
  IF IsFree
  THEN /\ lookup' = [lookup EXCEPT ![c] = asked]
       /\ owner' = c /\ notified' = TRUE /\ worker' = worker
  ELSE /\ lookup' = [lookup EXCEPT ![c] = AtRest(w, suggestion, "Idle")]
       /\ UNCHANGED task

Take ==
  /\ worker = "waiting" /\ notified
  /\ notified' = FALSE
  /\ worker' = IF owner = NoOwner THEN "waiting" ELSE "preparing"
  /\ UNCHANGED <<main, screen, owner, lookup>>

\* Mutants: a cancellation before the search forgets to say so, or to say that
\* the lookup is over.
PrepareUncancelled ==
  /\ worker = "preparing"
  /\ worker' = IF lookup[owner].cancelRequested THEN "finishing" ELSE "locating"
  /\ UNCHANGED <<main, screen, owner, notified, lookup>>

PrepareUnfinished ==
  /\ worker = "preparing"
  /\ worker' = IF lookup[owner].cancelRequested THEN "releasing" ELSE "locating"
  /\ UNCHANGED <<main, screen, owner, notified, lookup>>

\* prepareQuickIndex, and the first look at the cancellation.
Prepare ==
  /\ worker = "preparing"
  /\ IF lookup[owner].cancelRequested
     THEN /\ lookup' = [lookup EXCEPT ![owner].cancelled = TRUE]
          /\ worker' = "finishing"
     ELSE worker' = "locating" /\ UNCHANGED lookup
  /\ UNCHANGED <<main, screen, owner, notified>>

\* locateWithStemVariants, which a cancellation cuts short.
Locate ==
  /\ worker = "locating"
  /\ LET l == lookup[owner] IN
     \E result \in
          {[found |-> Answer(l.word), readError |-> FALSE],
           [found |-> NoWord, readError |-> TRUE]}
          \union (IF l.cancelRequested
                  THEN {[found |-> NoWord, readError |-> FALSE]} ELSE {}):
       lookup' = [lookup EXCEPT ![owner].found = result.found,
                                ![owner].readError = result.readError]
  /\ worker' = "judging"
  /\ UNCHANGED <<main, screen, owner, notified>>

Judge ==
  /\ worker = "judging"
  /\ lookup' = [lookup EXCEPT ![owner].cancelled = lookup[owner].cancelRequested]
  /\ worker' = "finishing"
  /\ UNCHANGED <<main, screen, owner, notified>>

Finish ==
  /\ worker = "finishing"
  /\ lookup' = [lookup EXCEPT ![owner].done = TRUE]
  /\ worker' = "releasing"
  /\ UNCHANGED <<main, screen, owner, notified>>

Release ==
  /\ worker = "releasing"
  /\ owner' = NoOwner /\ worker' = "waiting"
  /\ UNCHANGED <<main, screen, notified, lookup>>

Worker == Take \/ Prepare \/ Locate \/ Judge \/ Finish \/ Release

-----------------------------------------------------------------------------
\* The lookup history and the way back through it.

Logged(w) == SubSeq(<<w>> \o history, 1,
                    IF Len(history) < MaxVisible THEN Len(history) + 1
                                                 ELSE MaxVisible)

\* addWordIf: nobody looks at whether the card took the word.
Log(w, record) ==
  \/ record /\ history' = Logged(w)
  \/ (record => CardFails) /\ history' = history

Lost(record) == record /\ history' = history

\* The entries from the first that the visible history still reaches.
Reachable(entries) ==
  LET first == CHOOSE k \in 1..Len(entries) + 1:
                 /\ \A j \in 1..k - 1: entries[j].histIndex >= MaxVisible
                 /\ k <= Len(entries) => entries[k].histIndex < MaxVisible
  IN SubSeq(entries, first, Len(entries))

\* Mutant: the entries are not moved when a word is recorded.
ShiftNever(appended) == 0

Shift(appended) == IF appended THEN 1 ELSE 0

\* LookupChain::onForward
OnForward(appended) ==
  LET by == Shift(appended)
      shifted == [i \in DOMAIN chain |->
                    [chain[i] EXCEPT !.histIndex = @ + by]]
      left == [histIndex |-> definition.current + by,
               word |-> definition.shown]
  IN IF definition.current >= 0 THEN Reachable(Append(shifted, left)) ELSE chain

-----------------------------------------------------------------------------
\* What a screen does when its controller has found the word.

\* The word-select screen opens the definition, unless memory is short.
FoundInSelect(h) ==
  LET l == lookup["select"] IN
  \/ /\ lookup' = Answered("select", "Idle")
     /\ UNCHANGED <<open, screen>>
  \/ /\ open' = Controllers
     /\ lookup' = [Answered("select", "Idle") EXCEPT !["definition"] = Blank]
     /\ Log(l.word, l.record)
     /\ chain' = <<>>
     /\ definition' = [NoDefinition EXCEPT
          !.headword = h, !.shown = l.word,
          !.current = IF l.record THEN 0 ELSE -1]
     /\ steady' = ~Lost(l.record)

\* The definition screen shows the new word in place of the old one.
FoundInDefinition(h) ==
  LET l       == lookup["definition"]
      d       == definition
      willLog == ~d.back /\ l.record
  IN /\ lookup' = Answered("definition", "Idle")
     /\ Log(l.word, willLog)
     /\ chain' = IF d.back \/ d.switch THEN chain ELSE OnForward(willLog)
     /\ definition' = [d EXCEPT
          !.headword = h, !.back = FALSE, !.switch = FALSE, !.pending = 0,
          !.shown = IF d.switch /\ ~d.back THEN @ ELSE l.word,
          !.current = IF d.back THEN d.pending
                      ELSE IF d.switch THEN @
                      ELSE IF willLog THEN 0 ELSE -1]
     /\ steady' = (steady /\ ~Lost(willLog))
     /\ UNCHANGED open

Found(c, h) ==
  /\ IF c = "select" THEN FoundInSelect(h) ELSE FoundInDefinition(h)
  /\ UNCHANGED child

-----------------------------------------------------------------------------
\* handleInput and the screens' answers to its events.

Cancelled(c) ==
  /\ lookup' = Answered(c, "Idle")
  /\ definition' = IF c = "definition"
                   THEN [definition EXCEPT !.switch = FALSE] ELSE definition
  /\ steady' = (steady /\ ~StrandsBack(c))
  /\ UNCHANGED <<open, child, history, chain>>

ReadFailed(c) ==
  /\ lookup' = Answered(c, "ReadError")
  /\ steady' = (steady /\ ~StrandsBack(c))
  /\ UNCHANGED <<open, child, history, chain, definition>>

\* handleLookupFailed: similar words are offered, or memory is too short for
\* that, or there are none and the failure is recorded.
LookupFailed(c) ==
  \/ /\ child' = "suggestions"
     /\ lookup' = [lookup EXCEPT ![c] = AtRest(@.word, @.suggestion, "Idle")]
     /\ steady' = (steady /\ ~StrandsFlags(c))
     /\ UNCHANGED <<open, history, chain, definition>>
  \/ /\ lookup' = Answered(c, "Idle")
     /\ steady' = (steady /\ ~StrandsFlags(c))
     /\ UNCHANGED <<open, child, history, chain, definition>>
  \/ /\ lookup' = Answered(c, "NotFound")
     /\ Log(lookup[c].word, lookup[c].record)
     /\ steady' = (/\ steady /\ ~StrandsBack(c)
                   /\ ~(c = "definition" /\ history' # history))
     /\ UNCHANGED <<open, child, chain, definition>>

AltFormPrompt(c) ==
  /\ lookup' = [lookup EXCEPT ![c] =
                  [AtRest(@.word, @.suggestion, "AltFormPrompt")
                     EXCEPT !.record = lookup[c].record]]
  /\ UNCHANGED <<open, child, screen>>

\* The main loop sees lookupDone.
Poll(c) ==
  LET l == lookup[c] IN
  /\ Attends(c) /\ l.state = "LookingUp" /\ l.done
  /\ \/ l.cancelled /\ Cancelled(c)
     \/ ~l.cancelled /\ l.found # NoWord /\ Found(c, l.found)
     \/ ~l.cancelled /\ l.found = NoWord /\ l.readError /\ ReadFailed(c)
     \/ /\ ~l.cancelled /\ l.found = NoWord /\ ~l.readError
        /\ AltFormPrompt(c) \/ LookupFailed(c)
  /\ UNCHANGED <<leaving, dictionary, task>>

\* Back while the worker is still at it.
RequestCancel(c) ==
  /\ Attends(c) /\ lookup[c].state = "LookingUp"
  /\ ~lookup[c].done /\ ~lookup[c].cancelRequested
  /\ lookup' = [lookup EXCEPT ![c].cancelRequested = TRUE]
  /\ UNCHANGED <<main, screen, task>>

\* The question whether to search alternative forms is answered.
AnswerPrompt(c) ==
  /\ Attends(c) /\ lookup[c].state = "AltFormPrompt"
  /\ \/ Found(c, Headword[lookup[c].word])
     \/ LookupFailed(c)
     \/ Cancelled(c)
  /\ UNCHANGED <<leaving, dictionary, task>>

\* The message that nothing was found, or could be read, is dismissed.
Dismiss(c) ==
  /\ Attends(c) /\ lookup[c].state \in {"NotFound", "ReadError"}
  /\ lookup' = [lookup EXCEPT ![c].state = "Idle"]
  /\ definition' = IF c = "definition"
                   THEN [definition EXCEPT !.switch = FALSE] ELSE definition
  /\ UNCHANGED <<main, task, history, chain, steady>>

-----------------------------------------------------------------------------
\* Everything that starts a lookup.

\* A lookup that is refused leaves the flags of the definition as they are.
Upset(c, flags) == ~IsFree /\ c = "definition" /\ flags

LookUp(c, w) ==
  /\ Attends(c) /\ lookup[c].state = "Idle"
  /\ Start(c, w, TRUE, lookup[c].suggestion)
  /\ UNCHANGED <<main, screen>>

\* A similar word is chosen; the flags still belong to the word before it.
Suggest(c, w) ==
  /\ child = "suggestions" /\ c = Top /\ ~leaving /\ w \in dictionary
  /\ child' = "none"
  /\ Start(c, w, TRUE, TRUE)
  /\ UNCHANGED <<open, leaving, dictionary, screen>>

NoSuggestion(c) ==
  /\ child = "suggestions" /\ c = Top /\ ~leaving
  /\ child' = "none"
  /\ lookup' = [lookup EXCEPT ![c].state = "NotFound"]
  /\ UNCHANGED <<open, leaving, dictionary, screen, task>>

\* The dictionary picker opens over a failure, or over a definition.
OpenPicker(c) ==
  /\ Attends(c)
  /\ \/ lookup[c].state \in {"NotFound", "ReadError"}
     \/ c = "definition" /\ lookup[c].state = "Idle"
  /\ lookup' = [lookup EXCEPT ![c].state = "Idle"]
  /\ \/ child' = "picker" /\ UNCHANGED steady
     \/ child' = "none" /\ steady' = (steady /\ ~StrandsFlags(c))
  /\ UNCHANGED <<open, leaving, dictionary, history, chain, definition, task>>

PickDictionary(c, d) ==
  /\ child = "picker" /\ c = Top /\ ~leaving
  /\ child' = "none" /\ dictionary' = d
  /\ IF c = "definition"
     THEN /\ Start(c, definition.headword, FALSE, lookup[c].suggestion)
          /\ definition' = [definition EXCEPT !.switch = TRUE]
     ELSE /\ Start(c, lookup[c].word, FALSE, lookup[c].suggestion)
          /\ UNCHANGED definition
  /\ steady' = (steady /\ ~Upset(c, TRUE))
  /\ UNCHANGED <<open, leaving, history, chain>>

ClosePicker(c) ==
  /\ child = "picker" /\ c = Top /\ ~leaving
  /\ child' = "none"
  /\ steady' = (steady /\ ~StrandsFlags(c))
  /\ UNCHANGED <<open, leaving, dictionary, history, chain, definition, task,
                 lookup>>

\* Back in the definition: to the word it was opened from, looked up again.
Back ==
  LET c == "definition" IN
  /\ Attends(c) /\ lookup[c].state = "Idle" /\ chain # <<>>
  /\ LET e == chain[Len(chain)] IN
     /\ chain' = SubSeq(chain, 1, Len(chain) - 1)
     /\ IF e.histIndex < Len(history)
        THEN /\ definition' = [definition EXCEPT !.pending = e.histIndex,
                                 !.current = e.histIndex, !.back = TRUE]
             /\ Start(c, history[e.histIndex + 1], FALSE, lookup[c].suggestion)
             /\ UNCHANGED leaving
        ELSE /\ definition' = [definition EXCEPT !.pending = e.histIndex,
                                 !.current = e.histIndex]
             /\ lookup' = [lookup EXCEPT ![c].cancelRequested = TRUE]
             /\ leaving' = TRUE
             /\ UNCHANGED task
  /\ steady' = (steady /\ ~Upset(c, TRUE))
  /\ UNCHANGED <<open, child, dictionary, history>>

-----------------------------------------------------------------------------
\* Screens open and close.

OpenSelect ==
  /\ open = {}
  /\ open' = {"select"}
  /\ lookup' = [lookup EXCEPT !["select"] = Blank]
  /\ UNCHANGED <<child, leaving, dictionary, screen, task>>

\* onExit: at any time, by a long press or a gesture that goes home.
Leave(c) ==
  /\ c \in open /\ c = Top /\ ~leaving
  /\ leaving' = TRUE /\ child' = "none"
  /\ lookup' = [lookup EXCEPT ![c].cancelRequested = TRUE]
  /\ UNCHANGED <<open, dictionary, screen, task>>

\* Mutant: a screen is destroyed without waiting for the worker.
MayDestroyAtOnce(c) == TRUE

\* DictionaryLookupWorker::waitForOwner lets the caller go on.
MayDestroy(c) == owner # c

Left ==
  /\ leaving /\ MayDestroy(Top)
  /\ leaving' = FALSE /\ open' = open \ {Top}
  /\ lookup' = [lookup EXCEPT ![Top] = Blank]
  /\ dictionary' = Default
  /\ chain' = <<>> /\ definition' = NoDefinition /\ steady' = TRUE
  /\ UNCHANGED <<child, history, task>>

-----------------------------------------------------------------------------

User ==
  \/ OpenSelect \/ Back
  \/ \E c \in Controllers:
       \/ RequestCancel(c) \/ AnswerPrompt(c) \/ Dismiss(c) \/ NoSuggestion(c)
       \/ OpenPicker(c) \/ ClosePicker(c) \/ Leave(c)
       \/ \E w \in Words: LookUp(c, w) \/ Suggest(c, w)
       \/ \E d \in Dictionaries: PickDictionary(c, d)

Answers == \E c \in Controllers: Poll(c)

Next == Worker \/ Answers \/ Left \/ User

Spec == Init /\ [][Next]_vars

\* Both tasks are scheduled (equal priorities, and the main loop delays).
FairSpec == Spec /\ WF_vars(Worker) /\ WF_vars(Answers) /\ WF_vars(Left)

-----------------------------------------------------------------------------

Lookups ==
  [state: {"Idle", "LookingUp", "AltFormPrompt", "NotFound", "ReadError"},
   word: Words \union {NoWord}, record: BOOLEAN, suggestion: BOOLEAN,
   done: BOOLEAN, cancelRequested: BOOLEAN, cancelled: BOOLEAN,
   readError: BOOLEAN, found: Words \union {NoWord}]

Definitions ==
  [headword: Words \union {NoWord}, shown: Words \union {NoWord},
   current: -1..MaxVisible - 1, pending: 0..MaxVisible - 1,
   back: BOOLEAN, switch: BOOLEAN]

Entries == [histIndex: 0..MaxVisible - 1, word: Words \union {NoWord}]

\* Every variable has its type, every index of the chain lies within the
\* visible history window, and the definition is only open above the screen
\* it was opened from.
TypeOK ==
  /\ open \in {{}, {"select"}, Controllers}
  /\ child \in {"none", "suggestions", "picker"}
  /\ leaving \in BOOLEAN
  /\ lookup \in [Controllers -> Lookups]
  /\ owner \in Controllers \union {NoOwner} /\ notified \in BOOLEAN
  /\ worker \in {"waiting", "preparing", "locating", "judging", "finishing",
                 "releasing"}
  /\ dictionary \in Dictionaries
  /\ history \in Seq(Words) /\ Len(history) <= MaxVisible
  /\ chain \in Seq(Entries)
  /\ definition \in Definitions
  /\ steady \in BOOLEAN

\* The worker never holds a controller that has been destroyed, in which it
\* would write its answer: onExit cancels and waits whatever the worker is at,
\* and a controller made anew is never taken for the old one.
OwnerLives ==
  /\ owner # NoOwner => owner \in open
  /\ worker # "waiting" => owner # NoOwner

\* When the main loop sees lookupDone and no cancellation, the answer it reads
\* is the whole one, to the word the screen last asked for: not the rest of an
\* earlier lookup, nor one that was cut short.
AnswerIsOfTheWord ==
  \A c \in open:
    LET l == lookup[c] IN
    l.state = "LookingUp" /\ l.done /\ ~l.cancelled /\ ~l.readError
      => l.found = Answer(l.word)

\* Every entry of the chain resolves to the word that was left there, and the
\* index of the word on the screen to that word, over any forward and backward
\* lookups, abandoned branches, changes of dictionary and words that have
\* dropped out of the visible history.
IndicesResolve ==
  /\ \A i \in DOMAIN chain:
       /\ chain[i].histIndex < Len(history)
       /\ history[chain[i].histIndex + 1] = chain[i].word
  /\ "definition" \in open /\ ~definition.back /\ definition.current >= 0
       => /\ definition.current < Len(history)
          /\ history[definition.current + 1] = definition.shown

\* So it is as long as the definition is steady.  It is not when a word that
\* is not found is recorded all the same, when going back is given up or finds
\* nothing, when a changed dictionary leads to a suggestion, or when the card
\* does not take a word (LookupHistory::addWordIf).
BackFindsTheWordLeft == steady => IndicesResolve

\* The doc's claim (src/util/LookupChain.h:16-17): "Indices are distance-from-
\* the-NEWEST history entry, so they stay valid under front-eviction", and
\* "every remaining index always resolves": in every state the entries of the
\* chain resolve to the words left, as long as the card takes every word.
IndicesStayValid ==
  \A i \in DOMAIN chain:
    chain[i].histIndex < Len(history)
      => history[chain[i].histIndex + 1] = chain[i].word

\* Every lookup ends on its screen, found, failed, cancelled or refused, and
\* every screen that is being left is left: no notification is lost, and the
\* worker lets its owner go.
LookupsEnd ==
  /\ \A c \in Controllers:
       lookup[c].state = "LookingUp" ~> lookup[c].state # "LookingUp"
  /\ leaving ~> ~leaving

=============================================================================
