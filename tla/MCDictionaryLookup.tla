------------------------- MODULE MCDictionaryLookup -------------------------
(***************************************************************************)
(* DictionaryLookup for TLC: a word that both dictionaries know, and one   *)
(* that only the second knows, as a form of the first.                     *)
(***************************************************************************)
EXTENDS DictionaryLookup

CONSTANTS a, b

TwoWords == {a, b}
Small    == {a}
Both     == {Small, TwoWords}
FormOfA  == [w \in TwoWords |-> a]

=============================================================================
