CONSTANTS
  a = a
  b = b
  NoWord = NoWord
  NoOwner = NoOwner
  Words <- TwoWords
  Headword <- FormOfA
  Dictionaries <- Both
  Default <- Small
  MaxVisible = 3
  CardFails = FALSE
SPECIFICATION Spec
INVARIANTS IndicesStayValid
