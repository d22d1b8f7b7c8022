\* Fragments of three, three and two bytes, chunks of two code units.
CONSTANTS
  Capacity = 8
  MaxFragmentSize = 3
  MaxChunkSize = 2
  BMP = {"a", "e"}
  Width <- Widths
  HIGH = "H"
  LOW = "L"
  PAIR = "pair"
  Narrow <- NarrowTexts
  Wide <- WideTexts
  BAD = BAD
  NULL = NULL
SPECIFICATION FairSpec
INVARIANTS
  FragmentsPacked
PROPERTIES
  ImplementsBoundedText
  WritesReturn
