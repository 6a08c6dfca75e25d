\* Every encoder, over the longest values.
CONSTANTS
  FirstSeq    = 2147483000
  MaxSeq      = 2147483001
  CompIDs     <- LongCompIDs
  Times       <- LongTimes
  Strings     <- LongStrings
  Ints        <- LongInts
  SymbolLists <- LongSymbolLists
SPECIFICATION Spec
INVARIANTS FitsBuffer
CHECK_DEADLOCK FALSE
