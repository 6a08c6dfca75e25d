\* Every encoder, over the numbers at which MsgSeqNum gains a digit.
CONSTANTS
  FirstSeq      = 9
  MaxSeq        = 11
  CompIDs       <- MCCompIDs
  Times         <- MCTimes
  Strings       <- MCStrings
  Ints          <- MCInts
  SymbolLists   <- MCSymbolLists
SPECIFICATION Spec
INVARIANTS EncodeTypeOK ReadsBack TrailerOK
CHECK_DEADLOCK FALSE
