-------------------------- MODULE MCMessageEncode --------------------------
(***************************************************************************)
(* Field values for MessageEncode: the header fields as long as those main *)
(* sets, and strings that leave an array empty or fill it.                 *)
(***************************************************************************)
EXTENDS MessageEncode

MCBytes(n) == [i \in 1..n |-> 65 + (i % 26)]

MCCompIDs ==
  (SenderCompID :> MCBytes(8)) @@ (SenderSubID :> MCBytes(8))
    @@ (TargetCompID :> MCBytes(5)) @@ (TargetSubID :> MCBytes(2))

MCTimes == {[buf |-> MCBytes(17), milli |-> 7], [buf |-> MCBytes(17), milli |-> 999]}

\* Of the lengths of the arrays, less the zero: 1 for ref_msg_type, 4 for
\* security_exchange, 15 for test_request_id, 27 for symbol, 59 for text.
MCStrings == {MCBytes(n) : n \in {0, 1, 4, 15, 27, 59}}

\* The largest does not fit a short.
MCInts == {-1, 0, 40000}

\* Up to two symbols.
MCSymbolLists == UNION {[1..n -> MCStrings] : n \in 0..2}

-----------------------------------------------------------------------------
(* The longest values there are: every array full, every number at its most *)
(* digits.                                                                  *)

LongCompIDs ==
  [tag \in {SenderCompID, SenderSubID, TargetCompID, TargetSubID} |-> MCBytes(15)]

LongTimes == {[buf |-> MCBytes(17), milli |-> 999]}

\* The arrays less the zero: those of MCStrings, 19 for the request ids, 30 and 39
\* for the user name and the password.
LongStrings == {MCBytes(n) : n \in {1, 4, 15, 19, 27, 30, 39, 59}}

\* The longest int, short, and int that becomes the longest short.
LongInts == {-2147483647, -(2^15), 2^15}

\* 24 symbols are as many as sending_data_ has room for if all are of 27 bytes.
LongSymbolLists == {[i \in 1..24 |-> MCBytes(n)] : n \in 27..28}
=============================================================================
