----------------------------- MODULE MCFraming -----------------------------
(***************************************************************************)
(* Streams for IncomingFraming: messages framed by the encoder's own       *)
(* EncodeHeaderAndTrailer, with bodies of chosen lengths.                  *)
(***************************************************************************)
EXTENDS IncomingFraming

\* A body of n bytes: the type, the header fields MsgSeqNum and SenderCompID, the
\* latter of id bytes, and a TestReqID, at which the header decoder stops.
MCBody(type, n, id) ==
  AppendFIX(MsgType, type) \o AppendFIX(MsgSeqNum, <<55>>)
    \o AppendFIX(SenderCompID, [i \in 1..id |-> 77])
    \o AppendFIX(112, [i \in 1..n - id - 19 |-> 57])

MCFramed(bodies) ==
  [k \in 1..Len(bodies) |->
     EncodeHeaderAndTrailer(MCBody(bodies[k][1], bodies[k][2], bodies[k][3]))]

\* Two messages as long as each other, one longer, and a last one as long as
\* it; one of a type without a branch in HandleMsg, one with a SenderCompID that
\* fills its array.
MixedBodies ==
  <<<<LOGON, 34, 8>>, <<HEART_BEAT, 34, 8>>, <<SECURITY_DEFINITION, 86, 16>>,
    <<MARKET_DATA_REQUEST, 86, 8>>>>
\* All messages of one length.
EvenBodies == <<<<LOGON, 34, 8>>, <<HEART_BEAT, 34, 8>>, <<LOGOUT, 34, 8>>>>
\* As MixedBodies, but the SenderCompID of the last is a byte too long.
WideBodies == [MixedBodies EXCEPT ![4] = <<MARKET_DATA_REQUEST, 86, 17>>]

MixedMsgs == MCFramed(MixedBodies)
EvenMsgs  == MCFramed(EvenBodies)
WideMsgs  == MCFramed(WideBodies)

StartsOf(msgs) ==
  [k \in 1..Len(msgs) + 1 |-> Len(FlattenSeq(SubSeq(msgs, 1, k - 1)))]

MixedWire   == FlattenSeq(MixedMsgs)
MixedTypes  == [k \in DOMAIN MixedBodies |-> MixedBodies[k][1]]
MixedStart  == StartsOf(MixedMsgs)

EvenWire   == FlattenSeq(EvenMsgs)
EvenTypes  == [k \in DOMAIN EvenBodies |-> EvenBodies[k][1]]
EvenStart  == StartsOf(EvenMsgs)

\* Its messages are as long as MixedWire's, and of the same types.
WideWire   == FlattenSeq(WideMsgs)

\* Where TCP may cut: only between messages, or around the places
\* that matter, the ends of messages and MinFrame bytes into them.
StickCuts == {MixedStart[k] : k \in DOMAIN MixedStart}
NearCuts(start) ==
  {start[k] + d : k \in DOMAIN start, d \in {-1, 0, 1, 30, 49, 50, 55}}
MixedCuts == NearCuts(MixedStart)
EvenCuts  == NearCuts(EvenStart)
=============================================================================
