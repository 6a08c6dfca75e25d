--------------------------- MODULE MessageEncode ---------------------------
(***************************************************************************)
(* MessageEncode: each encoder takes the next number from the DataStore,   *)
(* stamps the shared message_header_ and writes a whole FIX message into   *)
(* sending_data_.  One action per encoder; its argument is any value of    *)
(* the struct it is given, with the fields the encoder reads.              *)
(***************************************************************************)
EXTENDS FixWire

CONSTANTS
  FirstSeq,       \* next_out_msg_seq_ at the start
  MaxSeq,         \* bound on the numbers given out
  CompIDs,        \* [tag |-> value] of the four header fields main sets once
  Times,          \* [buf, milli]: the clock, as strftime writes it and tv_usec
  Strings,        \* what a caller may put into a char array that it fits
  Ints,           \* what a caller may put into an int, or a short that it fits
  SymbolLists     \* lists of symbols a caller may ask for in one MarketDataRequest

-----------------------------------------------------------------------------
(* The message structs.  Strings end with a zero byte in their arrays.     *)

\* INT_MAX
MaxInt == 2147483647

Chars(size) == {s \in Strings : Len(s) < size}
Shorts == {n \in Ints : n \in -(2^15)..2^15 - 1}

HeartBeat     == [test_request_id : Chars(16)]
Logon         == [heart_beat_int : Ints, user_name : Chars(31), password : Chars(40)]
TestRequest   == [test_request_id : Chars(16)]
ResendRequest == [begin_seq_no : Ints, end_seq_no : Ints]
Reject ==
  [ref_seq_no : Ints, ref_tag_id : Ints, ref_msg_type : Chars(2),
   session_reject_reason : Ints, text : Chars(60)]
SequenceReset == [new_seq_no : Ints]
Logout        == [text : Chars(60)]

\* main fills all 4 bytes of security_exchange: the zero behind it is cfi_code's.
Instrument == [symbol : Chars(28), security_exchange : Chars(4 + 1)]

\* Mutant: the array of symbol holds a byte more.
MarketDataRequestWide ==
  [md_req_id : Chars(20), subscription_request_type : {0, 1, ZERO, ZERO + 1},
   market_depth : Shorts,
   instrument_details : {l \in SymbolLists : \A i \in DOMAIN l : Len(l[i]) < 29}]
\* no_related_sym is the length of instrument_details.
MarketDataRequest ==
  [md_req_id : Chars(20), subscription_request_type : {0, 1, ZERO, ZERO + 1},
   market_depth : Shorts,
   instrument_details : {l \in SymbolLists : \A i \in DOMAIN l : Len(l[i]) < 28}]
SecurityDefinitionRequest ==
  [security_req_id : Chars(20), security_request_type : Shorts,
   instrument : Instrument]
BusinessMessageReject ==
  [ref_seq_num : Ints, ref_msg_type : Chars(2), business_reject_reason : Shorts,
   text : Chars(60)]

\* What main's constants and strftime put into a header field.
FieldText == Seq(1..255 \ {SOH, EQUAL})

\* Numbers are ints; strings end before their first zero byte.
ASSUME EncodeAssumption ==
  /\ FirstSeq \in Nat /\ MaxSeq \in FirstSeq..MaxInt
  /\ Ints \subseteq -MaxInt - 1..MaxInt
  /\ Strings \subseteq Seq(1..255) /\ SymbolLists \subseteq Seq(Seq(1..255))
  /\ DOMAIN CompIDs = CompIDTags
  /\ \A tag \in CompIDTags :
       CompIDs[tag] \in FieldText /\ Len(CompIDs[tag]) < HeaderSize[tag]
  /\ \A t \in Times : t.buf \in FieldText /\ Len(t.buf) = 17 /\ t.milli \in 0..999

-----------------------------------------------------------------------------
VARIABLES
  next_out_msg_seq_,
  message_header_,   \* msg_type, msg_seq_num and sending_time
  sending_data_      \* the message encoded last; sending_len_ is its length

encodeVars == <<next_out_msg_seq_, message_header_, sending_data_>>

Init ==
  /\ next_out_msg_seq_ = FirstSeq
  /\ message_header_ = [msg_type |-> <<>>, msg_seq_num |-> 0, sending_time |-> <<>>]
  /\ sending_data_ = <<>>

\* data_store_.GetNextOutMsgSeq
GetNextOutMsgSeq ==
  /\ next_out_msg_seq_ < MaxSeq
  /\ next_out_msg_seq_' = next_out_msg_seq_ + 1

\* appendFIX of a string, a number, a character; and of a string if it is set.
AppendInt(tag, n) ==
  AppendFIX(tag, IF n < 0 THEN <<MINUS>> \o ToString10[-n] ELSE ToString10[n])
AppendChar(tag, c) == AppendFIX(tag, <<c>>)
AppendIfSet(tag, val) == IF val = <<>> THEN <<>> ELSE AppendFIX(tag, val)

\* Mutant: the microseconds, in six digits.
CurrentDateTimeMicros(t) == t.buf \o <<DOT>> \o Digits3(t.milli) \o Digits3(0)
\* 21 bytes: the zero that encodeHeaderCommon writes behind them is there already.
getCurrentDateTime(t) == t.buf \o <<DOT>> \o Digits3(t.milli)

EncodeHeaderCommon(h) ==
  AppendFIX(MsgType, h.msg_type)
    \o AppendInt(MsgSeqNum, h.msg_seq_num)
    \o AppendFIX(SenderCompID, CompIDs[SenderCompID])
    \o AppendFIX(SenderSubID, CompIDs[SenderSubID])
    \o AppendFIX(SendingTime, h.sending_time)
    \o AppendFIX(TargetCompID, CompIDs[TargetCompID])
    \o AppendFIX(TargetSubID, CompIDs[TargetSubID])

\* Every handler of main clears sending_data_ and sending_len_ for its encoder,
\* which appends to them.
Clear ==
  /\ sending_data_ # <<>>
  /\ sending_data_' = <<>>
  /\ UNCHANGED <<next_out_msg_seq_, message_header_>>

\* What all encoders share; body is what each appends itself.
Encode(type, body) ==
  /\ sending_data_ = <<>>
  /\ GetNextOutMsgSeq
  /\ \E t \in Times :
       message_header_' = [msg_type |-> type, msg_seq_num |-> next_out_msg_seq_,
                           sending_time |-> getCurrentDateTime(t)]
  /\ sending_data_' =
       EncodeHeaderAndTrailer(EncodeHeaderCommon(message_header_') \o body)

-----------------------------------------------------------------------------
(* The encoders. *)

EncodeHeartBeat ==
  \E heart_beat \in HeartBeat :
    Encode(HEART_BEAT, AppendIfSet(TestReqID, heart_beat.test_request_id))

\* HeartBtInt is 30 unless it is set, and is cut to a short.
ToShort(n) == (((n % 2^16) + 2^15) % 2^16) - 2^15
EncodeLogon ==
  \E logon \in Logon :
    Encode(LOGON,
      AppendChar(EncryptMethod, ZERO)
        \o AppendInt(HeartBtInt, IF logon.heart_beat_int > 0
                                 THEN ToShort(logon.heart_beat_int) ELSE 30)
        \o AppendChar(ResetSeqNumFlag, LETTER_N)
        \o AppendFIX(Username, logon.user_name)
        \o AppendFIX(Password, logon.password))

EncodeTestRequest ==
  \E test_request \in TestRequest :
    Encode(TEST_REQUEST, AppendFIX(TestReqID, test_request.test_request_id))

EncodeResendRequest ==
  \E r \in ResendRequest :
    Encode(RESEND_REQUEST,
      AppendInt(BeginSeqNo, r.begin_seq_no) \o AppendInt(EndSeqNo, r.end_seq_no))

EncodeReject ==
  \E reject \in Reject :
    Encode(REJECT,
      AppendInt(RefSeqNum, reject.ref_seq_no) \o AppendInt(RefTagID, reject.ref_tag_id)
        \o AppendFIX(RefMsgType, reject.ref_msg_type)
        \o AppendInt(SessionRejectReason, reject.session_reject_reason)
        \o AppendFIX(Text, reject.text))

EncodeSequenceReset ==
  \E r \in SequenceReset :
    Encode(SEQUENCE_RESET,
      AppendChar(GapFillFlag, LETTER_Y) \o AppendInt(NewSeqNo, r.new_seq_no))

EncodeLogout ==
  \E logout \in Logout : Encode(LOGOUT, AppendFIX(Text, logout.text))

\* subscription_request_type is a character and is compared with the number 1.
MDEntryTypes == <<48, 49, 50, 52, 53, 54, 55, 56, 66>>
EncodeMarketDataRequest ==
  \E r \in MarketDataRequest :
    Encode(MARKET_DATA_REQUEST,
      AppendFIX(MDReqID, r.md_req_id)
        \o AppendChar(SubscriptionRequestType, r.subscription_request_type)
        \o AppendInt(MarketDepth, r.market_depth)
        \o (IF r.subscription_request_type = 1
            THEN AppendChar(MDUpdateType, ZERO + 1) ELSE <<>>)
        \o AppendChar(NoMDEntryTypes, ZERO + 9)
        \o FlattenSeq([i \in DOMAIN MDEntryTypes |->
                         AppendChar(MDEntryType, MDEntryTypes[i])])
        \o (IF r.instrument_details = <<>> THEN <<>>
            ELSE AppendInt(NoRelatedSym, Len(r.instrument_details))
                   \o FlattenSeq([i \in DOMAIN r.instrument_details |->
                                    AppendFIX(Symbol, r.instrument_details[i])])))

EncodeSecurityDefinitionRequest ==
  \E r \in SecurityDefinitionRequest :
    Encode(SECURITY_DEFINITION_REQUEST,
      AppendFIX(SecurityReqID, r.security_req_id)
        \o AppendInt(SecurityRequestType, r.security_request_type)
        \o AppendIfSet(Symbol, r.instrument.symbol)
        \o AppendIfSet(SecurityExchange, r.instrument.security_exchange)
        \o AppendFIX(SecurityType, FUT))

EncodeBusinessMessageReject ==
  \E r \in BusinessMessageReject :
    Encode(BUSINESS_MESSAGE_REJECT,
      AppendInt(RefSeqNum, r.ref_seq_num) \o AppendFIX(RefMsgType, r.ref_msg_type)
        \o AppendInt(BusinessRejectReason, r.business_reject_reason)
        \o AppendFIX(Text, r.text))

Next ==
  \/ Clear \/ EncodeHeartBeat \/ EncodeLogon \/ EncodeTestRequest
  \/ EncodeResendRequest \/ EncodeReject \/ EncodeSequenceReset
  \/ EncodeLogout \/ EncodeMarketDataRequest
  \/ EncodeSecurityDefinitionRequest \/ EncodeBusinessMessageReject

Spec == Init /\ [][Next]_encodeVars

-----------------------------------------------------------------------------
(* Properties. *)

\* The fields the header decoder is to find, in the message last encoded.
HeaderField ==
  [tag \in {MsgType, MsgSeqNum, SendingTime} \cup CompIDTags |->
     CASE tag = MsgType     -> message_header_.msg_type
       [] tag = MsgSeqNum   -> ToString10[message_header_.msg_seq_num]
       [] tag = SendingTime -> message_header_.sending_time
       [] OTHER             -> CompIDs[tag]]

Encoded == sending_data_ # <<>>

\* The numbers and the bytes keep their ranges, and the header's strings fit the
\* arrays of MessageHeader, into which sprintf and DecodeHeader's memcpy write
\* without a check.
EncodeTypeOK ==
  /\ next_out_msg_seq_ \in FirstSeq..MaxSeq
  /\ message_header_.msg_seq_num \in {0} \cup FirstSeq..next_out_msg_seq_ - 1
  /\ \A i \in DOMAIN sending_data_ : sending_data_[i] \in 0..255
  /\ \A tag \in DOMAIN HeaderField \ {MsgSeqNum} :
       Len(HeaderField[tag]) < HeaderSize[tag]

\* The program's own receiver reads back what the program wrote: the length it
\* frames the message by is the message's length, so the header fits exactly
\* before the body that was moved for it, and every header field comes back.
ReadsBack ==
  Encoded =>
    LET ver  == GetFIXVersion(SubSeq(sending_data_, 1, ScanLimit))
        at   == ver.consumed
        body == GetBodyLen(SubSeq(sending_data_, at + 1, at + ScanLimit))
    IN  /\ ver.value = FIX_VER_44
        /\ MsgLen(ver, body) = Len(sending_data_)
        /\ \A tag \in DOMAIN HeaderField :
             DecodeHeader(sending_data_, tag) = HeaderField[tag]
        /\ message_header_.msg_seq_num = next_out_msg_seq_ - 1

\* No message overruns the 1024 bytes of main's sending_data_, which no encoder
\* looks at: also not one whose every field fills its array, if its symbols are
\* no more than SymbolLists has.
FitsBuffer == Len(sending_data_) <= 1024

\* The message ends with CheckSum: three digits that are, modulo 256, the sum
\* of all bytes before its tag.
TrailerOK ==
  Encoded =>
    LET n     == Len(sending_data_) - 7
        tail  == SubSeq(sending_data_, n + 1, n + 7)
        times == [b \in 0..255 |-> Cardinality({i \in 1..n : sending_data_[i] = b})]
        sum   == MapThenSumSet(LAMBDA b : b * times[b],
                               {sending_data_[i] : i \in 1..n})
    IN  /\ SubSeq(tail, 1, 3) = <<ZERO + 1, ZERO, EQUAL>> /\ tail[7] = SOH
        /\ \A i \in 4..6 : tail[i] \in ZERO..ZERO + 9
        /\ (Number(SubSeq(tail, 4, 6)) - sum) % 256 = 0
=============================================================================
