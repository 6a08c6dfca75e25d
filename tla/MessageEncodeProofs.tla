------------------------ MODULE MessageEncodeProofs ------------------------
(***************************************************************************)
(* Every message an encoder writes is a header, a body and a trailer: what *)
(* MessageEncode's invariants say of it, for all values of its fields.     *)
(***************************************************************************)
EXTENDS MessageEncode, FixWireProofs, FiniteSetTheorems

Byte == 0..255

\* As many symbols as sending_data_ has room for if all of them are as long as
\* their arrays.
SymbolsFit == \A l \in SymbolLists : Len(l) <= 24

-----------------------------------------------------------------------------
(* Pieces of a message. *)

\* At most k bytes.
Piece(s, k) == s \in Seq(Byte) /\ Len(s) <= k

\* The bytes that give a message its shape are bytes.
LEMMA ByteFacts ==
  /\ Digit \subseteq Byte /\ EQUAL \in Byte /\ SOH \in Byte
  /\ FIX_VER_44 \in Seq(Byte) /\ Seq(Byte) \subseteq Seq(Nat)
<1>1. Digit \subseteq Byte /\ EQUAL \in Byte /\ SOH \in Byte /\ Byte \subseteq Nat
  BY DEF Digit, ZERO, EQUAL, SOH, Byte
<1>2. FIX_VER_44 \in Seq(Byte)
  BY DEF FIX_VER_44, DOT, Byte
<1>3. Seq(Byte) \subseteq Seq(Nat)
  BY <1>1, SeqMonotonic
<1> QED
  BY <1>1, <1>2, <1>3

\* The bytes and the length of a field.
LEMMA FieldShape ==
  ASSUME NEW t \in Nat, NEW v \in Seq(Byte)
  PROVE  /\ AppendFIX(t, v) \in Seq(Byte)
         /\ Len(AppendFIX(t, v)) = (Len(ToString10[t]) + Len(v)) + 2
<1>1. LET f == AppendFIX(t, v)
          a == Len(ToString10[t])
      IN  /\ f \in Seq(Byte) /\ Len(f) = (a + Len(v)) + 2
          /\ \A i \in 1..a : f[i] = ToString10[t][i]
          /\ f[a + 1] = EQUAL
          /\ \A i \in 1..Len(v) : f[(a + 1) + i] = v[i]
          /\ f[(a + Len(v)) + 2] = SOH
  BY ONLY t \in Nat, v \in Seq(Byte), ByteFacts, FieldBytes, ZenonT(90)
<1> QED
  BY ONLY <1>1, Zenon

\* Two pieces one behind the other.
LEMMA PieceJoin ==
  ASSUME NEW s, NEW t, NEW j \in Nat, NEW k \in Nat, Piece(s, j), Piece(t, k)
  PROVE  Piece(s \o t, j + k)
<1>1. /\ s \in Seq(Byte) /\ t \in Seq(Byte)
      /\ Len(s) \in Nat /\ Len(t) \in Nat /\ Len(s) <= j /\ Len(t) <= k
  BY LenProperties DEF Piece
<1>2. s \o t \in Seq(Byte)
  BY <1>1, ConcatProperties
<1>3. Len(s \o t) = Len(s) + Len(t)
  BY <1>1, ConcatProperties
<1>4. Len(s \o t) <= j + k
  BY <1>1, <1>3
<1> QED
  BY <1>2, <1>4 DEF Piece

\* A bound may be raised.
LEMMA PieceMore ==
  ASSUME NEW s, NEW j \in Nat, NEW k \in Nat, j <= k, Piece(s, j)
  PROVE  Piece(s, k)
<1>1. s \in Seq(Byte) /\ Len(s) \in Nat /\ Len(s) <= j
  BY LenProperties DEF Piece
<1> QED
  BY <1>1 DEF Piece

\* A field: its tag, its value and two bytes.
LEMMA PieceField ==
  ASSUME NEW t \in Nat, NEW v, NEW k \in Nat, Piece(v, k)
  PROVE  /\ t < 100  => Piece(AppendFIX(t, v), k + 4)
         /\ t < 1000 => Piece(AppendFIX(t, v), k + 5)
<1> DEFINE f == AppendFIX(t, v)
           a == Len(ToString10[t])
<1>1. v \in Seq(Byte) /\ Len(v) \in Nat /\ Len(v) <= k
  BY LenProperties DEF Piece
<1>2. f \in Seq(Byte) /\ Len(f) = (a + Len(v)) + 2
  BY <1>1, FieldShape, Zenon
<1>3. a \in Nat /\ (t < 100 => a <= 2) /\ (t < 1000 => a <= 3)
  <2>1. a \in 1..(t \div 10) + 1
    BY ToStringType
  <2> QED
    BY <2>1, ToStringShort DEF Shorter
<1> HIDE DEF f, a
<1>4. (t < 100 => Len(f) <= k + 4) /\ (t < 1000 => Len(f) <= k + 5)
  BY <1>1, <1>2, <1>3
<1> QED
  BY <1>2, <1>4 DEF Piece, f

\* A char.
LEMMA PieceChar ==
  ASSUME NEW c \in Byte
  PROVE  Piece(<<c>>, 1)
BY DEF Piece

\* A field that is left out.
LEMMA PieceEmpty == Piece(<<>>, 0)
BY DEF Piece

\* A number: an int has ten digits and a sign, a short five.
AsText(n) == IF n < 0 THEN <<MINUS>> \o ToString10[-n] ELSE ToString10[n]
IntSize   == MaxInt + 1
ShortSize == 2^15
Int32 == -IntSize..IntSize - 1
Int16 == -ShortSize..ShortSize - 1

\* What the proofs need of 2^31 and 2^15.
LEMMA IntSizes ==
  /\ IntSize \in Nat /\ ShortSize \in Nat /\ ShortSize <= IntSize
  /\ ShortSize > 99 /\ ShortSize < 100000
BY SMT DEF IntSize, MaxInt, ShortSize

\* The most digits std::to_string writes of an int, a short, and a count of symbols.
LEMMA DigitsOfInt ==
  ASSUME NEW m \in Nat, m <= IntSize
  PROVE  /\ Piece(ToString10[m], 10)
         /\ m <= ShortSize => Piece(ToString10[m], 5)
         /\ m < 100 => Piece(ToString10[m], 2)
<1>2. ToString10[m] \in Seq(Byte)
  BY ToStringType, ByteFacts, SeqMonotonic
<1>3. Len(ToString10[m]) <= 10
  BY ToStringShort, SMT DEF Shorter, IntSize, MaxInt
<1>4. m <= ShortSize => Len(ToString10[m]) <= 5
  BY IntSizes, ToStringShort, SMT DEF Shorter
<1>5. m < 100 => Len(ToString10[m]) <= 2
  BY ToStringShort, SMT DEF Shorter
<1> QED
  BY <1>2, <1>3, <1>4, <1>5 DEF Piece

\* The same with the sign.
LEMMA PieceNumber ==
  ASSUME NEW n \in Int
  PROVE  /\ n \in Int32 => Piece(AsText(n), 11)
         /\ n \in Int16 => Piece(AsText(n), 6)
         /\ n \in 0..99 => Piece(AsText(n), 2)
<1>1. CASE n >= 0
  <2>1. AsText(n) = ToString10[n] /\ n \in Nat
    BY <1>1 DEF AsText
  <2>2. ASSUME n \in Int32 PROVE Piece(AsText(n), 11)
    <3>1. n <= IntSize
      BY <2>2, IntSizes DEF Int32
    <3>2. Piece(ToString10[n], 10)
      BY <2>1, <3>1, DigitsOfInt
    <3> QED
      BY <2>1, <3>2, PieceMore
  <2>3. ASSUME n \in Int16 PROVE Piece(AsText(n), 6)
    <3>1. n <= ShortSize /\ n <= IntSize
      BY <2>3, IntSizes DEF Int16
    <3>2. Piece(ToString10[n], 5)
      BY <2>1, <3>1, DigitsOfInt
    <3> QED
      BY <2>1, <3>2, PieceMore
  <2>4. ASSUME n \in 0..99 PROVE Piece(AsText(n), 2)
    <3>1. n < 100 /\ n <= IntSize
      BY <2>4, IntSizes
    <3> QED
      BY <2>1, <3>1, DigitsOfInt
  <2> QED
    BY <2>2, <2>3, <2>4
<1>2. CASE n < 0
  <2> DEFINE m == -n
  <2>1. AsText(n) = <<MINUS>> \o ToString10[m] /\ m \in Nat
    BY <1>2 DEF AsText
  <2>2. n \in Int32 => m <= IntSize
    BY IntSizes DEF Int32
  <2>3. n \in Int16 => m <= ShortSize /\ m <= IntSize
    BY IntSizes DEF Int16
  <2> HIDE DEF m
  <2>4. Piece(<<MINUS>>, 1)
    <3>1. MINUS \in Byte
      BY DEF MINUS, Byte
    <3> QED
      BY ONLY <3>1, PieceChar, Zenon
  <2>5. ASSUME n \in Int32 PROVE Piece(AsText(n), 11)
    <3>1. Piece(ToString10[m], 10)
      BY <2>1, <2>2, <2>5, DigitsOfInt
    <3>2. Piece(<<MINUS>> \o ToString10[m], 1 + 10)
      BY <2>4, <3>1, PieceJoin
    <3> QED
      BY <2>1, <3>2
  <2>6. ASSUME n \in Int16 PROVE Piece(AsText(n), 6)
    <3>1. Piece(ToString10[m], 5)
      BY <2>1, <2>3, <2>6, DigitsOfInt
    <3>2. Piece(<<MINUS>> \o ToString10[m], 1 + 5)
      BY <2>4, <3>1, PieceJoin
    <3> QED
      BY <2>1, <3>2
  <2>7. n \notin 0..99
    BY <1>2
  <2> QED
    BY <2>5, <2>6, <2>7
<1> QED
  BY <1>1, <1>2

-----------------------------------------------------------------------------
(* Bodies. *)

\* The tags of a body: of three digits at most, and none of them a header's.
BodyTag(t) == t \in Nat /\ t < 1000 /\ t \notin HeaderTags

\* The bytes begin with a field of such a tag.
Begins(b) ==
  \E t \in Nat, v \in Seq(Nat), rest \in Seq(Nat) :
    BodyTag(t) /\ b = AppendFIX(t, v) \o rest

Body(b, k) == Piece(b, k) /\ Begins(b)

\* The tags the encoders write behind the common header; none is one of the header's.
LEMMA BodyTags ==
  /\ BodyTag(TestReqID) /\ BodyTag(EncryptMethod) /\ BodyTag(HeartBtInt)
  /\ BodyTag(ResetSeqNumFlag) /\ BodyTag(Username) /\ BodyTag(Password)
  /\ BodyTag(BeginSeqNo) /\ BodyTag(EndSeqNo) /\ BodyTag(RefSeqNum)
  /\ BodyTag(RefTagID) /\ BodyTag(RefMsgType) /\ BodyTag(SessionRejectReason)
  /\ BodyTag(Text) /\ BodyTag(GapFillFlag) /\ BodyTag(NewSeqNo) /\ BodyTag(MDReqID)
  /\ BodyTag(SubscriptionRequestType) /\ BodyTag(MarketDepth) /\ BodyTag(MDUpdateType)
  /\ BodyTag(NoMDEntryTypes) /\ BodyTag(MDEntryType) /\ BodyTag(NoRelatedSym)
  /\ BodyTag(Symbol) /\ BodyTag(SecurityReqID) /\ BodyTag(SecurityRequestType)
  /\ BodyTag(SecurityExchange) /\ BodyTag(SecurityType)
  /\ BodyTag(BusinessRejectReason) /\ BodyTag(CheckSum)
BY DEF BodyTag, HeaderTags, BeginString, BodyLength, MsgType, SenderCompID,
       TargetCompID, MsgSeqNum, SenderSubID, TargetSubID, PossDupFlag, PossResend,
       SendingTime, OrigSendingTime, TestReqID, EncryptMethod, HeartBtInt,
       ResetSeqNumFlag, Username, Password, BeginSeqNo, EndSeqNo, RefSeqNum,
       RefTagID, RefMsgType, SessionRejectReason, Text, GapFillFlag, NewSeqNo,
       MDReqID, SubscriptionRequestType, MarketDepth, MDUpdateType, NoMDEntryTypes,
       MDEntryType, NoRelatedSym, Symbol, SecurityReqID, SecurityRequestType,
       SecurityExchange, SecurityType, BusinessRejectReason, CheckSum

\* A field is a body, with at most three digits of tag, '=' and SOH around the value.
LEMMA BodyField ==
  ASSUME NEW t, BodyTag(t), NEW v, NEW k \in Nat, Piece(v, k)
  PROVE  Body(AppendFIX(t, v), k + 5) /\ Piece(AppendFIX(t, v), k + 5)
<1> DEFINE f == AppendFIX(t, v)
<1>1. t \in Nat /\ t < 1000
  BY DEF BodyTag
<1>2. Piece(f, k + 5)
  BY <1>1, PieceField
<1>3. v \in Seq(Nat) /\ f \in Seq(Nat)
  BY <1>2, ByteFacts DEF Piece
<1>4. f = f \o <<>> /\ <<>> \in Seq(Nat)
  <2> HIDE DEF f
  <2> QED
    BY <1>3, ConcatEmptySeq
<1>5. Begins(f)
  BY <1>1, <1>3, <1>4, ZenonT(40) DEF Begins
<1> QED
  BY <1>2, <1>5 DEF Body

\* What follows a body does not change how it begins.
LEMMA BodyMore ==
  ASSUME NEW b, NEW s, NEW j \in Nat, NEW k \in Nat, Body(b, j), Piece(s, k)
  PROVE  Body(b \o s, j + k)
<1>1. Piece(b \o s, j + k)
  BY PieceJoin DEF Body
<1>2. PICK t \in Nat, v \in Seq(Nat), rest \in Seq(Nat) :
        BodyTag(t) /\ b = AppendFIX(t, v) \o rest
  BY DEF Body, Begins
<1> DEFINE f == AppendFIX(t, v)
           r == rest \o s
<1>3. s \in Seq(Nat)
  BY ByteFacts DEF Piece
<1>4. f \in Seq(Nat)
  <2>1. Digit \subseteq Nat /\ EQUAL \in Nat /\ SOH \in Nat
    BY DEF Digit, ZERO, EQUAL, SOH
  <2> QED
    BY <2>1, FieldBytes
<1>5. r \in Seq(Nat)
  BY <1>3, ConcatProperties
<1>6. b \o s = f \o r
  <2>1. b = f \o rest /\ r = rest \o s /\ rest \in Seq(Nat)
    BY <1>2
  <2> HIDE DEF f, r
  <2> QED
    BY ONLY <1>3, <1>4, <2>1, Regroup, SMTT(30)
<1>7. Begins(b \o s)
  BY <1>2, <1>5, <1>6 DEF Begins
<1> QED
  BY <1>1, <1>7 DEF Body

\* Behind a body, or nothing, comes the trailer: DecodeHeader finds no more fields.
LEMMA BodyStops ==
  ASSUME NEW b, b = <<>> \/ Begins(b), NEW v \in Seq(Nat)
  PROVE  HeaderEnds(b \o AppendFIX(CheckSum, v)) = {}
<1> DEFINE tr == AppendFIX(CheckSum, v)
<1>0. BodyTag(CheckSum)
  BY BodyTags
<1>a. Digit \subseteq Nat /\ EQUAL \in Nat /\ SOH \in Nat
  BY DEF Digit, ZERO, EQUAL, SOH
<1>1. tr \in Seq(Nat)
  BY <1>0, <1>a, FieldBytes, ZenonT(40) DEF BodyTag
<1>2. CASE b = <<>>
  <2> DEFINE e == <<>>
  <2>1. e \in Seq(Nat)
    OBVIOUS
  <2>2. HeaderEnds(tr \o e) = {}
    <3> HIDE DEF e
    <3> QED
      BY <1>0, <2>1, FieldStops DEF BodyTag
  <2> HIDE DEF tr
  <2>3. tr \o e = tr /\ e \o tr = tr
    BY <1>1, ConcatEmptySeq
  <2> QED
    BY <1>2, <2>2, <2>3 DEF tr
<1>3. CASE Begins(b)
  <2>1. PICK t \in Nat, w \in Seq(Nat), rest \in Seq(Nat) :
          BodyTag(t) /\ b = AppendFIX(t, w) \o rest
    BY <1>3 DEF Begins
  <2> DEFINE f == AppendFIX(t, w)
             r == rest \o tr
  <2>2. f \in Seq(Nat)
    BY <1>a, FieldBytes
  <2> HIDE DEF tr
  <2>3. r \in Seq(Nat)
    BY <1>1, ConcatProperties
  <2>4. b \o tr = f \o r
    <3>1. b = f \o rest
      BY <2>1
    <3> HIDE DEF f
    <3> QED
      BY <1>1, <2>2, <3>1, Regroup, SMTT(30)
  <2>5. HeaderEnds(f \o r) = {}
    <3> HIDE DEF r
    <3> QED
      BY <2>1, <2>3, FieldStops DEF BodyTag
  <2> QED
    BY <2>4, <2>5 DEF tr
<1> QED
  BY <1>2, <1>3

-----------------------------------------------------------------------------
(* Fields. *)

(* What EncodeAssumption says of the constants. *)
LEMMA Limits ==
  /\ FirstSeq \in Nat /\ MaxSeq \in Nat
  /\ FirstSeq <= MaxSeq /\ MaxSeq < IntSize
  /\ Ints \subseteq Int32
<1>1. MaxInt \in Nat
  BY SMT DEF MaxInt
<1>2. FirstSeq \in Nat /\ MaxSeq \in FirstSeq..MaxInt /\ Ints \subseteq -MaxInt - 1..MaxInt
  BY EncodeAssumption, Zenon DEF EncodeAssumption
<1> QED
  BY <1>1, <1>2 DEF Int32, IntSize

\* EncodeAssumption's strings.
LEMMA Texts ==
  /\ Strings \subseteq Seq(1..255) /\ SymbolLists \subseteq Seq(Seq(1..255))
  /\ DOMAIN CompIDs = CompIDTags
  /\ \A tag \in CompIDTags :
       CompIDs[tag] \in FieldText /\ Len(CompIDs[tag]) < HeaderSize[tag]
  /\ \A t \in Times : t.buf \in FieldText /\ Len(t.buf) = 17 /\ t.milli \in 0..999
BY EncodeAssumption, Zenon DEF EncodeAssumption

\* EncodeAssumption's numbers: ints are ints, shorts shorts, also after a cast.
LEMMA Numbers ==
  /\ Ints \subseteq Int32 /\ Shorts \subseteq Int16
  /\ \A n \in Int : ToShort(n) \in Int16
<1>1. Ints \subseteq Int32
  BY Limits
<1>2. Shorts \subseteq Int16
  <2> SUFFICES ASSUME NEW n \in Shorts PROVE n \in Int16
    OBVIOUS
  <2>1. n \in -(2^15)..2^15 - 1
    BY DEF Shorts
  <2> QED
    BY <2>1, SMT DEF Int16, ShortSize
<1>3. \A n \in Int : ToShort(n) \in Int16
  BY SMT DEF ToShort, Int16, ShortSize
<1> QED
  BY <1>1, <1>2, <1>3

\* A string that fits its array of so many bytes and the zero.
LEMMA Fits ==
  ASSUME NEW k \in Nat, NEW s \in Chars(k + 1)
  PROVE  Piece(s, k)
<1>1. s \in Seq(1..255) /\ Len(s) < k + 1
  BY Texts DEF Chars
<1>2. s \in Seq(Byte)
  <2>1. 1..255 \subseteq Byte
    BY DEF Byte
  <2> QED
    BY <1>1, <2>1, SeqMonotonic
<1> QED
  BY <1>1, <1>2, LenProperties DEF Piece

\* appendFIX of a char array of k + 1 bytes.
LEMMA FieldChars ==
  ASSUME NEW t, BodyTag(t), NEW k \in Nat, NEW s \in Chars(k + 1)
  PROVE  Body(AppendFIX(t, s), k + 5) /\ Piece(AppendFIX(t, s), k + 5)
BY Fits, BodyField

\* appendFIX of an int or a short.
LEMMA FieldInt ==
  ASSUME NEW t, BodyTag(t), NEW n \in Int
  PROVE  /\ n \in Int32 => Body(AppendInt(t, n), 16) /\ Piece(AppendInt(t, n), 16)
         /\ n \in Int16 => Body(AppendInt(t, n), 11) /\ Piece(AppendInt(t, n), 11)
<1>1. AppendInt(t, n) = AppendFIX(t, AsText(n))
  BY DEF AppendInt, AsText
<1>2. ASSUME n \in Int32
      PROVE  Body(AppendFIX(t, AsText(n)), 16) /\ Piece(AppendFIX(t, AsText(n)), 16)
  <2>1. Piece(AsText(n), 11)
    BY <1>2, PieceNumber
  <2>2. /\ Body(AppendFIX(t, AsText(n)), 11 + 5)
        /\ Piece(AppendFIX(t, AsText(n)), 11 + 5)
    BY <2>1, BodyField
  <2> QED
    BY <2>2
<1>3. ASSUME n \in Int16
      PROVE  Body(AppendFIX(t, AsText(n)), 11) /\ Piece(AppendFIX(t, AsText(n)), 11)
  <2>1. Piece(AsText(n), 6)
    BY <1>3, PieceNumber
  <2>2. /\ Body(AppendFIX(t, AsText(n)), 6 + 5)
        /\ Piece(AppendFIX(t, AsText(n)), 6 + 5)
    BY <2>1, BodyField
  <2> QED
    BY <2>2
<1> QED
  BY <1>1, <1>2, <1>3

\* appendFIX of a char.
LEMMA FieldChar ==
  ASSUME NEW t, BodyTag(t), NEW c \in Byte
  PROVE  Body(AppendChar(t, c), 6) /\ Piece(AppendChar(t, c), 6)
<1>1. /\ Body(AppendFIX(t, <<c>>), 1 + 5)
      /\ Piece(AppendFIX(t, <<c>>), 1 + 5)
  BY PieceChar, BodyField
<1> QED
  BY <1>1 DEF AppendChar

\* A field that is written only if its array is not empty.
LEMMA FieldIfSet ==
  ASSUME NEW t, BodyTag(t), NEW v, NEW k \in Nat, Piece(v, k)
  PROVE  /\ Piece(AppendIfSet(t, v), k + 5)
         /\ AppendIfSet(t, v) = <<>> \/ Begins(AppendIfSet(t, v))
<1>1. CASE v = <<>>
  <2>1. Piece(<<>>, k + 5)
    BY PieceEmpty, PieceMore
  <2> QED
    BY <1>1, <2>1 DEF AppendIfSet
<1>2. CASE v # <<>>
  BY <1>2, BodyField DEF AppendIfSet, Body
<1> QED
  BY <1>1, <1>2

-----------------------------------------------------------------------------
(* What each encoder appends. *)

\* A body that leaves room for the header and the trailer.
BodySize == 858
IsBody(b) ==
  /\ b \in Seq(Byte)
  /\ b = <<>> \/ Begins(b)
  /\ SymbolsFit => Len(b) <= BodySize

\* A message type is one letter.
IsType(type) == type \in FieldText /\ Len(type) < 2

EncodesBody == \E type, body : IsType(type) /\ IsBody(body) /\ Encode(type, body)

\* A body that is shorter than the longest MarketDataRequest.
LEMMA ShortBody ==
  ASSUME NEW b, NEW k \in Nat, k <= BodySize, Piece(b, k), b = <<>> \/ Begins(b)
  PROVE  IsBody(b)
<1>1. b \in Seq(Byte) /\ Len(b) \in Nat /\ Len(b) <= k
  BY LenProperties DEF Piece
<1>2. Len(b) <= BodySize
  BY <1>1 DEF BodySize
<1> QED
  BY <1>1, <1>2 DEF IsBody

\* Each message type is one letter, which MessageHeader's msg_type holds.
LEMMA Types ==
  /\ IsType(HEART_BEAT) /\ IsType(LOGON) /\ IsType(TEST_REQUEST)
  /\ IsType(RESEND_REQUEST) /\ IsType(REJECT) /\ IsType(SEQUENCE_RESET)
  /\ IsType(LOGOUT) /\ IsType(MARKET_DATA_REQUEST)
  /\ IsType(SECURITY_DEFINITION_REQUEST) /\ IsType(BUSINESS_MESSAGE_REJECT)
<1>1. ASSUME NEW c \in 2..255, c # EQUAL PROVE IsType(<<c>>)
  <2>1. c \in 1..255 \ {SOH, EQUAL}
    BY <1>1 DEF SOH
  <2> QED
    BY <2>1 DEF IsType, FieldText
<1> DEFINE Letters == {48, 49, 50, 51, 52, 53, 65, 86, 99, 106}
<1>2. \A c \in Letters : c \in 2..255 /\ c # EQUAL
  BY DEF EQUAL
<1> HIDE DEF Letters
<1>3. \A c \in Letters : IsType(<<c>>)
  BY ONLY <1>1, <1>2, ZenonT(40)
<1>4. IsType(HEART_BEAT)
  BY ONLY <1>3, ZenonT(40) DEF Letters, HEART_BEAT
<1>5. IsType(LOGON)
  BY ONLY <1>3, ZenonT(40) DEF Letters, LOGON
<1>6. IsType(TEST_REQUEST)
  BY ONLY <1>3, ZenonT(40) DEF Letters, TEST_REQUEST
<1>7. IsType(RESEND_REQUEST)
  BY ONLY <1>3, ZenonT(40) DEF Letters, RESEND_REQUEST
<1>8. IsType(REJECT)
  BY ONLY <1>3, ZenonT(40) DEF Letters, REJECT
<1>9. IsType(SEQUENCE_RESET)
  BY ONLY <1>3, ZenonT(40) DEF Letters, SEQUENCE_RESET
<1>10. IsType(LOGOUT)
  BY ONLY <1>3, ZenonT(40) DEF Letters, LOGOUT
<1>11. IsType(MARKET_DATA_REQUEST)
  BY ONLY <1>3, ZenonT(40) DEF Letters, MARKET_DATA_REQUEST
<1>12. IsType(SECURITY_DEFINITION_REQUEST)
  BY ONLY <1>3, ZenonT(40) DEF Letters, SECURITY_DEFINITION_REQUEST
<1>13. IsType(BUSINESS_MESSAGE_REJECT)
  BY ONLY <1>3, ZenonT(40) DEF Letters, BUSINESS_MESSAGE_REJECT
<1> QED
  BY ONLY <1>4, <1>5, <1>6, <1>7, <1>8, <1>9, <1>10, <1>11, <1>12, <1>13, Zenon

\* EncodeHeartBeat.
LEMMA HeartBeatBody ==
  ASSUME EncodeHeartBeat
  PROVE  EncodesBody
<1>1. PICK heart_beat \in HeartBeat :
        Encode(HEART_BEAT, AppendIfSet(TestReqID, heart_beat.test_request_id))
  BY DEF EncodeHeartBeat
<1> DEFINE v == heart_beat.test_request_id
           b == AppendIfSet(TestReqID, v)
<1>2. v \in Chars(15 + 1)
  BY DEF HeartBeat
<1>3. Piece(v, 15)
  BY <1>2, Fits
<1>4. Piece(b, 15 + 5) /\ (b = <<>> \/ Begins(b))
  BY <1>3, BodyTags, FieldIfSet
<1>5. 15 + 5 \in Nat /\ 15 + 5 <= BodySize
  BY DEF BodySize
<1> HIDE DEF b
<1>6. IsBody(b)
  BY <1>4, <1>5, ShortBody
<1> QED
  BY <1>1, <1>6, Types DEF EncodesBody, b

\* EncodeLogon.
LEMMA LogonBody ==
  ASSUME EncodeLogon
  PROVE  EncodesBody
<1>1. PICK logon \in Logon :
        Encode(LOGON,
          AppendChar(EncryptMethod, ZERO)
            \o AppendInt(HeartBtInt, IF logon.heart_beat_int > 0
                                           THEN ToShort(logon.heart_beat_int) ELSE 30)
            \o AppendChar(ResetSeqNumFlag, LETTER_N)
            \o AppendFIX(Username, logon.user_name)
            \o AppendFIX(Password, logon.password))
  BY DEF EncodeLogon
<1> DEFINE f1 == AppendChar(EncryptMethod, ZERO)
           f2 == AppendInt(HeartBtInt, IF logon.heart_beat_int > 0
                                           THEN ToShort(logon.heart_beat_int) ELSE 30)
           f3 == AppendChar(ResetSeqNumFlag, LETTER_N)
           f4 == AppendFIX(Username, logon.user_name)
           f5 == AppendFIX(Password, logon.password)
<1>f1. Body(f1, 6)
  <2>1. ZERO \in Byte
    BY DEF Byte, ZERO
  <2> QED
    BY <2>1, BodyTags, FieldChar
<1>f2. Piece(f2, 11)
  <2> DEFINE n == IF logon.heart_beat_int > 0
                  THEN ToShort(logon.heart_beat_int) ELSE 30
  <2>1. logon.heart_beat_int \in Int
    <3>1. logon.heart_beat_int \in Int32
      BY Numbers DEF Logon
    <3> QED
      BY <3>1, IntSizes DEF Int32
  <2>2. n \in Int16
    <3>1. 30 \in Int16
      BY IntSizes DEF Int16
    <3> QED
      BY <2>1, <3>1, Numbers
  <2>3. n \in Int
    BY <2>2, IntSizes DEF Int16
  <2> HIDE DEF n
  <2>4. Piece(AppendInt(HeartBtInt, n), 11)
    BY <2>2, <2>3, BodyTags, FieldInt
  <2> QED
    BY <2>4 DEF n
<1>f3. Piece(f3, 6)
  <2>1. LETTER_N \in Byte
    BY DEF Byte, LETTER_N
  <2> QED
    BY <2>1, BodyTags, FieldChar
<1>f4. Piece(f4, 35)
  <2>1. logon.user_name \in Chars(30 + 1)
    BY DEF Logon
  <2>2. Body(AppendFIX(Username, logon.user_name), 30 + 5) /\ Piece(AppendFIX(Username, logon.user_name), 30 + 5)
    BY <2>1, BodyTags, FieldChars
  <2> QED
    BY <2>2
<1>f5. Piece(f5, 44)
  <2>1. logon.password \in Chars(39 + 1)
    BY DEF Logon
  <2>2. Body(AppendFIX(Password, logon.password), 39 + 5) /\ Piece(AppendFIX(Password, logon.password), 39 + 5)
    BY <2>1, BodyTags, FieldChars
  <2> QED
    BY <2>2
<1> HIDE DEF f1, f2, f3, f4, f5
<1>b2. Body(f1 \o f2, 17)
  <2>1. Body(f1 \o f2, 6 + 11)
    BY <1>f1, <1>f2, BodyMore
  <2> QED
    BY <2>1
<1>b3. Body(f1 \o f2 \o f3, 23)
  <2>1. Body(f1 \o f2 \o f3, 17 + 6)
    BY <1>b2, <1>f3, BodyMore
  <2> QED
    BY <2>1
<1>b4. Body(f1 \o f2 \o f3 \o f4, 58)
  <2>1. Body(f1 \o f2 \o f3 \o f4, 23 + 35)
    BY <1>b3, <1>f4, BodyMore
  <2> QED
    BY <2>1
<1>b5. Body(f1 \o f2 \o f3 \o f4 \o f5, 102)
  <2>1. Body(f1 \o f2 \o f3 \o f4 \o f5, 58 + 44)
    BY <1>b4, <1>f5, BodyMore
  <2> QED
    BY <2>1
<1> DEFINE b == f1 \o f2 \o f3 \o f4 \o f5
<1>2. Piece(b, 102) /\ Begins(b)
  BY <1>b5 DEF Body
<1>3. 102 \in Nat /\ 102 <= BodySize
  BY DEF BodySize
<1>4. Encode(LOGON, b)
  BY <1>1 DEF f1, f2, f3, f4, f5
<1> HIDE DEF b
<1>5. IsBody(b)
  BY <1>2, <1>3, ShortBody
<1> QED
  BY <1>4, <1>5, Types DEF EncodesBody

\* EncodeTestRequest.
LEMMA TestRequestBody ==
  ASSUME EncodeTestRequest
  PROVE  EncodesBody
<1>1. PICK test_request \in TestRequest :
        Encode(TEST_REQUEST,
          AppendFIX(TestReqID, test_request.test_request_id))
  BY DEF EncodeTestRequest
<1> DEFINE f1 == AppendFIX(TestReqID, test_request.test_request_id)
<1>f1. Body(f1, 20)
  <2>1. test_request.test_request_id \in Chars(15 + 1)
    BY DEF TestRequest
  <2>2. Body(AppendFIX(TestReqID, test_request.test_request_id), 15 + 5) /\ Piece(AppendFIX(TestReqID, test_request.test_request_id), 15 + 5)
    BY <2>1, BodyTags, FieldChars
  <2> QED
    BY <2>2
<1> HIDE DEF f1
<1> DEFINE b == f1
<1>2. Piece(b, 20) /\ Begins(b)
  BY <1>f1 DEF Body
<1>3. 20 \in Nat /\ 20 <= BodySize
  BY DEF BodySize
<1>4. Encode(TEST_REQUEST, b)
  BY <1>1 DEF f1
<1> HIDE DEF b
<1>5. IsBody(b)
  BY <1>2, <1>3, ShortBody
<1> QED
  BY <1>4, <1>5, Types DEF EncodesBody

\* EncodeResendRequest.
LEMMA ResendRequestBody ==
  ASSUME EncodeResendRequest
  PROVE  EncodesBody
<1>1. PICK r \in ResendRequest :
        Encode(RESEND_REQUEST,
          AppendInt(BeginSeqNo, r.begin_seq_no)
            \o AppendInt(EndSeqNo, r.end_seq_no))
  BY DEF EncodeResendRequest
<1> DEFINE f1 == AppendInt(BeginSeqNo, r.begin_seq_no)
           f2 == AppendInt(EndSeqNo, r.end_seq_no)
<1>f1. Body(f1, 16)
  <2>1. r.begin_seq_no \in Int32
    BY Numbers DEF ResendRequest
  <2>2. r.begin_seq_no \in Int
    BY <2>1, IntSizes DEF Int32
  <2> QED
    BY <2>1, <2>2, BodyTags, FieldInt
<1>f2. Piece(f2, 16)
  <2>1. r.end_seq_no \in Int32
    BY Numbers DEF ResendRequest
  <2>2. r.end_seq_no \in Int
    BY <2>1, IntSizes DEF Int32
  <2> QED
    BY <2>1, <2>2, BodyTags, FieldInt
<1> HIDE DEF f1, f2
<1>b2. Body(f1 \o f2, 32)
  <2>1. Body(f1 \o f2, 16 + 16)
    BY <1>f1, <1>f2, BodyMore
  <2> QED
    BY <2>1
<1> DEFINE b == f1 \o f2
<1>2. Piece(b, 32) /\ Begins(b)
  BY <1>b2 DEF Body
<1>3. 32 \in Nat /\ 32 <= BodySize
  BY DEF BodySize
<1>4. Encode(RESEND_REQUEST, b)
  BY <1>1 DEF f1, f2
<1> HIDE DEF b
<1>5. IsBody(b)
  BY <1>2, <1>3, ShortBody
<1> QED
  BY <1>4, <1>5, Types DEF EncodesBody

\* EncodeReject.
LEMMA RejectBody ==
  ASSUME EncodeReject
  PROVE  EncodesBody
<1>1. PICK reject \in Reject :
        Encode(REJECT,
          AppendInt(RefSeqNum, reject.ref_seq_no)
            \o AppendInt(RefTagID, reject.ref_tag_id)
            \o AppendFIX(RefMsgType, reject.ref_msg_type)
            \o AppendInt(SessionRejectReason, reject.session_reject_reason)
            \o AppendFIX(Text, reject.text))
  BY DEF EncodeReject
<1> DEFINE f1 == AppendInt(RefSeqNum, reject.ref_seq_no)
           f2 == AppendInt(RefTagID, reject.ref_tag_id)
           f3 == AppendFIX(RefMsgType, reject.ref_msg_type)
           f4 == AppendInt(SessionRejectReason, reject.session_reject_reason)
           f5 == AppendFIX(Text, reject.text)
<1>f1. Body(f1, 16)
  <2>1. reject.ref_seq_no \in Int32
    BY Numbers DEF Reject
  <2>2. reject.ref_seq_no \in Int
    BY <2>1, IntSizes DEF Int32
  <2> QED
    BY <2>1, <2>2, BodyTags, FieldInt
<1>f2. Piece(f2, 16)
  <2>1. reject.ref_tag_id \in Int32
    BY Numbers DEF Reject
  <2>2. reject.ref_tag_id \in Int
    BY <2>1, IntSizes DEF Int32
  <2> QED
    BY <2>1, <2>2, BodyTags, FieldInt
<1>f3. Piece(f3, 6)
  <2>1. reject.ref_msg_type \in Chars(1 + 1)
    BY DEF Reject
  <2>2. Body(AppendFIX(RefMsgType, reject.ref_msg_type), 1 + 5) /\ Piece(AppendFIX(RefMsgType, reject.ref_msg_type), 1 + 5)
    BY <2>1, BodyTags, FieldChars
  <2> QED
    BY <2>2
<1>f4. Piece(f4, 16)
  <2>1. reject.session_reject_reason \in Int32
    BY Numbers DEF Reject
  <2>2. reject.session_reject_reason \in Int
    BY <2>1, IntSizes DEF Int32
  <2> QED
    BY <2>1, <2>2, BodyTags, FieldInt
<1>f5. Piece(f5, 64)
  <2>1. reject.text \in Chars(59 + 1)
    BY DEF Reject
  <2>2. Body(AppendFIX(Text, reject.text), 59 + 5) /\ Piece(AppendFIX(Text, reject.text), 59 + 5)
    BY <2>1, BodyTags, FieldChars
  <2> QED
    BY <2>2
<1> HIDE DEF f1, f2, f3, f4, f5
<1>b2. Body(f1 \o f2, 32)
  <2>1. Body(f1 \o f2, 16 + 16)
    BY <1>f1, <1>f2, BodyMore
  <2> QED
    BY <2>1
<1>b3. Body(f1 \o f2 \o f3, 38)
  <2>1. Body(f1 \o f2 \o f3, 32 + 6)
    BY <1>b2, <1>f3, BodyMore
  <2> QED
    BY <2>1
<1>b4. Body(f1 \o f2 \o f3 \o f4, 54)
  <2>1. Body(f1 \o f2 \o f3 \o f4, 38 + 16)
    BY <1>b3, <1>f4, BodyMore
  <2> QED
    BY <2>1
<1>b5. Body(f1 \o f2 \o f3 \o f4 \o f5, 118)
  <2>1. Body(f1 \o f2 \o f3 \o f4 \o f5, 54 + 64)
    BY <1>b4, <1>f5, BodyMore
  <2> QED
    BY <2>1
<1> DEFINE b == f1 \o f2 \o f3 \o f4 \o f5
<1>2. Piece(b, 118) /\ Begins(b)
  BY <1>b5 DEF Body
<1>3. 118 \in Nat /\ 118 <= BodySize
  BY DEF BodySize
<1>4. Encode(REJECT, b)
  BY <1>1 DEF f1, f2, f3, f4, f5
<1> HIDE DEF b
<1>5. IsBody(b)
  BY <1>2, <1>3, ShortBody
<1> QED
  BY <1>4, <1>5, Types DEF EncodesBody

\* EncodeSequenceReset.
LEMMA SequenceResetBody ==
  ASSUME EncodeSequenceReset
  PROVE  EncodesBody
<1>1. PICK r \in SequenceReset :
        Encode(SEQUENCE_RESET,
          AppendChar(GapFillFlag, LETTER_Y)
            \o AppendInt(NewSeqNo, r.new_seq_no))
  BY DEF EncodeSequenceReset
<1> DEFINE f1 == AppendChar(GapFillFlag, LETTER_Y)
           f2 == AppendInt(NewSeqNo, r.new_seq_no)
<1>f1. Body(f1, 6)
  <2>1. LETTER_Y \in Byte
    BY DEF Byte, LETTER_Y
  <2> QED
    BY <2>1, BodyTags, FieldChar
<1>f2. Piece(f2, 16)
  <2>1. r.new_seq_no \in Int32
    BY Numbers DEF SequenceReset
  <2>2. r.new_seq_no \in Int
    BY <2>1, IntSizes DEF Int32
  <2> QED
    BY <2>1, <2>2, BodyTags, FieldInt
<1> HIDE DEF f1, f2
<1>b2. Body(f1 \o f2, 22)
  <2>1. Body(f1 \o f2, 6 + 16)
    BY <1>f1, <1>f2, BodyMore
  <2> QED
    BY <2>1
<1> DEFINE b == f1 \o f2
<1>2. Piece(b, 22) /\ Begins(b)
  BY <1>b2 DEF Body
<1>3. 22 \in Nat /\ 22 <= BodySize
  BY DEF BodySize
<1>4. Encode(SEQUENCE_RESET, b)
  BY <1>1 DEF f1, f2
<1> HIDE DEF b
<1>5. IsBody(b)
  BY <1>2, <1>3, ShortBody
<1> QED
  BY <1>4, <1>5, Types DEF EncodesBody

\* EncodeLogout.
LEMMA LogoutBody ==
  ASSUME EncodeLogout
  PROVE  EncodesBody
<1>1. PICK logout \in Logout :
        Encode(LOGOUT,
          AppendFIX(Text, logout.text))
  BY DEF EncodeLogout
<1> DEFINE f1 == AppendFIX(Text, logout.text)
<1>f1. Body(f1, 64)
  <2>1. logout.text \in Chars(59 + 1)
    BY DEF Logout
  <2>2. Body(AppendFIX(Text, logout.text), 59 + 5) /\ Piece(AppendFIX(Text, logout.text), 59 + 5)
    BY <2>1, BodyTags, FieldChars
  <2> QED
    BY <2>2
<1> HIDE DEF f1
<1> DEFINE b == f1
<1>2. Piece(b, 64) /\ Begins(b)
  BY <1>f1 DEF Body
<1>3. 64 \in Nat /\ 64 <= BodySize
  BY DEF BodySize
<1>4. Encode(LOGOUT, b)
  BY <1>1 DEF f1
<1> HIDE DEF b
<1>5. IsBody(b)
  BY <1>2, <1>3, ShortBody
<1> QED
  BY <1>4, <1>5, Types DEF EncodesBody

\* EncodeSecurityDefinitionRequest.
LEMMA SecurityDefinitionRequestBody ==
  ASSUME EncodeSecurityDefinitionRequest
  PROVE  EncodesBody
<1>1. PICK r \in SecurityDefinitionRequest :
        Encode(SECURITY_DEFINITION_REQUEST,
          AppendFIX(SecurityReqID, r.security_req_id)
            \o AppendInt(SecurityRequestType, r.security_request_type)
            \o AppendIfSet(Symbol, r.instrument.symbol)
            \o AppendIfSet(SecurityExchange, r.instrument.security_exchange)
            \o AppendFIX(SecurityType, FUT))
  BY DEF EncodeSecurityDefinitionRequest
<1> DEFINE f1 == AppendFIX(SecurityReqID, r.security_req_id)
           f2 == AppendInt(SecurityRequestType, r.security_request_type)
           f3 == AppendIfSet(Symbol, r.instrument.symbol)
           f4 == AppendIfSet(SecurityExchange, r.instrument.security_exchange)
           f5 == AppendFIX(SecurityType, FUT)
<1>f1. Body(f1, 24)
  <2>1. r.security_req_id \in Chars(19 + 1)
    BY DEF SecurityDefinitionRequest
  <2>2. Body(AppendFIX(SecurityReqID, r.security_req_id), 19 + 5) /\ Piece(AppendFIX(SecurityReqID, r.security_req_id), 19 + 5)
    BY <2>1, BodyTags, FieldChars
  <2> QED
    BY <2>2
<1>f2. Piece(f2, 11)
  <2>1. r.security_request_type \in Int16
    BY Numbers DEF SecurityDefinitionRequest
  <2>2. r.security_request_type \in Int
    BY <2>1, IntSizes DEF Int16
  <2> QED
    BY <2>1, <2>2, BodyTags, FieldInt
<1>f3. Piece(f3, 32)
  <2>1. r.instrument.symbol \in Chars(27 + 1)
    BY DEF SecurityDefinitionRequest, Instrument
  <2>2. Piece(r.instrument.symbol, 27)
    BY <2>1, Fits
  <2>3. Piece(AppendIfSet(Symbol, r.instrument.symbol), 27 + 5)
    BY <2>2, BodyTags, FieldIfSet
  <2> QED
    BY <2>3
<1>f4. Piece(f4, 9)
  <2>1. r.instrument.security_exchange \in Chars(4 + 1)
    BY DEF SecurityDefinitionRequest, Instrument
  <2>2. Piece(r.instrument.security_exchange, 4)
    BY <2>1, Fits
  <2>3. Piece(AppendIfSet(SecurityExchange, r.instrument.security_exchange), 4 + 5)
    BY <2>2, BodyTags, FieldIfSet
  <2> QED
    BY <2>3
<1>f5. Piece(f5, 8)
  <2>1. Piece(FUT, 3)
    BY DEF Piece, FUT, Byte
  <2>2. Piece(AppendFIX(SecurityType, FUT), 3 + 5)
    BY <2>1, BodyTags, BodyField
  <2> QED
    BY <2>2
<1> HIDE DEF f1, f2, f3, f4, f5
<1>b2. Body(f1 \o f2, 35)
  <2>1. Body(f1 \o f2, 24 + 11)
    BY <1>f1, <1>f2, BodyMore
  <2> QED
    BY <2>1
<1>b3. Body(f1 \o f2 \o f3, 67)
  <2>1. Body(f1 \o f2 \o f3, 35 + 32)
    BY <1>b2, <1>f3, BodyMore
  <2> QED
    BY <2>1
<1>b4. Body(f1 \o f2 \o f3 \o f4, 76)
  <2>1. Body(f1 \o f2 \o f3 \o f4, 67 + 9)
    BY <1>b3, <1>f4, BodyMore
  <2> QED
    BY <2>1
<1>b5. Body(f1 \o f2 \o f3 \o f4 \o f5, 84)
  <2>1. Body(f1 \o f2 \o f3 \o f4 \o f5, 76 + 8)
    BY <1>b4, <1>f5, BodyMore
  <2> QED
    BY <2>1
<1> DEFINE b == f1 \o f2 \o f3 \o f4 \o f5
<1>2. Piece(b, 84) /\ Begins(b)
  BY <1>b5 DEF Body
<1>3. 84 \in Nat /\ 84 <= BodySize
  BY DEF BodySize
<1>4. Encode(SECURITY_DEFINITION_REQUEST, b)
  BY <1>1 DEF f1, f2, f3, f4, f5
<1> HIDE DEF b
<1>5. IsBody(b)
  BY <1>2, <1>3, ShortBody
<1> QED
  BY <1>4, <1>5, Types DEF EncodesBody

\* EncodeBusinessMessageReject.
LEMMA BusinessMessageRejectBody ==
  ASSUME EncodeBusinessMessageReject
  PROVE  EncodesBody
<1>1. PICK r \in BusinessMessageReject :
        Encode(BUSINESS_MESSAGE_REJECT,
          AppendInt(RefSeqNum, r.ref_seq_num)
            \o AppendFIX(RefMsgType, r.ref_msg_type)
            \o AppendInt(BusinessRejectReason, r.business_reject_reason)
            \o AppendFIX(Text, r.text))
  BY DEF EncodeBusinessMessageReject
<1> DEFINE f1 == AppendInt(RefSeqNum, r.ref_seq_num)
           f2 == AppendFIX(RefMsgType, r.ref_msg_type)
           f3 == AppendInt(BusinessRejectReason, r.business_reject_reason)
           f4 == AppendFIX(Text, r.text)
<1>f1. Body(f1, 16)
  <2>1. r.ref_seq_num \in Int32
    BY Numbers DEF BusinessMessageReject
  <2>2. r.ref_seq_num \in Int
    BY <2>1, IntSizes DEF Int32
  <2> QED
    BY <2>1, <2>2, BodyTags, FieldInt
<1>f2. Piece(f2, 6)
  <2>1. r.ref_msg_type \in Chars(1 + 1)
    BY DEF BusinessMessageReject
  <2>2. Body(AppendFIX(RefMsgType, r.ref_msg_type), 1 + 5) /\ Piece(AppendFIX(RefMsgType, r.ref_msg_type), 1 + 5)
    BY <2>1, BodyTags, FieldChars
  <2> QED
    BY <2>2
<1>f3. Piece(f3, 11)
  <2>1. r.business_reject_reason \in Int16
    BY Numbers DEF BusinessMessageReject
  <2>2. r.business_reject_reason \in Int
    BY <2>1, IntSizes DEF Int16
  <2> QED
    BY <2>1, <2>2, BodyTags, FieldInt
<1>f4. Piece(f4, 64)
  <2>1. r.text \in Chars(59 + 1)
    BY DEF BusinessMessageReject
  <2>2. Body(AppendFIX(Text, r.text), 59 + 5) /\ Piece(AppendFIX(Text, r.text), 59 + 5)
    BY <2>1, BodyTags, FieldChars
  <2> QED
    BY <2>2
<1> HIDE DEF f1, f2, f3, f4
<1>b2. Body(f1 \o f2, 22)
  <2>1. Body(f1 \o f2, 16 + 6)
    BY <1>f1, <1>f2, BodyMore
  <2> QED
    BY <2>1
<1>b3. Body(f1 \o f2 \o f3, 33)
  <2>1. Body(f1 \o f2 \o f3, 22 + 11)
    BY <1>b2, <1>f3, BodyMore
  <2> QED
    BY <2>1
<1>b4. Body(f1 \o f2 \o f3 \o f4, 97)
  <2>1. Body(f1 \o f2 \o f3 \o f4, 33 + 64)
    BY <1>b3, <1>f4, BodyMore
  <2> QED
    BY <2>1
<1> DEFINE b == f1 \o f2 \o f3 \o f4
<1>2. Piece(b, 97) /\ Begins(b)
  BY <1>b4 DEF Body
<1>3. 97 \in Nat /\ 97 <= BodySize
  BY DEF BodySize
<1>4. Encode(BUSINESS_MESSAGE_REJECT, b)
  BY <1>1 DEF f1, f2, f3, f4
<1> HIDE DEF b
<1>5. IsBody(b)
  BY <1>2, <1>3, ShortBody
<1> QED
  BY <1>4, <1>5, Types DEF EncodesBody

\* A function on 1..n is a sequence.
LEMMA ListOf ==
  ASSUME NEW n \in Nat, NEW X, NEW f \in [1..n -> X]
  PROVE  f \in Seq(X) /\ Len(f) = n
<1>1. f \in UNION {[1..k -> X] : k \in Nat}
  OBVIOUS
<1>2. f \in Seq(X)
  BY <1>1, SeqDef, Zenon
<1> QED
  BY <1>2, LenProperties

\* The repeating groups of MarketDataRequest.
LEMMA SymbolFields ==
  ASSUME NEW l \in Seq(Seq(1..255)), \A i \in DOMAIN l : Len(l[i]) < 28
  PROVE  LET s == FlattenSeq([i \in DOMAIN l |-> AppendFIX(Symbol, l[i])])
         IN  s \in Seq(Byte) /\ Len(s) <= 31 * Len(l)
<1> DEFINE ss == [i \in DOMAIN l |-> AppendFIX(Symbol, l[i])]
<1>1. DOMAIN l = 1..Len(l) /\ Len(l) \in Nat
  BY LenProperties
<1>2. ASSUME NEW i \in 1..Len(l)
      PROVE  AppendFIX(Symbol, l[i]) \in Seq(Byte) /\ Len(AppendFIX(Symbol, l[i])) <= 31
  <2>1. l[i] \in Seq(1..255) /\ Len(l[i]) < 28 /\ 1..255 \subseteq Byte
    BY <1>1, ElementOfSeq DEF Byte
  <2>2. l[i] \in Seq(Byte) /\ Len(l[i]) \in Nat
    <3>1. l[i] \in Seq(Byte)
      BY ONLY <2>1, SeqMonotonic, Zenon
    <3> QED
      BY ONLY <3>1, LenProperties, Zenon
  <2>3. Piece(l[i], 27)
    <3> DEFINE w == l[i]
    <3>1. w \in Seq(Byte) /\ Len(w) <= 27
      <4>1. Len(w) \in Nat /\ Len(w) < 28
        BY <2>1, <2>2
      <4> QED
        BY <2>2, <4>1
    <3> HIDE DEF w
    <3>2. Piece(w, 27)
      BY <3>1 DEF Piece
    <3> QED
      BY <3>2 DEF w
  <2>4. Symbol \in Nat /\ Symbol < 100
    BY DEF Symbol
  <2>5. Piece(AppendFIX(Symbol, l[i]), 27 + 4)
    BY <2>3, <2>4, PieceField
  <2> QED
    BY <2>5 DEF Piece
<1>3. ss \in Seq(Seq(Byte)) /\ Len(ss) = Len(l) /\ \A i \in 1..Len(ss) : Len(ss[i]) <= 31
  <2>1. ss = [i \in 1..Len(l) |-> AppendFIX(Symbol, l[i])]
    BY <1>1
  <2>2. ss \in [1..Len(l) -> Seq(Byte)]
    BY <1>2, <2>1
  <2>3. ss \in Seq(Seq(Byte)) /\ Len(ss) = Len(l)
    <3> HIDE DEF ss
    <3> QED
      BY ONLY <1>1, <2>2, ListOf
  <2>4. \A i \in 1..Len(l) : ss[i] = AppendFIX(Symbol, l[i])
    BY <2>1
  <2> HIDE DEF ss
  <2> QED
    BY <1>2, <2>3, <2>4
<1> HIDE DEF ss
<1>4. FlattenSeq(ss) \in Seq(Byte) /\ Len(FlattenSeq(ss)) <= 31 * Len(ss)
  BY <1>3, FlattenType, FlattenLength
<1> QED
  BY <1>3, <1>4 DEF ss

\* The nine MDEntryTypes of every MarketDataRequest.
LEMMA EntryFields ==
  Piece(FlattenSeq([i \in DOMAIN MDEntryTypes |->
                      AppendChar(MDEntryType, MDEntryTypes[i])]), 54)
<1> DEFINE ss == [i \in DOMAIN MDEntryTypes |->
                    AppendChar(MDEntryType, MDEntryTypes[i])]
<1>1. DOMAIN MDEntryTypes = 1..9 /\ \A i \in 1..9 : MDEntryTypes[i] \in Byte
  BY DEF MDEntryTypes, Byte
<1>2. ASSUME NEW i \in 1..9
      PROVE  /\ AppendChar(MDEntryType, MDEntryTypes[i]) \in Seq(Byte)
             /\ Len(AppendChar(MDEntryType, MDEntryTypes[i])) <= 6
  <2>1. Piece(AppendChar(MDEntryType, MDEntryTypes[i]), 6)
    BY <1>1, BodyTags, FieldChar
  <2> QED
    BY <2>1 DEF Piece
<1>3. ss \in Seq(Seq(Byte)) /\ Len(ss) = 9 /\ \A i \in 1..Len(ss) : Len(ss[i]) <= 6
  <2>1. ss = [i \in 1..9 |-> AppendChar(MDEntryType, MDEntryTypes[i])]
    BY <1>1
  <2>2. ss \in [1..9 -> Seq(Byte)]
    BY <1>2, <2>1
  <2>3. ss \in Seq(Seq(Byte)) /\ Len(ss) = 9
    <3> HIDE DEF ss
    <3>1. 9 \in Nat
      OBVIOUS
    <3> QED
      BY ONLY <3>1, <2>2, ListOf
  <2>4. \A i \in 1..9 : ss[i] = AppendChar(MDEntryType, MDEntryTypes[i])
    BY <2>1
  <2> HIDE DEF ss
  <2> QED
    BY <1>2, <2>3, <2>4
<1> HIDE DEF ss
<1>4. FlattenSeq(ss) \in Seq(Byte) /\ Len(FlattenSeq(ss)) <= 6 * Len(ss)
  BY <1>3, FlattenType, FlattenLength
<1>5. 6 * Len(ss) = 54
  BY <1>3
<1>6. Piece(FlattenSeq(ss), 54)
  BY <1>4, <1>5 DEF Piece
<1> QED
  BY <1>6 DEF ss

\* The group of the symbols, with their number before it.
LEMMA SymbolsField ==
  ASSUME NEW l \in SymbolLists, \A i \in DOMAIN l : Len(l[i]) < 28
  PROVE  LET f == IF l = <<>> THEN <<>>
                  ELSE AppendInt(NoRelatedSym, Len(l))
                         \o FlattenSeq([i \in DOMAIN l |-> AppendFIX(Symbol, l[i])])
         IN  f \in Seq(Byte) /\ (SymbolsFit => Len(f) <= 751)
<1> DEFINE n == Len(l)
           s == FlattenSeq([i \in DOMAIN l |-> AppendFIX(Symbol, l[i])])
           c == AppendInt(NoRelatedSym, n)
<1>1. l \in Seq(Seq(1..255)) /\ n \in Nat
  BY Texts, LenProperties
<1>2. s \in Seq(Byte) /\ Len(s) <= 31 * n
  BY <1>1, SymbolFields
<1>3. c = AppendFIX(NoRelatedSym, ToString10[n])
  <2> HIDE DEF n
  <2>1. ~(n < 0)
    BY <1>1
  <2> QED
    BY <2>1 DEF AppendInt
<1>4. c \in Seq(Byte) /\ (n < 100 => Len(c) <= 7)
  <2> DEFINE v == ToString10[n]
  <2> HIDE DEF n
  <2>1. v \in Seq(Digit)
    BY <1>1, ToStringType
  <2>2. v \in Seq(Byte) /\ Len(v) \in Nat
    <3> HIDE DEF v
    <3> QED
      BY <2>1, ByteFacts, SeqMonotonic, LenProperties
  <2>3. n < 100 => Len(v) <= 2
    BY <1>1, ToStringShort DEF Shorter
  <2>4. NoRelatedSym \in Nat /\ NoRelatedSym < 1000
    BY DEF NoRelatedSym
  <2>5. Piece(v, Len(v))
    BY <2>2 DEF Piece
  <2>6. Piece(AppendFIX(NoRelatedSym, v), Len(v) + 5)
    <3> HIDE DEF v
    <3> QED
      BY <2>2, <2>4, <2>5, PieceField
  <2>7. c \in Seq(Byte) /\ Len(c) <= Len(v) + 5 /\ Len(c) \in Nat
    BY <1>3, <2>6, LenProperties DEF Piece
  <2> HIDE DEF v, c
  <2> QED
    BY <2>2, <2>3, <2>7
<1> HIDE DEF s, c, n
<1>5. c \o s \in Seq(Byte) /\ Len(c \o s) = Len(c) + Len(s)
  BY <1>2, <1>4, ConcatProperties
<1>6. ASSUME n <= 24 PROVE Len(c \o s) <= 751
  <2>1. Len(c) \in Nat /\ Len(s) \in Nat /\ Len(c) <= 7 /\ Len(s) <= 31 * n
    BY <1>1, <1>2, <1>4, <1>6, LenProperties
  <2> QED
    BY <1>1, <1>5, <1>6, <2>1
<1>7. SymbolsFit => n <= 24
  BY DEF SymbolsFit, n
<1>8. <<>> \in Seq(Byte) /\ Len(<<>>) = 0
  OBVIOUS
<1> QED
  BY <1>5, <1>6, <1>7, <1>8 DEF s, c, n

\* EncodeMarketDataRequest, whose size depends on the number of symbols.
LEMMA MarketDataRequestBody ==
  ASSUME EncodeMarketDataRequest
  PROVE  EncodesBody
<1>1. PICK r \in MarketDataRequest :
        Encode(MARKET_DATA_REQUEST,
          AppendFIX(MDReqID, r.md_req_id)
            \o AppendChar(SubscriptionRequestType, r.subscription_request_type)
            \o AppendInt(MarketDepth, r.market_depth)
            \o (IF r.subscription_request_type = 1
                THEN AppendChar(MDUpdateType, ZERO + 1) ELSE <<>>)
            \o AppendChar(NoMDEntryTypes, ZERO + 9)
            \o FlattenSeq([i \in DOMAIN MDEntryTypes |->
                             AppendChar(MDEntryType, MDEntryTypes[i])])
            \o (IF r.instrument_details = <<>> THEN <<>>
                ELSE AppendInt(NoRelatedSym, Len(r.instrument_details))
                       \o FlattenSeq([i \in DOMAIN r.instrument_details |->
                                        AppendFIX(Symbol, r.instrument_details[i])])))
  BY DEF EncodeMarketDataRequest
<1> DEFINE f1 == AppendFIX(MDReqID, r.md_req_id)
           f2 == AppendChar(SubscriptionRequestType, r.subscription_request_type)
           f3 == AppendInt(MarketDepth, r.market_depth)
           f4 == IF r.subscription_request_type = 1
                 THEN AppendChar(MDUpdateType, ZERO + 1) ELSE <<>>
           f5 == AppendChar(NoMDEntryTypes, ZERO + 9)
           f6 == FlattenSeq([i \in DOMAIN MDEntryTypes |->
                               AppendChar(MDEntryType, MDEntryTypes[i])])
           f7 == IF r.instrument_details = <<>> THEN <<>>
                 ELSE AppendInt(NoRelatedSym, Len(r.instrument_details))
                        \o FlattenSeq([i \in DOMAIN r.instrument_details |->
                                         AppendFIX(Symbol, r.instrument_details[i])])
<1>f1. Body(f1, 24)
  <2>1. r.md_req_id \in Chars(19 + 1)
    BY DEF MarketDataRequest
  <2>2. Body(AppendFIX(MDReqID, r.md_req_id), 19 + 5)
    BY <2>1, BodyTags, FieldChars
  <2> QED
    BY <2>2
<1>f2. Piece(f2, 6)
  <2>1. r.subscription_request_type \in {0, 1, ZERO, ZERO + 1}
    BY DEF MarketDataRequest
  <2>2. r.subscription_request_type \in Byte
    BY <2>1 DEF Byte, ZERO
  <2> QED
    BY <2>2, BodyTags, FieldChar
<1>f3. Piece(f3, 11)
  <2>1. r.market_depth \in Int16
    BY Numbers DEF MarketDataRequest
  <2>2. r.market_depth \in Int
    BY <2>1, IntSizes DEF Int16
  <2> QED
    BY <2>1, <2>2, BodyTags, FieldInt
<1>f4. Piece(f4, 6)
  <2>1. ZERO + 1 \in Byte
    BY DEF Byte, ZERO
  <2>2. Piece(AppendChar(MDUpdateType, ZERO + 1), 6) /\ Piece(<<>>, 6)
    BY <2>1, BodyTags, FieldChar, PieceEmpty, PieceMore
  <2> QED
    BY <2>2
<1>f5. Piece(f5, 6)
  <2>1. ZERO + 9 \in Byte
    BY DEF Byte, ZERO
  <2> QED
    BY <2>1, BodyTags, FieldChar
<1>f6. Piece(f6, 54)
  BY EntryFields
<1>f7. f7 \in Seq(Byte) /\ (SymbolsFit => Len(f7) <= 751)
  <2> DEFINE l == r.instrument_details
  <2>1. l \in SymbolLists /\ \A i \in DOMAIN l : Len(l[i]) < 28
    BY DEF MarketDataRequest
  <2> QED
    BY <2>1, SymbolsField
<1> HIDE DEF f1, f2, f3, f4, f5, f6, f7
<1>b2. Body(f1 \o f2, 24 + 6)
  BY <1>f1, <1>f2, BodyMore
<1>b3. Body(f1 \o f2 \o f3, (24 + 6) + 11)
  BY <1>b2, <1>f3, BodyMore
<1>b4. Body(f1 \o f2 \o f3 \o f4, ((24 + 6) + 11) + 6)
  BY <1>b3, <1>f4, BodyMore
<1>b5. Body(f1 \o f2 \o f3 \o f4 \o f5, (((24 + 6) + 11) + 6) + 6)
  BY <1>b4, <1>f5, BodyMore
<1>b6. Body(f1 \o f2 \o f3 \o f4 \o f5 \o f6, ((((24 + 6) + 11) + 6) + 6) + 54)
  BY <1>b5, <1>f6, BodyMore
<1> DEFINE m == ((((24 + 6) + 11) + 6) + 6) + 54
           b6 == f1 \o f2 \o f3 \o f4 \o f5 \o f6
           b == b6 \o f7
<1>2. Body(b6, m) /\ m = 107 /\ m \in Nat
  BY <1>b6
<1> HIDE DEF m, b6
<1>3. Len(f7) \in Nat /\ Piece(f7, Len(f7))
  BY <1>f7, LenProperties DEF Piece
<1>4. Body(b, m + Len(f7))
  BY <1>2, <1>3, BodyMore
<1>5. Encode(MARKET_DATA_REQUEST, b)
  BY <1>1 DEF f1, f2, f3, f4, f5, f6, f7, b6
<1> HIDE DEF b
<1>6. b \in Seq(Byte) /\ Begins(b) /\ Len(b) <= m + Len(f7)
  BY <1>4 DEF Body, Piece
<1>7. SymbolsFit => Len(b) <= BodySize
  <2>1. Len(b) \in Nat
    BY <1>6, LenProperties
  <2> QED
    BY <1>2, <1>3, <1>6, <1>f7, <2>1 DEF BodySize
<1>8. IsBody(b)
  BY <1>6, <1>7 DEF IsBody
<1> QED
  BY <1>5, <1>8, Types DEF EncodesBody

\* So every step clears the message or encodes one.
LEMMA Steps ==
  ASSUME Next
  PROVE  Clear \/ EncodesBody
BY HeartBeatBody, LogonBody, TestRequestBody, ResendRequestBody, RejectBody,
   SequenceResetBody, LogoutBody, MarketDataRequestBody,
   SecurityDefinitionRequestBody, BusinessMessageRejectBody DEF Next

-----------------------------------------------------------------------------
(* The invariant: the message was made from the header as it is now. *)

Common == EncodeHeaderCommon(message_header_)

HeaderOK ==
  /\ IsType(message_header_.msg_type)
  /\ message_header_.msg_seq_num \in {0} \cup FirstSeq..next_out_msg_seq_ - 1
  /\ message_header_.sending_time \in FieldText
  /\ Len(message_header_.sending_time) < 22

MadeOfHeader ==
  Encoded =>
    /\ message_header_.msg_seq_num = next_out_msg_seq_ - 1
    /\ \E body : IsBody(body) /\ sending_data_ = EncodeHeaderAndTrailer(Common \o body)

EncodeInv ==
  /\ next_out_msg_seq_ \in FirstSeq..MaxSeq
  /\ HeaderOK
  /\ MadeOfHeader

\* What %03d writes.
LEMMA ThreeDigits ==
  ASSUME NEW n \in 0..999
  PROVE  Digits3(n) \in Seq(Digit) /\ Len(Digits3(n)) = 3
<1>1. ZERO + (n \div 100) \in Digit
  BY DEF Digit, ZERO
<1>2. ZERO + ((n % 100) \div 10) \in Digit
  BY DEF Digit, ZERO
<1>3. ZERO + (n % 10) \in Digit
  BY DEF Digit, ZERO
<1> DEFINE a == ZERO + (n \div 100)
           b == ZERO + ((n % 100) \div 10)
           c == ZERO + (n % 10)
<1>4. Digits3(n) = <<a, b, c>>
  BY DEF Digits3
<1> HIDE DEF a, b, c
<1> QED
  BY <1>1, <1>2, <1>3, <1>4 DEF a, b, c

\* getCurrentDateTime fits sending_time with its zero, and can be read back.
LEMMA TimeText ==
  ASSUME NEW t \in Times
  PROVE  getCurrentDateTime(t) \in FieldText /\ Len(getCurrentDateTime(t)) < 22
<1> DEFINE X == 1..255 \ {SOH, EQUAL}
           d == Digits3(t.milli)
           p == <<DOT>>
           u == t.buf
<1>1. u \in Seq(X) /\ Len(u) = 17 /\ t.milli \in 0..999
  BY Texts DEF FieldText
<1>2. p \in Seq(X) /\ Len(p) = 1
  <2>1. DOT \in X
    BY DEF DOT, SOH, EQUAL
  <2> HIDE DEF X
  <2> QED
    BY <2>1
<1>3. d \in Seq(X) /\ Len(d) = 3
  <2>1. Digit \subseteq X
    BY DEF Digit, ZERO, SOH, EQUAL
  <2>2. d \in Seq(Digit) /\ Len(d) = 3
    <3>1. t.milli \in 0..999
      BY <1>1
    <3> QED
      BY ONLY <3>1, ThreeDigits, ZenonT(40)
  <2> HIDE DEF X, d
  <2> QED
    BY <2>1, <2>2, SeqMonotonic
<1>4. getCurrentDateTime(t) = (u \o p) \o d
  BY DEF getCurrentDateTime
<1> HIDE DEF X, d, p, u
<1>5. u \o p \in Seq(X) /\ Len(u \o p) = Len(u) + Len(p)
  <2>1. /\ u \o p \in Seq(X) /\ Len(u \o p) = Len(u) + Len(p)
        /\ \A i \in 1..Len(u) + Len(p) :
             (u \o p)[i] = IF i <= Len(u) THEN u[i] ELSE p[i - Len(u)]
    <3>1. u \in Seq(X) /\ p \in Seq(X)
      BY <1>1, <1>2
    <3> QED
      BY ONLY <3>1, ConcatProperties, ZenonT(40)
  <2> QED
    BY ONLY <2>1, Zenon
<1> DEFINE w == u \o p
<1>6. w \in Seq(X) /\ Len(w) = 18
  BY <1>1, <1>2, <1>5
<1> HIDE DEF w
<1>7. w \o d \in Seq(X) /\ Len(w \o d) = Len(w) + Len(d)
  BY <1>3, <1>6, ConcatProperties
<1>8. w \o d \in Seq(X) /\ Len(w \o d) < 22
  BY <1>3, <1>6, <1>7
<1>9. getCurrentDateTime(t) = w \o d
  BY <1>4 DEF w
<1> QED
  BY <1>8, <1>9 DEF X, FieldText

\* Nothing is encoded yet.
LEMMA EncodeInit ==
  ASSUME Init
  PROVE  EncodeInv
<1>1. /\ next_out_msg_seq_ = FirstSeq
      /\ message_header_ = [msg_type |-> <<>>, msg_seq_num |-> 0, sending_time |-> <<>>]
      /\ sending_data_ = <<>>
  BY DEF Init
<1>2. <<>> \in FieldText /\ Len(<<>>) = 0
  BY DEF FieldText
<1>3. HeaderOK
  BY <1>1, <1>2 DEF HeaderOK, IsType
<1>4. MadeOfHeader
  BY <1>1 DEF MadeOfHeader, Encoded
<1> QED
  BY <1>1, <1>3, <1>4, Limits DEF EncodeInv

\* Each encoder makes one message of the header it has stamped; Clear takes it away.
LEMMA EncodeStep ==
  ASSUME EncodeInv, [Next]_encodeVars
  PROVE  EncodeInv'
<1>1. CASE Clear
  <2>1. sending_data_' = <<>> /\ UNCHANGED <<next_out_msg_seq_, message_header_>>
    BY <1>1 DEF Clear
  <2>2. HeaderOK'
    BY <2>1 DEF EncodeInv, HeaderOK
  <2>3. MadeOfHeader'
    BY <2>1 DEF MadeOfHeader, Encoded
  <2> QED
    BY <2>1, <2>2, <2>3 DEF EncodeInv
<1>2. CASE EncodesBody
  <2>1. PICK type, body : IsType(type) /\ IsBody(body) /\ Encode(type, body)
    BY <1>2 DEF EncodesBody
  <2>2. /\ next_out_msg_seq_ < MaxSeq /\ next_out_msg_seq_' = next_out_msg_seq_ + 1
        /\ sending_data_' = EncodeHeaderAndTrailer(Common' \o body)
    BY <2>1 DEF Encode, GetNextOutMsgSeq, Common, EncodeHeaderCommon
  <2>3. PICK t \in Times :
          message_header_' = [msg_type |-> type, msg_seq_num |-> next_out_msg_seq_,
                              sending_time |-> getCurrentDateTime(t)]
    BY <2>1 DEF Encode
  <2>4. /\ message_header_'.msg_type = type
        /\ message_header_'.msg_seq_num = next_out_msg_seq_
        /\ message_header_'.sending_time = getCurrentDateTime(t)
    BY <2>3
  <2>5. next_out_msg_seq_ \in Nat /\ FirstSeq <= next_out_msg_seq_
    BY Limits DEF EncodeInv
  <2>6. /\ next_out_msg_seq_' \in FirstSeq..MaxSeq
        /\ next_out_msg_seq_ \in FirstSeq..next_out_msg_seq_' - 1
        /\ next_out_msg_seq_ = next_out_msg_seq_' - 1
    BY <2>2, <2>5, Limits
  <2>7. HeaderOK'
    BY <2>1, <2>4, <2>6, TimeText DEF HeaderOK
  <2>8. MadeOfHeader'
    BY <2>1, <2>2, <2>4, <2>6 DEF MadeOfHeader
  <2> QED
    BY <2>6, <2>7, <2>8 DEF EncodeInv
<1>3. CASE UNCHANGED encodeVars
  <2>1. UNCHANGED <<next_out_msg_seq_, message_header_, sending_data_>>
    BY <1>3 DEF encodeVars
  <2>2. HeaderOK'
    BY <2>1 DEF EncodeInv, HeaderOK
  <2>3. MadeOfHeader'
    BY <2>1 DEF EncodeInv, MadeOfHeader, Encoded, Common, EncodeHeaderCommon
  <2> QED
    BY <2>1, <2>2, <2>3 DEF EncodeInv
<1> QED
  BY <1>1, <1>2, <1>3, Steps

\* At any time sending_data_ is empty or one whole message, made of the header that
\* message_header_ still holds and numbered one before the next (message_encode's
\* encoders with encodeHeaderCommon and encodeHeaderAndTrailer).
THEOREM EncodeInvariant == Spec => []EncodeInv
<1>1. Init => EncodeInv
  BY EncodeInit
<1>2. EncodeInv /\ [Next]_encodeVars => EncodeInv'
  BY EncodeStep
<1> QED
  BY <1>1, <1>2, PTL DEF Spec

-----------------------------------------------------------------------------
(* The bytes of the message. *)

\* The header fields that encodeHeaderCommon writes, in its order.
FieldOf(tag) == AppendFIX(tag, HeaderField[tag])

\* A value that can be read back, of at most k bytes.
HeaderValue(tag, k) == Readable(tag, HeaderField[tag]) /\ Piece(HeaderField[tag], k)

\* A text that main or the clock gives can be read back, and has its length.
LEMMA TextValue ==
  ASSUME NEW tag, tag \in HeaderTags, NEW v, v \in FieldText,
         NEW k \in Nat, Len(v) < k + 1
  PROVE  Readable(tag, v) /\ Piece(v, k)
<1> DEFINE X == 1..255 \ {SOH, EQUAL}
<1>1. v \in Seq(X) /\ X \subseteq Byte
  BY DEF FieldText, Byte
<1>2. \A i \in 1..Len(v) : v[i] # SOH /\ v[i] # EQUAL
  <2>1. \A i \in 1..Len(v) : v[i] \in X
    <3> HIDE DEF X
    <3> QED
      BY <1>1, ElementOfSeq
  <2> QED
    BY <2>1
<1> HIDE DEF X
<1>3. v \in Seq(Byte)
  BY <1>1, SeqMonotonic
<1>4. v \in Seq(Nat) /\ Len(v) \in Nat
  BY <1>3, ByteFacts, LenProperties
<1> QED
  BY <1>2, <1>3, <1>4 DEF Readable, Piece

\* The tags encodeHeaderCommon writes are header tags for DecodeHeader.
LEMMA HeaderTagsAre ==
  /\ {BeginString, BodyLength, MsgType, MsgSeqNum, SendingTime} \subseteq HeaderTags
  /\ CompIDTags \subseteq HeaderTags
  /\ \A tag \in HeaderTags : tag \in Nat /\ tag < 1000
BY DEF HeaderTags, CompIDTags, BeginString, BodyLength, MsgType, SenderCompID,
       TargetCompID, MsgSeqNum, SenderSubID, TargetSubID, PossDupFlag, PossResend,
       SendingTime, OrigSendingTime

\* The arrays of MessageHeader.
LEMMA HeaderSizes ==
  /\ HeaderSize[MsgType] = 2 /\ HeaderSize[SendingTime] = 22
  /\ \A tag \in CompIDTags : HeaderSize[tag] = 16
<1> DEFINE T == {BeginString, MsgType, SendingTime, OrigSendingTime} \cup CompIDTags
           Size(tag) == CASE tag = BeginString -> 12
                          [] tag = MsgType -> 2
                          [] tag \in {SendingTime, OrigSendingTime} -> 22
                          [] OTHER -> 16
<1>1. /\ MsgType # BeginString /\ SendingTime # BeginString /\ SendingTime # MsgType
      /\ MsgType \notin {SendingTime, OrigSendingTime}
      /\ \A tag \in CompIDTags :
           tag \notin {BeginString, MsgType, SendingTime, OrigSendingTime}
  BY DEF CompIDTags, BeginString, MsgType, SendingTime, OrigSendingTime,
         SenderCompID, SenderSubID, TargetCompID, TargetSubID
<1>2. \A tag \in T : HeaderSize[tag] = Size(tag)
  BY DEF HeaderSize
<1>3. MsgType \in T /\ SendingTime \in T /\ CompIDTags \subseteq T
  OBVIOUS
<1>4. Size(MsgType) = 2 /\ Size(SendingTime) = 22
  BY <1>1
<1>5. \A tag \in CompIDTags : Size(tag) = 16
  BY <1>1
<1> HIDE DEF T, Size
<1> QED
  BY <1>2, <1>3, <1>4, <1>5

\* What each field of the header must be read back as.
LEMMA HeaderFieldIs ==
  /\ HeaderField[MsgType] = message_header_.msg_type
  /\ HeaderField[MsgSeqNum] = ToString10[message_header_.msg_seq_num]
  /\ HeaderField[SendingTime] = message_header_.sending_time
  /\ \A tag \in CompIDTags : HeaderField[tag] = CompIDs[tag]
  /\ DOMAIN HeaderField = {MsgType, MsgSeqNum, SendingTime} \cup CompIDTags
<1>1. /\ MsgType # SendingTime /\ MsgType # MsgSeqNum /\ MsgSeqNum # SendingTime
      /\ MsgType \notin CompIDTags /\ SendingTime \notin CompIDTags
      /\ MsgSeqNum \notin CompIDTags
  BY DEF CompIDTags, MsgType, MsgSeqNum, SendingTime, SenderCompID, SenderSubID,
         TargetCompID, TargetSubID
<1> QED
  BY <1>1 DEF HeaderField

\* All of it can be read back, and fits the arrays it is read into.
LEMMA HeaderValues ==
  ASSUME EncodeInv
  PROVE  /\ HeaderValue(MsgType, 1) /\ HeaderValue(MsgSeqNum, 10)
         /\ HeaderValue(SendingTime, 21)
         /\ \A tag \in CompIDTags : HeaderValue(tag, 15)
         /\ message_header_.msg_seq_num \in Nat
<1>1. HeaderValue(MsgType, 1)
  <2>1. /\ message_header_.msg_type \in FieldText
        /\ Len(message_header_.msg_type) < 1 + 1
    BY DEF EncodeInv, HeaderOK, IsType
  <2> QED
    BY <2>1, HeaderFieldIs, HeaderTagsAre, TextValue DEF HeaderValue
<1>2. HeaderValue(SendingTime, 21)
  <2>1. /\ message_header_.sending_time \in FieldText
        /\ Len(message_header_.sending_time) < 21 + 1
    BY DEF EncodeInv, HeaderOK
  <2> QED
    BY <2>1, HeaderFieldIs, HeaderTagsAre, TextValue DEF HeaderValue
<1>3. ASSUME NEW tag \in CompIDTags PROVE HeaderValue(tag, 15)
  <2>1. CompIDs[tag] \in FieldText /\ Len(CompIDs[tag]) < 15 + 1
    BY Texts, HeaderSizes
  <2> QED
    BY <2>1, HeaderFieldIs, HeaderTagsAre, TextValue DEF HeaderValue
<1> DEFINE n == message_header_.msg_seq_num
           v == ToString10[n]
<1>4. n \in Nat /\ n <= IntSize
  <2>1. n \in {0} \cup FirstSeq..next_out_msg_seq_ - 1
    BY DEF EncodeInv, HeaderOK
  <2>2. next_out_msg_seq_ \in Nat /\ next_out_msg_seq_ <= MaxSeq
    BY Limits DEF EncodeInv
  <2> HIDE DEF n
  <2> QED
    BY <2>1, <2>2, Limits, IntSizes
<1>5. HeaderValue(MsgSeqNum, 10)
  <2> HIDE DEF n
  <2>1. Piece(v, 10)
    BY <1>4, DigitsOfInt
  <2>2. v \in Seq(Digit)
    BY <1>4, ToStringType
  <2> HIDE DEF v
  <2>3. \A i \in 1..Len(v) : v[i] # SOH /\ v[i] # EQUAL
    <3>1. \A i \in 1..Len(v) : v[i] \in Digit
      BY <2>2, ElementOfSeq
    <3>2. SOH \notin Digit /\ EQUAL \notin Digit
      BY DEF Digit, ZERO, SOH, EQUAL
    <3> QED
      BY <3>1, <3>2
  <2>4. v \in Seq(Nat)
    BY <2>1, ByteFacts DEF Piece
  <2>5. Readable(MsgSeqNum, v)
    BY <2>3, <2>4, HeaderTagsAre DEF Readable
  <2> QED
    BY <2>1, <2>5, HeaderFieldIs DEF HeaderValue, v, n
<1> QED
  BY <1>1, <1>2, <1>3, <1>4, <1>5

\* encodeHeaderCommon writes these fields; there are 21 bytes at least.
LEMMA FieldSize ==
  ASSUME NEW tag, NEW k \in Nat, HeaderValue(tag, k), tag < 100
  PROVE  Piece(FieldOf(tag), k + 4) /\ Len(FieldOf(tag)) >= 3
<1> DEFINE v == HeaderField[tag]
           a == Len(ToString10[tag])
           f == AppendFIX(tag, v)
<1>1. tag \in Nat /\ Piece(v, k)
  BY HeaderTagsAre DEF HeaderValue, Readable
<1>2. Piece(f, k + 4)
  <2> HIDE DEF v
  <2> QED
    BY <1>1, PieceField
<1>3. v \in Seq(Byte) /\ Len(v) \in Nat
  BY <1>1, LenProperties DEF Piece
<1>4. a \in Nat /\ a >= 1
  <2>1. a \in 1..(tag \div 10) + 1 /\ ToString10[tag] \in Seq(Digit)
    BY <1>1, ToStringType
  <2> QED
    BY <2>1, LenProperties
<1>5. Len(f) = (a + Len(v)) + 2
  <2> HIDE DEF v
  <2> QED
    BY <1>1, <1>3, FieldShape, Zenon
<1> HIDE DEF a, f
<1>6. Len(f) >= 3
  BY <1>3, <1>4, <1>5
<1> QED
  BY <1>2, <1>6 DEF FieldOf, f

\* The common header: its fields in their order, and their size.
LEMMA CommonBytes ==
  ASSUME EncodeInv
  PROVE  /\ Common = ((((((FieldOf(MsgType) \o FieldOf(MsgSeqNum))
                       \o FieldOf(SenderCompID)) \o FieldOf(SenderSubID))
                       \o FieldOf(SendingTime)) \o FieldOf(TargetCompID))
                       \o FieldOf(TargetSubID))
         /\ Common \in Seq(Byte) /\ Len(Common) \in 16..120
<1> DEFINE f1 == FieldOf(MsgType)
           f2 == FieldOf(MsgSeqNum)
           f3 == FieldOf(SenderCompID)
           f4 == FieldOf(SenderSubID)
           f5 == FieldOf(SendingTime)
           f6 == FieldOf(TargetCompID)
           f7 == FieldOf(TargetSubID)
<1>1. Common = f1 \o f2 \o f3 \o f4 \o f5 \o f6 \o f7
  <2>1. AppendInt(MsgSeqNum, message_header_.msg_seq_num) = f2
    <3> DEFINE n == message_header_.msg_seq_num
    <3>1. n \in Nat
      BY HeaderValues
    <3>2. ~(n < 0)
      BY <3>1
    <3> HIDE DEF n
    <3>3. AppendInt(MsgSeqNum, n) = AppendFIX(MsgSeqNum, ToString10[n])
      BY <3>2 DEF AppendInt
    <3> QED
      BY <3>3, HeaderFieldIs DEF FieldOf, n
  <2>2. /\ f1 = AppendFIX(MsgType, message_header_.msg_type)
        /\ f5 = AppendFIX(SendingTime, message_header_.sending_time)
    BY HeaderFieldIs DEF FieldOf
  <2>3. \A tag \in CompIDTags : FieldOf(tag) = AppendFIX(tag, CompIDs[tag])
    BY HeaderFieldIs DEF FieldOf
  <2>4. /\ f3 = AppendFIX(SenderCompID, CompIDs[SenderCompID])
        /\ f4 = AppendFIX(SenderSubID, CompIDs[SenderSubID])
        /\ f6 = AppendFIX(TargetCompID, CompIDs[TargetCompID])
        /\ f7 = AppendFIX(TargetSubID, CompIDs[TargetSubID])
    BY <2>3 DEF CompIDTags
  <2> HIDE DEF f1, f2, f3, f4, f5, f6, f7
  <2> QED
    BY <2>1, <2>2, <2>4 DEF Common, EncodeHeaderCommon
<1>2. /\ MsgType < 100 /\ MsgSeqNum < 100 /\ SenderCompID < 100 /\ SenderSubID < 100
      /\ SendingTime < 100 /\ TargetCompID < 100 /\ TargetSubID < 100
  BY DEF MsgType, MsgSeqNum, SenderCompID, SenderSubID, SendingTime, TargetCompID,
         TargetSubID
<1>a. \A tag \in CompIDTags : HeaderValue(tag, 15)
  BY HeaderValues
<1>b. /\ SenderCompID \in CompIDTags /\ SenderSubID \in CompIDTags
      /\ TargetCompID \in CompIDTags /\ TargetSubID \in CompIDTags
  BY DEF CompIDTags
<1>f1. Piece(f1, 1 + 4) /\ Len(f1) >= 3
  BY <1>2, HeaderValues, FieldSize
<1>f2. Piece(f2, 10 + 4) /\ Len(f2) >= 3
  BY <1>2, HeaderValues, FieldSize
<1>f3. Piece(f3, 15 + 4) /\ Len(f3) >= 3
  BY <1>2, <1>a, <1>b, FieldSize
<1>f4. Piece(f4, 15 + 4) /\ Len(f4) >= 3
  BY <1>2, <1>a, <1>b, FieldSize
<1>f5. Piece(f5, 21 + 4) /\ Len(f5) >= 3
  BY <1>2, HeaderValues, FieldSize
<1>f6. Piece(f6, 15 + 4) /\ Len(f6) >= 3
  BY <1>2, <1>a, <1>b, FieldSize
<1>f7. Piece(f7, 15 + 4) /\ Len(f7) >= 3
  BY <1>2, <1>a, <1>b, FieldSize
<1> HIDE DEF f1, f2, f3, f4, f5, f6, f7
<1>3. \A x, y : \A j, k, m, n \in Nat :
        Piece(x, j) /\ Len(x) >= m /\ Piece(y, k) /\ Len(y) >= n
          => Piece(x \o y, j + k) /\ Len(x \o y) >= m + n
  <2> TAKE x, y
  <2> TAKE j, k, m, n \in Nat
  <2> HAVE Piece(x, j) /\ Len(x) >= m /\ Piece(y, k) /\ Len(y) >= n
  <2>1. Piece(x \o y, j + k)
    BY PieceJoin
  <2>2. x \in Seq(Byte) /\ y \in Seq(Byte)
    BY DEF Piece
  <2>3. Len(x) \in Nat /\ Len(y) \in Nat /\ Len(x \o y) = Len(x) + Len(y)
    BY <2>2, LenProperties, ConcatProperties
  <2>4. Len(x \o y) >= m + n
    BY <2>3
  <2> QED
    BY <2>1, <2>4
<1> DEFINE s2 == f1 \o f2
           s3 == s2 \o f3
           s4 == s3 \o f4
           s5 == s4 \o f5
           s6 == s5 \o f6
           s7 == s6 \o f7
<1>s2. Piece(s2, 5 + 14) /\ Len(s2) >= 3 + 3
  BY <1>f1, <1>f2, <1>3
<1> HIDE DEF s2
<1>s3. Piece(s3, 19 + 19) /\ Len(s3) >= 6 + 3
  BY <1>s2, <1>f3, <1>3
<1> HIDE DEF s3
<1>s4. Piece(s4, 38 + 19) /\ Len(s4) >= 9 + 3
  BY <1>s3, <1>f4, <1>3
<1> HIDE DEF s4
<1>s5. Piece(s5, 57 + 25) /\ Len(s5) >= 12 + 3
  BY <1>s4, <1>f5, <1>3
<1> HIDE DEF s5
<1>s6. Piece(s6, 82 + 19) /\ Len(s6) >= 15 + 3
  BY <1>s5, <1>f6, <1>3
<1> HIDE DEF s6
<1>s7. Piece(s7, 101 + 19) /\ Len(s7) >= 18 + 3
  BY <1>s6, <1>f7, <1>3
<1> HIDE DEF s7
<1>4. s7 \in Seq(Byte) /\ Len(s7) \in 16..120
  <2>1. s7 \in Seq(Byte) /\ Len(s7) \in Nat /\ Len(s7) <= 120 /\ Len(s7) >= 16
    BY <1>s7, LenProperties DEF Piece
  <2> DEFINE n == Len(s7)
  <2> HIDE DEF n
  <2>2. n \in 16..120
    <3>1. n \in Nat /\ n <= 120 /\ n >= 16
      BY <2>1, Zenon DEF n
    <3> QED
      BY <3>1
  <2> QED
    BY <2>1, <2>2 DEF n
<1>5. Common = s7
  BY <1>1 DEF s2, s3, s4, s5, s6, s7
<1>6. Common \in Seq(Byte) /\ Len(Common) \in 16..120
  BY ONLY <1>4, <1>5, Zenon
<1> QED
  BY ONLY <1>1, <1>6, Zenon DEF f1, f2, f3, f4, f5, f6, f7

\* What encodeHeaderAndTrailer puts in front of the bytes b and behind them.
HeaderOf(b) ==
  AppendFIX(BeginString, FIX_VER_44) \o AppendFIX(BodyLength, ToString10[Len(b)])
Framed(b) == HeaderOf(b) \o b
CheckDigits(b) == CheckSumDigits(SumOfBytes(Framed(b)))
Trailer(b) == AppendFIX(CheckSum, CheckDigits(b))

Whole(b) ==
  /\ b \in Seq(Byte) /\ Len(b) \in Nat /\ Len(b) >= 16
  /\ HeaderOf(b) \in Seq(Byte) /\ Len(HeaderOf(b)) = HeaderRoom(Len(b))
  /\ Framed(b) \in Seq(Byte) /\ Len(Framed(b)) = Len(HeaderOf(b)) + Len(b)
  /\ CheckDigits(b) \in Seq(Digit) /\ Len(CheckDigits(b)) = 3
  /\ Trailer(b) \in Seq(Byte) /\ Len(Trailer(b)) = 7
  /\ EncodeHeaderAndTrailer(b) = Framed(b) \o Trailer(b)

\* A sum of bytes is a natural number.
LEMMA SumType ==
  ASSUME NEW s \in Seq(Nat)
  PROVE  SumOfBytes(s) \in Nat
<1>1. PICK pre \in [0..Len(s) -> Nat] : SumRun(pre, s)
  BY SumRunExists
<1>2. SumOfBytes(s) = pre[Len(s)]
  BY <1>1, SumOfBytesIs
<1>3. Len(s) \in 0..Len(s)
  BY LenProperties
<1> QED
  BY <1>2, <1>3

\* The CheckSum's tag takes two bytes.
LEMMA TenDigits == Len(ToString10[CheckSum]) = 2
<1>1. CheckSum \in Nat /\ ~(CheckSum < 10) /\ CheckSum \div 10 = 1 /\ 1 \in Nat /\ 1 < 10
  BY DEF CheckSum
<1>2. ToString10[CheckSum] = Append(ToString10[CheckSum \div 10], ZERO + (CheckSum % 10))
  BY <1>1, ToStringUnfolds
<1>3. ToString10[1] = <<ZERO + 1>>
  BY <1>1, ToStringUnfolds
<1>4. ToString10[CheckSum] = Append(<<ZERO + 1>>, ZERO + (CheckSum % 10))
  BY <1>1, <1>2, <1>3
<1> DEFINE x == ZERO + 1
           y == ZERO + (CheckSum % 10)
<1> HIDE DEF x, y
<1>5. Len(Append(<<x>>, y)) = 2
  OBVIOUS
<1> QED
  BY <1>4, <1>5 DEF x, y

\* encodeHeaderAndTrailer puts header and trailer around any bytes that are long
\* enough.
LEMMA WholeMessage ==
  ASSUME NEW b, b \in Seq(Byte), Len(b) >= 16
  PROVE  Whole(b)
<1>1. Len(b) \in Nat
  BY LenProperties
<1>2. /\ HeaderOf(b) \in Seq(Byte) /\ Len(HeaderOf(b)) = HeaderRoom(Len(b))
  <2> DEFINE n == Len(b)
  <2> HIDE DEF n
  <2>1. LET header == AppendFIX(BeginString, FIX_VER_44)
                        \o AppendFIX(BodyLength, ToString10[n])
        IN  /\ header \in Seq(Byte) /\ Len(header) = HeaderRoom(n)
            /\ HeaderRoom(n) \in Nat /\ HeaderRoom(n) <= n
    <3>1. n \in Nat /\ n >= 16
      BY <1>1 DEF n
    <3> QED
      BY ONLY <3>1, ByteFacts, HeaderLength, Zenon
  <2> QED
    BY <2>1 DEF HeaderOf, n
<1>3. Framed(b) \in Seq(Byte) /\ Len(Framed(b)) = Len(HeaderOf(b)) + Len(b)
  BY <1>2, ConcatProperties DEF Framed
<1>4. CheckDigits(b) \in Seq(Digit) /\ Len(CheckDigits(b)) = 3
  <2> DEFINE m == SumOfBytes(Framed(b))
             k == m % 256
  <2>1. m \in Nat
    BY <1>3, ByteFacts, SumType
  <2>2. k \in 0..999
    <3> HIDE DEF m
    <3> QED
      BY <2>1
  <2>3. CheckDigits(b) = Digits3(k)
    BY DEF CheckDigits, CheckSumDigits
  <2> HIDE DEF k
  <2>4. Digits3(k) \in Seq(Digit) /\ Len(Digits3(k)) = 3
    BY ONLY <2>2, ThreeDigits, ZenonT(40)
  <2> QED
    BY ONLY <2>3, <2>4, Zenon
<1>5. Trailer(b) \in Seq(Byte) /\ Len(Trailer(b)) = 7
  <2> DEFINE v == CheckDigits(b)
  <2>1. v \in Seq(Byte) /\ Len(v) = 3
    BY <1>4, ByteFacts, SeqMonotonic
  <2> HIDE DEF v
  <2>2. CheckSum \in Nat
    BY DEF CheckSum
  <2>3. AppendFIX(CheckSum, v) \in Seq(Byte)
    BY <2>1, <2>2, FieldShape, Zenon
  <2>4. Len(AppendFIX(CheckSum, v)) = (Len(ToString10[CheckSum]) + Len(v)) + 2
    BY <2>1, <2>2, FieldShape, Zenon
  <2>5. Len(AppendFIX(CheckSum, v)) = 7
    BY <2>1, <2>4, TenDigits
  <2> QED
    BY <2>3, <2>5 DEF Trailer, v
<1>6. EncodeHeaderAndTrailer(b) = Framed(b) \o Trailer(b)
  <2>1. LET header == AppendFIX(BeginString, FIX_VER_44)
                        \o AppendFIX(BodyLength, ToString10[Len(b)])
            framed == header \o b
        IN  EncodeHeaderAndTrailer(b)
              = framed \o AppendFIX(CheckSum, CheckSumDigits(SumOfBytes(framed)))
    BY ONLY b \in Seq(Byte), Len(b) >= 16, ByteFacts, EncodeShape, Zenon
  <2> QED
    BY <2>1, Zenon DEF HeaderOf, Framed, CheckDigits, Trailer
<1> QED
  BY <1>1, <1>2, <1>3, <1>4, <1>5, <1>6 DEF Whole

\* The message encoded last.
LEMMA MessageIs ==
  ASSUME EncodeInv, Encoded
  PROVE  \E body :
           /\ IsBody(body) /\ Whole(Common \o body)
           /\ Len(Common \o body) = Len(Common) + Len(body)
           /\ sending_data_ = Framed(Common \o body) \o Trailer(Common \o body)
           /\ message_header_.msg_seq_num = next_out_msg_seq_ - 1
<1>1. PICK body : IsBody(body) /\ sending_data_ = EncodeHeaderAndTrailer(Common \o body)
  BY DEF EncodeInv, MadeOfHeader
<1> DEFINE b == Common \o body
<1>2. /\ Common \in Seq(Byte) /\ body \in Seq(Byte)
      /\ Len(Common) \in 16..120 /\ Len(body) \in Nat
  BY <1>1, CommonBytes, LenProperties DEF IsBody
<1>3. b \in Seq(Byte) /\ Len(b) = Len(Common) + Len(body)
  BY <1>2, ConcatProperties
<1> HIDE DEF b
<1>4. Len(b) >= 16
  <2> DEFINE c == Len(Common)
             m == Len(body)
             n == Len(b)
  <2>1. n = c + m /\ c \in 16..120 /\ m \in Nat
    BY <1>2, <1>3, Zenon
  <2> HIDE DEF c, m, n
  <2>2. n >= 16
    BY <2>1
  <2> QED
    BY <2>2 DEF n
<1>5. Whole(b)
  BY <1>3, <1>4, WholeMessage
<1>6. sending_data_ = Framed(b) \o Trailer(b)
  BY <1>1, <1>5 DEF Whole, b
<1>7. message_header_.msg_seq_num = next_out_msg_seq_ - 1
  BY DEF EncodeInv, MadeOfHeader
<1> QED
  BY <1>1, <1>3, <1>5, <1>6, <1>7 DEF b

\* The message is seven bytes longer than what it sums.
LEMMA MessageBytes ==
  ASSUME NEW b, Whole(b)
  PROVE  LET d == Framed(b) \o Trailer(b)
         IN  d \in Seq(Byte) /\ Len(d) = Len(Framed(b)) + 7
<1>1. /\ Framed(b) \in Seq(Byte) /\ Trailer(b) \in Seq(Byte) /\ Len(Trailer(b)) = 7
  BY DEF Whole
<1> DEFINE f == Framed(b)
           t == Trailer(b)
<1> HIDE DEF f, t
<1>2. f \in Seq(Byte) /\ t \in Seq(Byte) /\ Len(t) = 7
  BY <1>1 DEF f, t
<1>3. f \o t \in Seq(Byte) /\ Len(f \o t) = Len(f) + Len(t)
  BY <1>2, ConcatProperties
<1>4. f \o t \in Seq(Byte) /\ Len(f \o t) = Len(f) + 7
  BY <1>2, <1>3
<1> QED
  BY <1>4 DEF f, t

-----------------------------------------------------------------------------
(* Types and sizes. *)

\* The invariant gives the types.
LEMMA TypesHold ==
  ASSUME EncodeInv
  PROVE  EncodeTypeOK
<1>1. next_out_msg_seq_ \in FirstSeq..MaxSeq
  BY DEF EncodeInv
<1>2. message_header_.msg_seq_num \in {0} \cup FirstSeq..next_out_msg_seq_ - 1
  BY DEF EncodeInv, HeaderOK
<1>3. sending_data_ \in Seq(Byte)
  <2>1. CASE Encoded
    <3>1. PICK body : /\ Whole(Common \o body)
                      /\ sending_data_ = Framed(Common \o body) \o Trailer(Common \o body)
      BY <2>1, MessageIs
    <3> QED
      BY <3>1, MessageBytes
  <2>2. CASE ~Encoded
    BY <2>2 DEF Encoded
  <2> QED
    BY <2>1, <2>2
<1>4. \A i \in DOMAIN sending_data_ : sending_data_[i] \in 0..255
  <2>1. \A i \in 1..Len(sending_data_) : sending_data_[i] \in Byte
    BY <1>3, ElementOfSeq
  <2>2. DOMAIN sending_data_ = 1..Len(sending_data_)
    BY <1>3, LenProperties
  <2> QED
    BY <2>1, <2>2, Zenon DEF Byte
<1>5. ASSUME NEW tag \in DOMAIN HeaderField \ {MsgSeqNum}
      PROVE  Len(HeaderField[tag]) < HeaderSize[tag]
  <2>1. CASE tag = MsgType
    <3>1. Len(message_header_.msg_type) < 2
      BY DEF EncodeInv, HeaderOK, IsType
    <3> QED
      BY <2>1, <3>1, HeaderFieldIs, HeaderSizes
  <2>2. CASE tag = SendingTime
    <3>1. Len(message_header_.sending_time) < 22
      BY DEF EncodeInv, HeaderOK
    <3> QED
      BY <2>2, <3>1, HeaderFieldIs, HeaderSizes
  <2>3. CASE tag \in CompIDTags
    BY <2>3, Texts, HeaderFieldIs
  <2> QED
    BY <2>1, <2>2, <2>3, HeaderFieldIs
<1> QED
  BY <1>1, <1>2, <1>4, <1>5 DEF EncodeTypeOK

\* The invariant and a bound on the number of symbols give the size.
LEMMA SizeHolds ==
  ASSUME EncodeInv, SymbolsFit
  PROVE  FitsBuffer
<1>1. CASE Encoded
  <2>1. PICK body :
          /\ IsBody(body) /\ Whole(Common \o body)
          /\ Len(Common \o body) = Len(Common) + Len(body)
          /\ sending_data_ = Framed(Common \o body) \o Trailer(Common \o body)
    BY <1>1, MessageIs
  <2> DEFINE b == Common \o body
             n == Len(b)
             h == Len(HeaderOf(b))
             L == Len(sending_data_)
  <2>2. n \in Nat /\ n <= 978
    <3>1. Len(Common) \in 16..120 /\ body \in Seq(Byte) /\ Len(body) <= BodySize
      BY <2>1, CommonBytes DEF IsBody
    <3>2. Len(body) \in Nat
      BY <3>1, LenProperties
    <3>3. BodySize = 858
      BY DEF BodySize
    <3> DEFINE c == Len(Common)
               m == Len(body)
    <3>4. n = c + m /\ c \in 16..120 /\ m \in Nat /\ m <= 858
      BY <2>1, <3>1, <3>2, <3>3
    <3> HIDE DEF c, m, n
    <3> QED
      BY <3>4
  <2>3. h = HeaderRoom(n) /\ L = (h + n) + 7
    <3>1. Whole(b) /\ sending_data_ = Framed(b) \o Trailer(b)
      BY <2>1
    <3> HIDE DEF b
    <3>2. h = HeaderRoom(n) /\ Len(Framed(b)) = h + n
      BY <3>1 DEF Whole
    <3>3. L = Len(Framed(b)) + 7
      BY <3>1, MessageBytes
    <3> QED
      BY <3>2, <3>3
  <2> HIDE DEF n, h, L, b
  <2>4. Len(ToString10[n]) <= 3 /\ Len(ToString10[n]) \in Nat
    <3>1. ToString10[n] \in Seq(Digit)
      BY <2>2, ToStringType
    <3>2. n < 1000
      BY <2>2
    <3> QED
      BY <2>2, <3>1, <3>2, ToStringShort, LenProperties DEF Shorter
  <2>5. h <= 16 /\ h \in Nat
    BY <2>3, <2>4 DEF HeaderRoom
  <2>6. L <= 1024
    BY <2>2, <2>3, <2>5
  <2> QED
    BY <2>6 DEF FitsBuffer, L
<1>2. CASE ~Encoded
  BY <1>2 DEF Encoded, FitsBuffer
<1> QED
  BY <1>1, <1>2

\* The numbers and the bytes keep their ranges, and the strings of the header fit
\* their arrays, which sprintf and memcpy do not check (MessageHeader).
THEOREM EncodeTyped == Spec => []EncodeTypeOK
<1>1. EncodeInv => EncodeTypeOK
  BY TypesHold
<1> QED
  BY <1>1, EncodeInvariant, PTL

\* No message overruns main's sending_data_, which no encoder looks at, if no
\* caller asks for more than 24 symbols at once: there is no check of their number.
THEOREM MessagesFit == SymbolsFit => (Spec => []FitsBuffer)
<1> SUFFICES ASSUME SymbolsFit PROVE Spec => []FitsBuffer
  OBVIOUS
<1>1. EncodeInv => FitsBuffer
  BY SizeHolds
<1> QED
  BY <1>1, EncodeInvariant, PTL

-----------------------------------------------------------------------------
(* Reading the message back. *)

\* A field of the common header in front of bytes that DecodeHeader reads right.
LEMMA ReadsOneMore ==
  ASSUME NEW tag, Readable(tag, HeaderField[tag]), NEW rest, rest \in Seq(Nat),
         NEW T, NEW V, Reads(rest, T, V), tag \notin T, V[tag] = HeaderField[tag]
  PROVE  /\ Reads(FieldOf(tag) \o rest, T \cup {tag}, V)
         /\ FieldOf(tag) \o rest \in Seq(Nat)
         /\ FieldOf(tag) \in Seq(Nat)
<1> DEFINE v == HeaderField[tag]
<1>1. Readable(tag, v) /\ V[tag] = v /\ FieldOf(tag) = AppendFIX(tag, v)
  BY DEF FieldOf
<1> HIDE DEF v
<1>2. Reads(AppendFIX(tag, v) \o rest, T \cup {tag}, V)
  BY <1>1, ReadsField
<1>3. /\ AppendFIX(tag, v) \in Seq(Nat) /\ AppendFIX(tag, v) \o rest \in Seq(Nat)
  BY <1>1, InFront
<1> QED
  BY <1>1, <1>2, <1>3

\* DecodeHeader finds in front of x what encodeHeaderCommon wrote there.
LEMMA CommonReads ==
  ASSUME EncodeInv, NEW x, x \in Seq(Nat), HeaderEnds(x) = {},
         NEW V, \A tag \in DOMAIN HeaderField : V[tag] = HeaderField[tag]
  PROVE  Reads(Common \o x, DOMAIN HeaderField, V) /\ Common \o x \in Seq(Nat)
<1>1. /\ MsgType \in DOMAIN HeaderField /\ MsgSeqNum \in DOMAIN HeaderField
      /\ SenderCompID \in DOMAIN HeaderField /\ SenderSubID \in DOMAIN HeaderField
      /\ SendingTime \in DOMAIN HeaderField /\ TargetCompID \in DOMAIN HeaderField
      /\ TargetSubID \in DOMAIN HeaderField
  BY HeaderFieldIs DEF CompIDTags
<1>2. \A tag \in DOMAIN HeaderField : Readable(tag, HeaderField[tag])
  BY HeaderValues, HeaderFieldIs DEF HeaderValue
<1> DEFINE T7 == {TargetSubID}
           T6 == T7 \cup {TargetCompID}
           T5 == T6 \cup {SendingTime}
           T4 == T5 \cup {SenderSubID}
           T3 == T4 \cup {SenderCompID}
           T2 == T3 \cup {MsgSeqNum}
           T1 == T2 \cup {MsgType}
<1>3. /\ TargetCompID \notin T7 /\ SendingTime \notin T6 /\ SenderSubID \notin T5
      /\ SenderCompID \notin T4 /\ MsgSeqNum \notin T3 /\ MsgType \notin T2
  BY DEF MsgType, MsgSeqNum, SenderCompID, SenderSubID, SendingTime, TargetCompID,
         TargetSubID
<1>4. T1 = DOMAIN HeaderField /\ T7 = {} \cup {TargetSubID}
  BY HeaderFieldIs DEF CompIDTags
<1> HIDE DEF T1, T2, T3, T4, T5, T6, T7
<1> DEFINE x7 == FieldOf(TargetSubID) \o x
           x6 == FieldOf(TargetCompID) \o x7
           x5 == FieldOf(SendingTime) \o x6
           x4 == FieldOf(SenderSubID) \o x5
           x3 == FieldOf(SenderCompID) \o x4
           x2 == FieldOf(MsgSeqNum) \o x3
           x1 == FieldOf(MsgType) \o x2
<1>r0. Reads(x, {}, V)
  BY ReadsNothing
<1>r7. Reads(x7, T7, V) /\ x7 \in Seq(Nat) /\ FieldOf(TargetSubID) \in Seq(Nat)
  <2>1. TargetSubID \notin {} /\ V[TargetSubID] = HeaderField[TargetSubID]
    BY <1>1
  <2> QED
    BY <1>1, <1>2, <1>4, <1>r0, <2>1, ReadsOneMore
<1>6. V[TargetCompID] = HeaderField[TargetCompID]
  BY <1>1
<1> HIDE DEF x7
<1>r6. Reads(x6, T6, V) /\ x6 \in Seq(Nat) /\ FieldOf(TargetCompID) \in Seq(Nat)
  BY <1>1, <1>2, <1>3, <1>6, <1>r7, ReadsOneMore DEF T6
<1>5. V[SendingTime] = HeaderField[SendingTime]
  BY <1>1
<1> HIDE DEF x6
<1>r5. Reads(x5, T5, V) /\ x5 \in Seq(Nat) /\ FieldOf(SendingTime) \in Seq(Nat)
  BY <1>1, <1>2, <1>3, <1>5, <1>r6, ReadsOneMore DEF T5
<1>7. V[SenderSubID] = HeaderField[SenderSubID]
  BY <1>1
<1> HIDE DEF x5
<1>r4. Reads(x4, T4, V) /\ x4 \in Seq(Nat) /\ FieldOf(SenderSubID) \in Seq(Nat)
  BY <1>1, <1>2, <1>3, <1>7, <1>r5, ReadsOneMore DEF T4
<1>8. V[SenderCompID] = HeaderField[SenderCompID]
  BY <1>1
<1> HIDE DEF x4
<1>r3. Reads(x3, T3, V) /\ x3 \in Seq(Nat) /\ FieldOf(SenderCompID) \in Seq(Nat)
  BY <1>1, <1>2, <1>3, <1>8, <1>r4, ReadsOneMore DEF T3
<1>9. V[MsgSeqNum] = HeaderField[MsgSeqNum]
  BY <1>1
<1> HIDE DEF x3
<1>r2. Reads(x2, T2, V) /\ x2 \in Seq(Nat) /\ FieldOf(MsgSeqNum) \in Seq(Nat)
  BY <1>1, <1>2, <1>3, <1>9, <1>r3, ReadsOneMore DEF T2
<1>10. V[MsgType] = HeaderField[MsgType]
  BY <1>1
<1> HIDE DEF x2
<1>r1. Reads(x1, T1, V) /\ x1 \in Seq(Nat) /\ FieldOf(MsgType) \in Seq(Nat)
  BY <1>1, <1>2, <1>3, <1>10, <1>r2, ReadsOneMore DEF T1
<1>11. Common \o x = x1
  <2> DEFINE a == FieldOf(MsgType)
             b == FieldOf(MsgSeqNum)
             c == FieldOf(SenderCompID)
             d == FieldOf(SenderSubID)
             e == FieldOf(SendingTime)
             f == FieldOf(TargetCompID)
             g == FieldOf(TargetSubID)
  <2>1. Eight(Nat, a, b, c, d, e, f, g, x)
    BY <1>r1, <1>r2, <1>r3, <1>r4, <1>r5, <1>r6, <1>r7, Zenon DEF Eight
  <2>2. x1 = a \o (b \o (c \o (d \o (e \o (f \o (g \o x))))))
    BY Zenon DEF x1, x2, x3, x4, x5, x6, x7
  <2>3. Common = (((((a \o b) \o c) \o d) \o e) \o f) \o g
    BY CommonBytes, Zenon
  <2> HIDE DEF a, b, c, d, e, f, g, x1
  <2>4. Regrouped(a, b, c, d, e, f, g, x)
    BY <2>1, EightInOrder
  <2> QED
    BY <2>2, <2>3, <2>4, Zenon DEF Regrouped
<1> HIDE DEF x1
<1> QED
  BY <1>4, <1>11, <1>r1

\* FIX.4.4 has seven bytes, and none that ends a field.
LEMMA VersionReadable == Readable(BeginString, FIX_VER_44) /\ Len(FIX_VER_44) = 7
<1>1. FIX_VER_44 \in Seq(Nat) /\ Len(FIX_VER_44) = 7
  BY DEF FIX_VER_44, DOT
<1>2. \A i \in 1..7 : FIX_VER_44[i] # SOH /\ FIX_VER_44[i] # EQUAL /\ FIX_VER_44[i] # 0
  BY DEF FIX_VER_44, DOT, SOH, EQUAL
<1> QED
  BY <1>1, <1>2, HeaderTagsAre DEF Readable

\* It has no zero byte either, so that strlen sees all of it.
LEMMA VersionLength == StrLen(FIX_VER_44) = 7
<1>1. FIX_VER_44 \in Seq(Nat) /\ Len(FIX_VER_44) = 7
  BY DEF FIX_VER_44, DOT
<1>2. \A i \in 1..7 : FIX_VER_44[i] # 0
  BY DEF FIX_VER_44, DOT
<1>3. FirstAt(FIX_VER_44, 0) = 8
  <2>1. 8 \in 1..Len(FIX_VER_44) + 1
    BY <1>1
  <2>2. 8 <= Len(FIX_VER_44) => FIX_VER_44[8] = 0
    BY <1>1
  <2>3. \A i \in 1..Len(FIX_VER_44) : i < 8 => FIX_VER_44[i] # 0
    BY <1>1, <1>2
  <2> QED
    BY ONLY <1>1, <2>1, <2>2, <2>3, FirstAtIs, Zenon
<1> QED
  BY <1>3 DEF StrLen

\* Digits end no field.
LEMMA LengthReadable ==
  ASSUME NEW n \in Nat
  PROVE  Readable(BodyLength, ToString10[n])
<1> DEFINE v == ToString10[n]
<1>1. v \in Seq(Digit)
  BY ToStringType
<1> HIDE DEF v
<1>2. \A i \in 1..Len(v) : v[i] \in Digit
  BY <1>1, ElementOfSeq
<1>3. SOH \notin Digit /\ EQUAL \notin Digit /\ Digit \subseteq Nat
  BY DEF Digit, ZERO, SOH, EQUAL
<1>4. v \in Seq(Nat)
  BY <1>1, <1>3, SeqMonotonic
<1>5. Readable(BodyLength, v)
  BY <1>2, <1>3, <1>4, HeaderTagsAre DEF Readable
<1> QED
  BY <1>5 DEF v

\* The m bytes behind k start with those of f.
Window(d, k, m, f) ==
  /\ d \in Seq(Nat) /\ k \in Nat /\ m \in Nat /\ k + m <= Len(d) /\ Len(f) <= m
  /\ \A i \in 1..Len(f) : d[k + i] = f[i]

Scanned(d, k, m, t, v) ==
  LET s == ScanField(SubSeq(d, k + 1, k + m), t)
  IN  s.consumed = Len(AppendFIX(t, v)) /\ s.value = v

\* GetFIXVersion and GetBodyLen find a field that lies whole in their 12 bytes.
LEMMA FieldScanned ==
  ASSUME NEW d, NEW t, NEW v, Readable(t, v), NEW k, NEW m,
         Window(d, k, m, AppendFIX(t, v))
  PROVE  Scanned(d, k, m, t, v)
<1> DEFINE f == AppendFIX(t, v)
           L == Len(f)
           p == k + 1
           q == k + m
           w == SubSeq(d, p, q)
<1>0. /\ d \in Seq(Nat) /\ k \in Nat /\ m \in Nat /\ q <= Len(d) /\ L <= m
      /\ \A i \in 1..L : d[k + i] = f[i]
  BY Zenon DEF Window
<1>1. /\ p \in Nat /\ p >= 1 /\ q \in Int /\ q <= Len(d) /\ q - p + 1 = m
      /\ (p <= q => q - p + 1 = m) /\ (~(p <= q) => m = 0)
  <2>1. k \in Nat /\ m \in Nat /\ q <= Len(d)
    BY <1>0
  <2>2. /\ p \in Nat /\ p >= 1 /\ q \in Int /\ q - p + 1 = m
        /\ (p <= q => q - p + 1 = m) /\ (~(p <= q) => m = 0)
    BY ONLY <2>1
  <2> QED
    BY ONLY <2>1, <2>2, Zenon
<1>2. L \in Nat
  <2> DEFINE e == << >>
  <2>1. e \in Seq(Nat)
    OBVIOUS
  <2> HIDE DEF e
  <2> QED
    BY <2>1, InFront
<1>3. \A i \in 1..L : i \in 1..q - p + 1 /\ p + i - 1 = k + i
  <2> HIDE DEF f, L
  <2> QED
    BY <1>0, <1>2
<1> HIDE DEF p, q
<1>4. /\ w \in Seq(Nat)
      /\ Len(w) = IF p <= q THEN q - p + 1 ELSE 0
      /\ \A i \in 1..q - p + 1 : w[i] = d[p + i - 1]
  <2>1. p \in Nat /\ p >= 1 /\ q \in Int /\ q <= Len(d)
    BY <1>1
  <2> QED
    BY <1>0, <2>1, PieceType
<1> HIDE DEF w
<1>5. Len(w) = m
  BY <1>1, <1>4
<1>6. \A i \in 1..L : w[i] = f[i]
  <2> HIDE DEF f, L
  <2> QED
    BY <1>0, <1>3, <1>4
<1>7. ScanField(w, t).consumed = L /\ ScanField(w, t).value = v
  BY <1>0, <1>4, <1>5, <1>6, ScanFieldFinds
<1> QED
  BY <1>7, Zenon DEF Scanned, w, p, q

\* The message from its first byte to its last.
LEMMA MessageInOrder ==
  ASSUME NEW b, Whole(b)
  PROVE  LET f8 == AppendFIX(BeginString, FIX_VER_44)
             f9 == AppendFIX(BodyLength, ToString10[Len(b)])
             x == b \o Trailer(b)
         IN  /\ f8 \in Seq(Nat) /\ f9 \in Seq(Nat) /\ x \in Seq(Nat)
             /\ f9 \o x \in Seq(Nat)
             /\ Framed(b) \o Trailer(b) = f8 \o (f9 \o x)
<1> DEFINE f8 == AppendFIX(BeginString, FIX_VER_44)
           f9 == AppendFIX(BodyLength, ToString10[Len(b)])
           tr == Trailer(b)
           x  == b \o tr
           h  == f8 \o f9
           fr == Framed(b)
           y  == f9 \o x
<1>1. b \in Seq(Nat) /\ tr \in Seq(Nat) /\ Len(b) \in Nat
  BY ByteFacts DEF Whole
<1>2. f8 \in Seq(Nat) /\ f9 \in Seq(Nat)
  <2> DEFINE e == << >>
  <2>1. e \in Seq(Nat)
    OBVIOUS
  <2> HIDE DEF e
  <2>2. f8 \in Seq(Nat)
    BY <2>1, VersionReadable, InFront
  <2> DEFINE v == ToString10[Len(b)]
  <2>3. Readable(BodyLength, v)
    BY <1>1, LengthReadable
  <2> HIDE DEF v
  <2>4. AppendFIX(BodyLength, v) \in Seq(Nat)
    BY <2>1, <2>3, InFront
  <2> QED
    BY <2>2, <2>4 DEF v
<1>3. fr = h \o b
  BY DEF Framed, HeaderOf
<1>4. h = f8 \o f9
  OBVIOUS
<1> HIDE DEF f8, f9, tr, h, fr
<1>5. h \in Seq(Nat)
  BY <1>2, <1>4, ConcatProperties
<1>6. x \in Seq(Nat)
  BY <1>1, ConcatProperties
<1>7. x = b \o tr
  OBVIOUS
<1> HIDE DEF x
<1>8. y \in Seq(Nat)
  BY <1>2, <1>6, ConcatProperties
<1>9. y = f9 \o x
  OBVIOUS
<1> HIDE DEF y
<1>10. fr \o tr = h \o x
  BY <1>1, <1>3, <1>5, <1>7, Regroup, SMTT(30)
<1>11. h \o x = f8 \o y
  BY <1>2, <1>4, <1>6, <1>9, Regroup, SMTT(30)
<1>12. /\ f8 \in Seq(Nat) /\ f9 \in Seq(Nat) /\ x \in Seq(Nat) /\ y \in Seq(Nat)
       /\ fr \o tr = f8 \o y
  BY ONLY <1>2, <1>6, <1>8, <1>10, <1>11, Zenon
<1> QED
  BY ONLY <1>12, Zenon DEF f8, f9, x, y, fr, tr

\* A field is its tag, its value and two bytes more.
LEMMA FieldLength ==
  ASSUME NEW t, NEW v, Readable(t, v)
  PROVE  Len(AppendFIX(t, v)) = (Len(ToString10[t]) + Len(v)) + 2
<1> DEFINE e == << >>
<1>1. e \in Seq(Nat)
  OBVIOUS
<1> HIDE DEF e
<1> QED
  BY <1>1, InFront

\* BeginString and BodyLength have tags of one digit: HandleMsg counts on it.
LEMMA OneDigit ==
  Len(ToString10[BeginString]) = 1 /\ Len(ToString10[BodyLength]) = 1
<1>1. ASSUME NEW n \in Nat, n < 10 PROVE Len(ToString10[n]) = 1
  <2>1. ToString10[n] = <<ZERO + n>>
    BY <1>1, ToStringUnfolds
  <2> QED
    BY <2>1
<1>2. BeginString \in Nat /\ BeginString < 10 /\ BodyLength \in Nat /\ BodyLength < 10
  BY DEF BeginString, BodyLength
<1> QED
  BY <1>1, <1>2

\* HandleMsg scans the first two fields and so knows where the message ends.
LEMMA FramedBack ==
  ASSUME NEW b, Whole(b), Len(b) < 1000, NEW d, d = Framed(b) \o Trailer(b)
  PROVE  LET ver  == GetFIXVersion(SubSeq(d, 1, ScanLimit))
             at   == ver.consumed
             body == GetBodyLen(SubSeq(d, at + 1, at + ScanLimit))
         IN  ver.value = FIX_VER_44 /\ MsgLen(ver, body) = Len(d)
<1> DEFINE n  == Len(b)
           v  == ToString10[n]
           k  == Len(v)
           f8 == AppendFIX(BeginString, FIX_VER_44)
           f9 == AppendFIX(BodyLength, v)
           x  == b \o Trailer(b)
           y  == f9 \o x
<1>1. /\ f8 \in Seq(Nat) /\ f9 \in Seq(Nat) /\ x \in Seq(Nat) /\ y \in Seq(Nat)
      /\ d = f8 \o y
  BY ONLY Whole(b), d = Framed(b) \o Trailer(b), MessageInOrder, Zenon
<1>2. n \in Nat /\ n >= 16 /\ n < 1000
  BY DEF Whole
<1>3. k \in Nat /\ k <= 3
  <2> HIDE DEF n
  <2>1. v \in Seq(Digit)
    BY <1>2, ToStringType
  <2>2. k <= 3
    BY <1>2, ToStringShort DEF Shorter
  <2> HIDE DEF v
  <2> QED
    BY <2>1, <2>2, LenProperties
<1>4. Readable(BodyLength, v)
  BY <1>2, LengthReadable
<1>5. Number(v) = n
  <2>1. n \div 10 <= IntCap
    <3> HIDE DEF n
    <3> QED
      BY <1>2, SMT DEF IntCap
  <2> HIDE DEF n
  <2> QED
    BY <1>2, <2>1, NumberOfDigits
<1>6. Len(d) = ((13 + k) + n) + 7
  <2>1. Len(d) = Len(Framed(b)) + 7
    BY MessageBytes
  <2>2. Len(Framed(b)) = HeaderRoom(n) + n
    BY DEF Whole
  <2>3. HeaderRoom(n) = 13 + k
    BY DEF HeaderRoom
  <2> QED
    BY <2>1, <2>2, <2>3
<1> HIDE DEF n, x
<1>7. /\ Len(f8) = 10 /\ d \in Seq(Nat)
      /\ \A i \in 1..Len(f8) : d[i] = f8[i]
      /\ \A i \in 1..Len(y) : d[Len(f8) + i] = y[i]
  <2> HIDE DEF y
  <2>1. /\ d \in Seq(Nat)
        /\ \A i \in 1..Len(f8) : d[i] = f8[i]
        /\ \A i \in 1..Len(y) : d[Len(f8) + i] = y[i]
    BY <1>1, VersionReadable, InFront, SMTT(30)
  <2>2. Len(f8) = (Len(ToString10[BeginString]) + Len(FIX_VER_44)) + 2
    BY ONLY VersionReadable, FieldLength, ZenonT(40)
  <2>3. Len(f8) = 10
    BY <2>2, VersionReadable, OneDigit
  <2> QED
    BY <2>1, <2>3
<1>8. /\ Len(f9) = k + 3 /\ Len(y) = Len(f9) + Len(x) /\ Len(x) \in Nat
      /\ \A i \in 1..Len(f9) : y[i] = f9[i]
  <2> HIDE DEF v
  <2>1. /\ Len(f9) = (Len(ToString10[BodyLength]) + Len(v)) + 2
        /\ Len(y) = Len(f9) + Len(x)
        /\ \A i \in 1..Len(f9) : y[i] = f9[i]
    BY <1>1, <1>4, InFront
  <2>2. Len(x) \in Nat
    BY <1>1, LenProperties
  <2>3. Len(f9) = k + 3
    BY <1>3, <2>1, OneDigit
  <2> QED
    BY <2>1, <2>2, <2>3
<1> HIDE DEF y, k
<1>9. \A i \in 1..Len(f9) : d[10 + i] = f9[i]
  <2> HIDE DEF f9, f8
  <2> TAKE i \in 1..Len(f9)
  <2>1. i \in 1..Len(y)
    BY <1>3, <1>8
  <2>2. d[Len(f8) + i] = y[i] /\ Len(f8) = 10
    BY ONLY <1>7, <2>1, ZenonT(40)
  <2>3. y[i] = f9[i]
    BY ONLY <1>8, ZenonT(40)
  <2> QED
    BY ONLY <2>2, <2>3, ZenonT(40)
<1> DEFINE ver  == GetFIXVersion(SubSeq(d, 1, ScanLimit))
           body == GetBodyLen(SubSeq(d, ver.consumed + 1, ver.consumed + ScanLimit))
<1>10. ver.consumed = 10 /\ ver.value = FIX_VER_44
  <2>1. Window(d, 0, 12, f8)
    <3> HIDE DEF f8
    <3>a. Len(f8) = 10
      BY ONLY <1>7, Zenon
    <3>1. \A i \in 1..Len(f8) : 0 + i = i
      BY ONLY <3>a, SMTT(30)
    <3>b. \A i \in 1..Len(f8) : d[i] = f8[i]
      BY ONLY <1>7, Zenon
    <3>2. \A i \in 1..Len(f8) : d[0 + i] = f8[i]
      BY ONLY <3>1, <3>b, ZenonT(40)
    <3> DEFINE L == Len(d)
    <3>3. L = ((13 + k) + n) + 7 /\ Len(f8) <= 12
      BY <1>6, <1>7
    <3> HIDE DEF L
    <3>4. 0 + 12 <= L
      BY <1>2, <1>3, <3>3
    <3> QED
      BY <1>7, <3>2, <3>3, <3>4, ZenonT(40) DEF Window, L
  <2>2. Scanned(d, 0, 12, BeginString, FIX_VER_44)
    BY ONLY <2>1, VersionReadable, FieldScanned, Zenon
  <2>3. SubSeq(d, 0 + 1, 0 + 12) = SubSeq(d, 1, ScanLimit)
    BY DEF ScanLimit
  <2>4. ver.consumed = Len(f8) /\ ver.value = FIX_VER_44
    BY <2>2, <2>3, ZenonT(40) DEF Scanned, GetFIXVersion
  <2> HIDE DEF f8, ver
  <2> QED
    BY <1>7, <2>4
<1>11. body.value = v
  <2>1. Window(d, 10, 12, f9)
    <3> DEFINE L == Len(d)
    <3> HIDE DEF f9
    <3>1. L = ((13 + k) + n) + 7
      BY <1>6
    <3> HIDE DEF L
    <3>2. 10 + 12 <= L /\ Len(f9) <= 12
      BY <1>2, <1>3, <1>8, <3>1
    <3> QED
      BY <1>7, <1>9, <3>2 DEF Window, L
  <2>2. Scanned(d, 10, 12, BodyLength, v)
    BY ONLY <1>4, <2>1, FieldScanned, Zenon
  <2>3. SubSeq(d, 10 + 1, 10 + 12)
          = SubSeq(d, ver.consumed + 1, ver.consumed + ScanLimit)
    <3> HIDE DEF ver
    <3> QED
      BY <1>10 DEF ScanLimit
  <2> QED
    BY ONLY <2>2, <2>3, ZenonT(40) DEF Scanned, GetBodyLen
<1> HIDE DEF ver, body
<1>12. MsgLen(ver, body) = 3 + StrLen(FIX_VER_44) + 3 + k + n + 7
  BY <1>5, <1>10, <1>11, ZenonT(40) DEF MsgLen, k
<1>13. MsgLen(ver, body) = Len(d)
  <2> DEFINE M == MsgLen(ver, body)
             L == Len(d)
             s == StrLen(FIX_VER_44)
  <2>1. M = 3 + s + 3 + k + n + 7 /\ L = ((13 + k) + n) + 7 /\ s = 7
    BY <1>6, <1>12, VersionLength
  <2> HIDE DEF M, L, s
  <2>2. M = L
    BY <1>2, <1>3, <2>1
  <2> QED
    BY <2>2 DEF M, L
<1> QED
  BY ONLY <1>10, <1>13, ZenonT(40) DEF ver, body

\* All of ReadsBack for the message that is in sending_data_.
LEMMA AllReadBack ==
  ASSUME EncodeInv, SymbolsFit
  PROVE  ReadsBack
<1> SUFFICES ASSUME Encoded PROVE ReadsBack
  BY DEF ReadsBack
<1>1. PICK body :
        /\ IsBody(body) /\ Whole(Common \o body)
        /\ Len(Common \o body) = Len(Common) + Len(body)
        /\ sending_data_ = Framed(Common \o body) \o Trailer(Common \o body)
        /\ message_header_.msg_seq_num = next_out_msg_seq_ - 1
  BY MessageIs
<1> DEFINE b  == Common \o body
           d  == sending_data_
           tr == Trailer(b)
           x  == body \o tr
           v  == ToString10[Len(b)]
           f8 == AppendFIX(BeginString, FIX_VER_44)
           f9 == AppendFIX(BodyLength, v)
           V  == [tag \in HeaderTags |->
                    IF tag = BeginString THEN FIX_VER_44
                    ELSE IF tag = BodyLength THEN v ELSE HeaderField[tag]]
<1>2. Whole(b) /\ d = Framed(b) \o tr
  BY <1>1
<1>3. Common \in Seq(Nat) /\ body \in Seq(Nat) /\ tr \in Seq(Nat)
  BY <1>1, <1>2, ByteFacts, CommonBytes DEF IsBody, Whole
<1>4. Len(b) < 1000 /\ Len(b) \in Nat
  <2> DEFINE c == Len(Common)
             m == Len(body)
             n == Len(b)
  <2>1. m \in Nat /\ m <= BodySize /\ c \in 16..120 /\ n = c + m
    BY <1>1, <1>3, CommonBytes, LenProperties DEF IsBody
  <2> HIDE DEF c, m, n
  <2>2. n < 1000 /\ n \in Nat
    BY <2>1 DEF BodySize
  <2> QED
    BY <2>2 DEF n
<1>5. /\ f8 \in Seq(Nat) /\ f9 \in Seq(Nat) /\ b \o tr \in Seq(Nat)
      /\ f9 \o (b \o tr) \in Seq(Nat) /\ d = f8 \o (f9 \o (b \o tr))
  BY ONLY <1>2, MessageInOrder, Zenon
<1>6. b \o tr = Common \o x
  <2>1. b = Common \o body /\ x = body \o tr
    OBVIOUS
  <2> HIDE DEF b, x, tr
  <2> QED
    BY ONLY <1>3, <2>1, Regroup, SMTT(30)
<1>7. HeaderEnds(x) = {} /\ x \in Seq(Nat)
  <2>1. body = <<>> \/ Begins(body)
    BY <1>1 DEF IsBody
  <2> DEFINE w == CheckDigits(b)
  <2>2. w \in Seq(Nat)
    <3>1. Digit \subseteq Nat /\ w \in Seq(Digit)
      BY <1>2 DEF Digit, ZERO, Whole
    <3> HIDE DEF w
    <3> QED
      BY <3>1, SeqMonotonic
  <2> HIDE DEF w
  <2>3. HeaderEnds(body \o AppendFIX(CheckSum, w)) = {}
    BY <2>1, <2>2, BodyStops
  <2>4. x = body \o AppendFIX(CheckSum, w)
    BY DEF Trailer, w
  <2>5. x \in Seq(Nat)
    <3> HIDE DEF tr
    <3> QED
      BY <1>3, ConcatProperties
  <2> QED
    BY <2>3, <2>4, <2>5
<1>8. /\ DOMAIN HeaderField \subseteq HeaderTags
      /\ BeginString \notin DOMAIN HeaderField /\ BodyLength \notin DOMAIN HeaderField
      /\ BeginString # BodyLength /\ {BeginString, BodyLength} \subseteq HeaderTags
  <2>1. /\ BeginString \notin {MsgType, MsgSeqNum, SendingTime} \cup CompIDTags
        /\ BodyLength \notin {MsgType, MsgSeqNum, SendingTime} \cup CompIDTags
        /\ BeginString # BodyLength
    BY DEF CompIDTags, BeginString, BodyLength, MsgType, MsgSeqNum, SendingTime,
           SenderCompID, SenderSubID, TargetCompID, TargetSubID
  <2> QED
    BY <2>1, HeaderFieldIs, HeaderTagsAre
<1>9. /\ V[BeginString] = FIX_VER_44 /\ V[BodyLength] = v
      /\ \A tag \in DOMAIN HeaderField : V[tag] = HeaderField[tag]
  <2> HIDE DEF v
  <2> QED
    BY <1>8
<1> HIDE DEF b, d, tr, x, V
<1>10. Reads(Common \o x, DOMAIN HeaderField, V)
  BY <1>7, <1>9, CommonReads
<1>11. Reads(b \o tr, DOMAIN HeaderField, V)
  BY <1>6, <1>10
<1> DEFINE T9 == DOMAIN HeaderField \cup {BodyLength}
           T8 == T9 \cup {BeginString}
           z  == b \o tr
<1>12. Reads(z, DOMAIN HeaderField, V) /\ z \in Seq(Nat) /\ d = f8 \o (f9 \o z)
  BY <1>5, <1>11
<1> HIDE DEF z
<1>13. Reads(f9 \o z, T9, V) /\ f9 \o z \in Seq(Nat)
  <2>1. Readable(BodyLength, v)
    BY <1>4, LengthReadable
  <2> HIDE DEF v
  <2>2. Reads(AppendFIX(BodyLength, v) \o z, T9, V)
    BY <1>8, <1>9, <1>12, <2>1, ReadsField
  <2>3. AppendFIX(BodyLength, v) \o z \in Seq(Nat)
    BY <1>12, <2>1, InFront
  <2> QED
    BY <2>2, <2>3
<1>14. BeginString \notin T9
  BY <1>8
<1> DEFINE r == f9 \o z
<1>15. Reads(r, T9, V) /\ r \in Seq(Nat) /\ d = f8 \o r
  BY <1>12, <1>13
<1> HIDE DEF r, T9
<1>16. Reads(f8 \o r, T8, V)
  BY <1>9, <1>14, <1>15, VersionReadable, ReadsField
<1>17. \A tag \in DOMAIN HeaderField : DecodeHeader(d, tag) = HeaderField[tag]
  <2>1. \A tag \in DOMAIN HeaderField : tag \in T8
    BY DEF T9
  <2>2. Reads(d, T8, V)
    BY <1>15, <1>16
  <2> HIDE DEF T8
  <2> QED
    BY <1>9, <2>1, <2>2 DEF Reads
<1>18. LET ver  == GetFIXVersion(SubSeq(d, 1, ScanLimit))
           at   == ver.consumed
           bl   == GetBodyLen(SubSeq(d, at + 1, at + ScanLimit))
       IN  ver.value = FIX_VER_44 /\ MsgLen(ver, bl) = Len(d)
  <2>1. Whole(b) /\ Len(b) < 1000 /\ d = Framed(b) \o Trailer(b)
    BY <1>2, <1>4 DEF tr
  <2> QED
    BY ONLY <2>1, FramedBack, ZenonT(40)
<1> QED
  BY ONLY <1>1, <1>17, <1>18, Zenon DEF ReadsBack, d

\* The program's own receiver reads back what an encoder wrote: it frames the whole
\* message (GetFIXVersion, GetBodyLen, HandleMsg) and DecodeHeader finds every header
\* field with its value, for all values of the fields and any sequence number.
THEOREM MessagesReadBack == SymbolsFit => (Spec => []ReadsBack)
<1> SUFFICES ASSUME SymbolsFit PROVE Spec => []ReadsBack
  OBVIOUS
<1>1. EncodeInv => ReadsBack
  BY AllReadBack
<1> QED
  BY <1>1, EncodeInvariant, PTL

-----------------------------------------------------------------------------
(* The sum of bytes, counted by their values. *)

\* Where x is among the first i bytes of s.
Occurs(s, x, i) == {j \in 1..i : s[j] = x}

\* One byte more is one occurrence more, or none.
LEMMA OccursMore ==
  ASSUME NEW s, NEW x, NEW i \in Nat, i >= 1
  PROVE  /\ Cardinality(Occurs(s, x, i)) =
              IF s[i] = x THEN Cardinality(Occurs(s, x, i - 1)) + 1
              ELSE Cardinality(Occurs(s, x, i - 1))
         /\ Cardinality(Occurs(s, x, i - 1)) \in Nat
<1> DEFINE A == Occurs(s, x, i - 1)
           B == Occurs(s, x, i)
<1>1. IsFiniteSet(A)
  <2>1. IsFiniteSet(1..i - 1)
    BY FS_Interval
  <2>2. A \in SUBSET (1..i - 1)
    BY DEF Occurs
  <2> HIDE DEF A
  <2> QED
    BY <2>1, <2>2, FS_Subset
<1>2. i \notin A
  BY DEF Occurs
<1>3. B = IF s[i] = x THEN A \cup {i} ELSE A
  BY DEF Occurs
<1> HIDE DEF A, B
<1>4. Cardinality(A) \in Nat /\ Cardinality(A \cup {i}) = Cardinality(A) + 1
  BY <1>1, <1>2, FS_CardinalityType, FS_AddElement
<1> QED
  BY <1>3, <1>4 DEF A, B

\* Nothing occurs in no bytes.
LEMMA OccursNone ==
  ASSUME NEW s, NEW x
  PROVE  Cardinality(Occurs(s, x, 0)) = 0
<1>1. Occurs(s, x, 0) = {}
  BY DEF Occurs
<1> QED
  BY <1>1, FS_EmptySet

\* The sums of those of the first bytes that are in T.
PartRun(q, s, T) ==
  /\ q[0] = 0
  /\ \A i \in 1..Len(s) : q[i] = IF s[i] \in T THEN q[i - 1] + s[i] ELSE q[i - 1]

Part(s, T) == CHOOSE q : q \in [0..Len(s) -> Nat] /\ PartRun(q, s, T)

\* The sums of a part exist.
LEMMA PartIs ==
  ASSUME NEW s \in Seq(Nat), NEW T
  PROVE  Part(s, T) \in [0..Len(s) -> Nat] /\ PartRun(Part(s, T), s, T)
<1> DEFINE L == Len(s)
           E(n, i) == IF s[i] \in T THEN n + s[i] ELSE n
           st == [i \in 1..L |-> [n \in Nat |-> E(n, i)]]
<1>1. L \in Nat /\ \A i \in 1..L : s[i] \in Nat
  BY LenProperties, ElementOfSeq
<1>2. \A n \in Nat, i \in 1..L : E(n, i) \in Nat
  BY <1>1
<1>3. st \in [1..L -> [Nat -> Nat]]
  <2> HIDE DEF E
  <2> QED
    BY <1>2
<1>4. PICK q \in [0..L -> Nat] : Iterates(q, L, 0, st)
  <2> HIDE DEF L, st
  <2> QED
    BY <1>1, <1>3, 0 \in Nat, Iteration
<1>5. \A i \in 1..L : q[i - 1] \in Nat
  BY <1>1, SMTT(30)
<1>6. q[0] = 0
  <2>1. 0 \in 0..L
    BY <1>1
  <2> HIDE DEF L, st
  <2> QED
    BY <1>4, <2>1 DEF Iterates
<1>7. ASSUME NEW i \in 1..L PROVE q[i] = E(q[i - 1], i)
  <2>1. i \in 0..L /\ i # 0
    BY <1>1
  <2>2. q[i - 1] \in Nat
    BY <1>5
  <2>3. q[i] = st[i][q[i - 1]]
    <3> HIDE DEF L, st
    <3> QED
      BY <1>4, <2>1 DEF Iterates
  <2> HIDE DEF L, E
  <2> QED
    BY <2>2, <2>3
<1>8. q \in [0..L -> Nat] /\ PartRun(q, s, T)
  BY <1>6, <1>7 DEF PartRun
<1> QED
  BY <1>8, Zenon DEF Part

\* The sum over the bytes of T is that over the others and x times the number of x.
LEMMA PartSplit ==
  ASSUME NEW s \in Seq(Nat), NEW T, NEW x \in T, x \in Nat
  PROVE  Part(s, T)[Len(s)]
           = (x * Cardinality(Occurs(s, x, Len(s)))) + Part(s, T \ {x})[Len(s)]
<1> DEFINE L == Len(s)
           p == Part(s, T)
           q == Part(s, T \ {x})
           c(i) == Cardinality(Occurs(s, x, i))
           U == {i \in 0..L : p[i] = (x * c(i)) + q[i]}
<1>1. L \in Nat /\ \A i \in 1..L : s[i] \in Nat
  BY LenProperties, ElementOfSeq
<1>2. p \in [0..L -> Nat] /\ PartRun(p, s, T)
  BY PartIs
<1>3. q \in [0..L -> Nat] /\ PartRun(q, s, T \ {x})
  BY PartIs
<1> HIDE DEF p, q
<1>4. 0 \in U
  <2>1. p[0] = 0 /\ q[0] = 0 /\ c(0) = 0
    BY <1>2, <1>3, OccursNone DEF PartRun
  <2>2. x * 0 = 0
    OBVIOUS
  <2> HIDE DEF c, L
  <2>3. p[0] = (x * c(0)) + q[0]
    BY <2>1, <2>2
  <2> QED
    BY <1>1, <2>3
<1>5. ASSUME NEW i \in 1..L, i - 1 \in U PROVE i \in U
  <2>1. i \in Nat /\ i >= 1 /\ i \in 0..L /\ i - 1 \in 0..L /\ s[i] \in Nat
    BY <1>1
  <2>2. c(i) = (IF s[i] = x THEN c(i - 1) + 1 ELSE c(i - 1)) /\ c(i - 1) \in Nat
    BY <2>1, OccursMore
  <2>3. /\ p[i] = IF s[i] \in T THEN p[i - 1] + s[i] ELSE p[i - 1]
        /\ q[i] = IF s[i] \in T \ {x} THEN q[i - 1] + s[i] ELSE q[i - 1]
    BY <1>2, <1>3 DEF PartRun
  <2>4. p[i - 1] = (x * c(i - 1)) + q[i - 1]
    BY <1>5
  <2>5. p[i - 1] \in Nat /\ q[i - 1] \in Nat
    BY <1>2, <1>3, <2>1
  <2> DEFINE a == c(i - 1)
             y == x * a
  <2>6. y \in Nat /\ x * (a + 1) = y + x
    <3> HIDE DEF c, a
    <3>1. a \in Nat
      BY <2>2 DEF a
    <3> QED
      BY <3>1
  <2>7. p[i] = (x * c(i)) + q[i]
    <3>1. CASE s[i] = x
      <4>1. /\ c(i) = a + 1 /\ p[i] = p[i - 1] + x /\ q[i] = q[i - 1]
            /\ p[i - 1] = y + q[i - 1]
        BY <2>2, <2>3, <2>4, <3>1
      <4> HIDE DEF c, a, y
      <4> QED
        BY <2>5, <2>6, <4>1
    <3>2. CASE s[i] # x
      <4>1. c(i) = a /\ p[i - 1] = y + q[i - 1]
        BY <2>2, <2>4, <3>2
      <4>2. x * c(i) = y
        BY <4>1
      <4>3. \/ p[i] = p[i - 1] + s[i] /\ q[i] = q[i - 1] + s[i]
            \/ p[i] = p[i - 1] /\ q[i] = q[i - 1]
        BY <2>3, <3>2
      <4> DEFINE z == x * c(i)
      <4> HIDE DEF c, a, y, z
      <4>4. p[i] = z + q[i]
        BY <2>1, <2>5, <2>6, <4>1, <4>2, <4>3, SMTT(30) DEF z
      <4> QED
        BY <4>4 DEF z
    <3> QED
      BY <3>1, <3>2
  <2> HIDE DEF c, L
  <2> QED
    BY <2>1, <2>7
<1>6. \A i \in 0..L : i \in U
  <2> HIDE DEF U, L
  <2> QED
    BY <1>1, <1>4, <1>5, LoopInduction
<1>7. L \in 0..L
  BY <1>1
<1> HIDE DEF c, L
<1>8. p[L] = (x * c(L)) + q[L]
  BY <1>6, <1>7
<1> QED
  BY <1>8 DEF p, q, c, L

\* No bytes have no sum.
LEMMA PartNone ==
  ASSUME NEW s \in Seq(Nat)
  PROVE  Part(s, {})[Len(s)] = 0
<1> DEFINE L == Len(s)
           p == Part(s, {})
           U == {i \in 0..L : p[i] = 0}
<1>1. L \in Nat
  BY LenProperties
<1>2. PartRun(p, s, {})
  BY PartIs
<1> HIDE DEF p
<1>3. 0 \in U
  BY <1>1, <1>2 DEF PartRun
<1>4. ASSUME NEW i \in 1..L, i - 1 \in U PROVE i \in U
  <2>1. p[i] = p[i - 1] /\ i \in 0..L
    BY <1>1, <1>2 DEF PartRun
  <2> QED
    BY <1>4, <2>1
<1>5. \A i \in 0..L : i \in U
  <2> HIDE DEF U, L
  <2> QED
    BY <1>1, <1>3, <1>4, LoopInduction
<1> QED
  BY <1>1, <1>5 DEF p

\* The part that is everything has the sum that encodeHeaderAndTrailer computes.
LEMMA PartAll ==
  ASSUME NEW s \in Seq(Nat), NEW T, \A i \in 1..Len(s) : s[i] \in T
  PROVE  SumOfBytes(s) = Part(s, T)[Len(s)]
<1> DEFINE p == Part(s, T)
<1>1. p \in [0..Len(s) -> Nat] /\ PartRun(p, s, T)
  BY PartIs
<1> HIDE DEF p
<1>2. SumRun(p, s)
  BY <1>1 DEF PartRun, SumRun
<1>3. SumOfBytes(s) = p[Len(s)]
  BY <1>1, <1>2, SumOfBytesIs
<1> QED
  BY <1>3 DEF p

\* MapThenSumSet sums what it is given, for a finite set.
SumDef(it, S, times) ==
  it = [T \in SUBSET S |-> IF T = {} THEN 0
                           ELSE LET x == CHOOSE x \in T : TRUE
                                IN  (x * times[x]) + it[T \ {x}]]

\* The recursion over the subsets of a finite set has a solution.
LEMMA SumExists ==
  ASSUME NEW S, IsFiniteSet(S), S \subseteq Nat, NEW times, \A x \in S : times[x] \in Nat
  PROVE  \E it : SumDef(it, S, times)
<1> DEFINE D == SUBSET S
           m == [T \in D |-> Cardinality(T)]
           E(T, f) == IF T = {} THEN 0
                      ELSE LET x == CHOOSE x \in T : TRUE
                           IN  (x * times[x]) + f[T \ {x}]
           st == [T \in D |-> [f \in [D -> Nat] |-> E(T, f)]]
<1>1. \A T \in D : IsFiniteSet(T) /\ Cardinality(T) \in Nat
  BY FS_Subset, FS_CardinalityType
<1>2. m \in [D -> Nat]
  BY <1>1
<1>3. ASSUME NEW T \in D, T # {}
      PROVE  LET x == CHOOSE x \in T : TRUE
             IN  /\ x \in T /\ x \in S /\ x \in Nat /\ T \ {x} \in D
                 /\ Cardinality(T \ {x}) < Cardinality(T)
                 /\ x * times[x] \in Nat
  <2> DEFINE x == CHOOSE x \in T : TRUE
  <2>1. x \in T
    BY <1>3
  <2> HIDE DEF x
  <2>2. x \in S /\ x \in Nat /\ T \ {x} \in D
    BY <2>1
  <2>3. Cardinality(T \ {x}) = Cardinality(T) - 1 /\ Cardinality(T) \in Nat
    BY <1>1, <2>1, FS_RemoveElement
  <2>4. times[x] \in Nat
    BY <2>2
  <2>5. x * times[x] \in Nat
    BY <2>2, <2>4
  <2>6. Cardinality(T \ {x}) < Cardinality(T)
    BY <2>3
  <2> QED
    BY <2>1, <2>2, <2>5, <2>6 DEF x
<1>4. \A T \in D, f \in [D -> Nat] : E(T, f) \in Nat
  <2> TAKE T \in D, f \in [D -> Nat]
  <2>1. CASE T = {}
    BY <2>1
  <2>2. CASE T # {}
    <3> DEFINE x == CHOOSE x \in T : TRUE
               y == x * times[x]
               z == f[T \ {x}]
    <3>1. E(T, f) = y + z
      BY <2>2
    <3>2. y \in Nat /\ T \ {x} \in D
      BY <1>3, <2>2
    <3>3. z \in Nat
      <4> HIDE DEF x, D
      <4> QED
        BY <3>2
    <3> HIDE DEF y, z, E
    <3> QED
      BY <3>1, <3>2, <3>3
  <2> QED
    BY <2>1, <2>2
<1>5. st \in [D -> [[D -> Nat] -> Nat]]
  <2> HIDE DEF E, D
  <2> QED
    BY <1>4
<1>6. Descends(D, m, Nat, st)
  <2> SUFFICES ASSUME NEW T \in D, NEW f \in [D -> Nat], NEW g \in [D -> Nat],
                      \A R \in D : m[R] < m[T] => f[R] = g[R]
               PROVE  E(T, f) = E(T, g)
    <3> HIDE DEF E, D, m
    <3> QED
      BY DEF Descends
  <2>1. CASE T = {}
    BY <2>1
  <2>2. CASE T # {}
    <3> DEFINE x == CHOOSE x \in T : TRUE
    <3>1. T \ {x} \in D /\ Cardinality(T \ {x}) < Cardinality(T)
      BY <1>3, <2>2
    <3>2. m[T \ {x}] = Cardinality(T \ {x}) /\ m[T] = Cardinality(T)
      <4> HIDE DEF x, D
      <4> QED
        BY <3>1
    <3>3. f[T \ {x}] = g[T \ {x}]
      <4> HIDE DEF x, D, m
      <4> QED
        BY <3>1, <3>2
    <3> QED
      BY <2>2, <3>3, Zenon
  <2> QED
    BY <2>1, <2>2
<1>7. PICK it \in [D -> Nat] : Unfolds(it, D, st)
  <2>1. 0 \in Nat
    OBVIOUS
  <2>2. Nat # {}
    BY <2>1
  <2> HIDE DEF st, D, m
  <2> QED
    BY <1>2, <1>5, <1>6, <2>2, Recursion
<1>8. it = [T \in D |-> E(T, it)]
  <2> HIDE DEF E, D
  <2> QED
    BY <1>7 DEF Unfolds
<1>9. SumDef(it, S, times)
  BY <1>8, Zenon DEF SumDef
<1> QED
  BY <1>9

Total(S, times) == MapThenSumSet(LAMBDA b : b * times[b], S)

\* MapThenSumSet is such a solution.
LEMMA SumIs ==
  ASSUME NEW S, IsFiniteSet(S), S \subseteq Nat, NEW times, \A x \in S : times[x] \in Nat
  PROVE  \E it : SumDef(it, S, times) /\ Total(S, times) = it[S]
<1> DEFINE it == CHOOSE f : SumDef(f, S, times)
<1>1. SumDef(it, S, times)
  BY SumExists, Zenon
<1>2. Total(S, times) = it[S]
  BY Zenon DEF Total, MapThenSumSet, MapThenFoldSet, SumDef
<1> HIDE DEF it
<1> QED
  BY <1>1, <1>2

\* The histogram of a sequence has its sum.
LEMMA HistogramSum ==
  ASSUME NEW s \in Seq(Nat), NEW S, S = {s[i] : i \in 1..Len(s)}, IsFiniteSet(S),
         NEW times, \A x \in S : times[x] = Cardinality(Occurs(s, x, Len(s)))
  PROVE  Total(S, times) = SumOfBytes(s)
<1> DEFINE L == Len(s)
<1>1. L \in Nat /\ S \subseteq Nat
  BY LenProperties, ElementOfSeq
<1>2. \A x \in S : times[x] \in Nat
  <2> SUFFICES ASSUME NEW x \in S PROVE Cardinality(Occurs(s, x, L)) \in Nat
    OBVIOUS
  <2>1. L + 1 \in Nat /\ L + 1 >= 1 /\ (L + 1) - 1 = L
    BY <1>1
  <2> HIDE DEF L
  <2> QED
    BY <2>1, OccursMore
<1>3. PICK it : SumDef(it, S, times) /\ Total(S, times) = it[S]
  BY <1>1, <1>2, SumIs, Zenon
<1> DEFINE D == SUBSET S
           g(T) == Part(s, T)[L]
           m == [T \in D |-> Cardinality(T)]
           B == {T \in D : it[T] # g(T)}
<1>4. \A T \in D : IsFiniteSet(T) /\ Cardinality(T) \in Nat
  BY FS_Subset, FS_CardinalityType
<1>5. B = {}
  <2> SUFFICES ASSUME B # {} PROVE FALSE
    OBVIOUS
  <2>1. PICK T \in B : \A R \in D : m[R] < m[T] => R \notin B
    <3>1. m \in [D -> Nat] /\ B \subseteq D
      BY <1>4
    <3> HIDE DEF m, D, B
    <3> QED
      BY <3>1, LeastBy
  <2>2. T \in D
    OBVIOUS
  <2>3. it[T] = IF T = {} THEN 0
                ELSE LET x == CHOOSE x \in T : TRUE IN (x * times[x]) + it[T \ {x}]
    <3>1. it = [R \in D |-> IF R = {} THEN 0
                            ELSE LET x == CHOOSE x \in R : TRUE
                                 IN  (x * times[x]) + it[R \ {x}]]
      BY <1>3, Zenon DEF SumDef
    <3> HIDE DEF D
    <3> QED
      BY <2>2, <3>1, Zenon
  <2>4. CASE T = {}
    <3>1. it[T] = 0 /\ g(T) = 0
      BY <2>3, <2>4, PartNone
    <3>2. it[T] # g(T)
      OBVIOUS
    <3> HIDE DEF g
    <3> QED
      BY <3>1, <3>2
  <2>5. CASE T # {}
    <3> DEFINE x == CHOOSE x \in T : TRUE
               R == T \ {x}
    <3>1. x \in T
      BY <2>5
    <3>2. it[T] = (x * times[x]) + it[R]
      BY <2>3, <2>5, Zenon
    <3> HIDE DEF x
    <3>3. x \in S /\ x \in Nat /\ R \in D
      BY <1>1, <2>2, <3>1
    <3>4. Cardinality(R) = Cardinality(T) - 1 /\ Cardinality(T) \in Nat
      BY <1>4, <2>2, <3>1, FS_RemoveElement
    <3>5. m[R] < m[T]
      <4>1. m[R] = Cardinality(R) /\ m[T] = Cardinality(T)
        BY <2>2, <3>3
      <4> HIDE DEF m, R
      <4> QED
        BY <3>4, <4>1
    <3>6. it[R] = g(R)
      <4>1. R \notin B
        <5> HIDE DEF m, R, B
        <5> QED
          BY <2>1, <3>3, <3>5
      <4> HIDE DEF g, R
      <4> QED
        BY <3>3, <4>1
    <3>7. g(T) = (x * Cardinality(Occurs(s, x, L))) + g(R)
      BY <3>1, <3>3, PartSplit
    <3>8. times[x] = Cardinality(Occurs(s, x, L))
      BY <3>3
    <3>9. it[T] = g(T)
      BY ONLY <3>2, <3>6, <3>7, <3>8, Zenon
    <3> HIDE DEF g
    <3> QED
      BY <3>9
  <2> QED
    BY <2>4, <2>5
<1>6. it[S] = g(S)
  <2>1. S \in D
    OBVIOUS
  <2> HIDE DEF g, D
  <2> QED
    BY <1>5, <2>1
<1>7. g(S) = SumOfBytes(s)
  <2>1. \A i \in 1..Len(s) : s[i] \in S
    OBVIOUS
  <2> QED
    BY <2>1, PartAll
<1> HIDE DEF g
<1> QED
  BY ONLY <1>3, <1>6, <1>7, Zenon

-----------------------------------------------------------------------------
(* The trailer. *)

\* Two digits are far below IntCap.
LEMMA RoomInCap == \A n \in Nat : n <= 29 => n \in -IntCap..IntCap
<1>1. IntCap \in Nat /\ 29 <= IntCap
  BY SMT DEF IntCap
<1> QED
  BY <1>1

\* Three bytes out of a sequence.
LEMMA ThreeOf ==
  ASSUME NEW X, NEW s \in Seq(X), NEW k \in Nat, k >= 1, k + 2 <= Len(s)
  PROVE  SubSeq(s, k, k + 2) = <<s[k], s[k + 1], s[k + 2]>>
<1> DEFINE x == s[k]
           y == s[k + 1]
           z == s[k + 2]
           u == SubSeq(s, k, k + 2)
           w == <<x, y, z>>
<1>1. \A i \in k..k + 2 : s[i] \in X
  <2>1. Len(s) \in Nat
    BY LenProperties
  <2>2. \A i \in k..k + 2 : i \in 1..Len(s)
    BY <2>1
  <2> QED
    BY <2>2, ElementOfSeq
<1>2. u \in Seq(X)
  BY <1>1, SubSeqProperties
<1>3. Len(u) = 3
  <2>1. Len(u) = IF k <= k + 2 THEN ((k + 2) - k) + 1 ELSE 0
    BY <1>1, SubSeqProperties
  <2> QED
    BY <2>1
<1>4. \A i \in 1..3 : u[i] = s[(k + i) - 1]
  <2>1. \A i \in 1..((k + 2) - k) + 1 : u[i] = s[(k + i) - 1]
    BY <1>1, SubSeqProperties
  <2> QED
    BY <2>1
<1>5. u[1] = x /\ u[2] = y /\ u[3] = z
  BY <1>4
<1>6. x \in X /\ y \in X /\ z \in X
  BY <1>1
<1> HIDE DEF x, y, z, u
<1>7. w \in Seq(X) /\ Len(w) = 3 /\ w[1] = x /\ w[2] = y /\ w[3] = z
  BY <1>6
<1> HIDE DEF w
<1>8. \A i \in 1..Len(u) : u[i] = w[i]
  BY <1>3, <1>5, <1>7
<1>9. u = w
  BY <1>2, <1>3, <1>7, <1>8, SeqEqual
<1> QED
  BY <1>9 DEF x, y, z, u, w

\* Number reads what Digits3 writes.
LEMMA NumberOfThree ==
  ASSUME NEW k \in 0..255
  PROVE  Number(Digits3(k)) = k
<1> DEFINE x == ZERO + (k \div 100)
           y == ZERO + ((k % 100) \div 10)
           z == ZERO + (k % 10)
           s == <<x>>
           t == Append(s, y)
<1>1. x \in Nat /\ y \in Nat /\ z \in Nat
  BY DEF ZERO
<1>2. /\ x - ZERO \in 0..2 /\ y - ZERO \in 0..9 /\ z - ZERO \in 0..9
      /\ ((x - ZERO) * 100) + ((y - ZERO) * 10) + (z - ZERO) = k
  BY DEF ZERO
<1>3. Digits3(k) = <<x, y, z>>
  BY DEF Digits3
<1> HIDE DEF x, y, z
<1>4. Digits3(k) = Append(t, z) /\ s = Append(<<>>, x)
  BY <1>1, <1>3
<1>5. <<>> \in Seq(Int) /\ s \in Seq(Int) /\ t \in Seq(Int)
  BY <1>1
<1> HIDE DEF s, t
<1>6. 0 \in -IntCap..IntCap /\ \A n \in 0..29 : n \in -IntCap..IntCap
  BY RoomInCap
<1>7. Number(s) = x - ZERO
  <2> DEFINE e == <<>>
  <2>1. e \in Seq(Int) /\ Number(e) = 0 /\ s = Append(e, x) /\ x \in Int
    BY <1>1, <1>4, <1>5, NumberEmpty
  <2> HIDE DEF e
  <2>2. Number(e) \in -IntCap..IntCap
    BY <1>6, <2>1
  <2>3. Number(s) = (Number(e) * 10) + (x - ZERO)
    BY <2>1, <2>2, NumberAppend
  <2> QED
    BY <1>2, <2>1, <2>3
<1>8. Number(t) = ((x - ZERO) * 10) + (y - ZERO)
  <2>1. Number(s) \in -IntCap..IntCap
    BY <1>2, <1>6, <1>7
  <2>2. Number(t) = (Number(s) * 10) + (y - ZERO)
    BY <1>1, <1>5, <2>1, NumberAppend DEF t
  <2> QED
    BY <1>7, <2>2
<1>9. Number(Digits3(k)) = (Number(t) * 10) + (z - ZERO)
  <2>1. Number(t) \in 0..29
    BY <1>2, <1>8
  <2>2. Number(t) \in -IntCap..IntCap
    BY <1>6, <2>1
  <2> QED
    BY <1>1, <1>4, <1>5, <2>2, NumberAppend
<1> QED
  BY <1>2, <1>8, <1>9

\* The CheckSum's tag.
LEMMA TenIs == ToString10[CheckSum] = <<ZERO + 1, ZERO>>
<1>1. /\ CheckSum \in Nat /\ ~(CheckSum < 10) /\ CheckSum \div 10 = 1
      /\ CheckSum % 10 = 0 /\ 1 \in Nat /\ 1 < 10
  BY DEF CheckSum
<1>2. ToString10[CheckSum] = Append(ToString10[CheckSum \div 10], ZERO + (CheckSum % 10))
  BY <1>1, ToStringUnfolds
<1>3. ToString10[1] = <<ZERO + 1>>
  BY <1>1, ToStringUnfolds
<1>4. ZERO + (CheckSum % 10) = ZERO
  BY <1>1 DEF ZERO
<1>5. ToString10[CheckSum] = Append(<<ZERO + 1>>, ZERO)
  BY <1>1, <1>2, <1>3, <1>4
<1> DEFINE x == ZERO + 1
           y == ZERO
<1>6. Append(<<x>>, y) = <<x, y>>
  <2>1. x \in Nat /\ y \in Nat
    BY DEF ZERO
  <2> DEFINE u == Append(<<x>>, y)
             w == <<x, y>>
  <2> HIDE DEF x, y
  <2>2. u \in Seq(Nat) /\ Len(u) = 2 /\ u[1] = x /\ u[2] = y
    BY <2>1
  <2>3. w \in Seq(Nat) /\ Len(w) = 2 /\ w[1] = x /\ w[2] = y
    BY <2>1
  <2> HIDE DEF u, w
  <2>4. \A i \in 1..Len(u) : u[i] = w[i]
    BY <2>2, <2>3
  <2>5. u = w
    BY <2>2, <2>3, <2>4, SeqEqual
  <2> QED
    BY <2>5 DEF u, w
<1> HIDE DEF x, y
<1> QED
  BY <1>5, <1>6 DEF x, y

\* The seven bytes of the trailer.
LEMMA TrailerBytes ==
  ASSUME NEW b, Whole(b)
  PROVE  /\ SubSeq(Trailer(b), 1, 3) = <<ZERO + 1, ZERO, EQUAL>>
         /\ Trailer(b)[7] = SOH
         /\ \A i \in 4..6 : Trailer(b)[i] \in Digit
         /\ SubSeq(Trailer(b), 4, 6) = CheckDigits(b)
<1> DEFINE t == Trailer(b)
           v == CheckDigits(b)
           A == ToString10[CheckSum]
<1>1. /\ v \in Seq(Digit) /\ Len(v) = 3 /\ v \in Seq(Byte)
      /\ t \in Seq(Byte) /\ Len(t) = 7
  BY ByteFacts, SeqMonotonic DEF Whole
<1>2. CheckSum \in Nat
  BY DEF CheckSum
<1>3. t = AppendFIX(CheckSum, v)
  BY DEF Trailer
<1>4. A = <<ZERO + 1, ZERO>>
  BY TenIs
<1> HIDE DEF t, v
<1>5. /\ \A i \in 1..Len(A) : t[i] = A[i]
      /\ t[Len(A) + 1] = EQUAL
      /\ \A i \in 1..Len(v) : t[(Len(A) + 1) + i] = v[i]
      /\ t[(Len(A) + Len(v)) + 2] = SOH
  <2>1. LET f == AppendFIX(CheckSum, v)
            a == Len(ToString10[CheckSum])
        IN  /\ f \in Seq(Byte) /\ Len(f) = (a + Len(v)) + 2
            /\ \A i \in 1..a : f[i] = ToString10[CheckSum][i]
            /\ f[a + 1] = EQUAL
            /\ \A i \in 1..Len(v) : f[(a + 1) + i] = v[i]
            /\ f[(a + Len(v)) + 2] = SOH
    BY ONLY <1>1, <1>2, ByteFacts, FieldBytes, ZenonT(90)
  <2> QED
    BY ONLY <1>3, <2>1, Zenon
<1> HIDE DEF A
<1>6. Len(A) = 2 /\ A[1] = ZERO + 1 /\ A[2] = ZERO
  BY <1>4
<1>7. t[1] = ZERO + 1 /\ t[2] = ZERO /\ t[3] = EQUAL
  BY <1>5, <1>6
<1>8. t[7] = SOH
  BY <1>1, <1>5, <1>6
<1>9. t[4] = v[1] /\ t[5] = v[2] /\ t[6] = v[3]
  <2>1. \A i \in 1..3 : t[3 + i] = v[i]
    BY <1>1, <1>5, <1>6
  <2> QED
    BY <2>1
<1>10. \A i \in 1..3 : v[i] \in Digit
  BY <1>1, ElementOfSeq
<1>11. \A i \in 4..6 : t[i] \in Digit
  BY <1>9, <1>10
<1>12. SubSeq(t, 1, 3) = <<ZERO + 1, ZERO, EQUAL>>
  <2>1. 1 + 2 <= Len(t)
    BY <1>1
  <2>2. 1 \in Nat /\ 1 >= 1 /\ t \in Seq(Byte)
    BY <1>1
  <2>3. SubSeq(t, 1, 1 + 2) = <<t[1], t[1 + 1], t[1 + 2]>>
    BY ONLY <2>1, <2>2, ThreeOf, Zenon
  <2> QED
    BY <1>7, <2>3
<1>13. SubSeq(t, 4, 6) = v
  <2>1. SubSeq(t, 4, 6) = <<t[4], t[5], t[6]>>
    <3>1. 4 + 2 <= Len(t)
      BY <1>1
    <3>2. SubSeq(t, 4, 4 + 2) = <<t[4], t[4 + 1], t[4 + 2]>>
      BY <1>1, <3>1, ThreeOf
    <3> QED
      BY <3>2
  <2>2. v = <<v[1], v[2], v[3]>>
    BY <1>1
  <2> QED
    BY <1>9, <2>1, <2>2
<1> QED
  BY <1>8, <1>11, <1>12, <1>13 DEF t, v

\* The parts of a message: its trailer, and the bytes before it.
LEMMA Parts ==
  ASSUME NEW X, NEW f \in Seq(X), NEW t \in Seq(X), Len(t) = 7
  PROVE  /\ Len(f \o t) - 7 = Len(f)
         /\ SubSeq(f \o t, Len(f) + 1, Len(f) + 7) = t
         /\ \A i \in 1..Len(f) : (f \o t)[i] = f[i]
<1> DEFINE d == f \o t
           n == Len(f)
           u == SubSeq(d, n + 1, n + 7)
<1>1. n \in Nat
  BY LenProperties
<1>2. /\ Len(d) = n + 7
      /\ \A i \in 1..n : d[i] = f[i]
      /\ \A i \in 1..7 : d[n + i] = t[i]
  <2>1. /\ f \o t \in Seq(X) /\ Len(f \o t) = Len(f) + Len(t)
        /\ \A i \in 1..Len(f) + Len(t) :
             (f \o t)[i] = IF i <= Len(f) THEN f[i] ELSE t[i - Len(f)]
    BY ONLY f \in Seq(X), t \in Seq(X), ConcatProperties, Zenon
  <2>2. Len(d) = n + 7 /\ \A i \in 1..n + 7 : d[i] = IF i <= n THEN f[i] ELSE t[i - n]
    BY ONLY <2>1, Len(t) = 7, Zenon
  <2> HIDE DEF d, n
  <2>3. \A i \in 1..n : d[i] = f[i]
    BY <1>1, <2>2
  <2>4. ASSUME NEW i \in 1..7 PROVE d[n + i] = t[i]
    <3>1. n + i \in 1..n + 7 /\ ~(n + i <= n) /\ (n + i) - n = i
      BY <1>1
    <3> QED
      BY <2>2, <3>1
  <2> QED
    BY <2>2, <2>3, <2>4
<1> HIDE DEF d, n
<1>3. \A i \in 1..7 : t[i] \in X
  BY ElementOfSeq
<1>4. \A i \in n + 1..n + 7 : d[i] \in X
  <2> SUFFICES ASSUME NEW i \in n + 1..n + 7 PROVE d[i] \in X
    OBVIOUS
  <2>1. i - n \in 1..7 /\ n + (i - n) = i
    BY <1>1
  <2>2. d[n + (i - n)] = t[i - n]
    BY <1>2, <2>1
  <2> QED
    BY <1>3, <2>1, <2>2
<1>5. u \in Seq(X)
  BY <1>1, <1>4, SubSeqProperties
<1>6. Len(u) = 7
  <2>1. Len(u) = IF n + 1 <= n + 7 THEN ((n + 7) - (n + 1)) + 1 ELSE 0
    BY <1>1, <1>4, SubSeqProperties
  <2> QED
    BY <1>1, <2>1
<1>7. \A i \in 1..7 : u[i] = t[i]
  <2> SUFFICES ASSUME NEW i \in 1..7 PROVE u[i] = t[i]
    OBVIOUS
  <2>1. \A j \in 1..((n + 7) - (n + 1)) + 1 : u[j] = d[((n + 1) + j) - 1]
    BY <1>1, <1>4, SubSeqProperties
  <2>2. i \in 1..((n + 7) - (n + 1)) + 1 /\ ((n + 1) + i) - 1 = n + i
    BY <1>1
  <2> HIDE DEF u
  <2> QED
    BY <1>2, <2>1, <2>2
<1>8. u = t
  <2> HIDE DEF u
  <2> QED
    BY <1>5, <1>6, <1>7, SeqEqual
<1>9. Len(d) - 7 = n
  BY <1>1, <1>2
<1> QED
  BY <1>2, <1>8, <1>9 DEF d, n, u

\* The program's histogram of the bytes before the trailer has their sum.
LEMMA CountedSum ==
  ASSUME NEW f \in Seq(Byte), NEW d, \A i \in 1..Len(f) : d[i] = f[i]
  PROVE  LET times == [b \in 0..255 |-> Cardinality({i \in 1..Len(f) : d[i] = b})]
         IN  Total({d[i] : i \in 1..Len(f)}, times) = SumOfBytes(f)
<1> DEFINE n     == Len(f)
           times == [b \in 0..255 |-> Cardinality({i \in 1..n : d[i] = b})]
           S     == {d[i] : i \in 1..n}
<1>1. n \in Nat /\ \A i \in 1..n : f[i] \in Byte
  BY LenProperties, ElementOfSeq
<1>2. S = {f[i] : i \in 1..n}
  <2> HIDE DEF n
  <2>1. \A i \in 1..n : d[i] = f[i]
    BY DEF n
  <2> QED
    BY <2>1
<1>3. S \in SUBSET (0..255)
  BY <1>1, <1>2, ZenonT(40) DEF Byte
<1>4. IsFiniteSet(S)
  <2>1. IsFiniteSet(0..255)
    <3>1. 0 \in Int /\ 255 \in Int
      OBVIOUS
    <3> QED
      BY ONLY <3>1, FS_Interval, Zenon
  <2> HIDE DEF S
  <2> QED
    BY <1>3, <2>1, FS_Subset, ZenonT(40)
<1>5. ASSUME NEW b \in S PROVE times[b] = Cardinality(Occurs(f, b, n))
  <2>1. {i \in 1..n : d[i] = b} = Occurs(f, b, n)
    BY DEF Occurs
  <2>2. b \in 0..255
    BY <1>3, <1>5
  <2>3. times[b] = Cardinality({i \in 1..n : d[i] = b})
    <3> HIDE DEF S, n
    <3> QED
      BY <2>2
  <2> QED
    BY ONLY <2>1, <2>3, Zenon
<1>6. f \in Seq(Nat)
  BY ByteFacts
<1> HIDE DEF times, S
<1>7. Total(S, times) = SumOfBytes(f)
  <2>1. S = {f[i] : i \in 1..Len(f)}
    BY <1>2 DEF n
  <2>2. \A b \in S : times[b] = Cardinality(Occurs(f, b, Len(f)))
    BY <1>5 DEF n
  <2> QED
    BY ONLY <1>4, <1>6, <2>1, <2>2, HistogramSum, Zenon
<1> QED
  BY <1>7 DEF times, S, n

\* All of TrailerOK for the message that is in sending_data_.
LEMMA TrailerHolds ==
  ASSUME EncodeInv
  PROVE  TrailerOK
<1> SUFFICES ASSUME Encoded PROVE TrailerOK
  BY DEF TrailerOK
<1>1. PICK body :
        /\ IsBody(body) /\ Whole(Common \o body)
        /\ sending_data_ = Framed(Common \o body) \o Trailer(Common \o body)
  BY MessageIs
<1> DEFINE b     == Common \o body
           f     == Framed(b)
           t     == Trailer(b)
           d     == sending_data_
           n     == Len(d) - 7
           times == [x \in 0..255 |-> Cardinality({i \in 1..n : d[i] = x})]
           sum   == Total({d[i] : i \in 1..n}, times)
           tail  == SubSeq(d, n + 1, n + 7)
<1> HIDE DEF b
<1>2. Whole(b) /\ d = f \o t
  BY <1>1 DEF b
<1>3. f \in Seq(Byte) /\ t \in Seq(Byte) /\ Len(t) = 7
  BY <1>2 DEF Whole
<1> HIDE DEF f, t
<1>4. n = Len(f)
  BY <1>2, <1>3, Parts
<1>5. SubSeq(d, Len(f) + 1, Len(f) + 7) = t
  BY <1>2, <1>3, Parts
<1>6. \A i \in 1..Len(f) : d[i] = f[i]
  BY <1>2, <1>3, Parts
<1>7. tail = t
  BY ONLY <1>4, <1>5, Zenon
<1>8. sum = SumOfBytes(f)
  <2>1. LET ts == [x \in 0..255 |-> Cardinality({i \in 1..Len(f) : d[i] = x})]
        IN  Total({d[i] : i \in 1..Len(f)}, ts) = SumOfBytes(f)
    BY ONLY <1>3, <1>6, CountedSum, ZenonT(40)
  <2> QED
    BY ONLY <1>4, <2>1, Zenon
<1>9. /\ SubSeq(t, 1, 3) = <<ZERO + 1, ZERO, EQUAL>> /\ t[7] = SOH
      /\ \A i \in 4..6 : t[i] \in ZERO..ZERO + 9
      /\ SubSeq(t, 4, 6) = CheckDigits(b)
  BY <1>2, TrailerBytes, Zenon DEF t, Digit
<1>10. (Number(SubSeq(t, 4, 6)) - sum) % 256 = 0
  <2> DEFINE m == SumOfBytes(f)
             k == m % 256
  <2>1. m \in Nat
    BY <1>3, ByteFacts, SumType
  <2>2. CheckDigits(b) = Digits3(k)
    BY DEF CheckDigits, CheckSumDigits, f
  <2>3. k \in 0..255
    <3> HIDE DEF m
    <3> QED
      BY <2>1
  <2>4. Number(Digits3(k)) = k
    <3> HIDE DEF k
    <3> QED
      BY <2>3, NumberOfThree
  <2>5. Number(SubSeq(t, 4, 6)) = k
    BY ONLY <1>9, <2>2, <2>4, Zenon
  <2>6. (k - m) % 256 = 0
    <3> HIDE DEF m
    <3> QED
      BY <2>1
  <2> QED
    BY ONLY <1>8, <2>5, <2>6, ZenonT(40)
<1>11. /\ SubSeq(tail, 1, 3) = <<ZERO + 1, ZERO, EQUAL>> /\ tail[7] = SOH
       /\ \A i \in 4..6 : tail[i] \in ZERO..ZERO + 9
       /\ (Number(SubSeq(tail, 4, 6)) - sum) % 256 = 0
  BY ONLY <1>7, <1>9, <1>10, Zenon
<1> QED
  BY ONLY <1>11, Zenon DEF TrailerOK, Total

\* Every message ends with a CheckSum of three digits that are, modulo 256, the sum of
\* all bytes before it, counted by their values: the loop of encodeHeaderAndTrailer,
\* which runs over the moved message, misses none and counts none twice.
THEOREM ChecksumsRight == Spec => []TrailerOK
<1>1. EncodeInv => TrailerOK
  BY TrailerHolds
<1> QED
  BY <1>1, EncodeInvariant, PTL
=============================================================================
