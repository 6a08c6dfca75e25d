------------------------------ MODULE FixWire ------------------------------
(***************************************************************************)
(* The FIX tag=value encoding, both directions, as pure operators:         *)
(* MessageEncode's appendFIX and encodeHeaderAndTrailer write it, FixUtils *)
(* reads it back.  Byte arrays are sequences; an offset in the C++ code    *)
(* (from 0) is the number of bytes before the one it names.                *)
(***************************************************************************)
EXTENDS FixTags, Sequences, FiniteSets, FiniteSetsExt, SequencesExt

\* std::to_string of a natural number.
ToString10[n \in Nat] ==
  IF n < 10 THEN <<ZERO + n>> ELSE Append(ToString10[n \div 10], ZERO + (n % 10))

\* Three digits, as %03d writes them.
Digits3(n) == <<ZERO + (n \div 100), ZERO + ((n % 100) \div 10), ZERO + (n % 10)>>

\* memcpy(dst + at, src, |src|), for at inside dst.
Overwrite(dst, at, src) ==
  SubSeq(dst, 1, at) \o src \o SubSeq(dst, at + Len(src) + 1, Len(dst))

-----------------------------------------------------------------------------
(* Writing. *)

\* The bytes the five overloads of appendFIX put at data + len.
AppendFIX(tag, val) == ToString10[tag] \o <<EQUAL>> \o val \o <<SOH>>

\* Mutant: the three digits without the leading zeros.
CheckSumUnpadded(sum) == ToString10[sum % 256]
CheckSumDigits(sum) == Digits3(sum % 256)

\* Summed by halves: sum[<<from, to>>] is of the bytes behind from, up to to.
SumOfBytes(s) ==
  LET sum[r \in (0..Len(s)) \X (0..Len(s))] ==
        IF r[2] <= r[1] + 1 THEN IF r[2] > r[1] THEN s[r[2]] ELSE 0
        ELSE LET mid == (r[1] + r[2]) \div 2
             IN  sum[<<r[1], mid>>] + sum[<<mid, r[2]>>]
  IN  sum[<<0, Len(s)>>]

\* Mutant: one byte more than the header takes.
HeaderRoomLong(bodyLen) == 14 + Len(ToString10[bodyLen])
\* How far encodeHeaderAndTrailer moves the body to make room for the header.
HeaderRoom(bodyLen) == 13 + Len(ToString10[bodyLen])

\* encodeHeaderAndTrailer: the body moves up inside the same buffer, the
\* header is written before it, then the trailer behind it.
EncodeHeaderAndTrailer(body) ==
  LET moved  == Overwrite(body, HeaderRoom(Len(body)), body)
      header == AppendFIX(BeginString, FIX_VER_44)
                  \o AppendFIX(BodyLength, ToString10[Len(body)])
      framed == SubSeq(Overwrite(moved, 0, header), 1, Len(header) + Len(body))
  IN  framed \o AppendFIX(CheckSum, CheckSumDigits(SumOfBytes(framed)))

-----------------------------------------------------------------------------
(* Reading. *)

\* The digits loop `n = n * 10 + curr - 48'.  A byte below '0' counts negative.
\* The sum stops growing past IntCap, which exceeds every tag and buffer.
IntCap == 100000000
Number(s) ==
  LET num[i \in 0..Len(s)] ==
        IF i = 0 THEN 0
        ELSE LET n == num[i - 1]
             IN  IF n \in -IntCap..IntCap THEN n * 10 + s[i] - ZERO ELSE n
  IN  num[Len(s)]

\* The loops of GetFIXVersion and GetBodyLen look at no more bytes than this.
ScanLimit == 12

\* What the `else' branches of the loops keep of s: every byte but c.
Without(s, c) ==
  LET kept[i \in 0..Len(s)] ==
        IF i = 0 THEN <<>>
        ELSE IF s[i] = c THEN kept[i - 1] ELSE Append(kept[i - 1], s[i])
  IN  kept[Len(s)]

FirstAt(w, c) == Min({i \in DOMAIN w : w[i] = c} \cup {Len(w) + 1})

\* GetFIXVersion, GetBodyLen and GetMsgType on the ScanLimit bytes w at data +
\* pos: how far pos advances, and the bytes of the value.  They stop behind a
\* SOH, or behind the first '=' if the tag before it is not the expected one.
ScanField(w, tag) ==
  LET eq    == FirstAt(w, EQUAL)
      soh   == FirstAt(w, SOH)
      named == eq < soh
      bad   == named /\ Number(SubSeq(w, 1, eq - 1)) # tag
      val   == SubSeq(w, eq + 1, soh - 1)
  IN  [consumed |-> IF bad THEN eq ELSE Min({soh, Len(w)}),
       value    |-> IF named /\ ~bad THEN Without(val, EQUAL)
                    ELSE <<>>]

GetFIXVersion(w) == ScanField(w, BeginString)
GetBodyLen(w)    == ScanField(w, BodyLength)

\* strlen of a value copied into a zeroed array.
StrLen(val) == FirstAt(val, 0) - 1

\* HandleMsg's msg_len, from the two fields it scanned.
MsgLen(ver, bodyLen) ==
  3 + StrLen(ver.value) + 3 + Len(bodyLen.value) + Number(bodyLen.value) + 7

\* DecodeHeader splits the message at each SOH and stops at the first tag that
\* is not one of the header's; a repeated tag overwrites the earlier value.
HeaderTags ==
  {BeginString, BodyLength, MsgType, SenderCompID, TargetCompID, MsgSeqNum,
   SenderSubID, TargetSubID, PossDupFlag, PossResend, SendingTime,
   OrigSendingTime}

SohIn(d) == {i \in DOMAIN d : d[i] = SOH}
FieldBefore(d, i) == SubSeq(d, Max({j \in SohIn(d) : j < i} \cup {0}) + 1, i - 1)
TagOf(f) == Number(SubSeq(f, 1, FirstAt(f, EQUAL) - 1))
ValueOf(f) == Without(SubSeq(f, FirstAt(f, EQUAL) + 1, Len(f)), EQUAL)

\* Where DecodeHeader stops: behind the first field that is not the header's, or
\* behind the last byte.
HeaderStop(d) ==
  Min({i \in SohIn(d) : TagOf(FieldBefore(d, i)) \notin HeaderTags} \cup {Len(d) + 1})

HeaderEnds(d) == LET stop == HeaderStop(d) IN {i \in SohIn(d) : i < stop}

DecodeHeader(d, tag) ==
  LET at == {i \in HeaderEnds(d) : TagOf(FieldBefore(d, i)) = tag}
  IN  IF at = {} THEN <<>> ELSE ValueOf(FieldBefore(d, Max(at)))
-----------------------------------------------------------------------------
(* What reading needs room for. *)

\* fix_ver; strlen needs a zero byte in it.
FixVerSize == 10
VersionEnds(ver) == Len(ver.value) < FixVerSize \/ 0 \in Range(ver.value)

\* The arrays of MessageHeader.
CompIDTags == {SenderCompID, SenderSubID, TargetCompID, TargetSubID}
HeaderSize ==
  [tag \in {BeginString, MsgType, SendingTime, OrigSendingTime} \cup CompIDTags |->
     CASE tag = BeginString -> 12
       [] tag = MsgType -> 2
       [] tag \in {SendingTime, OrigSendingTime} -> 22
       [] OTHER -> 16]

\* tmp_val holds every value first, also that of the field DecodeHeader stops at;
\* a number gets a zero byte behind it, and a flag goes no further.
TmpSize == 100
Room(tag) ==
  IF tag \in DOMAIN HeaderSize THEN HeaderSize[tag]
  ELSE IF tag \in {BodyLength, MsgSeqNum} THEN TmpSize - 1 ELSE TmpSize

\* No value that DecodeHeader goes through is longer than where it is put.
HeaderFits(d) ==
  /\ \A i \in HeaderEnds(d) :
       Len(ValueOf(FieldBefore(d, i))) <= Room(TagOf(FieldBefore(d, i)))
  /\ Len(ValueOf(FieldBefore(d, HeaderStop(d)))) <= TmpSize
=============================================================================
