------------------------- MODULE FramingExactProofs -------------------------
(***************************************************************************)
(* Proofs about IncomingFraming under every segmentation: for every stream *)
(* of messages, Tame is exactly the condition under which HandleMsg gets a *)
(* recv right.                                                             *)
(***************************************************************************)
EXTENDS FramingExact, IncomingFramingProofs, FixWireProofs

-----------------------------------------------------------------------------
(* The inductive invariant of TrackedSpec.                                 *)
(* Whatever bytes HandleMsg takes for a message, curr_pos stays inside     *)
(* data.  After a tame recv the invariant of TameSpec holds.  After a wild *)
(* one either a wrong message has been given away, or everything is still  *)
(* in its place and one of Tame's conditions on the messages from first on *)
(* is broken, while those given away are as long as first and decodable.   *)

Inside ==
  /\ TypeOK
  /\ pc = "recv" => data = <<>> /\ curr_pos = 0
  /\ pc = "handle" => curr_pos \in 0..Len(data)

WildFrom(first) ==
  /\ first <= current /\ Start[first] = base
  /\ \A k \in first..current - 1 : Length(k) = Length(first) /\ k \in Decodable
  /\ ~(/\ EvenLengths(first, received)
       /\ TailUsable(first, received)
       /\ TailFits(first, received)
       /\ HeadersFit(first, received))

GoingWrong == Placed /\ \E first \in 1..NMsg : WildFrom(first)

ExactInv ==
  /\ Inside
  /\ verdict \in {"tame", "wild", "lost"}
  /\ verdict = "tame" => IInv
  /\ verdict = "wild" =>
       /\ pc = "recv" => ~RightSoFar
       /\ pc = "handle" => ~Intact \/ GoingWrong

-----------------------------------------------------------------------------
(* Every step of every segmentation stays Inside. *)

\* Garbage or not, the length HandleMsg makes out of it is an integer.
LEMMA FrameLenType ==
  ASSUME TypeOK, curr_pos \in 0..Len(data), left >= MinFrame
  PROVE  FrameLen \in Int
<1>1. data \in Seq(Nat) /\ Len(data) \in Nat /\ MinFrame \in Nat /\ MinFrame >= 24
  BY BufferAssumption, LenProperties DEF TypeOK, ScanLimit
<1>2. curr_pos \in Nat /\ curr_pos + 24 <= Len(data)
  BY <1>1 DEF left
<1> DEFINE w   == Window(data, curr_pos)
           ver == GetFIXVersion(w)
           v   == Window(data, ver.consumed)
           body == GetBodyLen(v)
<1>3. w \in Seq(Nat) /\ Len(w) = 12
  <2>1. curr_pos + ScanLimit <= Len(data)
    BY <1>1, <1>2 DEF ScanLimit
  <2> QED
    BY <1>1, <1>2, <2>1, WindowBytes DEF ScanLimit
<1>4. ver.consumed \in 0..12 /\ ver.value \in Seq(Nat)
  <2> HIDE DEF w
  <2> QED
    BY <1>3, ScanFieldType DEF GetFIXVersion
<1>5. v \in Seq(Nat)
  <2> DEFINE c == ver.consumed
  <2>1. c \in 0..12 /\ v = Window(data, c)
    BY <1>4
  <2>2. c + ScanLimit <= Len(data)
    <3> HIDE DEF c
    <3> QED
      BY <1>1, <1>2, <2>1 DEF ScanLimit
  <2> HIDE DEF c, v
  <2> QED
    BY <1>1, <2>1, <2>2, WindowBytes
<1>6. body.value \in Seq(Nat)
  <2> HIDE DEF v
  <2> QED
    BY <1>5, ScanFieldType DEF GetBodyLen
<1>7. FrameLen = MsgLen(ver, body)
  BY DEF FrameLen
<1> HIDE DEF ver, body
<1> QED
  BY <1>4, <1>6, <1>7, MsgLenType

\* One recv, tame or not, with OnReceiveMsg's copying.
LEMMA RecvStaysInside ==
  ASSUME Inside, NEW n \in 1..Len(Wire), Recv(n)
  PROVE  Inside'
<1>1. /\ pc = "recv" /\ received' = received + n /\ received + n <= Len(Wire)
      /\ pos_' = pos_ /\ curr_pos' = curr_pos /\ dispatched' = dispatched
      /\ curr_pos = 0 /\ data = <<>> /\ n \in Nat /\ n >= 1
      /\ received \in Nat /\ pos_ \in Nat /\ dispatched \in Delivered
      /\ TempCap \in Nat /\ temp_buf_ \in [1..TempCap -> Nat]
      /\ Len(Wire) \in Nat /\ Wire \in Seq(Nat)
  BY Stream, SMTT(30) DEF Recv, Inside, TypeOK
<1>2. CASE pos_ > 0 /\ pos_ + n > TempCap
  <2>1. pc' = "undefined" /\ temp_buf_' = temp_buf_ /\ data' = data
    BY <1>2 DEF Recv
  <2> QED
    BY <1>1, <2>1 DEF Inside, TypeOK
<1>3. CASE ~(pos_ > 0 /\ pos_ + n > TempCap)
  <2> DEFINE chunk == Chunk(n)
  <2>1. /\ pc' = "handle" /\ data' = Joined(chunk)
        /\ temp_buf_' = IF pos_ > 0 THEN Overwrite(temp_buf_, pos_, chunk)
                        ELSE temp_buf_
    BY <1>3 DEF Recv
  <2>2. chunk \in Seq(Nat) /\ Len(chunk) = n
    <3> DEFINE q == received + n
    <3>1. /\ q \in Nat /\ received <= q /\ q <= Len(Wire) /\ q - received = n
          /\ chunk = SubSeq(Wire, received + 1, q)
      BY <1>1 DEF Chunk
    <3> HIDE DEF q, chunk
    <3> QED
      BY <1>1, <3>1, Piece, SMTT(30)
  <2> HIDE DEF chunk
  <2>3. temp_buf_' \in [1..TempCap -> Nat]
    <3>1. CASE pos_ > 0
      <4>1. pos_ + Len(chunk) <= TempCap
        <5>1. pos_ + n <= TempCap
          BY <1>1, <1>3, <3>1
        <5> QED
          BY <2>2, <5>1
      <4>2. Overwrite(temp_buf_, pos_, chunk) \in [1..TempCap -> Nat]
        BY <1>1, <2>2, <4>1, OverwriteInside
      <4> QED
        BY <2>1, <3>1, <4>2
    <3>2. CASE ~(pos_ > 0)
      BY <1>1, <2>1, <3>2
    <3> QED
      BY <3>1, <3>2
  <2>4. data' \in Seq(Nat)
    <3>1. CASE pos_ > 0
      <4>1. temp_buf_ \in Seq(Nat) /\ Len(temp_buf_) = TempCap /\ pos_ <= TempCap
        BY <1>1, <1>3, <3>1
      <4>2. SubSeq(temp_buf_, 1, pos_) \in Seq(Nat)
        BY <1>1, <4>1, PieceType
      <4> QED
        BY <2>1, <2>2, <3>1, <4>2, ConcatProperties DEF Joined
    <3>2. CASE ~(pos_ > 0)
      BY <2>1, <2>2, <3>2 DEF Joined
    <3> QED
      BY <3>1, <3>2
  <2>5. Len(data') \in Nat
    BY <2>4, LenProperties
  <2> QED
    BY <1>1, <2>1, <2>3, <2>4, <2>5, SMTT(30) DEF Inside, TypeOK, Delivered
<1> QED
  BY <1>2, <1>3

\* HandleMsg returns and keeps some bytes for the next recv, as many as may be.
LEMMA ReturnStaysInside ==
  ASSUME Inside, pc = "handle", NEW keep \in Nat, Return(keep)
  PROVE  Inside'
<1>1. /\ data \in Seq(Nat) /\ Len(data) \in Nat /\ curr_pos \in 0..Len(data)
      /\ left = Len(data) - curr_pos /\ left \in Nat
      /\ TempCap \in Nat /\ temp_buf_ \in [1..TempCap -> Nat]
      /\ received \in 0..Len(Wire) /\ dispatched \in Delivered
  <2>1. data \in Seq(Nat) /\ Len(data) \in Nat /\ curr_pos \in 0..Len(data)
    BY LenProperties DEF Inside, TypeOK
  <2> QED
    BY <2>1, Stream, SMTT(30) DEF Inside, TypeOK, left
<1>2. /\ pos_' = keep /\ data' = <<>> /\ curr_pos' = 0
      /\ received' = received /\ dispatched' = dispatched
  BY DEF Return
<1>3. temp_buf_' \in [1..TempCap -> Nat] /\ pc' \in {"recv", "undefined"}
  <2>1. CASE left > TempCap
    BY <1>1, <2>1 DEF Return
  <2>2. CASE ~(left > TempCap)
    <3> DEFINE rest == SubSeq(data, curr_pos + 1, Len(data))
    <3>1. temp_buf_' = Overwrite(temp_buf_, 0, rest) /\ pc' = "recv"
      BY <2>2 DEF Return
    <3>2. rest \in Seq(Nat) /\ Len(rest) = left
      BY <1>1, Piece, SMTT(30)
    <3> HIDE DEF rest
    <3>3. 0 \in Nat /\ 0 + Len(rest) <= TempCap
      BY <1>1, <2>2, <3>2
    <3> QED
      BY <1>1, <3>1, <3>2, <3>3, OverwriteInside
  <2> QED
    BY <2>1, <2>2
<1> QED
  BY <1>1, <1>2, <1>3 DEF Inside, TypeOK, Delivered

\* HandleMsg gives a frame away and moves on, wherever its length came from.
LEMMA DispatchStaysInside ==
  ASSUME Inside, Dispatch PROVE Inside'
<1>1. /\ data \in Seq(Nat) /\ Len(data) \in Nat /\ curr_pos \in 0..Len(data)
      /\ left = Len(data) - curr_pos /\ dispatched \in Delivered
      /\ left >= MinFrame /\ FrameLen <= left
      /\ pc = "handle" /\ TypeOK
  <2>1. data \in Seq(Nat) /\ Len(data) \in Nat /\ curr_pos \in 0..Len(data)
    BY LenProperties DEF Inside, TypeOK, Dispatch, Looks
  <2> QED
    BY <2>1 DEF Inside, TypeOK, left, Dispatch, Looks
<1>2. FrameLen \in Int
  BY <1>1, FrameLenType
<1>3. /\ received' = received /\ temp_buf_' = temp_buf_ /\ pos_' = pos_
      /\ data' = data /\ curr_pos' = curr_pos + FrameLen
      /\ pc' = IF curr_pos' < 0 THEN "undefined" ELSE pc
  BY DEF Dispatch
<1>4. curr_pos' \in Int /\ curr_pos' <= Len(data)
  BY <1>1, <1>2, <1>3
<1> DEFINE type == DecodeHeader(Frame, MsgType)
<1>5. dispatched' = Append(dispatched, Delivery(type, Frame))
  BY DEF Dispatch
<1>6. Frame \in Seq(Nat)
  <2>1. /\ curr_pos + 1 \in Nat /\ curr_pos + 1 >= 1
        /\ curr_pos + FrameLen \in Int /\ curr_pos + FrameLen <= Len(data)
    BY <1>1, <1>2
  <2> QED
    BY <1>1, <2>1, PieceType DEF Frame
<1> HIDE DEF type
<1>7. Delivery(type, Frame) \in [decoder : Seq(Nat), frame : Seq(Nat)]
  <2>1. \A t \in Decoded \cup {<<>>} : t \in Seq(Nat)
    <3>1. /\ MARKET_DATA_UPDATE \in Seq(Nat) /\ MARKET_DATA_SNAPSHOT \in Seq(Nat)
          /\ MARKET_DATA_REQUEST_REJECT \in Seq(Nat)
          /\ SECURITY_DEFINITION \in Seq(Nat) /\ LOGON \in Seq(Nat)
      BY DEF MARKET_DATA_UPDATE, MARKET_DATA_SNAPSHOT, LOGON,
             MARKET_DATA_REQUEST_REJECT, SECURITY_DEFINITION
    <3>2. /\ TEST_REQUEST \in Seq(Nat) /\ RESEND_REQUEST \in Seq(Nat)
          /\ REJECT \in Seq(Nat) /\ SEQUENCE_RESET \in Seq(Nat)
          /\ LOGOUT \in Seq(Nat) /\ HEART_BEAT \in Seq(Nat)
          /\ BUSINESS_MESSAGE_REJECT \in Seq(Nat)
      BY DEF TEST_REQUEST, RESEND_REQUEST, REJECT, SEQUENCE_RESET, LOGOUT,
             BUSINESS_MESSAGE_REJECT, HEART_BEAT
    <3>3. <<>> \in Seq(Nat)
      OBVIOUS
    <3> QED
      BY <3>1, <3>2, <3>3 DEF Decoded
  <2>2. (IF type \in Decoded THEN type ELSE <<>>) \in Decoded \cup {<<>>}
    OBVIOUS
  <2> QED
    BY <1>6, <2>1, <2>2 DEF Delivery
<1>8. dispatched' \in Delivered
  BY <1>1, <1>5, <1>7, AppendProperties DEF Delivered
<1>9. pc' \in {"handle", "undefined"} /\ (pc' = "handle" => curr_pos' >= 0)
  BY <1>1, <1>3, <1>4
<1> QED
  BY <1>1, <1>3, <1>4, <1>8, <1>9 DEF Inside, TypeOK

\* All steps of IncomingFraming together.
LEMMA StepStaysInside ==
  ASSUME Inside, [Next]_vars PROVE Inside'
<1>1. CASE \E n \in Pieces : Recv(n)
  BY <1>1, RecvStaysInside DEF Pieces
<1>2. CASE Finish
  BY <1>2, ReturnStaysInside DEF Finish
<1>3. CASE KeepTail
  <2>1. Len(data) \in Nat
    BY LenProperties DEF Inside, TypeOK
  <2> QED
    BY <1>3, <2>1, ReturnStaysInside DEF KeepTail
<1>4. CASE KeepPartial
  <2>1. left \in Nat
    <3>1. data \in Seq(Nat) /\ Len(data) \in Nat /\ curr_pos \in 0..Len(data)
      BY <1>4, LenProperties DEF Inside, TypeOK, KeepPartial, Looks
    <3> QED
      BY <3>1 DEF left
  <2> QED
    BY <1>4, <2>1, ReturnStaysInside DEF KeepPartial, Looks
<1>5. CASE Dispatch
  BY <1>5, DispatchStaysInside
<1>6. CASE Overrun
  <2>1. /\ pc' = "undefined"
        /\ UNCHANGED <<received, temp_buf_, pos_, data, curr_pos, dispatched>>
    BY <1>6 DEF Overrun
  <2> QED
    BY <2>1 DEF Inside, TypeOK
<1>7. CASE UNCHANGED vars
  BY <1>7 DEF vars, Inside, TypeOK
<1> QED
  BY <1>1, <1>2, <1>3, <1>4, <1>5, <1>6, <1>7 DEF Next, HandleMsg, Read

\* The constructor's state.
LEMMA InitInside == Init => Inside
<1>1. IInv /\ Init => Inside
  BY DEF IInv, Init, Inside
<1> QED
  BY <1>1, InitIInv

\* Every variable keeps its type under every segmentation, also when HandleMsg has
\* lost its place and takes garbage for messages.
THEOREM TypeCorrectAlways == Spec => []TypeOK
<1>1. Spec => []Inside
  BY InitInside, StepStaysInside, PTL DEF Spec
<1>2. Inside => TypeOK
  BY DEF Inside
<1> QED
  BY <1>1, <1>2, PTL

-----------------------------------------------------------------------------
(* A wild recv goes wrong. *)

\* Complete messages behind the current one do not come back, and nothing behind a
\* message that is not complete has arrived.
LEMMA Around ==
  ASSUME TypeOK, Intact, Placed, NEW k \in 1..NMsg
  PROVE  /\ Start[k] \in Nat /\ Start[k + 1] \in Nat /\ Start[k] < Start[k + 1]
         /\ k < current => Completes(k, received) /\ ~CutsShort(k, received)
         /\ /\ current <= NMsg => ~Completes(current, received)
            /\ k > current
            => ~Completes(k, received) /\ ~CutsShort(k, received)
<1>1. /\ received \in Nat /\ current \in 1..NMsg + 1 /\ Start[current] \in Nat
      /\ left \in Nat /\ left = received - Start[current]
  BY Positions
<1>2. /\ NMsg \in Nat /\ k \in 1..NMsg + 1 /\ k + 1 \in 1..NMsg + 1
      /\ Start[k] \in Nat /\ Start[k + 1] \in Nat
  BY Stream
<1>3. Start[k] < Start[k + 1]
  <2>1. Length(k) \in Nat /\ Length(k) >= MinFrame /\ MinFrame >= 24
    BY Stream DEF ScanLimit
  <2>2. MinFrame \in Nat /\ Length(k) = Start[k + 1] - Start[k]
    BY Stream DEF Length
  <2> QED
    BY <1>2, <2>1, <2>2
<1>4. ASSUME k < current
      PROVE  Completes(k, received) /\ ~CutsShort(k, received)
  <2>1. Start[k + 1] <= Start[current]
    BY <1>1, <1>4, Ordered
  <2> QED
    BY <1>1, <1>2, <2>1 DEF Completes, CutsShort
<1>5. ASSUME current <= NMsg => ~Completes(current, received), k > current
      PROVE  ~Completes(k, received) /\ ~CutsShort(k, received)
  <2>1. current \in 1..NMsg /\ Start[current + 1] \in Nat
    <3>1. current \in 1..NMsg
      BY <1>1, <1>2, <1>5
    <3>2. current + 1 \in 1..NMsg + 1
      BY <1>2, <3>1
    <3> QED
      BY <3>1, <3>2, Stream
  <2>2. Start[current + 1] <= Start[k] /\ received < Start[current + 1]
    BY <1>1, <1>2, <1>5, <2>1, Ordered DEF Completes
  <2> QED
    BY <1>1, <1>2, <1>3, <2>1, <2>2 DEF Completes, CutsShort
<1> QED
  BY <1>2, <1>3, <1>4, <1>5

\* When the messages given away are as long as first and decodable, and the current
\* one is not complete, it is the current one that breaks Tame.
LEMMA WildTail ==
  ASSUME TypeOK, Intact, Placed, NEW first \in 1..NMsg, WildFrom(first),
         current <= NMsg => ~Completes(current, received)
  PROVE  /\ current \in 1..NMsg /\ left > 0
         /\ \/ left > TempCap
            \/ /\ current # first
               /\ left < MinFrame \/ left >= Length(first)
<1> DEFINE Usable == \/ current = first \/ left = 0
                     \/ left >= MinFrame /\ left < Length(first)
<1>1. /\ received \in Nat /\ current \in 1..NMsg + 1 /\ Start[current] \in Nat
      /\ left \in Nat /\ left = received - Start[current] /\ TempCap \in Nat
      /\ NMsg \in Nat /\ MinFrame \in Nat /\ Length(first) \in Nat
      /\ left > 0 => current \in 1..NMsg
  BY Positions, Stream
<1>2. EvenLengths(first, received) /\ HeadersFit(first, received)
  <2> SUFFICES ASSUME NEW k \in first..NMsg, Completes(k, received)
               PROVE  Length(k) = Length(first) /\ k \in Decodable
    BY DEF EvenLengths, HeadersFit
  <2>1. k \in 1..NMsg /\ k \in Int
    OBVIOUS
  <2>2. k # current /\ ~(k > current)
    BY <1>1, <2>1, Around
  <2>3. k \in first..current - 1
    BY <1>1, <2>1, <2>2
  <2> QED
    BY <2>3 DEF WildFrom
<1>3. ASSUME NEW k \in first..NMsg, CutsShort(k, received) PROVE k = current
  <2>1. k \in 1..NMsg /\ k \in Int
    OBVIOUS
  <2>2. ~(k < current) /\ ~(k > current)
    BY <1>3, <2>1, Around
  <2> QED
    BY <1>1, <2>1, <2>2
<1>4. Usable => TailUsable(first, received)
  BY <1>1, <1>3 DEF TailUsable
<1>5. left <= TempCap => TailFits(first, received)
  BY <1>1, <1>3 DEF TailFits
<1>6. ~(Usable /\ left <= TempCap)
  BY <1>2, <1>4, <1>5 DEF WildFrom
<1>7. left > 0
  <2>1. left = 0 => Usable
    OBVIOUS
  <2> HIDE DEF Usable
  <2>2. left \in Nat /\ TempCap \in Nat
    BY <1>1
  <2> QED
    BY <1>6, <2>1, <2>2
<1>8. left > TempCap \/ ~Usable
  BY <1>1, <1>6
<1>9. ~Usable => current # first /\ (left < MinFrame \/ left >= Length(first))
  <2>1. left < MinFrame \/ left >= MinFrame
    BY <1>1
  <2>2. left < Length(first) \/ left >= Length(first)
    BY <1>1
  <2> QED
    BY <2>1, <2>2, Zenon
<1> QED
  BY <1>1, <1>7, <1>8, <1>9

\* What HandleMsg has given away stays given away.
LEMMA StaysBroken ==
  ASSUME TypeOK, ~Intact, HandleMsg PROVE ~Intact'
<1>1. PICK k \in DOMAIN dispatched : ~(k <= NMsg /\ dispatched[k] = Expected(k))
  BY DEF Intact
<1>2. /\ Len(dispatched) \in Nat /\ DOMAIN dispatched = 1..Len(dispatched)
      /\ dispatched \in Delivered
  BY LenProperties DEF TypeOK, Delivered
<1>3. CASE Dispatch
  <2>1. PICK e : dispatched' = Append(dispatched, e)
    BY <1>3 DEF Dispatch
  <2>2. /\ DOMAIN dispatched' = 1..Len(dispatched) + 1
        /\ \A i \in 1..Len(dispatched) : dispatched'[i] = dispatched[i]
    BY <1>2, <2>1 DEF Delivered
  <2> QED
    BY <1>1, <1>2, <2>2 DEF Intact
<1>4. CASE Finish \/ KeepTail \/ KeepPartial \/ Overrun
  <2>1. dispatched' = dispatched
    BY <1>4 DEF Finish, KeepTail, KeepPartial, Return, Overrun
  <2> QED
    BY <1>1, <2>1 DEF Intact
<1> QED
  BY <1>3, <1>4 DEF HandleMsg, Read

\* The end of a wild call: outside a buffer, or out of step.
LEMMA WildReturns ==
  ASSUME Inside, Intact, GoingWrong, Finish \/ KeepTail \/ KeepPartial
  PROVE  pc' = "undefined" \/ (pc' = "recv" /\ ~InStep')
<1>1. TypeOK /\ Placed
  BY DEF Inside, GoingWrong
<1>2. PICK first \in 1..NMsg : WildFrom(first)
  BY DEF GoingWrong
<1>3. /\ received \in Nat /\ Len(data) \in Nat /\ curr_pos \in Nat
      /\ current \in 1..NMsg + 1 /\ Start[current] \in Nat
      /\ base \in Nat /\ base + Len(data) = received
      /\ base + curr_pos = Start[current] /\ left \in Nat
      /\ left = Len(data) - curr_pos /\ left = received - Start[current]
      /\ left > 0 => current \in 1..NMsg
      /\ NMsg \in Nat /\ TempCap \in Nat /\ MinFrame \in Nat /\ MinFrame >= 24
      /\ Length(first) \in Nat /\ Length(first) >= MinFrame
      /\ first <= current /\ Start[first] = base
  BY <1>1, <1>2, Positions, Stream DEF ScanLimit, WildFrom
<1>4. PICK keep : Return(keep) /\ pos_' = keep
  BY DEF Finish, KeepTail, KeepPartial, Return
<1>5. /\ left > TempCap => pc' = "undefined"
      /\ left <= TempCap => pc' = "recv"
      /\ received' = received /\ current' = current
  BY <1>3, <1>4 DEF Return, current
<1> SUFFICES ASSUME left <= TempCap PROVE ~InStep'
  <2>1. left > TempCap \/ left <= TempCap
    BY <1>3
  <2> QED
    BY <1>5, <2>1
<1>6. CASE Completes(current, received) /\ current <= NMsg
  <2>1. Start[current + 1] \in Nat /\ Start[current + 1] <= received
    BY <1>3, <1>6, Stream, SMTT(30) DEF Completes
  <2> QED
    BY <1>3, <1>5, <1>6, <2>1, SMTT(30) DEF InStep
<1>7. CASE ~(Completes(current, received) /\ current <= NMsg)
  <2>1. /\ current \in 1..NMsg /\ left > 0 /\ current # first
        /\ left < MinFrame \/ left >= Length(first)
    <3>1. \/ left > TempCap
          \/ current # first /\ (left < MinFrame \/ left >= Length(first))
      BY <1>1, <1>2, <1>7, WildTail, Zenon
    <3>2. current \in 1..NMsg /\ left > 0
      BY <1>1, <1>2, <1>7, WildTail, Zenon
    <3>3. ~(left > TempCap)
      BY <1>3
    <3> QED
      BY ONLY <3>1, <3>2, <3>3, Zenon
  <2>2. ~Finish
    BY <1>3, <2>1 DEF Finish
  <2>3. CASE KeepPartial
    <3>1. FrameLen = Length(first) /\ FrameLen > left /\ left >= MinFrame
      BY <1>1, <1>3, <2>3, FrameLenIsFirsts DEF KeepPartial, Looks
    <3> QED
      BY <1>3, <2>1, <3>1
  <2>4. CASE KeepTail
    <3>1. pos_' = Len(data)
      BY <2>4 DEF KeepTail, Return
    <3>2. Start[first + 1] \in Nat /\ Start[first] < Start[first + 1]
      BY <1>1, Around
    <3>3. Start[first + 1] <= Start[current]
      <4>1. first < current
        BY <1>3, <2>1
      <4> QED
        BY <1>3, <4>1, Ordered
    <3>4. Len(data) # left
      BY <1>3, <3>2, <3>3, SMTT(30)
    <3>5. received # Start[current] + Len(data)
      <4>1. /\ received \in Nat /\ Len(data) \in Nat /\ Start[current] \in Nat
            /\ left \in Nat /\ left = received - Start[current]
        BY <1>3
      <4> QED
        BY ONLY <3>4, <4>1
    <3> QED
      BY <1>3, <1>5, <3>1, <3>5 DEF InStep
  <2> QED
    BY <2>2, <2>3, <2>4
<1> QED
  BY <1>6, <1>7

\* A frame of the wrong length is not the current message; one of the right length
\* is, and the call goes on as wild as it was.
LEMMA WildDispatches ==
  ASSUME Inside, Intact, GoingWrong, Dispatch
  PROVE  ~Intact' \/ (pc' = "handle" /\ GoingWrong')
<1>1. TypeOK /\ Placed
  BY DEF Inside, GoingWrong
<1>2. PICK first \in 1..NMsg : WildFrom(first)
  BY DEF GoingWrong
<1>3. left >= MinFrame /\ FrameLen <= left /\ Start[first] = base /\ first <= current
  BY <1>2 DEF Dispatch, Looks, WildFrom
<1>4. current \in 1..NMsg /\ FrameLen = Length(first)
  BY <1>1, <1>3, FrameLenIsFirsts
<1>5. CASE Length(current) = Length(first)
  <2>1. /\ Placed' /\ pc' = "handle"
        /\ current' = current + 1 /\ base' = base /\ received' = received
    BY <1>1, <1>4, <1>5, DispatchPlaces
  <2>2. \A k \in first..current' - 1 : Length(k) = Length(first) /\ k \in Decodable
    <3> SUFFICES ASSUME NEW k \in first..current
                 PROVE  Length(k) = Length(first) /\ k \in Decodable
      BY <1>4, <2>1
    <3>1. k = current \/ k \in first..current - 1
      BY <1>4
    <3>2. current \in Decodable
      <4>1. FrameLen = Length(current) /\ HeaderFits(Frame)
        BY <1>4, <1>5 DEF Dispatch
      <4>2. Frame = Message(current)
        BY <1>1, <1>3, <1>4, <4>1, FrameIs
      <4> QED
        BY <1>4, <4>1, <4>2 DEF Decodable
    <3> QED
      BY <1>2, <1>5, <3>1, <3>2 DEF WildFrom
  <2>3. first <= current'
    BY <1>3, <1>4, <2>1
  <2>4. WildFrom(first)'
    BY <1>2, <2>1, <2>2, <2>3
       DEF WildFrom, EvenLengths, TailUsable, TailFits, HeadersFit
  <2> QED
    BY <2>1, <2>4 DEF GoingWrong
<1>6. CASE Length(current) # Length(first)
  <2> DEFINE sent == Delivery(DecodeHeader(Frame, MsgType), Frame)
  <2>1. dispatched' = Append(dispatched, sent)
    BY DEF Dispatch
  <2>2. Len(Frame) = Length(first)
    <3>1. /\ data \in Seq(Nat) /\ Len(data) \in Nat /\ curr_pos \in Nat
          /\ left = Len(data) - curr_pos /\ Length(first) \in Nat
      BY <1>1, Positions, Stream
    <3> DEFINE q == curr_pos + FrameLen
    <3>2. /\ q \in Nat /\ curr_pos <= q /\ q <= Len(data)
          /\ q - curr_pos = Length(first) /\ Frame = SubSeq(data, curr_pos + 1, q)
      BY <1>3, <1>4, <3>1 DEF Frame
    <3> HIDE DEF q
    <3> QED
      BY <3>1, <3>2, Piece, SMTT(30)
  <2>3. sent.frame = Frame
    BY DEF Delivery
  <2> HIDE DEF sent
  <2>4. /\ dispatched \in Delivered /\ current = Len(dispatched) + 1
        /\ Len(dispatched) \in Nat
    BY <1>1, CurrentOK, LenProperties DEF TypeOK, Delivered
  <2>5. current \in DOMAIN dispatched' /\ dispatched'[current] = sent
    BY <2>1, <2>4 DEF Delivered
  <2>6. Expected(current).frame = Message(current)
    BY DEF Expected, Delivery
  <2>7. Len(Message(current)) = Length(current)
    BY <1>4, MessageBytes
  <2> QED
    BY <1>6, <2>2, <2>3, <2>5, <2>6, <2>7 DEF Intact
<1> QED
  BY <1>5, <1>6

-----------------------------------------------------------------------------
(* Every step keeps the invariant. *)

\* Between two recvs, being in step and having room is all that TameSpec's
\* invariant asks.
LEMMA RightWaits ==
  ASSUME Inside, RightSoFar, pc = "recv", NEW n \in 1..Len(Wire),
         pos_ > 0 => pos_ + n <= TempCap
  PROVE  Waiting /\ IInv
<1>1. pos_ \in Nat /\ n \in Nat /\ TempCap \in Nat /\ Len(Wire) \in Nat
  BY Stream DEF Inside, TypeOK
<1>2. pos_ <= TempCap
  BY <1>1
<1>3. Waiting
  BY <1>2 DEF Inside, RightSoFar, InStep, Waiting
<1> QED
  BY <1>3 DEF Inside, RightSoFar, IInv, Defined

\* A recv: what is judged tame, wild or lost when it is made is so when HandleMsg
\* begins.
LEMMA TrackedRecvKeeps ==
  ASSUME ExactInv, NEW n \in 1..Len(Wire), TrackedRecv(n)
  PROVE  ExactInv'
<1>1. Inside /\ Recv(n) /\ pc = "recv" /\ Inside'
  BY RecvStaysInside DEF ExactInv, TrackedRecv, Recv
<1>2. verdict' = IF ~RightSoFar THEN "lost" ELSE IF Tame(n) THEN "tame" ELSE "wild"
  BY DEF TrackedRecv
<1>3. CASE ~RightSoFar
  BY <1>1, <1>2, <1>3 DEF ExactInv
<1>4. CASE RightSoFar /\ Tame(n)
  <2>1. IInv
    BY <1>1, <1>4, RightWaits DEF Tame
  <2>2. IInv'
    BY <1>1, <1>4, <2>1, RecvKeepsIInv
  <2> QED
    BY <1>1, <1>2, <1>4, <2>2 DEF ExactInv
<1>5. CASE RightSoFar /\ ~Tame(n)
  <2>1. verdict' = "wild"
    BY <1>2, <1>5
  <2>2. CASE pos_ > 0 /\ pos_ + n > TempCap
    <3>1. pc' = "undefined"
      BY <1>1, <2>2 DEF Recv
    <3> QED
      BY <1>1, <2>1, <3>1 DEF ExactInv
  <2>3. CASE ~(pos_ > 0 /\ pos_ + n > TempCap)
    <3>1. pos_ > 0 => pos_ + n <= TempCap
      <4>1. pos_ \in Nat /\ n \in Nat /\ TempCap \in Nat /\ Len(Wire) \in Nat
        BY <1>1, Stream DEF Inside, TypeOK
      <4> QED
        BY <2>3, <4>1
    <3>2. Waiting /\ TypeOK /\ Intact
      BY <1>1, <1>5, <3>1, RightWaits DEF Inside, RightSoFar
    <3>3. /\ Placed' /\ pc' = "handle"
          /\ current \in 1..NMsg /\ current' = current
          /\ base' = Start[current] /\ received' = received + n
      BY <1>1, <3>1, <3>2, RecvPlaces
    <3>4. ~(/\ EvenLengths(current, received + n)
            /\ TailUsable(current, received + n)
            /\ TailFits(current, received + n)
            /\ HeadersFit(current, received + n))
      BY <1>5, <3>1 DEF Tame
    <3>5. WildFrom(current)'
      <4> DEFINE first == current
      <4>1. \A k \in first..current' - 1 :
              Length(k) = Length(first) /\ k \in Decodable
        BY <3>3
      <4>2. first <= current' /\ Start[first] = base'
        BY <3>3
      <4> QED
        BY <3>3, <3>4, <4>1, <4>2
           DEF WildFrom, EvenLengths, TailUsable, TailFits, HeadersFit, Completes,
               CutsShort
    <3>6. GoingWrong'
      BY <3>3, <3>5 DEF GoingWrong
    <3> QED
      BY <1>1, <2>1, <3>3, <3>6 DEF ExactInv
  <2> QED
    BY <2>2, <2>3
<1> QED
  BY <1>3, <1>4, <1>5

\* A round of HandleMsg: after a wild recv it either goes wrong or keeps what will.
LEMMA TrackedHandleKeeps ==
  ASSUME ExactInv, TrackedHandle PROVE ExactInv'
<1>1. Inside /\ HandleMsg /\ verdict' = verdict /\ pc = "handle" /\ Inside'
  BY StepStaysInside
     DEF ExactInv, TrackedHandle, HandleMsg, Read, Next, Finish, KeepTail, KeepPartial,
         Dispatch, Overrun, Looks
<1>2. CASE verdict = "lost"
  BY <1>1, <1>2 DEF ExactInv
<1>3. CASE verdict = "tame"
  <2>1. IInv
    BY <1>3 DEF ExactInv
  <2>2. IInv'
    BY <1>1, <2>1, StepKeepsIInv DEF TameNext
  <2> QED
    BY <1>1, <1>3, <2>2 DEF ExactInv
<1>4. CASE verdict = "wild" /\ ~Intact
  <2>1. ~Intact'
    BY <1>1, <1>4, StaysBroken DEF Inside
  <2> QED
    BY <1>1, <1>4, <2>1 DEF ExactInv, RightSoFar
<1>5. CASE verdict = "wild" /\ Intact
  <2>1. GoingWrong
    BY <1>1, <1>5 DEF ExactInv
  <2>2. CASE Dispatch
    <3>1. ~Intact' \/ (pc' = "handle" /\ GoingWrong')
      BY <1>1, <1>5, <2>1, <2>2, WildDispatches
    <3> QED
      BY <1>1, <1>5, <3>1 DEF ExactInv, RightSoFar
  <2>3. CASE Finish \/ KeepTail \/ KeepPartial
    <3>1. pc' = "undefined" \/ (pc' = "recv" /\ ~InStep')
      BY <1>1, <1>5, <2>1, <2>3, WildReturns
    <3> QED
      BY <1>1, <1>5, <3>1 DEF ExactInv, RightSoFar
  <2>4. CASE Overrun
    <3>1. pc' = "undefined"
      BY <2>4 DEF Overrun
    <3> QED
      BY <1>1, <1>5, <3>1 DEF ExactInv
  <2> QED
    BY <1>1, <2>2, <2>3, <2>4 DEF HandleMsg, Read
<1> QED
  BY <1>2, <1>3, <1>4, <1>5 DEF ExactInv

\* A recv judged tame is handled with IInv in force, one judged wild cannot come out
\* right, and Inside holds throughout.
THEOREM ExactInvariance == TrackedSpec => []ExactInv
<1>1. TrackedInit => ExactInv
  BY InitInside, InitIInv DEF TrackedInit, ExactInv
<1>2. ASSUME ExactInv, [TrackedNext]_trackedVars PROVE ExactInv'
  <2>1. CASE \E n \in Pieces : TrackedRecv(n)
    BY <1>2, <2>1, TrackedRecvKeeps DEF Pieces
  <2>2. CASE TrackedHandle
    BY <1>2, <2>2, TrackedHandleKeeps
  <2>3. CASE UNCHANGED trackedVars
    <3>1. UNCHANGED vars /\ verdict' = verdict
      BY <2>3 DEF trackedVars
    <3>2. UNCHANGED <<received, temp_buf_, pos_, data, curr_pos, dispatched, pc>>
      BY <3>1 DEF vars
    <3>3. Inside'
      BY <1>2, <3>1, StepStaysInside DEF ExactInv
    <3>4. IInv => IInv'
      BY <3>1, StepKeepsIInv
    <3>5. Intact' = Intact /\ InStep' = InStep
      BY <3>2 DEF Intact, InStep, current
    <3>6. GoingWrong => GoingWrong'
      BY <3>2 DEF GoingWrong, Placed, WildFrom, base, current, EvenLengths,
                  TailUsable, TailFits, HeadersFit
    <3> QED
      BY <1>2, <3>1, <3>2, <3>3, <3>4, <3>5, <3>6 DEF ExactInv, RightSoFar
  <2> QED
    BY <1>2, <2>1, <2>2, <2>3 DEF TrackedNext
<1> QED
  BY <1>1, <1>2, PTL DEF TrackedSpec

-----------------------------------------------------------------------------
\* For every stream, every buffer size and every segmentation: HandleMsg leaves the
\* receiver in step after each tame recv and after no other.
THEOREM TameIsExact == TrackedSpec => []ExactlyTame
<1>1. ExactInv => ExactlyTame
  <2> SUFFICES ASSUME ExactInv, pc # "handle"
               PROVE  /\ verdict = "tame" => RightSoFar /\ pc = "recv"
                      /\ verdict = "wild" => ~RightSoFar \/ pc = "undefined"
    BY DEF ExactlyTame
  <2>1. pc \in {"recv", "undefined"}
    BY DEF ExactInv, Inside, TypeOK
  <2>2. ASSUME verdict = "tame" PROVE RightSoFar /\ pc = "recv"
    <3>1. IInv
      BY <2>2 DEF ExactInv
    <3>2. pc = "recv" /\ Waiting /\ Intact /\ current \in 1..NMsg + 1 /\ NMsg \in Nat
      BY <2>1, <3>1, CurrentOK, Stream DEF IInv, Defined
    <3> QED
      BY <3>2 DEF RightSoFar, InStep, Waiting
  <2>3. ASSUME verdict = "wild", pc # "undefined" PROVE ~RightSoFar
    BY <2>1, <2>3 DEF ExactInv
  <2> QED
    BY <2>2, <2>3
<1> QED
  BY <1>1, ExactInvariance, PTL
=============================================================================
