----------------------- MODULE IncomingFramingProofs -----------------------
(***************************************************************************)
(* Proofs about IncomingFraming for every stream of messages, every buffer *)
(* size and every segmentation HandleMsg copes with (TameSpec).            *)
(***************************************************************************)
EXTENDS IncomingFraming, SequenceTheorems, TLAPS

-----------------------------------------------------------------------------
(* Operators. *)

\* Two sequences joined, and a piece of one, by their lengths and elements.
LEMMA Join ==
  ASSUME NEW s \in Seq(Nat), NEW t \in Seq(Nat)
  PROVE  /\ s \o t \in Seq(Nat)
         /\ Len(s \o t) = Len(s) + Len(t)
         /\ \A i \in 1..Len(s) + Len(t) :
              (s \o t)[i] = IF i <= Len(s) THEN s[i] ELSE t[i - Len(s)]
BY ConcatProperties

\* The bytes between two places of a stream, as memcpy takes them.
LEMMA Piece ==
  ASSUME NEW s \in Seq(Nat), NEW p \in Nat, NEW q \in Nat, p <= q, q <= Len(s)
  PROVE  /\ SubSeq(s, p + 1, q) \in Seq(Nat)
         /\ Len(SubSeq(s, p + 1, q)) = q - p
         /\ \A i \in 1..q - p : SubSeq(s, p + 1, q)[i] = s[p + i]
<1>1. \A i \in p + 1..q : s[i] \in Nat
  BY ElementOfSeq, LenProperties
<1> QED
  BY <1>1, SubSeqProperties

\* memcpy into a buffer that is large enough keeps the buffer's size and what
\* comes before the copied bytes.
LEMMA OverwriteInside ==
  ASSUME NEW N \in Nat, NEW dst \in [1..N -> Nat], NEW src \in Seq(Nat),
         NEW at \in Nat, at + Len(src) <= N
  PROVE  /\ Overwrite(dst, at, src) \in [1..N -> Nat]
         /\ \A i \in 1..at : Overwrite(dst, at, src)[i] = dst[i]
         /\ \A i \in 1..Len(src) : Overwrite(dst, at, src)[at + i] = src[i]
<1> DEFINE front == SubSeq(dst, 0 + 1, at)
           back  == SubSeq(dst, (at + Len(src)) + 1, N)
<1>1. dst \in Seq(Nat) /\ Len(dst) = N /\ Len(src) \in Nat
  OBVIOUS
<1>2. Overwrite(dst, at, src) = (front \o src) \o back
  BY <1>1 DEF Overwrite
<1>3. /\ front \in Seq(Nat) /\ Len(front) = at
      /\ \A i \in 1..at : front[i] = dst[i]
  BY <1>1, Piece
<1>4. back \in Seq(Nat) /\ Len(back) = N - (at + Len(src))
  <2> DEFINE p == at + Len(src)
  <2>1. p \in Nat /\ p <= N /\ back = SubSeq(dst, p + 1, N)
    BY <1>1
  <2> HIDE DEF p, back
  <2>2. back \in Seq(Nat) /\ Len(back) = N - p
    BY <1>1, <2>1, Piece
  <2> QED
    BY <2>2 DEF p
<1> HIDE DEF front, back
<1>5. /\ front \o src \in Seq(Nat) /\ Len(front \o src) = at + Len(src)
      /\ \A i \in 1..at + Len(src) :
           (front \o src)[i] = IF i <= at THEN front[i] ELSE src[i - at]
  BY <1>3, ConcatProperties
<1>6. /\ (front \o src) \o back \in Seq(Nat)
      /\ Len((front \o src) \o back) = N
      /\ \A i \in 1..at + Len(src) :
           ((front \o src) \o back)[i] = (front \o src)[i]
  BY <1>1, <1>4, <1>5, ConcatProperties
<1>7. Overwrite(dst, at, src) \in [1..N -> Nat]
  BY <1>2, <1>6, LenProperties
<1>8. ASSUME NEW i \in 1..at
      PROVE  Overwrite(dst, at, src)[i] = dst[i]
  <2>1. i \in 1..at + Len(src) /\ i <= at
    BY <1>1
  <2> QED
    BY <1>2, <1>3, <1>5, <1>6, <2>1
<1>9. ASSUME NEW i \in 1..Len(src)
      PROVE  Overwrite(dst, at, src)[at + i] = src[i]
  <2>1. at + i \in 1..at + Len(src) /\ ~(at + i <= at) /\ (at + i) - at = i
    BY <1>1
  <2> QED
    BY <1>2, <1>5, <1>6, <2>1
<1> QED
  BY <1>7, <1>8, <1>9

\* A window that lies inside the array.
LEMMA WindowBytes ==
  ASSUME NEW d \in Seq(Nat), NEW p \in Nat, p + ScanLimit <= Len(d)
  PROVE  /\ Window(d, p) \in Seq(Nat) /\ Len(Window(d, p)) = ScanLimit
         /\ \A i \in 1..ScanLimit : Window(d, p)[i] = d[p + i]
<1> DEFINE q == p + ScanLimit
<1>1. q \in Nat /\ p <= q /\ q - p = ScanLimit /\ q <= Len(d)
  BY DEF ScanLimit
<1>2. Window(d, p) = SubSeq(d, p + 1, q)
  BY DEF Window
<1> HIDE DEF q
<1> QED
  BY <1>1, <1>2, Piece, SMTT(30)

\* Two arrays that agree on a window have the same window.
LEMMA WindowEqual ==
  ASSUME NEW d \in Seq(Nat), NEW e \in Seq(Nat), NEW p \in Nat, NEW q \in Nat,
         p + ScanLimit <= Len(d), q + ScanLimit <= Len(e),
         \A i \in 1..ScanLimit : d[p + i] = e[q + i]
  PROVE  Window(d, p) = Window(e, q)
  BY WindowBytes, SeqEqual

-----------------------------------------------------------------------------
(* The stream. *)

\* The facts about the constants that the proofs use.
LEMMA Stream ==
  /\ NMsg \in Nat /\ MinFrame \in Nat /\ MinFrame >= 2 * ScanLimit
  /\ TempCap \in Nat /\ Wire \in Seq(Nat) /\ Len(Wire) \in Nat
  /\ Start \in [1..NMsg + 1 -> Nat]
  /\ Start[1] = 0 /\ Start[NMsg + 1] = Len(Wire)
  /\ \A k \in 1..NMsg + 1 : Start[k] \in Nat /\ Start[k] <= Len(Wire)
  /\ \A k \in 1..NMsg : Length(k) \in Nat /\ Length(k) >= MinFrame
<1>1. NMsg \in Nat
  BY StreamAssumption, LenProperties DEF NMsg
<1>2. \A k \in 1..NMsg + 1 : Start[k] \in Nat
  BY StreamAssumption, <1>1
<1>3. \A k \in 1..NMsg + 1 : Start[k] <= Len(Wire)
  <2> SUFFICES ASSUME NEW k \in 1..NMsg + 1, k # NMsg + 1
              PROVE  Start[k] <= Start[NMsg + 1]
    BY <1>1, <1>2, StreamAssumption
  <2>1. NMsg + 1 \in 1..NMsg + 1 /\ k < NMsg + 1
    BY <1>1
  <2>2. Start[k] + MinFrame <= Start[NMsg + 1]
    BY <2>1, StreamAssumption
  <2> QED
    BY <1>1, <1>2, <2>1, <2>2, BufferAssumption
<1>4. \A k \in 1..NMsg : Start[k] + MinFrame <= Start[k + 1]
  <2>1. \A k \in 1..NMsg :
          k \in 1..NMsg + 1 /\ k + 1 \in 1..NMsg + 1 /\ k < k + 1
    BY <1>1
  <2> QED
    BY <2>1, StreamAssumption
<1>5. \A k \in 1..NMsg : Length(k) \in Nat /\ Length(k) >= MinFrame
  BY <1>1, <1>2, <1>4, BufferAssumption DEF Length, ScanLimit
<1>6. Len(Wire) \in Nat
  BY StreamAssumption, LenProperties
<1> QED
  BY <1>1, <1>2, <1>3, <1>5, <1>6, StreamAssumption, BufferAssumption

\* The messages come one after the other.
LEMMA Ordered ==
  ASSUME NEW j \in 1..NMsg, NEW k \in 1..NMsg + 1, j < k
  PROVE  Start[j + 1] <= Start[k]
<1>1. j + 1 \in 1..NMsg + 1 /\ (j + 1 = k \/ j + 1 < k)
  BY Stream
<1>2. CASE j + 1 = k
  BY <1>2, Stream
<1>3. CASE j + 1 < k
  BY <1>1, <1>3, StreamAssumption, Stream DEF ScanLimit
<1> QED
  BY <1>1, <1>2, <1>3

\* A message's bytes, one by one.
LEMMA MessageBytes ==
  ASSUME NEW k \in 1..NMsg
  PROVE  /\ Message(k) \in Seq(Nat) /\ Len(Message(k)) = Length(k)
         /\ \A i \in 1..Length(k) : Message(k)[i] = Wire[Start[k] + i]
<1>1. /\ k \in 1..NMsg + 1 /\ k + 1 \in 1..NMsg + 1
      /\ Start[k] \in Nat /\ Start[k + 1] \in Nat
      /\ Start[k] <= Start[k + 1] /\ Start[k + 1] <= Len(Wire)
  BY Stream DEF Length
<1> DEFINE p == Start[k]
           q == Start[k + 1]
<1>2. p \in Nat /\ q \in Nat /\ p <= q /\ q <= Len(Wire) /\ Wire \in Seq(Nat)
  BY <1>1, Stream
<1>3. Message(k) = SubSeq(Wire, p + 1, q) /\ Length(k) = q - p
  BY DEF Message, Length
<1> HIDE DEF p, q
<1>4. /\ SubSeq(Wire, p + 1, q) \in Seq(Nat)
      /\ Len(SubSeq(Wire, p + 1, q)) = q - p
      /\ \A i \in 1..q - p : SubSeq(Wire, p + 1, q)[i] = Wire[p + i]
  BY <1>2, Piece
<1> QED
  BY <1>3, <1>4 DEF p
-----------------------------------------------------------------------------
(* The inductive invariant of TameSpec.                                    *)
(* Between recvs it is InStep.  While HandleMsg runs, data is Placed: it   *)
(* is the part of Wire that ends at received and starts at the beginning   *)
(* of a message first, and curr_pos stands at the beginning of the current *)
(* message.  The messages from first on are as Tame requires.              *)

base == received - Len(data)

Waiting ==
  /\ data = <<>> /\ curr_pos = 0
  /\ received = Start[current] + pos_
  /\ pos_ <= TempCap
  /\ \A i \in 1..pos_ : temp_buf_[i] = Wire[Start[current] + i]
  /\ current <= NMsg => received < Start[current + 1]

TameFrom(first) ==
  /\ Start[first] = base
  /\ EvenLengths(first, received)
  /\ TailUsable(first, received)
  /\ TailFits(first, received)
  /\ HeadersFit(first, received)

Placed ==
  /\ \A i \in 1..Len(data) : data[i] = Wire[base + i]
  /\ curr_pos \in Nat /\ curr_pos <= Len(data)
  /\ base + curr_pos = Start[current]
  /\ \E first \in 1..NMsg : first <= current /\ Start[first] = base

Working ==
  /\ Placed
  /\ \E first \in 1..NMsg : first <= current /\ TameFrom(first)

IInv ==
  /\ TypeOK
  /\ Intact
  /\ pc = "recv" => Waiting
  /\ pc = "handle" => Working
  /\ Defined

\* Intact bounds the message under way.
LEMMA CurrentOK ==
  ASSUME TypeOK, Intact
  PROVE  current \in 1..NMsg + 1 /\ current = Len(dispatched) + 1
<1>1. Len(dispatched) \in Nat /\ DOMAIN dispatched = 1..Len(dispatched)
  BY LenProperties DEF TypeOK, Delivered
<1>2. Len(dispatched) <= NMsg
  <2>1. CASE Len(dispatched) = 0
    <3>1. NMsg \in Nat
      BY Stream
    <3> QED
      BY <2>1, <3>1
  <2>2. CASE Len(dispatched) > 0
    <3>1. Len(dispatched) \in DOMAIN dispatched
      BY <1>1, <2>2
    <3> QED
      BY <3>1 DEF Intact
  <2> QED
    BY <1>1, <2>1, <2>2
<1> QED
  BY <1>1, <1>2, Stream DEF current

\* Where HandleMsg is, in bytes of Wire.
LEMMA Positions ==
  ASSUME TypeOK, Intact, Placed
  PROVE  /\ received \in Nat /\ received <= Len(Wire)
         /\ data \in Seq(Nat) /\ Len(data) \in Nat /\ curr_pos \in Nat
         /\ current \in 1..NMsg + 1 /\ Start[current] \in Nat
         /\ base \in Nat /\ base + Len(data) = received
         /\ base + curr_pos = Start[current]
         /\ left \in Nat /\ left = Len(data) - curr_pos
         /\ left = received - Start[current]
         /\ left > 0 => current \in 1..NMsg
<1>1. /\ received \in Nat /\ received <= Len(Wire) /\ data \in Seq(Nat)
      /\ Len(data) \in Nat /\ curr_pos \in Nat /\ curr_pos <= Len(data)
  BY Stream, LenProperties DEF TypeOK, Placed
<1>2. current \in 1..NMsg + 1 /\ Start[current] \in Nat
  BY CurrentOK, Stream
<1>3. base \in Nat /\ base + Len(data) = received
  <2>1. PICK first \in 1..NMsg : Start[first] = base
    BY DEF Placed
  <2>2. Start[first] \in Nat
    BY Stream
  <2> QED
    BY <1>1, <2>1, <2>2 DEF base
<1>4. base + curr_pos = Start[current]
  BY DEF Placed
<1>5. left = Len(data) - curr_pos
  BY DEF left
<1>6. left \in Nat /\ left = received - Start[current]
  BY <1>1, <1>2, <1>3, <1>4, <1>5
<1>7. left > 0 => current \in 1..NMsg
  <2>1. Start[NMsg + 1] = Len(Wire) /\ NMsg \in Nat /\ Len(Wire) \in Nat
    BY Stream
  <2>2. CASE current = NMsg + 1
    BY <1>1, <1>2, <1>6, <2>1, <2>2
  <2> QED
    BY <1>2, <2>1, <2>2
<1> QED
  BY <1>1, <1>2, <1>3, <1>4, <1>5, <1>6, <1>7

\* What HandleMsg scans is what the gateway wrote.
LEMMA DataWindow ==
  ASSUME TypeOK, Intact, Placed, NEW p \in Nat, p + ScanLimit <= Len(data)
  PROVE  Window(data, p) = Window(Wire, base + p)
<1> DEFINE q == base + p
<1>0. /\ data \in Seq(Nat) /\ base \in Nat /\ received <= Len(Wire)
      /\ base + Len(data) = received /\ Len(data) \in Nat
  BY Positions
<1>1. /\ q \in Nat /\ q + ScanLimit <= Len(Wire)
      /\ data \in Seq(Nat) /\ Wire \in Seq(Nat) /\ Len(Wire) \in Nat
  <2>1. Wire \in Seq(Nat) /\ Len(Wire) \in Nat
    BY Stream
  <2> QED
    BY <1>0, <2>1 DEF ScanLimit
<1>2. \A i \in 1..Len(data) : data[i] = Wire[base + i]
  BY DEF Placed
<1>3. ASSUME NEW i \in 1..ScanLimit
      PROVE  data[p + i] = Wire[q + i]
  <2>1. p + i \in 1..Len(data) /\ base + (p + i) = q + i
    BY <1>0 DEF ScanLimit
  <2> QED
    BY <1>2, <2>1
<1>4. Window(data, p) = Window(Wire, q)
  BY ONLY <1>1, <1>3, p \in Nat, p + ScanLimit <= Len(data), WindowEqual, ZenonT(40)
<1> QED
  BY <1>4

\* At the beginning of the current message: fix_ver takes its version, and
\* FrameLen is the length of first, the message data starts with.
LEMMA FrameLenIsFirsts ==
  ASSUME TypeOK, Intact, Placed, left >= MinFrame,
         NEW first \in 1..NMsg, Start[first] = base
  PROVE  /\ current \in 1..NMsg /\ FrameLen = Length(first)
         /\ VersionEnds(GetFIXVersion(Window(data, curr_pos)))
<1>1. current \in 1..NMsg
  <2>1. MinFrame \in Nat /\ MinFrame >= 24
    BY BufferAssumption DEF ScanLimit
  <2>2. left > 0
    BY <2>1, Positions
  <2> QED
    BY <2>2, Positions
<1>0. /\ left = Len(data) - curr_pos /\ Len(data) \in Nat /\ curr_pos \in Nat
      /\ base \in Nat /\ base + curr_pos = Start[current]
  BY Positions
<1>2. curr_pos + ScanLimit <= Len(data) /\ 10 + ScanLimit <= Len(data)
  <2>1. MinFrame \in Nat /\ MinFrame >= 24
    BY BufferAssumption DEF ScanLimit
  <2> QED
    BY <1>0, <2>1 DEF ScanLimit
<1>3. /\ Window(data, curr_pos) = Window(Wire, Start[current])
      /\ Window(data, 10) = Window(Wire, Start[first] + 10)
  BY <1>0, <1>2, DataWindow
<1>4. /\ GetFIXVersion(Window(Wire, Start[current]))
            = [consumed |-> 10, value |-> FIX_VER_44]
      /\ GetFIXVersion(Window(Wire, Start[first]))
            = [consumed |-> 10, value |-> FIX_VER_44]
  BY <1>1, WellFramed
<1>5. MsgLen(GetFIXVersion(Window(Wire, Start[first])),
             GetBodyLen(Window(Wire, Start[first] + 10))) = Length(first)
  BY WellFramed
<1>6. VersionEnds([consumed |-> 10, value |-> FIX_VER_44])
  BY DEF VersionEnds, FixVerSize, FIX_VER_44
<1> QED
  BY <1>1, <1>2, <1>3, <1>4, <1>5, <1>6 DEF FrameLen

\* Where the current message ends, seen from the length left in data.
LEMMA CurrentEnds ==
  ASSUME TypeOK, Intact, Working, left > 0,
         NEW first \in 1..NMsg, first <= current, TameFrom(first)
  PROVE  /\ current \in 1..NMsg
         /\ left = received - Start[current]
         /\ Completes(current, received) =>
              Length(current) = Length(first) /\ Length(first) <= left
         /\ ~Completes(current, received) =>
              /\ left < Length(current) /\ left <= TempCap
              /\ \/ current = first
                 \/ left >= MinFrame /\ left < Length(first)
<1>1. received \in Nat /\ left \in Nat /\ current \in 1..NMsg
  BY Positions DEF Working
<1>2. left = received - Start[current]
  BY Positions DEF Working
<1>3. /\ current \in first..NMsg /\ Start[current] \in Nat
      /\ Start[current + 1] \in Nat /\ Length(current) \in Nat
      /\ Length(current) = Start[current + 1] - Start[current]
      /\ Length(first) \in Nat
  BY <1>1, Stream, SMTT(30) DEF Length
<1>4. CASE Completes(current, received)
  <2>1. Length(current) = Length(first)
    BY <1>3, <1>4 DEF TameFrom, EvenLengths
  <2> QED
    BY <1>1, <1>2, <1>3, <1>4, <2>1 DEF Completes
<1>5. CASE ~Completes(current, received)
  <2>1. CutsShort(current, received)
    BY <1>1, <1>2, <1>3, <1>5 DEF Completes, CutsShort
  <2>2. received - Start[current] <= TempCap
    BY <1>3, <2>1 DEF TameFrom, TailFits
  <2>3. \/ current = first
        \/ received = Start[current]
        \/ received - Start[current] >= MinFrame
             /\ received - Start[current] < Length(first)
    BY <1>3, <2>1 DEF TameFrom, TailUsable
  <2> QED
    BY <1>1, <1>2, <1>3, <1>5, <2>1, <2>2, <2>3 DEF CutsShort
<1> QED
  BY <1>1, <1>2, <1>4, <1>5
-----------------------------------------------------------------------------
(* Every step keeps the invariant. *)

\* The constructor's state.
LEMMA InitIInv == Init => IInv
<1> SUFFICES ASSUME Init PROVE IInv
  OBVIOUS
<1> USE DEF Init
<1>1. /\ NMsg \in Nat /\ Wire \in Seq(Nat) /\ Len(Wire) \in Nat
      /\ TempCap \in Nat /\ Start[1] = 0
  BY Stream
<1>2. current = 1
  BY DEF current
<1>3. TypeOK
  <2>1. dispatched \in Delivered
    BY DEF Delivered
  <2> QED
    BY <1>1, <2>1 DEF TypeOK
<1>4. Intact
  BY DEF Intact
<1>5. Waiting
  <2>1. 1 <= NMsg => Start[1] < Start[1 + 1]
    <3>1. ASSUME 1 <= NMsg PROVE Length(1) >= MinFrame /\ MinFrame >= 24
      BY <1>1, <3>1, Stream DEF ScanLimit
    <3>2. ASSUME 1 <= NMsg PROVE Start[1 + 1] \in Nat /\ MinFrame \in Nat
      BY <1>1, <3>2, Stream
    <3> QED
      BY <1>1, <3>1, <3>2 DEF Length
  <2> QED
    BY <1>1, <1>2, <2>1 DEF Waiting
<1> QED
  BY <1>3, <1>4, <1>5 DEF IInv, Defined

\* A recv between two calls of HandleMsg: temp_buf_ and the new bytes together
\* begin with the current message.
LEMMA RecvPlaces ==
  ASSUME TypeOK, Intact, Waiting, NEW n \in 1..Len(Wire), Recv(n),
         pos_ > 0 => pos_ + n <= TempCap
  PROVE  /\ TypeOK' /\ Intact' /\ Placed' /\ pc' = "handle"
         /\ current \in 1..NMsg /\ current' = current
         /\ base' = Start[current] /\ received' = received + n
<1> DEFINE head  == SubSeq(temp_buf_, 1, pos_)
           chunk == Chunk(n)
<1>1. /\ pc = "recv" /\ received' = received + n /\ received + n <= Len(Wire)
      /\ pos_' = pos_ /\ curr_pos' = curr_pos /\ dispatched' = dispatched
      /\ n \in Nat /\ n >= 1 /\ received \in Nat /\ pos_ \in Nat
      /\ TempCap \in Nat /\ temp_buf_ \in [1..TempCap -> Nat]
      /\ Len(Wire) \in Nat /\ Wire \in Seq(Nat)
  BY Stream, SMTT(30) DEF Recv, TypeOK
<1>2. /\ data = <<>> /\ curr_pos = 0 /\ received = Start[current] + pos_
      /\ pos_ <= TempCap
      /\ \A i \in 1..pos_ : temp_buf_[i] = Wire[Start[current] + i]
  BY <1>1 DEF Waiting
<1>3. current \in 1..NMsg + 1 /\ Start[current] \in Nat /\ current' = current
  BY <1>1, CurrentOK, Stream DEF current
<1>4. current \in 1..NMsg
  <2>1. NMsg \in Nat /\ Start[NMsg + 1] = Len(Wire)
    BY Stream
  <2>2. CASE current = NMsg + 1
    <3>1. received = Len(Wire) + pos_
      BY <1>2, <2>1, <2>2
    <3>2. /\ n \in Nat /\ n >= 1 /\ received \in Nat /\ pos_ \in Nat
          /\ Len(Wire) \in Nat /\ received + n <= Len(Wire)
      BY <1>1
    <3> QED
      BY ONLY <3>1, <3>2
  <2> QED
    BY <1>3, <2>1, <2>2
<1>5. pos_ > 0 => pos_ + n <= TempCap
  OBVIOUS
<1>6. /\ chunk \in Seq(Nat) /\ Len(chunk) = n
      /\ \A i \in 1..n : chunk[i] = Wire[received + i]
  <2>1. received + n \in Nat /\ received <= received + n
    BY <1>1
  <2>2. chunk = SubSeq(Wire, received + 1, received + n)
    BY DEF Chunk
  <2> DEFINE q == received + n
  <2>3. /\ q \in Nat /\ received <= q /\ q <= Len(Wire) /\ q - received = n
        /\ chunk = SubSeq(Wire, received + 1, q)
    BY <1>1, <2>1, <2>2
  <2> HIDE DEF q, chunk
  <2> QED
    BY <1>1, <2>3, Piece, SMTT(30)
<1>7. data' = Joined(chunk) /\ pc' = "handle"
  <2>1. ~(pos_ > 0 /\ pos_ + n > TempCap)
    BY <1>1, <1>5
  <2> QED
    BY <2>1 DEF Recv
\* What the arithmetic below rests on.
<1>a. /\ n \in Nat /\ pos_ \in Nat /\ received \in Nat
      /\ Start[current] \in Nat /\ received = Start[current] + pos_
  BY <1>1, <1>2, <1>3
<1>8. /\ data' \in Seq(Nat) /\ Len(data') = pos_ + n
      /\ \A i \in 1..pos_ + n : data'[i] = Wire[Start[current] + i]
  <2>1. CASE pos_ = 0
    <3>1. data' = chunk
      BY <1>7, <2>1 DEF Joined
    <3> HIDE DEF chunk
    <3> QED
      BY <1>a, <1>6, <2>1, <3>1, SMTT(30)
  <2>2. CASE pos_ > 0
    <3>1. temp_buf_ \in Seq(Nat) /\ Len(temp_buf_) = TempCap
      BY <1>1
    <3>2. /\ head \in Seq(Nat) /\ Len(head) = pos_
          /\ \A i \in 1..pos_ : head[i] = temp_buf_[i]
      BY <1>1, <1>2, <3>1, SubSeqProperties, ElementOfSeq, SMTT(30)
    <3>3. data' = head \o chunk
      BY <1>7, <2>2 DEF Joined
    <3> HIDE DEF head, chunk
    <3>4. /\ head \o chunk \in Seq(Nat) /\ Len(head \o chunk) = pos_ + n
          /\ \A i \in 1..pos_ + n :
               (head \o chunk)[i] = IF i <= pos_ THEN head[i] ELSE chunk[i - pos_]
      <4>1. chunk \in Seq(Nat) /\ Len(chunk) = n
        BY <1>6
      <4> QED
        BY <3>2, <4>1, Join
    <3>5. ASSUME NEW i \in 1..pos_ + n
          PROVE  data'[i] = Wire[Start[current] + i]
      <4> i \in Nat
        BY <1>a
      <4>a. data'[i] = IF i <= pos_ THEN head[i] ELSE chunk[i - pos_]
        BY <3>3, <3>4
      <4>1. CASE i <= pos_
        <5>1. i \in 1..pos_
          BY <4>1
        <5>2. head[i] = temp_buf_[i] /\ temp_buf_[i] = Wire[Start[current] + i]
          BY <1>2, <3>2, <5>1
        <5> QED
          BY <4>a, <4>1, <5>2
      <4>2. CASE i > pos_
        <5>1. i - pos_ \in 1..n /\ received + (i - pos_) = Start[current] + i
          BY <1>a, <4>2
        <5>2. chunk[i - pos_] = Wire[Start[current] + i]
          BY <1>6, <5>1
        <5>3. ~(i <= pos_)
          BY <1>a, <4>2
        <5> QED
          BY <4>a, <5>2, <5>3
      <4> QED
        BY <1>a, <4>1, <4>2
    <3> QED
      BY <3>3, <3>4, <3>5
  <2> QED
    BY <1>1, <2>1, <2>2
<1>9. temp_buf_' \in [1..TempCap -> Nat]
  <2>1. CASE pos_ = 0
    BY <1>1, <2>1 DEF Recv
  <2>2. CASE pos_ > 0
    <3>1. temp_buf_' = Overwrite(temp_buf_, pos_, chunk)
      BY <1>1, <1>5, <2>2 DEF Recv
    <3> HIDE DEF chunk
    <3> QED
      BY <1>1, <1>5, <1>6, <2>2, <3>1, OverwriteInside
  <2> QED
    BY <1>1, <2>1, <2>2, SMTT(30)
<1> HIDE DEF head, chunk
<1>10. base' = Start[current] /\ Len(data') \in Nat /\ Len(data') = pos_ + n
  <2>1. base' = received' - Len(data')
    BY DEF base
  <2>2. received' = received + n /\ Len(data') = pos_ + n
    BY <1>1, <1>8
  <2> QED
    BY ONLY <1>a, <2>1, <2>2, SMTT(30)
<1>11. TypeOK'
  <2>1. received' \in 0..Len(Wire) /\ pos_' \in Nat
    BY <1>1
  <2>2. dispatched' \in Delivered /\ curr_pos' \in Int
    BY <1>1 DEF TypeOK
  <2> QED
    BY <1>7, <1>8, <1>9, <2>1, <2>2 DEF TypeOK, Delivered
<1>12. Intact'
  BY <1>1 DEF Intact
<1>13. Placed'
  <2>1. \A i \in 1..Len(data') : data'[i] = Wire[base' + i]
    BY <1>8, <1>10
  <2>2. /\ curr_pos' \in Nat /\ curr_pos' <= Len(data')
        /\ base' + curr_pos' = Start[current']
    BY <1>1, <1>2, <1>3, <1>10, SMTT(30)
  <2>3. \E first \in 1..NMsg : first <= current' /\ Start[first] = base'
    BY <1>3, <1>4, <1>10, Stream
  <2> QED
    BY <2>1, <2>2, <2>3 DEF Placed
<1> QED
  BY <1>1, <1>3, <1>4, <1>7, <1>10, <1>11, <1>12, <1>13

\* A tame recv: what was kept and what has come are the stream from base on.
LEMMA RecvKeepsIInv ==
  ASSUME IInv, NEW n \in 1..Len(Wire), Tame(n), Recv(n)
  PROVE  IInv'
<1>1. TypeOK /\ Intact /\ Waiting
  BY DEF IInv, Recv
<1>2. /\ TypeOK' /\ Intact' /\ Placed' /\ pc' = "handle"
      /\ current \in 1..NMsg /\ current' = current
      /\ base' = Start[current] /\ received' = received + n
  BY <1>1, RecvPlaces DEF Tame
<1>3. TameFrom(current)'
  BY <1>2 DEF Tame, TameFrom, EvenLengths, TailUsable, TailFits, HeadersFit,
              Completes, CutsShort
<1>4. Working'
  BY <1>2, <1>3, Stream DEF Working
<1> QED
  BY <1>2, <1>4 DEF IInv, Defined

\* HandleMsg returning with pos_ the number of bytes left, those of a message
\* that is not yet whole.
LEMMA ReturnKeepsIInv ==
  ASSUME IInv, pc = "handle", Return(left), left <= TempCap,
         current <= NMsg => left < Length(current)
  PROVE  IInv'
<1> DEFINE rest == SubSeq(data, curr_pos + 1, Len(data))
<1>1. TypeOK /\ Intact /\ Working /\ Placed
  BY DEF IInv, Working
<1>2. /\ received \in Nat /\ data \in Seq(Nat) /\ Len(data) \in Nat
      /\ curr_pos \in Nat /\ base \in Nat /\ Start[current] \in Nat
      /\ base + curr_pos = Start[current] /\ left \in Nat
      /\ left = Len(data) - curr_pos /\ left = received - Start[current]
      /\ current \in 1..NMsg + 1
  BY <1>1, Positions
<1>3. TempCap \in Nat /\ temp_buf_ \in [1..TempCap -> Nat]
  BY <1>1, Stream DEF TypeOK
<1>4. /\ pos_' = left /\ data' = <<>> /\ curr_pos' = 0 /\ received' = received
      /\ dispatched' = dispatched /\ pc' = "recv"
      /\ temp_buf_' = Overwrite(temp_buf_, 0, rest)
  BY <1>2, <1>3, SMTT(30) DEF Return
<1>5. /\ rest \in Seq(Nat) /\ Len(rest) = left
      /\ \A i \in 1..left : rest[i] = data[curr_pos + i]
  <2>1. curr_pos <= Len(data)
    BY <1>2
  <2> QED
    BY <1>2, <2>1, Piece, SMTT(30)
<1> HIDE DEF rest
<1>6. ASSUME NEW i \in 1..left
      PROVE  rest[i] = Wire[Start[current] + i]
  <2>1. /\ curr_pos + i \in 1..Len(data)
        /\ base + (curr_pos + i) = Start[current] + i
    BY <1>2
  <2> QED
    BY <1>1, <1>5, <2>1 DEF Placed
<1>7. /\ temp_buf_' \in [1..TempCap -> Nat]
      /\ \A i \in 1..left : temp_buf_'[0 + i] = rest[i]
  <2>1. 0 \in Nat /\ 0 + Len(rest) <= TempCap
    BY <1>2, <1>5, SMTT(30)
  <2>2. /\ Overwrite(temp_buf_, 0, rest) \in [1..TempCap -> Nat]
        /\ \A i \in 1..Len(rest) : Overwrite(temp_buf_, 0, rest)[0 + i] = rest[i]
    BY <1>3, <1>5, <2>1, OverwriteInside
  <2> QED
    BY <1>4, <1>5, <2>2
<1>8. \A i \in 1..left : temp_buf_'[i] = Wire[Start[current] + i]
  BY <1>2, <1>6, <1>7
<1>9. current' = current
  BY <1>4 DEF current
<1>10. current <= NMsg => received < Start[current + 1]
  <2> SUFFICES ASSUME current <= NMsg PROVE received < Start[current + 1]
    OBVIOUS
  <2>1. current \in 1..NMsg
    BY <1>2, Stream
  <2>2. Start[current + 1] \in Nat
    BY <2>1, Stream
  <2> QED
    BY <1>2, <2>2, SMTT(30) DEF Length
<1>11. Waiting'
  <2>1. received' = Start[current'] + pos_' /\ pos_' <= TempCap
    BY <1>2, <1>4, <1>9
  <2>2. \A i \in 1..pos_' : temp_buf_'[i] = Wire[Start[current'] + i]
    BY <1>4, <1>8, <1>9
  <2>3. current' <= NMsg => received' < Start[current' + 1]
    BY <1>4, <1>9, <1>10
  <2> QED
    BY <1>4, <2>1, <2>2, <2>3 DEF Waiting
<1>12. TypeOK'
  BY <1>1, <1>2, <1>4, <1>7 DEF TypeOK
<1>13. Intact'
  BY <1>1, <1>4 DEF Intact
<1> QED
  BY <1>4, <1>11, <1>12, <1>13 DEF IInv, Defined

\* HandleMsg returns at the end of data, with nothing kept.
LEMMA FinishKeepsIInv ==
  ASSUME IInv, Finish PROVE IInv'
<1>1. left \in Nat /\ left = 0
  BY Positions DEF IInv, Working, Finish
<1>2. ASSUME current <= NMsg PROVE left < Length(current)
  <2>1. current \in 1..NMsg
    BY <1>2, CurrentOK, Stream DEF IInv
  <2>2. Length(current) \in Nat /\ Length(current) >= MinFrame
    BY <2>1, Stream
  <2> QED
    BY <1>1, <2>2, BufferAssumption DEF ScanLimit
<1>3. left <= TempCap
  BY <1>1, Stream
<1> QED
  BY <1>1, <1>2, <1>3, ReturnKeepsIInv DEF Finish

\* A tail too short for a look is one message's own beginning: data holds
\* nothing else, and pos_ = len is then what is left.
LEMMA KeepTailKeepsIInv ==
  ASSUME IInv, KeepTail PROVE IInv'
<1>1. /\ TypeOK /\ Intact /\ Working /\ Placed /\ left > 0 /\ left < MinFrame
      /\ pc = "handle" /\ Return(Len(data))
  BY DEF IInv, Working, KeepTail
<1>2. PICK first \in 1..NMsg : first <= current /\ TameFrom(first)
  BY <1>1 DEF Working
<1>3. left \in Nat /\ MinFrame \in Nat /\ Length(first) \in Nat
      /\ Length(first) >= MinFrame
  BY <1>1, Positions, Stream
<1>4. ~Completes(current, received)
  BY <1>1, <1>2, <1>3, CurrentEnds
<1>5. left < Length(current) /\ left <= TempCap /\ current = first
  BY <1>1, <1>2, <1>3, <1>4, CurrentEnds
<1>6. Len(data) = left
  <2>1. Start[first] = base
    BY <1>2 DEF TameFrom
  <2> QED
    BY <1>1, <1>5, <2>1, Positions
<1> QED
  BY <1>1, <1>5, <1>6, ReturnKeepsIInv

\* HandleMsg keeps a message whose end has not come.
LEMMA KeepPartialKeepsIInv ==
  ASSUME IInv, KeepPartial PROVE IInv'
<1>1. /\ TypeOK /\ Intact /\ Working /\ Placed
      /\ left >= MinFrame /\ FrameLen > left
      /\ pc = "handle" /\ Return(left)
  BY DEF IInv, Working, KeepPartial, Looks
<1>2. PICK first \in 1..NMsg : first <= current /\ TameFrom(first)
  BY <1>1 DEF Working
<1>3. /\ left \in Nat /\ MinFrame \in Nat /\ Length(first) \in Nat
      /\ MinFrame >= 24
  <2>1. MinFrame \in Nat /\ MinFrame >= 24
    BY BufferAssumption DEF ScanLimit
  <2>2. Length(first) \in Nat
    BY Stream
  <2> QED
    BY <1>1, <2>1, <2>2, Positions
<1>4. FrameLen = Length(first) /\ left > 0
  <2>1. Start[first] = base
    BY <1>2 DEF TameFrom
  <2> QED
    BY <1>1, <1>3, <2>1, FrameLenIsFirsts
<1>5. ~Completes(current, received)
  BY <1>1, <1>2, <1>3, <1>4, CurrentEnds
<1> QED
  BY <1>1, <1>2, <1>4, <1>5, CurrentEnds, ReturnKeepsIInv

\* A frame as long as the current message is the current message.
LEMMA FrameIs ==
  ASSUME TypeOK, Intact, Placed, current \in 1..NMsg,
         FrameLen = Length(current), FrameLen <= left
  PROVE  Frame = Message(current)
<1>1. /\ data \in Seq(Nat) /\ Len(data) \in Nat /\ curr_pos \in Nat
      /\ base \in Nat /\ base + curr_pos = Start[current]
      /\ left = Len(data) - curr_pos /\ FrameLen <= left
      /\ FrameLen = Length(current) /\ Length(current) \in Nat
  BY Positions, Stream
<1>2. /\ Frame \in Seq(Nat) /\ Len(Frame) = Length(current)
      /\ \A i \in 1..Length(current) : Frame[i] = data[curr_pos + i]
  <2> DEFINE q == curr_pos + FrameLen
  <2>1. /\ q \in Nat /\ curr_pos <= q /\ q <= Len(data)
        /\ q - curr_pos = Length(current)
    BY <1>1
  <2>2. Frame = SubSeq(data, curr_pos + 1, q)
    BY DEF Frame
  <2> HIDE DEF q
  <2> QED
    BY <1>1, <2>1, <2>2, Piece, SMTT(30)
<1>3. ASSUME NEW i \in 1..Length(current)
      PROVE  Frame[i] = Message(current)[i]
  <2>1. curr_pos + i \in 1..Len(data) /\ base + (curr_pos + i) = Start[current] + i
    BY <1>1, SMTT(30)
  <2>2. Frame[i] = Wire[Start[current] + i]
    BY <1>2, <2>1 DEF Placed
  <2> QED
    BY <2>2, MessageBytes
<1> QED
  BY <1>2, <1>3, MessageBytes, SeqEqual

\* And the decoder it is given to is the one of the current message.
LEMMA FrameIsMessage ==
  ASSUME TypeOK, Intact, Placed, Dispatch, current \in 1..NMsg,
         FrameLen = Length(current)
  PROVE  dispatched' = Append(dispatched, Expected(current))
<1>1. FrameLen <= left
  BY DEF Dispatch
<1>2. Frame = Message(current)
  BY <1>1, FrameIs
<1>3. DecodeHeader(Frame, MsgType) = Types[current]
  BY <1>2, WellFramed
<1>4. dispatched' = Append(dispatched, Delivery(DecodeHeader(Frame, MsgType), Frame))
  BY DEF Dispatch
<1> QED
  BY <1>2, <1>3, <1>4 DEF Expected

\* And so everything stays in its place behind it.
LEMMA DispatchPlaces ==
  ASSUME TypeOK, Intact, Placed, Dispatch, current \in 1..NMsg,
         FrameLen = Length(current)
  PROVE  /\ TypeOK' /\ Intact' /\ Placed' /\ pc' = "handle"
         /\ current' = current + 1 /\ base' = base /\ received' = received
<1>1. /\ Length(current) \in Nat /\ FrameLen <= left /\ pc = "handle"
      /\ dispatched' = Append(dispatched, Expected(current))
  BY FrameIsMessage, Stream DEF Dispatch, Looks
<1>2. /\ received \in Nat /\ Len(data) \in Nat /\ curr_pos \in Nat
      /\ base \in Nat /\ base + curr_pos = Start[current]
      /\ left = Len(data) - curr_pos /\ Start[current] \in Nat
  BY Positions
<1>3. /\ curr_pos' = curr_pos + Length(current) /\ received' = received
      /\ temp_buf_' = temp_buf_ /\ pos_' = pos_ /\ data' = data
  BY DEF Dispatch
<1>4. curr_pos' \in Nat /\ curr_pos' <= Len(data') /\ pc' = "handle"
  <2>1. curr_pos' \in Nat /\ curr_pos' <= Len(data')
    BY <1>1, <1>2, <1>3
  <2> QED
    BY <1>1, <2>1 DEF Dispatch
<1>5. Expected(current) \in [decoder : Seq(Nat), frame : Seq(Nat)]
  <2>1. Types[current] \in Seq(Nat)
    BY StreamAssumption, ElementOfSeq DEF NMsg
  <2>2. Message(current) \in Seq(Nat)
    BY MessageBytes
  <2>3. <<>> \in Seq(Nat)
    OBVIOUS
  <2> QED
    BY <2>1, <2>2, <2>3 DEF Expected, Delivery
<1>6. dispatched \in Delivered /\ current = Len(dispatched) + 1
  BY CurrentOK DEF TypeOK
<1>7. /\ dispatched' \in Delivered /\ Len(dispatched') = Len(dispatched) + 1
      /\ \A i \in 1..Len(dispatched) : dispatched'[i] = dispatched[i]
      /\ dispatched'[current] = Expected(current)
  BY <1>1, <1>5, <1>6, AppendProperties DEF Delivered
<1>8. TypeOK'
  BY <1>3, <1>4, <1>7 DEF TypeOK
<1>9. Intact'
  <2>1. /\ Len(dispatched) \in Nat
        /\ DOMAIN dispatched = 1..Len(dispatched)
        /\ DOMAIN dispatched' = 1..Len(dispatched')
    BY <1>6, <1>7, LenProperties DEF Delivered
  <2>2. ASSUME NEW i \in DOMAIN dispatched'
        PROVE  i <= NMsg /\ dispatched'[i] = Expected(i)
    <3>1. CASE i = current
      <4>1. NMsg \in Nat
        BY Stream
      <4> QED
        BY <1>7, <3>1, <4>1
    <3>2. CASE i # current
      <4>1. i \in DOMAIN dispatched /\ i \in 1..Len(dispatched)
        BY <1>6, <1>7, <2>1, <3>2
      <4> QED
        BY <1>7, <4>1 DEF Intact
    <3> QED
      BY <3>1, <3>2
  <2> QED
    BY <2>2 DEF Intact
<1>10. current' = current + 1 /\ base' = base
  BY <1>3, <1>6, <1>7 DEF current, base
<1>11. Placed'
  <2>1. \A i \in 1..Len(data') : data'[i] = Wire[base' + i]
    BY <1>3, <1>10 DEF Placed
  <2>2. base' + curr_pos' = Start[current']
    <3>1. Start[current + 1] \in Nat
      BY Stream
    <3>2. Length(current) = Start[current + 1] - Start[current]
      BY DEF Length
    <3>3. base + (curr_pos + Length(current)) = Start[current + 1]
      BY <1>1, <1>2, <3>1, <3>2, SMTT(30)
    <3> QED
      BY <1>3, <1>10, <3>3
  <2>3. PICK first \in 1..NMsg : first <= current /\ Start[first] = base
    BY DEF Placed
  <2>4. first <= current' /\ Start[first] = base'
    BY <1>10, <2>3, Stream
  <2> QED
    BY <1>4, <2>1, <2>2, <2>4 DEF Placed
<1> QED
  BY <1>3, <1>4, <1>8, <1>9, <1>10, <1>11

\* What HandleMsg frames is the current message, whole, and it can be decoded.
LEMMA FramesCurrent ==
  ASSUME IInv, pc = "handle", left >= MinFrame, FrameLen <= left
  PROVE  /\ current \in 1..NMsg
         /\ Completes(current, received)
         /\ FrameLen = Length(current) /\ HeaderFits(Frame)
<1>1. TypeOK /\ Intact /\ Working /\ Placed
  BY DEF IInv, Working
<1>2. PICK first \in 1..NMsg : first <= current /\ TameFrom(first)
  BY <1>1 DEF Working
<1>3. /\ left \in Nat /\ MinFrame \in Nat /\ Length(first) \in Nat
      /\ MinFrame >= 24
  <2>1. MinFrame \in Nat /\ MinFrame >= 24
    BY BufferAssumption DEF ScanLimit
  <2>2. Length(first) \in Nat
    BY Stream
  <2> QED
    BY <1>1, <2>1, <2>2, Positions
<1>4. FrameLen = Length(first) /\ left > 0
  <2>1. Start[first] = base
    BY <1>2 DEF TameFrom
  <2> QED
    BY <1>1, <1>3, <2>1, FrameLenIsFirsts
<1>5. current \in 1..NMsg
  BY <1>1, <1>4, Positions
<1>6. Completes(current, received)
  <2> SUFFICES ASSUME ~Completes(current, received) PROVE FALSE
    OBVIOUS
  <2>1. /\ left < Length(current)
        /\ current = first \/ left < Length(first)
    BY <1>1, <1>2, <1>4, CurrentEnds
  <2> QED
    BY <1>1, <1>3, <1>4, <2>1
<1>7. Length(current) = Length(first)
  BY <1>1, <1>2, <1>4, <1>6, CurrentEnds
<1>8. Frame = Message(current)
  BY <1>1, <1>4, <1>5, <1>7, FrameIs
<1>9. HeaderFits(Message(current))
  <2>1. current \in first..NMsg
    BY <1>2, <1>5
  <2> QED
    BY <1>2, <1>6, <2>1 DEF TameFrom, HeadersFit, Decodable
<1> QED
  BY <1>4, <1>5, <1>6, <1>7, <1>8, <1>9

\* A dispatched message is the current one.
LEMMA DispatchDelivers ==
  ASSUME IInv, Dispatch
  PROVE  /\ current \in 1..NMsg
         /\ Completes(current, received)
         /\ FrameLen = Length(current) /\ FrameLen <= left
         /\ dispatched' = Append(dispatched, Expected(current))
<1>1. TypeOK /\ Intact /\ Placed
  BY DEF IInv, Working, Dispatch, Looks
<1>2. pc = "handle" /\ left >= MinFrame /\ FrameLen <= left
  BY DEF Dispatch, Looks
<1> QED
  BY <1>1, <1>2, FramesCurrent, FrameIsMessage

\* Nothing that HandleMsg frames is too long for its arrays.
LEMMA NoOverrun == IInv => ~Overrun
<1> SUFFICES ASSUME IInv, Overrun PROVE FALSE
  OBVIOUS
<1>1. TypeOK /\ Intact /\ Working /\ Placed /\ pc = "handle" /\ left >= MinFrame
  BY DEF IInv, Working, Overrun
<1>2. Looks
  <2>1. PICK first \in 1..NMsg : Start[first] = base
    BY <1>1 DEF Placed
  <2> QED
    BY <1>1, <2>1, FrameLenIsFirsts DEF Looks
<1>3. FrameLen <= left /\ ~HeaderFits(Frame)
  BY <1>2 DEF Overrun
<1> QED
  BY <1>1, <1>3, FramesCurrent

\* HandleMsg gives away the message at curr_pos, and it is the current one.
LEMMA DispatchKeepsIInv ==
  ASSUME IInv, Dispatch PROVE IInv'
<1>1. TypeOK /\ Intact /\ Working /\ Placed
  BY DEF IInv, Working, Dispatch, Looks
<1>2. current \in 1..NMsg /\ FrameLen = Length(current)
  BY DispatchDelivers
<1>3. /\ TypeOK' /\ Intact' /\ Placed' /\ pc' = "handle"
      /\ current' = current + 1 /\ base' = base /\ received' = received
  BY <1>1, <1>2, DispatchPlaces
<1>4. PICK first \in 1..NMsg : first <= current /\ TameFrom(first)
  BY <1>1 DEF Working
<1>5. first <= current' /\ TameFrom(first)'
  <2>1. TameFrom(first)'
    BY <1>3, <1>4 DEF TameFrom, EvenLengths, TailUsable, TailFits, HeadersFit
  <2>2. NMsg \in Nat
    BY Stream
  <2> QED
    BY <1>2, <1>3, <1>4, <2>1, <2>2
<1>6. Working'
  BY <1>3, <1>5 DEF Working
<1> QED
  BY <1>3, <1>6 DEF IInv, Defined

\* All steps of TameSpec together.
LEMMA StepKeepsIInv ==
  ASSUME IInv, [TameNext]_vars PROVE IInv'
<1>1. CASE \E n \in Pieces : Tame(n) /\ Recv(n)
  BY <1>1, RecvKeepsIInv DEF Pieces
<1>2. CASE Finish
  BY <1>2, FinishKeepsIInv
<1>3. CASE KeepTail
  BY <1>3, KeepTailKeepsIInv
<1>4. CASE KeepPartial
  BY <1>4, KeepPartialKeepsIInv
<1>5. CASE Dispatch
  BY <1>5, DispatchKeepsIInv
<1>6. CASE UNCHANGED vars
  BY <1>6 DEF vars, IInv, TypeOK, Intact, Waiting, Working, Placed, TameFrom, Defined,
              base, current, EvenLengths, TailUsable, TailFits, HeadersFit
<1> QED
  BY <1>1, <1>2, <1>3, <1>4, <1>5, <1>6, NoOverrun DEF TameNext, HandleMsg, Read

\* The inductive invariant holds under every tame segmentation.
THEOREM Invariance == TameSpec => []IInv
<1>1. Init => IInv
  BY InitIInv
<1>2. IInv /\ [TameNext]_vars => IInv'
  BY StepKeepsIInv
<1> QED
  BY <1>1, <1>2, PTL DEF TameSpec

-----------------------------------------------------------------------------
(* The theorems. *)

\* Every variable keeps its type under every tame segmentation.
THEOREM TypeCorrect == TameSpec => []TypeOK
<1>1. IInv => TypeOK
  BY DEF IInv
<1> QED
  BY <1>1, Invariance, PTL

\* Under every tame segmentation HandleMsg hands over the gateway's messages:
\* in order, whole, none twice, each to the decoder of its type.
THEOREM DeliversIntact == TameSpec => []Intact
<1>1. IInv => Intact
  BY DEF IInv
<1> QED
  BY <1>1, Invariance, PTL

\* What Waiting says of the bytes kept is what InStep asks.
LEMMA KeptInStep == IInv => InStep
<1> SUFFICES ASSUME IInv, pc = "recv" PROVE InStep
  BY DEF InStep
<1>1. Waiting /\ current \in 1..NMsg + 1
  BY CurrentOK DEF IInv
<1>2. NMsg \in Nat
  BY Stream
<1> QED
  BY <1>1, <1>2 DEF InStep, Waiting

\* Whenever HandleMsg has returned, temp_buf_ and pos_ are exactly the part of
\* the current message that has arrived; no whole message is held back.
THEOREM StaysInStep == TameSpec => []InStep
  BY KeptInStep, Invariance, PTL

\* No memcpy leaves temp_buf_, fix_ver, tmp_val or an array of the header, and
\* curr_pos never becomes negative.
THEOREM StaysDefined == TameSpec => []Defined
<1>1. IInv => Defined
  BY DEF IInv
<1> QED
  BY <1>1, Invariance, PTL

\* HandleMsg's loop ends: every round returns or moves at least MinFrame bytes
\* further into data.
THEOREM LoopProgress == TameSpec => Progress
<1> DEFINE Round == pc = "handle" =>
                      \/ pc' = "recv"
                      \/ curr_pos + MinFrame <= curr_pos' /\ curr_pos' <= Len(data)
<1>1. IInv /\ IInv' /\ [TameNext]_vars => [Round]_vars
  <2> SUFFICES ASSUME IInv, IInv', TameNext, pc = "handle", pc' # "recv"
               PROVE  curr_pos + MinFrame <= curr_pos' /\ curr_pos' <= Len(data)
    OBVIOUS
  <2>1. pc' = "handle"
    BY DEF IInv, TypeOK, Defined
  <2>2. Dispatch
    BY <2>1, NoOverrun
       DEF TameNext, HandleMsg, Read, Recv, Finish, KeepTail, KeepPartial, Return
  <2>3. /\ current \in 1..NMsg /\ FrameLen = Length(current) /\ FrameLen <= left
        /\ curr_pos' = curr_pos + FrameLen
    BY <2>2, DispatchDelivers DEF Dispatch
  <2>4. Length(current) \in Nat /\ Length(current) >= MinFrame /\ MinFrame \in Nat
    BY <2>3, Stream
  <2>5. left = Len(data) - curr_pos /\ curr_pos \in Nat /\ Len(data) \in Nat
    BY Positions DEF IInv, Working
  <2> QED
    BY <2>3, <2>4, <2>5
<1> QED
  BY <1>1, Invariance, PTL DEF TameSpec, Progress

\* The receiver implements the abstract delivery: a recv is a step in which
\* bytes arrive, a dispatch a step that delivers the next message, and the
\* rest of HandleMsg is invisible.
THEOREM ReceiverImplementsDelivery == TameSpec => Implements
<1>1. Init => Delivery0!Init
  BY DEF Init, Delivery0!Init
<1>2. IInv /\ [TameNext]_vars => [Delivery0!Next]_(Delivery0!deliveryVars)
  <2> SUFFICES ASSUME IInv, [TameNext]_vars
               PROVE  [Delivery0!Next]_(Delivery0!deliveryVars)
    OBVIOUS
  <2> USE DEF Delivery0!deliveryVars
  <2>1. CASE \E n \in Pieces : Tame(n) /\ Recv(n)
    <3>1. PICK n \in 1..Len(Wire) : Recv(n)
      BY <2>1 DEF Pieces
    <3>2. /\ received' = received + n /\ dispatched' = dispatched
          /\ received + n <= Start[NMsg + 1] /\ Start[NMsg + 1] \in Nat
          /\ received \in Nat /\ n >= 1 /\ n \in Nat
      BY <3>1, Stream DEF Recv, IInv, TypeOK
    <3> QED
      BY <3>2 DEF Delivery0!Next, Delivery0!Arrive
  <2>2. CASE Dispatch
    <3>1. /\ current \in 1..NMsg /\ Start[current + 1] <= received
          /\ dispatched' = Append(dispatched, Expected(current))
      BY <2>2, DispatchDelivers DEF Completes
    <3>2. current = Len(dispatched) + 1 /\ Len(dispatched) \in Nat /\ NMsg \in Nat
      BY CurrentOK, Stream, LenProperties DEF IInv, TypeOK, Delivered
    <3>3. Len(dispatched) < NMsg /\ Len(dispatched) + 2 = current + 1
      BY <3>1, <3>2
    <3>4. received' = received
      BY <2>2 DEF Dispatch
    <3> QED
      BY <3>1, <3>2, <3>3, <3>4 DEF Delivery0!Next, Delivery0!Deliver
  <2>3. CASE Finish \/ KeepTail \/ KeepPartial
    BY <2>3 DEF Finish, KeepTail, KeepPartial, Return
  <2>4. CASE UNCHANGED vars
    BY <2>4 DEF vars
  <2> QED
    BY <2>1, <2>2, <2>3, <2>4, NoOverrun DEF TameNext, HandleMsg, Read
<1> QED
  BY <1>1, <1>2, Invariance, PTL DEF TameSpec, Implements, Delivery0!Spec
=============================================================================
