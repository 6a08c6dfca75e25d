-------------------------- MODULE IncomingFraming --------------------------
(***************************************************************************)
(* IncomingMessageHandle: the bytes recv returns, cut at any place by TCP, *)
(* are put together into FIX messages and handed to their decoder.  Wire   *)
(* is all the gateway ever sends; the network chooses where each recv      *)
(* ends, among Cuts.  One step is one recv with OnReceiveMsg's preparation *)
(* of the buffer, or one round of HandleMsg's loop.                        *)
(***************************************************************************)
EXTENDS FixWire

CONSTANTS
  Wire,       \* the bytes the gateway sends, one after the other
  Types,      \* Types[k] is the type of the k-th message in them
  Start,      \* Start[k] bytes of Wire come before message k
  Cuts,       \* where in Wire TCP may cut it
  MinFrame,   \* fewer bytes than this are kept without a look (50)
  TempCap,    \* sizeof temp_buf_ (2048)
  RecvCap     \* sizeof recv_buf (8192)

NMsg == Len(Types)

Message(k) == SubSeq(Wire, Start[k] + 1, Start[k + 1])
Length(k)  == Start[k + 1] - Start[k]

Window(d, p) == SubSeq(d, p + 1, p + ScanLimit)

ASSUME BufferAssumption ==
  /\ MinFrame \in Nat /\ TempCap \in Nat /\ RecvCap \in Nat
  /\ MinFrame >= 2 * ScanLimit
  /\ RecvCap >= 1

ASSUME StreamAssumption ==
  /\ Wire \in Seq(Nat)
  /\ Types \in Seq(Seq(Nat))
  /\ Start \in [1..NMsg + 1 -> Nat]
  /\ Start[1] = 0
  /\ Start[NMsg + 1] = Len(Wire)
  /\ \A j, k \in 1..NMsg + 1 : j < k => Start[j] + MinFrame <= Start[k]

\* Every message on the wire is one the gateway framed as FIX 4.4: its header
\* fields scan to its own length and its type.  FIX_VER_44's field is 10 long.
ASSUME WellFramed ==
  \A k \in 1..NMsg :
    LET ver  == GetFIXVersion(Window(Wire, Start[k]))
        body == GetBodyLen(Window(Wire, Start[k] + 10))
    IN  /\ ver = [consumed |-> 10, value |-> FIX_VER_44]
        /\ MsgLen(ver, body) = Length(k)
        /\ DecodeHeader(Message(k), MsgType) = Types[k]

VARIABLES
  received,    \* how many bytes of Wire recv has returned
  temp_buf_,   \* the bytes kept from one recv to the next
  pos_,        \* how many of them count
  data,        \* the bytes HandleMsg is working on; data[1] is *data
  curr_pos,    \* how many of them are done with
  dispatched,  \* history: the messages given to a decoder
  pc           \* "recv", "handle", or "undefined" once outside an array

vars == <<received, temp_buf_, pos_, data, curr_pos, dispatched, pc>>

\* The types HandleMsg has a branch for; any other message is passed over.
Decoded ==
  {MARKET_DATA_UPDATE, MARKET_DATA_SNAPSHOT, MARKET_DATA_REQUEST_REJECT,
   SECURITY_DEFINITION, LOGON, TEST_REQUEST, RESEND_REQUEST, REJECT,
   SEQUENCE_RESET, LOGOUT, BUSINESS_MESSAGE_REJECT, HEART_BEAT}

\* A decoder is called for its type; its body is empty, so that the call with its
\* bytes is all there is to record.
Delivery(type, frame) ==
  [decoder |-> IF type \in Decoded THEN type ELSE <<>>, frame |-> frame]

Init ==
  /\ received = 0
  /\ temp_buf_ = [i \in 1..TempCap |-> 0]
  /\ pos_ = 0
  /\ data = <<>>
  /\ curr_pos = 0
  /\ dispatched = <<>>
  /\ pc = "recv"

left == Len(data) - curr_pos

-----------------------------------------------------------------------------
(* OnReceiveMsg. *)

\* Mutant: the bytes kept from the last recv are not put before the new ones.
JoinedForgetting(chunk) == chunk
\* What HandleMsg is called with.
Joined(chunk) ==
  IF pos_ > 0 THEN SubSeq(temp_buf_, 1, pos_) \o chunk ELSE chunk

Chunk(n) == SubSeq(Wire, received + 1, received + n)

\* How many bytes the next recv may find.
Pieces == {n \in 1..Len(Wire) : received + n \in Cuts}

Recv(n) ==
  /\ pc = "recv"
  /\ n <= RecvCap
  /\ received + n <= Len(Wire)
  /\ received' = received + n
  /\ IF pos_ > 0 /\ pos_ + n > TempCap
     THEN pc' = "undefined" /\ UNCHANGED <<temp_buf_, data>>
     ELSE /\ temp_buf_' = IF pos_ > 0 THEN Overwrite(temp_buf_, pos_, Chunk(n))
                          ELSE temp_buf_
          /\ data' = Joined(Chunk(n))
          /\ pc' = "handle"
  /\ UNCHANGED <<pos_, curr_pos, dispatched>>

-----------------------------------------------------------------------------
(* HandleMsg, one round of the loop. *)

\* Mutant: one byte of the trailer is forgotten.
FrameLenShort ==
  LET ver == GetFIXVersion(Window(data, curr_pos))
  IN  MsgLen(ver, GetBodyLen(Window(data, ver.consumed))) - 1
\* Mutant: the SOH behind BodyLength is taken for a digit of it.
FrameLenPastSoh ==
  LET ver  == GetFIXVersion(Window(data, curr_pos))
      body == GetBodyLen(Window(data, ver.consumed))
  IN  MsgLen(ver, [body EXCEPT !.value = Append(@, SOH)])
\* The length of the message at curr_pos.  GetBodyLen is given data, not data +
\* curr_pos: it reads the BodyLength of the first message of this call.
FrameLen ==
  LET ver == GetFIXVersion(Window(data, curr_pos))
  IN  MsgLen(ver, GetBodyLen(Window(data, ver.consumed)))

\* HandleMsg returns; the rest of data, if any, goes to the front of temp_buf_.
Return(keep) ==
  /\ pos_' = keep
  /\ IF left > TempCap
     THEN pc' = "undefined" /\ UNCHANGED temp_buf_
     ELSE /\ temp_buf_' = Overwrite(temp_buf_, 0, SubSeq(data, curr_pos + 1, Len(data)))
          /\ pc' = "recv"
  /\ data' = <<>>
  /\ curr_pos' = 0
  /\ UNCHANGED <<received, dispatched>>

\* Nothing is left: the next recv starts afresh.
Finish ==
  /\ pc = "handle"
  /\ left <= 0
  /\ Return(0)

\* Too little is left to look at.  pos_ becomes len, whatever curr_pos is.
KeepTail ==
  /\ pc = "handle"
  /\ left > 0 /\ left < MinFrame
  /\ Return(Len(data))

\* Enough is left for a look at curr_pos, and fix_ver takes the version.
Looks ==
  /\ pc = "handle"
  /\ left >= MinFrame
  /\ VersionEnds(GetFIXVersion(Window(data, curr_pos)))

\* Mutant: pos_ becomes what is missing, with its sign.
KeepMissing ==
  /\ Looks
  /\ FrameLen > left
  /\ Return(left - FrameLen)
\* The message at curr_pos is not all there yet.
KeepPartial ==
  /\ Looks
  /\ FrameLen > left
  /\ Return(left)

Frame == SubSeq(data, curr_pos + 1, curr_pos + FrameLen)

Dispatch ==
  /\ Looks
  /\ FrameLen <= left
  /\ HeaderFits(Frame)
  /\ dispatched' = Append(dispatched, Delivery(DecodeHeader(Frame, MsgType), Frame))
  /\ curr_pos' = curr_pos + FrameLen
  /\ pc' = IF curr_pos' < 0 THEN "undefined" ELSE pc
  /\ UNCHANGED <<received, temp_buf_, pos_, data>>

\* strlen does not find the end of the version in fix_ver, or DecodeHeader copies
\* a value past the end of tmp_val or of an array of the header.
Overrun ==
  /\ pc = "handle" /\ left >= MinFrame
  /\ Looks => FrameLen <= left /\ ~HeaderFits(Frame)
  /\ pc' = "undefined"
  /\ UNCHANGED <<received, temp_buf_, pos_, data, curr_pos, dispatched>>

\* The message at curr_pos is read, to its end or to the end of an array.
Read == pc = "handle" /\ left >= MinFrame /\ (Dispatch \/ Overrun)

HandleMsg == Finish \/ KeepTail \/ KeepPartial \/ Read

Next == (\E n \in Pieces : Recv(n)) \/ HandleMsg

Spec == Init /\ [][Next]_vars
-----------------------------------------------------------------------------
(* The segmentations HandleMsg copes with.  Among the messages a recv      *)
(* completes or cuts, msg is the one under way.                            *)

current == Len(dispatched) + 1

Completes(k, end)  == Start[k + 1] <= end
CutsShort(k, end)  == Start[k] <= end /\ end < Start[k + 1]

\* All messages this call completes are as long as the first.
EvenLengths(first, end) ==
  \A k \in first..NMsg : Completes(k, end) => Length(k) = Length(first)

\* A message cut short behind a complete one leaves no bytes, or enough for
\* a look and too few to pass for a message of the first one's length.
TailUsable(first, end) ==
  \A k \in first..NMsg :
    CutsShort(k, end) =>
      \/ k = first
      \/ end = Start[k]
      \/ end - Start[k] >= MinFrame /\ end - Start[k] < Length(first)

TailFits(first, end) ==
  \A k \in first..NMsg : CutsShort(k, end) => end - Start[k] <= TempCap

\* DecodeHeader has room for every value of each message this call completes.
Decodable == {k \in 1..NMsg : HeaderFits(Message(k))}
HeadersFit(first, end) ==
  \A k \in first..NMsg : Completes(k, end) => k \in Decodable

Tame(n) ==
  LET end == received + n
  IN  /\ pos_ > 0 => pos_ + n <= TempCap
      /\ EvenLengths(current, end)
      /\ TailUsable(current, end)
      /\ TailFits(current, end)
      /\ HeadersFit(current, end)

TameNext == (\E n \in Pieces : Tame(n) /\ Recv(n)) \/ HandleMsg

TameSpec == Init /\ [][TameNext]_vars

-----------------------------------------------------------------------------
(* Properties. *)

Delivered == Seq([decoder : Seq(Nat), frame : Seq(Nat)])

\* Every variable of OnReceiveMsg and HandleMsg keeps its type; in particular no
\* value of curr_pos or of BodyLength makes pos_ negative.
TypeOK ==
  /\ received \in 0..Len(Wire)
  /\ temp_buf_ \in [1..TempCap -> Nat]
  /\ pos_ \in Nat
  /\ data \in Seq(Nat)
  /\ curr_pos \in Int
  /\ dispatched \in Delivered
  /\ pc \in {"recv", "handle", "undefined"}

Expected(k) == Delivery(Types[k], Message(k))

\* What reached the decoders is what the gateway sent: the same messages, in
\* the same order, none cut, joined or repeated.  The header comment of
\* HandleMsg: it is there to "Handle TCP stick or divide packed".
Intact == \A k \in DOMAIN dispatched : k <= NMsg /\ dispatched[k] = Expected(k)

\* Between two recvs temp_buf_ holds exactly the part of the current message
\* that has arrived, and that part is not yet the whole message: nothing that
\* could be delivered is held back.
InStep ==
  pc = "recv" =>
    /\ current <= NMsg + 1
    /\ received = Start[current] + pos_
    /\ \A i \in 1..pos_ : temp_buf_[i] = Wire[Start[current] + i]
    /\ current <= NMsg => received < Start[current + 1]

\* No memcpy of OnReceiveMsg or HandleMsg ends past temp_buf_, no negative
\* BodyLength takes curr_pos before the first byte, the version ends inside
\* fix_ver, and DecodeHeader writes no value past tmp_val or an array of the header.
Defined == pc # "undefined"

\* HandleMsg's `while (true)' ends: each round returns, or takes a message of
\* at least MinFrame bytes that lies inside data.
Progress ==
  [][pc = "handle" =>
       \/ pc' = "recv"
       \/ curr_pos + MinFrame <= curr_pos' /\ curr_pos' <= Len(data)]_vars

\* The receiver implements the abstract delivery.
Delivery0 == INSTANCE MessageDelivery WITH
               arrived <- received, delivered <- dispatched
Implements == Delivery0!Spec
=============================================================================
