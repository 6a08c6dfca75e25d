--------------------------- MODULE ReceiverProofs ---------------------------
(***************************************************************************)
(* Proofs about the receiving side, whatever the network does: while every *)
(* recv of what lay in the socket has been tame, all that came is handed   *)
(* on; and if the gateway sends each message only when the one before has  *)
(* been received, every recv is tame.                                      *)
(***************************************************************************)
EXTENDS Receiver, IncomingFramingProofs

-----------------------------------------------------------------------------
(* The inductive invariant. *)

\* How the thread, the socket and HandleMsg go together: the thread cannot end
\* inside HandleMsg, nor before it has read what came, unless by a reset.
Socket ==
  /\ said \in Nat /\ said <= Len(Wire)
  /\ received \in Nat /\ received <= said
  /\ listening = "over" => pc = "recv" /\ sock \in {"eof", "reset"}
  /\ listening = "over" /\ sock = "eof" => received = said

ReceiverInv ==
  /\ Socket
  /\ tame => IInv
  /\ lockstep => KeepsBack(said)
  /\ AllFit /\ lockstep => tame

\* What recv returns is some of what has come.
LEMMA AvailableType ==
  ASSUME Socket, received < said
  PROVE  /\ Available \in 1..Len(Wire)
         /\ received + Available \in Nat /\ received + Available <= said
<1>1. RecvCap \in Nat /\ RecvCap >= 1 /\ Len(Wire) \in Nat
  BY BufferAssumption, Stream
<1> QED
  BY <1>1 DEF Socket, Available

\* A recv inside the current message, or at its end, is tame.
LEMMA InsideIsTame ==
  ASSUME IInv, pc = "recv", AllFit, NEW n \in 1..Len(Wire),
         received + n <= Len(Wire),
         \A k \in 1..NMsg : received < Start[k + 1] => received + n <= Start[k + 1]
  PROVE  Tame(n)
<1> DEFINE end == received + n
<1>1. /\ TypeOK /\ Intact /\ Waiting /\ current \in 1..NMsg + 1
      /\ received \in Nat /\ pos_ \in Nat /\ n \in Nat /\ n >= 1
      /\ TempCap \in Nat /\ NMsg \in Nat /\ Len(Wire) \in Nat
      /\ Start[NMsg + 1] = Len(Wire)
  BY CurrentOK, Stream, SMTT(30) DEF IInv, TypeOK
<1>2. received = Start[current] + pos_
  BY <1>1 DEF Waiting
<1>3. current \in 1..NMsg
  BY <1>1, <1>2
<1>4. /\ received < Start[current + 1] /\ end <= Start[current + 1]
      /\ Start[current] \in Nat /\ Start[current + 1] \in Nat /\ end \in Nat
      /\ Start[current] <= end
  <2>1. received < Start[current + 1]
    BY <1>1, <1>3 DEF Waiting
  <2>2. end <= Start[current + 1]
    BY <1>3, <2>1
  <2>3. current + 1 \in 1..NMsg + 1
    BY <1>1, <1>3
  <2>4. Start[current] \in Nat /\ Start[current + 1] \in Nat
    BY <1>1, <2>3, Stream
  <2>5. end \in Nat /\ Start[current] <= end
    BY <1>1, <1>2, <2>4, SMTT(30)
  <2> QED
    BY <2>1, <2>2, <2>4, <2>5
<1>5. ASSUME NEW k \in 1..NMsg
      PROVE  /\ Start[k] \in Nat /\ Start[k + 1] \in Nat /\ Start[k] < Start[k + 1]
             /\ Length(k) = Start[k + 1] - Start[k] /\ Length(k) <= TempCap
             /\ k \in Decodable
  <2>0. k \in 1..NMsg + 1 /\ k + 1 \in 1..NMsg + 1
    BY <1>1
  <2>1. Start[k] \in Nat /\ Start[k + 1] \in Nat
    BY <2>0, Stream
  <2>2. Length(k) >= MinFrame /\ MinFrame \in Nat /\ MinFrame >= 24
    BY BufferAssumption, Stream DEF ScanLimit
  <2>3. Length(k) = Start[k + 1] - Start[k]
    BY DEF Length
  <2>4. Start[k] < Start[k + 1]
    BY <2>1, <2>2, <2>3
  <2>5. k \in Decodable /\ Length(k) <= TempCap
    BY DEF AllFit
  <2> QED
    BY <2>1, <2>3, <2>4, <2>5
<1>6. \A k \in current..NMsg : k # current => Start[current + 1] <= Start[k]
  <2> SUFFICES ASSUME NEW k \in current..NMsg, k # current
              PROVE  Start[current + 1] <= Start[k]
    OBVIOUS
  <2>1. k \in 1..NMsg + 1 /\ current < k
    <3>1. NMsg \in Nat /\ current \in Nat /\ current >= 1
      BY <1>1, <1>3
    <3> QED
      BY <3>1
  <2> QED
    BY <1>3, <2>1, Ordered
<1>7. pos_ > 0 => pos_ + n <= TempCap
  <2>1. pos_ + n = end - Start[current]
    BY <1>1, <1>2, <1>4, SMTT(30)
  <2>2. Length(current) = Start[current + 1] - Start[current] /\ Length(current) <= TempCap
    BY <1>3, <1>5
  <2> HIDE DEF end
  <2> QED
    BY <1>1, <1>4, <2>1, <2>2
<1> HIDE DEF end
<1>8. \A k \in current..NMsg : Completes(k, end) => k = current
  <2> SUFFICES ASSUME NEW k \in current..NMsg, Start[k + 1] <= end, k # current
              PROVE  FALSE
    BY DEF Completes
  <2>1. k \in 1..NMsg
    BY <1>3
  <2>2. Start[k] < Start[k + 1] /\ Start[k] \in Nat /\ Start[k + 1] \in Nat
    BY <1>5, <2>1
  <2>3. Start[current + 1] <= Start[k]
    BY <1>6
  <2> QED
    BY <1>4, <2>2, <2>3
<1>9. \A k \in current..NMsg : CutsShort(k, end) => k = current \/ end = Start[k]
  <2> SUFFICES ASSUME NEW k \in current..NMsg, Start[k] <= end, k # current
              PROVE  end = Start[k]
    BY DEF CutsShort
  <2>1. k \in 1..NMsg
    BY <1>3
  <2>2. Start[k] \in Nat
    BY <1>5, <2>1
  <2>3. Start[current + 1] <= Start[k]
    BY <1>6
  <2> QED
    BY <1>4, <2>2, <2>3
<1>10. EvenLengths(current, end)
  BY <1>8 DEF EvenLengths
<1>11. TailUsable(current, end)
  BY <1>9 DEF TailUsable
<1>12. TailFits(current, end)
  <2> SUFFICES ASSUME NEW k \in current..NMsg, CutsShort(k, end)
              PROVE  end - Start[k] <= TempCap
    BY DEF TailFits
  <2>1. k \in 1..NMsg
    BY <1>3
  <2>2. /\ Start[k] \in Nat /\ Start[k + 1] \in Nat /\ end < Start[k + 1]
        /\ Start[k + 1] - Start[k] <= TempCap
    BY <1>5, <2>1 DEF CutsShort
  <2> QED
    BY <1>1, <1>4, <2>2
<1>13. HeadersFit(current, end)
  <2> SUFFICES ASSUME NEW k \in current..NMsg PROVE k \in Decodable
    BY DEF HeadersFit
  <2>1. k \in 1..NMsg
    BY <1>3
  <2> QED
    BY <1>5, <2>1
<1> QED
  BY <1>7, <1>10, <1>11, <1>12, <1>13 DEF Tame, end

-----------------------------------------------------------------------------
(* Every step keeps the invariant. *)

\* The program at its start, with nothing said.
LEMMA InitReceiverInv == ReceiverInit => ReceiverInv
<1> SUFFICES ASSUME ReceiverInit PROVE ReceiverInv
  OBVIOUS
<1>1. /\ Init /\ said = 0 /\ received = 0 /\ listening = "off" /\ tame
  BY DEF ReceiverInit, Client!ClientInit, Init
<1>2. \A k \in 1..NMsg : Start[k + 1] \in Nat
  BY Stream
<1>3. KeepsBack(said)
  BY <1>1, <1>2 DEF KeepsBack
<1>4. Socket
  BY <1>1, Stream DEF Socket
<1> QED
  BY <1>1, <1>3, <1>4, InitIInv DEF ReceiverInv

\* recv of all that has come.
LEMMA RecvKeeps ==
  ASSUME ReceiverInv, RecvStep PROVE ReceiverInv'
<1> DEFINE n == Available
<1>1. /\ listening = "on" /\ received < said
      /\ said' = said /\ listening' = listening /\ lockstep' = lockstep
      /\ tame' = (tame /\ Tame(n))
      /\ Recv(n) /\ pc = "recv" /\ received' = received + n
  BY DEF RecvStep, Client!Recv, Recv
<1>2. Socket
  BY DEF ReceiverInv
<1>3. n \in 1..Len(Wire) /\ received + n \in Nat /\ received + n <= said
  BY <1>1, <1>2, AvailableType
<1> HIDE DEF n
<1>4. Socket'
  BY <1>1, <1>2, <1>3 DEF Socket
<1>5. tame' => IInv'
  <2> SUFFICES ASSUME tame' PROVE IInv'
    OBVIOUS
  <2>1. IInv /\ Tame(n)
    BY <1>1 DEF ReceiverInv
  <2> QED
    BY <1>1, <1>3, <2>1, RecvKeepsIInv
<1>6. lockstep => KeepsBack(said)
  BY DEF ReceiverInv
<1>7. lockstep' => KeepsBack(said)'
  <2> SUFFICES ASSUME lockstep, NEW k \in 1..NMsg, received' < Start[k + 1]
              PROVE  said <= Start[k + 1]
    BY <1>1 DEF KeepsBack
  <2>1. Start[k + 1] \in Nat /\ n \in Nat /\ received \in Nat
    BY <1>2, <1>3, Stream DEF Socket
  <2>2. received < Start[k + 1]
    BY <1>1, <2>1
  <2> QED
    BY <1>6, <2>2 DEF KeepsBack
<1>8. AllFit /\ lockstep => Tame(n)
  <2> SUFFICES ASSUME AllFit, lockstep PROVE Tame(n)
    OBVIOUS
  <2>1. IInv
    BY DEF ReceiverInv
  <2>2. received + n <= Len(Wire)
    BY <1>2, <1>3, Stream DEF Socket
  <2>3. ASSUME NEW k \in 1..NMsg, received < Start[k + 1]
        PROVE  received + n <= Start[k + 1]
    <3>1. said <= Start[k + 1] /\ Start[k + 1] \in Nat /\ said \in Nat
      BY <1>2, <1>6, <2>3, Stream DEF KeepsBack, Socket
    <3> QED
      BY <1>3, <3>1
  <2> QED
    BY <1>1, <1>3, <2>1, <2>2, <2>3, InsideIsTame
<1>9. AllFit' /\ lockstep' => tame'
  BY <1>1, <1>8 DEF ReceiverInv, AllFit
<1> QED
  BY <1>4, <1>5, <1>7, <1>9 DEF ReceiverInv

\* A round of HandleMsg's loop.
LEMMA HandleKeeps ==
  ASSUME ReceiverInv, HandleStep PROVE ReceiverInv'
<1>1. /\ pc = "handle" /\ received' = received
      /\ UNCHANGED <<said, listening, sock, tame, lockstep>>
  BY DEF HandleStep, HandleMsg, Read, Finish, KeepTail, KeepPartial, Dispatch, Overrun,
         Looks, Return, socketVars, historyVars
<1>2. Socket'
  BY <1>1 DEF ReceiverInv, Socket
<1>3. tame' => IInv'
  BY <1>1, StepKeepsIInv DEF ReceiverInv, HandleStep, TameNext
<1> QED
  BY <1>1, <1>2, <1>3 DEF ReceiverInv, KeepsBack, AllFit

\* All other steps leave IncomingFraming alone.
LEMMA OthersKeep ==
  ASSUME ReceiverInv,
         ConnectStep \/ BrokenStep \/ NetworkStep \/ UNCHANGED receiverVars
  PROVE  ReceiverInv'
<1>1. UNCHANGED vars /\ UNCHANGED tame
  BY DEF ConnectStep, BrokenStep, NetworkStep, framingVars, vars, historyVars,
         receiverVars, Client!Connect, Client!RecvBroken, Client!Say, Client!Close
<1>2. tame' => IInv'
  BY <1>1, StepKeepsIInv DEF ReceiverInv
<1>3. received' = received /\ pc' = pc
  BY <1>1 DEF vars
<1>4. /\ said' \in Nat /\ said' <= Len(Wire) /\ received <= said'
      /\ listening' = "over" => pc = "recv" /\ sock' \in {"eof", "reset"}
      /\ listening' = "over" /\ sock' = "eof" => received = said'
  <2>1. CASE ConnectStep
    BY <2>1 DEF ReceiverInv, Socket, ConnectStep, Client!Connect
  <2>2. CASE BrokenStep
    BY <2>2 DEF ReceiverInv, Socket, BrokenStep, Client!RecvBroken
  <2>3. CASE NetworkStep
    <3>1. CASE Client!Say
      <4>1. /\ sock = "open" /\ UNCHANGED <<listening, sock>>
            /\ said' \in said + 1..Len(Wire)
        BY <3>1 DEF Client!Say
      <4>2. said \in Nat /\ received \in Nat /\ received <= said /\ Len(Wire) \in Nat
        BY Stream DEF ReceiverInv, Socket
      <4> QED
        BY <4>1, <4>2 DEF ReceiverInv, Socket
    <3>2. CASE Client!Close
      BY <3>2 DEF ReceiverInv, Socket, Client!Close
    <3> QED
      BY <2>3, <3>1, <3>2 DEF NetworkStep
  <2>4. CASE UNCHANGED receiverVars
    BY <2>4 DEF ReceiverInv, Socket, receiverVars, socketVars
  <2> QED
    BY <2>1, <2>2, <2>3, <2>4
<1>5. (lockstep' => lockstep) /\ (lockstep' => KeepsBack(said)')
  <2>1. CASE ConnectStep \/ BrokenStep \/ UNCHANGED receiverVars
    <3>1. UNCHANGED <<said, lockstep>>
      BY <2>1 DEF ConnectStep, BrokenStep, receiverVars, socketVars, historyVars,
                  Client!Connect, Client!RecvBroken
    <3> QED
      BY <1>3, <3>1 DEF ReceiverInv, KeepsBack
  <2>2. CASE NetworkStep
    <3>1. CASE lockstep' = (lockstep /\ KeepsBack(said'))
      BY <1>3, <3>1 DEF KeepsBack
    <3>2. CASE Client!Close /\ UNCHANGED lockstep
      BY <1>3, <3>2 DEF ReceiverInv, KeepsBack, Client!Close
    <3> QED
      BY <2>2, <3>1, <3>2 DEF NetworkStep
  <2> QED
    BY <2>1, <2>2
<1>6. Socket'
  BY <1>3, <1>4 DEF ReceiverInv, Socket
<1> QED
  BY <1>1, <1>2, <1>5, <1>6 DEF ReceiverInv, AllFit

\* The invariant holds whatever the gateway says, and whenever the thread is run.
THEOREM ReceiverInvariance == ReceiverSpec => []ReceiverInv
<1>1. ReceiverInv /\ [ReceiverNext]_receiverVars => ReceiverInv'
  BY RecvKeeps, HandleKeeps, OthersKeep DEF ReceiverNext
<1> QED
  BY <1>1, InitReceiverInv, PTL DEF ReceiverSpec

-----------------------------------------------------------------------------
(* The theorems. *)

\* If no message comes before the one in front of it has been received, and all
\* fit, then the thread's recvs of what has come are all tame, and HandleMsg
\* delivers the messages as they were sent, whatever the cuts inside them.
THEOREM LockstepSuffices == ReceiverSpec => []LockstepIsSound
<1>1. ReceiverInv => LockstepIsSound
  <2> SUFFICES ASSUME ReceiverInv, AllFit, lockstep
              PROVE  tame /\ Intact /\ InStep /\ Defined
    BY DEF LockstepIsSound
  <2>1. tame /\ IInv
    BY DEF ReceiverInv
  <2> QED
    BY <2>1, KeptInStep DEF IInv
<1> QED
  BY <1>1, ReceiverInvariance, PTL

\* When the thread has ended because the gateway closed, and no recv of what lay
\* in the socket was other than tame, every message that came whole was handed to
\* its decoder, and temp_buf_ keeps the rest and no more.
THEOREM AllHeardOut == ReceiverSpec => []HeardOut
<1>1. ReceiverInv => HeardOut
  <2> SUFFICES ASSUME ReceiverInv, tame, listening = "over", sock = "eof"
               PROVE  /\ pc = "recv"
                      /\ \A k \in 1..NMsg :
                           Completes(k, said) => k \in DOMAIN dispatched
                      /\ pos_ = said - Start[current]
    BY DEF HeardOut
  <2>0. TypeOK /\ Intact /\ InStep /\ Socket
    BY KeptInStep DEF ReceiverInv, IInv
  <2>1. /\ pc = "recv" /\ received = said /\ received = Start[current] + pos_
        /\ current <= NMsg => received < Start[current + 1]
    BY <2>0 DEF Socket, InStep
  <2>2. /\ current \in 1..NMsg + 1 /\ current = Len(dispatched) + 1
        /\ Start[current] \in Nat /\ pos_ \in Nat /\ NMsg \in Nat
    BY <2>0, CurrentOK, Stream DEF TypeOK
  <2>3. ASSUME NEW k \in 1..NMsg, Completes(k, said)
        PROVE  k \in DOMAIN dispatched
    <3>1. DOMAIN dispatched = 1..current - 1
      BY <2>0, <2>2, LenProperties DEF TypeOK, Delivered
    <3>2. Start[k + 1] <= received /\ Start[k + 1] \in Nat /\ received \in Nat
      BY <2>1, <2>2, <2>3, Stream, SMTT(30) DEF Completes
    <3>3. ASSUME k >= current PROVE FALSE
      <4>1. current \in 1..NMsg /\ k + 1 \in 1..NMsg + 1 /\ current < k + 1
        BY <2>2, <3>3
      <4>2. Start[current + 1] <= Start[k + 1] /\ Start[current + 1] \in Nat
        BY <4>1, Ordered, Stream
      <4> QED
        BY <2>1, <3>2, <4>1, <4>2
    <3> QED
      BY <2>2, <3>1, <3>3
  <2> QED
    BY <2>1, <2>2, <2>3
<1> QED
  BY <1>1, ReceiverInvariance, PTL
=============================================================================
