---------------------------- MODULE NeonMdProofs ----------------------------
(***************************************************************************)
(* Proofs about NeonMd for every script, queue capacity, send buffer and   *)
(* number of runs.                                                         *)
(***************************************************************************)
EXTENDS NeonMd, SequenceTheorems, TLAPS

\* How far main is decides what the others can see: nothing is queued before
\* Init has returned, and by then everything is initialised.
Phases ==
  /\ main_pc \notin {"start_sender", "data_store"} => next_out_msg_seq_ >= FirstSeq
  /\ main_pc \in {"client", "add", "wait"} => data_store_
  /\ main_pc \notin {"add", "wait"} => added = 0 /\ sender_pc \in {"off", "pop"}

\* The message between Encode and Send is the one of the request popped last,
\* under the number taken last.
Ready ==
  sender_pc = "send" =>
    sending.seq = next_out_msg_seq_ - 1 /\ sending.type = req /\ encoded >= 1

IInv == TypeOK /\ Phases /\ Accounted /\ Ready

\* What NeonMd assumes of its constants.
LEMMA Constants ==
  /\ Script \in Seq(Requests) /\ Len(Script) \in Nat
  /\ \A k \in 1..Len(Script) : Script[k] \in Requests
  /\ QueueCap \in Nat /\ FirstSeq \in Nat /\ FirstSeq >= 1
  /\ SendBuf \in Nat /\ MaxIn \in Nat /\ MaxRuns \in Nat /\ MaxRuns >= 1
BY NeonAssumption, ElementOfSeq, LenProperties

\* The counters of the sender thread, as numbers.
LEMMA Counters ==
  ASSUME IInv
  PROVE  /\ encoded \in Nat /\ popped \in Nat /\ popped <= added
         /\ added \in Nat /\ added <= Len(Script)
         /\ encoded = (IF main_pc \in {"start_sender", "data_store"} THEN 0
                       ELSE next_out_msg_seq_ - FirstSeq)
         /\ popped = (IF sender_pc = "handle" THEN encoded + 1 ELSE encoded)
<1>1. next_out_msg_seq_ \in Nat /\ added \in Nat /\ added <= Len(Script)
  BY Constants DEF IInv, TypeOK
<1>2. encoded \in Nat
  BY <1>1, Constants DEF IInv, Phases, encoded
<1> QED
  BY <1>1, <1>2 DEF IInv, Accounted, encoded, popped

-----------------------------------------------------------------------------
(* The queue as a piece of the script. *)

\* Adding the next request lengthens the piece at its end.
LEMMA PieceGrows ==
  ASSUME NEW p \in Nat, NEW a \in Nat, p <= a, a < Len(Script)
  PROVE  Append(SubSeq(Script, p + 1, a), Script[a + 1]) = SubSeq(Script, p + 1, a + 1)
<1>1. /\ p + 1 \in 1..Len(Script) /\ a + 1 \in p + 1..Len(Script)
      /\ (a + 1) - 1 = a
  BY Constants
<1>2. SubSeq(Script, p + 1, a + 1) = SubSeq(Script, p + 1, a) \o <<Script[a + 1]>>
  BY <1>1, Constants, SubSeqRecursiveSecond
<1>3. SubSeq(Script, p + 1, a) \in Seq(Requests)
  BY Constants, SubSeqProperties
<1>4. Script[a + 1] \in Requests
  BY <1>1, Constants
<1> QED
  BY <1>2, <1>3, <1>4, AppendIsConcat

\* Popping takes its first request.
LEMMA PieceShrinks ==
  ASSUME NEW p \in Nat, NEW a \in Nat, p <= a, a <= Len(Script),
         SubSeq(Script, p + 1, a) # <<>>
  PROVE  /\ p + 1 <= a
         /\ Head(SubSeq(Script, p + 1, a)) = Script[p + 1]
         /\ Tail(SubSeq(Script, p + 1, a)) = SubSeq(Script, p + 2, a)
         /\ Script[p + 1] \in Requests
<1>1. p + 1 <= a
  BY SubSeqEmpty
<1>2. p + 1 \in 1..Len(Script) /\ a \in p + 1..Len(Script) /\ (p + 1) + 1 = p + 2
  BY <1>1, Constants
<1> QED
  BY <1>1, <1>2, Constants, HeadTailOfSubSeq

-----------------------------------------------------------------------------
(* Every step keeps the invariant. *)

\* The globals, before main.
LEMMA InitIInv == Init => IInv
<1> SUFFICES ASSUME Init PROVE IInv
  OBVIOUS
<1> USE Constants DEF Init, Client!ClientInit
<1>1. TypeOK
  <2>1. sending \in [type : Requests \cup {<<>>}, seq : Nat] /\ run \in 1..MaxRuns
    BY DEF Nothing
  <2>2. lockfree_queue_ \in Seq(Requests)
    OBVIOUS
  <2>3. wire \in Seq([msg : Messages, whole : BOOLEAN])
    BY EmptySeq
  <2>4. unread \in 0..SendBuf /\ said \in 0..MaxIn /\ heard \in 0..said
        /\ added \in 0..Len(Script)
    OBVIOUS
  <2> HIDE DEF Init, Client!ClientInit
  <2>5. /\ up = TRUE /\ main_pc = "start_sender" /\ sender_pc = "off"
        /\ req = <<>> /\ data_store_ = FALSE /\ next_out_msg_seq_ = 0
        /\ request_id_ = 1 /\ is_conn_ = FALSE /\ sock = "none"
        /\ listening = "off"
    BY DEF Init, Client!ClientInit
  <2> QED
    BY <2>1, <2>2, <2>3, <2>4, <2>5 DEF TypeOK
<1>2. Phases /\ Ready
  BY DEF Phases, Ready
<1>3. Accounted
  <2>1. popped = 0
    BY DEF popped, encoded
  <2>2. SubSeq(Script, 0 + 1, 0) = <<>>
    BY SubSeqEmpty
  <2> QED
    BY <2>1, <2>2 DEF Accounted
<1> QED
  BY <1>1, <1>2, <1>3 DEF IInv
\* main: Init, the two Adds, the wait.
LEMMA MainKeepsIInv ==
  ASSUME IInv, Main PROVE IInv'
<1> USE Constants
<1>1. CASE StartSender
  <2> USE <1>1 DEF StartSender
  <2>1. TypeOK'
    BY DEF IInv, TypeOK, clientVars
  <2>2. Phases' /\ Ready'
    BY DEF IInv, Phases, Ready
  <2>3. encoded' = encoded /\ popped' = popped
    BY DEF IInv, Phases, encoded, popped
  <2> QED
    BY <2>1, <2>2, <2>3 DEF IInv, Accounted
<1>2. CASE DataStoreInit
  <2> USE <1>2 DEF DataStoreInit
  <2>1. TypeOK'
    BY DEF IInv, TypeOK, clientVars, senderVars
  <2>2. Phases' /\ Ready'
    BY DEF IInv, Phases, Ready, senderVars
  <2>3. encoded' = encoded /\ popped' = popped
    BY DEF encoded, popped, senderVars
  <2> QED
    BY <2>1, <2>2, <2>3 DEF IInv, Accounted, senderVars
<1>3. CASE MessageEncodeInit
  <2> USE <1>3 DEF MessageEncodeInit
  <2>1. TypeOK'
    BY DEF IInv, TypeOK, clientVars, senderVars
  <2>2. Phases' /\ Ready'
    BY DEF IInv, Phases, Ready, senderVars
  <2>3. encoded' = encoded /\ popped' = popped
    BY DEF encoded, popped, senderVars
  <2> QED
    BY <2>1, <2>2, <2>3 DEF IInv, Accounted, senderVars
<1>4. CASE GetIPFails
  BY <1>4 DEF GetIPFails, Ends, IInv, TypeOK, Phases, Accounted, Ready, encoded,
              popped, mainVars, senderVars, clientVars
<1>5. CASE FixClientInit
  <2> USE <1>5 DEF FixClientInit
  <2>1. /\ is_conn_' \in BOOLEAN /\ sock' \in {"none", "open", "eof", "reset"}
        /\ listening' \in {"off", "on", "over"}
        /\ UNCHANGED <<unread, wire, said, heard>>
    BY DEF IInv, TypeOK, Client!Connect, Client!ConnectFails, Client!clientVars
  <2>2. TypeOK'
    BY <2>1 DEF IInv, TypeOK, senderVars
  <2>3. Phases' /\ Ready'
    BY DEF IInv, Phases, Ready, senderVars
  <2>4. encoded' = encoded /\ popped' = popped
    BY DEF encoded, popped, senderVars
  <2> QED
    BY <2>2, <2>3, <2>4 DEF IInv, Accounted, senderVars
<1>6. CASE Add
  <2> USE <1>6 DEF Add
  <2>1. Script[added + 1] \in Requests
    BY Counters
  <2>2. TypeOK'
    <3>1. lockfree_queue_' \in Seq(Requests)
      BY <2>1, AppendProperties DEF IInv, TypeOK
    <3>2. added' \in 0..Len(Script)
      BY Counters
    <3> QED
      BY <3>1, <3>2 DEF IInv, TypeOK, senderVars, clientVars
  <2>3. encoded' = encoded /\ popped' = popped
    BY DEF encoded, popped, senderVars
  <2>4. Phases' /\ Ready'
    BY <2>3 DEF IInv, Phases, Ready, senderVars
  <2>5. lockfree_queue_' = SubSeq(Script, popped + 1, added + 1)
    BY Counters, PieceGrows DEF IInv, Accounted
  <2>6. Len(lockfree_queue_') <= QueueCap
    <3>1. Len(lockfree_queue_') = Len(lockfree_queue_) + 1
      BY <2>1, AppendProperties DEF IInv, TypeOK
    <3>2. Len(lockfree_queue_) \in Nat
      BY LenProperties DEF IInv, TypeOK
    <3> QED
      BY <3>1, <3>2
  <2>7. popped' <= added'
    BY <2>3, Counters
  <2>8. lockfree_queue_' = SubSeq(Script, popped' + 1, added')
    BY <2>3, <2>5
  <2>9. Accounted'
    BY <2>3, <2>6, <2>7, <2>8 DEF IInv, Accounted, senderVars
  <2> QED
    BY <2>2, <2>4, <2>9 DEF IInv
<1>7. CASE Wait
  <2> USE <1>7 DEF Wait
  <2>1. TypeOK'
    BY DEF IInv, TypeOK, senderVars, clientVars
  <2>2. Phases' /\ Ready'
    BY DEF IInv, Phases, Ready, encoded, senderVars
  <2>3. encoded' = encoded /\ popped' = popped
    BY DEF encoded, popped, senderVars
  <2> QED
    BY <2>1, <2>2, <2>3 DEF IInv, Accounted, senderVars
<1> QED
  BY <1>1, <1>2, <1>3, <1>4, <1>5, <1>6, <1>7 DEF Main
\* The sender thread takes a request from the queue.
LEMMA PopKeepsIInv ==
  ASSUME IInv, Pop PROVE IInv'
<1> USE DEF Pop
<1>1. /\ popped = encoded /\ popped \in Nat /\ added \in Nat
      /\ popped <= added /\ added <= Len(Script)
      /\ lockfree_queue_ = SubSeq(Script, popped + 1, added)
  BY Counters DEF IInv, Accounted
<1>2. /\ popped + 1 <= added /\ req' = Script[popped + 1]
      /\ req' \in Requests
      /\ lockfree_queue_' = SubSeq(Script, popped + 2, added)
  BY <1>1, PieceShrinks
<1>3. encoded' = encoded /\ popped' = popped + 1
  BY <1>1 DEF encoded, popped, mainVars
<1>4. /\ lockfree_queue_' \in Seq(Requests)
      /\ Len(lockfree_queue_') = Len(lockfree_queue_) - 1
      /\ Len(lockfree_queue_) \in Nat
  BY HeadTailProperties, LenProperties DEF IInv, TypeOK
<1>5. TypeOK'
  BY <1>2, <1>4 DEF IInv, TypeOK, mainVars, clientVars
<1>6. Phases' /\ Ready'
  <2>1. main_pc \in {"add", "wait"}
    <3>1. CASE main_pc \notin {"add", "wait"}
      BY <1>1, <1>2, <3>1 DEF IInv, Phases
    <3> QED
      BY <3>1
  <2> QED
    BY <2>1 DEF IInv, Phases, Ready, mainVars
<1>7. Accounted'
  <2>1. popped' <= added' /\ (popped + 1) + 1 = popped + 2 /\ added' = added
    BY <1>1, <1>2, <1>3 DEF mainVars
  <2>2. Len(lockfree_queue_') <= QueueCap
    BY <1>4, Constants DEF IInv, Accounted
  <2> QED
    BY <1>2, <1>3, <2>1, <2>2 DEF Accounted
<1> QED
  BY <1>5, <1>6, <1>7 DEF IInv

\* A handler takes a number and encodes the request popped last.
LEMMA EncodeKeepsIInv ==
  ASSUME IInv, Encode PROVE IInv'
<1> USE DEF Encode
<1>1. /\ main_pc \in {"add", "wait"} /\ popped = encoded + 1
      /\ encoded \in Nat /\ next_out_msg_seq_ \in Nat
      /\ encoded = next_out_msg_seq_ - FirstSeq
      /\ next_out_msg_seq_ >= FirstSeq /\ req = Script[popped]
      /\ popped <= added /\ added <= Len(Script) /\ added \in Nat
  BY Counters DEF IInv, Phases, Accounted, TypeOK
<1>2. req \in Requests
  <2>1. popped \in 1..Len(Script)
    BY <1>1, Constants
  <2> QED
    BY <1>1, <2>1, Constants
<1>3. encoded' = encoded + 1 /\ popped' = popped /\ main_pc' = main_pc
      /\ added' = added
  BY <1>1, Constants DEF encoded, popped, mainVars
<1>4. TypeOK'
  <2>1. sending' \in [type : Requests \cup {<<>>}, seq : Nat]
    BY <1>1, <1>2 DEF HeaderType, Requests
  <2>2. /\ next_out_msg_seq_' \in Nat /\ request_id_' \in Nat
        /\ sender_pc' \in {"off", "pop", "handle", "send"}
    BY <1>1 DEF IInv, TypeOK
  <2> QED
    BY <2>1, <2>2 DEF IInv, TypeOK, mainVars, clientVars
<1>5. Phases'
  BY <1>1, <1>3, Constants DEF IInv, Phases, mainVars
<1>6. Accounted'
  BY <1>3 DEF IInv, Accounted, mainVars
<1>7. Ready'
  <2> SUFFICES ASSUME sender_pc' = "send"
               PROVE  /\ sending'.seq = next_out_msg_seq_' - 1
                      /\ sending'.type = req' /\ encoded' >= 1
    BY DEF Ready
  <2>1. req \in Sent /\ req # MARKET_DATA_REQUEST
    BY DEF Sent, LOGON, SECURITY_DEFINITION_REQUEST, MARKET_DATA_REQUEST
  <2>2. sending' = [type |-> req, seq |-> next_out_msg_seq_] /\ req' = req
    BY <2>1 DEF HeaderType
  <2> QED
    BY <1>1, <1>3, <2>2
<1> QED
  BY <1>4, <1>5, <1>6, <1>7 DEF IInv

\* SendMsg leaves the connection's variables as they were, but for the send
\* buffer and what the kernel took.
LEMMA SendMsgTypes ==
  ASSUME IInv, NEW msg \in Messages, Client!SendMsg(msg)
  PROVE  /\ UNCHANGED <<is_conn_, sock, said, heard, listening>>
         /\ unread' \in 0..SendBuf
         /\ wire' \in Seq([msg : Messages, whole : BOOLEAN])
         /\ \/ wire' = wire
            \/ \E whole \in BOOLEAN :
                 wire' = Append(wire, [msg |-> msg, whole |-> whole])
<1> DEFINE taken == Client!Taken
<1>1. unread \in 0..SendBuf /\ wire \in Seq([msg : Messages, whole : BOOLEAN])
  BY DEF IInv, TypeOK
<1>2. taken \in 0..2 /\ unread + taken \in 0..SendBuf
  BY <1>1, Constants DEF Client!Taken, Client!Size
<1>3. CASE Client!Write(msg)
  <2>1. [msg |-> msg, whole |-> taken = 2] \in [msg : Messages, whole : BOOLEAN]
    OBVIOUS
  <2>2. \/ wire' = wire
        \/ wire' = Append(wire, [msg |-> msg, whole |-> taken = 2])
    BY <1>3 DEF Client!Write, Client!Size
  <2>3. unread' = unread + taken /\ UNCHANGED <<is_conn_, sock, said, heard, listening>>
    BY <1>3 DEF Client!Write
  <2>4. wire' \in Seq([msg : Messages, whole : BOOLEAN])
    <3> DEFINE S == [msg : Messages, whole : BOOLEAN]
               e == [msg |-> msg, whole |-> taken = 2]
    <3>1. e \in S /\ wire \in Seq(S) /\ (wire' = wire \/ wire' = Append(wire, e))
      BY <1>1, <2>1, <2>2
    <3> HIDE DEF S, e
    <3>2. wire' \in Seq(S)
      BY <3>1, AppendProperties
    <3> QED
      BY <3>2 DEF S
  <2> QED
    BY <1>2, <2>2, <2>3, <2>4
<1>4. CASE Client!Broken \/ Client!WriteFails
  BY <1>1, <1>4 DEF Client!Broken, Client!WriteFails, Client!clientVars
<1> QED
  BY <1>3, <1>4 DEF Client!SendMsg

\* A handler calls SendMsg, and the message is written, cut or dropped.
LEMMA SendKeepsIInv ==
  ASSUME IInv, Send PROVE IInv'
<1> USE DEF Send
<1>1. Message \in Messages
  <2>1. sending.type \in Requests
    <3>1. popped = encoded /\ encoded >= 1 /\ popped <= added /\ added <= Len(Script)
          /\ popped \in Nat /\ added \in Nat
      BY Counters DEF IInv, Ready
    <3>2. popped \in 1..Len(Script)
      BY <3>1, Constants
    <3>3. req = Script[popped] /\ sending.type = req
      BY DEF IInv, Accounted, Ready
    <3> QED
      BY <3>2, <3>3, Constants
  <2> QED
    BY <2>1 DEF IInv, TypeOK, Message, Messages
<1>2. /\ UNCHANGED <<is_conn_, sock, said, heard, listening>>
      /\ unread' \in 0..SendBuf
      /\ wire' \in Seq([msg : Messages, whole : BOOLEAN])
  BY <1>1, SendMsgTypes
<1>3. encoded' = encoded /\ popped' = popped
  BY DEF encoded, popped, mainVars
<1>4. TypeOK'
  BY <1>2 DEF IInv, TypeOK, mainVars
<1>5. Phases' /\ Ready'
  BY DEF IInv, Phases, Ready, mainVars
<1>6. Accounted'
  BY <1>3 DEF IInv, Accounted, mainVars
<1> QED
  BY <1>4, <1>5, <1>6 DEF IInv
\* The receiving thread, the network, and the end of a run.
LEMMA OthersKeepIInv ==
  ASSUME IInv, RecvMsg \/ Network \/ Stops PROVE IInv'
<1>1. TypeOK'
  <2>1. CASE RecvMsg
    <3>1. /\ listening' \in {"off", "on", "over"}
          /\ UNCHANGED <<is_conn_, sock, unread, wire, said>>
          /\ \/ heard' = heard
             \/ heard < said
                /\ heard' = IF said - heard <= RecvCap THEN said ELSE heard + RecvCap
      BY <2>1 DEF IInv, TypeOK, RecvMsg, Client!RecvMsg, Client!Recv,
                  Client!RecvBroken
    <3>2. RecvCap \in Nat /\ said \in Nat /\ heard \in 0..said
      BY NeonAssumption DEF IInv, TypeOK
    <3>3. heard' \in 0..said'
      BY <3>1, <3>2
    <3> QED
      BY <2>1, <3>1, <3>3 DEF IInv, TypeOK, RecvMsg, mainVars, senderVars
  <2>2. CASE Network
    <3>1. /\ sock' \in {"none", "open", "eof", "reset"} /\ unread' \in 0..SendBuf
          /\ said' \in 0..MaxIn /\ heard' \in 0..said'
          /\ UNCHANGED <<is_conn_, wire, listening>>
      BY <2>2, Constants, SMTT(30)
         DEF IInv, TypeOK, Network, Client!Network, Client!Drain, Client!Say,
             Client!Close
    <3> QED
      BY <2>2, <3>1 DEF IInv, TypeOK, Network, mainVars, senderVars
  <2>3. CASE Stops
    <3>1. Ends
      BY <2>3 DEF Stops, WakeUp, Sigpipe, Kill
    <3>2. /\ up' = FALSE
          /\ UNCHANGED <<run, main_pc, added, lockfree_queue_, sender_pc, req,
                         sending, request_id_, data_store_, next_out_msg_seq_>>
          /\ UNCHANGED <<is_conn_, sock, unread, wire, said, heard, listening>>
      BY <3>1 DEF Ends, mainVars, senderVars, clientVars
    <3>3. TypeOK
      BY DEF IInv
    <3>4. up' \in BOOLEAN
      BY <3>2
    <3> QED
      BY <3>2, <3>3, <3>4 DEF TypeOK
  <2> QED
    BY <2>1, <2>2, <2>3
<1>2. UNCHANGED <<main_pc, added, lockfree_queue_, sender_pc, req, sending,
                  data_store_, next_out_msg_seq_>>
  BY DEF RecvMsg, Network, Stops, WakeUp, Sigpipe, Kill, Ends, mainVars, senderVars
<1>3. encoded' = encoded /\ popped' = popped
  BY <1>2 DEF encoded, popped
<1>4. Phases' /\ Ready' /\ Accounted'
  BY <1>2, <1>3 DEF IInv, Phases, Ready, Accounted
<1> QED
  BY <1>1, <1>4 DEF IInv

\* A new run starts from the globals again.
LEMMA RestartKeepsIInv ==
  ASSUME IInv, Restart PROVE IInv'
<1> USE Constants DEF Restart, Client!Restart
<1>1. TypeOK'
  <2>1. /\ run' \in 1..MaxRuns /\ wire' \in Seq([msg : Messages, whole : BOOLEAN])
        /\ sending' \in [type : Requests \cup {<<>>}, seq : Nat]
        /\ lockfree_queue_' \in Seq(Requests)
    BY DEF IInv, TypeOK, Nothing
  <2>2. /\ up' = TRUE /\ main_pc' = "start_sender" /\ sender_pc' = "off"
        /\ req' = <<>> /\ data_store_' = FALSE /\ next_out_msg_seq_' = 0
        /\ request_id_' = 1 /\ is_conn_' = FALSE /\ sock' = "none"
        /\ listening' = "off"
    OBVIOUS
  <2>3. /\ unread' \in 0..SendBuf /\ said' \in 0..MaxIn /\ heard' \in 0..said'
        /\ added' \in 0..Len(Script)
    OBVIOUS
  <2> HIDE DEF Restart, Client!Restart
  <2> QED
    BY <2>1, <2>2, <2>3 DEF TypeOK
<1>2. Phases' /\ Ready'
  BY DEF Phases, Ready
<1>3. Accounted'
  <2>1. popped' = 0
    BY DEF popped, encoded
  <2>2. SubSeq(Script, 0 + 1, 0) = <<>>
    BY SubSeqEmpty
  <2> QED
    BY <2>1, <2>2 DEF Accounted
<1> QED
  BY <1>1, <1>2, <1>3 DEF IInv

\* The inductive invariant holds in every state, over all runs.
THEOREM Invariance == Spec => []IInv
<1>1. Init => IInv
  BY InitIInv
<1>2. IInv /\ [Next]_vars => IInv'
  <2> SUFFICES ASSUME IInv, [Next]_vars PROVE IInv'
    OBVIOUS
  <2>1. CASE Main
    BY <2>1, MainKeepsIInv
  <2>2. CASE Sender
    BY <2>2, PopKeepsIInv, EncodeKeepsIInv, SendKeepsIInv DEF Sender
  <2>3. CASE RecvMsg \/ Network \/ Stops
    BY <2>3, OthersKeepIInv
  <2>4. CASE Restart
    BY <2>4, RestartKeepsIInv
  <2>5. CASE UNCHANGED vars
    BY <2>5 DEF vars, mainVars, senderVars, clientVars, IInv, TypeOK, Phases,
                Accounted, Ready, encoded, popped
  <2> QED
    BY <2>1, <2>2, <2>3, <2>4, <2>5 DEF Next
<1> QED
  BY <1>1, <1>2, PTL DEF Spec

-----------------------------------------------------------------------------
(* The theorems. *)

\* Every variable keeps its type, whatever the threads, the network and the
\* gateway do and however often the program is run.
THEOREM TypeCorrect == Spec => []TypeOK
<1>1. IInv => TypeOK
  BY DEF IInv
<1> QED
  BY <1>1, Invariance, PTL

\* The sender thread, started first, never handles a request before everything
\* it uses is initialised.
THEOREM NothingHandledEarly == Spec => []HandledAfterInit
<1>1. IInv => HandledAfterInit
  BY DEF IInv, TypeOK, Phases, HandledAfterInit
<1> QED
  BY <1>1, Invariance, PTL

\* The queue between main and the sender thread loses, doubles and reorders no
\* request and keeps to its capacity.
THEOREM QueueIsFaithful == Spec => []Accounted
<1>1. IInv => Accounted
  BY DEF IInv
<1> QED
  BY <1>1, Invariance, PTL

\* The sending side implements Outbox: in each run every request is on the wire
\* at most once, in the script's order, with its own type and number.
THEOREM SenderImplementsOutbox == Spec => OrderedOnce
<1>1. Init => Out!Init
  BY DEF Init, Client!ClientInit, Out!Init, asked, encoded
<1>2. IInv /\ IInv' /\ [Next]_vars => [Out!Next]_<<run, asked, wire>>
  <2> SUFFICES ASSUME IInv, IInv', [Next]_vars
               PROVE  [Out!Next]_<<run, asked, wire>>
    OBVIOUS
  <2>1. CASE Main
    <3>1. run' = run /\ wire' = wire
      BY <2>1 DEF Main, StartSender, DataStoreInit, MessageEncodeInit, GetIPFails,
                  FixClientInit, Add, Wait, Ends, clientVars,
                  Client!Connect, Client!ConnectFails, Client!clientVars
    <3>2. encoded' = encoded /\ (sender_pc = "send") = (sender_pc' = "send")
      <4>1. CASE StartSender
        BY <2>1, <4>1 DEF StartSender, encoded, IInv, Phases
      <4>2. CASE DataStoreInit
        BY <4>2, Constants DEF DataStoreInit, encoded, senderVars
      <4>3. CASE MessageEncodeInit \/ FixClientInit \/ Wait \/ Add \/ GetIPFails
        BY <4>3 DEF MessageEncodeInit, FixClientInit, Wait, Add, GetIPFails, Ends,
                    encoded, mainVars, senderVars
      <4> QED
        BY <2>1, <4>1, <4>2, <4>3 DEF Main
    <3> QED
      BY <3>1, <3>2 DEF asked
  <2>2. CASE Pop
    BY <2>2 DEF Pop, asked, encoded, mainVars, clientVars
  <2>3. CASE Encode
    <3>1. /\ run' = run /\ wire' = wire /\ encoded' = encoded + 1
          /\ encoded \in Nat /\ asked = encoded
          /\ encoded + 1 <= Len(Script) /\ Len(Script) \in Nat
      <4>1. /\ main_pc \in {"add", "wait"} /\ popped = encoded + 1
            /\ popped <= added /\ added <= Len(Script) /\ encoded \in Nat
            /\ added \in Nat
        BY <2>3, Counters DEF Encode, IInv, Phases
      <4>2. encoded' = encoded + 1 /\ asked = encoded
        BY <2>3, <4>1, Constants DEF Encode, encoded, asked, mainVars, IInv, TypeOK
      <4> QED
        BY <2>3, <4>1, <4>2, Constants DEF Encode, clientVars
    <3>2. asked' = asked \/ asked' = asked + 1
      BY <3>1 DEF asked
    <3>3. asked + 1 \in asked + 1..Len(Script)
      BY <3>1
    <3> QED
      BY <3>1, <3>2, <3>3 DEF Out!Next, Out!Skip
  <2>4. CASE Send
    <3>1. /\ encoded \in Nat /\ encoded >= 1 /\ encoded <= Len(Script)
          /\ popped = encoded /\ Len(Script) \in Nat
          /\ sending.seq = next_out_msg_seq_ - 1 /\ sending.type = Script[encoded]
      <4>1. popped = encoded /\ encoded \in Nat /\ popped <= added
            /\ added <= Len(Script) /\ added \in Nat
        BY <2>4, Counters DEF Send
      <4>2. /\ encoded >= 1 /\ sending.seq = next_out_msg_seq_ - 1
            /\ sending.type = Script[popped]
        BY <2>4 DEF Send, IInv, Ready, Accounted
      <4> QED
        BY <4>1, <4>2, Constants
    <3>2. /\ run' = run /\ encoded' = encoded /\ sender_pc = "send"
          /\ sender_pc' = "pop"
      BY <2>4 DEF Send, encoded, mainVars
    <3>3. asked = encoded - 1 /\ asked' = encoded /\ asked' = asked + 1
          /\ encoded \in asked + 1..Len(Script)
      BY <3>1, <3>2 DEF asked
    <3>4. Message = [run |-> run, seq |-> FirstSeq + encoded - 1,
                     type |-> Script[encoded]]
      <4>1. encoded = next_out_msg_seq_ - FirstSeq /\ next_out_msg_seq_ \in Nat
        BY <2>4, <3>1, Constants DEF IInv, Phases, TypeOK, encoded, Send
      <4>2. next_out_msg_seq_ - 1 = FirstSeq + encoded - 1
        BY <4>1, Constants
      <4> QED
        BY <3>1, <4>2 DEF Message
    <3>5. Message \in Messages
      <4>1. Script[encoded] \in Requests
        BY <3>1, Constants
      <4>2. FirstSeq + encoded - 1 \in Nat
        BY <3>1, Constants
      <4> QED
        BY <3>4, <4>1, <4>2 DEF Messages, IInv, TypeOK
    <3>6. \/ wire' = wire
          \/ \E whole \in BOOLEAN :
               wire' = Append(wire, [msg |-> Message, whole |-> whole])
      BY <2>4, <3>5, SendMsgTypes DEF Send
    <3> QED
      BY <3>2, <3>3, <3>4, <3>6 DEF Out!Next, Out!Skip, Out!Send
  <2>5. CASE RecvMsg \/ Network \/ Stops
    BY <2>5 DEF RecvMsg, Network, Stops, WakeUp, Sigpipe, Kill, Ends, asked, encoded,
                mainVars, senderVars, clientVars,
                Client!RecvMsg, Client!Recv, Client!RecvBroken,
                Client!Network, Client!Drain, Client!Say, Client!Close
  <2>6. CASE Restart
    BY <2>6 DEF Restart, Client!Restart, Out!Next, Out!Restart, asked, encoded
  <2>7. CASE UNCHANGED vars
    BY <2>7 DEF vars, mainVars, senderVars, clientVars, asked, encoded
  <2> QED
    BY <2>1, <2>2, <2>3, <2>4, <2>5, <2>6, <2>7 DEF Next, Sender
<1> QED
  BY <1>1, <1>2, Invariance, PTL DEF Spec, OrderedOnce, Out!Spec

-----------------------------------------------------------------------------
(* With room for the whole script in the send buffer, nothing is lost.     *)

\* The requests that are past have filled the buffer with no more than their
\* messages: the next one finds room for itself.
Roomy == unread <= Client!Size * asked

\* Requests are numbered along the script.
LEMMA AskedNat ==
  ASSUME IInv PROVE asked \in Nat /\ asked <= Len(Script)
<1>1. /\ encoded \in Nat /\ encoded <= Len(Script) /\ Len(Script) \in Nat
      /\ sender_pc = "send" => encoded >= 1
  BY Counters, Constants DEF IInv, Ready
<1> QED
  BY <1>1 DEF asked

\* The steps that bring no request past, write nothing and revive no connection.
LEMMA QuietKeeps ==
  ASSUME NoneLost, Roomy, IInv, asked' = asked, UNCHANGED <<run, wire>>,
         unread' \in Nat, unread' <= unread,
         asked = 0 \/ (is_conn_' /\ sock' # "reset" => is_conn_ /\ sock # "reset")
  PROVE  NoneLost' /\ Roomy'
<1>1. asked \in Nat /\ unread \in Nat
  BY AskedNat DEF IInv, TypeOK
<1>2. Roomy'
  BY <1>1 DEF Roomy, Client!Size
<1>3. NoneLost'
  <2> SUFFICES ASSUME is_conn_', sock' # "reset",
                      SendBuf >= Client!Size * Len(Script), NEW k \in 1..asked,
                      Script[k] \in {LOGON, SECURITY_DEFINITION_REQUEST}
               PROVE  \E i \in DOMAIN wire :
                        /\ wire[i].whole
                        /\ wire[i].msg =
                             [run |-> run, seq |-> FirstSeq + k - 1, type |-> Script[k]]
    BY DEF NoneLost, Client!Size
  <2>1. is_conn_ /\ sock # "reset"
    BY <1>1
  <2> QED
    BY <2>1 DEF NoneLost
<1> QED
  BY <1>2, <1>3

\* main adds requests; nothing on the wire changes.
LEMMA MainLosesNone ==
  ASSUME NoneLost, Roomy, IInv, Main
  PROVE  NoneLost' /\ Roomy'
<1>1. run' = run /\ wire' = wire /\ unread' = unread
  BY DEF Main, StartSender, DataStoreInit, MessageEncodeInit, GetIPFails,
         FixClientInit, Add, Wait, Ends, clientVars,
         Client!Connect, Client!ConnectFails, Client!clientVars
<1>2. unread \in Nat
  BY Constants DEF IInv, TypeOK
<1>3. CASE FixClientInit
  <2>1. encoded = 0 /\ asked = 0
    <3>1. added = 0 /\ sender_pc \in {"off", "pop"}
      BY <1>3 DEF FixClientInit, IInv, Phases
    <3>2. encoded \in Nat /\ popped = encoded /\ popped <= added
      BY <3>1, Counters
    <3> QED
      BY <3>1, <3>2 DEF asked
  <2>2. asked' = asked
    BY <1>3 DEF FixClientInit, asked, encoded, senderVars
  <2> QED
    BY <1>1, <1>2, <2>1, <2>2, QuietKeeps
<1>4. CASE StartSender \/ DataStoreInit \/ MessageEncodeInit \/ GetIPFails \/ Add \/ Wait
  <2>1. is_conn_' = is_conn_ /\ sock' = sock
    BY <1>4 DEF StartSender, DataStoreInit, MessageEncodeInit, GetIPFails, Add, Wait,
                Ends, clientVars
  <2>2. encoded' = encoded /\ (sender_pc = "send") = (sender_pc' = "send")
    <3>1. CASE StartSender
      BY <3>1 DEF StartSender, encoded, IInv, Phases
    <3>2. CASE DataStoreInit
      BY <3>2, Constants DEF DataStoreInit, encoded, senderVars
    <3>3. CASE MessageEncodeInit \/ Wait \/ Add \/ GetIPFails
      BY <3>3 DEF MessageEncodeInit, Wait, Add, GetIPFails, Ends, encoded,
                  mainVars, senderVars
    <3> QED
      BY <1>4, <3>1, <3>2, <3>3
  <2>3. asked' = asked
    BY <2>2 DEF asked
  <2> QED
    BY <1>1, <1>2, <2>1, <2>3, QuietKeeps
<1> QED
  BY <1>3, <1>4 DEF Main

\* A request that is encoded is past only when it has been sent, or is not to be.
LEMMA EncodeLosesNone ==
  ASSUME NoneLost, Roomy, IInv, Encode
  PROVE  NoneLost' /\ Roomy'
<1>1. /\ UNCHANGED <<run, wire, unread, is_conn_, sock, main_pc>>
      /\ sender_pc = "handle"
  BY DEF Encode, mainVars, clientVars
<1>2. /\ encoded \in Nat /\ encoded' = encoded + 1 /\ asked = encoded
      /\ req = Script[encoded + 1] /\ unread \in Nat
  <2>1. /\ main_pc \in {"add", "wait"} /\ popped = encoded + 1 /\ encoded \in Nat
        /\ req = Script[popped] /\ next_out_msg_seq_ \in Nat /\ unread \in Nat
    BY <1>1, Counters, Constants DEF IInv, Phases, Accounted, TypeOK
  <2> QED
    BY <1>1, <2>1, Constants DEF Encode, encoded, asked
<1>3. CASE req \in Sent
  <2>1. asked' = asked
    BY <1>2, <1>3 DEF Encode, asked
  <2> QED
    BY <1>1, <1>2, <2>1, QuietKeeps
<1>4. CASE req \notin Sent
  <2>1. asked' = asked + 1
    BY <1>2, <1>4 DEF Encode, asked
  <2>2. Roomy'
    BY <1>1, <1>2, <2>1 DEF Roomy, Client!Size
  <2>3. Script[asked + 1] \notin {LOGON, SECURITY_DEFINITION_REQUEST}
    BY <1>2, <1>4 DEF Sent
  <2>4. \A k \in 1..asked' : k = asked + 1 \/ k \in 1..asked
    BY <1>2, <2>1
  <2>5. NoneLost'
    BY <1>1, <2>3, <2>4 DEF NoneLost, Client!Size
  <2> QED
    BY <2>2, <2>5
<1> QED
  BY <1>3, <1>4

\* With room for the script, write takes a message whole.
LEMMA SendLosesNone ==
  ASSUME NoneLost, Roomy, IInv, Send
  PROVE  NoneLost' /\ Roomy'
<1>1. /\ sender_pc = "send" /\ sender_pc' = "pop" /\ encoded' = encoded
      /\ UNCHANGED <<run, sending, is_conn_, sock>>
  BY DEF Send, encoded, mainVars, Client!SendMsg, Client!Broken, Client!Write,
         Client!WriteFails, Client!clientVars
<1>2. /\ encoded \in Nat /\ encoded >= 1 /\ encoded <= Len(Script)
      /\ asked = encoded - 1 /\ asked' = asked + 1
  BY <1>1, Counters, Constants DEF IInv, Ready, asked
<1>3. Message = [run |-> run, seq |-> FirstSeq + (asked + 1) - 1,
                 type |-> Script[asked + 1]]
  <2>1. /\ popped = encoded /\ sending.type = req /\ req = Script[popped]
        /\ sending.seq = next_out_msg_seq_ - 1 /\ next_out_msg_seq_ \in Nat
        /\ encoded = next_out_msg_seq_ - FirstSeq
    BY <1>1, <1>2, Counters DEF IInv, Ready, Accounted, TypeOK, encoded
  <2>2. sending.seq = FirstSeq + (asked + 1) - 1 /\ encoded = asked + 1
    BY <1>2, <2>1, Constants
  <2> QED
    BY <2>1, <2>2 DEF Message
<1>4. /\ unread \in 0..SendBuf /\ SendBuf \in Nat
      /\ wire \in Seq([msg : Messages, whole : BOOLEAN]) /\ Len(Script) \in Nat
  BY Constants DEF IInv, TypeOK
<1>5. CASE Client!Write(Message)
  <2>1. unread' = unread + Client!Taken
    BY <1>5 DEF Client!Write
  <2>2. Client!Taken \in 0..2
    BY <1>4 DEF Client!Taken, Client!Size
  <2>3. Roomy'
    BY <1>2, <1>4, <2>1, <2>2 DEF Roomy, Client!Size
  <2>4. ASSUME SendBuf >= Client!Size * Len(Script),
               NEW k \in 1..asked',
               is_conn_, sock # "reset",
               Script[k] \in {LOGON, SECURITY_DEFINITION_REQUEST}
        PROVE  \E i \in DOMAIN wire' :
                 /\ wire'[i].whole
                 /\ wire'[i].msg =
                      [run |-> run, seq |-> FirstSeq + k - 1, type |-> Script[k]]
    <3> DEFINE e == [msg |-> Message, whole |-> TRUE]
    <3>1. Client!Taken = Client!Size /\ Client!Size # 0
      BY <1>2, <1>4, <2>4 DEF Roomy, Client!Taken, Client!Size
    <3>2. wire' = Append(wire, e)
      BY <1>5, <3>1 DEF Client!Write
    <3>3. e.whole /\ e.msg = Message
      OBVIOUS
    <3> HIDE DEF e
    <3>4. /\ Len(wire) \in Nat /\ DOMAIN wire = 1..Len(wire)
          /\ DOMAIN wire' = 1..Len(wire) + 1 /\ wire'[Len(wire) + 1] = e
          /\ \A i \in 1..Len(wire) : wire'[i] = wire[i]
      BY <1>4, <3>2, LenProperties
    <3>5. CASE k = asked + 1
      <4>1. wire'[Len(wire) + 1].whole /\ Len(wire) + 1 \in DOMAIN wire'
        BY <3>3, <3>4
      <4>2. wire'[Len(wire) + 1].msg =
              [run |-> run, seq |-> FirstSeq + k - 1, type |-> Script[k]]
        BY <1>3, <3>3, <3>4, <3>5
      <4> QED
        BY <4>1, <4>2
    <3>6. CASE k \in 1..asked
      <4>1. PICK i \in DOMAIN wire :
              /\ wire[i].whole
              /\ wire[i].msg =
                   [run |-> run, seq |-> FirstSeq + k - 1, type |-> Script[k]]
        BY <2>4, <3>6 DEF NoneLost
      <4>2. i \in DOMAIN wire' /\ wire'[i] = wire[i]
        BY <3>4
      <4> QED
        BY <4>1, <4>2
    <3> QED
      BY <1>2, <3>5, <3>6
  <2>5. NoneLost'
    BY <1>1, <2>4 DEF NoneLost, Client!Size
  <2> QED
    BY <2>3, <2>5
<1>6. CASE Client!Broken \/ Client!WriteFails
  <2>1. ~is_conn_' \/ sock' = "reset"
    BY <1>6, <1>1 DEF Client!Broken, Client!WriteFails
  <2>2. unread' = unread
    BY <1>6 DEF Client!Broken, Client!WriteFails, Client!clientVars
  <2> QED
    BY <1>2, <1>4, <2>1, <2>2 DEF NoneLost, Roomy, Client!Size
<1> QED
  BY <1>5, <1>6 DEF Send, Client!SendMsg

\* NoneLost with what makes it inductive.
LEMMA RoomInvariant == Spec => [](NoneLost /\ Roomy)
<1>1. Init => NoneLost /\ Roomy
  BY DEF Init, Client!ClientInit, NoneLost, Roomy, asked, encoded, Client!Size
<1>2. IInv /\ IInv' /\ NoneLost /\ Roomy /\ [Next]_vars => NoneLost' /\ Roomy'
  <2> SUFFICES ASSUME IInv, IInv', NoneLost, Roomy, [Next]_vars
               PROVE  NoneLost' /\ Roomy'
    OBVIOUS
  <2>1. unread \in Nat /\ unread' \in Nat
    BY Constants DEF IInv, TypeOK
  <2>2. CASE Pop
    BY <2>1, <2>2, QuietKeeps DEF Pop, asked, encoded, mainVars, clientVars
  <2>3. CASE RecvMsg \/ Network \/ Stops
    <3>1. asked' = asked /\ run' = run /\ wire' = wire /\ is_conn_' = is_conn_
      BY <2>3 DEF RecvMsg, Network, Stops, WakeUp, Sigpipe, Kill, Ends, asked, encoded,
                  mainVars, senderVars, clientVars,
                  Client!RecvMsg, Client!Recv, Client!RecvBroken,
                  Client!Network, Client!Drain, Client!Say, Client!Close
    <3>2. unread' <= unread /\ (sock' # "reset" => sock # "reset")
      BY <2>1, <2>3
         DEF RecvMsg, Network, Stops, WakeUp, Sigpipe, Kill, Ends, clientVars,
             Client!RecvMsg, Client!Recv, Client!RecvBroken,
             Client!Network, Client!Drain, Client!Say, Client!Close
    <3> QED
      BY <2>1, <3>1, <3>2, QuietKeeps
  <2>4. CASE Restart
    BY <2>4 DEF Restart, Client!Restart, NoneLost, Roomy, asked, encoded, Client!Size
  <2>5. CASE UNCHANGED vars
    BY <2>1, <2>5, QuietKeeps
       DEF vars, mainVars, senderVars, clientVars, asked, encoded
  <2> QED
    BY <2>2, <2>3, <2>4, <2>5, MainLosesNone, EncodeLosesNone, SendLosesNone
       DEF Next, Sender
<1> QED
  BY <1>1, <1>2, Invariance, PTL DEF Spec

\* Every run, every script: while the connection stands and the send buffer has
\* room for the script, what is past and to be sent is on the wire, whole.
THEOREM NothingLost == Spec => []NoneLost
BY RoomInvariant, PTL

\* The message on the wire at i, and before it those of its run that are to be sent.
Behind(w, i) ==
  /\ w[i].whole
  /\ \A k \in 1..w[i].msg.seq - FirstSeq :
       Script[k] \in {LOGON, SECURITY_DEFINITION_REQUEST} =>
         \E h \in 1..i - 1 :
           w[h].msg = [run |-> w[i].msg.run, seq |-> FirstSeq + k - 1, type |-> Script[k]]

\* What SendMsg writes comes behind all that is past and to be sent.
LEMMA SendFromTheEnd ==
  ASSUME IInv, NoneLost, Roomy, SendBuf >= Client!Size * Len(Script), Send,
         \A i \in 1..Len(wire) : Behind(wire, i)
  PROVE  \A i \in 1..Len(wire') : Behind(wire', i)
<1>1. CASE Client!Broken \/ Client!WriteFails
  <2>1. wire' = wire
    BY <1>1 DEF Client!Broken, Client!WriteFails, Client!clientVars
  <2> QED
    BY <2>1
<1>2. CASE Client!Write(Message)
  <2> DEFINE e == [msg |-> Message, whole |-> TRUE]
             n == Len(wire)
  <2>1. /\ asked \in Nat /\ asked + 1 <= Len(Script) /\ Message.run = run
        /\ Message.seq - FirstSeq = asked
    <3>1. /\ sender_pc = "send" /\ popped = encoded /\ encoded \in Nat
          /\ encoded >= 1 /\ encoded <= Len(Script)
          /\ encoded = next_out_msg_seq_ - FirstSeq
          /\ sending.seq = next_out_msg_seq_ - 1 /\ next_out_msg_seq_ \in Nat
      BY Counters, Constants DEF Send, IInv, Ready, Accounted, TypeOK, encoded
    <3>2. asked = encoded - 1
      BY <3>1 DEF asked
    <3>3. Message.run = run /\ Message.seq = sending.seq
      BY DEF Message
    <3> QED
      BY <3>1, <3>2, <3>3, Constants
  <2>2. /\ unread \in 0..SendBuf /\ SendBuf \in Nat /\ Len(Script) \in Nat
        /\ wire \in Seq([msg : Messages, whole : BOOLEAN]) /\ n \in Nat
    BY Constants, LenProperties DEF IInv, TypeOK
  <2>3. wire' = Append(wire, e) /\ is_conn_ /\ sock # "reset"
    <3>1. Client!Taken = Client!Size /\ Client!Size # 0
      BY <2>1, <2>2 DEF Roomy, Client!Taken, Client!Size
    <3> QED
      BY <1>2, <3>1 DEF Client!Write
  <2>4. e.whole /\ e.msg = Message
    OBVIOUS
  <2> HIDE DEF e
  <2>5. /\ Len(wire') = n + 1 /\ wire'[n + 1] = e
        /\ \A i \in 1..n : wire'[i] = wire[i]
    BY <2>2, <2>3
  <2>6. ASSUME NEW i \in 1..n PROVE Behind(wire', i)
    <3>1. Behind(wire, i) /\ wire'[i] = wire[i] /\ n \in Nat
      BY <2>2, <2>5
    <3>2. \A h \in 1..i - 1 : wire'[h] = wire[h]
      BY <2>2, <2>5
    <3> QED
      BY <3>1, <3>2, SMTT(30) DEF Behind
  <2>7. Behind(wire', n + 1)
    <3>1. wire'[n + 1].whole /\ wire'[n + 1].msg = Message
      BY <2>4, <2>5
    <3>2. ASSUME NEW k \in 1..asked,
                 Script[k] \in {LOGON, SECURITY_DEFINITION_REQUEST}
          PROVE  \E h \in 1..n :
                   wire'[h].msg =
                     [run |-> run, seq |-> FirstSeq + k - 1, type |-> Script[k]]
      <4>1. PICK h \in DOMAIN wire :
              wire[h].msg =
                [run |-> run, seq |-> FirstSeq + k - 1, type |-> Script[k]]
        BY <2>3, <3>2 DEF NoneLost
      <4>2. h \in 1..n
        BY <2>2
      <4> QED
        BY <2>5, <4>1, <4>2
    <3>3. (n + 1) - 1 = n
      BY <2>2
    <3> QED
      BY <2>1, <3>1, <3>2, <3>3 DEF Behind
  <2>8. \A i \in 1..Len(wire') : i = n + 1 \/ i \in 1..n
    BY <2>2, <2>5
  <2> QED
    BY <2>6, <2>7, <2>8
<1> QED
  BY <1>1, <1>2 DEF Send, Client!SendMsg

\* Only SendMsg touches the wire.
LEMMA OthersLeaveWire ==
  ASSUME [Next]_vars, ~Send PROVE wire' = wire
<1>1. CASE Main
  BY <1>1 DEF Main, StartSender, DataStoreInit, MessageEncodeInit, GetIPFails,
              FixClientInit, Add, Wait, Ends, clientVars,
              Client!Connect, Client!ConnectFails, Client!clientVars
<1>2. CASE Pop \/ Encode \/ Restart
  BY <1>2 DEF Pop, Encode, Restart, clientVars, Client!Restart
<1>3. CASE RecvMsg \/ Network \/ Stops
  BY <1>3 DEF RecvMsg, Network, Stops, WakeUp, Sigpipe, Kill, Ends, clientVars,
              Client!RecvMsg, Client!Recv, Client!RecvBroken,
              Client!Network, Client!Drain, Client!Say, Client!Close
<1>4. CASE UNCHANGED vars
  BY <1>4 DEF vars, clientVars
<1> QED
  BY <1>1, <1>2, <1>3, <1>4 DEF Next, Sender

\* Every run, every script, whether or not the connection is made or stands: what is
\* lost of a run, from the buffer that has room for all, is its end.
THEOREM LosesOnlyTheEnd == Spec => []LostFromTheEnd
<1> DEFINE J == SendBuf >= Client!Size * Len(Script) =>
                  \A i \in 1..Len(wire) : Behind(wire, i)
<1>1. Init => J
  BY DEF Init, Client!ClientInit
<1>2. IInv /\ NoneLost /\ Roomy /\ J /\ [Next]_vars => J'
  <2> SUFFICES ASSUME IInv, NoneLost, Roomy, J, [Next]_vars,
                      (SendBuf >= Client!Size * Len(Script))'
               PROVE  \A i \in 1..Len(wire') : Behind(wire', i)
    BY DEF Behind
  <2>1. SendBuf >= Client!Size * Len(Script)
    BY DEF Client!Size
  <2>2. CASE Send
    BY <2>1, <2>2, SendFromTheEnd
  <2>3. CASE ~Send
    BY <2>1, <2>3, OthersLeaveWire
  <2> QED
    BY <2>2, <2>3
<1>3. IInv /\ J => LostFromTheEnd
  <2>1. ASSUME IInv PROVE DOMAIN wire = 1..Len(wire)
    BY <2>1, LenProperties DEF IInv, TypeOK
  <2> QED
    BY <2>1 DEF LostFromTheEnd, Behind
<1> HIDE DEF J
<1> QED
  BY <1>1, <1>2, <1>3, Invariance, RoomInvariant, PTL DEF Spec
=============================================================================
