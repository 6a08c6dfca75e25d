------------------------------ MODULE Receiver ------------------------------
(***************************************************************************)
(* The receiving side as one: the thread of FixClient (RecvMsg) takes from *)
(* the socket all that has come, calls OnRecvMsg, which is OnReceiveMsg,   *)
(* and goes back to select when HandleMsg has returned.  What FixClient    *)
(* counts as said and heard are here the bytes of IncomingFraming's        *)
(* stream.  Nothing is asked of the network: two history variables say     *)
(* what it has done so far.                                                *)
(***************************************************************************)
EXTENDS IncomingFraming

VARIABLES
  is_conn_, sock, unread, wire, listening,   \* of FixClient
  said,       \* the bytes that have come
  tame,       \* history: has every recv so far been Tame
  lockstep    \* history: has the gateway so far kept each message back until
              \* all of the one before was received

Client == INSTANCE FixClient
            WITH heard <- received, SendBuf <- 0, MaxIn <- Len(Wire)

framingVars == <<temp_buf_, pos_, data, curr_pos, dispatched, pc>>
socketVars  == <<is_conn_, sock, unread, wire, listening, said>>
historyVars == <<tame, lockstep>>
receiverVars == <<vars, socketVars, historyVars>>

ReceiverInit == Init /\ Client!ClientInit /\ tame = TRUE /\ lockstep = TRUE

\* fix_client_.Init, which starts the thread.
ConnectStep ==
  /\ sock = "none"
  /\ Client!Connect
  /\ UNCHANGED <<framingVars, historyVars>>

\* What recv returns: all that has come, if recv_buf takes it.
Available == IF said - received <= RecvCap THEN said - received ELSE RecvCap

\* recv, and OnRecvMsg's call of OnReceiveMsg with what it returned.
RecvStep ==
  /\ Client!Recv
  /\ Recv(Available)
  /\ tame' = (tame /\ Tame(Available))
  /\ UNCHANGED lockstep

\* The thread is inside OnRecvMsg.
HandleStep == HandleMsg /\ UNCHANGED <<socketVars, historyVars>>

\* recv returns 0 or fails.
BrokenStep ==
  /\ pc = "recv"
  /\ Client!RecvBroken
  /\ UNCHANGED <<framingVars, historyVars>>

\* With s bytes said, nothing has come of a message behind one that is not all
\* received.
KeepsBack(s) == \A k \in 1..NMsg : received < Start[k + 1] => s <= Start[k + 1]

\* Bytes come until the gateway closes or resets the connection, which it may
\* do inside a message.
NetworkStep ==
  /\ \/ Client!Say /\ said' \in Cuts /\ lockstep' = (lockstep /\ KeepsBack(said'))
     \/ Client!Close /\ UNCHANGED lockstep
  /\ UNCHANGED <<framingVars, tame>>

ReceiverNext == ConnectStep \/ RecvStep \/ HandleStep \/ BrokenStep \/ NetworkStep

ReceiverSpec == ReceiverInit /\ [][ReceiverNext]_receiverVars

\* The thread is scheduled; the gateway and the network owe nothing.  The second
\* conjunct is WF_receiverVars(HandleStep): one of HandleMsg's rounds is enabled
\* whenever pc is "handle", which is cheaper to evaluate than ENABLED.
FairReceiverSpec ==
  /\ ReceiverSpec
  /\ WF_receiverVars(RecvStep \/ BrokenStep)
  /\ []<>(pc # "handle") \/ []<><<HandleStep>>_receiverVars

-----------------------------------------------------------------------------
(* Properties. *)

\* While every recv has been tame: when the thread has ended because the gateway
\* closed the connection, every message that came whole has reached its decoder,
\* and what temp_buf_ keeps is the beginning of the message the gateway broke
\* off, if it did.
HeardOut ==
  tame /\ listening = "over" /\ sock = "eof" =>
    /\ pc = "recv"
    /\ \A k \in 1..NMsg : Completes(k, said) => k \in DOMAIN dispatched
    /\ pos_ = said - Start[current]

\* Every message that has come whole reaches its decoder in the end, without
\* anything more having to come, unless the connection is reset or a recv is made
\* that is not tame.
AllDelivered ==
  \A k \in 1..NMsg :
    Completes(k, said) ~> (k \in DOMAIN dispatched \/ sock = "reset" \/ ~tame)

\* The gateway's closing ends the thread, unless a recv that was not tame has left
\* HandleMsg with bytes that are no message.
Ends == sock \in {"eof", "reset"} ~> (listening = "over" \/ ~tame)

\* Every message of the stream is one DecodeHeader and temp_buf_ have room for.
AllFit == \A k \in 1..NMsg : k \in Decodable /\ Length(k) <= TempCap

\* If each message comes only when all of the one before has been received, in
\* pieces cut anywhere, and all of them fit, then no recv of what happens to lie in
\* the socket can go wrong: each is tame, every message is delivered as it was
\* sent, temp_buf_ keeps exactly the rest, and no array is overrun.
LockstepIsSound ==
  AllFit /\ lockstep => tame /\ Intact /\ InStep /\ Defined
=============================================================================
