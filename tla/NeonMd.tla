------------------------------- MODULE NeonMd -------------------------------
(***************************************************************************)
(* neon_md_main: the main thread initialises the program while the sender  *)
(* thread it started first is already running, then adds requests to a     *)
(* bounded lock-free queue; the sender pops them, encodes each under the   *)
(* next sequence number and gives it to FixClient.  A run of the program   *)
(* may end at any time, and a new one start: nothing is kept.              *)
(***************************************************************************)
EXTENDS FixTags, Sequences

CONSTANTS
  Script,     \* the requests main adds; <<LOGON, SECURITY_DEFINITION_REQUEST>>,
              \* the commented lines of main uncommented or not
  QueueCap,   \* capacity of lockfree_queue_ (128)
  FirstSeq,   \* what data_store_.Init gives next_out_msg_seq_ (5)
  SendBuf,    \* of the kernel, in half messages
  RecvCap,    \* how much one recv returns at most
  MaxIn,      \* bound: how much the gateway says
  MaxRuns     \* bound: how many times the program is run

Requests ==
  {HEART_BEAT, LOGON, SECURITY_DEFINITION_REQUEST, MARKET_DATA_REQUEST}

ASSUME NeonAssumption ==
  /\ Script \in Seq(Requests)
  /\ QueueCap \in Nat \ {0}
  /\ FirstSeq \in Nat \ {0}
  /\ SendBuf \in Nat /\ RecvCap \in Nat \ {0} /\ MaxIn \in Nat
  /\ MaxRuns \in Nat \ {0}

VARIABLES
  run, up,            \* which run of the program this is; is it running
  main_pc,            \* what the main thread does next
  added,              \* how many requests it has added
  lockfree_queue_,
  sender_pc,          \* the sender thread: "off", "pop", "handle", "send"
  req,                \* the request it popped last
  data_store_,        \* message_encode_'s pointer: is it set
  next_out_msg_seq_,
  sending,            \* sending_data_: what the last message encoded says
  request_id_,
  is_conn_, sock, unread, wire, said, heard, listening   \* of FixClient

Client == INSTANCE FixClient

mainVars   == <<main_pc, added>>
senderVars == <<sender_pc, req, sending, request_id_>>
clientVars == <<is_conn_, sock, unread, wire, said, heard, listening>>
vars == <<run, up, mainVars, lockfree_queue_, senderVars, data_store_,
          next_out_msg_seq_, clientVars>>

Nothing == [type |-> <<>>, seq |-> 0]

\* The globals before main.
Init ==
  /\ run = 1 /\ up = TRUE
  /\ main_pc = "start_sender" /\ added = 0
  /\ lockfree_queue_ = <<>>
  /\ sender_pc = "off" /\ req = <<>>
  /\ data_store_ = FALSE /\ next_out_msg_seq_ = 0
  /\ sending = Nothing /\ request_id_ = 1
  /\ Client!ClientInit

-----------------------------------------------------------------------------
(* The main thread: Init, then one Add after the other, then cv_.wait.     *)

\* Init's detached thread: it runs before anything below is initialised.
StartSender ==
  /\ up /\ main_pc = "start_sender"
  /\ sender_pc' = "pop"
  /\ main_pc' = "data_store"
  /\ UNCHANGED <<run, up, added, lockfree_queue_, req, sending, request_id_,
                 data_store_, next_out_msg_seq_, clientVars>>

DataStoreInit ==
  /\ up /\ main_pc = "data_store"
  /\ next_out_msg_seq_' = FirstSeq
  /\ main_pc' = "encode"
  /\ UNCHANGED <<run, up, added, lockfree_queue_, senderVars, data_store_,
                 clientVars>>

MessageEncodeInit ==
  /\ up /\ main_pc = "encode"
  /\ data_store_' = TRUE
  /\ main_pc' = "client"
  /\ UNCHANGED <<run, up, added, lockfree_queue_, senderVars,
                 next_out_msg_seq_, clientVars>>

\* What ends the run: the queue and all state go with it.
Ends ==
  /\ up' = FALSE
  /\ UNCHANGED <<run, mainVars, lockfree_queue_, senderVars, data_store_,
                 next_out_msg_seq_, clientVars>>

\* getIP uses what gethostbyname returns, which is NULL if the name has no
\* address.
GetIPFails == up /\ main_pc = "client" /\ Ends

\* Mutant: while the connection is not up, Init is called again between two Adds.
FixClientInitRetried ==
  /\ up /\ main_pc \in {"client", "add"} /\ ~is_conn_
  /\ Client!Connect \/ Client!ConnectFails
  /\ main_pc' = "add"
  /\ UNCHANGED <<run, up, added, lockfree_queue_, senderVars, data_store_,
                 next_out_msg_seq_>>
\* What fix_client_.Init returns is not looked at.
FixClientInit ==
  /\ up /\ main_pc = "client"
  /\ Client!Connect \/ Client!ConnectFails
  /\ main_pc' = "add"
  /\ UNCHANGED <<run, up, added, lockfree_queue_, senderVars, data_store_,
                 next_out_msg_seq_>>

\* Mutant: main adds before Init has returned.
AddEarly ==
  /\ up /\ main_pc # "wait"
  /\ added < Len(Script)
  /\ Len(lockfree_queue_) < QueueCap
  /\ lockfree_queue_' = Append(lockfree_queue_, Script[added + 1])
  /\ added' = added + 1
  /\ UNCHANGED <<run, up, main_pc, senderVars, data_store_, next_out_msg_seq_,
                 clientVars>>
\* Mutant: push is called once, whether or not the queue is full.
AddOnce ==
  /\ up /\ main_pc = "add"
  /\ added < Len(Script)
  /\ lockfree_queue_' = IF Len(lockfree_queue_) = QueueCap THEN lockfree_queue_
                        ELSE Append(lockfree_queue_, Script[added + 1])
  /\ added' = added + 1
  /\ UNCHANGED <<run, up, main_pc, senderVars, data_store_, next_out_msg_seq_,
                 clientVars>>
\* Add spins while the queue is full.
Add ==
  /\ up /\ main_pc = "add"
  /\ added < Len(Script)
  /\ Len(lockfree_queue_) < QueueCap
  /\ lockfree_queue_' = Append(lockfree_queue_, Script[added + 1])
  /\ added' = added + 1
  /\ UNCHANGED <<run, up, main_pc, senderVars, data_store_, next_out_msg_seq_,
                 clientVars>>

Wait ==
  /\ up /\ main_pc = "add" /\ added = Len(Script)
  /\ main_pc' = "wait"
  /\ UNCHANGED <<run, up, added, lockfree_queue_, senderVars, data_store_,
                 next_out_msg_seq_, clientVars>>

\* Nothing notifies cv_, but a wait without a predicate may return by itself:
\* main returns and the other threads end with it.
WakeUp == up /\ main_pc = "wait" /\ Ends

Main ==
  \/ StartSender \/ DataStoreInit \/ MessageEncodeInit \/ GetIPFails
  \/ FixClientInit \/ Add \/ Wait

-----------------------------------------------------------------------------
(* The sender thread: messageHandle's loop and the four handlers.          *)

\* Mutant: a request is taken from the back.
PopBack ==
  /\ up /\ sender_pc = "pop" /\ lockfree_queue_ # <<>>
  /\ req' = lockfree_queue_[Len(lockfree_queue_)]
  /\ lockfree_queue_' = SubSeq(lockfree_queue_, 1, Len(lockfree_queue_) - 1)
  /\ sender_pc' = "handle"
  /\ UNCHANGED <<run, up, mainVars, sending, request_id_, data_store_,
                 next_out_msg_seq_, clientVars>>
Pop ==
  /\ up /\ sender_pc = "pop" /\ lockfree_queue_ # <<>>
  /\ req' = Head(lockfree_queue_)
  /\ lockfree_queue_' = Tail(lockfree_queue_)
  /\ sender_pc' = "handle"
  /\ UNCHANGED <<run, up, mainVars, sending, request_id_, data_store_,
                 next_out_msg_seq_, clientVars>>

\* The type a handler writes into message_header_: handleMarketDataRequest
\* writes another request's.
HeaderType(r) ==
  IF r = MARKET_DATA_REQUEST THEN SECURITY_DEFINITION_REQUEST ELSE r

\* Mutant: handleLogon encodes and stops there too.
SentButLogon == {SECURITY_DEFINITION_REQUEST}
\* handleHeartBeat and handleMarketDataRequest encode, and stop there.
Sent == {LOGON, SECURITY_DEFINITION_REQUEST}

\* Mutant: a message that is not sent takes no number.
EncodeUnnumbered ==
  /\ up /\ sender_pc = "handle"
  /\ sending' = [type |-> HeaderType(req), seq |-> next_out_msg_seq_]
  /\ next_out_msg_seq_' = IF req \in Sent THEN next_out_msg_seq_ + 1
                          ELSE next_out_msg_seq_
  /\ request_id_' = IF req = SECURITY_DEFINITION_REQUEST THEN request_id_ + 1
                    ELSE request_id_
  /\ sender_pc' = IF req \in Sent THEN "send" ELSE "pop"
  /\ UNCHANGED <<run, up, mainVars, lockfree_queue_, req, data_store_, clientVars>>
\* A handler up to its call of SendMsg: the message takes the next number from
\* the DataStore, through a pointer that message_encode_.Init sets.
Encode ==
  /\ up /\ sender_pc = "handle"
  /\ sending' = [type |-> HeaderType(req), seq |-> next_out_msg_seq_]
  /\ next_out_msg_seq_' = next_out_msg_seq_ + 1
  /\ request_id_' = IF req = SECURITY_DEFINITION_REQUEST THEN request_id_ + 1
                    ELSE request_id_
  /\ sender_pc' = IF req \in Sent THEN "send" ELSE "pop"
  /\ UNCHANGED <<run, up, mainVars, lockfree_queue_, req, data_store_, clientVars>>

Message == [run |-> run, seq |-> sending.seq, type |-> sending.type]

Send ==
  /\ up /\ sender_pc = "send"
  /\ Client!SendMsg(Message)
  /\ sender_pc' = "pop"
  /\ UNCHANGED <<run, up, mainVars, lockfree_queue_, req, sending, request_id_,
                 data_store_, next_out_msg_seq_>>

\* write on a connection the gateway has reset raises SIGPIPE.
Sigpipe == up /\ sender_pc = "send" /\ is_conn_ /\ sock = "reset" /\ Ends

Sender == Pop \/ Encode \/ Send

-----------------------------------------------------------------------------

RecvMsg ==
  /\ up
  /\ Client!RecvMsg
  /\ UNCHANGED <<run, up, mainVars, lockfree_queue_, senderVars, data_store_,
                 next_out_msg_seq_>>

Network ==
  /\ up
  /\ Client!Network
  /\ UNCHANGED <<run, up, mainVars, lockfree_queue_, senderVars, data_store_,
                 next_out_msg_seq_>>

Kill == up /\ Ends

\* A new run: every global is as the program text initialises it, the number
\* of the next message too.
Restart ==
  /\ ~up /\ run < MaxRuns
  /\ run' = run + 1
  /\ up' = TRUE
  /\ main_pc' = "start_sender" /\ added' = 0
  /\ lockfree_queue_' = <<>>
  /\ sender_pc' = "off" /\ req' = <<>>
  /\ data_store_' = FALSE /\ next_out_msg_seq_' = 0
  /\ sending' = Nothing /\ request_id_' = 1
  /\ Client!Restart

Stops == WakeUp \/ Sigpipe \/ Kill

Next == Main \/ Sender \/ RecvMsg \/ Network \/ Stops \/ Restart

Spec == Init /\ [][Next]_vars

\* The operating system gives each of the three threads its turns; main's spin
\* in Add, the sender's usleep and select return.  The gateway, the network and
\* what ends the run owe nothing.
FairSpec ==
  Spec /\ WF_vars(Main) /\ WF_vars(Sender) /\ WF_vars(RecvMsg)

-----------------------------------------------------------------------------
(* Properties. *)

\* The requests encoded in this run, and those that are past: encoded, and
\* given to SendMsg if they are to be sent.
encoded == IF main_pc \in {"start_sender", "data_store"} THEN 0
           ELSE next_out_msg_seq_ - FirstSeq
asked   == IF sender_pc = "send" THEN encoded - 1 ELSE encoded
popped  == IF sender_pc = "handle" THEN encoded + 1 ELSE encoded

Messages == [run : 1..MaxRuns, seq : Nat, type : Requests]

TypeOK ==
  /\ run \in 1..MaxRuns /\ up \in BOOLEAN
  /\ main_pc \in {"start_sender", "data_store", "encode", "client", "add", "wait"}
  /\ added \in 0..Len(Script)
  /\ lockfree_queue_ \in Seq(Requests)
  /\ sender_pc \in {"off", "pop", "handle", "send"}
  /\ req \in Requests \cup {<<>>}
  /\ data_store_ \in BOOLEAN
  /\ next_out_msg_seq_ \in Nat
  /\ sending \in [type : Requests \cup {<<>>}, seq : Nat]
  /\ request_id_ \in Nat
  /\ is_conn_ \in BOOLEAN
  /\ sock \in {"none", "open", "eof", "reset"}
  /\ unread \in 0..SendBuf
  /\ wire \in Seq([msg : Messages, whole : BOOLEAN])
  /\ said \in 0..MaxIn /\ heard \in 0..said
  /\ listening \in {"off", "on", "over"}

\* Although the sender thread is started first, it never handles a request
\* before data_store_, message_encode_ and fix_client_ are initialised: main
\* adds none until Init has returned.
HandledAfterInit ==
  sender_pc \in {"handle", "send"} =>
    data_store_ /\ next_out_msg_seq_ >= FirstSeq /\ main_pc \in {"add", "wait"}

\* What main has added is what the sender has popped and what is queued: the
\* queue drops, doubles and reorders nothing and holds no more than it can.
Accounted ==
  /\ popped <= added
  /\ lockfree_queue_ = SubSeq(Script, popped + 1, added)
  /\ Len(lockfree_queue_) <= QueueCap
  /\ sender_pc \in {"handle", "send"} => req = Script[popped]

\* The gateway sees, of each run, the requests in the order main added them,
\* each at most once, under its own type and the number of its place: a number
\* is skipped when a request is not sent, and never used again in the run.
Out == INSTANCE Outbox
OrderedOnce == Out!Spec

\* While the connection stands and its buffer can hold what the script sends,
\* no LOGON and no SECURITY_DEFINITION_REQUEST that is past is missing from
\* the wire.
NoneLost ==
  is_conn_ /\ sock # "reset" /\ SendBuf >= Client!Size * Len(Script) =>
    \A k \in 1..asked :
      Script[k] \in {LOGON, SECURITY_DEFINITION_REQUEST} =>
        \E i \in DOMAIN wire :
          /\ wire[i].whole
          /\ wire[i].msg =
               [run |-> run, seq |-> FirstSeq + k - 1, type |-> Script[k]]

\* What a run loses it loses from its end on.  A connection that was never made and
\* one that was reset drop requests without a word, each with its number; but if
\* one of the run's messages has reached the wire, whole, so has, before it, every
\* earlier one that is sent: the gateway never sees a later request without the
\* Logon.  (Provided that the send buffer can hold what the script sends.)
LostFromTheEnd ==
  SendBuf >= Client!Size * Len(Script) =>
    \A i \in DOMAIN wire :
      /\ wire[i].whole
      /\ \A k \in 1..wire[i].msg.seq - FirstSeq :
           Script[k] \in {LOGON, SECURITY_DEFINITION_REQUEST} =>
             \E h \in 1..i - 1 :
               wire[h].msg = [run  |-> wire[i].msg.run,
                              seq  |-> FirstSeq + k - 1,
                              type |-> Script[k]]

\* Every request of the script is handled in the end unless the run ends, also
\* when main has to spin in Add because the queue is full.
AllHandled ==
  \A k \in 1..Len(Script) :
    (up /\ main_pc = "add") ~> (~up \/ asked >= k)

\* What the gateway says reaches OnRecvMsg, unless the connection is reset or
\* the run ends.
AllHeard ==
  \A n \in 1..MaxIn : (said >= n) ~> (heard >= n \/ sock = "reset" \/ ~up)

\* When RecvMsg has logged that "the connection is broken", SendMsg, whose own
\* log says "The Neon connection is broken!" of is_conn_, knows it too.
BrokenIsKnown == listening = "over" => ~is_conn_

\* The message a handler encodes has the type of the request it handles:
\* handleMarketDataRequest logs its message as "MarketDataRequest".
EncodedAsAsked ==
  sender_pc \in {"pop", "send"} /\ sending # Nothing => sending.type = req
=============================================================================
