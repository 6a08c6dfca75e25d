---------------------------- MODULE SessionProofs ----------------------------
(***************************************************************************)
(* However often the program is started, the gateway serves one run of it: *)
(* a second one, whose numbers start over, gets nothing accepted.          *)
(***************************************************************************)
EXTENDS Session, NeonMdProofs

\* A request of the script under the number of its place.
Placed(msg) ==
  \E k \in 1..Len(Script) :
    msg = [run |-> msg.run, seq |-> FirstSeq + k - 1, type |-> Script[k]]

\* What the wire carries, from this run and the earlier ones.
OnWire ==
  \A i \in 1..Len(wire) : wire[i].msg.run \in 1..run /\ Placed(wire[i].msg)

\* What the gateway's variables are.
GatewayTyped ==
  /\ nread \in 0..Len(wire)
  /\ expected = FirstSeq + Len(accepted)
  /\ conn \in [run : 0..run, state : {"new", "up", "refused", "lost"}]
  /\ accepted \in Seq(Messages)

\* What the gateway acted on began with a Logon, and the connection it may go on
\* with is the one that Logon came on.
Serving ==
  /\ conn.state = "up" => accepted # <<>> /\ conn.run = accepted[1].run
  /\ \A k \in 1..Len(accepted) :
       /\ k <= Len(Script)
       /\ accepted[k] = [run  |-> accepted[1].run,
                         seq  |-> FirstSeq + k - 1,
                         type |-> Script[k]]

SessionInv == GatewayTyped /\ Serving

\* NeonMd does not notice the gateway's reading.
LEMMA SessionIsNeonMd == SessionSpec => Spec
<1>1. SessionInit => Init
  BY DEF SessionInit
<1>2. [SessionNext]_sessionVars => [Next]_vars
  BY DEF SessionNext, sessionVars, Gateway, Accept, Refuse, Lose, Reads
<1> QED
  BY <1>1, <1>2, PTL DEF SessionSpec, Spec

-----------------------------------------------------------------------------

\* Requests are numbered along the script.
LEMMA AskedOK == IInv => asked \in Nat
<1> SUFFICES ASSUME IInv PROVE asked \in Nat
  OBVIOUS
<1>1. encoded \in Nat /\ (sender_pc = "send" => encoded >= 1)
  BY Counters DEF IInv, Ready
<1> QED
  BY <1>1 DEF asked

\* What one step of the sending side may do to the wire.
LEMMA WireStep ==
  ASSUME IInv, [Out!Next]_<<run, asked, wire>>
  PROVE  /\ run' = run \/ run' = run + 1
         /\ \/ wire' = wire
            \/ /\ run' = run
               /\ \E k \in 1..Len(Script), whole \in BOOLEAN :
                    wire' = Append(wire,
                      [msg   |-> [run  |-> run,
                                  seq  |-> FirstSeq + k - 1,
                                  type |-> Script[k]],
                       whole |-> whole])
<1>1. CASE Out!Send
  <2>1. PICK k \in asked + 1..Len(Script), whole \in BOOLEAN :
          wire' = Append(wire,
            [msg   |-> [run  |-> run,
                        seq  |-> FirstSeq + k - 1,
                        type |-> Script[k]],
             whole |-> whole])
    BY <1>1 DEF Out!Send
  <2>2. k \in 1..Len(Script)
    BY AskedOK, Constants
  <2> QED
    BY <1>1, <2>1, <2>2 DEF Out!Send
<1> QED
  BY <1>1 DEF Out!Next, Out!Skip, Out!Restart

\* The messages keep their places on the wire, and it gets no shorter.
LEMMA WireGrows ==
  ASSUME IInv, [Out!Next]_<<run, asked, wire>>
  PROVE  /\ Len(wire) \in Nat /\ Len(wire') \in Nat /\ Len(wire') >= Len(wire)
         /\ \A i \in 1..Len(wire) : wire'[i] = wire[i]
<1>1. wire \in Seq([msg : Messages, whole : BOOLEAN]) /\ Len(wire) \in Nat
  BY LenProperties DEF IInv, TypeOK
<1>2. CASE wire' = wire
  BY <1>1, <1>2
<1>3. ASSUME NEW e, wire' = Append(wire, e)
      PROVE  Len(wire') = Len(wire) + 1 /\ \A i \in 1..Len(wire) : wire'[i] = wire[i]
  BY <1>1, <1>3
<1>4. wire' = wire \/ \E e : wire' = Append(wire, e)
  BY WireStep
<1> QED
  BY <1>1, <1>2, <1>3, <1>4

\* A step of Outbox puts at most one request on the wire, under the number of its
\* place.
LEMMA OnWireStep ==
  ASSUME IInv, OnWire, [Out!Next]_<<run, asked, wire>>
  PROVE  OnWire'
<1>1. wire \in Seq([msg : Messages, whole : BOOLEAN]) /\ Len(wire) \in Nat
      /\ run \in Nat /\ run >= 1 /\ run' \in Nat /\ run' >= run
  BY Constants, LenProperties, WireStep DEF IInv, TypeOK
<1>2. CASE wire' = wire
  <2>1. 1..run \subseteq 1..run'
    BY <1>1
  <2> QED
    BY <1>2, <2>1 DEF OnWire
<1>3. ASSUME NEW k \in 1..Len(Script), NEW whole \in BOOLEAN, run' = run,
             wire' = Append(wire,
               [msg   |-> [run  |-> run,
                           seq  |-> FirstSeq + k - 1,
                           type |-> Script[k]],
                whole |-> whole])
      PROVE  OnWire'
  <2> DEFINE m == [run |-> run, seq |-> FirstSeq + k - 1, type |-> Script[k]]
             e == [msg |-> m, whole |-> whole]
  <2>1. /\ wire' = Append(wire, e) /\ e.msg = m /\ m.run = run
        /\ Placed(m)
    BY <1>3 DEF Placed
  <2> HIDE DEF e, m
  <2>2. /\ Len(wire') = Len(wire) + 1 /\ wire'[Len(wire) + 1] = e
        /\ \A i \in 1..Len(wire) : wire'[i] = wire[i]
    BY <1>1, <2>1
  <2>3. ASSUME NEW i \in 1..Len(wire')
        PROVE  wire'[i].msg.run \in 1..run' /\ Placed(wire'[i].msg)
    <3>1. CASE i = Len(wire) + 1
      <4>1. wire'[i].msg = m /\ run \in 1..run'
        BY <1>1, <1>3, <2>1, <2>2, <3>1
      <4> QED
        BY <2>1, <4>1
    <3>2. CASE i \in 1..Len(wire)
      BY <1>3, <2>2, <3>2 DEF OnWire
    <3> QED
      BY <1>1, <2>2, <3>1, <3>2
  <2> QED
    BY <2>3 DEF OnWire, Placed
<1> QED
  BY <1>2, <1>3, WireStep

\* Hence so it is for every message on the wire.
LEMMA WireInvariant == Spec => []OnWire
<1>1. Init => OnWire
  BY DEF Init, Client!ClientInit, OnWire
<1>2. IInv /\ OnWire /\ [Out!Next]_<<run, asked, wire>> => OnWire'
  BY OnWireStep
<1> QED
  BY <1>1, <1>2, Invariance, SenderImplementsOutbox, PTL
     DEF Spec, OrderedOnce, Out!Spec

-----------------------------------------------------------------------------
(* The gateway's steps. *)

\* What the gateway reads next is such a message.
LEMMA NextMessage ==
  ASSUME IInv, OnWire, GatewayTyped, nread < Len(wire)
  PROVE  /\ nread \in Nat /\ nread + 1 \in 0..Len(wire)
         /\ next.msg \in Messages /\ next.msg.run \in 0..run
         /\ Placed(next.msg)
<1>1. wire \in Seq([msg : Messages, whole : BOOLEAN]) /\ Len(wire) \in Nat
  BY LenProperties DEF IInv, TypeOK
<1>2. nread \in Nat /\ nread + 1 \in 1..Len(wire)
  BY <1>1 DEF GatewayTyped
<1>3. next \in [msg : Messages, whole : BOOLEAN]
  BY <1>1, <1>2, ElementOfSeq DEF next
<1>4. next.msg.run \in 1..run /\ Placed(next.msg)
  BY <1>2 DEF OnWire, next
<1> QED
  BY <1>1, <1>2, <1>3, <1>4 DEF IInv, TypeOK

\* What Acceptable demands makes the next message the next of its run's script.
LEMMA AcceptedNext ==
  ASSUME IInv, OnWire, SessionInv, nread < Len(wire), Acceptable
  PROVE  /\ Len(accepted) \in Nat /\ Len(accepted) + 1 <= Len(Script)
         /\ next.msg = [run  |-> next.msg.run,
                        seq  |-> FirstSeq + (Len(accepted) + 1) - 1,
                        type |-> Script[Len(accepted) + 1]]
         /\ accepted # <<>> => next.msg.run = accepted[1].run
<1>1. accepted \in Seq(Messages) /\ Len(accepted) \in Nat
      /\ expected = FirstSeq + Len(accepted)
  BY LenProperties DEF SessionInv, GatewayTyped
<1>2. PICK k \in 1..Len(Script) :
        next.msg = [run |-> next.msg.run, seq |-> FirstSeq + k - 1, type |-> Script[k]]
  BY NextMessage DEF SessionInv, Placed
<1>3. next.msg.seq = FirstSeq + k - 1 /\ next.msg.type = Script[k]
  BY <1>2
<1>4. k = Len(accepted) + 1
  BY <1>1, <1>3, Constants, SMTT(30) DEF Acceptable
<1>5. accepted # <<>> => next.msg.run = accepted[1].run
  <2> SUFFICES ASSUME accepted # <<>> PROVE next.msg.run = accepted[1].run
    OBVIOUS
  <2>1. Len(accepted) >= 1
    BY <1>1, EmptySeq
  <2>2. next.msg.type # LOGON
    BY <1>1, <1>3, <1>4, <2>1, LogonFirst
  <2>3. connState = "up"
    BY <2>2 DEF Acceptable
  <2>4. conn.run = next.msg.run /\ conn.state = "up"
    BY <2>3 DEF connState
  <2> QED
    BY <2>4 DEF SessionInv, Serving
<1> QED
  BY <1>1, <1>2, <1>4, <1>5, Constants

\* The gateway accepts a message.
LEMMA AcceptKeeps ==
  ASSUME IInv, OnWire, SessionInv, Accept
  PROVE  SessionInv'
<1> DEFINE n == Len(accepted)
           m == next.msg
<1>1. /\ nread < Len(wire) /\ Acceptable
      /\ nread' = nread + 1 /\ conn' = [run |-> m.run, state |-> "up"]
      /\ expected' = expected + 1 /\ accepted' = Append(accepted, m)
      /\ wire' = wire /\ run' = run
  BY DEF Accept, Reads, vars, clientVars
<1>2. /\ n \in Nat /\ n + 1 <= Len(Script) /\ Len(Script) \in Nat
      /\ m = [run |-> m.run, seq |-> FirstSeq + (n + 1) - 1, type |-> Script[n + 1]]
      /\ accepted # <<>> => m.run = accepted[1].run
  BY <1>1, AcceptedNext, Constants
<1>3. /\ accepted \in Seq(Messages) /\ expected = FirstSeq + n
      /\ m \in Messages /\ m.run \in 0..run /\ nread + 1 \in 0..Len(wire)
  BY <1>1, NextMessage DEF SessionInv, GatewayTyped
<1> HIDE DEF m
<1>4. /\ accepted' \in Seq(Messages) /\ Len(accepted') = n + 1
      /\ accepted'[n + 1] = m /\ \A k \in 1..n : accepted'[k] = accepted[k]
  BY <1>1, <1>3, AppendProperties
<1>5. GatewayTyped'
  <2>1. expected' = FirstSeq + Len(accepted')
    BY <1>1, <1>2, <1>3, <1>4, Constants
  <2>2. conn' \in [run : 0..run', state : {"new", "up", "refused", "lost"}]
    BY <1>1, <1>3
  <2> QED
    BY <1>1, <1>3, <1>4, <2>1, <2>2 DEF GatewayTyped
<1>6. accepted'[1].run = m.run
  <2>1. CASE n = 0
    BY <1>4, <2>1
  <2>2. CASE n >= 1
    <3>1. accepted # <<>> /\ accepted'[1] = accepted[1]
      BY <1>2, <1>4, <2>2
    <3> QED
      BY <1>2, <3>1
  <2> QED
    BY <1>2, <2>1, <2>2
<1>7. ASSUME NEW k \in 1..Len(accepted')
      PROVE  /\ k <= Len(Script)
             /\ accepted'[k] = [run  |-> accepted'[1].run,
                                seq  |-> FirstSeq + k - 1,
                                type |-> Script[k]]
  <2>1. CASE k = n + 1
    BY <1>2, <1>4, <1>6, <2>1
  <2>2. CASE k \in 1..n
    <3>1. m.run = accepted[1].run
      BY <1>2, <2>2
    <3> QED
      BY <1>4, <1>6, <2>2, <3>1 DEF SessionInv, Serving
  <2> QED
    BY <1>2, <1>4, <2>1, <2>2
<1>8. Serving'
  <2>1. accepted' # <<>> /\ conn'.run = accepted'[1].run
    BY <1>1, <1>2, <1>4, <1>6
  <2> QED
    BY <1>7, <2>1 DEF Serving
<1> QED
  BY <1>5, <1>8 DEF SessionInv

\* It refuses one, or one is lost on the way.
LEMMA OthersKeep ==
  ASSUME IInv, OnWire, SessionInv, Refuse \/ Lose
  PROVE  SessionInv'
<1>1. /\ nread < Len(wire) /\ nread' = nread + 1
      /\ \E state \in {"refused", "lost"} : conn' = [run |-> next.msg.run, state |-> state]
      /\ UNCHANGED <<expected, accepted, wire, run>>
  BY DEF Refuse, Lose, Reads, vars, clientVars
<1>2. nread' \in 0..Len(wire') /\ next.msg.run \in 0..run
  BY <1>1, NextMessage DEF SessionInv
<1>3. conn' \in [run : 0..run', state : {"new", "up", "refused", "lost"}]
      /\ conn'.state # "up"
  BY <1>1, <1>2
<1> QED
  BY <1>1, <1>2, <1>3 DEF SessionInv, GatewayTyped, Serving

\* The program's own steps only lengthen what the gateway has to read.
LEMMA ProgramKeeps ==
  ASSUME IInv, SessionInv, [Out!Next]_<<run, asked, wire>>, UNCHANGED gatewayVars
  PROVE  SessionInv'
<1>1. UNCHANGED <<nread, expected, conn, accepted>>
  BY DEF gatewayVars
<1>2. nread' \in 0..Len(wire')
  BY <1>1, WireGrows DEF SessionInv, GatewayTyped
<1>3. run \in Nat /\ run' \in Nat /\ run' >= run
  BY WireStep, Constants DEF IInv, TypeOK
<1>4. conn' \in [run : 0..run', state : {"new", "up", "refused", "lost"}]
  <2>1. 0..run \subseteq 0..run'
    BY <1>3
  <2> QED
    BY <1>1, <2>1 DEF SessionInv, GatewayTyped
<1> QED
  BY <1>1, <1>2, <1>4 DEF SessionInv, GatewayTyped, Serving

\* The gateway acts on a gapless beginning of one run's script.
THEOREM SessionInvariance == SessionSpec => []SessionInv
<1>1. SessionInit => SessionInv
  <2> SUFFICES ASSUME SessionInit PROVE SessionInv
    OBVIOUS
  <2>1. /\ nread = 0 /\ expected = FirstSeq /\ accepted = <<>>
        /\ conn = [run |-> 0, state |-> "new"] /\ wire = <<>> /\ run = 1
    BY DEF SessionInit, Init, Client!ClientInit
  <2> QED
    BY <2>1, Constants, EmptySeq DEF SessionInv, GatewayTyped, Serving
<1>2. /\ IInv /\ OnWire /\ SessionInv /\ [SessionNext]_sessionVars
      /\ [Out!Next]_<<run, asked, wire>>
      => SessionInv'
  <2> SUFFICES ASSUME IInv, OnWire, SessionInv, [SessionNext]_sessionVars,
                      [Out!Next]_<<run, asked, wire>>
               PROVE  SessionInv'
    OBVIOUS
  <2>1. CASE Accept
    BY <2>1, AcceptKeeps
  <2>2. CASE Refuse \/ Lose
    BY <2>2, OthersKeep
  <2>3. CASE UNCHANGED gatewayVars
    BY <2>3, ProgramKeeps
  <2> QED
    BY <2>1, <2>2, <2>3 DEF SessionNext, Gateway, sessionVars
<1> QED
  BY <1>1, <1>2, SessionIsNeonMd, Invariance, WireInvariant, SenderImplementsOutbox,
     PTL DEF SessionSpec, OrderedOnce, Out!Spec

-----------------------------------------------------------------------------
(* The theorems. *)

\* Whatever the script, the losses and the restarts, the gateway acts on a gapless
\* beginning of the script of one run, and never twice on the same request.
THEOREM OneRunIsServed == SessionSpec => []OneRunServed
<1>1. SessionInv => OneRunServed
  <2> SUFFICES ASSUME SessionInv
               PROVE  \E r \in 1..MaxRuns :
                        accepted = [k \in 1..Len(accepted) |->
                                      [run  |-> r,
                                       seq  |-> FirstSeq + k - 1,
                                       type |-> Script[k]]]
    BY DEF OneRunServed
  <2>1. /\ accepted \in Seq(Messages) /\ Len(accepted) \in Nat
        /\ accepted = [k \in 1..Len(accepted) |-> accepted[k]]
    BY LenProperties DEF SessionInv, GatewayTyped
  <2>2. CASE accepted = <<>>
    <3>1. 1 \in 1..MaxRuns
      BY Constants
    <3> WITNESS 1 \in 1..MaxRuns
    <3> QED
      BY <2>1, <2>2
  <2>3. CASE accepted # <<>>
    <3>1. 1 \in 1..Len(accepted)
      BY <2>1, <2>3, EmptySeq
    <3>2. accepted[1] \in Messages
      BY <2>1, <3>1, ElementOfSeq
    <3>3. accepted[1].run \in 1..MaxRuns
      BY <3>2 DEF Messages
    <3> WITNESS accepted[1].run \in 1..MaxRuns
    <3> QED
      BY <2>1 DEF SessionInv, Serving
  <2> QED
    BY <2>2, <2>3
<1> QED
  BY <1>1, SessionInvariance, PTL

-----------------------------------------------------------------------------
(* Why the gateway refuses, if every request is sent and the send buffer   *)
(* has room for all.                                                       *)

Regular == Unsent = {} /\ SendBuf >= Client!Size * Len(Script)

\* A message comes right behind the one before it in its run's script, or begins
\* a later run.
Follows(w, i) ==
  \/ w[i].msg.seq = FirstSeq /\ (i > 1 => w[i - 1].msg.run < w[i].msg.run)
  \/ /\ i > 1
     /\ w[i - 1].msg.run = w[i].msg.run
     /\ w[i].msg.seq = w[i - 1].msg.seq + 1

\* The wire has no cut message and no hole, and its last message is the last one
\* that is past, as long as the connection takes any.
Chain ==
  /\ \A i \in 1..Len(wire) : wire[i].whole /\ Follows(wire, i)
  /\ wire # <<>> /\ asked = 0 => wire[Len(wire)].msg.run < run
  /\ asked > 0 /\ is_conn_ /\ sock # "reset" =>
       /\ wire # <<>>
       /\ wire[Len(wire)].msg.run = run
       /\ wire[Len(wire)].msg.seq = FirstSeq + asked - 1

\* The case in which every request is sent.
LEMMA AllSent ==
  ASSUME Regular, NEW k \in 1..Len(Script) PROVE Script[k] \in Sent
BY DEF Regular, Unsent, Sent

\* What the sending side does, other than to write, leaves the chain as it is.
LEMMA ChainQuiet ==
  ASSUME Chain, asked' = asked, UNCHANGED <<run, wire>>,
         asked = 0 \/ (is_conn_' /\ sock' # "reset" => is_conn_ /\ sock # "reset")
  PROVE  Chain'
<1>1. \A i \in 1..Len(wire') : wire'[i].whole /\ Follows(wire', i)
  BY DEF Chain
<1>2. wire' # <<>> /\ asked' = 0 => wire'[Len(wire')].msg.run < run'
  BY DEF Chain
<1>3. ASSUME asked' > 0, is_conn_', sock' # "reset"
      PROVE  /\ wire' # <<>>
             /\ wire'[Len(wire')].msg.run = run'
             /\ wire'[Len(wire')].msg.seq = FirstSeq + asked' - 1
  BY <1>3 DEF Chain
<1> QED
  BY <1>1, <1>2, <1>3 DEF Chain

\* SendMsg puts the next request behind the one before it.
LEMMA ChainSend ==
  ASSUME IInv, OnWire, Roomy, Regular, Chain, Send
  PROVE  Chain'
<1>1. /\ encoded \in Nat /\ encoded >= 1 /\ encoded <= Len(Script)
      /\ asked = encoded - 1 /\ asked' = asked + 1 /\ run' = run
      /\ is_conn_' = is_conn_ /\ sock' = sock
  <2>1. /\ sender_pc = "send" /\ sender_pc' = "pop" /\ encoded' = encoded
        /\ UNCHANGED <<run, is_conn_, sock>>
    BY DEF Send, encoded, mainVars, Client!SendMsg, Client!Broken, Client!Write,
           Client!WriteFails, Client!clientVars
  <2> QED
    BY <2>1, Counters, Constants DEF IInv, Ready, asked
<1>2. /\ unread \in 0..SendBuf /\ SendBuf \in Nat /\ Len(Script) \in Nat
      /\ wire \in Seq([msg : Messages, whole : BOOLEAN]) /\ Len(wire) \in Nat
      /\ FirstSeq \in Nat
  BY Constants, LenProperties DEF IInv, TypeOK
<1>3. Message.run = run /\ Message.seq = FirstSeq + asked
  <2>1. /\ sender_pc = "send" /\ next_out_msg_seq_ \in Nat
        /\ encoded = next_out_msg_seq_ - FirstSeq
    BY <1>1, Counters DEF Send, IInv, TypeOK, encoded
  <2>2. sending.seq = next_out_msg_seq_ - 1
    BY <2>1 DEF IInv, Ready
  <2> QED
    BY <1>1, <1>2, <2>1, <2>2 DEF Message
<1>4. CASE Client!Broken \/ Client!WriteFails
  <2>1. wire' = wire /\ (~is_conn_' \/ sock' = "reset")
    BY <1>1, <1>4 DEF Client!Broken, Client!WriteFails, Client!clientVars
  <2>2. asked' # 0 /\ \A i \in 1..Len(wire') : wire'[i].whole /\ Follows(wire', i)
    BY <1>1, <2>1 DEF Chain
  <2> QED
    BY <2>1, <2>2 DEF Chain
<1>5. CASE Client!Write(Message)
  <2> DEFINE e == [msg |-> Message, whole |-> TRUE]
             n == Len(wire)
  <2>1. wire' = Append(wire, e) /\ is_conn_ /\ sock # "reset"
    <3>1. Client!Taken = Client!Size /\ Client!Size # 0
      BY <1>1, <1>2 DEF Roomy, Regular, Client!Taken, Client!Size
    <3> QED
      BY <1>5, <3>1 DEF Client!Write
  <2>2. e.whole /\ e.msg = Message
    OBVIOUS
  <2> HIDE DEF e
  <2>3. /\ Len(wire') = n + 1 /\ wire'[n + 1] = e
        /\ \A i \in 1..n : wire'[i] = wire[i]
    BY <1>2, <2>1
  <2>4. ASSUME NEW i \in 1..n PROVE wire'[i].whole /\ Follows(wire', i)
    <3>1. wire'[i] = wire[i] /\ (i > 1 => wire'[i - 1] = wire[i - 1])
      BY <1>2, <2>3
    <3> QED
      BY <3>1 DEF Chain, Follows
  <2>5. Follows(wire', n + 1)
    <3>1. n + 1 > 1 => n \in 1..n /\ (n + 1) - 1 = n /\ wire # <<>>
      BY <1>2
    <3>2. CASE asked = 0
      <4>1. n + 1 > 1 => wire'[(n + 1) - 1].msg.run < run
        BY <2>3, <3>1, <3>2 DEF Chain
      <4> QED
        BY <1>2, <1>3, <2>2, <2>3, <3>2, <4>1 DEF Follows
    <3>3. CASE asked > 0
      <4>1. /\ wire # <<>> /\ wire[n].msg.run = run
            /\ wire[n].msg.seq = FirstSeq + asked - 1
        BY <2>1, <3>3 DEF Chain
      <4>2. n + 1 > 1
        BY <1>2, <4>1, EmptySeq
      <4>3. wire'[(n + 1) - 1] = wire[n]
        BY <2>3, <3>1, <4>2
      <4> QED
        BY <1>1, <1>2, <1>3, <2>2, <2>3, <4>1, <4>2, <4>3 DEF Follows
    <3> QED
      BY <1>1, <3>2, <3>3
  <2>6. \A i \in 1..Len(wire') : wire'[i].whole /\ Follows(wire', i)
    <3>1. \A i \in 1..Len(wire') : i = n + 1 \/ i \in 1..n
      BY <1>2, <2>3
    <3> QED
      BY <2>2, <2>3, <2>4, <2>5, <3>1
  <2>7. /\ wire' # <<>> /\ wire'[Len(wire')].msg.run = run'
        /\ wire'[Len(wire')].msg.seq = FirstSeq + asked' - 1 /\ asked' # 0
    BY <1>1, <1>2, <1>3, <2>2, <2>3
  <2> QED
    BY <2>6, <2>7 DEF Chain
<1> QED
  BY <1>4, <1>5 DEF Send, Client!SendMsg

\* No other step of the program touches the wire.
LEMMA ChainStep ==
  ASSUME IInv, IInv', OnWire, Roomy, Regular, Chain, [Next]_vars
  PROVE  Chain'
<1>1. CASE Send
  BY <1>1, ChainSend
<1>2. CASE FixClientInit
  <2>1. /\ added = 0 /\ sender_pc \in {"off", "pop"} /\ encoded' = encoded
        /\ run' = run /\ wire' = wire
    BY <1>2 DEF FixClientInit, IInv, Phases, encoded, senderVars,
                Client!Connect, Client!ConnectFails, Client!clientVars
  <2>2. encoded \in Nat /\ popped = encoded /\ popped <= added
    BY <2>1, Counters
  <2>3. asked = 0 /\ asked' = asked
    BY <1>2, <2>1, <2>2 DEF asked, FixClientInit, senderVars
  <2> QED
    BY <2>1, <2>3, ChainQuiet
<1>3. CASE \/ StartSender \/ DataStoreInit \/ MessageEncodeInit \/ GetIPFails
           \/ Add \/ Wait
  <2>1. UNCHANGED <<run, wire, is_conn_, sock>>
    BY <1>3 DEF StartSender, DataStoreInit, MessageEncodeInit, GetIPFails, Add, Wait,
                Ends, clientVars
  <2>2. encoded' = encoded /\ (sender_pc = "send") = (sender_pc' = "send")
    <3>1. CASE StartSender
      BY <3>1 DEF StartSender, encoded, IInv, Phases
    <3>2. CASE DataStoreInit
      BY <3>2, Constants DEF DataStoreInit, encoded, senderVars
    <3>3. CASE MessageEncodeInit \/ Wait \/ Add \/ GetIPFails
      BY <3>3 DEF MessageEncodeInit, Wait, Add, GetIPFails, Ends, encoded,
                  mainVars, senderVars
    <3> QED
      BY <1>3, <3>1, <3>2, <3>3
  <2>3. asked' = asked
    BY <2>2 DEF asked
  <2> QED
    BY <2>1, <2>3, ChainQuiet
<1>4. CASE Pop
  BY <1>4, ChainQuiet DEF Pop, asked, encoded, mainVars, clientVars
<1>5. CASE Encode
  <2>1. /\ popped = encoded + 1 /\ encoded \in Nat /\ popped <= added
        /\ added <= Len(Script) /\ added \in Nat /\ Len(Script) \in Nat
        /\ req = Script[popped] /\ main_pc \in {"add", "wait"}
        /\ next_out_msg_seq_ \in Nat
    BY <1>5, Counters, Constants DEF Encode, IInv, Phases, Accounted, TypeOK
  <2>2. req \in Sent
    BY <2>1, AllSent
  <2>3. encoded' = encoded + 1
    BY <1>5, <2>1, Constants DEF Encode, encoded, mainVars
  <2>4. asked' = asked
    BY <1>5, <2>1, <2>2, <2>3 DEF Encode, asked
  <2> QED
    BY <1>5, <2>4, ChainQuiet DEF Encode, clientVars
<1>6. CASE RecvMsg \/ Network \/ Stops
  <2>1. asked' = asked /\ UNCHANGED <<run, wire, is_conn_>>
    BY <1>6 DEF RecvMsg, Network, Stops, WakeUp, Sigpipe, Kill, Ends, asked, encoded,
                mainVars, senderVars, clientVars,
                Client!RecvMsg, Client!Recv, Client!RecvBroken,
                Client!Network, Client!Drain, Client!Say, Client!Close
  <2>2. sock' # "reset" => sock # "reset"
    BY <1>6 DEF RecvMsg, Network, Stops, WakeUp, Sigpipe, Kill, Ends, clientVars,
                Client!RecvMsg, Client!Recv, Client!RecvBroken,
                Client!Network, Client!Drain, Client!Say, Client!Close
  <2> QED
    BY <2>1, <2>2, ChainQuiet
<1>7. CASE Restart
  <2>1. wire' = wire /\ run' = run + 1 /\ asked' = 0 /\ run \in Nat
    BY <1>7, Constants, SMTT(30) DEF Restart, Client!Restart, asked, encoded, IInv, TypeOK
  <2>2. wire # <<>> => wire[Len(wire)].msg.run \in 1..run
    <3>1. wire # <<>> => Len(wire) \in 1..Len(wire)
      BY LenProperties, EmptySeq DEF IInv, TypeOK
    <3> QED
      BY <3>1 DEF OnWire
  <2>3. wire' # <<>> => wire'[Len(wire')].msg.run < run'
    BY <2>1, <2>2
  <2>4. \A i \in 1..Len(wire') : wire'[i].whole /\ Follows(wire', i)
    BY <2>1 DEF Chain
  <2> QED
    BY <2>1, <2>3, <2>4 DEF Chain
<1>8. CASE UNCHANGED vars
  BY <1>8, ChainQuiet DEF vars, mainVars, senderVars, clientVars, asked, encoded
<1> QED
  BY <1>1, <1>2, <1>3, <1>4, <1>5, <1>6, <1>7, <1>8 DEF Next, Main, Sender

\* Hence the wire has no hole within a run.
LEMMA ChainInvariant ==
  ASSUME Regular PROVE Spec => []Chain
<1>1. Init => Chain
  BY DEF Init, Client!ClientInit, Chain, asked, encoded
<1>2. IInv /\ IInv' /\ OnWire /\ Roomy /\ Chain /\ [Next]_vars => Chain'
  BY ChainStep
<1> QED
  BY <1>1, <1>2, Invariance, WireInvariant, RoomInvariant, PTL DEF Spec

\* Where the gateway is on the wire, and why it stopped listening if it did.
Reading ==
  /\ nread = 0 => conn.run = 0 /\ conn.state = "new"
  /\ nread > 0 => conn.run = wire[nread].msg.run /\ conn.state # "new"
  /\ accepted # <<>> => accepted[1].run \in 1..conn.run
  /\ conn.state = "up" => expected = wire[nread].msg.seq + 1
  /\ conn.state = "refused" => accepted # <<>> /\ accepted[1].run < conn.run

\* The runs come one behind the other.
LEMMA NextRun ==
  ASSUME IInv, OnWire, Chain, GatewayTyped, Reading, nread < Len(wire)
  PROVE  /\ next.msg.run \in Nat /\ next.msg.run >= 1 /\ conn.run \in Nat
         /\ conn.run <= next.msg.run
         /\ next.whole /\ Follows(wire, nread + 1)
<1>1. wire \in Seq([msg : Messages, whole : BOOLEAN]) /\ Len(wire) \in Nat
      /\ run \in Nat
  BY Constants, LenProperties DEF IInv, TypeOK
<1>2. nread \in Nat /\ nread + 1 \in 1..Len(wire) /\ conn.run \in Nat
  BY <1>1 DEF GatewayTyped
<1>3. next.msg.run \in 1..run /\ next.whole /\ Follows(wire, nread + 1)
  BY <1>2 DEF OnWire, Chain, next
<1>4. conn.run <= next.msg.run
  <2>1. CASE nread = 0
    BY <1>3, <2>1 DEF Reading
  <2>2. CASE nread > 0
    <3>1. conn.run = wire[nread].msg.run /\ (nread + 1) - 1 = nread
      BY <1>2, <2>2 DEF Reading
    <3>2. next.msg.run \in Nat
      BY <1>1, <1>3
    <3>3. wire[nread].msg.run < next.msg.run \/ wire[nread].msg.run = next.msg.run
      BY <1>2, <1>3, <2>2, <3>1 DEF Follows, next
    <3> QED
      BY <1>2, <3>1, <3>2, <3>3
  <2> QED
    BY <1>2, <2>1, <2>2
<1> QED
  BY <1>1, <1>2, <1>3, <1>4

\* The gateway accepts a message, and expects the next one on its connection.
LEMMA AcceptReads ==
  ASSUME IInv, OnWire, Chain, SessionInv, SessionInv', Reading, Accept
  PROVE  Reading'
<1> DEFINE m == next.msg
<1>1. /\ nread < Len(wire) /\ Acceptable
      /\ nread' = nread + 1 /\ conn' = [run |-> m.run, state |-> "up"]
      /\ expected' = expected + 1 /\ accepted' = Append(accepted, m)
      /\ wire' = wire /\ run' = run
  BY DEF Accept, Reads, vars, clientVars
<1>2. nread \in Nat /\ wire[nread + 1].msg = m /\ m.run \in Nat /\ m.run >= 1
  BY <1>1, NextRun DEF SessionInv, GatewayTyped, next
<1> HIDE DEF m
<1>3. accepted' # <<>> /\ accepted'[1].run = m.run
  BY <1>1 DEF SessionInv, Serving
<1>4. expected = m.seq
  BY <1>1 DEF Acceptable, m
<1> QED
  BY <1>1, <1>2, <1>3, <1>4 DEF Reading

\* It refuses one, or one is lost: it is not up then.
LEMMA RefuseReads ==
  ASSUME IInv, OnWire, Chain, SessionInv, Reading, Refuse \/ Lose
  PROVE  Reading'
<1> DEFINE m == next.msg
<1>1. /\ nread < Len(wire) /\ nread' = nread + 1
      /\ UNCHANGED <<expected, accepted, wire, run>>
  BY DEF Refuse, Lose, Reads, vars, clientVars
<1>2. /\ nread \in Nat /\ wire[nread + 1].msg = m /\ m.run \in Nat /\ m.run >= 1
      /\ conn.run \in Nat /\ conn.run <= m.run
      /\ next.whole /\ Follows(wire, nread + 1)
  BY <1>1, NextRun DEF SessionInv, GatewayTyped, next
<1>3. accepted # <<>> => accepted[1].run \in 1..m.run
  <2>1. 1..conn.run \subseteq 1..m.run
    BY <1>2
  <2> QED
    BY <2>1 DEF Reading
<1>4. CASE conn' = [run |-> m.run, state |-> "lost"]
  <2> HIDE DEF m
  <2> QED
    BY <1>1, <1>2, <1>3, <1>4 DEF Reading
<1>5. CASE /\ conn' = [run |-> m.run, state |-> "refused"]
           /\ ~Acceptable /\ connState # "lost"
  <2>1. accepted # <<>> /\ accepted[1].run < m.run
    <3>1. CASE conn.run = m.run
      <4>1. nread > 0 /\ conn.run = wire[nread].msg.run
        BY <1>2, <3>1 DEF Reading
      <4>2. connState = conn.state
        BY <3>1 DEF connState
      <4>3. conn.state # "up"
        <5> SUFFICES ASSUME conn.state = "up" PROVE FALSE
          OBVIOUS
        <5>1. (nread + 1) - 1 = nread /\ nread + 1 > 1
          BY <1>2, <4>1
        <5>2. ~(wire[nread].msg.run < wire[nread + 1].msg.run)
          BY <1>2, <3>1, <4>1
        <5>3. wire[nread + 1].msg.seq = wire[nread].msg.seq + 1
          BY <1>2, <5>1, <5>2 DEF Follows
        <5>4. m.seq = expected
          BY <1>2, <5>3 DEF Reading
        <5> QED
          BY <1>2, <1>5, <4>2, <5>4 DEF Acceptable
      <4>4. conn.state = "refused"
        BY <1>5, <4>1, <4>2, <4>3 DEF Reading, SessionInv, GatewayTyped
      <4> QED
        BY <3>1, <4>4 DEF Reading
    <3>2. CASE conn.run # m.run
      <4>1. connState = "new"
        BY <3>2 DEF connState
      <4>2. m.seq = FirstSeq
        <5>1. CASE nread = 0
          BY <1>2, <5>1 DEF Follows
        <5>2. CASE nread > 0
          <6>1. (nread + 1) - 1 = nread /\ wire[nread].msg.run # m.run
            BY <1>2, <3>2, <5>2 DEF Reading
          <6> QED
            BY <1>2, <6>1 DEF Follows
        <5> QED
          BY <1>2, <5>1, <5>2
      <4>3. m.type = LOGON
        <5>1. PICK k \in 1..Len(Script) :
                m = [run |-> m.run, seq |-> FirstSeq + k - 1, type |-> Script[k]]
          BY <1>1, NextMessage DEF SessionInv, Placed
        <5>2. m.seq = FirstSeq + k - 1 /\ m.type = Script[k]
          BY <5>1
        <5>3. k = 1
          BY <4>2, <5>2, Constants
        <5> QED
          BY <5>2, <5>3, LogonFirst
      <4>4. m.seq # expected
        BY <1>2, <1>5, <4>1, <4>3 DEF Acceptable
      <4>5. accepted # <<>>
        BY <4>2, <4>4, EmptySeq, Constants DEF SessionInv, GatewayTyped
      <4>6. accepted[1].run \in 1..conn.run
        BY <4>5 DEF Reading
      <4> QED
        BY <1>2, <3>2, <4>5, <4>6
    <3> QED
      BY <3>1, <3>2
  <2> HIDE DEF m
  <2> QED
    BY <1>1, <1>2, <1>3, <1>5, <2>1 DEF Reading
<1>6. \/ conn' = [run |-> m.run, state |-> "lost"]
      \/ /\ conn' = [run |-> m.run, state |-> "refused"]
         /\ ~Acceptable /\ connState # "lost"
  BY DEF Refuse, Lose, Reads
<1> QED
  BY <1>4, <1>5, <1>6

\* The program goes on writing behind what the gateway reads.
LEMMA ProgramReads ==
  ASSUME IInv, SessionInv, Reading, [Out!Next]_<<run, asked, wire>>,
         UNCHANGED gatewayVars
  PROVE  Reading'
<1>1. UNCHANGED <<nread, expected, conn, accepted>>
  BY DEF gatewayVars
<1>2. nread \in 0..Len(wire) /\ Len(wire) \in Nat
  BY WireGrows DEF SessionInv, GatewayTyped
<1>3. nread > 0 => wire'[nread] = wire[nread]
  BY <1>2, WireGrows
<1>4. conn.state = "up" => nread > 0
  BY <1>2 DEF Reading
<1> QED
  BY <1>1, <1>3, <1>4 DEF Reading

\* Hence a gateway that is up always expects what comes next.
LEMMA ReadingInvariant ==
  ASSUME Regular PROVE SessionSpec => []Reading
<1>1. SessionInit => Reading
  BY DEF SessionInit, Reading
<1>2. /\ IInv /\ OnWire /\ Chain /\ SessionInv /\ SessionInv' /\ Reading
      /\ [SessionNext]_sessionVars /\ [Out!Next]_<<run, asked, wire>>
      => Reading'
  <2> SUFFICES ASSUME IInv, OnWire, Chain, SessionInv, SessionInv', Reading,
                      [SessionNext]_sessionVars, [Out!Next]_<<run, asked, wire>>
               PROVE  Reading'
    OBVIOUS
  <2>1. CASE Accept
    BY <2>1, AcceptReads
  <2>2. CASE Refuse \/ Lose
    BY <2>2, RefuseReads
  <2>3. CASE UNCHANGED gatewayVars
    BY <2>3, ProgramReads
  <2> QED
    BY <2>1, <2>2, <2>3 DEF SessionNext, Gateway, sessionVars
<1> QED
  BY <1>1, <1>2, SessionIsNeonMd, Invariance, WireInvariant, ChainInvariant,
     SessionInvariance, SenderImplementsOutbox, PTL
     DEF SessionSpec, OrderedOnce, Out!Spec

\* Whatever the script, if all of it is sent: the gateway refuses a run for no
\* other reason than that an earlier run of the day logged on.
THEOREM RefusedOnlyForEarlierRun == SessionSpec => []RefusedForEarlierRun
<1>1. CASE Regular
  <2>1. Reading => RefusedForEarlierRun
    BY DEF Reading, RefusedForEarlierRun
  <2> QED
    BY <1>1, <2>1, ReadingInvariant, PTL
<1>2. CASE ~Regular
  <2>1. RefusedForEarlierRun
    BY <1>2 DEF Regular, RefusedForEarlierRun
  <2> QED
    BY <2>1, PTL
<1> QED
  BY <1>1, <1>2
=============================================================================
