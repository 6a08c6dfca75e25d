----------------------------- MODULE FixClient -----------------------------
(***************************************************************************)
(* FixClient: one TCP connection to the gateway, written by the sender     *)
(* thread (SendMsg) and read by a thread of its own (RecvMsg, the select   *)
(* branch).  The kernel and the gateway are the environment: the send      *)
(* buffer fills and drains, the gateway speaks, closes or resets.          *)
(***************************************************************************)
EXTENDS Integers, Sequences

CONSTANTS SendBuf,   \* how much the kernel's send buffer holds
          RecvCap,   \* how much one recv returns at most (sizeof recv_buf)
          MaxIn      \* bound: how much the gateway says

\* What one message takes of the send buffer: a write can take all of it, half
\* of it or nothing.
Size == 2

VARIABLES
  is_conn_,     \* set by Init, and never again
  sock,         \* "none", "open", "eof" once the gateway closed, "reset"
  unread,       \* what is in the send buffer
  wire,         \* history: the messages the kernel took, the cut ones too
  said, heard,  \* how much the gateway said, and RecvMsg handed on
  listening     \* the receiving thread: "off", "on", or "over"

clientVars == <<is_conn_, sock, unread, wire, said, heard, listening>>

ClientInit ==
  /\ is_conn_ = FALSE /\ sock = "none" /\ unread = 0 /\ wire = <<>>
  /\ said = 0 /\ heard = 0 /\ listening = "off"

\* A new run has a socket of its own; wire is what the gateway has seen.
Restart ==
  /\ is_conn_' = FALSE /\ sock' = "none" /\ unread' = 0 /\ wire' = wire
  /\ said' = 0 /\ heard' = 0 /\ listening' = "off"

-----------------------------------------------------------------------------
(* Init. *)

\* socket or connect fails, and Init returns -1.
ConnectFails == UNCHANGED clientVars

\* The connection is up, non-blocking, and the receiving thread started.
Connect ==
  /\ is_conn_' = TRUE
  /\ sock' = "open"
  /\ listening' = "on"
  /\ UNCHANGED <<unread, wire, said, heard>>

-----------------------------------------------------------------------------
(* SendMsg. *)

Broken == ~is_conn_ /\ UNCHANGED clientVars

\* write takes what the buffer has room for; what it returns is not looked at.
Taken == IF SendBuf - unread < Size THEN SendBuf - unread ELSE Size

Write(msg) ==
  /\ is_conn_ /\ sock # "reset"
  /\ unread' = unread + Taken
  /\ wire' = IF Taken = 0 THEN wire
             ELSE Append(wire, [msg |-> msg, whole |-> Taken = Size])
  /\ UNCHANGED <<is_conn_, sock, said, heard, listening>>

\* The gateway has reset the connection: write fails.
WriteFails == is_conn_ /\ sock = "reset" /\ UNCHANGED clientVars

SendMsg(msg) == Broken \/ Write(msg) \/ WriteFails

-----------------------------------------------------------------------------
(* RecvMsg. *)

\* Mutant: OnRecvMsg is given the size of recv_buf, not what recv returned.
RecvWhole ==
  /\ listening = "on" /\ sock # "reset"
  /\ heard < said
  /\ heard' = heard + RecvCap
  /\ UNCHANGED <<is_conn_, sock, unread, wire, said, listening>>
\* recv returns all that has come, however the gateway said it, or as much of it
\* as recv_buf takes.
Recv ==
  /\ listening = "on" /\ sock # "reset"
  /\ heard < said
  /\ heard' = IF said - heard <= RecvCap THEN said ELSE heard + RecvCap
  /\ UNCHANGED <<is_conn_, sock, unread, wire, said, listening>>

\* Mutant: the thread ends at once when the gateway has closed.
RecvBrokenEarly ==
  /\ listening = "on" /\ sock \in {"reset", "eof"}
  /\ listening' = "over"
  /\ UNCHANGED <<is_conn_, sock, unread, wire, said, heard>>
\* Mutant: when recv fails, the loop goes on.
RecvBrokenByClose ==
  /\ listening = "on" /\ sock = "eof" /\ heard = said
  /\ listening' = "over"
  /\ UNCHANGED <<is_conn_, sock, unread, wire, said, heard>>
\* recv returns 0 or fails: the thread logs that the connection is broken and
\* ends.  is_conn_ stays as it is.
RecvBroken ==
  /\ listening = "on"
  /\ sock = "reset" \/ (sock = "eof" /\ heard = said)
  /\ listening' = "over"
  /\ UNCHANGED <<is_conn_, sock, unread, wire, said, heard>>

RecvMsg == Recv \/ RecvBroken

-----------------------------------------------------------------------------
(* The kernel and the gateway. *)

Drain ==
  /\ sock \in {"open", "eof"} /\ unread > 0
  /\ unread' = unread - 1
  /\ UNCHANGED <<is_conn_, sock, wire, said, heard, listening>>

Say ==
  /\ sock = "open"
  /\ \E s \in said + 1..MaxIn : said' = s
  /\ UNCHANGED <<is_conn_, sock, unread, wire, heard, listening>>

Close ==
  /\ \/ sock = "open" /\ sock' = "eof"
     \/ sock \in {"open", "eof"} /\ sock' = "reset"
  /\ UNCHANGED <<is_conn_, unread, wire, said, heard, listening>>

Network == Drain \/ Say \/ Close
=============================================================================
