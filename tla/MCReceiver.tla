----------------------------- MODULE MCReceiver -----------------------------
(***************************************************************************)
(* Receiver over the streams of MCFraming.                                 *)
(***************************************************************************)
EXTENDS MCFraming, Receiver

\* What has come may end between messages, one byte before the end of one, or 30
\* or 50 bytes into it.
SocketCuts == {MixedStart[k] + d : k \in DOMAIN MixedStart, d \in {-1, 0, 30, 50}}
=============================================================================
