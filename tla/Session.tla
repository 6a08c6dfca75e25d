------------------------------- MODULE Session -------------------------------
(***************************************************************************)
(* NeonMd with the gateway's side of the FIX session: one number is        *)
(* expected next, for the whole day and over all connections, because the  *)
(* Logon says ResetSeqNumFlag N.  The gateway is not in the code; it does  *)
(* what the code must count on to be understood.                           *)
(***************************************************************************)
EXTENDS NeonMd

\* A script logs on first and once, as main's does.
ASSUME LogonFirst == \A k \in 1..Len(Script) : Script[k] = LOGON <=> k = 1

VARIABLES
  nread,      \* how many messages of wire the gateway is done with
  expected,   \* the number it accepts next
  conn,       \* the run whose connection it read last, and what became of it:
              \* "new", "up" after a Logon, "refused", or "lost" bytes
  accepted    \* history: the messages it acted on

gatewayVars == <<nread, expected, conn, accepted>>
sessionVars == <<vars, gatewayVars>>

SessionInit ==
  /\ Init
  /\ nread = 0 /\ expected = FirstSeq
  /\ conn = [run |-> 0, state |-> "new"]
  /\ accepted = <<>>

-----------------------------------------------------------------------------
(* The gateway. *)

next == wire[nread + 1]

\* What the connection of the next message has come to; a run has its own.
connState == IF conn.run = next.msg.run THEN conn.state ELSE "new"

\* A number too high would be answered by a ResendRequest, which the program
\* does not answer, so that no later message of the connection counts either.
Acceptable ==
  /\ next.whole
  /\ next.msg.seq = expected
  /\ \/ connState = "up"
     \/ connState = "new" /\ next.msg.type = LOGON

\* The gateway goes on to the next message, its connection being in this state.
Reads(state) ==
  /\ nread < Len(wire)
  /\ nread' = nread + 1
  /\ conn' = [run |-> next.msg.run, state |-> state]
  /\ UNCHANGED vars

Accept ==
  /\ nread < Len(wire) /\ Acceptable
  /\ Reads("up")
  /\ expected' = expected + 1
  /\ accepted' = Append(accepted, next.msg)

Refuse ==
  /\ nread < Len(wire) /\ ~Acceptable
  /\ Reads(IF connState = "lost" THEN "lost" ELSE "refused")
  /\ UNCHANGED <<expected, accepted>>

\* Bytes on the way are lost when their connection is reset or their run over.
Lose ==
  /\ nread < Len(wire)
  /\ sock = "reset" \/ ~up \/ next.msg.run # run
  /\ Reads("lost")
  /\ UNCHANGED <<expected, accepted>>

Gateway == Accept \/ Refuse

SessionNext == Gateway \/ Lose \/ (Next /\ UNCHANGED gatewayVars)

SessionSpec == SessionInit /\ [][SessionNext]_sessionVars

\* The threads of the program as in FairSpec, and a gateway that reads.
FairSessionSpec ==
  /\ SessionSpec
  /\ WF_sessionVars(Main /\ UNCHANGED gatewayVars)
  /\ WF_sessionVars(Sender /\ UNCHANGED gatewayVars)
  /\ WF_sessionVars(Gateway)

-----------------------------------------------------------------------------
(* Properties. *)

\* Over all runs of a day, the gateway acts on the requests of one run at most:
\* on a beginning of its script without a hole, each request once.  A program
\* that crashed and is started again repeats none of them (and, its numbers
\* starting over, gets none accepted either).
OneRunServed ==
  \E r \in 1..MaxRuns :
    accepted = [k \in 1..Len(accepted) |->
                  [run |-> r, seq |-> FirstSeq + k - 1, type |-> Script[k]]]

Unsent == {k \in 1..Len(Script) : Script[k] \notin {LOGON, SECURITY_DEFINITION_REQUEST}}

\* The gateway refuses a run only if it has accepted the Logon of an earlier one:
\* provided that every request of the script is sent and the send buffer has
\* room for all, numbers and order never give it a reason.
RefusedForEarlierRun ==
  Unsent = {} /\ SendBuf >= Client!Size * Len(Script) /\ conn.state = "refused" =>
    accepted # <<>> /\ accepted[1].run < conn.run

\* The whole script of the first run is accepted in the end, if its connection is
\* made, stands and is not lost with the run.
Served ==
  Unsent = {} /\ SendBuf >= Client!Size * Len(Script) =>
    (run = 1 /\ is_conn_) ~> (Len(accepted) = Len(Script) \/ ~up \/ sock = "reset")
=============================================================================
