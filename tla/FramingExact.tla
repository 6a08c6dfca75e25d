---------------------------- MODULE FramingExact ----------------------------
(***************************************************************************)
(* IncomingFraming under every segmentation, with a history variable that  *)
(* says whether the last recv was Tame: Tame is then shown to be exactly   *)
(* the condition under which HandleMsg gets a recv right.                  *)
(***************************************************************************)
EXTENDS IncomingFraming

VARIABLE verdict   \* of the recv last made: "tame", "wild", or "lost" if the
                   \* receiver was already out of step when it was made

trackedVars == <<vars, verdict>>

RightSoFar == Intact /\ InStep

TrackedInit == Init /\ verdict = "tame"

TrackedRecv(n) ==
  /\ Recv(n)
  /\ verdict' = IF ~RightSoFar THEN "lost" ELSE IF Tame(n) THEN "tame" ELSE "wild"

TrackedHandle == HandleMsg /\ UNCHANGED verdict

TrackedNext == (\E n \in Pieces : TrackedRecv(n)) \/ TrackedHandle

TrackedSpec == TrackedInit /\ [][TrackedNext]_trackedVars

\* HandleMsg leaves the receiver in step, with every complete message given to
\* its decoder unchanged, after each recv that is tame and after no other.
ExactlyTame ==
  pc # "handle" =>
    /\ verdict = "tame" => RightSoFar /\ pc = "recv"
    /\ verdict = "wild" => ~RightSoFar \/ pc = "undefined"
=============================================================================
