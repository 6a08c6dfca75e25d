------------------------------- MODULE Outbox -------------------------------
(***************************************************************************)
(* What the sending side promises the gateway.  Each run of the program    *)
(* asks for Script[1], Script[2], ... in this order.  Request k, if it     *)
(* reaches the wire at all, does so once, behind the earlier ones, as a    *)
(* message of its own type whose number is FirstSeq + k - 1.               *)
(***************************************************************************)
EXTENDS Integers, Sequences

CONSTANTS Script, FirstSeq

VARIABLES run,    \* which run of the program this is
          asked,  \* how many requests of it are past
          wire    \* the messages of all runs, with whether they are whole

Init == run = 1 /\ asked = 0 /\ wire = <<>>

Skip ==
  /\ \E k \in asked + 1..Len(Script) : asked' = k
  /\ UNCHANGED <<run, wire>>

Send ==
  /\ \E k \in asked + 1..Len(Script), whole \in BOOLEAN :
       /\ asked' = k
       /\ wire' = Append(wire,
            [msg |-> [run |-> run, seq |-> FirstSeq + k - 1, type |-> Script[k]],
             whole |-> whole])
  /\ UNCHANGED run

Restart == run' = run + 1 /\ asked' = 0 /\ UNCHANGED wire

Next == Skip \/ Send \/ Restart

Spec == Init /\ [][Next]_<<run, asked, wire>>
=============================================================================
