-------------------------- MODULE MessageDelivery --------------------------
(***************************************************************************)
(* What a FIX receiver promises: of a byte stream cut anywhere, every      *)
(* message is delivered once it has arrived whole, exactly once, in order  *)
(* and byte for byte.  Message k is the bytes after Start[k] up to         *)
(* Start[k + 1]; Expected(k) is what delivering it amounts to.             *)
(***************************************************************************)
EXTENDS Integers, Sequences

CONSTANTS NMsg,         \* how many messages the stream carries
          Start,        \* Start[k] bytes of the stream come before message k
          Expected(_)   \* the delivery of message k

VARIABLES arrived,      \* bytes of the stream that have arrived
          delivered     \* what was delivered, in order

deliveryVars == <<arrived, delivered>>

Init == arrived = 0 /\ delivered = <<>>

Arrive ==
  /\ \E e \in arrived + 1..Start[NMsg + 1] : arrived' = e
  /\ UNCHANGED delivered

Deliver ==
  /\ Len(delivered) < NMsg
  /\ Start[Len(delivered) + 2] <= arrived
  /\ delivered' = Append(delivered, Expected(Len(delivered) + 1))
  /\ UNCHANGED arrived

Next == Arrive \/ Deliver

Spec == Init /\ [][Next]_deliveryVars
=============================================================================
