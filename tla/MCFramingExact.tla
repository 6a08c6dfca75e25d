--------------------------- MODULE MCFramingExact ---------------------------
(***************************************************************************)
(* FramingExact on the streams of MCFraming.                               *)
(***************************************************************************)
EXTENDS FramingExact, MCFraming
=============================================================================
