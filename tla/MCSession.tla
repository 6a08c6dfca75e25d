----------------------------- MODULE MCSession -----------------------------
(***************************************************************************)
(* Scripts for Session.                                                    *)
(***************************************************************************)
EXTENDS Session, MCNeonMd

\* Requests of all four types: one that is not sent between those that are.
HoleScript ==
  <<LOGON, SECURITY_DEFINITION_REQUEST, HEART_BEAT, SECURITY_DEFINITION_REQUEST,
    MARKET_DATA_REQUEST>>
=============================================================================
