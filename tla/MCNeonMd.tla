------------------------------ MODULE MCNeonMd ------------------------------
(***************************************************************************)
(* Scripts for NeonMd.                                                     *)
(***************************************************************************)
EXTENDS NeonMd

\* What main adds, and with its commented lines what it could add.
MainScript == <<LOGON, SECURITY_DEFINITION_REQUEST>>
FullScript ==
  <<HEART_BEAT, LOGON, SECURITY_DEFINITION_REQUEST, MARKET_DATA_REQUEST>>
\* Two rounds of requests that are sent, around one that is not.
LongScript ==
  <<LOGON, SECURITY_DEFINITION_REQUEST, HEART_BEAT, SECURITY_DEFINITION_REQUEST>>
=============================================================================
