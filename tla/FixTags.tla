------------------------------ MODULE FixTags ------------------------------
(***************************************************************************)
(* The tags of include/fix/fix_tags.h this program writes or reads, the    *)
(* two byte values that give a FIX message its shape, and the message      *)
(* types of include/fix/fix_data_type.h.  A byte is its ASCII code; a      *)
(* value is a sequence of bytes.                                           *)
(***************************************************************************)
EXTENDS Integers

SOH   == 1
EQUAL == 61      \* '='
ZERO  == 48      \* '0'
DOT   == 46      \* '.'
MINUS == 45      \* '-'
LETTER_N == 78   \* 'N'
LETTER_Y == 89   \* 'Y'

\* The SecurityType of every SecurityDefinitionRequest.
FUT == <<70, 85, 84>>

\* FIX_VER_44, "FIX.4.4"
FIX_VER_44 == <<70, 73, 88, DOT, 52, DOT, 52>>

BeginString     == 8
BodyLength      == 9
CheckSum        == 10
MsgSeqNum       == 34
MsgType         == 35
PossDupFlag     == 43
SenderCompID    == 49
SenderSubID     == 50
SendingTime     == 52
TargetCompID    == 56
TargetSubID     == 57
PossResend      == 97
EncryptMethod   == 98
HeartBtInt      == 108
OrigSendingTime == 122
BeginSeqNo      == 7
EndSeqNo        == 16
NewSeqNo        == 36
RefSeqNum       == 45
Symbol          == 55
Text            == 58
TestReqID       == 112
GapFillFlag     == 123
ResetSeqNumFlag == 141
NoRelatedSym    == 146
SecurityType    == 167
SecurityExchange == 207
MDReqID         == 262
SubscriptionRequestType == 263
MarketDepth     == 264
MDUpdateType    == 265
NoMDEntryTypes  == 267
MDEntryType     == 269
SecurityReqID   == 320
SecurityRequestType == 321
RefTagID        == 371
RefMsgType      == 372
SessionRejectReason == 373
BusinessRejectReason == 380
Username        == 553
Password        == 554

\* Message types; each is one letter.
HEART_BEAT                  == <<48>>
TEST_REQUEST                == <<49>>
RESEND_REQUEST              == <<50>>
REJECT                      == <<51>>
SEQUENCE_RESET              == <<52>>
LOGOUT                      == <<53>>
LOGON                       == <<65>>
MARKET_DATA_REQUEST         == <<86>>
MARKET_DATA_SNAPSHOT        == <<87>>
MARKET_DATA_UPDATE          == <<88>>
MARKET_DATA_REQUEST_REJECT  == <<89>>
SECURITY_DEFINITION_REQUEST == <<99>>
SECURITY_DEFINITION         == <<100>>
BUSINESS_MESSAGE_REJECT     == <<106>>
=============================================================================
