---------------------------- MODULE MCGmailHistory ----------------------------
(* Two requests and a client on a mailbox of one message, which is a draft *)
(* or has a label of another kind.                                         *)
EXTENDS GmailHistory

CONSTANT Tag

DraftOrTag == {{Draft}, {Tag}}
=============================================================================
