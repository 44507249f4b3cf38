----------------------------- MODULE MCChatPage -----------------------------
(* Instances of ChatPage for TLC.                                           *)
EXTENDS ChatPage, TLC
=============================================================================
