---------------------------- MODULE MCChatClient ----------------------------
(***************************************************************************)
(* Small instance of ChatClient.                                           *)
(***************************************************************************)
EXTENDS ChatClient
=============================================================================
