---------------------------- MODULE MCChatWidget ----------------------------
(* One proposal and two messages, so that a chat can follow another.  Two  *)
(* calls of the card meet at the server; three closings or reloads hide    *)
(* the card, show it again and leave one for a transcript load.            *)
EXTENDS ChatWidget
=============================================================================
