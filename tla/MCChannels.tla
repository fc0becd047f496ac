------------------------------ MODULE MCChannels ------------------------------
(***************************************************************************)
(* Both channels with two listed chats and a stranger.  Asking for the     *)
(* kill switch and confirming it may each happen twice, so that two chats  *)
(* can get in each other's way; one task is ordered.                       *)
(***************************************************************************)
EXTENDS Channels

MCSupply ==
  [c \in Command |-> IF c \in {"killswitch", "confirm"} THEN 2 ELSE IF c = "new" THEN 1 ELSE 0]
===============================================================================
