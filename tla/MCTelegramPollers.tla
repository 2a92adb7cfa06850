------------------------- MODULE MCTelegramPollers -------------------------
(***************************************************************************)
(* Small instances of TelegramPollers for TLC.                             *)
(***************************************************************************)
EXTENDS TelegramPollers

CONSTANTS home, ops, abc, shop, bug
=============================================================================
