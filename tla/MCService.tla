----------------------------- MODULE MCService -----------------------------
(***************************************************************************)
(* The server for TLC: two visitors, two versions of the conversation and  *)
(* two commands, enough for a bootstrap and a command that starts between  *)
(* two of its writes.                                                      *)
(***************************************************************************)
EXTENDS Service, TLC

AllModes == {"serve", "forever", "iroh"}
=============================================================================
