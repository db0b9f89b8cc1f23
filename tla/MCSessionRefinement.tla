------------------------ MODULE MCSessionRefinement ------------------------
(***************************************************************************)
(* The refinement, on the conversations of MCSession.                      *)
(***************************************************************************)
EXTENDS SessionRefinement, MCSession
=============================================================================
