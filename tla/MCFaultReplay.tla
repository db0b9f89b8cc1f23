--------------------------- MODULE MCFaultReplay ---------------------------
(***************************************************************************)
(* Command lines to run twice.                                             *)
(***************************************************************************)
EXTENDS FaultReplay, MCGenerate

ReceiveFaults == {c \in CommandLines({"receive"}) :
                    c.tokens > 0 /\ 0 \notin c.cancel_after}
=============================================================================
