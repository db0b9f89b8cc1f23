------------------------- MODULE SessionRefinement -------------------------
(***************************************************************************)
(* A session implements the shared log.  The log is the longer of the two  *)
(* records without the fault that may end it; a role has read what it has  *)
(* exchanged.  Emitting an envelope is a stutter: the log grows when the   *)
(* transport takes the envelope, and the role whose record is longer never *)
(* has to give an entry back.                                              *)
(***************************************************************************)
EXTENDS Session

Entry(e) == [state |-> e.state, frame |-> e.frame]

Ahead == CHOOSE r \in Role : Exchanged(r) >= Exchanged(Peer(r))

LogOf(r) == [i \in 1..Exchanged(r) |-> Entry(trace[r][i])]

FateOf(r) ==
  IF Faulted(r) THEN trace[r][Len(trace[r])].frame.failure
  ELSE IF status[r] \in {"running", "reported"} THEN "live" ELSE "left"

Log == INSTANCE SharedLog
         WITH log <- LogOf(Ahead),
              read <- [r \in Role |-> Exchanged(r)],
              fate <- [r \in Role |-> FateOf(r)]

\* Every behaviour of a session, seen through that mapping, is a behaviour of
\* the shared log.  This is what send_and_record and receive_and_record owe
\* the caller: whatever fails, in whatever order, each report is a prefix of
\* one walk of the conversation, ended by a failure its last state declares.
ImplementsSharedLog == Log!SharedSpec

=============================================================================
