----------------------------- MODULE SharedLog -----------------------------
(***************************************************************************)
(* What a session promises, without machines, envelopes or a transport:    *)
(* one log of frames that is a walk through the conversation, which only   *)
(* the role whose turn it is may extend, and of which each role has read a *)
(* prefix.  A role may leave at any time, with a failure that the state it *)
(* has read up to declares or without one; what it has read stands.        *)
(*                                                                         *)
(* The log is the behaviour verify_trace accepts, so nothing here is a     *)
(* translation of runtime code: Session is shown to implement it.          *)
(***************************************************************************)
EXTENDS Conversation

CONSTANTS Conv, Failure

VARIABLES
  log,   \* the frames of the conversation, each with the state it left
  read,  \* how many of them each role has sent or received
  fate   \* "live", "left", or the failure a role has recorded

sharedVars == <<log, read, fate>>

SharedRole == Conv.roles

\* The state that follows entry n of the log.
After(n) ==
  IF n = 0 THEN {Conv.initial} ELSE TraceStep(Conv, log[n].state, log[n].frame)

SharedInit ==
  /\ log = <<>>
  /\ read = [r \in SharedRole |-> 0]
  /\ fate = [r \in SharedRole |-> "live"]

\* The frames the actor of state s may send there.
Offers(s) ==
  LET g == Conv.states[s] IN
  CASE g.kind = "send" -> {DataFrame(g.from, g.to, g.message)}
    [] g.kind = "choice" -> {SelectFrame(g.chooser, l) : l \in DOMAIN g.branches}
    [] g.kind = "cancel" -> {CancelFrame(g.from, g.to, g.scope)}
    [] OTHER -> {}

Speak(r) ==
  /\ fate[r] = "live"
  /\ read[r] = Len(log)
  /\ \E s \in After(Len(log)) :
       /\ ~Terminal(Conv.states[s])
       /\ Actor(Conv.states[s]) = r
       /\ \E f \in Offers(s) : log' = Append(log, [state |-> s, frame |-> f])
  /\ read' = [read EXCEPT ![r] = Len(log) + 1]
  /\ UNCHANGED fate

Listen(r) ==
  /\ fate[r] = "live"
  /\ read[r] < Len(log)
  /\ read' = [read EXCEPT ![r] = @ + 1]
  /\ UNCHANGED <<log, fate>>

Fail(r) ==
  /\ fate[r] = "live"
  /\ \E s \in After(read[r]) : \E f \in Failure :
       /\ FailureTarget(Conv.states[s], f) # {}
       /\ fate' = [fate EXCEPT ![r] = f]
  /\ UNCHANGED <<log, read>>

Leave(r) ==
  /\ fate[r] = "live"
  /\ fate' = [fate EXCEPT ![r] = "left"]
  /\ UNCHANGED <<log, read>>

SharedNext ==
  \E r \in SharedRole : Speak(r) \/ Listen(r) \/ Fail(r) \/ Leave(r)

SharedSpec == SharedInit /\ [][SharedNext]_sharedVars

=============================================================================
