---------------------------- MODULE Conversation ----------------------------
(***************************************************************************)
(* The conversation graph of colloq: the global states an author declares, *)
(* what each role's endpoint sees of them after projection, and what a     *)
(* recorded trace must look like.  Everything here is a pure operator over *)
(* a conversation record                                                   *)
(*                                                                         *)
(*   c.roles    the set of role ids                                        *)
(*   c.initial  the id of the initial state                                *)
(*   c.states   a function from state ids to global states                 *)
(*                                                                         *)
(* which is the form the code works on once validation has made the ids    *)
(* unique (a BTreeMap from ids to states).  "x or nothing" is a set with   *)
(* at most one element throughout: Option<T> without a null.               *)
(***************************************************************************)
EXTENDS Naturals, Sequences, FiniteSets

(***************************************************************************)
(* Global states, one record shape per variant of enum GlobalState.        *)
(***************************************************************************)
SendState(from, to, message, next, onFailure) ==
  [kind |-> "send", from |-> from, to |-> to, message |-> message,
   next |-> next, on_failure |-> onFailure]

ChoiceState(chooser, branches, onFailure) ==
  [kind |-> "choice", chooser |-> chooser, branches |-> branches,
   on_failure |-> onFailure]

CancelState(from, to, scope, next, onFailure) ==
  [kind |-> "cancel", from |-> from, to |-> to, scope |-> scope,
   next |-> next, on_failure |-> onFailure]

EndState == [kind |-> "end"]

FailState(failure) == [kind |-> "fail", failure |-> failure]

\* Some(x) when the condition holds, None otherwise.
Only(condition, x) == IF condition THEN {x} ELSE {}

Terminal(g) == g.kind \in {"end", "fail"}

\* The set of states one edge away, failure edges included.
Successors(g) ==
  CASE g.kind \in {"send", "cancel"} ->
         {g.next} \cup {g.on_failure[f] : f \in DOMAIN g.on_failure}
    [] g.kind = "choice" ->
         {g.branches[l] : l \in DOMAIN g.branches}
           \cup {g.on_failure[f] : f \in DOMAIN g.on_failure}
    [] OTHER -> {}

\* Where a failure observed at g leads, if g declares it.
FailureTarget(g, failure) ==
  Only(~Terminal(g) /\ failure \in DOMAIN g.on_failure, g.on_failure[failure])

\* The role whose local action moves the conversation out of g.
Actor(g) == IF g.kind = "choice" THEN g.chooser ELSE g.from

(***************************************************************************)
(* Frames: the payload of a data frame is opaque to the protocol.          *)
(***************************************************************************)
DataFrame(from, to, message) ==
  [op |-> "data", from |-> from, to |-> to, message |-> message]

SelectFrame(by, label) == [op |-> "select", by |-> by, label |-> label]

CancelFrame(from, to, scope) ==
  [op |-> "cancel", from |-> from, to |-> to, scope |-> scope]

FaultFrame(observer, failure) ==
  [op |-> "fault", observer |-> observer, failure |-> failure]

(***************************************************************************)
(* verify_trace: one iteration of its loop gives the state that follows s  *)
(* on frame f (nothing when the frame is not permitted there), and the     *)
(* whole walk gives the final state of an accepted trace.                  *)
(***************************************************************************)
TraceStep(c, s, f) ==
  LET g == c.states[s] IN
  (IF f.op = "fault" /\ f.observer \in c.roles
     THEN FailureTarget(g, f.failure) ELSE {})
  \cup Only(/\ f.op = "data" /\ g.kind = "send"
            /\ g.from = f.from /\ g.to = f.to /\ g.message = f.message,
            g.next)
  \cup Only(/\ f.op = "select" /\ g.kind = "choice"
            /\ g.chooser = f.by /\ f.label \in DOMAIN g.branches,
            g.branches[f.label])
  \cup Only(/\ f.op = "cancel" /\ g.kind = "cancel"
            /\ g.from = f.from /\ g.to = f.to /\ g.scope = f.scope,
            g.next)

\* {final state} when verify_trace accepts the frames, {} when it does not.
VerifyTrace(c, frames) ==
  LET at[n \in 0..Len(frames)] ==
        IF n = 0 THEN {c.initial}
        ELSE UNION {TraceStep(c, s, frames[n]) : s \in at[n - 1]}
  IN  at[Len(frames)]

(***************************************************************************)
(* Projection.  A role that is not the actor of a state gets its receiving *)
(* form; the terminal states are the same for everyone.                    *)
(***************************************************************************)

\* Mutated form: both roles of a cancellation get its sending form.
ProjectStateBothCancel(g, role) ==
  CASE g.kind = "send" ->
         IF g.from = role
           THEN [kind |-> "send", to |-> g.to, message |-> g.message,
                 next |-> g.next, on_failure |-> g.on_failure]
           ELSE [kind |-> "receive", from |-> g.from, message |-> g.message,
                 next |-> g.next, on_failure |-> g.on_failure]
    [] g.kind = "choice" ->
         IF g.chooser = role
           THEN [kind |-> "select", branches |-> g.branches,
                 on_failure |-> g.on_failure]
           ELSE [kind |-> "branch", from |-> g.chooser, branches |-> g.branches,
                 on_failure |-> g.on_failure]
    [] g.kind = "cancel" ->
         [kind |-> "send_cancel", to |-> g.to, scope |-> g.scope,
          next |-> g.next, on_failure |-> g.on_failure]
    [] OTHER -> g

\* Mutated form: both roles of a choice get its receiving form.
ProjectStateBothBranch(g, role) ==
  CASE g.kind = "send" ->
         IF g.from = role
           THEN [kind |-> "send", to |-> g.to, message |-> g.message,
                 next |-> g.next, on_failure |-> g.on_failure]
           ELSE [kind |-> "receive", from |-> g.from, message |-> g.message,
                 next |-> g.next, on_failure |-> g.on_failure]
    [] g.kind = "choice" ->
         [kind |-> "branch", from |-> g.chooser, branches |-> g.branches,
          on_failure |-> g.on_failure]
    [] OTHER -> g

ProjectState(g, role) ==
  IF g.kind = "send" THEN
    IF g.from = role
      THEN [kind |-> "send", to |-> g.to, message |-> g.message,
            next |-> g.next, on_failure |-> g.on_failure]
      ELSE [kind |-> "receive", from |-> g.from, message |-> g.message,
            next |-> g.next, on_failure |-> g.on_failure]
  ELSE IF g.kind = "choice" THEN
    IF g.chooser = role
      THEN [kind |-> "select", branches |-> g.branches,
            on_failure |-> g.on_failure]
      ELSE [kind |-> "branch", from |-> g.chooser, branches |-> g.branches,
            on_failure |-> g.on_failure]
  ELSE IF g.kind = "cancel" THEN
    IF g.from = role
      THEN [kind |-> "send_cancel", to |-> g.to, scope |-> g.scope,
            next |-> g.next, on_failure |-> g.on_failure]
      ELSE [kind |-> "receive_cancel", from |-> g.from, scope |-> g.scope,
            next |-> g.next, on_failure |-> g.on_failure]
  ELSE g

Emitting == {"send", "select", "send_cancel"}
Accepting == {"receive", "branch", "receive_cancel"}

\* EndpointState::failure_target, on a projected state.
EndpointFailureTarget(e, failure) ==
  Only(e.kind \in Emitting \cup Accepting /\ failure \in DOMAIN e.on_failure,
       e.on_failure[failure])

\* The frame match of EndpointMachine::accept: where frame f takes an
\* endpoint of the given role whose projected state is e.
AcceptTarget(e, role, f) ==
  Only(/\ e.kind = "receive" /\ f.op = "data"
       /\ e.from = f.from /\ f.to = role /\ e.message = f.message,
       e.next)
  \cup Only(/\ e.kind = "branch" /\ f.op = "select"
            /\ e.from = f.by /\ f.label \in DOMAIN e.branches,
            e.branches[f.label])
  \cup Only(/\ e.kind = "receive_cancel" /\ f.op = "cancel"
            /\ e.from = f.from /\ f.to = role /\ e.scope = f.scope,
            e.next)

(***************************************************************************)
(* What validate leaves true of a conversation it accepts, as far as the   *)
(* runtime relies on it.                                                   *)
(***************************************************************************)
FailureEdgesOK(c, g) ==
  \A f \in DOMAIN g.on_failure :
    /\ g.on_failure[f] \in DOMAIN c.states
    /\ c.states[g.on_failure[f]] = FailState(f)

StateOK(c, g) ==
  \/ /\ g.kind = "send"
     /\ g = SendState(g.from, g.to, g.message, g.next, g.on_failure)
     /\ g.from \in c.roles /\ g.to \in c.roles /\ g.from # g.to
     /\ g.next \in DOMAIN c.states
     /\ FailureEdgesOK(c, g)
  \/ /\ g.kind = "choice"
     /\ g = ChoiceState(g.chooser, g.branches, g.on_failure)
     /\ g.chooser \in c.roles
     /\ \E l, m \in DOMAIN g.branches : l # m
     /\ \A l \in DOMAIN g.branches : g.branches[l] \in DOMAIN c.states
     /\ FailureEdgesOK(c, g)
  \/ /\ g.kind = "cancel"
     /\ g = CancelState(g.from, g.to, g.scope, g.next, g.on_failure)
     /\ g.from \in c.roles /\ g.to \in c.roles /\ g.from # g.to
     /\ g.next \in DOMAIN c.states
     /\ FailureEdgesOK(c, g)
  \/ g = EndState
  \/ g.kind = "fail" /\ g = FailState(g.failure)

WellFormed(c) ==
  /\ \E a, b \in c.roles : a # b /\ c.roles = {a, b}
  /\ c.initial \in DOMAIN c.states
  /\ \A s \in DOMAIN c.states : StateOK(c, c.states[s])

=============================================================================
