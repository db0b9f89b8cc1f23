------------------------------ MODULE Generate ------------------------------
(***************************************************************************)
(* The two token-generation drivers over a memory pair, as demo and        *)
(* fault-demo run them: run_generate_client_plan on one thread,            *)
(* run_generate_server_plan on the other, and around each transport a      *)
(* FaultInjectingTransport that fails one chosen call.                     *)
(*                                                                         *)
(* Session gives every step of machines, records and channels; this module *)
(* says which of them the drivers and the injector take, and when.  The    *)
(* position of a driver in its own code (at) is kept apart from the state  *)
(* of its machine: that the two stay in step is a property, not a guard.   *)
(***************************************************************************)
EXTENDS Session

CONSTANT Config   \* the command lines: [tokens, cancel_after, fault]

Client == "client"
Server == "server"

VARIABLES
  config,     \* the command line of this run
  at,         \* the call each driver makes next
  tokens,     \* how many tokens each driver has pushed
  calls,      \* the counters of each FaultInjectingTransport
  fired,      \* the flag both transports share
  injecting   \* whether a role is inside a call that was chosen to fail

genVars == <<config, at, tokens, calls, fired, injecting>>
allVars == <<vars, genVars>>

ASSUME RolesAssumption == Role = {Client, Server}

\* The conversation is the one the drivers are written for, examples/generate.colloqconv.json:
\* every state that waits for a role has the same failure edges, and a closed
\* transport is among them.  The transport is a memory pair.
Driven == {"start", "decide", "emit-token", "client-action", "cancel", "end"}
FailureEdges == Conv.states["start"].on_failure

ASSUME GenerateAssumption ==
  /\ ~Network
  /\ Conv.initial = "start"
  /\ Driven \subseteq State
  /\ Conv.states["start"] = SendState(Client, Server, "prompt", "decide", FailureEdges)
  /\ Conv.states["decide"] = ChoiceState(Server,
       [l \in {"token", "done"} |-> IF l = "token" THEN "emit-token" ELSE "end"], FailureEdges)
  /\ Conv.states["emit-token"] = SendState(Server, Client, "token", "client-action", FailureEdges)
  /\ Conv.states["client-action"] = ChoiceState(Client,
       [l \in {"continue", "cancel"} |-> IF l = "continue" THEN "decide" ELSE "cancel"],
       FailureEdges)
  /\ Conv.states["cancel"] = CancelState(Client, Server, "generation", "end", FailureEdges)
  /\ Conv.states["end"] = EndState
  /\ \A s \in State \ Driven : Conv.states[s].kind = "fail"
  /\ Closed \in DOMAIN FailureEdges

\* A command line names numbers, at most one limit and at most one fault, and a fault
\* at most one failure for the peer.
ASSUME ConfigAssumption ==
  \A c \in Config :
    /\ c.tokens \in Nat /\ c.cancel_after \subseteq Nat
    /\ \A l, m \in c.cancel_after : l = m
    /\ \A p, q \in c.fault : p = q
    /\ \A p \in c.fault : /\ p.operation \in {"send", "receive"} /\ p.occurrence \in Nat
                          /\ \A f, g \in p.peer_failure : f = g

(***************************************************************************)
(* run_memory_plan_fault_demo refuses a fault no state declares, and       *)
(* with_fired an occurrence of zero; both before any worker starts.        *)
(***************************************************************************)
Declared(failure) ==
  \E s \in State : FailureTarget(Conv.states[s], failure) # {}

Accepted(c) ==
  \A plan \in c.fault :
    /\ plan.role \in Role
    /\ Declared(plan.failure)
    /\ \A failure \in plan.peer_failure : Declared(failure)
    /\ plan.occurrence > 0

GenInit ==
  /\ Init
  /\ config \in {c \in Config : Accepted(c)}
  /\ at = [r \in Role |-> "prompt"]
  /\ tokens = [r \in Role |-> 0]
  /\ calls = [r \in Role |-> [send |-> 0, receive |-> 0]]
  /\ fired = FALSE
  /\ injecting = [r \in Role |-> FALSE]

-----------------------------------------------------------------------------
(***************************************************************************)
(* The emitting calls of the drivers.                                      *)
(***************************************************************************)
At(r, call) == at[r] = call /\ ~injecting[r]

\* A driver emits and moves on to its next call; the send comes in between.
Emits(r, next) ==
  /\ at' = [at EXCEPT ![r] = next]
  /\ UNCHANGED <<config, tokens, calls, fired, injecting>>

\* The client's prompt.  An empty cancellation budget is refused before it.
ClientPrompt ==
  /\ At(Client, "prompt") /\ 0 \notin config.cancel_after
  /\ EmitData(Client)
  /\ Emits(Client, "loop")

ClientRefuses ==
  /\ At(Client, "prompt") /\ 0 \in config.cancel_after
  /\ Crash(Client)
  /\ UNCHANGED genVars

BudgetSpent == \E limit \in config.cancel_after : tokens[Client] >= limit

ClientAnswer ==
  /\ At(Client, "answer")
  /\ \/ /\ BudgetSpent
        /\ EmitSelect(Client, "cancel")
        /\ Emits(Client, "cancel")
     \/ /\ ~BudgetSpent
        /\ EmitSelect(Client, "continue")
        /\ Emits(Client, "loop")

ClientCancel ==
  /\ At(Client, "cancel")
  /\ EmitCancel(Client)
  /\ Emits(Client, "loop")

ServerDecide ==
  /\ At(Server, "loop") /\ ~IsComplete(Server)
  /\ \/ /\ tokens[Server] >= config.tokens
        /\ EmitSelect(Server, "done")
        /\ Emits(Server, "loop")
     \/ /\ tokens[Server] < config.tokens
        /\ EmitSelect(Server, "token")
        /\ Emits(Server, "token")

\* Mutated form: the server goes on without the client's answer.
ServerTokenHasty ==
  /\ At(Server, "token")
  /\ EmitData(Server)
  /\ Emits(Server, "loop")

ServerToken ==
  /\ At(Server, "token")
  /\ EmitData(Server)
  /\ Emits(Server, "reply")

-----------------------------------------------------------------------------
(***************************************************************************)
(* The transport calls.  A role sends when it has an envelope in hand and  *)
(* receives where its driver does.                                         *)
(***************************************************************************)
Receives(r) ==
  IF r = Client THEN at[r] \in {"loop", "token"} ELSE at[r] \in {"prompt", "reply", "cancel"}

Calling(r, operation) ==
  /\ status[r] = "running"
  /\ ~Faulted(r)
  /\ ~injecting[r]
  /\ \/ operation = "send" /\ pending[r] # {}
     \/ /\ operation = "receive" /\ pending[r] = {} /\ Receives(r)
        /\ at[r] = "loop" => ~IsComplete(r)

\* Mutated form: the operation is not compared.
ShouldInjectAnyOperation(r, operation) ==
  \E plan \in config.fault :
    /\ ~fired
    /\ r = plan.role
    /\ calls[r][operation] + 1 = plan.occurrence

ShouldInject(r, operation) ==
  \E plan \in config.fault :
    /\ ~fired
    /\ r = plan.role /\ operation = plan.operation
    /\ calls[r][operation] + 1 = plan.occurrence

CountCall(r, operation) ==
  calls' = [calls EXCEPT ![r][operation] = @ + 1]

\* Mutated form: the flag is set and the call goes ahead.
InjectNothing(r, operation) ==
  /\ Calling(r, operation) /\ ShouldInject(r, operation)
  /\ CountCall(r, operation)
  /\ fired' = TRUE
  /\ UNCHANGED <<vars, config, at, tokens, injecting>>

\* should_inject answers yes: the flag is up before the link is down.
Inject(r, operation) ==
  /\ Calling(r, operation) /\ ShouldInject(r, operation)
  /\ CountCall(r, operation)
  /\ fired' = TRUE
  /\ injecting' = [injecting EXCEPT ![r] = TRUE]
  /\ UNCHANGED <<vars, config, at, tokens>>

\* The call returns the planned failure, and the driver gives up.
InjectedFailure(r) ==
  /\ injecting[r]
  /\ \E plan \in config.fault :
       SendFails(r, plan.failure) \/ ReceiveFails(r, plan.failure)
  /\ injecting' = [injecting EXCEPT ![r] = FALSE]
  /\ UNCHANGED <<config, at, tokens, calls, fired>>

\* map_peer_error, for the only error a memory pair has.
MapPeerError(r) ==
  LET assigned == UNION {plan.peer_failure :
                           plan \in {p \in config.fault : r # p.role}}
  IN  IF fired /\ assigned # {} THEN assigned ELSE {Closed}

Send(r) ==
  /\ Calling(r, "send") /\ ~ShouldInject(r, "send")
  /\ CountCall(r, "send")
  /\ \/ /\ SendSucceeds(r)
        /\ tokens' = IF r = Server /\ at[r] = "reply"
                       THEN [tokens EXCEPT ![r] = @ + 1] ELSE tokens
     \/ /\ ~open[Peer(r)]
        /\ \E failure \in MapPeerError(r) : SendFails(r, failure)
        /\ UNCHANGED tokens
  /\ UNCHANGED <<config, at, fired, injecting>>

\* The call a driver makes after the frame it has just received; an unexpected
\* frame is an error.
AfterFrame(r, frame) ==
  CASE r = Client /\ at[r] = "loop" /\ frame.op = "select" /\ frame.label = "done" -> "loop"
    [] r = Client /\ at[r] = "loop" /\ frame.op = "select" /\ frame.label = "token" -> "token"
    [] r = Client /\ at[r] = "token" /\ frame.op = "data" /\ frame.message = "token" -> "answer"
    [] r = Server /\ at[r] = "prompt" /\ frame.op = "data" /\ frame.message = "prompt" -> "loop"
    [] r = Server /\ at[r] = "reply" /\ frame.op = "select" /\ frame.label = "continue" -> "loop"
    [] r = Server /\ at[r] = "reply" /\ frame.op = "select" /\ frame.label = "cancel" -> "cancel"
    [] r = Server /\ at[r] = "cancel" /\ frame.op = "cancel" -> "loop"
    [] OTHER -> "error"

ReceiveFrame(r) ==
  /\ Calling(r, "receive") /\ ~ShouldInject(r, "receive")
  /\ CountCall(r, "receive")
  /\ Receive(r)
  /\ at' = [at EXCEPT ![r] = AfterFrame(r, Head(wire[Peer(r)]).frame)]
  /\ tokens' = IF r = Client /\ at'[r] = "answer"
                 THEN [tokens EXCEPT ![r] = @ + 1] ELSE tokens
  /\ UNCHANGED <<config, fired, injecting>>

ReceiveError(r) ==
  /\ Calling(r, "receive") /\ ~ShouldInject(r, "receive")
  /\ CountCall(r, "receive")
  /\ ~open[Peer(r)] /\ wire[Peer(r)] = <<>>
  /\ \E failure \in MapPeerError(r) : ReceiveFails(r, failure)
  /\ UNCHANGED <<config, at, tokens, fired, injecting>>

\* The driver leaves its loop: at the top when the machine is complete, from
\* anywhere after a fault.  finish does nothing on a memory pair.
Report(r) ==
  /\ at[r] = "loop" \/ Faulted(r)
  /\ Return(r)
  /\ UNCHANGED genVars

\* The fields of ExecutionReport that the others follow from.
ReportOf(r) ==
  [final_state |-> machine[r].current, frames |-> machine[r].sequence,
   tokens |-> tokens[r], status |-> status[r],
   semantic_trace |-> [i \in 1..Len(trace[r]) |-> trace[r][i].frame]]

\* Mutated form: the traces are not compared.
VerifySessionByOutcome(client, server) ==
  /\ \A report \in {client, server} : Terminal(Conv.states[report.final_state])
  /\ Conv.states[client.final_state] = Conv.states[server.final_state]
  /\ client.tokens = server.tokens

\* verify_session_reports on two saved reports of one plan: equal traces, both
\* completed, with the same success, failure and tokens.
VerifySession(client, server) ==
  /\ client.semantic_trace = server.semantic_trace
  /\ \A report \in {client, server} : Terminal(Conv.states[report.final_state])
  /\ Conv.states[client.final_state] = Conv.states[server.final_state]
  /\ client.tokens = server.tokens

GenNext ==
  \/ ClientPrompt \/ ClientRefuses \/ ClientAnswer \/ ClientCancel
  \/ ServerDecide \/ ServerToken
  \/ \E r \in Role :
       \/ \E operation \in {"send", "receive"} : Inject(r, operation)
       \/ InjectedFailure(r)
       \/ Send(r) \/ ReceiveFrame(r) \/ ReceiveError(r) \/ Report(r)

GenSpec == GenInit /\ [][GenNext]_allVars

-----------------------------------------------------------------------------
(***************************************************************************)
(* Properties.                                                             *)
(***************************************************************************)
\* What the projected machine must be ready for when a driver makes a call.
Permits(r) ==
  CASE at[r] = "prompt" -> IF r = Client THEN {"send"} ELSE {"receive"}
    [] at[r] = "loop" -> (IF r = Client THEN {"branch"} ELSE {"select"}) \cup {"end", "fail"}
    [] at[r] = "token" -> IF r = Client THEN {"receive"} ELSE {"send"}
    [] at[r] = "answer" -> {"select"}
    [] at[r] = "reply" -> {"branch"}
    [] at[r] = "cancel" -> IF r = Client THEN {"send_cancel"} ELSE {"receive_cancel"}
    [] OTHER -> {}

\* The drivers never ask their machine for an action it would refuse and never
\* meet a frame they have no arm for: the hand-written loops and the projected
\* machines stay in step through every token, cancellation and fault.
DriverInStep ==
  \A r \in Role :
    /\ status[r] \in {"running", "reported"} \/ (r = Client /\ 0 \in config.cancel_after)
    /\ (Idle(r) /\ ~Faulted(r)) => Local(r).kind \in Permits(r)

\* verify-session vouches for a pair of reports exactly when the run was an
\* undisturbed one: both endpoints ended, with as many tokens as the limit and the
\* cancellation leave.  Two endpoints that report one and the same failure are
\* refused as well: a recorded fault names its observer, so their traces differ.
VerifiedMeansComplete ==
  (\A r \in Role : status[r] = "reported") =>
    /\ VerifySession(ReportOf(Client), ReportOf(Server))
         <=> \A r \in Role : Local(r).kind = "end"
    /\ VerifySession(ReportOf(Client), ReportOf(Server)) =>
         tokens[Client] \in {config.tokens} \cup config.cancel_after

Finished == \A r \in Role : status[r] # "running"

\* Each endpoint records its own view of an injected failure and no other: the
\* chosen role the failure the plan names, its peer the one the plan assigns to
\* it (or a closed transport); and nobody records a failure that nothing caused.
ViewsAreAssigned ==
  \A r \in Role : Faulted(r) =>
    LET failure == trace[r][Len(trace[r])].frame.failure IN
    \/ \E plan \in config.fault :
         /\ fired
         /\ \/ r = plan.role /\ failure = plan.failure
            \/ r # plan.role /\ failure \in plan.peer_failure
            \/ r # plan.role /\ plan.peer_failure = {} /\ failure = Closed
    \/ r = Server /\ 0 \in config.cancel_after /\ failure = Closed

\* A run whose fault fired cannot look like a success: the chosen role ends in
\* the failure.  One whose fault was never reached is an undisturbed run, so
\* reporting "fault plan did not fire" loses nothing.
NoSilentFault ==
  (Finished /\ 0 \notin config.cancel_after) =>
    IF fired THEN \A plan \in config.fault : Local(plan.role).kind = "fail"
    ELSE \A r \in Role : Local(r).kind = "end" /\ trace[r] = trace[Peer(r)]

\* Both parts: the reports of a run tell of an injected fault what happened, to
\* each endpoint in the terms the plan assigns, and never hide that it fired.
FaultsAreReported == ViewsAreAssigned /\ NoSilentFault

\* demo and fault-demo always come to an end: both workers join, each time.
BothJoin == []<>Finished

=============================================================================
