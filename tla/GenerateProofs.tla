--------------------------- MODULE GenerateProofs ---------------------------
(***************************************************************************)
(* Proofs about the token-generation drivers, for every command line: each *)
(* driver stays in step with its machine, an injected fault is reported to *)
(* each endpoint as the plan assigns it, and two reports that verify are   *)
(* those of a complete run.                                                *)
(***************************************************************************)
EXTENDS FaultReplay, SessionProofs

-----------------------------------------------------------------------------
(***************************************************************************)
(* The inductive invariant.                                                *)
(***************************************************************************)
\* The call a driver makes when its machine is at state s.
CallAt(r, s) ==
  CASE s = "start" -> "prompt"
    [] s \in {"decide", "end"} -> "loop"
    [] s = "emit-token" -> "token"
    [] s = "client-action" -> IF r = Client THEN "answer" ELSE "reply"
    [] OTHER -> "cancel"

GenTypeOK ==
  /\ config \in Config /\ Accepted(config)
  /\ at = [r \in Role |-> at[r]]
  /\ tokens \in [Role -> Nat]
  /\ fired \in BOOLEAN
  /\ injecting \in [Role -> BOOLEAN]

\* Only a client that refuses its command line stops without a report.
StatusKnown ==
  \A r \in Role :
    \/ status[r] \in {"running", "reported"}
    \/ r = Client /\ status[r] = "crashed" /\ 0 \in config.cancel_after

\* The driver's position is the one of its machine's state.
InStep ==
  \A r \in Role :
    ~Faulted(r) => machine[r].current \in Driven /\ at[r] = CallAt(r, machine[r].current)

LastOf(r) == trace[r][Len(trace[r])]

\* A fault names its observer and leads to a failure.
FaultsLead ==
  \A r \in Role :
    Faulted(r) => /\ LastOf(r).frame.observer = r
                  /\ Conv.states[machine[r].current].kind = "fail"

\* The tokens pushed, and the one that is on its way out.
Counted(r) ==
  tokens[r] + IF pending[r] # {} /\ machine[r].current = "client-action" THEN 1 ELSE 0

\* Each token takes three frames.
TokenCount(r) ==
  LET s == machine[r].current
      q == machine[r].sequence
      t == Counted(r)
  IN  ~Faulted(r) =>
        /\ s = "start" => q = 0 /\ t = 0
        /\ s = "decide" => q = 1 + 3 * t
        /\ s = "emit-token" => q = 2 + 3 * t
        /\ s = "client-action" => q = 3 * t
        /\ s = "cancel" => q = 1 + 3 * t
        /\ s = "end" => q = 2 + 3 * t

TokensCounted == \A r \in Role : TokenCount(r)

\* The server pushes no token too many, and says done after the last.
ServerBounds ==
  LET s == machine[Server].current IN
  ~Faulted(Server) =>
    /\ Counted(Server) <= config.tokens
    /\ s = "emit-token" => Counted(Server) < config.tokens
    /\ s = "end" => \/ Counted(Server) = config.tokens
                    \/ pending[Server] = {} /\ LastOf(Server).state = "cancel"

\* The client asks for no token beyond its limit, and cancels at the limit.
ClientBounds ==
  LET s == machine[Client].current IN
  ~Faulted(Client) =>
    /\ s \in {"decide", "emit-token"} => \A limit \in config.cancel_after : tokens[Client] < limit
    /\ s = "client-action" => \A limit \in config.cancel_after : tokens[Client] <= limit
    /\ s = "cancel" => tokens[Client] \in config.cancel_after
    /\ s = "end" => \/ tokens[Client] \in config.cancel_after
                    \/ pending[Client] = {} /\ LastOf(Client).state = "decide"

\* A memory pair keeps what was sent, whoever has left.
MemoryKeeps ==
  \A r \in Role :
    Exchanged(r) >= Exchanged(Peer(r)) => Len(wire[r]) = Exchanged(r) - Exchanged(Peer(r))

\* A role inside a call that fails is the chosen one, and has not got past it.
InjectionOK ==
  /\ \A r \in Role : injecting[r] =>
       /\ fired /\ status[r] = "running" /\ ~Faulted(r)
       /\ pending[r] # {} \/ ~IsComplete(r)
       /\ \A plan \in config.fault : r = plan.role
  /\ fired => config.fault # {}
  /\ fired => \A plan \in config.fault : injecting[plan.role] \/ Faulted(plan.role)

\* The first fault is the injected one, unless the client has refused to start.
FaultsHaveACause ==
  \A r \in Role : Faulted(r) =>
    \/ fired /\ \A plan \in config.fault : r = plan.role
    \/ Faulted(Peer(r))
    \/ r = Server /\ status[Client] = "crashed"

GenInv ==
  /\ SessionInv
  /\ GenTypeOK
  /\ StatusKnown
  /\ InStep
  /\ FaultsLead
  /\ TokensCounted
  /\ ServerBounds
  /\ ClientBounds
  /\ MemoryKeeps
  /\ InjectionOK
  /\ FaultsHaveACause
  /\ ViewsAreAssigned

-----------------------------------------------------------------------------
(***************************************************************************)
(* The conversation.                                                       *)
(***************************************************************************)
LEMMA Roles ==
  /\ Role = {Client, Server} /\ Client # Server
  /\ Client \in Role /\ Server \in Role
  /\ Peer(Client) = Server /\ Peer(Server) = Client
<1>1. Role = {Client, Server} /\ Client # Server
  BY RolesAssumption DEF Client, Server
<1> QED BY <1>1, PeerFacts

\* The seven edges of the conversation, one state at a time.
LEMMA StartStep ==
  ASSUME NEW f, f.op # "fault", TraceStep(Conv, "start", f) # {}
  PROVE  TraceStep(Conv, "start", f) = {"decide"} /\ f.op = "data" /\ f.message = "prompt"
BY GenerateAssumption DEF TraceStep, Only, SendState

\* At the server's choice only a token or the end can follow.
LEMMA DecideStep ==
  ASSUME NEW f, f.op # "fault", TraceStep(Conv, "decide", f) # {}
  PROVE  /\ f.op = "select"
         /\ \/ f.label = "token" /\ TraceStep(Conv, "decide", f) = {"emit-token"}
            \/ f.label = "done" /\ TraceStep(Conv, "decide", f) = {"end"}
BY GenerateAssumption DEF TraceStep, Only, ChoiceState

\* At emit-token only the token itself can follow.
LEMMA TokenStep ==
  ASSUME NEW f, f.op # "fault", TraceStep(Conv, "emit-token", f) # {}
  PROVE  /\ TraceStep(Conv, "emit-token", f) = {"client-action"}
         /\ f.op = "data" /\ f.message = "token"
BY GenerateAssumption DEF TraceStep, Only, SendState

\* At the client's choice only going on or cancelling can follow.
LEMMA ActionStep ==
  ASSUME NEW f, f.op # "fault", TraceStep(Conv, "client-action", f) # {}
  PROVE  /\ f.op = "select"
         /\ \/ f.label = "continue" /\ TraceStep(Conv, "client-action", f) = {"decide"}
            \/ f.label = "cancel" /\ TraceStep(Conv, "client-action", f) = {"cancel"}
BY GenerateAssumption DEF TraceStep, Only, ChoiceState

\* At cancel only the cancellation itself can follow.
LEMMA CancelStep ==
  ASSUME NEW f, f.op # "fault", TraceStep(Conv, "cancel", f) # {}
  PROVE  TraceStep(Conv, "cancel", f) = {"end"} /\ f.op = "cancel"
BY GenerateAssumption DEF TraceStep, Only, CancelState

\* What each role's machine is ready for at each state.
LEMMA Kinds ==
  /\ ProjectState(Conv.states["start"], Client)
       = [kind |-> "send", to |-> Server, message |-> "prompt", next |-> "decide",
          on_failure |-> FailureEdges]
  /\ ProjectState(Conv.states["start"], Server).kind = "receive"
  /\ ProjectState(Conv.states["decide"], Server)
       = [kind |-> "select",
          branches |-> [l \in {"token", "done"} |-> IF l = "token" THEN "emit-token" ELSE "end"],
          on_failure |-> FailureEdges]
  /\ ProjectState(Conv.states["decide"], Client).kind = "branch"
  /\ ProjectState(Conv.states["emit-token"], Server)
       = [kind |-> "send", to |-> Client, message |-> "token", next |-> "client-action",
          on_failure |-> FailureEdges]
  /\ ProjectState(Conv.states["emit-token"], Client).kind = "receive"
  /\ ProjectState(Conv.states["client-action"], Client)
       = [kind |-> "select",
          branches |-> [l \in {"continue", "cancel"} |->
                          IF l = "continue" THEN "decide" ELSE "cancel"],
          on_failure |-> FailureEdges]
  /\ ProjectState(Conv.states["client-action"], Server).kind = "branch"
  /\ ProjectState(Conv.states["cancel"], Client)
       = [kind |-> "send_cancel", to |-> Server, scope |-> "generation", next |-> "end",
          on_failure |-> FailureEdges]
  /\ ProjectState(Conv.states["cancel"], Server).kind = "receive_cancel"
  /\ \A r \in Role : ProjectState(Conv.states["end"], r).kind = "end"
<1>1. Client # Server
  BY Roles
<1>2. /\ ProjectState(Conv.states["start"], Client)
           = [kind |-> "send", to |-> Server, message |-> "prompt", next |-> "decide",
              on_failure |-> FailureEdges]
      /\ ProjectState(Conv.states["start"], Server).kind = "receive"
  BY <1>1, GenerateAssumption DEF ProjectState, SendState
<1>3. /\ ProjectState(Conv.states["decide"], Server)
           = [kind |-> "select",
              branches |->
                [l \in {"token", "done"} |-> IF l = "token" THEN "emit-token" ELSE "end"],
              on_failure |-> FailureEdges]
      /\ ProjectState(Conv.states["decide"], Client).kind = "branch"
  BY <1>1, GenerateAssumption DEF ProjectState, ChoiceState
<1>4. /\ ProjectState(Conv.states["emit-token"], Server)
           = [kind |-> "send", to |-> Client, message |-> "token", next |-> "client-action",
              on_failure |-> FailureEdges]
      /\ ProjectState(Conv.states["emit-token"], Client).kind = "receive"
  BY <1>1, GenerateAssumption DEF ProjectState, SendState
<1>5. /\ ProjectState(Conv.states["client-action"], Client)
           = [kind |-> "select",
              branches |-> [l \in {"continue", "cancel"} |->
                              IF l = "continue" THEN "decide" ELSE "cancel"],
              on_failure |-> FailureEdges]
      /\ ProjectState(Conv.states["client-action"], Server).kind = "branch"
  BY <1>1, GenerateAssumption DEF ProjectState, ChoiceState
<1>6. /\ ProjectState(Conv.states["cancel"], Client)
           = [kind |-> "send_cancel", to |-> Server, scope |-> "generation", next |-> "end",
              on_failure |-> FailureEdges]
      /\ ProjectState(Conv.states["cancel"], Server).kind = "receive_cancel"
  BY <1>1, GenerateAssumption DEF ProjectState, CancelState
<1>7. \A r \in Role : ProjectState(Conv.states["end"], r).kind = "end"
  BY GenerateAssumption DEF ProjectState, EndState
<1> QED BY <1>2, <1>3, <1>4, <1>5, <1>6, <1>7

\* Whose turn it is.
LEMMA Actors ==
  /\ Actor(Conv.states["start"]) = Client /\ Actor(Conv.states["decide"]) = Server
  /\ Actor(Conv.states["emit-token"]) = Server /\ Actor(Conv.states["client-action"]) = Client
  /\ Actor(Conv.states["cancel"]) = Client
  /\ \A s \in Driven : ~Terminal(Conv.states[s]) <=> s # "end"
  /\ \A s \in State \ Driven : Terminal(Conv.states[s])
<1>1. Actor(Conv.states["start"]) = Client /\ Actor(Conv.states["decide"]) = Server
  BY GenerateAssumption DEF Actor, SendState, ChoiceState
<1>2. Actor(Conv.states["emit-token"]) = Server /\ Actor(Conv.states["client-action"]) = Client
  BY GenerateAssumption DEF Actor, SendState, ChoiceState
<1>3. Actor(Conv.states["cancel"]) = Client
  BY GenerateAssumption DEF Actor, CancelState
<1>4. \A s \in Driven : ~Terminal(Conv.states[s]) <=> s # "end"
  BY GenerateAssumption
  DEF Driven, Terminal, SendState, ChoiceState, CancelState, EndState
<1>5. \A s \in State \ Driven : Terminal(Conv.states[s])
  BY GenerateAssumption DEF Terminal
<1> QED BY <1>1, <1>2, <1>3, <1>4, <1>5

\* Every state with a turn declares the same failures, and each leads to a fail state.
LEMMA FailureSteps ==
  ASSUME NEW s \in Driven \ {"end"}, NEW f
  PROVE  /\ Declared(f) <=> f \in DOMAIN FailureEdges
         /\ f \in DOMAIN FailureEdges => FailureTarget(Conv.states[s], f) = {FailureEdges[f]}
         /\ f \in DOMAIN FailureEdges =>
              FailureEdges[f] \in State /\ Conv.states[FailureEdges[f]].kind = "fail"
<1>1. /\ s \in {"start", "decide", "emit-token", "client-action", "cancel"}
      /\ \A t \in Driven : t = "end"
           \/ t \in {"start", "decide", "emit-token", "client-action", "cancel"}
  BY DEF Driven
<1>2. \A t \in {"start", "decide", "emit-token", "client-action", "cancel"} :
        /\ Conv.states[t].on_failure = FailureEdges
        /\ Conv.states[t].kind \in {"send", "choice", "cancel"}
  BY GenerateAssumption DEF SendState, ChoiceState, CancelState
<1>3. Conv.states["end"].kind = "end" /\ \A t \in State \ Driven : Conv.states[t].kind = "fail"
  BY GenerateAssumption DEF EndState
<1>4. \A t \in State : FailureTarget(Conv.states[t], f) # {} => f \in DOMAIN FailureEdges
  BY <1>1, <1>2, <1>3 DEF FailureTarget, Only, Terminal
<1>5. f \in DOMAIN FailureEdges => FailureTarget(Conv.states[s], f) = {FailureEdges[f]}
  BY <1>1, <1>2 DEF FailureTarget, Only, Terminal
<1>6. s \in State
  BY GenerateAssumption
<1>7. f \in DOMAIN FailureEdges =>
        FailureEdges[f] \in State /\ Conv.states[FailureEdges[f]].kind = "fail"
  <2>1. StateOK(Conv, Conv.states["start"]) /\ Conv.states["start"].kind = "send"
    BY GenerateAssumption, StateFacts DEF Driven, SendState
  <2>2. FailureEdgesOK(Conv, Conv.states["start"])
    BY <2>1 DEF StateOK, EndState
  <2>3. f \in DOMAIN FailureEdges =>
          FailureEdges[f] \in State /\ Conv.states[FailureEdges[f]] = FailState(f)
    BY <2>2 DEF FailureEdgesOK, FailureEdges, State
  <2>4. FailState(f).kind = "fail"
    BY DEF FailState
  <2> QED BY <2>3, <2>4
<1> QED BY <1>4, <1>5, <1>6, <1>7 DEF Declared

-----------------------------------------------------------------------------
(***************************************************************************)
(* Every step of the drivers is one of six.                                *)
(***************************************************************************)
\* What an emission needs, and where it leads.
Moves(r, s, n) ==
  \/ r = Client /\ s = "start" /\ n = "decide" /\ 0 \notin config.cancel_after
  \/ r = Client /\ s = "client-action" /\ n = "cancel" /\ BudgetSpent
  \/ r = Client /\ s = "client-action" /\ n = "decide" /\ ~BudgetSpent
  \/ r = Client /\ s = "cancel" /\ n = "end"
  \/ r = Server /\ s = "decide" /\ n = "end" /\ tokens[Server] >= config.tokens
  \/ r = Server /\ s = "decide" /\ n = "emit-token" /\ tokens[Server] < config.tokens
  \/ r = Server /\ s = "emit-token" /\ n = "client-action"

Emitted(r, n) ==
  /\ Idle(r) /\ ~injecting[r] /\ ~Faulted(r)
  /\ Moves(r, machine[r].current, n)
  /\ \E f : pending' = [pending EXCEPT ![r] = {Stamp(r, f)}]
  /\ machine' = [machine EXCEPT ![r] =
                   [current |-> n, sequence |-> machine[r].sequence + 1]]
  /\ UNCHANGED <<wire, trace, open, status>>
  /\ Emits(r, CallAt(r, n))

Sent(r, e) ==
  /\ status[r] = "running" /\ ~Faulted(r) /\ ~injecting[r]
  /\ pending[r] = {e} /\ e \in Envelope /\ e.frame.op # "fault"
  /\ trace' = [trace EXCEPT ![r] = Append(trace[r], e)]
  /\ wire' = [wire EXCEPT ![r] = Append(wire[r], e)]
  /\ pending' = [pending EXCEPT ![r] = {}]
  /\ tokens' = IF r = Server /\ machine[r].current = "client-action"
                 THEN [tokens EXCEPT ![r] = @ + 1] ELSE tokens
  /\ CountCall(r, "send") /\ ~ShouldInject(r, "send")
  /\ UNCHANGED <<machine, open, status, config, at, fired, injecting>>

\* Where a frame taken by its receiver leads.
Arrives(r, s, n) ==
  \/ r = Server /\ s = "start" /\ n = "decide"
  \/ r = Client /\ s = "decide" /\ n \in {"emit-token", "end"}
  \/ r = Client /\ s = "emit-token" /\ n = "client-action"
  \/ r = Server /\ s = "client-action" /\ n \in {"decide", "cancel"}
  \/ r = Server /\ s = "cancel" /\ n = "end"

Taken(r, e, n) ==
  /\ Idle(r) /\ ~Faulted(r) /\ ~injecting[r]
  /\ e \in Envelope /\ e.frame.op # "fault"
  /\ wire[Peer(r)] # <<>> /\ wire' = [wire EXCEPT ![Peer(r)] = Tail(wire[Peer(r)])]
  /\ e.state = machine[r].current /\ Arrives(r, machine[r].current, n)
  /\ Exchanged(r) < Exchanged(Peer(r))
  /\ machine' = [machine EXCEPT ![r] =
                   [current |-> n, sequence |-> machine[r].sequence + 1]]
  /\ trace' = [trace EXCEPT ![r] = Append(trace[r], e)]
  /\ at' = [at EXCEPT ![r] = CallAt(r, n)]
  /\ tokens' = IF r = Client /\ n = "client-action"
                 THEN [tokens EXCEPT ![r] = @ + 1] ELSE tokens
  /\ CountCall(r, "receive")
  /\ UNCHANGED <<pending, open, status, config, fired, injecting>>

\* What a failure comes from.
Cause(r, failure) ==
  \/ injecting[r] /\ \E plan \in config.fault : failure = plan.failure
  \/ /\ ~injecting[r] /\ ~open[Peer(r)] /\ failure \in MapPeerError(r)
     /\ pending[r] # {} \/ (Blocked(r) /\ wire[Peer(r)] = <<>>)

Failed(r, s, failure) ==
  /\ status[r] = "running" /\ ~Faulted(r)
  /\ Cause(r, failure)
  /\ failure \in DOMAIN FailureEdges
  /\ pending' = [pending EXCEPT ![r] = {}]
  /\ \E q \in Nat : machine' = [machine EXCEPT ![r] =
       [current |-> FailureEdges[failure], sequence |-> q]]
  /\ \E e \in Envelope : /\ trace' = [trace EXCEPT ![r] = Append(trace[r], e)]
                         /\ e.frame = FaultFrame(r, failure)
                         /\ e.state = s
  /\ open' = [open EXCEPT ![r] = FALSE]
  /\ injecting' = [injecting EXCEPT ![r] = FALSE]
  /\ UNCHANGED calls \/ \E operation \in {"send", "receive"} : CountCall(r, operation)
  /\ UNCHANGED <<wire, status, config, at, tokens, fired>>

Chosen(r) ==
  /\ status[r] = "running" /\ ~Faulted(r) /\ ~injecting[r]
  /\ pending[r] # {} \/ ~IsComplete(r)
  /\ ~fired
  /\ \E plan \in config.fault :
       /\ r = plan.role /\ CountCall(r, plan.operation)
       /\ plan.operation = "send" => pending[r] # {}
       /\ calls[r][plan.operation] + 1 = plan.occurrence
  /\ fired' = TRUE
  /\ injecting' = [injecting EXCEPT ![r] = TRUE]
  /\ UNCHANGED <<vars, config, at, tokens>>

Left(r, how) ==
  /\ status[r] = "running" /\ ~injecting[r]
  /\ \/ how = "reported" /\ pending[r] = {} /\ IsComplete(r)
     \/ how = "crashed" /\ r = Client /\ 0 \in config.cancel_after
  /\ status' = [status EXCEPT ![r] = how]
  /\ open' = [open EXCEPT ![r] = FALSE]
  /\ UNCHANGED <<machine, pending, trace, wire, config, at, tokens, calls, fired, injecting>>

\* A driver that has not failed is at the call of its machine's state.
LEMMA WhereItIs ==
  ASSUME InStep, NEW r \in Role, ~Faulted(r)
  PROVE  LET s == machine[r].current IN
         /\ s \in Driven
         /\ at[r] = "prompt" => s = "start"
         /\ at[r] = "loop" => s \in {"decide", "end"}
         /\ at[r] = "token" => s = "emit-token"
         /\ at[r] \in {"answer", "reply"} => s = "client-action"
         /\ at[r] = "cancel" => s = "cancel"
         /\ r = Server /\ s = "client-action" => at[r] = "reply"
         /\ r = Client /\ s = "client-action" => at[r] = "answer"
         /\ s = "end" => at[r] = "loop"
BY Roles DEF InStep, CallAt, Driven

\* A machine that can still emit or accept has not failed.
LEMMA LiveIsWhole ==
  ASSUME SessionInv, NEW r \in Role, Local(r).kind \in Emitting \cup Accepting
  PROVE  ~Faulted(r)
<1>1. TypeOK /\ RecordsAreWalks /\ MachineFollowsRecord /\ machine[r].current \in State
  BY DEF SessionInv, TypeOK
<1>2. ~Terminal(Conv.states[machine[r].current])
  BY <1>1, ProjectedKinds DEF Local
<1> QED BY <1>1, <1>2, FaultedTerminal

\* Every step in which a driver asks its machine for an envelope is a step of the session
\* and moves that driver, and nothing else, along the conversation.
LEMMA EmitShape ==
  ASSUME SessionInv, InStep,
         ClientPrompt \/ ClientAnswer \/ ClientCancel \/ ServerDecide \/ ServerToken
  PROVE  /\ [Next]_vars
         /\ \E r \in Role, n \in Driven : Emitted(r, n)
<1>0. Client \in Role /\ Server \in Role /\ Client # Server
  BY Roles
<1>a. \A r \in Role : \A l : Local(r).kind = "select" /\ l \in DOMAIN Local(r).branches
        => l \in Label /\ ~Faulted(r)
  <2> TAKE r \in Role
  <2> TAKE l
  <2> HAVE Local(r).kind = "select" /\ l \in DOMAIN Local(r).branches
  <2>1. machine[r].current \in State
    BY DEF SessionInv, TypeOK
  <2>2. StateOK(Conv, Conv.states[machine[r].current])
    BY <2>1, StateFacts
  <2>3. /\ Conv.states[machine[r].current].kind = "choice"
        /\ l \in DOMAIN Conv.states[machine[r].current].branches
    BY <2>2, StateKinds DEF Local, ProjectState
  <2> QED BY <2>1, <2>3, LiveIsWhole DEF Label, Emitting
<1>1. CASE ClientPrompt
  <2>1. Idle(Client) /\ Local(Client).kind = "send" /\ EmitData(Client) /\ ~injecting[Client]
    BY <1>1 DEF ClientPrompt, EmitData, At
  <2>2. ~Faulted(Client) /\ machine[Client].current = "start"
    BY <1>0, <1>1, <2>1, LiveIsWhole, WhereItIs DEF ClientPrompt, At, Emitting
  <2>3. Local(Client).next = "decide"
    BY <2>2, Kinds DEF Local
  <2>4. CallAt(Client, "decide") = "loop" /\ "decide" \in Driven
    BY DEF CallAt, Driven
  <2>5. Emitted(Client, "decide")
    BY <1>1, <2>1, <2>2, <2>3, <2>4 DEF Emitted, Moves, ClientPrompt, EmitData, Emit
  <2> QED BY <1>0, <2>1, <2>4, <2>5 DEF Next
<1>2. CASE ClientAnswer
  <2>1. PICK l \in {"cancel", "continue"} :
          /\ EmitSelect(Client, l)
          /\ l = "cancel" => BudgetSpent /\ Emits(Client, "cancel")
          /\ l = "continue" => ~BudgetSpent /\ Emits(Client, "loop")
    BY <1>2 DEF ClientAnswer
  <2>2. /\ Idle(Client) /\ Local(Client).kind = "select" /\ l \in DOMAIN Local(Client).branches
        /\ ~injecting[Client] /\ at[Client] = "answer"
    BY <1>2, <2>1 DEF ClientAnswer, EmitSelect, At
  <2>3. l \in Label /\ ~Faulted(Client) /\ machine[Client].current = "client-action"
    BY <1>0, <1>a, <2>2, WhereItIs
  <2>4. Local(Client).branches = [k \in {"continue", "cancel"} |->
                                    IF k = "continue" THEN "decide" ELSE "cancel"]
    BY <2>3, Kinds DEF Local
  <2> DEFINE n == IF l = "continue" THEN "decide" ELSE "cancel"
  <2>5. Local(Client).branches[l] = n
    BY <2>4
  <2>6. /\ n \in Driven /\ CallAt(Client, n) = IF l = "continue" THEN "loop" ELSE "cancel"
        /\ Moves(Client, "client-action", n) /\ Emits(Client, CallAt(Client, n))
    BY <2>1 DEF CallAt, Driven, Moves
  <2> HIDE DEF n
  <2>7. Emitted(Client, n)
    BY <2>1, <2>2, <2>3, <2>5, <2>6 DEF Emitted, EmitSelect, Emit
  <2> QED BY <1>0, <2>1, <2>3, <2>6, <2>7 DEF Next
<1>3. CASE ClientCancel
  <2>1. /\ Idle(Client) /\ Local(Client).kind = "send_cancel" /\ EmitCancel(Client)
        /\ ~injecting[Client]
    BY <1>3 DEF ClientCancel, EmitCancel, At
  <2>2. ~Faulted(Client) /\ machine[Client].current = "cancel"
    BY <1>0, <1>3, <2>1, LiveIsWhole, WhereItIs DEF ClientCancel, At, Emitting
  <2>3. Local(Client).next = "end"
    BY <2>2, Kinds DEF Local
  <2>4. CallAt(Client, "end") = "loop" /\ "end" \in Driven
    BY DEF CallAt, Driven
  <2>5. Emitted(Client, "end")
    BY <1>3, <2>1, <2>2, <2>3, <2>4 DEF Emitted, Moves, ClientCancel, EmitCancel, Emit
  <2> QED BY <1>0, <2>1, <2>4, <2>5 DEF Next
<1>4. CASE ServerDecide
  <2>1. PICK l \in {"done", "token"} :
          /\ EmitSelect(Server, l)
          /\ l = "done" => tokens[Server] >= config.tokens /\ Emits(Server, "loop")
          /\ l = "token" => tokens[Server] < config.tokens /\ Emits(Server, "token")
    BY <1>4 DEF ServerDecide
  <2>2. /\ Idle(Server) /\ Local(Server).kind = "select" /\ l \in DOMAIN Local(Server).branches
        /\ ~injecting[Server] /\ at[Server] = "loop"
    BY <1>4, <2>1 DEF ServerDecide, EmitSelect, At
  <2>3. l \in Label /\ ~Faulted(Server) /\ machine[Server].current = "decide"
    <3>1. l \in Label /\ ~Faulted(Server) /\ machine[Server].current \in {"decide", "end"}
      BY <1>0, <1>a, <2>2, WhereItIs
    <3> QED BY <1>0, <2>2, <3>1, Kinds DEF Local
  <2>4. Local(Server).branches = [k \in {"token", "done"} |->
                                    IF k = "token" THEN "emit-token" ELSE "end"]
    BY <2>3, Kinds DEF Local
  <2> DEFINE n == IF l = "token" THEN "emit-token" ELSE "end"
  <2>5. Local(Server).branches[l] = n
    BY <2>4
  <2>6. /\ n \in Driven /\ CallAt(Server, n) = IF l = "token" THEN "token" ELSE "loop"
        /\ Moves(Server, "decide", n) /\ Emits(Server, CallAt(Server, n))
    BY <2>1 DEF CallAt, Driven, Moves
  <2> HIDE DEF n
  <2>7. Emitted(Server, n)
    BY <2>1, <2>2, <2>3, <2>5, <2>6 DEF Emitted, EmitSelect, Emit
  <2> QED BY <1>0, <2>1, <2>3, <2>6, <2>7 DEF Next
<1>5. CASE ServerToken
  <2>1. Idle(Server) /\ Local(Server).kind = "send" /\ EmitData(Server) /\ ~injecting[Server]
    BY <1>5 DEF ServerToken, EmitData, At
  <2>2. ~Faulted(Server) /\ machine[Server].current = "emit-token"
    BY <1>0, <1>5, <2>1, LiveIsWhole, WhereItIs DEF ServerToken, At, Emitting
  <2>3. Local(Server).next = "client-action"
    BY <2>2, Kinds DEF Local
  <2>4. CallAt(Server, "client-action") = "reply" /\ "client-action" \in Driven
    BY <1>0 DEF CallAt, Driven
  <2>5. Emitted(Server, "client-action")
    BY <1>5, <2>1, <2>2, <2>3, <2>4 DEF Emitted, Moves, ServerToken, EmitData, Emit
  <2> QED BY <1>0, <2>1, <2>4, <2>5 DEF Next
<1> QED BY <1>1, <1>2, <1>3, <1>4, <1>5

\* A role that has something prepared: where, and what it is.
LEMMA Prepared ==
  ASSUME SessionInv, NEW r \in Role, NEW e \in pending[r]
  PROVE  /\ pending[r] = {e} /\ e \in Envelope /\ ~Faulted(r) /\ e.frame.op # "fault"
         /\ LeadsTo(r, e.state) /\ StepOf(e) = {machine[r].current}
         /\ Actor(Conv.states[e.state]) = r
         /\ e.state \in State /\ e.state \in Driven \ {"end"}
<1>1. /\ pending[r] = {e} /\ ~Faulted(r) /\ LeadsTo(r, e.state) /\ e.frame.op # "fault"
      /\ StepOf(e) = {machine[r].current} /\ Actor(Conv.states[e.state]) = r
  BY DEF SessionInv, MachineFollowsRecord, Follows
<1>2. e \in Envelope /\ e.state \in State /\ e.frame \in Frame
  BY DEF SessionInv, TypeOK, Envelope
<1>3. ~Terminal(Conv.states[e.state])
  BY <1>1, <1>2, TerminalFacts DEF StepOf
<1>4. e.state \in Driven /\ e.state # "end"
  BY <1>2, <1>3, Actors
<1> QED BY <1>1, <1>2, <1>4

\* A send that succeeds records the prepared envelope and puts it in flight.
LEMMA SentShape ==
  ASSUME SessionInv, InStep, NEW r \in Role, Send(r), SendSucceeds(r),
         tokens' = IF r = Server /\ at[r] = "reply"
                     THEN [tokens EXCEPT ![r] = @ + 1] ELSE tokens
  PROVE  \E e \in Envelope : Sent(r, e)
<1>1. PICK e \in pending[r] : /\ wire' = [wire EXCEPT ![r] = Append(wire[r], e)]
                              /\ trace' = [trace EXCEPT ![r] = Append(trace[r], e)]
  BY DEF SendSucceeds
<1>2. pending[r] = {e} /\ e \in Envelope /\ ~Faulted(r) /\ e.frame.op # "fault"
  BY Prepared
<1>3. r = Server => (at[r] = "reply" <=> machine[r].current = "client-action")
  BY <1>2, WhereItIs
<1>4. /\ status[r] = "running" /\ ~injecting[r]
      /\ pending' = [pending EXCEPT ![r] = {}]
      /\ UNCHANGED <<machine, open, status, config, at, fired, injecting>>
  BY DEF Send, Calling, SendSucceeds
<1>5. tokens' = IF r = Server /\ machine[r].current = "client-action"
                  THEN [tokens EXCEPT ![r] = @ + 1] ELSE tokens
  BY <1>3
<1>6. CountCall(r, "send") /\ ~ShouldInject(r, "send")
  BY DEF Send
<1> QED BY <1>1, <1>2, <1>4, <1>5, <1>6 DEF Sent

\* The seven edges together.
LEMMA DrivenEdges ==
  ASSUME NEW s \in Driven, NEW f \in Frame, f.op # "fault", NEW n,
         TraceStep(Conv, s, f) = {n}
  PROVE  \/ s = "start" /\ n = "decide" /\ f.op = "data" /\ f.message = "prompt"
         \/ s = "decide" /\ n = "emit-token" /\ f.op = "select" /\ f.label = "token"
         \/ s = "decide" /\ n = "end" /\ f.op = "select" /\ f.label = "done"
         \/ s = "emit-token" /\ n = "client-action" /\ f.op = "data" /\ f.message = "token"
         \/ s = "client-action" /\ n = "decide" /\ f.op = "select" /\ f.label = "continue"
         \/ s = "client-action" /\ n = "cancel" /\ f.op = "select" /\ f.label = "cancel"
         \/ s = "cancel" /\ n = "end" /\ f.op = "cancel"
<1>1. s \in {"start", "decide", "emit-token", "client-action", "cancel", "end"}
  BY DEF Driven
<1>2. s # "end"
  BY Actors, TerminalFacts, GenerateAssumption
<1> QED BY <1>1, <1>2, StartStep, DecideStep, TokenStep, ActionStep, CancelStep

\* A receive that succeeds takes the oldest envelope in flight, and follows it.
LEMMA TakenShape ==
  ASSUME SessionInv, GenTypeOK, InStep, NEW r \in Role, ReceiveFrame(r)
  PROVE  \E e \in Envelope, n \in Driven : Taken(r, e, n)
<1> DEFINE e == Head(wire[Peer(r)])
           s == machine[r].current
<1>1. Blocked(r) /\ wire[Peer(r)] # <<>> /\ Receive(r) /\ ~injecting[r] /\ Receives(r)
  BY DEF ReceiveFrame, Receive, Calling, Blocked, Idle
<1>2. /\ e \in Envelope /\ ~Faulted(r) /\ Len(trace[r]) + 1 <= Exchanged(Peer(r))
      /\ ValidEnvelope(r, e) /\ e.frame.op # "fault"
  BY <1>1, HeadFacts
<1>3. PICK n \in State : StepOf(e) = {n} /\ AcceptTarget(Local(r), r, e.frame) = {n}
  BY <1>1, HeadFacts
<1>4. /\ machine' = [machine EXCEPT ![r] =
                       [current |-> n, sequence |-> machine[r].sequence + 1]]
      /\ trace' = [trace EXCEPT ![r] = Append(trace[r], e)]
      /\ wire' = [wire EXCEPT ![Peer(r)] = Tail(wire[Peer(r)])]
      /\ UNCHANGED <<pending, open, status>>
  BY <1>1, <1>2, <1>3 DEF Receive
<1>5. e.state = s /\ s \in Driven /\ e.frame \in Frame
  BY <1>2, WhereItIs DEF ValidEnvelope, Envelope
<1>6. TraceStep(Conv, s, e.frame) = {n}
  BY <1>3, <1>5 DEF StepOf
<1>7. Local(r).kind \in Accepting /\ Idle(r)
  BY <1>1 DEF Blocked
<1>8. Actor(Conv.states[s]) # r
  BY <1>5, <1>7, ProjectedKinds, GenerateAssumption DEF Local
<1>9. Exchanged(r) < Exchanged(Peer(r))
  BY <1>2, ExchangedFacts, PeerFacts DEF SessionInv
<1>10. at' = [at EXCEPT ![r] = AfterFrame(r, e.frame)]
  BY DEF ReceiveFrame
<1> HIDE DEF e, s
<1>11. r = Client \/ r = Server
  BY Roles
<1>12. /\ Arrives(r, s, n) /\ n \in Driven
       /\ AfterFrame(r, e.frame) = CallAt(r, n)
  <2>1. CASE r = Client
    <3>1. s \notin {"start", "client-action", "cancel"}
      BY <1>8, <2>1, Actors
    <3>2. \/ s = "decide" /\ n = "emit-token" /\ e.frame.op = "select" /\ e.frame.label = "token"
          \/ s = "decide" /\ n = "end" /\ e.frame.op = "select" /\ e.frame.label = "done"
          \/ /\ s = "emit-token" /\ n = "client-action"
             /\ e.frame.op = "data" /\ e.frame.message = "token"
      BY <1>2, <1>5, <1>6, <3>1, DrivenEdges
    <3>3. /\ s = "decide" => at[r] = "loop"
          /\ s = "emit-token" => at[r] = "token"
      BY <1>2 DEF InStep, CallAt, s
    <3>4. Arrives(r, s, n) /\ n \in Driven
      BY <2>1, <3>2 DEF Arrives, Driven
    <3>5. AfterFrame(r, e.frame) = CallAt(r, n)
      BY <2>1, <3>2, <3>3, Roles DEF AfterFrame, CallAt
    <3> QED BY <3>4, <3>5
  <2>2. CASE r = Server
    <3>1. s \notin {"decide", "emit-token"}
      BY <1>8, <2>2, Actors
    <3>2. \/ s = "start" /\ n = "decide" /\ e.frame.op = "data" /\ e.frame.message = "prompt"
          \/ /\ s = "client-action" /\ n = "decide"
             /\ e.frame.op = "select" /\ e.frame.label = "continue"
          \/ /\ s = "client-action" /\ n = "cancel"
             /\ e.frame.op = "select" /\ e.frame.label = "cancel"
          \/ s = "cancel" /\ n = "end" /\ e.frame.op = "cancel"
      BY <1>2, <1>5, <1>6, <3>1, DrivenEdges
    <3>3. /\ s = "start" => at[r] = "prompt"
          /\ s = "client-action" => at[r] = "reply"
          /\ s = "cancel" => at[r] = "cancel"
      BY <1>2, <2>2, Roles DEF InStep, CallAt, s
    <3>4. Arrives(r, s, n) /\ n \in Driven
      BY <2>2, <3>2 DEF Arrives, Driven
    <3>5. AfterFrame(r, e.frame) = CallAt(r, n)
      BY <2>2, <3>2, <3>3, Roles DEF AfterFrame, CallAt
    <3> QED BY <3>4, <3>5
  <2> QED BY <1>11, <2>1, <2>2
<1>13. at'[r] = CallAt(r, n) /\ at' = [at EXCEPT ![r] = CallAt(r, n)]
  <2>1. at = [q \in Role |-> at[q]]
    BY DEF GenTypeOK
  <2> QED BY <1>10, <1>12, <2>1
<1>14. CallAt(r, n) = "answer" <=> r = Client /\ n = "client-action"
  BY <1>11, Roles DEF CallAt
<1>15. /\ tokens' = IF r = Client /\ at'[r] = "answer"
                      THEN [tokens EXCEPT ![r] = @ + 1] ELSE tokens
       /\ CountCall(r, "receive") /\ UNCHANGED <<config, fired, injecting>>
  BY DEF ReceiveFrame
<1> QED
  BY <1>1, <1>2, <1>4, <1>5, <1>7, <1>9, <1>12, <1>13, <1>14, <1>15 DEF Taken, e, s

\* A memory pair loses nothing when a handle is dropped.
LEMMA CutNothing ==
  ASSUME TypeOK, NEW r \in Role, CutWire(r)
  PROVE  wire' = wire
<1>1. PICK n \in 0..Len(wire[r]) : n = Len(wire[r])
                                   /\ wire' = [wire EXCEPT ![r] = SubSeq(wire[r], 1, n)]
  BY GenerateAssumption DEF CutWire
<1>2. wire[r] \in Seq(Envelope) /\ wire = [q \in Role |-> wire[q]]
  BY DEF TypeOK
<1>3. SubSeq(wire[r], 1, Len(wire[r])) = wire[r]
  BY <1>2
<1> QED BY <1>1, <1>2, <1>3

\* A declared failure of a call made at s.
LEMMA FailureMoves ==
  ASSUME SessionInv, NEW r \in Role, NEW s \in Driven \ {"end"}, NEW failure \in Failure,
         failure \in DOMAIN FailureEdges, ObserveFailureAt(r, s, failure)
  PROVE  /\ pending' = [pending EXCEPT ![r] = {}]
         /\ \E q \in Nat : machine' = [machine EXCEPT ![r] =
              [current |-> FailureEdges[failure], sequence |-> q]]
         /\ \E e \in Envelope : /\ trace' = [trace EXCEPT ![r] = Append(trace[r], e)]
                                /\ e.frame = FaultFrame(r, failure)
                                /\ e.state = s
         /\ open' = [open EXCEPT ![r] = FALSE]
         /\ wire' = wire /\ status' = status
<1>0. TypeOK /\ s \in State
  BY GenerateAssumption DEF SessionInv
<1>1. EndpointFailureTarget(ProjectState(Conv.states[s], r), failure) = {FailureEdges[failure]}
  BY <1>0, ProjectedFailures, FailureSteps
<1> DEFINE q == IF machine[r].current = s THEN machine[r].sequence + 1
                ELSE machine[r].sequence
           e == [state |-> s, sequence |-> Len(trace[r]), frame |-> FaultFrame(r, failure)]
           target == EndpointFailureTarget(ProjectState(Conv.states[s], r), failure)
<1>2. /\ target # {} /\ target = {FailureEdges[failure]}
      /\ open' = [open EXCEPT ![r] = FALSE] /\ CutWire(r)
      /\ \/ target = {}
         \/ \E next \in target :
              /\ pending' = [pending EXCEPT ![r] = {}]
              /\ machine' = [machine EXCEPT ![r] = [current |-> next, sequence |-> q]]
              /\ trace' = [trace EXCEPT ![r] = Append(trace[r], e)]
              /\ UNCHANGED status
  BY <1>1 DEF ObserveFailureAt
<1>3. q \in Nat
  BY <1>0 DEF TypeOK
<1>4. e \in Envelope
  <2>1. FaultFrame(r, failure) \in Frame
    BY DEF FaultFrame, Frame
  <2>2. Len(trace[r]) \in Nat
    BY <1>0 DEF TypeOK
  <2> QED BY <1>0, <2>1, <2>2 DEF Envelope
<1>5. e.frame = FaultFrame(r, failure) /\ e.state = s
  OBVIOUS
<1>6. wire' = wire
  BY <1>0, <1>2, CutNothing
<1> HIDE DEF q, e, target
<1> QED BY <1>2, <1>3, <1>4, <1>5, <1>6

\* What a peer reports is a failure the conversation declares.
LEMMA Mapped ==
  ASSUME GenTypeOK, NEW r \in Role, NEW failure \in MapPeerError(r)
  PROVE  failure \in DOMAIN FailureEdges
<1>1. "start" \in Driven \ {"end"}
  BY DEF Driven
<1>2. \A plan \in config.fault : \A f \in plan.peer_failure : Declared(f)
  BY DEF GenTypeOK, Accepted
<1>3. \A plan \in config.fault : \A f \in plan.peer_failure : f \in DOMAIN FailureEdges
  BY <1>1, <1>2, FailureSteps
<1>4. Closed \in DOMAIN FailureEdges
  BY GenerateAssumption
<1>5. failure = Closed \/ \E plan \in config.fault : failure \in plan.peer_failure
  BY DEF MapPeerError
<1> QED BY <1>3, <1>4, <1>5

\* A call that fails, injected or not, ends its role at the failure's state with a fault.
LEMMA FailedShape ==
  ASSUME SessionInv, GenTypeOK, InStep, InjectionOK, NEW r \in Role, NEW failure,
         SendFails(r, failure) \/ ReceiveFails(r, failure),
         \/ /\ injecting[r] /\ \E plan \in config.fault : failure = plan.failure
            /\ injecting' = [injecting EXCEPT ![r] = FALSE]
         \/ /\ ~injecting[r] /\ ~open[Peer(r)] /\ failure \in MapPeerError(r)
            /\ SendFails(r, failure) \/ wire[Peer(r)] = <<>>
            /\ injecting' = injecting,
         UNCHANGED calls \/ \E operation \in {"send", "receive"} : CountCall(r, operation),
         UNCHANGED <<config, at, tokens, fired>>
  PROVE  /\ failure \in Failure
         /\ \E s \in Driven \ {"end"} : Failed(r, s, failure)
<1>1. failure \in DOMAIN FailureEdges
  <2>1. "start" \in Driven \ {"end"}
    BY DEF Driven
  <2>2. \A plan \in config.fault : Declared(plan.failure)
    BY DEF GenTypeOK, Accepted
  <2>3. \A plan \in config.fault : plan.failure \in DOMAIN FailureEdges
    BY <2>1, <2>2, FailureSteps
  <2> QED BY <2>3, Mapped
<1>2. failure \in Failure
  BY DEF SendFails, SendFailures, ReceiveFails, ReceiveFailures, Failure
<1>3. PICK s \in Driven \ {"end"} : /\ ObserveFailureAt(r, s, failure)
                                    /\ status[r] = "running" /\ ~Faulted(r)
  <2>1. CASE SendFails(r, failure)
    <3>1. PICK e \in pending[r] : status[r] = "running" /\ ObserveFailureAt(r, e.state, failure)
      BY <2>1 DEF SendFails
    <3> QED BY <3>1, Prepared
  <2>2. CASE ReceiveFails(r, failure)
    <3>1. /\ Local(r).kind \in Accepting /\ status[r] = "running"
          /\ ObserveFailureAt(r, machine[r].current, failure)
      BY <2>2 DEF ReceiveFails, Blocked, Idle
    <3>2. machine[r].current \in State
      BY DEF SessionInv, TypeOK
    <3>3. ~Terminal(Conv.states[machine[r].current]) /\ ~Faulted(r)
      BY <3>1, <3>2, ProjectedKinds, LiveIsWhole DEF Local
    <3>4. machine[r].current \in Driven \ {"end"}
      BY <3>2, <3>3, Actors
    <3> QED BY <3>1, <3>3, <3>4
  <2> QED BY <2>1, <2>2
<1>4. Cause(r, failure)
  <2>1. SendFails(r, failure) => pending[r] # {}
    BY DEF SendFails
  <2>2. ReceiveFails(r, failure) => Blocked(r)
    BY DEF ReceiveFails
  <2>3. CASE injecting[r] /\ \E plan \in config.fault : failure = plan.failure
    BY <2>3 DEF Cause
  <2>4. CASE /\ ~injecting[r] /\ ~open[Peer(r)] /\ failure \in MapPeerError(r)
             /\ SendFails(r, failure) \/ wire[Peer(r)] = <<>>
    <3>1. pending[r] # {} \/ (Blocked(r) /\ wire[Peer(r)] = <<>>)
      BY <2>1, <2>2, <2>4
    <3> QED BY <2>4, <3>1 DEF Cause
  <2> QED BY <2>3, <2>4
<1>5. injecting' = [injecting EXCEPT ![r] = FALSE]
  BY DEF GenTypeOK
<1>6. /\ pending' = [pending EXCEPT ![r] = {}]
      /\ \E q \in Nat : machine' = [machine EXCEPT ![r] =
           [current |-> FailureEdges[failure], sequence |-> q]]
      /\ \E e \in Envelope : /\ trace' = [trace EXCEPT ![r] = Append(trace[r], e)]
                             /\ e.frame = FaultFrame(r, failure)
                             /\ e.state = s
      /\ open' = [open EXCEPT ![r] = FALSE]
      /\ wire' = wire /\ status' = status
  BY <1>1, <1>2, <1>3, FailureMoves
<1> QED BY <1>1, <1>2, <1>3, <1>4, <1>5, <1>6 DEF Failed

\* The injector raises its flag once, for the role and the call its plan names.
LEMMA ChosenShape ==
  ASSUME InStep, GenTypeOK, NEW r \in Role, NEW operation \in {"send", "receive"},
         Inject(r, operation)
  PROVE  Chosen(r)
<1>1. Calling(r, operation) /\ status[r] = "running" /\ ~Faulted(r) /\ ~injecting[r]
  BY DEF Inject, Calling
<1>2. /\ ~fired
      /\ \E plan \in config.fault :
           /\ r = plan.role /\ plan.operation = operation
           /\ calls[r][plan.operation] + 1 = plan.occurrence
  BY DEF Inject, ShouldInject
<1>4. CountCall(r, operation) /\ (operation = "send" => pending[r] # {})
  BY DEF Inject, Calling
<1>3. pending[r] # {} \/ ~IsComplete(r)
  <2>1. CASE pending[r] = {} /\ at[r] # "loop"
    <3>1. machine[r].current \in Driven \ {"end"}
      BY <1>1, <2>1, WhereItIs
    <3>2. machine[r].current \in State /\ ~Terminal(Conv.states[machine[r].current])
      BY <3>1, Actors, GenerateAssumption
    <3> QED BY <3>2, ProjectedKinds DEF IsComplete, Local
  <2> QED BY <1>1, <2>1 DEF Calling
<1>5. \E plan \in config.fault :
        /\ r = plan.role /\ CountCall(r, plan.operation)
        /\ plan.operation = "send" => pending[r] # {}
        /\ calls[r][plan.operation] + 1 = plan.occurrence
  BY <1>2, <1>4
<1>6. /\ fired' = TRUE /\ injecting' = [injecting EXCEPT ![r] = TRUE]
      /\ UNCHANGED <<vars, config, at, tokens>>
  BY DEF Inject
<1> QED BY <1>1, <1>2, <1>3, <1>5, <1>6 DEF Chosen

\* A driver that returns was running and leaves the machines as they are.
LEMMA LeftShape ==
  ASSUME SessionInv, GenTypeOK, InjectionOK
  PROVE  /\ \A r \in Role : Report(r) => Left(r, "reported")
         /\ ClientRefuses => Left(Client, "crashed")
<1>1. \A r \in Role : Report(r) => Left(r, "reported")
  <2> TAKE r \in Role
  <2> HAVE Report(r)
  <2>1. /\ status[r] = "running" /\ pending[r] = {} /\ IsComplete(r)
        /\ status' = [status EXCEPT ![r] = "reported"]
        /\ open' = [open EXCEPT ![r] = FALSE]
        /\ UNCHANGED <<machine, pending, wire, trace>> /\ UNCHANGED genVars
    BY DEF Report, Return, Idle
  <2>2. ~injecting[r]
    BY <2>1 DEF InjectionOK
  <2> QED BY <2>1, <2>2 DEF Left, genVars
<1>2. ClientRefuses => Left(Client, "crashed")
  <2> HAVE ClientRefuses
  <2>1. wire' = wire
    BY Roles, CutNothing DEF ClientRefuses, Crash, SessionInv
  <2> QED BY <2>1 DEF ClientRefuses, Crash, Left, At, genVars
<1> QED BY <1>1, <1>2

\* The steps of the drivers are steps of a session, and of these shapes.
LEMMA GenShapes ==
  ASSUME SessionInv, GenTypeOK, InStep, InjectionOK, GenNext
  PROVE  /\ [Next]_vars
         /\ \E r \in Role :
              \/ \E n \in Driven : Emitted(r, n)
              \/ \E e \in Envelope : Sent(r, e)
              \/ \E e \in Envelope, n \in Driven : Taken(r, e, n)
              \/ \E s \in Driven \ {"end"}, failure \in Failure : Failed(r, s, failure)
              \/ Chosen(r)
              \/ \E how \in {"reported", "crashed"} : Left(r, how)
<1>1. CASE ClientPrompt \/ ClientAnswer \/ ClientCancel \/ ServerDecide \/ ServerToken
  BY <1>1, EmitShape
<1>2. CASE ClientRefuses
  <2>1. Client \in Role /\ Crash(Client)
    BY <1>2, Roles DEF ClientRefuses
  <2> QED BY <1>2, <2>1, LeftShape DEF Next
<1>3. ASSUME NEW r \in Role, NEW operation \in {"send", "receive"}, Inject(r, operation)
      PROVE  Chosen(r) /\ [Next]_vars
  BY <1>3, ChosenShape DEF Inject
<1>4. ASSUME NEW r \in Role, NEW failure,
             SendFails(r, failure) \/ ReceiveFails(r, failure),
             \/ /\ injecting[r] /\ \E plan \in config.fault : failure = plan.failure
                /\ injecting' = [injecting EXCEPT ![r] = FALSE]
             \/ /\ ~injecting[r] /\ ~open[Peer(r)] /\ failure \in MapPeerError(r)
                /\ SendFails(r, failure) \/ wire[Peer(r)] = <<>>
                /\ injecting' = injecting,
             UNCHANGED calls \/ \E operation \in {"send", "receive"} : CountCall(r, operation),
             UNCHANGED <<config, at, tokens, fired>>
      PROVE  /\ [Next]_vars
             /\ \E s \in Driven \ {"end"}, f \in Failure : Failed(r, s, f)
  <2>1. failure \in Failure /\ \E s \in Driven \ {"end"} : Failed(r, s, failure)
    BY <1>4, FailedShape
  <2> QED BY <1>4, <2>1 DEF Next
<1>5. ASSUME NEW r \in Role, InjectedFailure(r)
      PROVE  /\ [Next]_vars
             /\ \E s \in Driven \ {"end"}, f \in Failure : Failed(r, s, f)
  <2>1. PICK plan \in config.fault :
          SendFails(r, plan.failure) \/ ReceiveFails(r, plan.failure)
    BY <1>5 DEF InjectedFailure
  <2>2. /\ injecting[r] /\ injecting' = [injecting EXCEPT ![r] = FALSE]
        /\ UNCHANGED calls /\ UNCHANGED <<config, at, tokens, fired>>
    BY <1>5 DEF InjectedFailure
  <2> QED BY <1>4, <2>1, <2>2
<1>6. ASSUME NEW r \in Role, Send(r)
      PROVE  /\ [Next]_vars
             /\ \/ \E e \in Envelope : Sent(r, e)
                \/ \E s \in Driven \ {"end"}, f \in Failure : Failed(r, s, f)
  <2>1. /\ ~injecting[r] /\ injecting' = injecting
        /\ config' = config /\ at' = at /\ fired' = fired /\ CountCall(r, "send")
    BY <1>6 DEF Send, Calling
  <2>2. CASE /\ SendSucceeds(r)
             /\ tokens' = IF r = Server /\ at[r] = "reply"
                            THEN [tokens EXCEPT ![r] = @ + 1] ELSE tokens
    <3>1. \E e \in Envelope : Sent(r, e)
      BY <1>6, <2>2, SentShape
    <3> QED BY <2>2, <3>1 DEF Next
  <2>3. CASE /\ ~open[Peer(r)] /\ \E failure \in MapPeerError(r) : SendFails(r, failure)
             /\ UNCHANGED tokens
    BY <1>4, <2>1, <2>3
  <2> QED BY <1>6, <2>2, <2>3 DEF Send
<1>7. ASSUME NEW r \in Role, ReceiveFrame(r)
      PROVE  [Next]_vars /\ \E e \in Envelope, n \in Driven : Taken(r, e, n)
  BY <1>7, TakenShape DEF ReceiveFrame, Next
<1>8. ASSUME NEW r \in Role, ReceiveError(r)
      PROVE  /\ [Next]_vars
             /\ \E s \in Driven \ {"end"}, f \in Failure : Failed(r, s, f)
  <2>1. /\ ~injecting[r] /\ ~open[Peer(r)] /\ wire[Peer(r)] = <<>>
        /\ injecting' = injecting /\ UNCHANGED <<config, at, tokens, fired>>
        /\ CountCall(r, "receive")
    BY <1>8 DEF ReceiveError, Calling
  <2>2. PICK failure \in MapPeerError(r) : ReceiveFails(r, failure)
    BY <1>8 DEF ReceiveError
  <2> QED BY <1>4, <2>1, <2>2
<1>9. ASSUME NEW r \in Role, Report(r)
      PROVE  [Next]_vars /\ Left(r, "reported")
  BY <1>9, LeftShape DEF Report, Next
<1> QED BY <1>1, <1>2, <1>3, <1>5, <1>6, <1>7, <1>8, <1>9 DEF GenNext

-----------------------------------------------------------------------------
(***************************************************************************)
(* Each step keeps the invariant.                                          *)
(***************************************************************************)
LEMMA EmittedKeeps ==
  ASSUME GenInv, SessionInv', NEW r \in Role, NEW n \in Driven, Emitted(r, n)
  PROVE  GenInv'
<1>0. /\ TypeOK /\ GenTypeOK /\ StatusKnown /\ InStep /\ FaultsLead /\ TokensCounted
      /\ ServerBounds /\ ClientBounds /\ MemoryKeeps /\ InjectionOK /\ FaultsHaveACause
      /\ ViewsAreAssigned
  BY DEF GenInv, SessionInv
<1> DEFINE s == machine[r].current
           x == machine[r].sequence
<1>1. /\ Idle(r) /\ ~injecting[r] /\ ~Faulted(r) /\ Moves(r, s, n)
      /\ status[r] = "running" /\ pending[r] = {}
  BY DEF Emitted, Idle
<1>2. /\ wire' = wire /\ trace' = trace /\ open' = open /\ status' = status
      /\ config' = config /\ tokens' = tokens /\ fired' = fired /\ injecting' = injecting
  BY DEF Emitted, Emits
<1>3. /\ machine'[r].current = n /\ machine'[r].sequence = x + 1
      /\ \A q \in Role : q # r => machine'[q] = machine[q]
  BY <1>0 DEF Emitted, TypeOK
<1>4. /\ pending'[r] # {} /\ \A q \in Role : q # r => pending'[q] = pending[q]
  BY <1>0 DEF Emitted, TypeOK
<1>5. /\ at'[r] = CallAt(r, n) /\ at' = [q \in Role |-> at'[q]]
      /\ \A q \in Role : q # r => at'[q] = at[q]
  BY <1>0 DEF Emitted, Emits, GenTypeOK
<1>6. /\ \A q \in Role : Faulted(q)' = Faulted(q) /\ Exchanged(q)' = Exchanged(q)
      /\ \A q \in Role : LastOf(q)' = LastOf(q)
  BY <1>2 DEF Faulted, Exchanged, LastOf
<1>7. s \in State /\ x \in Nat /\ n \in State
  BY <1>0, GenerateAssumption DEF TypeOK
<1>8. /\ config.tokens \in Nat /\ config.cancel_after \in SUBSET Nat
      /\ \A l, m \in config.cancel_after : l = m
      /\ \A q \in Role : tokens[q] \in Nat
  BY <1>0, ConfigAssumption DEF GenTypeOK
<1>9. /\ \A q \in Role : q # r => Counted(q)' = Counted(q)
      /\ Counted(r) = tokens[r]
      /\ Counted(r)' = tokens[r] + IF n = "client-action" THEN 1 ELSE 0
  BY <1>1, <1>2, <1>3, <1>4, <1>8 DEF Counted
<1>10. Client # Server /\ Client \in Role /\ Server \in Role
  BY Roles
<1>a. /\ CallAt(r, n)' = CallAt(r, n)
      /\ \A q : CallAt(q, machine[q].current)' = CallAt(q, machine'[q].current)
  BY DEF CallAt
<1> HIDE DEF s, x
<1>b. s = machine[r].current /\ x = machine[r].sequence
  BY DEF s, x
<1>11. GenTypeOK'
  <2>1. Accepted(config)' <=> Accepted(config)
    BY <1>2 DEF Accepted
  <2> QED BY <1>0, <1>2, <1>5, <2>1 DEF GenTypeOK
<1>12. StatusKnown'
  BY <1>0, <1>2 DEF StatusKnown
<1>13. InStep'
  BY <1>0, <1>1, <1>3, <1>5, <1>6, <1>a DEF InStep
<1>14. FaultsLead'
  BY <1>0, <1>1, <1>3, <1>6 DEF FaultsLead
<1>15. TokensCounted'
  <2>1. ASSUME NEW q \in Role, q # r PROVE TokenCount(q)'
    <3>1. TokenCount(q)
      BY <1>0 DEF TokensCounted
    <3> QED BY <3>1, <2>1, <1>3, <1>6, <1>9 DEF TokenCount
  <2>2. TokenCount(r)'
    <3>1. TokenCount(r)
      BY <1>0 DEF TokensCounted
    <3> DEFINE t == tokens[r]
    <3>2. /\ s = "start" => x = 0 /\ t = 0
          /\ s = "decide" => x = 1 + 3 * t
          /\ s = "emit-token" => x = 2 + 3 * t
          /\ s = "client-action" => x = 3 * t
          /\ s = "cancel" => x = 1 + 3 * t
      BY <3>1, <1>1, <1>9, <1>b DEF TokenCount
    <3>3. t \in Nat
      BY <1>8
    <3> HIDE DEF t
    <3>4. /\ n # "start"
          /\ n = "decide" => x + 1 = 1 + 3 * t
          /\ n = "emit-token" => x + 1 = 2 + 3 * t
          /\ n = "client-action" => x + 1 = 3 * (t + 1)
          /\ n = "cancel" => x + 1 = 1 + 3 * t
          /\ n = "end" => x + 1 = 2 + 3 * t
      BY <1>1, <1>7, <3>2, <3>3 DEF Moves
    <3>5. Counted(r)' = IF n = "client-action" THEN t + 1 ELSE t
      BY <1>9, <3>3 DEF t
    <3> QED BY <1>3, <3>4, <3>5 DEF TokenCount
  <2> QED BY <2>1, <2>2 DEF TokensCounted
<1>16. ServerBounds'
  <2>1. CASE r = Server
    <3>1. /\ tokens[Server] <= config.tokens
          /\ s = "emit-token" => tokens[Server] < config.tokens
      BY <1>0, <1>1, <1>9, <1>b, <2>1 DEF ServerBounds
    <3>2. /\ n \in {"end", "emit-token", "client-action"}
          /\ n = "end" => tokens[Server] >= config.tokens
          /\ n = "emit-token" => tokens[Server] < config.tokens
          /\ n = "client-action" => s = "emit-token"
      BY <1>1, <1>10, <2>1 DEF Moves
    <3>3. Counted(Server)' = IF n = "client-action" THEN tokens[Server] + 1 ELSE tokens[Server]
      BY <1>8, <1>9, <1>10, <2>1
    <3>4. /\ Counted(Server)' <= config.tokens
          /\ n = "emit-token" => Counted(Server)' < config.tokens
          /\ n = "end" => Counted(Server)' = config.tokens
      BY <1>8, <1>10, <3>1, <3>2, <3>3
    <3> QED BY <1>2, <1>3, <2>1, <3>4 DEF ServerBounds
  <2>2. CASE r # Server
    BY <1>0, <1>2, <1>3, <1>4, <1>6, <1>9, <1>10, <2>2 DEF ServerBounds
  <2> QED BY <2>1, <2>2
<1>17. ClientBounds'
  <2>1. CASE r = Client
    <3>1. /\ s = "client-action" => \A limit \in config.cancel_after : tokens[Client] <= limit
          /\ s = "cancel" => tokens[Client] \in config.cancel_after
      BY <1>0, <1>1, <1>b, <2>1 DEF ClientBounds
    <3>2. /\ n \in {"decide", "cancel", "end"}
          /\ n = "decide" => \/ s = "start" /\ 0 \notin config.cancel_after
                             \/ s = "client-action" /\ ~BudgetSpent
          /\ n = "cancel" => s = "client-action" /\ BudgetSpent
          /\ n = "end" => s = "cancel"
      BY <1>1, <1>10, <2>1 DEF Moves
    <3>3. s = "start" => tokens[Client] = 0
      BY <1>0, <1>1, <1>9, <1>b, <2>1 DEF TokensCounted, TokenCount
    <3>4. n = "decide" => \A limit \in config.cancel_after : tokens[Client] < limit
      BY <1>8, <1>10, <3>2, <3>3 DEF BudgetSpent
    <3>5. n = "cancel" => tokens[Client] \in config.cancel_after
      BY <1>8, <1>10, <3>1, <3>2 DEF BudgetSpent
    <3>6. n = "end" => tokens[Client] \in config.cancel_after
      BY <3>1, <3>2
    <3> QED BY <1>2, <1>3, <2>1, <3>2, <3>4, <3>5, <3>6 DEF ClientBounds
  <2>2. CASE r # Client
    BY <1>0, <1>2, <1>3, <1>4, <1>6, <1>10, <2>2 DEF ClientBounds
  <2> QED BY <2>1, <2>2
<1>18. MemoryKeeps'
  BY <1>0, <1>2, <1>6, PeerFacts DEF MemoryKeeps
<1>19. InjectionOK'
  <2>1. \A q \in Role : q # r => (IsComplete(q)' <=> IsComplete(q))
    BY <1>3 DEF IsComplete, Local
  <2>2. \A q \in Role : injecting[q] => q # r
    BY <1>1
  <2>3. \A plan \in config.fault : plan.role \in Role
    BY <1>0 DEF GenTypeOK, Accepted
  <2> QED BY <1>0, <1>2, <1>4, <1>6, <2>1, <2>2, <2>3 DEF InjectionOK
<1>20. FaultsHaveACause'
  BY <1>0, <1>2, <1>6, PeerFacts DEF FaultsHaveACause
<1>21. ViewsAreAssigned'
  BY <1>0, <1>2, <1>6 DEF ViewsAreAssigned
<1> QED
  BY <1>11, <1>12, <1>13, <1>14, <1>15, <1>16, <1>17, <1>18, <1>19, <1>20, <1>21 DEF GenInv

\* A send that succeeds keeps the invariant.
LEMMA SentKeeps ==
  ASSUME GenInv, SessionInv', NEW r \in Role, NEW e \in Envelope, Sent(r, e)
  PROVE  GenInv'
<1>0. /\ TypeOK /\ GenTypeOK /\ StatusKnown /\ InStep /\ FaultsLead /\ TokensCounted
      /\ ServerBounds /\ ClientBounds /\ MemoryKeeps /\ InjectionOK /\ FaultsHaveACause
      /\ ViewsAreAssigned /\ SessionInv
  BY DEF GenInv, SessionInv
<1> DEFINE s == machine[r].current
<1>1. /\ ~injecting[r] /\ ~Faulted(r) /\ status[r] = "running"
      /\ pending[r] = {e} /\ pending[r] # {} /\ e.frame.op # "fault"
  BY DEF Sent
<1>2. /\ machine' = machine /\ open' = open /\ status' = status
      /\ config' = config /\ at' = at /\ fired' = fired /\ injecting' = injecting
  BY DEF Sent
<1>3. /\ Exchanged(r)' = Exchanged(r) + 1 /\ ~Faulted(r)'
      /\ \A q \in Role : q # r => /\ trace'[q] = trace[q]
                                  /\ Exchanged(q)' = Exchanged(q)
      /\ \A q \in Role : Faulted(q)' <=> Faulted(q)
  <2>1. trace' = [trace EXCEPT ![r] = Append(trace[r], e)]
    BY DEF Sent
  <2>2. /\ Faulted(r)' <=> e.frame.op = "fault"
        /\ e.frame.op # "fault" => Exchanged(r)' = Len(trace[r]) + 1
        /\ \A q \in Role : q # r => /\ trace'[q] = trace[q]
                                    /\ Faulted(q)' <=> Faulted(q)
                                    /\ Exchanged(q)' = Exchanged(q)
    BY <1>0, <2>1, RecordFacts
  <2> QED BY <1>0, <1>1, <2>2, ExchangedFacts
<1>4. /\ pending'[r] = {} /\ \A q \in Role : q # r => pending'[q] = pending[q]
  BY <1>0 DEF Sent, TypeOK
<1>5. /\ wire'[r] = Append(wire[r], e) /\ Len(wire'[r]) = Len(wire[r]) + 1
      /\ \A q \in Role : q # r => wire'[q] = wire[q]
      /\ Len(wire[r]) \in Nat
  BY <1>0 DEF Sent, TypeOK
<1>6. \A q \in Role : q # r => LastOf(q)' = LastOf(q)
  BY <1>3 DEF LastOf
<1>7. /\ config.tokens \in Nat /\ \A q \in Role : tokens[q] \in Nat /\ Exchanged(q) \in Nat
  BY <1>0, ConfigAssumption, ExchangedFacts DEF GenTypeOK
<1>8. Client # Server /\ Client \in Role /\ Server \in Role /\ (r = Client \/ r = Server)
  BY Roles
<1>9. r = Client => s # "client-action"
  <2>1. /\ StepOf(e) = {s} /\ Actor(Conv.states[e.state]) = r
        /\ e.state \in Driven
    BY <1>0, <1>1, Prepared
  <2>2. e.frame \in Frame /\ TraceStep(Conv, e.state, e.frame) = {s}
    BY <2>1 DEF Envelope, StepOf
  <2>3. s = "client-action" => e.state = "emit-token"
    BY <1>1, <2>1, <2>2, DrivenEdges
  <2> QED BY <1>8, <2>1, <2>3, Actors
<1>10. /\ tokens' \in [Role -> Nat]
       /\ \A q \in Role : q # r => tokens'[q] = tokens[q]
       /\ r = Client => tokens'[r] = tokens[r]
       /\ tokens'[r] = tokens[r] + IF s = "client-action" THEN 1 ELSE 0
  <2>1. tokens' = IF r = Server /\ s = "client-action"
                    THEN [tokens EXCEPT ![r] = tokens[r] + 1] ELSE tokens
    BY DEF Sent
  <2> QED BY <1>0, <1>7, <1>8, <1>9, <2>1 DEF GenTypeOK
<1>11. \A q \in Role : Counted(q)' = Counted(q)
  BY <1>1, <1>2, <1>4, <1>7, <1>10 DEF Counted
<1>12. GenTypeOK'
  <2>1. Accepted(config)' <=> Accepted(config)
    BY <1>2 DEF Accepted
  <2> QED BY <1>0, <1>2, <1>10, <2>1 DEF GenTypeOK
<1>13. StatusKnown'
  BY <1>0, <1>2 DEF StatusKnown
<1>14. InStep'
  BY <1>0, <1>2, <1>3 DEF InStep, CallAt
<1>15. FaultsLead'
  BY <1>0, <1>1, <1>2, <1>3, <1>6 DEF FaultsLead
<1>16. TokensCounted'
  BY <1>0, <1>2, <1>3, <1>11 DEF TokensCounted, TokenCount
<1>17. ServerBounds'
  BY <1>0, <1>1, <1>2, <1>3, <1>4, <1>6, <1>8, <1>11 DEF ServerBounds
<1>18. ClientBounds'
  BY <1>0, <1>1, <1>2, <1>3, <1>4, <1>6, <1>8, <1>10 DEF ClientBounds
<1>19. MemoryKeeps'
  <2>1. Peer(r) \in Role /\ Peer(r) # r /\ Peer(Peer(r)) = r
        /\ \A q \in Role : q = r \/ q = Peer(r)
    BY PeerFacts
  <2>2. Exchanged(Peer(r)) <= Exchanged(r)
    <3>1. Exchanged(Peer(r)) > Exchanged(r) => pending[r] = {}
      BY <1>0, <2>1 DEF SessionInv, AheadInOwnTurn
    <3> QED BY <1>1, <1>7, <2>1, <3>1
  <2>3. Len(wire[r]) = Exchanged(r) - Exchanged(Peer(r))
    BY <1>0, <1>7, <2>1, <2>2 DEF MemoryKeeps
  <2>4. Len(wire'[r]) = Exchanged(r)' - Exchanged(Peer(r))'
    BY <1>3, <1>5, <1>7, <2>1, <2>3
  <2>5. ~(Exchanged(Peer(r))' >= Exchanged(r)')
    BY <1>3, <1>7, <2>1, <2>2
  <2> QED BY <2>1, <2>4, <2>5 DEF MemoryKeeps
<1>20. InjectionOK'
  <2>1. \A q \in Role : IsComplete(q)' <=> IsComplete(q)
    BY <1>2 DEF IsComplete, Local
  <2>2. \A plan \in config.fault : plan.role \in Role
    BY <1>0 DEF GenTypeOK, Accepted
  <2> QED BY <1>0, <1>1, <1>2, <1>3, <1>4, <2>1, <2>2 DEF InjectionOK
<1>21. FaultsHaveACause'
  BY <1>0, <1>2, <1>3, PeerFacts DEF FaultsHaveACause
<1>22. ViewsAreAssigned'
  BY <1>0, <1>1, <1>2, <1>3 DEF ViewsAreAssigned
<1> QED
  BY <1>12, <1>13, <1>14, <1>15, <1>16, <1>17, <1>18, <1>19, <1>20, <1>21, <1>22 DEF GenInv

\* A receive that succeeds keeps the invariant.
LEMMA TakenKeeps ==
  ASSUME GenInv, SessionInv', NEW r \in Role, NEW e \in Envelope, NEW n \in Driven,
         Taken(r, e, n)
  PROVE  GenInv'
<1>0. /\ TypeOK /\ GenTypeOK /\ StatusKnown /\ InStep /\ FaultsLead /\ TokensCounted
      /\ ServerBounds /\ ClientBounds /\ MemoryKeeps /\ InjectionOK /\ FaultsHaveACause
      /\ ViewsAreAssigned /\ SessionInv
  BY DEF GenInv, SessionInv
<1> DEFINE s == machine[r].current
           x == machine[r].sequence
<1>1. /\ ~injecting[r] /\ ~Faulted(r) /\ status[r] = "running"
      /\ pending[r] = {} /\ e.frame.op # "fault" /\ e.state = s /\ Arrives(r, s, n)
      /\ Exchanged(r) < Exchanged(Peer(r)) /\ wire[Peer(r)] # <<>>
  BY DEF Taken, Idle
<1>2. /\ pending' = pending /\ open' = open /\ status' = status
      /\ config' = config /\ fired' = fired /\ injecting' = injecting
  BY DEF Taken
<1>p. Peer(r) \in Role /\ Peer(r) # r /\ Peer(Peer(r)) = r
      /\ \A q \in Role : q = r \/ q = Peer(r)
  BY PeerFacts
<1>3. /\ Exchanged(r)' = Exchanged(r) + 1 /\ ~Faulted(r)' /\ LastOf(r)' = e
      /\ \A q \in Role : q # r => /\ trace'[q] = trace[q]
                                  /\ Exchanged(q)' = Exchanged(q)
      /\ \A q \in Role : Faulted(q)' <=> Faulted(q)
  <2>1. trace' = [trace EXCEPT ![r] = Append(trace[r], e)]
    BY DEF Taken
  <2>2. /\ Faulted(r)' <=> e.frame.op = "fault"
        /\ e.frame.op # "fault" => Exchanged(r)' = Len(trace[r]) + 1
        /\ Len(trace'[r]) = Len(trace[r]) + 1
        /\ trace'[r][Len(trace[r]) + 1] = e
        /\ \A q \in Role : q # r => /\ trace'[q] = trace[q]
                                    /\ Faulted(q)' <=> Faulted(q)
                                    /\ Exchanged(q)' = Exchanged(q)
    BY <1>0, <2>1, RecordFacts
  <2> QED BY <1>0, <1>1, <2>2, ExchangedFacts DEF LastOf
<1>4. /\ machine'[r].current = n /\ machine'[r].sequence = x + 1
      /\ \A q \in Role : q # r => machine'[q] = machine[q]
  BY <1>0 DEF Taken, TypeOK
<1>5. /\ wire'[r] = wire[r] /\ Len(wire'[Peer(r)]) = Len(wire[Peer(r)]) - 1
  BY <1>0, <1>1, <1>p DEF Taken, TypeOK
<1>6. \A q \in Role : q # r => LastOf(q)' = LastOf(q)
  BY <1>3 DEF LastOf
<1>7. /\ config.tokens \in Nat /\ config.cancel_after \in SUBSET Nat
      /\ \A q \in Role : tokens[q] \in Nat /\ Exchanged(q) \in Nat /\ Len(wire[q]) \in Nat
      /\ s \in State /\ x \in Nat
  BY <1>0, ConfigAssumption, ExchangedFacts DEF GenTypeOK, TypeOK
<1>8. Client # Server /\ Client \in Role /\ Server \in Role /\ (r = Client \/ r = Server)
  BY Roles
<1>9. /\ at'[r] = CallAt(r, n) /\ at' = [q \in Role |-> at'[q]]
      /\ \A q \in Role : q # r => at'[q] = at[q]
  BY <1>0 DEF Taken, GenTypeOK
<1>a. /\ CallAt(r, n)' = CallAt(r, n)
      /\ \A q : CallAt(q, machine[q].current)' = CallAt(q, machine'[q].current)
  BY DEF CallAt
<1>10. /\ tokens' \in [Role -> Nat]
       /\ \A q \in Role : q # r => tokens'[q] = tokens[q]
       /\ tokens'[r] = tokens[r] + IF r = Client /\ n = "client-action" THEN 1 ELSE 0
  <2>1. tokens' = IF r = Client /\ n = "client-action"
                    THEN [tokens EXCEPT ![r] = tokens[r] + 1] ELSE tokens
    BY DEF Taken
  <2> QED BY <1>0, <1>7, <1>8, <2>1 DEF GenTypeOK
<1> HIDE DEF s, x
<1>b. s = machine[r].current /\ x = machine[r].sequence
  BY DEF s, x
<1>11. /\ \A q \in Role : q # r => Counted(q)' = Counted(q)
       /\ Counted(r) = tokens[r] /\ Counted(r)' = tokens'[r]
  BY <1>1, <1>2, <1>4, <1>7, <1>10 DEF Counted
<1>12. GenTypeOK'
  <2>1. Accepted(config)' <=> Accepted(config)
    BY <1>2 DEF Accepted
  <2> QED BY <1>0, <1>2, <1>9, <1>10, <2>1 DEF GenTypeOK
<1>13. StatusKnown'
  BY <1>0, <1>2 DEF StatusKnown
<1>14. InStep'
  BY <1>0, <1>3, <1>4, <1>9, <1>a DEF InStep
<1>15. FaultsLead'
  BY <1>0, <1>1, <1>3, <1>4, <1>6 DEF FaultsLead
<1>16. TokensCounted'
  <2>1. ASSUME NEW q \in Role, q # r PROVE TokenCount(q)'
    <3>1. TokenCount(q)
      BY <1>0 DEF TokensCounted
    <3> QED BY <3>1, <2>1, <1>3, <1>4, <1>11 DEF TokenCount
  <2>2. TokenCount(r)'
    <3>1. TokenCount(r)
      BY <1>0 DEF TokensCounted
    <3> DEFINE t == tokens[r]
    <3>2. /\ s = "start" => x = 0 /\ t = 0
          /\ s = "decide" => x = 1 + 3 * t
          /\ s = "emit-token" => x = 2 + 3 * t
          /\ s = "client-action" => x = 3 * t
          /\ s = "cancel" => x = 1 + 3 * t
      BY <3>1, <1>1, <1>11, <1>b DEF TokenCount
    <3>3. t \in Nat
      BY <1>7
    <3> HIDE DEF t
    <3>4. /\ n # "start"
          /\ n = "decide" => x + 1 = 1 + 3 * t
          /\ n = "emit-token" => x + 1 = 2 + 3 * t
          /\ n = "client-action" => r = Client /\ x + 1 = 3 * (t + 1)
          /\ n = "cancel" => x + 1 = 1 + 3 * t
          /\ n = "end" => x + 1 = 2 + 3 * t
      BY <1>1, <1>7, <3>2, <3>3 DEF Arrives
    <3>5. Counted(r)' = IF r = Client /\ n = "client-action" THEN t + 1 ELSE t
      BY <1>10, <1>11, <3>3 DEF t
    <3> QED BY <1>4, <3>4, <3>5 DEF TokenCount
  <2> QED BY <2>1, <2>2 DEF TokensCounted
<1>17. ServerBounds'
  <2>1. CASE r = Server
    <3>1. /\ Counted(Server) <= config.tokens /\ Counted(Server)' = Counted(Server)
      BY <1>0, <1>1, <1>7, <1>8, <1>10, <1>11, <2>1 DEF ServerBounds
    <3>2. n # "emit-token" /\ (n = "end" => s = "cancel")
      BY <1>1, <1>8, <2>1 DEF Arrives
    <3>3. n = "end" => pending'[Server] = {} /\ LastOf(Server)'.state = "cancel"
      BY <1>1, <1>2, <1>3, <2>1, <3>2
    <3> QED BY <1>2, <1>4, <2>1, <3>1, <3>2, <3>3 DEF ServerBounds
  <2>2. CASE r # Server
    BY <1>0, <1>2, <1>3, <1>4, <1>6, <1>8, <1>11, <2>2 DEF ServerBounds
  <2> QED BY <2>1, <2>2
<1>18. ClientBounds'
  <2>1. CASE r = Client
    <3>1. s \in {"decide", "emit-token"} =>
            \A limit \in config.cancel_after : tokens[Client] < limit
      BY <1>0, <1>1, <1>b, <2>1 DEF ClientBounds
    <3>2. /\ n \in {"emit-token", "end", "client-action"}
          /\ n \in {"emit-token", "end"} => s = "decide"
          /\ n = "client-action" => s = "emit-token"
      BY <1>1, <1>8, <2>1 DEF Arrives
    <3>3. tokens'[Client] = tokens[Client] + IF n = "client-action" THEN 1 ELSE 0
      BY <1>10, <2>1
    <3>4. n = "emit-token" => \A limit \in config.cancel_after : tokens'[Client] < limit
      BY <1>7, <1>8, <3>1, <3>2, <3>3
    <3>5. n = "client-action" => \A limit \in config.cancel_after : tokens'[Client] <= limit
      BY <1>7, <1>8, <3>1, <3>2, <3>3
    <3>6. n = "end" => pending'[Client] = {} /\ LastOf(Client)'.state = "decide"
      BY <1>1, <1>2, <1>3, <2>1, <3>2
    <3> QED BY <1>2, <1>4, <2>1, <3>2, <3>4, <3>5, <3>6 DEF ClientBounds
  <2>2. CASE r # Client
    BY <1>0, <1>2, <1>3, <1>4, <1>6, <1>8, <1>10, <2>2 DEF ClientBounds
  <2> QED BY <2>1, <2>2
<1>19. MemoryKeeps'
  <2>1. Len(wire[Peer(r)]) = Exchanged(Peer(r)) - Exchanged(r)
    BY <1>0, <1>1, <1>7, <1>p DEF MemoryKeeps
  <2>2. Len(wire'[Peer(r)]) = Exchanged(Peer(r))' - Exchanged(r)'
    BY <1>3, <1>5, <1>7, <1>p, <2>1
  <2>3. Exchanged(r)' >= Exchanged(Peer(r))' =>
          Len(wire'[r]) = Exchanged(r)' - Exchanged(Peer(r))'
    <3>1. Len(wire[r]) = 0
      BY <1>0, <1>1, <1>7, <1>p, NothingInFlight DEF SessionInv
    <3>2. Exchanged(r)' <= Exchanged(Peer(r))'
      BY <1>1, <1>3, <1>7, <1>p
    <3>3. Exchanged(r)' \in Nat /\ Exchanged(Peer(r))' \in Nat
      BY <1>3, <1>7, <1>p
    <3> QED BY <1>5, <3>1, <3>2, <3>3
  <2> QED BY <1>p, <2>2, <2>3 DEF MemoryKeeps
<1>20. InjectionOK'
  <2>1. \A q \in Role : q # r => (IsComplete(q)' <=> IsComplete(q))
    BY <1>4 DEF IsComplete, Local
  <2>2. \A plan \in config.fault : plan.role \in Role
    BY <1>0 DEF GenTypeOK, Accepted
  <2>3. \A q \in Role : injecting[q] => q # r
    BY <1>1
  <2> QED BY <1>0, <1>1, <1>2, <1>3, <2>1, <2>2, <2>3 DEF InjectionOK
<1>21. FaultsHaveACause'
  BY <1>0, <1>2, <1>3, PeerFacts DEF FaultsHaveACause
<1>22. ViewsAreAssigned'
  BY <1>0, <1>1, <1>2, <1>3 DEF ViewsAreAssigned
<1> QED
  BY <1>12, <1>13, <1>14, <1>15, <1>16, <1>17, <1>18, <1>19, <1>20, <1>21, <1>22 DEF GenInv

\* Nobody is refused by a peer that has reported: both end on the same frame.
LEMMA EndedTogether ==
  ASSUME GenInv, NEW r \in Role, Cause(r, Closed) \/ \E failure : Cause(r, failure),
         status[r] = "running", ~Faulted(r), ~injecting[r]
  PROVE  Faulted(Peer(r)) \/ (r = Server /\ status[Client] = "crashed")
<1>0. /\ TypeOK /\ StatusKnown /\ InStep /\ MemoryKeeps /\ SessionInv /\ StatusOK
      /\ RecordsAreWalks /\ CommonHistory /\ MachineFollowsRecord /\ AheadInOwnTurn
  BY DEF GenInv, SessionInv
<1> DEFINE p == Peer(r)
<1>p. p \in Role /\ p # r /\ Peer(p) = r
  BY PeerFacts
<1>1. ~open[p] /\ (pending[r] # {} \/ (Blocked(r) /\ wire[p] = <<>>))
  BY DEF Cause
<1> HIDE DEF p
<1> SUFFICES ASSUME ~Faulted(p), ~(r = Server /\ status[Client] = "crashed")
             PROVE  FALSE
  BY DEF p
<1>2. status[p] = "reported"
  <2>1. status[p] # "running"
    BY <1>0, <1>1, <1>p DEF StatusOK
  <2>2. p = Client => r = Server
    BY <1>p, Roles
  <2> QED BY <1>0, <1>p, <2>1, <2>2 DEF StatusKnown
<1>3. /\ pending[p] = {} /\ machine[p].current \in State
      /\ Terminal(Conv.states[machine[p].current]) /\ machine[p].current \in Driven
  BY <1>0, <1>2, <1>p DEF StatusOK, TypeOK, InStep
<1>4. machine[p].current = "end" /\ LeadsTo(p, "end")
  <2>1. machine[p].current = "end"
    BY <1>3, Actors
  <2> QED BY <1>0, <1>3, <1>p, <2>1 DEF MachineFollowsRecord, Follows
<1>5. PICK s \in State : LeadsTo(r, s) /\ s # "end"
  <2>1. ASSUME NEW e \in pending[r] PROVE LeadsTo(r, e.state) /\ e.state \in State /\ e.state # "end"
    BY <1>0, <2>1, Prepared
  <2>2. CASE Blocked(r)
    <3>1. Local(r).kind \in Accepting /\ pending[r] = {} /\ machine[r].current \in State
      BY <1>0, <2>2 DEF Blocked, Idle, TypeOK
    <3>2. machine[r].current # "end"
      BY <3>1, Kinds DEF Local, Accepting
    <3>3. LeadsTo(r, machine[r].current)
      BY <1>0, <3>1 DEF MachineFollowsRecord, Follows
    <3> QED BY <3>1, <3>2, <3>3
  <2> QED BY <1>1, <2>1, <2>2
<1>6. /\ Exchanged(r) \in Nat /\ Exchanged(p) \in Nat
      /\ Exchanged(r) = Len(trace[r]) /\ Exchanged(p) = Len(trace[p])
  BY <1>0, <1>p, ExchangedFacts
<1>7. Exchanged(r) # Exchanged(p)
  BY <1>0, <1>4, <1>5, <1>p, SamePosition
<1>8. ~(Exchanged(r) > Exchanged(p))
  <2> SUFFICES ASSUME Exchanged(r) > Exchanged(p) PROVE FALSE
    OBVIOUS
  <2> DEFINE i == Exchanged(p) + 1
  <2>1. trace[r][i].state = "end"
    BY <1>0, <1>4, <1>p, SamePosition
  <2>2. i \in 1..Len(trace[r])
    BY <1>6
  <2> HIDE DEF i
  <2>a. EntryOK(r, i)
    BY <1>0, <2>2 DEF RecordsAreWalks
  <2>b. trace[r] \in Seq(Envelope)
    BY <1>0 DEF TypeOK
  <2>3. StepOf(trace[r][i]) # {} /\ trace[r][i] \in Envelope
    BY <2>2, <2>a, <2>b DEF EntryOK
  <2>4. trace[r][i].frame \in Frame /\ trace[r][i].state \in State
    BY <2>3 DEF Envelope
  <2>5. Terminal(Conv.states["end"])
    BY Actors DEF Driven
  <2> QED BY <2>1, <2>3, <2>4, <2>5, TerminalFacts DEF StepOf
<1>9. ~(Exchanged(p) > Exchanged(r))
  <2> SUFFICES ASSUME Exchanged(p) > Exchanged(r) PROVE FALSE
    OBVIOUS
  <2>1. pending[r] = {}
    BY <1>0, <1>p DEF AheadInOwnTurn
  <2>2. wire[p] = <<>>
    BY <1>1, <2>1
  <2>a. Exchanged(p) >= Exchanged(r)
    BY <1>6
  <2>3. Len(wire[p]) = Exchanged(p) - Exchanged(r)
    BY <1>0, <1>p, <2>a DEF MemoryKeeps
  <2> QED BY <1>6, <2>2, <2>3
<1> QED BY <1>6, <1>7, <1>8, <1>9

\* A call that fails keeps the invariant.
LEMMA FailedKeeps ==
  ASSUME GenInv, SessionInv', NEW r \in Role, NEW s \in Driven \ {"end"}, NEW failure \in Failure,
         Failed(r, s, failure)
  PROVE  GenInv'
<1>0. /\ TypeOK /\ GenTypeOK /\ StatusKnown /\ InStep /\ FaultsLead /\ TokensCounted
      /\ ServerBounds /\ ClientBounds /\ MemoryKeeps /\ InjectionOK /\ FaultsHaveACause
      /\ ViewsAreAssigned /\ SessionInv
  BY DEF GenInv, SessionInv
<1>1. /\ ~Faulted(r) /\ status[r] = "running" /\ Cause(r, failure)
      /\ failure \in DOMAIN FailureEdges
      /\ wire' = wire /\ status' = status
      /\ config' = config /\ at' = at /\ tokens' = tokens /\ fired' = fired
  BY DEF Failed
<1>p. Peer(r) \in Role /\ Peer(r) # r /\ Peer(Peer(r)) = r
      /\ \A q \in Role : q = r \/ q = Peer(r)
  BY PeerFacts
<1>2. PICK e \in Envelope : /\ trace' = [trace EXCEPT ![r] = Append(trace[r], e)]
                            /\ e.frame = FaultFrame(r, failure)
  BY DEF Failed
<1>3. /\ Faulted(r)' /\ LastOf(r)' = e
      /\ Exchanged(r)' = Exchanged(r)
      /\ \A q \in Role : q # r => /\ trace'[q] = trace[q]
                                  /\ Exchanged(q)' = Exchanged(q)
                                  /\ Faulted(q)' <=> Faulted(q)
  <2>1. e.frame.op = "fault"
    BY <1>2 DEF FaultFrame
  <2>2. /\ Faulted(r)' <=> e.frame.op = "fault"
        /\ e.frame.op = "fault" => Exchanged(r)' = Len(trace[r])
        /\ Len(trace'[r]) = Len(trace[r]) + 1
        /\ trace'[r][Len(trace[r]) + 1] = e
        /\ \A q \in Role : q # r => /\ trace'[q] = trace[q]
                                    /\ Faulted(q)' <=> Faulted(q)
                                    /\ Exchanged(q)' = Exchanged(q)
    BY <1>0, <1>2, RecordFacts
  <2> QED BY <1>0, <1>1, <2>1, <2>2, ExchangedFacts DEF LastOf
<1>4. /\ Conv.states[machine'[r].current].kind = "fail"
      /\ \A q \in Role : q # r => machine'[q] = machine[q]
  <2>1. PICK x \in Nat : machine' = [machine EXCEPT ![r] =
          [current |-> FailureEdges[failure], sequence |-> x]]
    BY DEF Failed
  <2>2. machine'[r].current = FailureEdges[failure]
    BY <1>0, <2>1 DEF TypeOK
  <2> QED BY <1>0, <1>1, <2>1, <2>2, FailureSteps DEF TypeOK
<1>5. /\ \A q \in Role : q # r => pending'[q] = pending[q]
      /\ pending'[r] = {}
  BY <1>0 DEF Failed, TypeOK
<1>6. /\ injecting' \in [Role -> BOOLEAN] /\ ~injecting'[r]
      /\ \A q \in Role : q # r => injecting'[q] = injecting[q]
  BY <1>0 DEF Failed, GenTypeOK
<1>7. \A q \in Role : q # r => LastOf(q)' = LastOf(q) /\ Counted(q)' = Counted(q)
  BY <1>1, <1>3, <1>4, <1>5 DEF LastOf, Counted
<1>8. Client # Server /\ Client \in Role /\ Server \in Role /\ (r = Client \/ r = Server)
  BY Roles
<1>9. /\ e.frame.observer = r /\ e.frame.failure = failure
  BY <1>2 DEF FaultFrame
<1>10. \A plan \in config.fault : plan.role \in Role /\ \A other \in config.fault : plan = other
  BY <1>0, ConfigAssumption DEF GenTypeOK, Accepted
<1>11. \/ injecting[r] /\ \E plan \in config.fault : failure = plan.failure
       \/ ~injecting[r] /\ failure \in MapPeerError(r)
          /\ (Faulted(Peer(r)) \/ (r = Server /\ status[Client] = "crashed"))
  <2>1. CASE injecting[r]
    BY <1>1, <2>1 DEF Cause
  <2>2. CASE ~injecting[r]
    BY <1>1, <2>2, EndedTogether DEF Cause
  <2> QED BY <2>1, <2>2
<1>12. GenTypeOK'
  <2>1. Accepted(config)' <=> Accepted(config)
    BY <1>1 DEF Accepted
  <2> QED BY <1>0, <1>1, <1>6, <2>1 DEF GenTypeOK
<1>13. StatusKnown'
  BY <1>0, <1>1 DEF StatusKnown
<1>14. InStep'
  BY <1>0, <1>1, <1>3, <1>4 DEF InStep, CallAt
<1>15. FaultsLead'
  BY <1>0, <1>3, <1>4, <1>7, <1>9 DEF FaultsLead
<1>16. TokensCounted'
  BY <1>0, <1>3, <1>4, <1>7 DEF TokensCounted, TokenCount
<1>17. ServerBounds'
  BY <1>0, <1>1, <1>3, <1>4, <1>5, <1>7, <1>8 DEF ServerBounds
<1>18. ClientBounds'
  BY <1>0, <1>1, <1>3, <1>4, <1>5, <1>7, <1>8 DEF ClientBounds
<1>19. MemoryKeeps'
  BY <1>0, <1>1, <1>3, <1>p DEF MemoryKeeps
<1>20. InjectionOK'
  <2>1. \A q \in Role : q # r => (IsComplete(q)' <=> IsComplete(q))
    BY <1>4 DEF IsComplete, Local
  <2>2. ASSUME NEW q \in Role, injecting'[q]
        PROVE  /\ fired' /\ status'[q] = "running" /\ ~Faulted(q)'
               /\ pending'[q] # {} \/ ~IsComplete(q)'
               /\ \A plan \in config'.fault : q = plan.role
    <3>1. q # r /\ injecting[q]
      BY <1>6, <2>2
    <3>2. /\ fired /\ status[q] = "running" /\ ~Faulted(q)
          /\ pending[q] # {} \/ ~IsComplete(q)
          /\ \A plan \in config.fault : q = plan.role
      BY <1>0, <3>1 DEF InjectionOK
    <3> QED BY <1>1, <1>3, <1>5, <2>1, <3>1, <3>2
  <2>3. fired' => config'.fault # {}
    BY <1>0, <1>1 DEF InjectionOK
  <2>4. ASSUME fired', NEW plan \in config'.fault
        PROVE  injecting'[plan.role] \/ Faulted(plan.role)'
    <3>1. injecting[plan.role] \/ Faulted(plan.role)
      BY <1>0, <1>1, <2>4 DEF InjectionOK
    <3>2. plan.role \in Role
      BY <1>1, <1>10
    <3> QED BY <1>3, <1>6, <3>1, <3>2
  <2> QED BY <2>2, <2>3, <2>4 DEF InjectionOK
<1>21. FaultsHaveACause'
  <2>1. \/ fired /\ \A plan \in config.fault : r = plan.role
        \/ Faulted(Peer(r)) \/ (r = Server /\ status[Client] = "crashed")
    BY <1>0, <1>11 DEF InjectionOK
  <2>2. ASSUME NEW q \in Role, Faulted(q)'
        PROVE  \/ fired' /\ \A plan \in config'.fault : q = plan.role
               \/ Faulted(Peer(q))'
               \/ q = Server /\ status'[Client] = "crashed"
    BY <1>1, <1>3, <1>p, <2>1, <2>2
  <2> QED BY <2>2 DEF FaultsHaveACause
<1>22. ViewsAreAssigned'
  <2> DEFINE Assigned(q, f) ==
        \/ \E plan \in config.fault :
             /\ fired
             /\ \/ q = plan.role /\ f = plan.failure
                \/ q # plan.role /\ f \in plan.peer_failure
                \/ q # plan.role /\ plan.peer_failure = {} /\ f = Closed
        \/ q = Server /\ 0 \in config.cancel_after /\ f = Closed
  <2>1. ASSUME NEW q \in Role, q # r, Faulted(q)
        PROVE  Assigned(q, LastOf(q).frame.failure)
    BY <1>0, <2>1 DEF ViewsAreAssigned, LastOf
  <2>2. Assigned(r, failure)
    <3>1. CASE injecting[r]
      <4>1. PICK plan \in config.fault : failure = plan.failure
        BY <1>11, <3>1
      <4>2. fired /\ r = plan.role
        BY <1>0, <3>1 DEF InjectionOK
      <4> QED BY <4>1, <4>2
    <3>2. CASE ~injecting[r]
      <4>1. fired => \A plan \in config.fault : plan.role # r
        BY <1>0, <1>1, <3>2 DEF InjectionOK
      <4>2. fired \/ (r = Server /\ 0 \in config.cancel_after)
        <5>1. CASE Faulted(Peer(r))
          <6>1. fired \/ (Peer(r) = Server /\ status[Client] = "crashed")
            BY <1>0, <1>1, <1>p, <5>1 DEF FaultsHaveACause
          <6> QED BY <1>1, <1>8, <1>p, <6>1
        <5>2. CASE r = Server /\ status[Client] = "crashed"
          BY <1>0, <1>8, <5>2 DEF StatusKnown
        <5> QED BY <1>11, <3>2, <5>1, <5>2
      <4>3. CASE fired
        <5>1. PICK plan \in config.fault : TRUE
          BY <1>0, <4>3 DEF InjectionOK
        <5>2. \A other \in config.fault : other = plan
          BY <1>10
        <5>3. r # plan.role
          BY <4>1, <4>3
        <5>4. {other \in config.fault : r # other.role} = {plan}
          BY <5>1, <5>2, <5>3
        <5>5. UNION {other.peer_failure : other \in {o \in config.fault : r # o.role}}
                = plan.peer_failure
          BY <5>4
        <5>6. failure \in IF plan.peer_failure # {} THEN plan.peer_failure ELSE {Closed}
          BY <1>11, <3>2, <4>3, <5>5 DEF MapPeerError
        <5> QED BY <4>3, <5>1, <5>3, <5>6
      <4>4. CASE ~fired
        BY <1>11, <3>2, <4>2, <4>4 DEF MapPeerError
      <4> QED BY <4>3, <4>4
    <3> QED BY <3>1, <3>2
  <2>3. ASSUME NEW q \in Role, Faulted(q)'
        PROVE  Assigned(q, LastOf(q)'.frame.failure)
    <3>1. CASE q = r
      BY <1>3, <1>9, <2>2, <3>1
    <3>2. CASE q # r
      <4>1. Faulted(q) /\ LastOf(q)' = LastOf(q)
        BY <1>3, <1>7, <2>3, <3>2
      <4>2. Assigned(q, LastOf(q).frame.failure)
        BY <2>1, <3>2, <4>1
      <4> HIDE DEF Assigned
      <4> QED BY <4>1, <4>2
    <3> QED BY <3>1, <3>2
  <2> QED BY <1>1, <2>3 DEF ViewsAreAssigned, LastOf
<1> QED
  BY <1>12, <1>13, <1>14, <1>15, <1>16, <1>17, <1>18, <1>19, <1>20, <1>21, <1>22 DEF GenInv

\* The injector's choice keeps the invariant.
LEMMA ChosenKeeps ==
  ASSUME GenInv, SessionInv', NEW r \in Role, Chosen(r)
  PROVE  GenInv'
<1>0. /\ TypeOK /\ GenTypeOK /\ StatusKnown /\ InStep /\ FaultsLead /\ TokensCounted
      /\ ServerBounds /\ ClientBounds /\ MemoryKeeps /\ InjectionOK /\ FaultsHaveACause
      /\ ViewsAreAssigned /\ SessionInv
  BY DEF GenInv, SessionInv
<1>1. /\ machine' = machine /\ pending' = pending /\ wire' = wire /\ trace' = trace
      /\ open' = open /\ status' = status /\ config' = config /\ at' = at /\ tokens' = tokens
  BY DEF Chosen, vars
<1>2. /\ status[r] = "running" /\ ~Faulted(r) /\ ~injecting[r] /\ ~fired /\ fired' = TRUE
      /\ pending[r] # {} \/ ~IsComplete(r)
      /\ \E plan \in config.fault : r = plan.role
  BY DEF Chosen
<1>3. /\ injecting' \in [Role -> BOOLEAN] /\ injecting'[r]
      /\ \A q \in Role : q # r => injecting'[q] = injecting[q]
  BY <1>0 DEF Chosen, GenTypeOK
<1>4. \A q \in Role : /\ Faulted(q)' <=> Faulted(q)
                      /\ Exchanged(q)' = Exchanged(q)
                      /\ LastOf(q)' = LastOf(q) /\ Counted(q)' = Counted(q)
                      /\ IsComplete(q)' <=> IsComplete(q)
  BY <1>1 DEF Faulted, Exchanged, LastOf, Counted, IsComplete, Local
<1>5. \A plan, other \in config.fault : plan = other
  BY <1>0, ConfigAssumption DEF GenTypeOK
<1>6. \A plan \in config.fault : r = plan.role
  BY <1>2, <1>5
<1>7. GenTypeOK'
  <2>1. Accepted(config)' <=> Accepted(config)
    BY <1>1 DEF Accepted
  <2> QED BY <1>0, <1>1, <1>2, <1>3, <2>1 DEF GenTypeOK
<1>8. StatusKnown' /\ InStep' /\ FaultsLead'
  BY <1>0, <1>1, <1>4 DEF StatusKnown, InStep, FaultsLead, CallAt
<1>9. TokensCounted'
  BY <1>0, <1>1, <1>4 DEF TokensCounted, TokenCount
<1>10. ServerBounds' /\ ClientBounds'
  BY <1>0, <1>1, <1>4, Roles DEF ServerBounds, ClientBounds
<1>11. MemoryKeeps'
  BY <1>0, <1>1, <1>4, PeerFacts DEF MemoryKeeps
<1>12. InjectionOK'
  <2>1. \A q \in Role : injecting'[q] => q = r
    BY <1>0, <1>2, <1>3 DEF InjectionOK
  <2> QED BY <1>1, <1>2, <1>3, <1>4, <1>6, <2>1 DEF InjectionOK
<1>13. FaultsHaveACause'
  BY <1>0, <1>1, <1>2, <1>4, PeerFacts DEF FaultsHaveACause
<1>14. ViewsAreAssigned'
  BY <1>0, <1>1, <1>2, <1>4 DEF ViewsAreAssigned
<1> QED
  BY <1>7, <1>8, <1>9, <1>10, <1>11, <1>12, <1>13, <1>14 DEF GenInv

\* A driver that returns keeps the invariant.
LEMMA LeftKeeps ==
  ASSUME GenInv, SessionInv', NEW r \in Role, NEW how \in {"reported", "crashed"},
         Left(r, how)
  PROVE  GenInv'
<1>0. /\ TypeOK /\ GenTypeOK /\ StatusKnown /\ InStep /\ FaultsLead /\ TokensCounted
      /\ ServerBounds /\ ClientBounds /\ MemoryKeeps /\ InjectionOK /\ FaultsHaveACause
      /\ ViewsAreAssigned /\ SessionInv
  BY DEF GenInv, SessionInv
<1>1. /\ machine' = machine /\ pending' = pending /\ wire' = wire /\ trace' = trace
      /\ config' = config /\ at' = at /\ tokens' = tokens /\ fired' = fired
      /\ injecting' = injecting
  BY DEF Left
<1>2. /\ status[r] = "running" /\ ~injecting[r]
      /\ how = "crashed" => r = Client /\ 0 \in config.cancel_after
      /\ status'[r] = how /\ \A q \in Role : q # r => status'[q] = status[q]
  BY <1>0 DEF Left, TypeOK
<1>4. \A q \in Role : /\ Faulted(q)' <=> Faulted(q)
                      /\ Exchanged(q)' = Exchanged(q)
                      /\ LastOf(q)' = LastOf(q) /\ Counted(q)' = Counted(q)
                      /\ IsComplete(q)' <=> IsComplete(q)
  BY <1>1 DEF Faulted, Exchanged, LastOf, Counted, IsComplete, Local
<1>7. GenTypeOK'
  <2>1. Accepted(config)' <=> Accepted(config)
    BY <1>1 DEF Accepted
  <2> QED BY <1>0, <1>1, <2>1 DEF GenTypeOK
<1>8. StatusKnown'
  BY <1>0, <1>1, <1>2 DEF StatusKnown
<1>9. InStep' /\ FaultsLead' /\ TokensCounted'
  BY <1>0, <1>1, <1>4 DEF InStep, FaultsLead, CallAt, TokensCounted, TokenCount
<1>10. ServerBounds' /\ ClientBounds'
  BY <1>0, <1>1, <1>4, Roles DEF ServerBounds, ClientBounds
<1>11. MemoryKeeps'
  BY <1>0, <1>1, <1>4, PeerFacts DEF MemoryKeeps
<1>12. InjectionOK'
  <2>1. \A q \in Role : injecting[q] => q # r
    BY <1>2
  <2>2. \A plan \in config.fault : plan.role \in Role
    BY <1>0 DEF GenTypeOK, Accepted
  <2> QED BY <1>0, <1>1, <1>2, <1>4, <2>1, <2>2 DEF InjectionOK
<1>13. FaultsHaveACause'
  <2>1. status[Client] = "crashed" => status'[Client] = "crashed"
    BY <1>2, Roles
  <2> QED BY <1>0, <1>1, <1>4, <2>1, PeerFacts DEF FaultsHaveACause
<1>14. ViewsAreAssigned'
  BY <1>0, <1>1, <1>4 DEF ViewsAreAssigned
<1> QED
  BY <1>7, <1>8, <1>9, <1>10, <1>11, <1>12, <1>13, <1>14 DEF GenInv

\* The drivers start in the invariant.
LEMMA GenInitInv == GenInit => GenInv
<1> SUFFICES ASSUME GenInit PROVE GenInv
  OBVIOUS
<1>1. SessionInv /\ Init
  BY InitInv DEF GenInit
<1>2. /\ machine = [r \in Role |-> [current |-> "start", sequence |-> 0]]
      /\ pending = [r \in Role |-> {}] /\ wire = [r \in Role |-> <<>>]
      /\ trace = [r \in Role |-> <<>>] /\ status = [r \in Role |-> "running"]
  BY <1>1, GenerateAssumption DEF Init
<1>3. /\ config \in Config /\ Accepted(config) /\ fired = FALSE
      /\ injecting = [r \in Role |-> FALSE] /\ tokens = [r \in Role |-> 0]
      /\ at = [r \in Role |-> "prompt"]
  BY DEF GenInit
<1>5. \A r \in Role : ~Faulted(r) /\ Exchanged(r) = 0 /\ Counted(r) = 0 /\ Len(wire[r]) = 0
  BY <1>2, <1>3 DEF Faulted, Exchanged, Counted
<1>6. GenTypeOK
  BY <1>3 DEF GenTypeOK
<1>7. StatusKnown /\ FaultsLead /\ FaultsHaveACause /\ ViewsAreAssigned
  BY <1>2, <1>5 DEF StatusKnown, FaultsLead, FaultsHaveACause, ViewsAreAssigned
<1>8. InStep
  BY <1>2, <1>3 DEF InStep, CallAt, Driven
<1>9. TokensCounted
  BY <1>2, <1>5 DEF TokensCounted, TokenCount
<1>10. ServerBounds /\ ClientBounds
  <2>1. config.tokens \in Nat
    BY <1>3, ConfigAssumption
  <2> QED BY <1>2, <1>5, <2>1, Roles DEF ServerBounds, ClientBounds
<1>11. MemoryKeeps
  BY <1>5, PeerFacts DEF MemoryKeeps
<1>12. InjectionOK
  BY <1>3 DEF InjectionOK
<1> QED
  BY <1>1, <1>6, <1>7, <1>8, <1>9, <1>10, <1>11, <1>12 DEF GenInv

\* Every step of the drivers is one of the session and keeps the invariant.
LEMMA GenStep ==
  ASSUME GenInv, GenNext
  PROVE  [Next]_vars /\ GenInv'
<1>1. SessionInv /\ GenTypeOK /\ InStep /\ InjectionOK
  BY DEF GenInv
<1>2. PICK r \in Role :
        \/ \E n \in Driven : Emitted(r, n)
        \/ \E e \in Envelope : Sent(r, e)
        \/ \E e \in Envelope, n \in Driven : Taken(r, e, n)
        \/ \E s \in Driven \ {"end"}, failure \in Failure : Failed(r, s, failure)
        \/ Chosen(r)
        \/ \E how \in {"reported", "crashed"} : Left(r, how)
  BY <1>1, GenShapes
<1>3. [Next]_vars
  BY <1>1, GenShapes
<1>4. SessionInv'
  BY <1>1, <1>3, StepInv
<1> QED
  BY <1>2, <1>3, <1>4, EmittedKeeps, SentKeeps, TakenKeeps, FailedKeeps, ChosenKeeps, LeftKeeps

\* So does a step that changes nothing.
LEMMA GenStutter ==
  ASSUME GenInv, UNCHANGED allVars
  PROVE  [Next]_vars /\ GenInv'
<1>1. UNCHANGED vars /\ UNCHANGED genVars
  BY DEF allVars
<1>2. /\ machine' = machine /\ pending' = pending /\ wire' = wire
      /\ trace' = trace /\ open' = open /\ status' = status
      /\ config' = config /\ at' = at /\ tokens' = tokens
      /\ fired' = fired /\ injecting' = injecting
  BY <1>1 DEF vars, genVars
<1>3. SessionInv'
  BY <1>1, StepInv DEF GenInv
<1>4. \A q : /\ Faulted(q)' = Faulted(q) /\ Exchanged(q)' = Exchanged(q)
             /\ LastOf(q)' = LastOf(q) /\ Counted(q)' = Counted(q)
             /\ IsComplete(q)' = IsComplete(q)
  BY <1>2 DEF Faulted, Exchanged, LastOf, Counted, IsComplete, Local
<1>5. Accepted(config)' = Accepted(config)
  BY <1>2 DEF Accepted
<1>6. /\ GenTypeOK /\ StatusKnown /\ InStep /\ FaultsLead /\ TokensCounted
      /\ ServerBounds /\ ClientBounds /\ MemoryKeeps /\ InjectionOK /\ FaultsHaveACause
      /\ ViewsAreAssigned
  BY DEF GenInv
<1>7. GenTypeOK' /\ StatusKnown'
  BY <1>2, <1>5, <1>6 DEF GenTypeOK, StatusKnown
<1>8. InStep' /\ FaultsLead' /\ TokensCounted'
  BY <1>2, <1>4, <1>6 DEF InStep, CallAt, FaultsLead, TokensCounted, TokenCount
<1>9. ServerBounds' /\ ClientBounds' /\ MemoryKeeps'
  BY <1>2, <1>4, <1>6 DEF ServerBounds, ClientBounds, MemoryKeeps
<1>10. InjectionOK' /\ FaultsHaveACause'
  BY <1>2, <1>4, <1>6 DEF InjectionOK, FaultsHaveACause
<1>11. ViewsAreAssigned'
  BY <1>2, <1>4, <1>6 DEF ViewsAreAssigned
<1> QED
  BY <1>1, <1>3, <1>7, <1>8, <1>9, <1>10, <1>11 DEF GenInv

\* The second run starts as the first one did.
LEMMA AgainInit == RunAgain /\ GenInv => GenInit'
<1> SUFFICES ASSUME RunAgain, GenInv PROVE GenInit'
  OBVIOUS
<1>1. Init'
  BY DEF RunAgain, Init
<1>2. config' \in Config /\ Accepted(config)'
  BY DEF RunAgain, GenInv, GenTypeOK, Accepted
<1> QED BY <1>1, <1>2 DEF RunAgain, GenInit

\* A second run starts in the invariant as the first did.
LEMMA GenInitInvNext == GenInit' => GenInv'
<1> SUFFICES ASSUME GenInit' PROVE GenInv'
  OBVIOUS
<1> QED BY GenInitInv, PTL

\* The drivers run the protocol: what they and the injector do with machines, records
\* and channels is a behaviour of the session they are built on.
THEOREM DriversRunTheSession == GenSpec => Spec
<1>1. GenInit => GenInv /\ Init
  BY GenInitInv DEF GenInit
<1>2. GenInv /\ [GenNext]_allVars => GenInv' /\ [Next]_vars
  BY GenStep, GenStutter
<1> QED BY <1>1, <1>2, PTL DEF GenSpec, Spec

\* The inductive invariant of the drivers, whether a command line is run once or twice.
THEOREM GenerateInvariant == (GenSpec => []GenInv) /\ (ReplaySpec => []GenInv)
<1>1. GenInv /\ [GenNext]_allVars => GenInv'
  BY GenStep, GenStutter
<1>2. GenSpec => []GenInv
  BY <1>1, GenInitInv, PTL DEF GenSpec
<1>3. GenInv /\ [ReplayNext]_replayVars => GenInv'
  <2> SUFFICES ASSUME GenInv, [ReplayNext]_replayVars PROVE GenInv'
    OBVIOUS
  <2>1. CASE RunAgain
    BY <2>1, AgainInit, GenInitInvNext
  <2>2. CASE GenNext
    BY <2>2, GenStep
  <2>3. CASE UNCHANGED replayVars
    BY <2>3, GenStutter DEF replayVars
  <2> QED BY <2>1, <2>2, <2>3 DEF ReplayNext
<1>4. ReplaySpec => []GenInv
  BY <1>3, GenInitInv, PTL DEF ReplaySpec, ReplayInit
<1> QED BY <1>2, <1>4

-----------------------------------------------------------------------------
(***************************************************************************)
(* What follows from the invariant.                                        *)
(***************************************************************************)
LEMMA InStepHolds == GenInv => DriverInStep
<1> SUFFICES ASSUME GenInv, NEW r \in Role
             PROVE  /\ \/ status[r] \in {"running", "reported"}
                       \/ r = Client /\ 0 \in config.cancel_after
                    /\ Idle(r) /\ ~Faulted(r) => Local(r).kind \in Permits(r)
  BY DEF DriverInStep
<1>1. StatusKnown /\ InStep
  BY DEF GenInv
<1>2. \/ status[r] \in {"running", "reported"}
      \/ r = Client /\ 0 \in config.cancel_after
  BY <1>1 DEF StatusKnown
<1>3. ASSUME ~Faulted(r) PROVE Local(r).kind \in Permits(r)
  <2> DEFINE s == machine[r].current
             k == ProjectState(Conv.states[s], r).kind
  <2>1. s \in Driven /\ at[r] = CallAt(r, s)
    BY <1>1, <1>3 DEF InStep
  <2>2. r = Client \/ r = Server
    BY Roles
  <2>3. /\ s = "start" => k = IF r = Client THEN "send" ELSE "receive"
        /\ s = "decide" => k = IF r = Client THEN "branch" ELSE "select"
        /\ s = "emit-token" => k = IF r = Client THEN "receive" ELSE "send"
        /\ s = "client-action" => k = IF r = Client THEN "select" ELSE "branch"
        /\ s = "cancel" => k = IF r = Client THEN "send_cancel" ELSE "receive_cancel"
        /\ s = "end" => k = "end"
    BY <2>2, Kinds, Roles
  <2>4. Local(r).kind = k
    BY DEF Local
  <2> HIDE DEF s, k
  <2> QED BY <2>1, <2>2, <2>3, <2>4, Roles DEF Permits, CallAt, Driven
<1> QED BY <1>2, <1>3

\* Drivers and machines stay in step: through every token, cancellation and injected
\* fault no driver asks its machine for an action it would refuse, and only a client
\* whose command line is refused stops without a report.
THEOREM DriversStayInStep == ReplaySpec => []DriverInStep
BY GenerateInvariant, InStepHolds, PTL

\* Where a driver that has reported without a fault stands.
LEMMA ReportedEnd ==
  ASSUME GenInv, NEW r \in Role, status[r] = "reported"
  PROVE  /\ pending[r] = {} /\ machine[r].current \in State
         /\ Terminal(Conv.states[machine[r].current])
         /\ Faulted(r) <=> Local(r).kind = "fail"
         /\ ~Faulted(r) <=> Local(r).kind = "end"
         /\ ~Faulted(r) => machine[r].current = "end"
<1>1. pending[r] = {} /\ Terminal(Conv.states[machine[r].current]) /\ machine[r].current \in State
  BY DEF GenInv, SessionInv, StatusOK, TypeOK
<1>2. ~Faulted(r) => machine[r].current = "end"
  <2>1. ~Faulted(r) => machine[r].current \in Driven
    BY DEF GenInv, InStep
  <2> QED BY <1>1, <2>1, Actors
<1>3. ~Faulted(r) => Local(r).kind = "end"
  BY <1>2, Kinds DEF Local
<1>4. Faulted(r) => Local(r).kind = "fail"
  <2>1. Faulted(r) => Conv.states[machine[r].current].kind = "fail"
    BY DEF GenInv, FaultsLead
  <2> QED BY <2>1 DEF Local, ProjectState
<1> QED BY <1>1, <1>2, <1>3, <1>4

\* In the invariant, verify-session accepts exactly the complete pairs of reports.
LEMMA VerifiedHolds == GenInv => VerifiedMeansComplete
<1> SUFFICES ASSUME GenInv, \A r \in Role : status[r] = "reported"
             PROVE  /\ VerifySession(ReportOf(Client), ReportOf(Server))
                         <=> \A r \in Role : Local(r).kind = "end"
                    /\ VerifySession(ReportOf(Client), ReportOf(Server)) =>
                         tokens[Client] \in {config.tokens} \cup config.cancel_after
  BY DEF VerifiedMeansComplete
<1>0. Role = {Client, Server} /\ Client \in Role /\ Server \in Role /\ Client # Server
      /\ Peer(Client) = Server
  BY Roles
<1> DEFINE Frames(r) == [i \in 1..Len(trace[r]) |-> trace[r][i].frame]
<1>1. VerifySession(ReportOf(Client), ReportOf(Server)) <=>
        /\ Frames(Client) = Frames(Server)
        /\ Terminal(Conv.states[machine[Client].current])
        /\ Terminal(Conv.states[machine[Server].current])
        /\ Conv.states[machine[Client].current] = Conv.states[machine[Server].current]
        /\ tokens[Client] = tokens[Server]
  BY DEF VerifySession, ReportOf
<1>2. \A r \in Role : Len(trace[r]) \in Nat /\ trace[r] \in Seq(Envelope)
  BY DEF GenInv, SessionInv, TypeOK
<1>3. ASSUME Frames(Client) = Frames(Server)
      PROVE  \A r \in Role : ~Faulted(r)
  <2>1. Len(trace[Client]) = Len(trace[Server])
    <3>1. DOMAIN Frames(Client) = DOMAIN Frames(Server)
      BY <1>3
    <3>2. 1..Len(trace[Client]) = 1..Len(trace[Server])
      BY <3>1
    <3> DEFINE a == Len(trace[Client])
               b == Len(trace[Server])
    <3>3. a \in Nat /\ b \in Nat /\ 1..a = 1..b
      BY <1>0, <1>2, <3>2
    <3> HIDE DEF a, b
    <3>4. (a \in 1..a <=> a \in 1..b) /\ (b \in 1..a <=> b \in 1..b)
      BY <3>3
    <3>5. a = b
      BY <3>3, <3>4
    <3> QED BY <3>5 DEF a, b
  <2>2. Len(trace[Client]) # 0 => LastOf(Client).frame = LastOf(Server).frame
    <3> SUFFICES ASSUME Len(trace[Client]) # 0 PROVE LastOf(Client).frame = LastOf(Server).frame
      OBVIOUS
    <3> DEFINE n == Len(trace[Client])
    <3>1. n \in 1..Len(trace[Client]) /\ n \in 1..Len(trace[Server])
      BY <1>0, <1>2, <2>1
    <3>2. Frames(Client)[n] = trace[Client][n].frame /\ Frames(Server)[n] = trace[Server][n].frame
      BY <3>1
    <3> QED BY <1>3, <2>1, <3>2 DEF LastOf
  <2>3. \A r \in Role : Faulted(r) => /\ Len(trace[r]) # 0
                                      /\ LastOf(r).frame.op = "fault"
                                      /\ LastOf(r).frame.observer = r
    BY <1>2 DEF Faulted, LastOf, GenInv, FaultsLead
  <2>4. \A r \in Role : Len(trace[r]) # 0 /\ LastOf(r).frame.op = "fault" => Faulted(r)
    BY <1>2 DEF Faulted, LastOf
  <2>5. Faulted(Client) <=> Faulted(Server)
    BY <1>0, <2>1, <2>2, <2>3, <2>4
  <2>6. ~Faulted(Client)
    BY <1>0, <2>1, <2>2, <2>3, <2>5
  <2> QED BY <1>0, <2>5, <2>6
<1>4. ASSUME \A r \in Role : Local(r).kind = "end"
      PROVE  VerifySession(ReportOf(Client), ReportOf(Server))
  <2>1. \A r \in Role : ~Faulted(r) /\ machine[r].current = "end" /\ pending[r] = {}
    BY <1>4, ReportedEnd
  <2>2. trace[Client] = trace[Server]
    BY <1>0, <2>1, ReportsAgreeHolds DEF GenInv, ReportsAgree
  <2>3. Terminal(Conv.states["end"])
    BY Actors DEF Driven
  <2>4. \A r \in Role : /\ tokens[r] \in Nat
                        /\ machine[r].sequence = 2 + 3 * tokens[r]
    <3>1. \A r \in Role : tokens[r] \in Nat
      BY DEF GenInv, GenTypeOK
    <3>2. \A r \in Role : Counted(r) = tokens[r]
      BY <2>1, <3>1 DEF Counted
    <3>3. \A r \in Role : TokenCount(r)
      BY DEF GenInv, TokensCounted
    <3> QED BY <2>1, <3>1, <3>2, <3>3 DEF TokenCount
  <2>5. \A r \in Role : machine[r].sequence = Len(trace[r])
    BY <2>1 DEF GenInv, SessionInv, MachineFollowsRecord, Follows
  <2>6. tokens[Client] = tokens[Server]
    <3>1. 2 + 3 * tokens[Client] = 2 + 3 * tokens[Server]
      BY <1>0, <2>2, <2>4, <2>5
    <3> DEFINE a == tokens[Client]
               b == tokens[Server]
    <3>2. a \in Nat /\ b \in Nat /\ 2 + 3 * a = 2 + 3 * b
      BY <1>0, <2>4, <3>1
    <3> HIDE DEF a, b
    <3>3. a = b
      BY <3>2
    <3> QED BY <3>3 DEF a, b
  <2> QED BY <1>0, <1>1, <2>1, <2>2, <2>3, <2>6
<1>5. ASSUME VerifySession(ReportOf(Client), ReportOf(Server))
      PROVE  /\ \A r \in Role : Local(r).kind = "end"
             /\ tokens[Client] \in {config.tokens} \cup config.cancel_after
  <2>1. \A r \in Role : ~Faulted(r)
    BY <1>1, <1>3, <1>5
  <2>2. \A r \in Role : Local(r).kind = "end" /\ machine[r].current = "end" /\ pending[r] = {}
    BY <2>1, ReportedEnd
  <2>3. trace[Client] = trace[Server]
    BY <1>0, <2>1, ReportsAgreeHolds DEF GenInv, ReportsAgree
  <2>4. LastOf(Client) = LastOf(Server) /\ tokens[Client] = tokens[Server]
    BY <1>1, <1>5, <2>3 DEF LastOf
  <2>5. Counted(Server) = tokens[Server]
    BY <1>0, <2>2 DEF Counted, GenInv, GenTypeOK
  <2>6. tokens[Server] = config.tokens \/ LastOf(Server).state = "cancel"
    BY <1>0, <2>1, <2>2, <2>5 DEF GenInv, ServerBounds
  <2>7. tokens[Client] \in config.cancel_after \/ LastOf(Client).state = "decide"
    BY <1>0, <2>1, <2>2 DEF GenInv, ClientBounds
  <2> QED BY <2>2, <2>4, <2>6, <2>7
<1> QED BY <1>4, <1>5

\* verify_session_reports: two reports that verify are those of an undisturbed run, with
\* all the tokens there were or as many as the limit left; and it accepts every such run.
THEOREM VerifiedIsComplete == ReplaySpec => []VerifiedMeansComplete
BY GenerateInvariant, VerifiedHolds, PTL

\* In the invariant, a fault that was injected shows in the reports.
LEMMA ReportedHolds == GenInv => FaultsAreReported
<1> SUFFICES ASSUME GenInv PROVE ViewsAreAssigned /\ NoSilentFault
  BY DEF FaultsAreReported
<1>1. ViewsAreAssigned
  BY DEF GenInv
<1>2. ASSUME Finished, 0 \notin config.cancel_after
      PROVE  IF fired THEN \A plan \in config.fault : Local(plan.role).kind = "fail"
             ELSE \A r \in Role : Local(r).kind = "end" /\ trace[r] = trace[Peer(r)]
  <2>1. \A r \in Role : status[r] = "reported"
    BY <1>2 DEF Finished, GenInv, StatusKnown
  <2>2. ASSUME fired, NEW plan \in config.fault PROVE Local(plan.role).kind = "fail"
    <3>1. plan.role \in Role
      BY DEF GenInv, GenTypeOK, Accepted
    <3>2. Faulted(plan.role)
      BY <2>1, <2>2, <3>1 DEF GenInv, InjectionOK
    <3> QED BY <2>1, <3>1, <3>2, ReportedEnd
  <2>3. ASSUME ~fired
        PROVE  \A r \in Role : Local(r).kind = "end" /\ trace[r] = trace[Peer(r)]
    <3>1. \A r \in Role : ~Faulted(r)
      BY <1>1, <1>2, <2>3 DEF ViewsAreAssigned
    <3>2. \A r \in Role : trace[r] = trace[Peer(r)]
      BY <2>1, <3>1, ReportsAgreeHolds DEF GenInv, ReportsAgree
    <3> QED BY <2>1, <3>1, <3>2, ReportedEnd
  <2> QED BY <2>2, <2>3
<1> QED BY <1>1, <1>2 DEF NoSilentFault

\* An injected fault is reported to each endpoint in the terms the plan assigns and never
\* hidden; a fault that was not reached leaves an undisturbed run.
THEOREM FaultsAlwaysReported == ReplaySpec => []FaultsAreReported
BY GenerateInvariant, ReportedHolds, PTL

-----------------------------------------------------------------------------
(***************************************************************************)
(* Running a command line again.  What two endpoints exchange is fixed by  *)
(* the command line alone, frame by frame: with k tokens behind it, entry  *)
(* 3k + 1 is the prompt or the client's answer, 3k + 2 the server's        *)
(* decision or the cancellation, 3k + 3 the next token.  A chosen send is  *)
(* one of these entries, so the run stops at the same one each time.       *)
(***************************************************************************)
SendsOnly(c) == \A plan \in c.fault : plan.operation = "send"

Spent(c, k) == \E limit \in c.cancel_after : k >= limit

\* The frame of entry i.
Scripted(c, i, f) ==
  /\ i = 1 => f = DataFrame(Client, Server, "prompt")
  /\ \A k \in 1..i : i = 3 * k + 1 =>
       f = SelectFrame(Client, IF Spent(c, k) THEN "cancel" ELSE "continue")
  /\ \A k \in 0..i : i = 3 * k + 2 =>
       f = IF Spent(c, k) THEN CancelFrame(Client, Server, "generation")
           ELSE SelectFrame(Server, IF k < c.tokens THEN "token" ELSE "done")
  /\ \A k \in 0..i : i = 3 * k + 3 => f = DataFrame(Server, Client, "token")

\* Entry i ends the conversation.
Ends(c, i) == \E k \in 0..i : i = 3 * k + 2 /\ (Spent(c, k) \/ k >= c.tokens)

\* Entry i is the n-th that role r sends.
OwnSend(c, r, i, n) ==
  \/ /\ r = Client
     /\ \/ \E k \in 0..i : i = 3 * k + 1 /\ n = k + 1
        \/ \E k \in 0..i : i = 3 * k + 2 /\ Spent(c, k) /\ n = k + 2
  \/ /\ r = Server
     /\ \/ \E k \in 0..i : i = 3 * k + 2 /\ ~Spent(c, k) /\ n = 2 * k + 1
        \/ \E k \in 0..i : i = 3 * k + 3 /\ n = 2 * k + 2

\* Entry i is the one whose send is chosen to fail.
Hit(c, i) == \E plan \in c.fault : OwnSend(c, plan.role, i, plan.occurrence)

\* A refused command line stops before the first entry.
RefusedStops ==
  0 \in config.cancel_after =>
    /\ ~fired /\ ~Faulted(Client)
    /\ \A r \in Role : /\ pending[r] = {} /\ Exchanged(r) = 0
                       /\ ~Faulted(r) => machine[r] = [current |-> "start", sequence |-> 0]

\* How many sends a role has begun, the one it is about to begin included.
Begun(r) == calls[r].send + IF pending[r] # {} /\ ~injecting[r] THEN 1 ELSE 0

\* The n sends of role r at state s, t tokens counted and w in hand.
SendsAt(r, s, t, n, w) ==
  /\ s = "start" => n = 0
  /\ r = Client /\ s \in {"decide", "emit-token", "cancel"} => n = 1 + t
  /\ r = Client /\ s = "client-action" => n = t
  /\ r = Client /\ s = "end" /\ w # {} => n = 2 + t
  /\ r = Server /\ s \in {"decide", "client-action", "cancel"} => n = 2 * t
  /\ r = Server /\ s = "emit-token" => n = 2 * t + 1
  /\ r = Server /\ s = "end" /\ w # {} => n = 2 * t + 1

SendsCounted ==
  /\ calls \in [Role -> [send : Nat, receive : Nat]]
  /\ \A r \in Role : ~Faulted(r) =>
       SendsAt(r, machine[r].current, Counted(r), Begun(r), pending[r])

\* The server goes on only while the client has not spent its limit.
ServerGoesOn ==
  ~Faulted(Server) =>
    /\ machine[Server].current \in {"decide", "emit-token"} =>
         ~Spent(config, Counted(Server))
    /\ machine[Server].current = "end" /\ pending[Server] # {} =>
         ~Spent(config, Counted(Server))

RecordsAreScripted ==
  \A r \in Role : \A i \in 1..Exchanged(r) :
    /\ Scripted(config, i, trace[r][i].frame) /\ ~Hit(config, i)
    /\ Ends(config, i) => /\ i = Exchanged(r)
                          /\ pending[r] = {} /\ ~Faulted(r) /\ machine[r].current = "end"

\* The tokens of a record, faulted or not.
TokensOfRecord ==
  \A r \in Role : 3 * tokens[r] <= Exchanged(r) /\ Exchanged(r) <= 3 * tokens[r] + 2

\* The chosen send is the next entry, and the peer gets to it and no further.
StoppedAtTheHit ==
  fired =>
    \A plan \in config.fault :
      LET x == Exchanged(plan.role)
          y == Exchanged(Peer(plan.role))
      IN  /\ Hit(config, x + 1)
          /\ y <= x
          /\ Faulted(Peer(plan.role)) => y = x

Script ==
  /\ RefusedStops /\ SendsCounted /\ ServerGoesOn /\ RecordsAreScripted
  /\ TokensOfRecord /\ StoppedAtTheHit

ScriptInv == SendsOnly(config) => Script

\* How role r sees the failure.
View(c, r, f) ==
  \E plan \in c.fault :
    \/ r = plan.role /\ f = plan.failure
    \/ r # plan.role /\ f \in plan.peer_failure
    \/ r # plan.role /\ plan.peer_failure = {} /\ f = Closed

\* The report of role r when entry i is the last.
ReportAt(c, r, i, report) ==
  LET x == IF Hit(c, i) THEN i - 1 ELSE i
      frames == report.semantic_trace
  IN  /\ report = [final_state |-> report.final_state, frames |-> i,
                   tokens |-> report.tokens, status |-> "reported",
                   semantic_trace |-> frames]
      /\ frames = [j \in 1..i |-> frames[j]]
      /\ \A j \in 1..x : Scripted(c, j, frames[j])
      /\ report.tokens \in Nat /\ 3 * report.tokens <= x /\ x <= 3 * report.tokens + 2
      /\ Hit(c, i) => \E f \in DOMAIN FailureEdges :
           /\ View(c, r, f) /\ frames[i] = FaultFrame(r, f)
           /\ report.final_state = FailureEdges[f]
      /\ ~Hit(c, i) => report.final_state = "end"

RefusedReports ==
  [r \in Role |->
     IF r = Client
       THEN [final_state |-> "start", frames |-> 0, tokens |-> 0, status |-> "crashed",
             semantic_trace |-> [j \in 1..0 |-> 0]]
       ELSE [final_state |-> FailureEdges[Closed], frames |-> 1, tokens |-> 0,
             status |-> "reported",
             semantic_trace |-> [j \in 1..1 |-> FaultFrame(Server, Closed)]]]

\* The reports of a run that has ended.
Settled(c, reports) ==
  /\ reports = [r \in Role |-> reports[r]]
  /\ \/ 0 \in c.cancel_after /\ reports = RefusedReports
     \/ /\ 0 \notin c.cancel_after
        /\ \E i \in Nat \ {0} :
             /\ Hit(c, i) \/ Ends(c, i)
             /\ \A j \in 1..i - 1 : ~Hit(c, j) /\ ~Ends(c, j)
             /\ \A r \in Role : ReportAt(c, r, i, reports[r])

ReplayInv ==
  SendsOnly(config) => \A before \in earlier : Settled(config, before)

\* Every entry is of one of the kinds.
LEMMA EntryKinds ==
  ASSUME NEW i \in Nat, i > 0
  PROVE  \/ i = 1
         \/ \E k \in 1..i : i = 3 * k + 1
         \/ \E k \in 0..i : i = 3 * k + 2
         \/ \E k \in 0..i : i = 3 * k + 3
<1> DEFINE k == (i - 1) \div 3
           m == (i - 1) % 3
<1>1. k \in Nat /\ m \in 0..2 /\ i = 3 * k + m + 1
  OBVIOUS
<1> HIDE DEF k, m
<1>2. k <= i /\ (k = 0 \/ k \in 1..i)
  BY <1>1
<1>3. CASE m = 0
  BY <1>1, <1>2, <1>3
<1>4. CASE m = 1
  <2>1. k \in 0..i /\ i = 3 * k + 2
    BY <1>1, <1>2, <1>4
  <2> QED BY <2>1
<1>5. CASE m = 2
  <2>1. k \in 0..i /\ i = 3 * k + 3
    BY <1>1, <1>2, <1>5
  <2> QED BY <2>1
<1> QED BY <1>1, <1>3, <1>4, <1>5

\* The script has one frame for each entry.
LEMMA ScriptedFixed ==
  ASSUME NEW c, NEW i \in Nat, i > 0, NEW f, NEW g, Scripted(c, i, f), Scripted(c, i, g)
  PROVE  f = g
<1>1. CASE i = 1
  BY <1>1 DEF Scripted
<1>2. ASSUME NEW k \in 1..i, i = 3 * k + 1 PROVE f = g
  <2> DEFINE x == SelectFrame(Client, IF Spent(c, k) THEN "cancel" ELSE "continue")
  <2>1. f = x /\ g = x
    BY <1>2, Zenon DEF Scripted
  <2> QED BY <2>1
<1>3. ASSUME NEW k \in 0..i, i = 3 * k + 2 PROVE f = g
  <2> DEFINE x == IF Spent(c, k) THEN CancelFrame(Client, Server, "generation")
                  ELSE SelectFrame(Server, IF k < c.tokens THEN "token" ELSE "done")
  <2>1. f = x /\ g = x
    BY <1>3, Zenon DEF Scripted
  <2> QED BY <2>1
<1>4. ASSUME NEW k \in 0..i, i = 3 * k + 3 PROVE f = g
  BY <1>4, Zenon DEF Scripted
<1> QED BY <1>1, <1>2, <1>3, <1>4, EntryKinds

\* A script begins with the prompt.
LEMMA ScriptFirst ==
  ASSUME NEW c, NEW f
  PROVE  Scripted(c, 1, f) <=> f = DataFrame(Client, Server, "prompt")
<1>1. /\ \A k \in 1..1 : 1 # 3 * k + 1
      /\ \A k \in 0..1 : 1 # 3 * k + 2 /\ 1 # 3 * k + 3
  OBVIOUS
<1> QED BY <1>1 DEF Scripted

\* The entry of a script at each of the three places of a round.
LEMMA ScriptAt ==
  ASSUME NEW c, NEW t \in Nat, NEW f
  PROVE  /\ t > 0 => (Scripted(c, 3 * t + 1, f) <=>
                f = SelectFrame(Client, IF Spent(c, t) THEN "cancel" ELSE "continue"))
         /\ Scripted(c, 3 * t + 2, f) <=>
                f = IF Spent(c, t) THEN CancelFrame(Client, Server, "generation")
                    ELSE SelectFrame(Server, IF t < c.tokens THEN "token" ELSE "done")
         /\ t > 0 => (Scripted(c, 3 * t, f) <=> f = DataFrame(Server, Client, "token"))
<1>2. ASSUME t > 0
      PROVE  Scripted(c, 3 * t + 1, f) <=>
                f = SelectFrame(Client, IF Spent(c, t) THEN "cancel" ELSE "continue")
  <2> DEFINE i == 3 * t + 1
  <2>1. /\ i # 1 /\ t \in 1..i /\ \A k \in 1..i : i = 3 * k + 1 => k = t
        /\ \A k \in 0..i : i # 3 * k + 2 /\ i # 3 * k + 3
    BY <1>2
  <2>2. i = 3 * t + 1
    OBVIOUS
  <2> HIDE DEF i
  <2>3. Scripted(c, i, f) <=>
          f = SelectFrame(Client, IF Spent(c, t) THEN "cancel" ELSE "continue")
    BY <2>1, <2>2 DEF Scripted
  <2> QED BY <2>2, <2>3
<1>3. Scripted(c, 3 * t + 2, f) <=>
         f = IF Spent(c, t) THEN CancelFrame(Client, Server, "generation")
             ELSE SelectFrame(Server, IF t < c.tokens THEN "token" ELSE "done")
  <2> DEFINE i == 3 * t + 2
  <2>1. /\ i # 1 /\ t \in 0..i /\ \A k \in 0..i : i = 3 * k + 2 => k = t
        /\ \A k \in 1..i : i # 3 * k + 1
        /\ \A k \in 0..i : i # 3 * k + 3
    OBVIOUS
  <2>2. i = 3 * t + 2
    OBVIOUS
  <2> HIDE DEF i
  <2>3. Scripted(c, i, f) <=>
          f = IF Spent(c, t) THEN CancelFrame(Client, Server, "generation")
              ELSE SelectFrame(Server, IF t < c.tokens THEN "token" ELSE "done")
    BY <2>1, <2>2 DEF Scripted
  <2> QED BY <2>2, <2>3
<1>4. ASSUME t > 0
      PROVE  Scripted(c, 3 * t, f) <=> f = DataFrame(Server, Client, "token")
  <2> DEFINE i == 3 * t
  <2>1. /\ i # 1 /\ t - 1 \in 0..i /\ i = 3 * (t - 1) + 3
        /\ \A k \in 1..i : i # 3 * k + 1
        /\ \A k \in 0..i : i # 3 * k + 2
    BY <1>2, <1>4
  <2> HIDE DEF i
  <2>3. Scripted(c, i, f) <=> f = DataFrame(Server, Client, "token")
    BY <2>1 DEF Scripted
  <2> QED BY <2>3 DEF i
<1> QED BY <1>2, <1>3, <1>4

\* A script ends only where a choice of the server, or its replacement by a cancellation, is.
LEMMA EndsAt ==
  ASSUME NEW c, NEW t \in Nat
  PROVE  /\ Ends(c, 3 * t + 2) <=> Spent(c, t) \/ t >= c.tokens
         /\ ~Ends(c, 3 * t + 1) /\ ~Ends(c, 3 * t)
         /\ \A i : Ends(c, i) => \E k \in Nat : i = 3 * k + 2
<1>1. \A k \in 0..3 * t + 2 : 3 * t + 2 = 3 * k + 2 => k = t
  OBVIOUS
<1>2. t \in 0..3 * t + 2
  OBVIOUS
<1>3. \A k \in 0..3 * t + 1 : 3 * t + 1 # 3 * k + 2
  OBVIOUS
<1>4. \A k \in 0..3 * t : 3 * t # 3 * k + 2
  OBVIOUS
<1>5. Ends(c, 3 * t + 2) <=> Spent(c, t) \/ t >= c.tokens
  BY <1>1, <1>2 DEF Ends
<1>6. ~Ends(c, 3 * t + 1) /\ ~Ends(c, 3 * t)
  BY <1>3, <1>4 DEF Ends
<1>7. \A i : Ends(c, i) => \E k \in Nat : i = 3 * k + 2
  BY DEF Ends
<1> QED BY <1>5, <1>6, <1>7

\* The frame that ends the conversation.
LEMMA LastFrame ==
  ASSUME NEW c, c.tokens \in Nat, NEW i \in Nat, NEW f, Scripted(c, i, f)
  PROVE  /\ Ends(c, i) => \/ f.op = "cancel"
                          \/ f.op = "select" /\ f.label = "done"
         /\ (\E k \in Nat : i = 3 * k + 2) /\ ~Ends(c, i) =>
              f.op = "select" /\ f.label = "token"
<1> SUFFICES ASSUME NEW k \in Nat, i = 3 * k + 2
             PROVE  /\ Ends(c, i) => \/ f.op = "cancel"
                                     \/ f.op = "select" /\ f.label = "done"
                    /\ ~Ends(c, i) => f.op = "select" /\ f.label = "token"
  BY EndsAt
<1>1. Ends(c, i) <=> Spent(c, k) \/ k >= c.tokens
  BY EndsAt
<1>2. f = IF Spent(c, k) THEN CancelFrame(Client, Server, "generation")
          ELSE SelectFrame(Server, IF k < c.tokens THEN "token" ELSE "done")
  BY ScriptAt
<1>3. k < c.tokens <=> ~(k >= c.tokens)
  OBVIOUS
<1> QED BY <1>1, <1>2, <1>3 DEF CancelFrame, SelectFrame

\* How many entries of a script each role has sent by each of its places.
LEMMA OwnSendAt ==
  ASSUME NEW c, NEW t \in Nat
  PROVE  /\ OwnSend(c, Client, 3 * t + 1, t + 1)
         /\ Spent(c, t) => OwnSend(c, Client, 3 * t + 2, t + 2)
         /\ ~Spent(c, t) => OwnSend(c, Server, 3 * t + 2, 2 * t + 1)
         /\ t > 0 => OwnSend(c, Server, 3 * t, 2 * t)
<1>1. t \in 0..3 * t + 1 /\ t \in 0..3 * t + 2
  OBVIOUS
<1>2. OwnSend(c, Client, 3 * t + 1, t + 1)
  BY <1>1 DEF OwnSend
<1>3. Spent(c, t) => OwnSend(c, Client, 3 * t + 2, t + 2)
  BY <1>1 DEF OwnSend
<1>4. ~Spent(c, t) => OwnSend(c, Server, 3 * t + 2, 2 * t + 1)
  BY <1>1 DEF OwnSend
<1>5. ASSUME t > 0 PROVE OwnSend(c, Server, 3 * t, 2 * t)
  <2>1. t - 1 \in 0..3 * t /\ 3 * t = 3 * (t - 1) + 3 /\ 2 * t = 2 * (t - 1) + 2
    BY <1>5
  <2> QED BY <2>1 DEF OwnSend
<1> QED BY <1>2, <1>3, <1>4, <1>5

\* An entry is sent by one role, as one of its sends.
LEMMA OwnSendFixed ==
  ASSUME NEW c, NEW i \in Nat, NEW r, NEW q, NEW n, NEW m,
         OwnSend(c, r, i, n), OwnSend(c, q, i, m)
  PROVE  r = q /\ n = m
<1>1. \A k, l \in 0..i : 3 * k + 1 # 3 * l + 2 /\ 3 * k + 1 # 3 * l + 3 /\ 3 * k + 2 # 3 * l + 3
  OBVIOUS
<1>2. \A k, l \in 0..i : /\ 3 * k + 1 = 3 * l + 1 => k = l
                         /\ 3 * k + 2 = 3 * l + 2 => k = l
                         /\ 3 * k + 3 = 3 * l + 3 => k = l
  OBVIOUS
<1>3. \/ r = Client /\ \E k \in 0..i : i = 3 * k + 1 /\ n = k + 1
      \/ r = Client /\ \E k \in 0..i : i = 3 * k + 2 /\ Spent(c, k) /\ n = k + 2
      \/ r = Server /\ \E k \in 0..i : i = 3 * k + 2 /\ ~Spent(c, k) /\ n = 2 * k + 1
      \/ r = Server /\ \E k \in 0..i : i = 3 * k + 3 /\ n = 2 * k + 2
  BY DEF OwnSend
<1>4. \/ q = Client /\ \E k \in 0..i : i = 3 * k + 1 /\ m = k + 1
      \/ q = Client /\ \E k \in 0..i : i = 3 * k + 2 /\ Spent(c, k) /\ m = k + 2
      \/ q = Server /\ \E k \in 0..i : i = 3 * k + 2 /\ ~Spent(c, k) /\ m = 2 * k + 1
      \/ q = Server /\ \E k \in 0..i : i = 3 * k + 3 /\ m = 2 * k + 2
  BY DEF OwnSend
<1>5. CASE \E k \in 0..i : i = 3 * k + 1
  BY <1>1, <1>2, <1>3, <1>4, <1>5
<1>6. CASE \E k \in 0..i : i = 3 * k + 2
  BY <1>1, <1>2, <1>3, <1>4, <1>6
<1>7. CASE \E k \in 0..i : i = 3 * k + 3
  BY <1>1, <1>2, <1>3, <1>4, <1>7
<1> QED BY <1>3, <1>5, <1>6, <1>7

\* The frame of each edge, in full.
LEMMA FrameOfEdge ==
  ASSUME NEW s \in Driven, NEW f \in Frame, f.op # "fault", NEW n,
         TraceStep(Conv, s, f) = {n}
  PROVE  \/ s = "start" /\ n = "decide" /\ f = DataFrame(Client, Server, "prompt")
         \/ s = "decide" /\ n = "emit-token" /\ f = SelectFrame(Server, "token")
         \/ s = "decide" /\ n = "end" /\ f = SelectFrame(Server, "done")
         \/ s = "emit-token" /\ n = "client-action" /\ f = DataFrame(Server, Client, "token")
         \/ s = "client-action" /\ n = "decide" /\ f = SelectFrame(Client, "continue")
         \/ s = "client-action" /\ n = "cancel" /\ f = SelectFrame(Client, "cancel")
         \/ s = "cancel" /\ n = "end" /\ f = CancelFrame(Client, Server, "generation")
<1>1. /\ f.op = "data" => f = [op |-> "data", from |-> f.from, to |-> f.to, message |-> f.message]
      /\ f.op = "select" => f = [op |-> "select", by |-> f.by, label |-> f.label]
      /\ f.op = "cancel" => f = [op |-> "cancel", from |-> f.from, to |-> f.to, scope |-> f.scope]
  BY DEF Frame
<1>2. \/ s = "start" /\ n = "decide" /\ f.op = "data" /\ f.message = "prompt"
      \/ s = "decide" /\ n = "emit-token" /\ f.op = "select" /\ f.label = "token"
      \/ s = "decide" /\ n = "end" /\ f.op = "select" /\ f.label = "done"
      \/ s = "emit-token" /\ n = "client-action" /\ f.op = "data" /\ f.message = "token"
      \/ s = "client-action" /\ n = "decide" /\ f.op = "select" /\ f.label = "continue"
      \/ s = "client-action" /\ n = "cancel" /\ f.op = "select" /\ f.label = "cancel"
      \/ s = "cancel" /\ n = "end" /\ f.op = "cancel"
  BY DrivenEdges
<1>3. TraceStep(Conv, s, f) # {}
  OBVIOUS
<1>4. s = "start" => f.from = Client /\ f.to = Server
  BY <1>2, <1>3, GenerateAssumption DEF TraceStep, Only, SendState
<1>5. s = "emit-token" => f.from = Server /\ f.to = Client
  BY <1>2, <1>3, GenerateAssumption DEF TraceStep, Only, SendState
<1>6. s = "decide" => f.by = Server
  BY <1>2, <1>3, GenerateAssumption DEF TraceStep, Only, ChoiceState
<1>7. s = "client-action" => f.by = Client
  BY <1>2, <1>3, GenerateAssumption DEF TraceStep, Only, ChoiceState
<1>8. s = "cancel" => f.from = Client /\ f.to = Server /\ f.scope = "generation"
  BY <1>2, <1>3, GenerateAssumption DEF TraceStep, Only, CancelState
<1> QED BY <1>1, <1>2, <1>4, <1>5, <1>6, <1>7, <1>8 DEF DataFrame, SelectFrame, CancelFrame

\* Only an empty record is at the first state.
LEMMA StartIsFirst ==
  ASSUME SessionInv, NEW r \in Role, ~Faulted(r), NEW s, LeadsTo(r, s)
  PROVE  s = "start" <=> trace[r] = <<>>
<1>1. TypeOK /\ RecordsAreWalks
  BY DEF SessionInv
<1>2. trace[r] = <<>> => s = "start"
  BY GenerateAssumption DEF LeadsTo
<1>3. ASSUME trace[r] # <<>>, s = "start" PROVE FALSE
  <2> DEFINE n == Len(trace[r])
             e == trace[r][n]
  <2>1. n \in 1..Len(trace[r]) /\ e \in Envelope
    BY <1>1, <1>3 DEF TypeOK
  <2>2. n <= Exchanged(r)
    BY <1>1, ExchangedFacts
  <2> HIDE DEF n
  <2>3. e.frame.op # "fault"
    BY <1>1, <2>1, <2>2 DEF RecordsAreWalks, EntryOK
  <2>4. StepOf(e) = {"start"}
    BY <1>3 DEF LeadsTo, n
  <2> HIDE DEF e
  <2>5. e.state \in State /\ e.frame \in Frame
    BY <2>1 DEF Envelope
  <2>6. e.state \in Driven
    BY <2>4, <2>5, Actors, TerminalFacts DEF StepOf
  <2> QED BY <2>3, <2>4, <2>5, <2>6, DrivenEdges DEF StepOf
<1> QED BY <1>2, <1>3

\* What a role has prepared is the next entry of the script.
LEMMA PreparedScript ==
  ASSUME GenInv, SendsCounted, ServerGoesOn, NEW r \in Role, NEW e \in pending[r]
  PROVE  LET i == Exchanged(r) + 1 IN
         /\ Scripted(config, i, e.frame)
         /\ OwnSend(config, r, i, Begun(r))
<1>0. /\ SessionInv /\ TypeOK /\ GenTypeOK /\ TokensCounted /\ ServerBounds /\ ClientBounds
  BY DEF GenInv, SessionInv
<1> DEFINE s == machine[r].current
           i == machine[r].sequence
           t == Counted(r)
           f == e.frame
           n == Begun(r)
<1>1. /\ pending[r] = {e} /\ ~Faulted(r) /\ f.op # "fault" /\ LeadsTo(r, e.state)
      /\ Actor(Conv.states[e.state]) = r /\ e.state \in Driven
      /\ f \in Frame /\ TraceStep(Conv, e.state, f) = {s}
  BY <1>0, Prepared DEF Envelope, StepOf
<1>2. i = Exchanged(r) + 1 /\ i \in Nat
  BY <1>0, <1>1, ExchangedFacts DEF SessionInv, MachineFollowsRecord, Follows
<1>3. config.tokens \in Nat /\ tokens[r] \in Nat /\ t \in Nat
  BY <1>0, ConfigAssumption DEF GenTypeOK, Counted
<1>4. e.state = "start" <=> i = 1
  <2>1. trace[r] = <<>> <=> Len(trace[r]) = 0
    BY <1>0 DEF TypeOK
  <2>2. Exchanged(r) = Len(trace[r]) /\ Exchanged(r) \in Nat
    BY <1>0, <1>1, ExchangedFacts
  <2> QED BY <1>0, <1>1, <1>2, <2>1, <2>2, StartIsFirst
<1>5. \/ e.state = "start" /\ s = "decide" /\ f = DataFrame(Client, Server, "prompt")
      \/ e.state = "decide" /\ s = "emit-token" /\ f = SelectFrame(Server, "token")
      \/ e.state = "decide" /\ s = "end" /\ f = SelectFrame(Server, "done")
      \/ e.state = "emit-token" /\ s = "client-action" /\ f = DataFrame(Server, Client, "token")
      \/ e.state = "client-action" /\ s = "decide" /\ f = SelectFrame(Client, "continue")
      \/ e.state = "client-action" /\ s = "cancel" /\ f = SelectFrame(Client, "cancel")
      \/ e.state = "cancel" /\ s = "end" /\ f = CancelFrame(Client, Server, "generation")
  BY <1>1, FrameOfEdge
<1>6. /\ e.state \in {"start", "client-action", "cancel"} => r = Client
      /\ e.state \in {"decide", "emit-token"} => r = Server
  BY <1>1, Actors
<1>7. /\ s = "decide" => i = 1 + 3 * t
      /\ s = "emit-token" => i = 2 + 3 * t
      /\ s = "client-action" => i = 3 * t
      /\ s = "cancel" => i = 1 + 3 * t
      /\ s = "end" => i = 2 + 3 * t
  BY <1>0, <1>1 DEF TokensCounted, TokenCount
<1>8. /\ r = Client /\ s \in {"decide", "cancel"} => n = 1 + t
      /\ r = Client /\ s = "end" => n = 2 + t
      /\ r = Server /\ s = "client-action" => n = 2 * t
      /\ r = Server /\ s = "emit-token" => n = 2 * t + 1
      /\ r = Server /\ s = "end" => n = 2 * t + 1
  BY <1>1 DEF SendsCounted, SendsAt
<1>9. r = Client /\ s # "client-action" => t = tokens[Client]
  BY <1>3 DEF Counted
<1>10. /\ r = Client /\ s = "decide" => ~Spent(config, t)
       /\ r = Client /\ s = "cancel" => Spent(config, t)
       /\ r = Client /\ s = "end" => Spent(config, t)
  <2>1. config.cancel_after \in SUBSET Nat
    BY <1>0, ConfigAssumption DEF GenTypeOK
  <2>2. ASSUME r = Client, s = "decide" PROVE ~Spent(config, t)
    <3>1. \A limit \in config.cancel_after : tokens[Client] < limit
      BY <1>0, <1>1, <2>2 DEF ClientBounds
    <3> QED BY <1>3, <1>9, <2>1, <2>2, <3>1 DEF Spent
  <2>3. ASSUME r = Client, s \in {"cancel", "end"} PROVE Spent(config, t)
    <3>1. tokens[Client] \in config.cancel_after
      BY <1>0, <1>1, <2>3 DEF ClientBounds
    <3>2. t = tokens[Client]
      BY <1>9, <2>3
    <3> QED BY <1>3, <3>1, <3>2 DEF Spent
  <2> QED BY <2>2, <2>3
<1>11. r = Server /\ s \in {"emit-token", "end"} => ~Spent(config, t)
  BY <1>1 DEF ServerGoesOn
<1>12. /\ r = Server /\ s = "emit-token" => t < config.tokens
       /\ r = Server /\ s = "end" => t = config.tokens
  BY <1>0, <1>1 DEF ServerBounds
<1> SUFFICES Scripted(config, i, f) /\ OwnSend(config, r, i, n)
  BY <1>2
<1> HIDE DEF s, i, t, f, n
<1>13. CASE e.state = "start"
  <2>1. i = 1 /\ r = Client /\ s = "decide" /\ f = DataFrame(Client, Server, "prompt")
    BY <1>4, <1>5, <1>6, <1>13
  <2>2. t = 0
    BY <1>3, <1>7, <2>1
  <2>3. n = 1
    BY <1>8, <2>1, <2>2
  <2>4. OwnSend(config, Client, 3 * 0 + 1, 0 + 1)
    BY OwnSendAt
  <2> QED BY <2>1, <2>3, <2>4, ScriptFirst
<1>14. CASE e.state = "decide" /\ s = "emit-token"
  <2>1. i = 3 * t + 2 /\ r = Server /\ f = SelectFrame(Server, "token") /\ n = 2 * t + 1
    BY <1>3, <1>5, <1>6, <1>7, <1>8, <1>14
  <2> QED BY <1>3, <1>11, <1>12, <1>14, <2>1, ScriptAt, OwnSendAt
<1>15. CASE e.state = "decide" /\ s = "end"
  <2>1. i = 3 * t + 2 /\ r = Server /\ f = SelectFrame(Server, "done") /\ n = 2 * t + 1
    BY <1>3, <1>5, <1>6, <1>7, <1>8, <1>15
  <2> QED BY <1>3, <1>11, <1>12, <1>15, <2>1, ScriptAt, OwnSendAt
<1>16. CASE e.state = "emit-token"
  <2>1. /\ i = 3 * t /\ r = Server /\ f = DataFrame(Server, Client, "token") /\ n = 2 * t
        /\ t > 0
    BY <1>2, <1>3, <1>5, <1>6, <1>7, <1>8, <1>16, ExchangedFacts, <1>0
  <2> QED BY <1>3, <2>1, ScriptAt, OwnSendAt
<1>17. CASE e.state = "client-action" /\ s = "decide"
  <2>1. /\ i = 3 * t + 1 /\ r = Client /\ f = SelectFrame(Client, "continue") /\ n = t + 1
        /\ t > 0
    BY <1>2, <1>3, <1>4, <1>5, <1>6, <1>7, <1>8, <1>17
  <2> QED BY <1>3, <1>10, <1>17, <2>1, ScriptAt, OwnSendAt
<1>18. CASE e.state = "client-action" /\ s = "cancel"
  <2>1. /\ i = 3 * t + 1 /\ r = Client /\ f = SelectFrame(Client, "cancel") /\ n = t + 1
        /\ t > 0
    BY <1>2, <1>3, <1>4, <1>5, <1>6, <1>7, <1>8, <1>18
  <2>2. Spent(config, t)
    BY <1>10, <1>18, <2>1
  <2>3. Scripted(config, i, f)
    BY <1>3, <2>1, <2>2, ScriptAt
  <2> QED BY <1>3, <2>1, <2>3, OwnSendAt
<1>19. CASE e.state = "cancel"
  <2>1. /\ i = 3 * t + 2 /\ r = Client /\ f = CancelFrame(Client, Server, "generation")
        /\ n = t + 2 /\ s = "end"
    BY <1>3, <1>5, <1>6, <1>7, <1>8, <1>19
  <2>2. Spent(config, t)
    BY <1>10, <2>1
  <2>3. Scripted(config, i, f)
    BY <1>3, <2>1, <2>2, ScriptAt
  <2> QED BY <1>3, <2>1, <2>2, <2>3, OwnSendAt
<1> QED BY <1>5, <1>13, <1>14, <1>15, <1>16, <1>17, <1>18, <1>19

\* A call is counted where it is made.
LEMMA CallFacts ==
  ASSUME calls \in [Role -> [send : Nat, receive : Nat]], NEW r \in Role,
         NEW operation \in {"send", "receive"}, CountCall(r, operation)
  PROVE  /\ calls' \in [Role -> [send : Nat, receive : Nat]]
         /\ \A q \in Role : q # r => calls'[q] = calls[q]
         /\ calls'[r].send = calls[r].send + IF operation = "send" THEN 1 ELSE 0
<1>1. calls[r] \in [send : Nat, receive : Nat]
  OBVIOUS
<1>2. calls' = [calls EXCEPT ![r] = [calls[r] EXCEPT ![operation] = calls[r][operation] + 1]]
  BY DEF CountCall
<1>3. CASE operation = "send"
  <2> DEFINE c == [calls[r] EXCEPT !.send = calls[r].send + 1]
  <2>1. c \in [send : Nat, receive : Nat] /\ c.send = calls[r].send + 1
    BY <1>1
  <2>2. calls' = [calls EXCEPT ![r] = c]
    BY <1>2, <1>3
  <2> HIDE DEF c
  <2> QED BY <1>3, <2>1, <2>2
<1>4. CASE operation = "receive"
  <2> DEFINE c == [calls[r] EXCEPT !.receive = calls[r].receive + 1]
  <2>1. c \in [send : Nat, receive : Nat] /\ c.send = calls[r].send
    BY <1>1
  <2>2. calls' = [calls EXCEPT ![r] = c]
    BY <1>2, <1>4
  <2> HIDE DEF c
  <2> QED BY <1>1, <1>4, <2>1, <2>2
<1> QED BY <1>3, <1>4

\* The tokens of a record that has not ended in a fault.
LiveTokens ==
  \A r \in Role : ~Faulted(r) =>
    3 * tokens[r] <= Exchanged(r) /\ Exchanged(r) <= 3 * tokens[r] + 2

\* It has three entries for each, and at most two more.
LEMMA TokensOfLive == GenInv => LiveTokens
<1> SUFFICES ASSUME GenInv, NEW r \in Role, ~Faulted(r)
             PROVE  3 * tokens[r] <= Exchanged(r) /\ Exchanged(r) <= 3 * tokens[r] + 2
  BY DEF LiveTokens
<1> DEFINE s == machine[r].current
           q == machine[r].sequence
           t == tokens[r]
           x == Exchanged(r)
           k == IF pending[r] = {} THEN 0 ELSE 1
<1>1. t \in Nat /\ x \in Nat /\ x = Len(trace[r]) /\ s \in Driven
  BY ExchangedFacts DEF GenInv, GenTypeOK, SessionInv, InStep
<1>2. q = x + k
  <2>1. Follows(r)
    BY DEF GenInv, SessionInv, MachineFollowsRecord
  <2>2. pending[r] = {} => q = Len(trace[r])
    BY <2>1 DEF Follows
  <2>3. \A e \in pending[r] : q = Len(trace[r]) + 1
    BY <2>1 DEF Follows
  <2>4. x = Len(trace[r])
    BY <1>1
  <2>5. pending[r] = {} \/ \E e : e \in pending[r]
    OBVIOUS
  <2> HIDE DEF q, x
  <2>6. CASE pending[r] = {}
    BY <1>1, <2>2, <2>4, <2>6
  <2>7. CASE \E e : e \in pending[r]
    <3>1. q = x + 1 /\ k = 1
      BY <2>3, <2>4, <2>7
    <3> QED BY <3>1
  <2> QED BY <2>5, <2>6, <2>7
<1>3. Counted(r) = t + IF s = "client-action" THEN k ELSE 0
  BY <1>1 DEF Counted
<1>4. TokenCount(r)
  BY DEF GenInv, TokensCounted
<1> DEFINE c == Counted(r)
<1>5. /\ s = "start" => q = 0 /\ c = 0
      /\ s = "decide" => q = 1 + 3 * c
      /\ s = "emit-token" => q = 2 + 3 * c
      /\ s = "client-action" => q = 3 * c
      /\ s = "cancel" => q = 1 + 3 * c
      /\ s = "end" => q = 2 + 3 * c
  BY <1>4 DEF TokenCount
<1>6. s \in {"start", "decide", "emit-token", "client-action", "cancel", "end"}
  BY <1>1 DEF Driven
<1>7. c = t + IF s = "client-action" THEN k ELSE 0
  BY <1>3
<1>9. k \in {0, 1}
  OBVIOUS
<1> HIDE DEF s, q, t, x, k, c
<1>8. 3 * t <= x /\ x <= 3 * t + 2
  BY <1>1, <1>2, <1>5, <1>6, <1>7, <1>9
<1> QED BY <1>8 DEF t, x

\* The same of the next state.
LEMMA TokensOfLiveNext == GenInv' => LiveTokens'
<1> SUFFICES ASSUME GenInv' PROVE LiveTokens'
  OBVIOUS
<1> QED BY TokensOfLive, PTL

\* A role with an envelope in hand is not at the end of the script, nor is one that waits.
LEMMA NotEnded ==
  ASSUME RecordsAreScripted, NEW r \in Role, machine[r].current # "end" \/ pending[r] # {},
         NEW i \in 1..Exchanged(r)
  PROVE  ~Ends(config, i)
BY DEF RecordsAreScripted

\* The script survives an emission.
LEMMA EmittedScript ==
  ASSUME GenInv, Script, NEW r \in Role, NEW n \in Driven, Emitted(r, n)
  PROVE  Script'
<1>0. /\ TypeOK /\ GenTypeOK /\ TokensCounted /\ RefusedStops /\ SendsCounted /\ ServerGoesOn
      /\ RecordsAreScripted /\ TokensOfRecord /\ StoppedAtTheHit
  BY DEF GenInv, SessionInv, Script
<1> DEFINE s == machine[r].current
           t == tokens[r]
<1>1. /\ ~injecting[r] /\ ~Faulted(r) /\ pending[r] = {} /\ Moves(r, s, n)
      /\ wire' = wire /\ trace' = trace /\ config' = config /\ tokens' = tokens
      /\ calls' = calls /\ fired' = fired /\ injecting' = injecting
  BY DEF Emitted, Idle, Emits
<1>2. /\ machine'[r].current = n
      /\ \A q \in Role : q # r => machine'[q] = machine[q]
  BY <1>0 DEF Emitted, TypeOK
<1>3. /\ pending'[r] # {}
      /\ \A q \in Role : q # r => pending'[q] = pending[q]
  <2>1. PICK f : pending' = [pending EXCEPT ![r] = {Stamp(r, f)}]
    BY DEF Emitted
  <2> QED BY <1>0, <2>1 DEF TypeOK
<1>4. \A q : (Faulted(q)' <=> Faulted(q)) /\ Exchanged(q)' = Exchanged(q)
  BY <1>1 DEF Faulted, Exchanged
<1>5. t \in Nat /\ Client # Server /\ Client \in Role /\ Server \in Role
      /\ (r = Client \/ r = Server)
  BY <1>0, Roles DEF GenTypeOK
<1>6. /\ Counted(r) = t
      /\ Counted(r)' = IF n = "client-action" THEN t + 1 ELSE t
      /\ \A q \in Role : q # r => Counted(q)' = Counted(q)
  BY <1>1, <1>2, <1>3, <1>5 DEF Counted
<1>7. /\ Begun(r) = calls[r].send /\ Begun(r)' = Begun(r) + 1 /\ Begun(r) \in Nat
      /\ \A q \in Role : q # r => Begun(q)' = Begun(q)
  <2>1. calls[r].send \in Nat
    BY <1>0 DEF SendsCounted
  <2> QED BY <1>1, <1>3, <2>1 DEF Begun
<1> DEFINE b == Begun(r)
<1>8. /\ s = "start" => t = 0 /\ b = 0
      /\ r = Client /\ s = "client-action" => b = t
      /\ r = Client /\ s = "cancel" => b = 1 + t
      /\ r = Server /\ s = "decide" => b = 2 * t
      /\ r = Server /\ s = "emit-token" => b = 2 * t + 1
  <2>1. s = "start" => t = 0
    BY <1>0, <1>1, <1>6 DEF TokensCounted, TokenCount
  <2> QED BY <1>0, <1>1, <1>6, <2>1 DEF SendsCounted, SendsAt
<1>9. 0 \notin config.cancel_after
  <2> SUFFICES ASSUME 0 \in config.cancel_after PROVE FALSE
    OBVIOUS
  <2>1. machine[r] = [current |-> "start", sequence |-> 0]
    BY <1>0, <1>1 DEF RefusedStops
  <2> QED BY <1>1, <2>1 DEF Moves
<1>10. RefusedStops'
  BY <1>1, <1>9 DEF RefusedStops
<1>11. SendsCounted'
  <2>1. calls' \in [Role -> [send : Nat, receive : Nat]]
    BY <1>0, <1>1 DEF SendsCounted
  <2>2. ASSUME NEW q \in Role, q # r, ~Faulted(q)
        PROVE  SendsAt(q, machine[q].current, Counted(q), Begun(q), pending[q])
    BY <1>0, <2>2 DEF SendsCounted
  <2>3. SendsAt(r, n, Counted(r)', Begun(r)', pending'[r])
    <3> DEFINE u == Counted(r)'
               v == Begun(r)'
    <3>1. v = b + 1 /\ u = IF n = "client-action" THEN t + 1 ELSE t
      BY <1>6, <1>7
    <3>2. b \in Nat
      BY <1>7
    <3> HIDE DEF u, v, b, t, s
    <3>3. SendsAt(r, n, u, v, pending'[r])
      BY <1>1, <1>5, <1>8, <3>1, <3>2 DEF Moves, SendsAt
    <3> QED BY <3>3 DEF u, v
  <2>4. ASSUME NEW q \in Role, ~Faulted(q)'
        PROVE  SendsAt(q, machine'[q].current, Counted(q)', Begun(q)', pending'[q])
    <3>1. CASE q = r
      BY <1>2, <2>3, <3>1
    <3>2. CASE q # r
      <4>1. SendsAt(q, machine[q].current, Counted(q), Begun(q), pending[q])
        BY <1>4, <2>2, <2>4, <3>2
      <4> QED BY <1>2, <1>3, <1>6, <1>7, <3>2, <4>1
    <3> QED BY <3>1, <3>2
  <2> QED BY <2>1, <2>4 DEF SendsCounted
<1>12. ServerGoesOn'
  <2>1. CASE r = Server
    <3>1. s \in {"decide", "emit-token"} => ~Spent(config, t)
      BY <1>0, <1>1, <1>6, <2>1 DEF ServerGoesOn
    <3>2. /\ n \in {"end", "emit-token", "client-action"}
          /\ n \in {"end", "emit-token"} => s = "decide"
      BY <1>1, <1>5, <2>1 DEF Moves
    <3>3. n \in {"end", "emit-token"} => Counted(r)' = t
      BY <1>6
    <3>4. \A k : Spent(config, k)' <=> Spent(config, k)
      BY <1>1 DEF Spent
    <3>5. n \in {"end", "emit-token"} => ~Spent(config, Counted(r)')
      BY <3>1, <3>2, <3>3
    <3>6. n # "decide"
      BY <3>2
    <3> QED BY <1>1, <1>2, <2>1, <3>5, <3>6 DEF ServerGoesOn, Spent
  <2>2. CASE r # Server
    BY <1>0, <1>1, <1>2, <1>3, <1>4, <1>5, <1>6, <2>2 DEF ServerGoesOn, Spent
  <2> QED BY <2>1, <2>2
<1>13. RecordsAreScripted'
  <2>1. s # "end"
    BY <1>1 DEF Moves
  <2>2. \A i \in 1..Exchanged(r) : ~Ends(config, i)
    BY <1>0, <2>1, NotEnded
  <2>3. ASSUME NEW q \in Role, NEW i \in 1..Exchanged(q)
        PROVE  /\ Scripted(config, i, trace[q][i].frame) /\ ~Hit(config, i)
               /\ Ends(config, i) => q # r /\ i = Exchanged(q) /\ pending[q] = {}
                                     /\ ~Faulted(q) /\ machine[q].current = "end"
    BY <1>0, <2>2, <2>3 DEF RecordsAreScripted
  <2>4. ASSUME NEW q \in Role, NEW i \in 1..Exchanged(q)
        PROVE  /\ Scripted(config, i, trace'[q][i].frame) /\ ~Hit(config, i)
               /\ Ends(config, i) => /\ i = Exchanged(q)' /\ pending'[q] = {}
                                     /\ ~Faulted(q)' /\ machine'[q].current = "end"
    BY <1>1, <1>2, <1>3, <1>4, <2>3
  <2> QED BY <1>1, <1>4, <2>4 DEF RecordsAreScripted, Scripted, Hit, Ends
<1>14. TokensOfRecord' /\ StoppedAtTheHit'
  BY <1>0, <1>1, <1>4 DEF TokensOfRecord, StoppedAtTheHit, Hit
<1> QED BY <1>10, <1>11, <1>12, <1>13, <1>14 DEF Script

\* Only a frame that the script ends with leads to the end.
LEMMA EndFrame ==
  ASSUME NEW s \in Driven, NEW f \in Frame, f.op # "fault", NEW n,
         TraceStep(Conv, s, f) = {n}, NEW i \in Nat, Scripted(config, i, f), Ends(config, i),
         config \in Config
  PROVE  n = "end"
<1>1. config.tokens \in Nat
  BY ConfigAssumption
<1>2. f.op = "cancel" \/ (f.op = "select" /\ f.label = "done")
  BY <1>1, LastFrame
<1> QED BY <1>2, DrivenEdges

\* A role that has been chosen to fail goes no further.
LEMMA ChosenIsStuck ==
  ASSUME GenInv, NEW plan \in config.fault, fired, NEW r \in Role, ~injecting[r], ~Faulted(r)
  PROVE  plan.role \in Role /\ plan.role # r /\ plan.role = Peer(r) /\ r = Peer(plan.role)
<1>1. plan.role \in Role
  BY DEF GenInv, GenTypeOK, Accepted
<1>2. injecting[plan.role] \/ Faulted(plan.role)
  BY DEF GenInv, InjectionOK
<1> QED BY <1>1, <1>2, PeerFacts

\* The script survives a send.
LEMMA SentScript ==
  ASSUME GenInv, GenInv', SendsOnly(config), Script,
         NEW r \in Role, NEW e \in Envelope, Sent(r, e)
  PROVE  Script'
<1>0. /\ SessionInv /\ TypeOK /\ GenTypeOK /\ RefusedStops /\ SendsCounted /\ ServerGoesOn
      /\ RecordsAreScripted /\ TokensOfRecord /\ StoppedAtTheHit
  BY DEF GenInv, SessionInv, Script
<1> DEFINE s == machine[r].current
           x == Exchanged(r)
<1>1. /\ ~injecting[r] /\ ~Faulted(r) /\ pending[r] = {e} /\ pending[r] # {}
      /\ e.frame.op # "fault" /\ machine' = machine
      /\ config' = config /\ fired' = fired /\ injecting' = injecting
      /\ CountCall(r, "send") /\ ~ShouldInject(r, "send")
  BY DEF Sent
<1>2. /\ pending'[r] = {}
      /\ \A q \in Role : q # r => pending'[q] = pending[q]
  BY <1>0 DEF Sent, TypeOK
<1>3. /\ Exchanged(r)' = x + 1 /\ x \in Nat /\ ~Faulted(r)' /\ trace'[r][x + 1] = e
      /\ \A i \in 1..x : trace'[r][i] = trace[r][i]
      /\ \A q \in Role : q # r => /\ trace'[q] = trace[q]
                                  /\ Exchanged(q)' = Exchanged(q)
      /\ \A q \in Role : Faulted(q)' <=> Faulted(q)
  <2>1. trace' = [trace EXCEPT ![r] = Append(trace[r], e)]
    BY DEF Sent
  <2>2. /\ Faulted(r)' <=> e.frame.op = "fault"
        /\ e.frame.op # "fault" => Exchanged(r)' = Len(trace[r]) + 1
        /\ \A i \in 1..Len(trace[r]) : trace'[r][i] = trace[r][i]
        /\ trace'[r][Len(trace[r]) + 1] = e
        /\ \A q \in Role : q # r => /\ trace'[q] = trace[q]
                                    /\ Faulted(q)' <=> Faulted(q)
                                    /\ Exchanged(q)' = Exchanged(q)
    BY <1>0, <2>1, RecordFacts
  <2> QED BY <1>0, <1>1, <2>2, ExchangedFacts
<1>4. /\ calls' \in [Role -> [send : Nat, receive : Nat]]
      /\ \A q \in Role : q # r => calls'[q] = calls[q]
      /\ calls'[r].send = calls[r].send + 1 /\ calls[r].send \in Nat
  BY <1>0, <1>1, CallFacts DEF SendsCounted
<1>5. \A q \in Role : Begun(q)' = Begun(q)
  BY <1>1, <1>2, <1>4 DEF Begun
<1>6. Begun(r) = calls[r].send + 1
  BY <1>1 DEF Begun
<1>7. r = Client => s # "client-action"
  <2>1. /\ StepOf(e) = {s} /\ Actor(Conv.states[e.state]) = r
        /\ e.state \in Driven
    BY <1>0, <1>1, Prepared
  <2>2. e.frame \in Frame /\ TraceStep(Conv, e.state, e.frame) = {s}
    BY <2>1 DEF Envelope, StepOf
  <2>3. s = "client-action" => e.state = "emit-token"
    BY <1>1, <2>1, <2>2, DrivenEdges
  <2> QED BY <2>1, <2>3, Actors, Roles
<1>8. \A q \in Role : Counted(q)' = Counted(q) /\ (q # r => tokens'[q] = tokens[q])
  <2>1. tokens' = IF r = Server /\ s = "client-action"
                    THEN [tokens EXCEPT ![r] = tokens[r] + 1] ELSE tokens
    BY DEF Sent
  <2> QED BY <1>0, <1>1, <1>2, <1>7, <2>1, Roles DEF Counted, GenTypeOK
<1>9. 0 \notin config.cancel_after
  BY <1>0, <1>1 DEF RefusedStops
<1>10. RefusedStops'
  BY <1>1, <1>9 DEF RefusedStops
<1>11. SendsCounted'
  <2>1. ASSUME NEW q \in Role, ~Faulted(q)'
        PROVE  SendsAt(q, machine'[q].current, Counted(q)', Begun(q)', pending'[q])
    <3>1. SendsAt(q, machine[q].current, Counted(q), Begun(q), pending[q])
      BY <1>0, <1>3, <2>1 DEF SendsCounted
    <3>2. CASE q = r
      BY <1>1, <1>2, <1>5, <1>8, <3>1, <3>2 DEF SendsAt
    <3>3. CASE q # r
      BY <1>1, <1>2, <1>5, <1>8, <3>1, <3>3
    <3> QED BY <3>2, <3>3
  <2> QED BY <1>4, <2>1 DEF SendsCounted
<1>12. ServerGoesOn'
  BY <1>0, <1>1, <1>2, <1>3, <1>8, Roles DEF ServerGoesOn, Spent
<1>13. Scripted(config, x + 1, e.frame) /\ OwnSend(config, r, x + 1, Begun(r))
  BY <1>0, <1>1, PreparedScript
<1>14. ~Hit(config, x + 1)
  <2> SUFFICES ASSUME NEW plan \in config.fault,
                      OwnSend(config, plan.role, x + 1, plan.occurrence)
               PROVE  FALSE
    BY DEF Hit
  <2>1. plan.role = r /\ plan.occurrence = calls[r].send + 1
    BY <1>3, <1>6, <1>13, OwnSendFixed
  <2>2. plan.operation = "send"
    BY DEF SendsOnly
  <2>3. fired
    BY <1>1, <2>1, <2>2 DEF ShouldInject
  <2> QED BY <1>1, <2>1, <2>3, ChosenIsStuck
<1>15. Ends(config, x + 1) => s = "end"
  <2>1. /\ e.state \in Driven /\ e.frame \in Frame /\ TraceStep(Conv, e.state, e.frame) = {s}
    BY <1>0, <1>1, Prepared DEF Envelope, StepOf
  <2>2. config \in Config /\ x + 1 \in Nat
    BY <1>0, <1>3 DEF GenTypeOK
  <2> HIDE DEF x, s
  <2> QED BY <1>1, <1>13, <2>1, <2>2, EndFrame
<1>16. RecordsAreScripted'
  <2>1. ASSUME NEW q \in Role, NEW i \in 1..Exchanged(q)'
        PROVE  /\ Scripted(config, i, trace'[q][i].frame) /\ ~Hit(config, i)
               /\ Ends(config, i) => /\ i = Exchanged(q)' /\ pending'[q] = {}
                                     /\ ~Faulted(q)' /\ machine'[q].current = "end"
    <3>1. CASE q = r /\ i = x + 1
      BY <1>1, <1>2, <1>3, <1>13, <1>14, <1>15, <3>1
    <3>2. CASE q = r /\ i \in 1..x
      <4>1. Scripted(config, i, trace[r][i].frame) /\ ~Hit(config, i)
        BY <1>0, <3>2 DEF RecordsAreScripted
      <4>2. ~Ends(config, i)
        BY <1>0, <1>1, <3>2, NotEnded
      <4> QED BY <1>3, <3>2, <4>1, <4>2
    <3>3. CASE q # r
      BY <1>0, <1>1, <1>2, <1>3, <2>1, <3>3 DEF RecordsAreScripted
    <3>4. q = r => i = x + 1 \/ i \in 1..x
      BY <1>3, <2>1
    <3> QED BY <3>1, <3>2, <3>3, <3>4
  <2> QED BY <1>1, <2>1 DEF RecordsAreScripted
<1>17. TokensOfRecord'
  <2>1. LiveTokens'
    BY TokensOfLiveNext
  <2> QED BY <1>0, <1>3, <1>8, <2>1 DEF TokensOfRecord, LiveTokens
<1>18. StoppedAtTheHit'
  <2> SUFFICES ASSUME fired, NEW plan \in config.fault
               PROVE  /\ Hit(config, Exchanged(plan.role)' + 1)
                      /\ Exchanged(Peer(plan.role))' <= Exchanged(plan.role)'
                      /\ ~Faulted(Peer(plan.role))'
    BY <1>1 DEF StoppedAtTheHit, Hit
  <2>1. plan.role \in Role /\ plan.role # r /\ r = Peer(plan.role)
    BY <1>1, ChosenIsStuck
  <2>2. /\ Hit(config, Exchanged(plan.role) + 1) /\ x <= Exchanged(plan.role)
    BY <1>0, <2>1 DEF StoppedAtTheHit
  <2>3. x # Exchanged(plan.role)
    BY <1>14, <2>2
  <2>4. Exchanged(plan.role) \in Nat
    BY <1>0, <2>1, ExchangedFacts
  <2> QED BY <1>1, <1>3, <2>1, <2>2, <2>3, <2>4
<1> QED BY <1>10, <1>11, <1>12, <1>16, <1>17, <1>18 DEF Script

\* The script survives a receive.
LEMMA TakenScript ==
  ASSUME GenInv, GenInv', Script, NEW r \in Role, NEW e \in Envelope, NEW n \in Driven,
         Taken(r, e, n)
  PROVE  Script'
<1>0. /\ SessionInv /\ TypeOK /\ GenTypeOK /\ InStep /\ TokensCounted /\ RefusedStops
      /\ SendsCounted /\ ServerGoesOn /\ RecordsAreScripted /\ TokensOfRecord
      /\ StoppedAtTheHit
  BY DEF GenInv, SessionInv, Script
<1> DEFINE s == machine[r].current
           x == Exchanged(r)
           t == tokens[r]
           p == Peer(r)
<1>p. p \in Role /\ p # r /\ Peer(p) = r /\ \A q \in Role : q = r \/ q = p
  BY PeerFacts
<1>1. /\ ~injecting[r] /\ ~Faulted(r) /\ pending[r] = {} /\ e.frame.op # "fault"
      /\ e.state = s /\ Arrives(r, s, n) /\ x < Exchanged(p)
      /\ pending' = pending /\ config' = config /\ fired' = fired /\ injecting' = injecting
      /\ CountCall(r, "receive")
  BY DEF Taken, Idle
<1>2. /\ machine'[r].current = n
      /\ \A q \in Role : q # r => machine'[q] = machine[q]
  BY <1>0 DEF Taken, TypeOK
<1>3. /\ Exchanged(r)' = x + 1 /\ x \in Nat /\ ~Faulted(r)' /\ trace'[r][x + 1] = e
      /\ \A i \in 1..x : trace'[r][i] = trace[r][i]
      /\ \A q \in Role : q # r => /\ trace'[q] = trace[q]
                                  /\ Exchanged(q)' = Exchanged(q)
      /\ \A q \in Role : Faulted(q)' <=> Faulted(q)
      /\ x + 1 = Len(trace'[r]) /\ trace'[r] # <<>>
  <2>1. trace' = [trace EXCEPT ![r] = Append(trace[r], e)]
    BY DEF Taken
  <2>2. /\ Faulted(r)' <=> e.frame.op = "fault"
        /\ e.frame.op # "fault" => Exchanged(r)' = Len(trace[r]) + 1
        /\ Len(trace'[r]) = Len(trace[r]) + 1 /\ trace'[r] # <<>>
        /\ \A i \in 1..Len(trace[r]) : trace'[r][i] = trace[r][i]
        /\ trace'[r][Len(trace[r]) + 1] = e
        /\ \A q \in Role : q # r => /\ trace'[q] = trace[q]
                                    /\ Faulted(q)' <=> Faulted(q)
                                    /\ Exchanged(q)' = Exchanged(q)
    BY <1>0, <2>1, RecordFacts
  <2> QED BY <1>0, <1>1, <2>2, ExchangedFacts
<1>4. /\ calls' \in [Role -> [send : Nat, receive : Nat]]
      /\ \A q \in Role : calls'[q].send = calls[q].send /\ calls[q].send \in Nat
  <2>1. /\ calls' \in [Role -> [send : Nat, receive : Nat]]
        /\ \A q \in Role : q # r => calls'[q] = calls[q]
        /\ calls'[r].send = calls[r].send + 0
        /\ \A q \in Role : calls[q].send \in Nat
    BY <1>0, <1>1, CallFacts DEF SendsCounted
  <2> QED BY <2>1
<1>5. \A q \in Role : Begun(q)' = Begun(q)
  BY <1>1, <1>4 DEF Begun
<1>6. t \in Nat /\ Client # Server /\ Client \in Role /\ Server \in Role
      /\ (r = Client \/ r = Server) /\ config \in Config
  BY <1>0, Roles DEF GenTypeOK
<1>7. /\ tokens'[r] = t + IF r = Client /\ n = "client-action" THEN 1 ELSE 0
      /\ \A q \in Role : q # r => tokens'[q] = tokens[q]
  <2>1. tokens' = IF r = Client /\ n = "client-action"
                    THEN [tokens EXCEPT ![r] = t + 1] ELSE tokens
    BY DEF Taken
  <2> QED BY <1>0, <1>6, <2>1 DEF GenTypeOK
<1>8. /\ Counted(r) = t /\ Counted(r)' = tokens'[r]
      /\ \A q \in Role : q # r => Counted(q)' = Counted(q)
  BY <1>1, <1>2, <1>6, <1>7 DEF Counted
<1>9. \E i \in 1..Exchanged(p) : i = x + 1
  BY <1>0, <1>1, <1>3, <1>p, ExchangedFacts
<1>10. 0 \notin config.cancel_after
  BY <1>0, <1>1, <1>3, <1>p DEF RefusedStops
<1>11. RefusedStops'
  BY <1>1, <1>10 DEF RefusedStops
<1>12. SendsCounted'
  <2>1. SendsAt(r, s, t, Begun(r), {})
    BY <1>0, <1>1, <1>8 DEF SendsCounted
  <2>2. s = "start" => t = 0
    BY <1>0, <1>1, <1>8 DEF TokensCounted, TokenCount
  <2>3. SendsAt(r, n, tokens'[r], Begun(r), {})
    <3> DEFINE u == tokens'[r]
               b == Begun(r)
    <3>1. u = t + IF r = Client /\ n = "client-action" THEN 1 ELSE 0
      BY <1>7
    <3>3. SendsAt(r, s, t, b, {})
      BY <2>1
    <3> HIDE DEF u, b, t, s
    <3>2. SendsAt(r, n, u, b, {})
      BY <1>1, <1>6, <2>2, <3>1, <3>3 DEF SendsAt, Arrives
    <3> QED BY <3>2 DEF u, b
  <2>4. ASSUME NEW q \in Role, ~Faulted(q)'
        PROVE  SendsAt(q, machine'[q].current, Counted(q)', Begun(q)', pending'[q])
    <3>1. CASE q = r
      BY <1>1, <1>2, <1>5, <1>8, <2>3, <3>1
    <3>2. CASE q # r
      <4>1. SendsAt(q, machine[q].current, Counted(q), Begun(q), pending[q])
        BY <1>0, <1>3, <2>4 DEF SendsCounted
      <4> QED BY <1>1, <1>2, <1>5, <1>8, <3>2, <4>1
    <3> QED BY <3>1, <3>2
  <2> QED BY <1>4, <2>4 DEF SendsCounted
<1>13. Scripted(config, x + 1, e.frame) /\ ~Hit(config, x + 1)
  <2>1. trace[p][x + 1] = e
    <3>1. x + 1 \in 1..Exchanged(r)' /\ x + 1 <= Exchanged(p)'
      BY <1>1, <1>3, <1>9, <1>p
    <3>2. trace'[r][x + 1] = trace'[p][x + 1]
      BY <3>1 DEF GenInv, SessionInv, CommonHistory
    <3> QED BY <1>3, <1>p, <3>2
  <2> QED BY <1>0, <1>9, <1>p, <2>1 DEF RecordsAreScripted
<1>14. TraceStep(Conv, s, e.frame) = {n} /\ s \in Driven /\ e.frame \in Frame
  <2>1. LeadsTo(r, n)'
    <3>1. Follows(r)'
      BY DEF GenInv, SessionInv, MachineFollowsRecord
    <3> QED BY <1>1, <1>2, <3>1 DEF Follows
  <2>2. StepOf(e) = {n}
    BY <1>3, <2>1 DEF LeadsTo, StepOf
  <2>3. s \in Driven
    BY <1>0, <1>1 DEF InStep
  <2> QED BY <1>1, <2>2, <2>3 DEF StepOf, Envelope
<1>15. Ends(config, x + 1) => n = "end"
  <2>1. x + 1 \in Nat
    BY <1>3
  <2> HIDE DEF x, s
  <2> QED BY <1>1, <1>6, <1>13, <1>14, <2>1, EndFrame
<1>16. ServerGoesOn'
  <2>1. CASE r = Server
    <3>1. /\ s = "client-action" => x = 3 * t
          /\ s = "start" => t = 0
      <4>1. TokenCount(r) /\ Follows(r)
        BY <1>0 DEF TokensCounted, SessionInv, MachineFollowsRecord
      <4>2. machine[r].sequence = x
        BY <1>0, <1>1, <4>1, ExchangedFacts DEF Follows
      <4> QED BY <1>1, <1>8, <4>1, <4>2 DEF TokenCount
    <3>2. n \in {"decide", "cancel", "end"}
          /\ (n = "decide" => s \in {"start", "client-action"})
      BY <1>1, <1>6, <2>1 DEF Arrives
    <3>3. s = "start" => ~Spent(config, t)
      <4>1. config.cancel_after \subseteq Nat
        BY <1>6, ConfigAssumption
      <4> QED BY <1>10, <3>1, <4>1 DEF Spent
    <3>4. ASSUME s = "client-action", n = "decide" PROVE ~Spent(config, t)
      <4>1. e.frame.label = "continue"
        BY <1>1, <1>14, <3>4, DrivenEdges
      <4>2. t > 0
        <5>1. trace[r] # <<>>
          <6>1. LeadsTo(r, s)
            BY <1>0, <1>1 DEF SessionInv, MachineFollowsRecord, Follows
          <6> QED BY <1>0, <1>1, <3>4, <6>1, StartIsFirst
        <5>2. x # 0
          BY <1>0, <1>1, <5>1, ExchangedFacts DEF TypeOK
        <5> QED BY <1>6, <3>1, <3>4, <5>2
      <4>3. e.frame = SelectFrame(Client, IF Spent(config, t) THEN "cancel" ELSE "continue")
        <5>1. Scripted(config, 3 * t + 1, e.frame)
          BY <1>13, <3>1, <3>4
        <5> HIDE DEF t
        <5> QED BY <1>6, <4>2, <5>1, ScriptAt
      <4> QED BY <4>1, <4>3 DEF SelectFrame
    <3>5. n = "decide" => ~Spent(config, Counted(r)')
      BY <1>6, <1>7, <1>8, <2>1, <3>2, <3>3, <3>4
    <3>6. pending'[r] = {}
      BY <1>1
    <3> QED BY <1>1, <1>2, <2>1, <3>2, <3>5, <3>6 DEF ServerGoesOn
  <2>2. CASE r # Server
    BY <1>0, <1>1, <1>2, <1>3, <1>6, <1>8, <2>2 DEF ServerGoesOn
  <2> QED BY <2>1, <2>2
<1>17. RecordsAreScripted'
  <2>a. s # "end"
    BY <1>1 DEF Arrives
  <2>1. ASSUME NEW q \in Role, NEW i \in 1..Exchanged(q)'
        PROVE  /\ Scripted(config, i, trace'[q][i].frame) /\ ~Hit(config, i)
               /\ Ends(config, i) => /\ i = Exchanged(q)' /\ pending'[q] = {}
                                     /\ ~Faulted(q)' /\ machine'[q].current = "end"
    <3>1. CASE q = r /\ i = x + 1
      BY <1>1, <1>2, <1>3, <1>13, <1>15, <3>1
    <3>2. CASE q = r /\ i \in 1..x
      <4>1. Scripted(config, i, trace[r][i].frame) /\ ~Hit(config, i)
        BY <1>0, <3>2 DEF RecordsAreScripted
      <4>2. ~Ends(config, i)
        BY <1>0, <2>a, <3>2, NotEnded
      <4> QED BY <1>3, <3>2, <4>1, <4>2
    <3>3. CASE q # r
      BY <1>0, <1>1, <1>2, <1>3, <2>1, <3>3 DEF RecordsAreScripted
    <3>4. q = r => i = x + 1 \/ i \in 1..x
      BY <1>3, <2>1
    <3> QED BY <3>1, <3>2, <3>3, <3>4
  <2> QED BY <1>1, <2>1 DEF RecordsAreScripted
<1>18. TokensOfRecord'
  <2>1. LiveTokens'
    BY TokensOfLiveNext
  <2> QED BY <1>0, <1>3, <1>7, <2>1 DEF TokensOfRecord, LiveTokens
<1>19. StoppedAtTheHit'
  <2> SUFFICES ASSUME fired, NEW plan \in config.fault
               PROVE  /\ Hit(config, Exchanged(plan.role)' + 1)
                      /\ Exchanged(Peer(plan.role))' <= Exchanged(plan.role)'
                      /\ ~Faulted(Peer(plan.role))'
    BY <1>1 DEF StoppedAtTheHit, Hit
  <2>1. plan.role \in Role /\ plan.role # r /\ r = Peer(plan.role) /\ plan.role = p
    BY <1>1, ChosenIsStuck
  <2>2. Hit(config, Exchanged(plan.role) + 1)
    BY <1>0 DEF StoppedAtTheHit
  <2>4. Exchanged(plan.role) \in Nat
    BY <1>0, <2>1, ExchangedFacts
  <2> QED BY <1>1, <1>3, <2>1, <2>2, <2>4
<1> QED BY <1>11, <1>12, <1>16, <1>17, <1>18, <1>19 DEF Script

\* The script survives a failure.
LEMMA FailedScript ==
  ASSUME GenInv, Script, NEW r \in Role, NEW s \in Driven \ {"end"},
         NEW failure \in Failure, Failed(r, s, failure)
  PROVE  Script'
<1>0. /\ SessionInv /\ TypeOK /\ GenTypeOK /\ MemoryKeeps /\ InjectionOK /\ RefusedStops
      /\ SendsCounted /\ ServerGoesOn /\ RecordsAreScripted /\ TokensOfRecord
      /\ StoppedAtTheHit
  BY DEF GenInv, SessionInv, Script
<1> DEFINE p == Peer(r)
<1>p. p \in Role /\ p # r /\ Peer(p) = r /\ \A q \in Role : q = r \/ q = p
  BY PeerFacts
<1>1. /\ ~Faulted(r) /\ Cause(r, failure) /\ config' = config /\ fired' = fired
      /\ tokens' = tokens /\ pending' = [pending EXCEPT ![r] = {}]
      /\ injecting' = [injecting EXCEPT ![r] = FALSE]
  BY DEF Failed
<1>2. PICK e \in Envelope : /\ trace' = [trace EXCEPT ![r] = Append(trace[r], e)]
                            /\ e.frame = FaultFrame(r, failure)
  BY DEF Failed
<1>3. /\ Faulted(r)' /\ Exchanged(r)' = Exchanged(r)
      /\ \A i \in 1..Exchanged(r) : trace'[r][i] = trace[r][i]
      /\ \A q \in Role : q # r => /\ trace'[q] = trace[q]
                                  /\ Exchanged(q)' = Exchanged(q)
                                  /\ Faulted(q)' <=> Faulted(q)
  <2>1. e.frame.op = "fault"
    BY <1>2 DEF FaultFrame
  <2>2. /\ Faulted(r)' <=> e.frame.op = "fault"
        /\ e.frame.op = "fault" => Exchanged(r)' = Len(trace[r])
        /\ \A i \in 1..Len(trace[r]) : trace'[r][i] = trace[r][i]
        /\ \A q \in Role : q # r => /\ trace'[q] = trace[q]
                                    /\ Faulted(q)' <=> Faulted(q)
                                    /\ Exchanged(q)' = Exchanged(q)
    BY <1>0, <1>2, RecordFacts
  <2> QED BY <1>0, <1>1, <2>1, <2>2, ExchangedFacts
<1>4. /\ \A q \in Role : q # r => machine'[q] = machine[q] /\ pending'[q] = pending[q]
                                  /\ injecting'[q] = injecting[q]
      /\ pending'[r] = {}
  <2>1. PICK x \in Nat : machine' = [machine EXCEPT ![r] =
          [current |-> FailureEdges[failure], sequence |-> x]]
    BY DEF Failed
  <2> QED BY <1>0, <1>1, <2>1 DEF TypeOK, GenTypeOK
<1>5. /\ calls' \in [Role -> [send : Nat, receive : Nat]]
      /\ \A q \in Role : q # r => calls'[q] = calls[q]
  <2>1. calls \in [Role -> [send : Nat, receive : Nat]]
    BY <1>0 DEF SendsCounted
  <2>2. calls' = calls \/ \E operation \in {"send", "receive"} : CountCall(r, operation)
    BY DEF Failed
  <2> QED BY <2>1, <2>2, CallFacts
<1>6. \A q \in Role : q # r => Begun(q)' = Begun(q) /\ Counted(q)' = Counted(q)
  BY <1>1, <1>4, <1>5 DEF Begun, Counted
<1>7. machine[r].current # "end" \/ pending[r] # {}
  <2>1. ASSUME machine[r].current = "end" PROVE Local(r).kind = "end"
    BY <2>1, Kinds DEF Local
  <2>2. CASE injecting[r]
    <3>1. pending[r] # {} \/ ~IsComplete(r)
      BY <1>0, <2>2 DEF InjectionOK
    <3> QED BY <2>1, <3>1 DEF IsComplete
  <2>3. CASE ~injecting[r]
    <3>1. pending[r] # {} \/ Blocked(r)
      BY <1>1, <2>3 DEF Cause
    <3> QED BY <2>1, <3>1 DEF Blocked, Accepting
  <2> QED BY <2>2, <2>3
<1>8. ASSUME 0 \in config.cancel_after PROVE r = Server
  <2> SUFFICES ASSUME r = Client PROVE FALSE
    BY Roles
  <2>1. /\ ~fired /\ pending[r] = {}
        /\ machine[r] = [current |-> "start", sequence |-> 0]
    BY <1>0, <1>1, <1>8 DEF RefusedStops
  <2>2. ~injecting[r]
    BY <1>0, <2>1 DEF InjectionOK
  <2>3. Blocked(r)
    BY <1>1, <2>1, <2>2 DEF Cause
  <2>4. Local(r).kind = "send"
    BY <2>1, Kinds DEF Local
  <2> QED BY <2>3, <2>4 DEF Blocked, Accepting
<1>9. RefusedStops'
  <2> SUFFICES ASSUME 0 \in config.cancel_after
               PROVE  /\ ~fired' /\ ~Faulted(Client)'
                      /\ \A q \in Role :
                           /\ pending'[q] = {} /\ Exchanged(q)' = 0
                           /\ ~Faulted(q)' =>
                                machine'[q] = [current |-> "start", sequence |-> 0]
    BY <1>1 DEF RefusedStops
  <2>1. /\ ~fired /\ ~Faulted(Client)
        /\ \A q \in Role : /\ pending[q] = {} /\ Exchanged(q) = 0
                           /\ ~Faulted(q) =>
                                machine[q] = [current |-> "start", sequence |-> 0]
    BY <1>0 DEF RefusedStops
  <2>2. Client # r /\ Client \in Role
    BY <1>8, Roles
  <2> QED BY <1>1, <1>3, <1>4, <2>1, <2>2
<1>10. SendsCounted'
  <2>1. ASSUME NEW q \in Role, ~Faulted(q)'
        PROVE  SendsAt(q, machine'[q].current, Counted(q)', Begun(q)', pending'[q])
    <3>1. q # r
      BY <1>3, <2>1
    <3>2. SendsAt(q, machine[q].current, Counted(q), Begun(q), pending[q])
      BY <1>0, <1>3, <2>1, <3>1 DEF SendsCounted
    <3> QED BY <1>4, <1>6, <3>1, <3>2
  <2> QED BY <1>5, <2>1 DEF SendsCounted
<1>11. ServerGoesOn'
  BY <1>0, <1>1, <1>3, <1>4, <1>6, Roles DEF ServerGoesOn
<1>12. RecordsAreScripted'
  <2>1. ASSUME NEW q \in Role, NEW i \in 1..Exchanged(q)'
        PROVE  /\ Scripted(config, i, trace'[q][i].frame) /\ ~Hit(config, i)
               /\ Ends(config, i) => /\ i = Exchanged(q)' /\ pending'[q] = {}
                                     /\ ~Faulted(q)' /\ machine'[q].current = "end"
    <3>1. CASE q = r
      <4>1. i \in 1..Exchanged(r) /\ trace'[r][i] = trace[r][i]
        BY <1>3, <2>1, <3>1
      <4>2. ~Ends(config, i)
        BY <1>0, <1>7, <4>1, NotEnded
      <4>3. Scripted(config, i, trace[r][i].frame) /\ ~Hit(config, i)
        BY <1>0, <4>1 DEF RecordsAreScripted
      <4> QED BY <3>1, <4>1, <4>2, <4>3
    <3>2. CASE q # r
      BY <1>0, <1>3, <1>4, <2>1, <3>2 DEF RecordsAreScripted
    <3> QED BY <3>1, <3>2
  <2> QED BY <1>1, <2>1 DEF RecordsAreScripted
<1>13. TokensOfRecord'
  BY <1>0, <1>1, <1>3 DEF TokensOfRecord
<1>14. StoppedAtTheHit'
  <2> SUFFICES ASSUME fired, NEW plan \in config.fault
               PROVE  /\ Hit(config, Exchanged(plan.role)' + 1)
                      /\ Exchanged(Peer(plan.role))' <= Exchanged(plan.role)'
                      /\ Faulted(Peer(plan.role))' =>
                           Exchanged(Peer(plan.role))' = Exchanged(plan.role)'
    BY <1>1 DEF StoppedAtTheHit, Hit
  <2>1. plan.role \in Role /\ Peer(plan.role) \in Role
    BY <1>0, PeerFacts DEF GenTypeOK, Accepted
  <2>2. /\ Hit(config, Exchanged(plan.role) + 1)
        /\ Exchanged(Peer(plan.role)) <= Exchanged(plan.role)
        /\ Faulted(Peer(plan.role)) => Exchanged(Peer(plan.role)) = Exchanged(plan.role)
    BY <1>0 DEF StoppedAtTheHit
  <2>3. CASE plan.role = r
    BY <1>3, <1>p, <2>1, <2>2, <2>3
  <2>4. CASE plan.role # r
    <3>1. plan.role = p /\ Peer(plan.role) = r
      BY <1>p, <2>1, <2>4
    <3>2. ~injecting[r]
      BY <1>0, <2>4 DEF InjectionOK
    <3>3. Exchanged(r) \in Nat /\ Exchanged(p) \in Nat
      BY <1>0, <1>p, ExchangedFacts
    <3>4. ~(Exchanged(r) < Exchanged(p))
      <4> SUFFICES ASSUME Exchanged(p) > Exchanged(r) PROVE FALSE
        BY <3>3
      <4>1. pending[r] = {}
        BY <1>0, <1>p DEF SessionInv, AheadInOwnTurn
      <4>2. wire[p] = <<>>
        BY <1>1, <3>2, <4>1 DEF Cause
      <4>3. Len(wire[p]) = Exchanged(p) - Exchanged(r)
        BY <1>0, <1>p, <3>3 DEF MemoryKeeps
      <4> QED BY <3>3, <4>2, <4>3
    <3> QED BY <1>3, <1>p, <2>2, <3>1, <3>3, <3>4
  <2> QED BY <2>3, <2>4
<1> QED BY <1>9, <1>10, <1>11, <1>12, <1>13, <1>14 DEF Script

\* The script survives the choice of a send.
LEMMA ChosenScript ==
  ASSUME GenInv, SendsOnly(config), Script, NEW r \in Role, Chosen(r)
  PROVE  Script'
<1>0. /\ SessionInv /\ TypeOK /\ GenTypeOK /\ StatusKnown /\ FaultsHaveACause /\ RefusedStops
      /\ SendsCounted /\ ServerGoesOn /\ RecordsAreScripted /\ TokensOfRecord
  BY DEF GenInv, SessionInv, Script
<1> DEFINE p == Peer(r)
<1>p. p \in Role /\ p # r /\ Peer(p) = r
  BY PeerFacts
<1>1. /\ machine' = machine /\ pending' = pending /\ trace' = trace /\ config' = config
      /\ tokens' = tokens /\ ~Faulted(r) /\ ~injecting[r] /\ ~fired
      /\ status[r] = "running" /\ injecting' = [injecting EXCEPT ![r] = TRUE]
  BY DEF Chosen, vars
<1>2. PICK plan \in config.fault : /\ r = plan.role /\ CountCall(r, "send") /\ pending[r] # {}
                                   /\ calls[r].send + 1 = plan.occurrence
  BY DEF Chosen, SendsOnly
<1>3. /\ calls' \in [Role -> [send : Nat, receive : Nat]]
      /\ \A q \in Role : q # r => calls'[q] = calls[q]
      /\ calls'[r].send = calls[r].send + 1 /\ calls[r].send \in Nat
  BY <1>0, <1>2, CallFacts DEF SendsCounted
<1>4. \A q : /\ Faulted(q)' <=> Faulted(q)
             /\ Exchanged(q)' = Exchanged(q) /\ Counted(q)' = Counted(q)
  BY <1>1 DEF Faulted, Exchanged, Counted
<1>5. /\ injecting'[r]
      /\ \A q \in Role : q # r => injecting'[q] = injecting[q]
  BY <1>0, <1>1 DEF GenTypeOK
<1>6. Begun(r) = calls[r].send + 1 /\ \A q \in Role : Begun(q)' = Begun(q)
  BY <1>1, <1>2, <1>3, <1>5 DEF Begun
<1>7. RefusedStops'
  BY <1>0, <1>1, <1>2 DEF RefusedStops
<1>8. SendsCounted'
  BY <1>0, <1>1, <1>3, <1>4, <1>6 DEF SendsCounted
<1>9. ServerGoesOn' /\ RecordsAreScripted' /\ TokensOfRecord'
  BY <1>0, <1>1, <1>4 DEF ServerGoesOn, RecordsAreScripted, TokensOfRecord
<1>10. StoppedAtTheHit'
  <2>1. PICK e : e \in pending[r]
    BY <1>2
  <2>2. OwnSend(config, r, Exchanged(r) + 1, Begun(r))
    BY <1>0, <2>1, PreparedScript
  <2>3. Hit(config, Exchanged(r) + 1)
    BY <1>2, <1>6, <2>2 DEF Hit
  <2>4. Exchanged(p) <= Exchanged(r)
    <3>1. Exchanged(r) \in Nat /\ Exchanged(p) \in Nat
      BY <1>0, <1>p, ExchangedFacts
    <3>2. ~(Exchanged(p) > Exchanged(r))
      BY <1>0, <1>2, <1>p DEF SessionInv, AheadInOwnTurn
    <3> QED BY <3>1, <3>2
  <2>5. ~Faulted(p)
    BY <1>0, <1>1, <1>p, Roles DEF FaultsHaveACause
  <2>6. \A other \in config.fault : other = plan
    BY <1>0, <1>2, ConfigAssumption DEF GenTypeOK
  <2> QED BY <1>1, <1>2, <1>4, <2>3, <2>4, <2>5, <2>6 DEF StoppedAtTheHit
<1> QED BY <1>7, <1>8, <1>9, <1>10 DEF Script

\* A step that touches none of this leaves the script as it is.
LEMMA OtherScript ==
  ASSUME Script, UNCHANGED <<machine, pending, trace, config, tokens, calls, fired, injecting>>
  PROVE  Script'
<1>1. \A q : /\ Faulted(q)' <=> Faulted(q)
             /\ Exchanged(q)' = Exchanged(q) /\ Counted(q)' = Counted(q)
             /\ Begun(q)' = Begun(q)
  BY DEF Faulted, Exchanged, Counted, Begun
<1>2. RefusedStops' /\ SendsCounted' /\ ServerGoesOn'
  BY <1>1 DEF Script, RefusedStops, SendsCounted, ServerGoesOn
<1>3. RecordsAreScripted' /\ TokensOfRecord' /\ StoppedAtTheHit'
  BY <1>1 DEF Script, RecordsAreScripted, TokensOfRecord, StoppedAtTheHit
<1> QED BY <1>2, <1>3 DEF Script

\* The script of a run that has not begun.
LEMMA InitScript == GenInit => Script
<1> SUFFICES ASSUME GenInit PROVE Script
  OBVIOUS
<1>1. GenInv
  BY GenInitInv
<1>2. /\ machine = [r \in Role |-> [current |-> "start", sequence |-> 0]]
      /\ pending = [r \in Role |-> {}] /\ trace = [r \in Role |-> <<>>]
      /\ fired = FALSE /\ tokens = [r \in Role |-> 0]
      /\ calls = [r \in Role |-> [send |-> 0, receive |-> 0]]
  BY GenerateAssumption DEF GenInit, Init
<1>3. \A r \in Role : /\ ~Faulted(r) /\ Exchanged(r) = 0 /\ Counted(r) = 0 /\ Begun(r) = 0
  BY <1>2 DEF Faulted, Exchanged, Counted, Begun
<1>4. RefusedStops
  BY <1>2, <1>3, Roles DEF RefusedStops
<1>5. SendsCounted
  BY <1>2, <1>3 DEF SendsCounted, SendsAt
<1>6. ServerGoesOn
  BY <1>2, Roles DEF ServerGoesOn
<1>7. RecordsAreScripted
  BY <1>3 DEF RecordsAreScripted
<1>8. TokensOfRecord
  BY <1>2, <1>3 DEF TokensOfRecord
<1>9. StoppedAtTheHit
  BY <1>2 DEF StoppedAtTheHit
<1> QED BY <1>4, <1>5, <1>6, <1>7, <1>8, <1>9 DEF Script

\* The same of the second run.
LEMMA InitScriptNext == GenInit' => Script'
<1> SUFFICES ASSUME GenInit' PROVE Script'
  OBVIOUS
<1> QED BY InitScript, PTL

\* Every step of the drivers keeps the script, and the command line stays what it is.
LEMMA ScriptStep ==
  ASSUME GenInv, GenNext
  PROVE  config' = config /\ (SendsOnly(config) /\ Script => Script')
<1>1. SessionInv /\ GenTypeOK /\ InStep /\ InjectionOK
  BY DEF GenInv
<1>2. PICK r \in Role :
        \/ \E n \in Driven : Emitted(r, n)
        \/ \E e \in Envelope : Sent(r, e)
        \/ \E e \in Envelope, n \in Driven : Taken(r, e, n)
        \/ \E s \in Driven \ {"end"}, failure \in Failure : Failed(r, s, failure)
        \/ Chosen(r)
        \/ \E how \in {"reported", "crashed"} : Left(r, how)
  BY <1>1, GenShapes
<1>3. config' = config
  BY <1>2 DEF Emitted, Emits, Sent, Taken, Failed, Chosen, Left
<1>4. GenInv'
  BY GenStep
<1>5. ASSUME SendsOnly(config), Script PROVE Script'
  <2>1. (\E how \in {"reported", "crashed"} : Left(r, how)) => Script'
    BY <1>5, OtherScript DEF Left
  <2> QED
    BY <1>2, <1>4, <1>5, <2>1, EmittedScript, SentScript, TakenScript, FailedScript, ChosenScript
<1> QED BY <1>3, <1>5

\* How a record that ends in a fault ends, and what its report says of it.
LEMMA FaultedReport ==
  ASSUME GenInv, CountInv, NEW r \in Role, Faulted(r)
  PROVE  LET n == Len(trace[r])
             f == trace[r][n].frame.failure
         IN  /\ n = Exchanged(r) + 1 /\ machine[r].sequence = n
             /\ f \in DOMAIN FailureEdges
             /\ trace[r][n].frame = FaultFrame(r, f)
             /\ machine[r].current = FailureEdges[f]
<1> DEFINE n == Len(trace[r])
           e == trace[r][n]
           f == e.frame.failure
<1>1. TypeOK /\ RecordsAreWalks /\ trace[r] # <<>> /\ e.frame.op = "fault"
  BY DEF GenInv, SessionInv, Faulted
<1>2. n \in 1..n /\ n \in Nat /\ e \in Envelope /\ n = Exchanged(r) + 1
  BY <1>1, ExchangedFacts DEF TypeOK
<1>3. e.state \in State /\ e.frame \in Frame
  BY <1>2 DEF Envelope
<1>4. StepOf(e) # {}
  BY <1>1, <1>2 DEF RecordsAreWalks, EntryOK
<1>5. LeadsTo(r, machine[r].current)
  <2>1. pending[r] = {}
    BY FaultedTerminal DEF GenInv, SessionInv
  <2> QED BY <2>1 DEF GenInv, SessionInv, MachineFollowsRecord, Follows
<1>6. StepOf(e) = {machine[r].current}
  BY <1>1, <1>5 DEF LeadsTo
<1>7. e.frame = FaultFrame(r, f)
  <2>1. e.frame.observer = r
    BY DEF GenInv, FaultsLead, LastOf
  <2>2. e.frame = [op |-> "fault", observer |-> e.frame.observer, failure |-> e.frame.failure]
    BY <1>1, <1>3 DEF Frame
  <2> QED BY <2>1, <2>2 DEF FaultFrame
<1>8. machine[r].sequence = n \/ e.state \in Successors(Conv.states[e.state])
  BY DEF CountInv, CountOK
<1> HIDE DEF n, e
<1>9. e.state \in Driven \ {"end"}
  <2>1. ~Terminal(Conv.states[e.state])
    BY <1>3, <1>4, TerminalFacts DEF StepOf
  <2> QED BY <1>3, <2>1, Actors
<1>10. StepOf(e) = FailureTarget(Conv.states[e.state], f)
  <2>1. e.frame.op = "fault" /\ e.frame.observer \in Conv.roles /\ e.frame.failure = f
    BY <1>1, <1>7 DEF FaultFrame, Role
  <2>2. TraceStep(Conv, e.state, e.frame) = FailureTarget(Conv.states[e.state], e.frame.failure)
    BY <2>1 DEF TraceStep, Only
  <2> QED BY <2>1, <2>2 DEF StepOf
<1>11. f \in DOMAIN FailureEdges
  <2>1. FailureTarget(Conv.states[e.state], f) # {}
    BY <1>4, <1>10
  <2>2. Declared(f)
    BY <1>3, <2>1 DEF Declared
  <2> QED BY <1>9, <2>2, FailureSteps
<1>12. machine[r].current = FailureEdges[f]
  <2>1. FailureTarget(Conv.states[e.state], f) = {FailureEdges[f]}
    BY <1>9, <1>11, FailureSteps
  <2> QED BY <1>6, <1>10, <2>1
<1>13. e.state \notin Successors(Conv.states[e.state])
  <2> DEFINE s == e.state
             g == Conv.states[s]
             onward == CASE s = "start" -> {"decide"}
                         [] s = "decide" -> {"emit-token", "end"}
                         [] s = "emit-token" -> {"client-action"}
                         [] s = "client-action" -> {"decide", "cancel"}
                         [] s = "cancel" -> {"end"}
  <2>1. s \in {"start", "decide", "emit-token", "client-action", "cancel"}
    BY <1>9 DEF Driven
  <2>2. g.kind \in {"send", "choice", "cancel"} /\ g.on_failure = FailureEdges
    BY <2>1, GenerateAssumption DEF SendState, ChoiceState, CancelState
  <2>3. /\ g.kind \in {"send", "cancel"} => g.next \in onward
        /\ g.kind = "choice" => \A l \in DOMAIN g.branches : g.branches[l] \in onward
    <3>1. CASE s = "start"
      BY <3>1, GenerateAssumption DEF SendState
    <3>2. CASE s = "decide"
      BY <3>2, GenerateAssumption DEF ChoiceState
    <3>3. CASE s = "emit-token"
      BY <3>3, GenerateAssumption DEF SendState
    <3>4. CASE s = "client-action"
      BY <3>4, GenerateAssumption DEF ChoiceState
    <3>5. CASE s = "cancel"
      BY <3>5, GenerateAssumption DEF CancelState
    <3> QED BY <2>1, <3>1, <3>2, <3>3, <3>4, <3>5
  <2>4. s \notin onward
    BY <2>1
  <2>5. \A l \in DOMAIN FailureEdges : Conv.states[FailureEdges[l]].kind = "fail"
    BY <1>9, FailureSteps
  <2>6. \A l \in DOMAIN FailureEdges : FailureEdges[l] # s
    BY <2>2, <2>5
  <2> HIDE DEF onward, s, g
  <2>7. s \notin Successors(g)
    BY <2>2, <2>3, <2>4, <2>6 DEF Successors
  <2> QED BY <2>7 DEF s, g
<1> QED BY <1>2, <1>7, <1>8, <1>11, <1>12, <1>13 DEF n, e

\* A role at the end has come to the last entry of the script.
LEMMA EndIsScripted ==
  ASSUME GenInv, Script, NEW r \in Role, ~Faulted(r), pending[r] = {},
         machine[r].current = "end"
  PROVE  Exchanged(r) \in Nat \ {0} /\ Ends(config, Exchanged(r))
<1> DEFINE x == Exchanged(r)
           t == tokens[r]
           e == trace[r][x]
<1>1. t \in Nat /\ x = Len(trace[r]) /\ x \in Nat /\ config.tokens \in Nat
  BY ExchangedFacts, ConfigAssumption DEF GenInv, GenTypeOK, SessionInv
<1>2. LeadsTo(r, "end") /\ machine[r].sequence = x
  BY <1>1 DEF GenInv, SessionInv, MachineFollowsRecord, Follows
<1>3. x = 3 * t + 2
  <2>1. TokenCount(r) /\ Counted(r) = t
    BY <1>1 DEF GenInv, TokensCounted, Counted
  <2> QED BY <1>1, <1>2, <2>1 DEF TokenCount
<1>4. x # 0 /\ x \in 1..x /\ trace[r] # <<>>
  <2>1. trace[r] = <<>> => x = 0
    BY <1>1
  <2> HIDE DEF x
  <2> QED BY <1>1, <1>3, <2>1
<1>5. StepOf(e) = {"end"} /\ e \in Envelope /\ e.frame.op # "fault"
  <2>1. e \in Envelope /\ EntryOK(r, x)
    BY <1>1, <1>4 DEF GenInv, SessionInv, TypeOK, RecordsAreWalks
  <2>2. StepOf(e) = {"end"}
    BY <1>1, <1>2, <1>4 DEF LeadsTo
  <2> QED BY <1>1, <2>1, <2>2 DEF EntryOK
<1>6. Scripted(config, x, e.frame)
  BY <1>4 DEF Script, RecordsAreScripted
<1> HIDE DEF x, e, t
<1>7. e.state \in Driven /\ e.frame \in Frame /\ TraceStep(Conv, e.state, e.frame) = {"end"}
  <2>1. e.state \in State /\ e.frame \in Frame
    BY <1>5 DEF Envelope
  <2> QED BY <1>5, <2>1, TerminalFacts, Actors DEF StepOf
<1>8. e.frame.op = "cancel" \/ (e.frame.op = "select" /\ e.frame.label = "done")
  BY <1>5, <1>7, DrivenEdges
<1>9. Ends(config, x)
  BY <1>1, <1>3, <1>6, <1>8, LastFrame
<1> QED BY <1>1, <1>4, <1>9 DEF x

\* The reports of a run that was refused.
LEMMA SettledRefused ==
  ASSUME GenInv, CountInv, Script, Finished, 0 \in config.cancel_after
  PROVE  Reports = RefusedReports
<1>0. Client \in Role /\ Server \in Role /\ Client # Server /\ Role = {Client, Server}
  BY Roles
<1>1. /\ ~fired /\ ~Faulted(Client)
      /\ \A r \in Role : /\ pending[r] = {} /\ Exchanged(r) = 0
                         /\ ~Faulted(r) => machine[r] = [current |-> "start", sequence |-> 0]
  BY DEF Script, RefusedStops
<1>2. \A r \in Role : ~Faulted(r) => status[r] # "reported"
  <2> SUFFICES ASSUME NEW r \in Role, ~Faulted(r), status[r] = "reported" PROVE FALSE
    OBVIOUS
  <2>1. machine[r].current = "start" /\ Terminal(Conv.states[machine[r].current])
    BY <1>1, ReportedEnd
  <2> QED BY <2>1, Actors DEF Driven
<1>3. status[Client] = "crashed" /\ status[Server] = "reported" /\ Faulted(Server)
  BY <1>0, <1>1, <1>2 DEF Finished, GenInv, StatusKnown
<1>4. \A r \in Role : tokens[r] = 0
  <2>1. \A r \in Role : tokens[r] \in Nat /\ 3 * tokens[r] <= 0
    BY <1>1 DEF GenInv, GenTypeOK, Script, TokensOfRecord
  <2> QED BY <2>1
<1>5. Len(trace[Client]) = 0
  BY <1>0, <1>1, ExchangedFacts DEF GenInv, SessionInv
<1>6. ReportOf(Client) = RefusedReports[Client]
  <2>1. [i \in 1..Len(trace[Client]) |-> trace[Client][i].frame] = [j \in 1..0 |-> 0]
    BY <1>5
  <2>2. machine[Client].current = "start" /\ machine[Client].sequence = 0
    BY <1>0, <1>1
  <2> QED BY <1>0, <1>3, <1>4, <2>1, <2>2 DEF ReportOf, RefusedReports
<1>7. ReportOf(Server) = RefusedReports[Server]
  <2> DEFINE f == trace[Server][Len(trace[Server])].frame.failure
  <2>1. /\ Len(trace[Server]) = 1 /\ machine[Server].sequence = 1
        /\ trace[Server][1].frame = FaultFrame(Server, f)
        /\ machine[Server].current = FailureEdges[f]
    BY <1>0, <1>1, <1>3, FaultedReport
  <2>2. f = Closed
    BY <1>0, <1>1, <1>3 DEF GenInv, ViewsAreAssigned
  <2>3. [i \in 1..Len(trace[Server]) |-> trace[Server][i].frame]
          = [j \in 1..1 |-> FaultFrame(Server, Closed)]
    <3>1. trace[Server][1].frame = FaultFrame(Server, Closed)
      BY <2>1, <2>2
    <3> HIDE DEF f
    <3>2. \A i \in 1..1 : i = 1
      OBVIOUS
    <3>3. \A i \in 1..1 : trace[Server][i].frame = FaultFrame(Server, Closed)
      BY <3>1, <3>2
    <3> QED BY <2>1, <3>3
  <2> QED BY <1>0, <1>3, <1>4, <2>1, <2>2, <2>3 DEF ReportOf, RefusedReports
<1> QED BY <1>0, <1>6, <1>7 DEF Reports, RefusedReports

\* The report of a role that has reported, when its last entry is i.
LEMMA SettledReport ==
  ASSUME GenInv, CountInv, Script, NEW r \in Role, status[r] = "reported",
         0 \notin config.cancel_after, NEW i \in Nat \ {0},
         \/ ~Faulted(r) /\ Exchanged(r) = i /\ ~Hit(config, i)
         \/ Faulted(r) /\ Exchanged(r) + 1 = i /\ Hit(config, i) /\ fired
  PROVE  ReportAt(config, r, i, ReportOf(r))
<1> DEFINE R == ReportOf(r)
           x == IF Hit(config, i) THEN i - 1 ELSE i
<1>1. /\ R.final_state = machine[r].current /\ R.frames = machine[r].sequence
      /\ R.tokens = tokens[r] /\ R.status = "reported"
      /\ R.semantic_trace = [j \in 1..Len(trace[r]) |-> trace[r][j].frame]
      /\ R = [final_state |-> R.final_state, frames |-> R.frames, tokens |-> R.tokens,
              status |-> R.status, semantic_trace |-> R.semantic_trace]
  BY DEF ReportOf
<1>2. x = Exchanged(r) /\ x \in Nat
  <2>1. Exchanged(r) \in Nat
    BY ExchangedFacts DEF GenInv, SessionInv
  <2> QED BY <2>1
<1>3. Len(trace[r]) = i /\ machine[r].sequence = i
  <2>1. CASE Faulted(r)
    BY <2>1, FaultedReport
  <2>2. CASE ~Faulted(r)
    <3>1. Exchanged(r) = Len(trace[r])
      BY <2>2, ExchangedFacts DEF GenInv, SessionInv
    <3>2. machine[r].sequence = Len(trace[r])
      BY <2>2, ReportedEnd DEF GenInv, SessionInv, MachineFollowsRecord, Follows
    <3> QED BY <2>2, <3>1, <3>2
  <2> QED BY <2>1, <2>2
<1>4. /\ tokens[r] \in Nat /\ 3 * tokens[r] <= x /\ x <= 3 * tokens[r] + 2
  BY <1>2 DEF GenInv, GenTypeOK, Script, TokensOfRecord
<1> HIDE DEF R
<1>5. R.semantic_trace = [j \in 1..i |-> R.semantic_trace[j]]
      /\ \A j \in 1..i : R.semantic_trace[j] = trace[r][j].frame
  BY <1>1, <1>3
<1>6. \A j \in 1..x : Scripted(config, j, R.semantic_trace[j])
  <2>1. \A j \in 1..x : Scripted(config, j, trace[r][j].frame)
    BY <1>2 DEF Script, RecordsAreScripted
  <2>2. \A j \in 1..x : j \in 1..i
    BY <1>2
  <2> QED BY <1>5, <2>1, <2>2
<1>7. Hit(config, i) => \E f \in DOMAIN FailureEdges :
        /\ View(config, r, f) /\ R.semantic_trace[i] = FaultFrame(r, f)
        /\ R.final_state = FailureEdges[f]
  <2> SUFFICES ASSUME Hit(config, i)
               PROVE  \E f \in DOMAIN FailureEdges :
                        /\ View(config, r, f) /\ R.semantic_trace[i] = FaultFrame(r, f)
                        /\ R.final_state = FailureEdges[f]
    OBVIOUS
  <2> DEFINE f == trace[r][Len(trace[r])].frame.failure
  <2>1. Faulted(r) /\ fired
    OBVIOUS
  <2>2. /\ f \in DOMAIN FailureEdges
        /\ trace[r][i].frame = FaultFrame(r, f)
        /\ machine[r].current = FailureEdges[f]
    BY <1>3, <2>1, FaultedReport
  <2>3. View(config, r, f)
    BY <2>1 DEF GenInv, ViewsAreAssigned, View
  <2>4. R.semantic_trace[i] = trace[r][i].frame
    BY <1>5
  <2> HIDE DEF f
  <2> QED BY <1>1, <2>2, <2>3, <2>4
<1>8. ~Hit(config, i) => R.final_state = "end"
  BY <1>1, ReportedEnd
<1>9. R.frames = i /\ R.tokens = tokens[r] /\ R.status = "reported"
  BY <1>1, <1>3
<1>10. R = [final_state |-> R.final_state, frames |-> i, tokens |-> R.tokens,
            status |-> "reported", semantic_trace |-> R.semantic_trace]
  BY <1>1, <1>9
<1> HIDE DEF x
<1>11. x = IF Hit(config, i) THEN i - 1 ELSE i
  BY DEF x
<1>12. ReportAt(config, r, i, R)
  BY <1>4, <1>5, <1>6, <1>7, <1>8, <1>9, <1>10, <1>11 DEF ReportAt
<1> QED BY <1>12 DEF R

\* The reports of a run that has ended are the ones the command line settles.
LEMMA SettledHolds ==
  ASSUME GenInv, CountInv, Script, Finished
  PROVE  Settled(config, Reports)
<1>0. /\ Reports = [r \in Role |-> Reports[r]] /\ \A r \in Role : Reports[r] = ReportOf(r)
  BY DEF Reports
<1>1. CASE 0 \in config.cancel_after
  BY <1>0, <1>1, SettledRefused DEF Settled
<1>2. CASE 0 \notin config.cancel_after
  <2>1. \A r \in Role : status[r] = "reported"
    BY <1>2 DEF GenInv, StatusKnown, Finished
  <2>2. \E i \in Nat \ {0} :
          /\ Hit(config, i) \/ Ends(config, i)
          /\ \A j \in 1..i - 1 : ~Hit(config, j) /\ ~Ends(config, j)
          /\ \A r \in Role :
               \/ ~Faulted(r) /\ Exchanged(r) = i /\ ~Hit(config, i)
               \/ Faulted(r) /\ Exchanged(r) + 1 = i /\ Hit(config, i) /\ fired
    <3>1. CASE fired
      <4>1. PICK plan \in config.fault : TRUE
        BY <3>1 DEF GenInv, InjectionOK
      <4> DEFINE c == plan.role
                 p == Peer(c)
                 x == Exchanged(c)
                 i == x + 1
      <4>2. c \in Role /\ p \in Role /\ Peer(p) = c /\ \A q \in Role : q = c \/ q = p
        BY <4>1, PeerFacts DEF GenInv, GenTypeOK, Accepted
      <4>3. Faulted(c)
        BY <2>1, <3>1, <4>1, <4>2 DEF GenInv, InjectionOK
      <4>4. /\ Hit(config, i) /\ Exchanged(p) <= x
            /\ Faulted(p) => Exchanged(p) = x
        BY <3>1, <4>1 DEF Script, StoppedAtTheHit
      <4>5. x \in Nat
        BY <4>2, ExchangedFacts DEF GenInv, SessionInv
      <4>6. \A j \in 1..x : ~Hit(config, j) /\ ~Ends(config, j)
        BY <4>2, <4>3 DEF Script, RecordsAreScripted
      <4>7. Faulted(p)
        <5> SUFFICES ASSUME ~Faulted(p) PROVE FALSE
          OBVIOUS
        <5>1. Exchanged(p) \in Nat \ {0} /\ Ends(config, Exchanged(p))
          BY <2>1, <4>2, ReportedEnd, EndIsScripted
        <5>2. Exchanged(p) \in 1..x
          BY <4>4, <4>5, <5>1
        <5> QED BY <4>6, <5>1, <5>2
      <4>8. /\ i \in Nat \ {0} /\ i - 1 = x
            /\ \A q \in Role : Faulted(q) /\ Exchanged(q) + 1 = i
        BY <4>2, <4>3, <4>4, <4>5, <4>7
      <4> HIDE DEF x, i
      <4> QED BY <3>1, <4>4, <4>6, <4>8
    <3>2. CASE ~fired
      <4>1. \A r \in Role : ~Faulted(r)
        BY <1>2, <3>2 DEF GenInv, ViewsAreAssigned
      <4>2. Client \in Role /\ Peer(Client) = Server /\ Role = {Client, Server}
        BY Roles
      <4>3. \A r \in Role : trace[r] = trace[Client]
        BY <2>1, <4>1, <4>2, ReportsAgreeHolds DEF GenInv, ReportsAgree
      <4> DEFINE i == Exchanged(Client)
      <4>4. i \in Nat \ {0} /\ Ends(config, i)
        BY <2>1, <4>1, <4>2, ReportedEnd, EndIsScripted
      <4>5. \A j \in 1..i : /\ ~Hit(config, j)
                            /\ Ends(config, j) => j = i
        BY <4>2 DEF Script, RecordsAreScripted
      <4>6. \A r \in Role : Exchanged(r) = i
        BY <4>1, <4>2, <4>3 DEF Exchanged
      <4>7. ~Hit(config, i) /\ \A j \in 1..i - 1 : ~Hit(config, j) /\ ~Ends(config, j)
        <5>1. i \in 1..i /\ \A j \in 1..i - 1 : j \in 1..i /\ j # i
          BY <4>4
        <5> QED BY <4>5, <5>1
      <4> HIDE DEF i
      <4> QED BY <4>1, <4>4, <4>6, <4>7
    <3> QED BY <3>1, <3>2
  <2>3. PICK i \in Nat \ {0} :
          /\ Hit(config, i) \/ Ends(config, i)
          /\ \A j \in 1..i - 1 : ~Hit(config, j) /\ ~Ends(config, j)
          /\ \A r \in Role :
               \/ ~Faulted(r) /\ Exchanged(r) = i /\ ~Hit(config, i)
               \/ Faulted(r) /\ Exchanged(r) + 1 = i /\ Hit(config, i) /\ fired
    BY <2>2
  <2>4. \A r \in Role : ReportAt(config, r, i, Reports[r])
    BY <1>0, <1>2, <2>1, <2>3, SettledReport
  <2> QED BY <1>0, <1>2, <2>3, <2>4 DEF Settled
<1> QED BY <1>1, <1>2

\* A command line settles one report for each role and last entry.
LEMMA ReportFixed ==
  ASSUME NEW c \in Config, NEW r \in Role, NEW i \in Nat \ {0}, NEW R, NEW Q,
         ReportAt(c, r, i, R), ReportAt(c, r, i, Q)
  PROVE  R = Q
<1> DEFINE x == IF Hit(c, i) THEN i - 1 ELSE i
<1>1. /\ R = [final_state |-> R.final_state, frames |-> i, tokens |-> R.tokens,
              status |-> "reported", semantic_trace |-> R.semantic_trace]
      /\ Q = [final_state |-> Q.final_state, frames |-> i, tokens |-> Q.tokens,
              status |-> "reported", semantic_trace |-> Q.semantic_trace]
  BY DEF ReportAt
<1>2. x \in Nat /\ \A j \in 1..i : j \in 1..x \/ (j = i /\ Hit(c, i))
  OBVIOUS
<1>3. R.tokens = Q.tokens
  <2> DEFINE a == R.tokens
             b == Q.tokens
  <2>1. /\ a \in Nat /\ 3 * a <= x /\ x <= 3 * a + 2
        /\ b \in Nat /\ 3 * b <= x /\ x <= 3 * b + 2
    BY DEF ReportAt
  <2> HIDE DEF a, b, x
  <2>2. a = b
    BY <1>2, <2>1
  <2> QED BY <2>2 DEF a, b
<1>4. ASSUME Hit(c, i)
      PROVE  R.semantic_trace[i] = Q.semantic_trace[i] /\ R.final_state = Q.final_state
  <2>1. PICK f \in DOMAIN FailureEdges :
          /\ View(c, r, f) /\ R.semantic_trace[i] = FaultFrame(r, f)
          /\ R.final_state = FailureEdges[f]
    BY <1>4 DEF ReportAt
  <2>2. PICK g \in DOMAIN FailureEdges :
          /\ View(c, r, g) /\ Q.semantic_trace[i] = FaultFrame(r, g)
          /\ Q.final_state = FailureEdges[g]
    BY <1>4 DEF ReportAt
  <2>3. /\ \A p, q \in c.fault : p = q
        /\ \A p \in c.fault : \A l, m \in p.peer_failure : l = m
    BY ConfigAssumption
  <2>4. f = g
    BY <2>1, <2>2, <2>3 DEF View
  <2> QED BY <2>1, <2>2, <2>4
<1>5. ~Hit(c, i) => R.final_state = Q.final_state
  BY DEF ReportAt
<1>6. \A j \in 1..x : R.semantic_trace[j] = Q.semantic_trace[j]
  <2> SUFFICES ASSUME NEW j \in 1..x PROVE R.semantic_trace[j] = Q.semantic_trace[j]
    OBVIOUS
  <2>1. Scripted(c, j, R.semantic_trace[j]) /\ Scripted(c, j, Q.semantic_trace[j])
    BY DEF ReportAt
  <2>2. j \in Nat /\ j > 0
    BY <1>2
  <2> QED BY <2>1, <2>2, ScriptedFixed
<1> HIDE DEF x
<1>7. \A j \in 1..i : R.semantic_trace[j] = Q.semantic_trace[j]
  BY <1>2, <1>4, <1>6
<1>8. /\ R.semantic_trace = [j \in 1..i |-> R.semantic_trace[j]]
      /\ Q.semantic_trace = [j \in 1..i |-> Q.semantic_trace[j]]
  BY DEF ReportAt
<1>9. R.semantic_trace = Q.semantic_trace
  BY <1>7, <1>8
<1> QED BY <1>1, <1>3, <1>4, <1>5, <1>9

\* A command line settles its reports.
LEMMA SettledFixed ==
  ASSUME NEW c \in Config, NEW R, NEW Q, Settled(c, R), Settled(c, Q)
  PROVE  R = Q
<1>1. CASE 0 \in c.cancel_after
  BY <1>1 DEF Settled
<1>2. CASE 0 \notin c.cancel_after
  <2>1. PICK i \in Nat \ {0} : /\ Hit(c, i) \/ Ends(c, i)
                               /\ \A j \in 1..i - 1 : ~Hit(c, j) /\ ~Ends(c, j)
                               /\ \A r \in Role : ReportAt(c, r, i, R[r])
    BY <1>2 DEF Settled
  <2>2. PICK k \in Nat \ {0} : /\ Hit(c, k) \/ Ends(c, k)
                               /\ \A j \in 1..k - 1 : ~Hit(c, j) /\ ~Ends(c, j)
                               /\ \A r \in Role : ReportAt(c, r, k, Q[r])
    BY <1>2 DEF Settled
  <2>3. i = k
    <3>1. i \notin 1..k - 1 /\ k \notin 1..i - 1
      BY <2>1, <2>2
    <3> QED BY <3>1
  <2>4. \A r \in Role : R[r] = Q[r]
    BY <2>1, <2>2, <2>3, ReportFixed
  <2>5. R = [r \in Role |-> R[r]] /\ Q = [r \in Role |-> Q[r]]
    BY DEF Settled
  <2> QED BY <2>4, <2>5
<1> QED BY <1>1, <1>2

\* Run again, both reports are the same in every field when no receive is chosen to fail:
\* the schedule of the two workers shows in neither of them.
THEOREM ReportsReproduced == ReplaySpec => []SameReportsAgain
<1> DEFINE Inv == GenInv /\ CountInv /\ ScriptInv /\ ReplayInv
<1>1. ReplayInit => Inv
  <2> SUFFICES ASSUME ReplayInit PROVE Inv
    OBVIOUS
  <2>1. GenInit /\ earlier = {}
    BY DEF ReplayInit
  <2>2. CountInv
    BY <2>1 DEF GenInit, Init, CountInv, CountOK, Faulted
  <2> QED BY <2>1, <2>2, GenInitInv, InitScript DEF ScriptInv, ReplayInv
<1>2. Inv /\ [ReplayNext]_replayVars => Inv'
  <2> SUFFICES ASSUME Inv, [ReplayNext]_replayVars PROVE Inv'
    OBVIOUS
  <2>0. SessionInv /\ GenInv /\ CountInv
    BY DEF GenInv
  <2>1. CASE RunAgain
    <3>1. GenInit' /\ config' = config /\ earlier' = {Reports} /\ Finished
      BY <2>1, AgainInit DEF RunAgain
    <3>2. GenInv' /\ Script'
      BY <3>1, GenInitInvNext, InitScriptNext
    <3>3. CountInv'
      BY <2>1 DEF RunAgain, CountInv, CountOK, Faulted
    <3>4. SendsOnly(config) => Settled(config, Reports)
      BY <2>0, <3>1, SettledHolds DEF ScriptInv
    <3>5. SendsOnly(config') => \A before \in earlier' : Settled(config', before)
      BY <3>1, <3>4
    <3> QED BY <3>1, <3>2, <3>3, <3>5 DEF ScriptInv, ReplayInv
  <2>2. CASE GenNext /\ UNCHANGED earlier
    <3>1. [Next]_vars /\ GenInv'
      BY <2>0, <2>2, GenStep
    <3>2. CountInv'
      BY <2>0, <3>1, CountStep
    <3>3. config' = config /\ (SendsOnly(config) /\ Script => Script')
      BY <2>0, <2>2, ScriptStep
    <3> QED BY <2>2, <3>1, <3>2, <3>3 DEF ScriptInv, ReplayInv
  <2>3. CASE UNCHANGED replayVars
    <3>1. UNCHANGED allVars /\ UNCHANGED earlier
      BY <2>3 DEF replayVars
    <3>2. [Next]_vars /\ GenInv'
      BY <2>0, <3>1, GenStutter
    <3>3. CountInv'
      BY <2>0, <3>2, CountStep
    <3>4. UNCHANGED <<machine, pending, trace, config, tokens, calls, fired, injecting>>
      BY <3>1 DEF allVars, vars, genVars
    <3>5. Script => Script'
      BY <3>4, OtherScript
    <3> QED BY <3>1, <3>2, <3>3, <3>4, <3>5 DEF ScriptInv, ReplayInv
  <2> QED BY <2>1, <2>2, <2>3 DEF ReplayNext
<1>3. Inv => SameReportsAgain
  <2> SUFFICES ASSUME Inv, Finished, SendsOnly(config), NEW before \in earlier
               PROVE  before = Reports
    BY DEF SameReportsAgain, SendsOnly
  <2>1. config \in Config
    BY DEF GenInv, GenTypeOK
  <2>2. Settled(config, Reports)
    BY SettledHolds DEF ScriptInv
  <2>3. Settled(config, before)
    BY DEF ReplayInv
  <2> QED BY <2>1, <2>2, <2>3, SettledFixed
<1> HIDE DEF Inv
<1> QED BY <1>1, <1>2, <1>3, PTL DEF ReplaySpec

=============================================================================
