------------------------------ MODULE Session ------------------------------
(***************************************************************************)
(* One session: two EndpointMachines, each driven by its own worker, that  *)
(* run the same validated conversation over a transport.                   *)
(*                                                                         *)
(* A worker that holds the turn emits an envelope (which advances its      *)
(* machine at once) and hands it to the transport in a second step; a      *)
(* worker without the turn blocks in receive.  Either call may fail, and   *)
(* the failure moves the machine along the failure edge the conversation   *)
(* declares for the state the call was made at, or ends the worker with an *)
(* error when there is none.                                               *)
(*                                                                         *)
(* The application is any one that follows its own projection: it picks    *)
(* any label at a select state and never gives up while its machine can    *)
(* move.  Crash covers the rest (a panic, a killed process).               *)
(***************************************************************************)
EXTENDS Conversation

CONSTANTS
  Conv,             \* the conversation both endpoints were projected from
  Network,          \* FALSE: memory_pair; TRUE: a socket
  CallFailures,     \* failures a transport call may report of its own accord
  MaxFrames         \* bound: no frame is emitted to a live peer beyond it

Role == Conv.roles
State == DOMAIN Conv.states
Closed == "transport.closed"

ASSUME ConversationAssumption == WellFormed(Conv)
ASSUME TransportAssumption == Network \in BOOLEAN
ASSUME BoundAssumption == MaxFrames \in Nat

VARIABLES
  machine,  \* [current, sequence] of each role's EndpointMachine
  pending,  \* the envelope a role has emitted and not yet sent: at most one
  wire,     \* envelopes each role has sent that its peer has not received
  trace,    \* what each role recorded, every frame in its envelope
  open,     \* whether a role's transport handle is still usable
  status    \* how each worker stands

vars == <<machine, pending, wire, trace, open, status>>

Peer(r) == CHOOSE p \in Role : p # r

Message == {Conv.states[s].message :
              s \in {t \in State : Conv.states[t].kind = "send"}}
Scope == {Conv.states[s].scope :
            s \in {t \in State : Conv.states[t].kind = "cancel"}}
Label == UNION {DOMAIN Conv.states[s].branches :
                  s \in {t \in State : Conv.states[t].kind = "choice"}}
Failure == {Closed} \cup CallFailures

Frame ==
  [op : {"data"}, from : Role, to : Role, message : Message]
    \cup [op : {"select"}, by : Role, label : Label]
    \cup [op : {"cancel"}, from : Role, to : Role, scope : Scope]
    \cup [op : {"fault"}, observer : Role, failure : Failure]

\* A WireEnvelope without the fields both endpoints take from one plan (the
\* wire version, the conversation's name and its identity).
Envelope == [state : State, sequence : Nat, frame : Frame]

\* The projected state of role r's machine.
Local(r) == ProjectState(Conv.states[machine[r].current], r)

IsComplete(r) == Local(r).kind \in {"end", "fail"}

Init ==
  /\ machine = [r \in Role |-> [current |-> Conv.initial, sequence |-> 0]]
  /\ pending = [r \in Role |-> {}]
  /\ wire = [r \in Role |-> <<>>]
  /\ trace = [r \in Role |-> <<>>]
  /\ open = [r \in Role |-> TRUE]
  /\ status = [r \in Role |-> "running"]

\* Mutated form: a worker whose call returned an error goes on.
IdleAfterError(r) == pending[r] = {}

Idle(r) == status[r] = "running" /\ pending[r] = {}

(***************************************************************************)
(* Emitting.  emit stamps the envelope with the state and sequence of the  *)
(* machine and then advances both.                                         *)
(***************************************************************************)
Stamp(r, frame) ==
  [state |-> machine[r].current, sequence |-> machine[r].sequence,
   frame |-> frame]

Emit(r, frame, next) ==
  /\ pending' = [pending EXCEPT ![r] = {Stamp(r, frame)}]
  /\ machine' = [machine EXCEPT ![r] =
                   [current |-> next, sequence |-> machine[r].sequence + 1]]
  /\ UNCHANGED <<wire, trace, open, status>>

\* The bound.  A role whose peer is gone may always go on: its next send is
\* what tells it so.
WithinBound(r) == machine[r].sequence < MaxFrames \/ ~open[Peer(r)]

EmitData(r) ==
  /\ Idle(r) /\ WithinBound(r)
  /\ Local(r).kind = "send"
  /\ Emit(r, DataFrame(r, Local(r).to, Local(r).message), Local(r).next)

EmitSelect(r, label) ==
  /\ Idle(r) /\ WithinBound(r)
  /\ Local(r).kind = "select"
  /\ label \in DOMAIN Local(r).branches
  /\ Emit(r, SelectFrame(r, label), Local(r).branches[label])

EmitCancel(r) ==
  /\ Idle(r) /\ WithinBound(r)
  /\ Local(r).kind = "send_cancel"
  /\ Emit(r, CancelFrame(r, Local(r).to, Local(r).scope), Local(r).next)

(***************************************************************************)
(* The transport, as far as a worker can tell.  A memory pair never loses  *)
(* what was sent and reports a closed peer at once.  A socket may accept   *)
(* bytes for a peer that is gone, may fail of its own accord, and an abort *)
(* may take with it any suffix of what is still in flight.                 *)
(***************************************************************************)

\* Mutated form: an abort takes what was sent first.
CutWireFront(r) ==
  \E n \in 0..Len(wire[r]) :
    wire' = [wire EXCEPT ![r] = SubSeq(wire[r], n + 1, Len(wire[r]))]

CutWire(r) ==
  \E n \in 0..Len(wire[r]) :
    /\ ~Network => n = Len(wire[r])
    /\ wire' = [wire EXCEPT ![r] = SubSeq(wire[r], 1, n)]

\* Mutated form: the fault is recorded and the machine stays where it was.
ObserveFailureAtInPlace(r, at, failure) ==
  /\ open' = [open EXCEPT ![r] = FALSE]
  /\ CutWire(r)
  /\ EndpointFailureTarget(ProjectState(Conv.states[at], r), failure) # {}
  /\ pending' = [pending EXCEPT ![r] = {}]
  /\ trace' = [trace EXCEPT ![r] =
       Append(@, [state |-> at, sequence |-> Len(@), frame |-> FaultFrame(r, failure)])]
  /\ UNCHANGED <<machine, status>>

\* Mutated form: the failed frame is counted whether or not emit counted it.
ObserveFailureAtCounting(r, at, failure) ==
  /\ open' = [open EXCEPT ![r] = FALSE]
  /\ CutWire(r)
  /\ pending' = [pending EXCEPT ![r] = {}]
  /\ \E next \in EndpointFailureTarget(ProjectState(Conv.states[at], r), failure) :
       machine' = [machine EXCEPT ![r] =
                     [current |-> next, sequence |-> machine[r].sequence + 1]]
  /\ trace' = [trace EXCEPT ![r] =
       Append(@, [state |-> at, sequence |-> Len(@), frame |-> FaultFrame(r, failure)])]
  /\ UNCHANGED status

\* observe_failure_at(at, failure) on role r's machine, with what
\* send_and_record and receive_and_record do around it: abort first, then
\* record the fault, or return the error when the state does not declare it.
ObserveFailureAt(r, at, failure) ==
  LET target == EndpointFailureTarget(ProjectState(Conv.states[at], r), failure)
  IN  /\ open' = [open EXCEPT ![r] = FALSE]
      /\ CutWire(r)
      /\ \/ /\ target = {}
            /\ status' = [status EXCEPT ![r] = "undeclared"]
            /\ UNCHANGED <<machine, pending, trace>>
         \/ \E next \in target :
              /\ pending' = [pending EXCEPT ![r] = {}]
              /\ machine' = [machine EXCEPT ![r] =
                   [current |-> next,
                    sequence |-> IF machine[r].current = at
                                   THEN machine[r].sequence + 1
                                   ELSE machine[r].sequence]]
              /\ trace' = [trace EXCEPT ![r] =
                   Append(trace[r],
                          [state |-> at, sequence |-> Len(trace[r]),
                           frame |-> FaultFrame(r, failure)])]
              /\ UNCHANGED status

SendFailures(r) ==
  (IF open[Peer(r)] THEN {} ELSE {Closed}) \cup CallFailures

\* send_and_record, the transport accepting the envelope.
SendSucceeds(r) ==
  /\ status[r] = "running"
  /\ \E e \in pending[r] :
       /\ open[Peer(r)] \/ (Network /\ e.sequence < MaxFrames)
       /\ wire' = [wire EXCEPT ![r] = Append(wire[r], e)]
       /\ trace' = [trace EXCEPT ![r] = Append(trace[r], e)]
  /\ pending' = [pending EXCEPT ![r] = {}]
  /\ UNCHANGED <<machine, open, status>>

\* send_and_record, the transport failing.
SendFails(r, failure) ==
  /\ status[r] = "running"
  /\ failure \in SendFailures(r)
  /\ \E e \in pending[r] : ObserveFailureAt(r, e.state, failure)

(***************************************************************************)
(* Receiving.                                                              *)
(***************************************************************************)
Blocked(r) == Idle(r) /\ Local(r).kind \in Accepting

\* Mutated form: one sequence number too far.
ValidEnvelopeAhead(r, e) ==
  e.state = machine[r].current /\ e.sequence = machine[r].sequence + 1

\* validate_envelope, for the fields that differ within one session.
ValidEnvelope(r, e) ==
  e.state = machine[r].current /\ e.sequence = machine[r].sequence

\* Mutated form: what is accepted is recorded at the state it leads to.
ReceiveLateStamp(r) ==
  LET e == Head(wire[Peer(r)]) IN
  /\ Blocked(r) /\ wire[Peer(r)] # <<>>
  /\ wire' = [wire EXCEPT ![Peer(r)] = Tail(@)]
  /\ \E next \in AcceptTarget(Local(r), r, e.frame) :
       /\ machine' = [machine EXCEPT ![r] =
                        [current |-> next, sequence |-> machine[r].sequence + 1]]
       /\ trace' = [trace EXCEPT ![r] = Append(@, [e EXCEPT !.state = next])]
  /\ UNCHANGED <<pending, open, status>>

\* Mutated form: the envelope is looked at and not taken.
ReceivePeeking(r) ==
  LET e == Head(wire[Peer(r)]) IN
  /\ Blocked(r) /\ wire[Peer(r)] # <<>>
  /\ ValidEnvelope(r, e)
  /\ \E next \in AcceptTarget(Local(r), r, e.frame) :
       machine' = [machine EXCEPT ![r] =
                     [current |-> next, sequence |-> machine[r].sequence + 1]]
  /\ trace' = [trace EXCEPT ![r] = Append(trace[r], e)]
  /\ UNCHANGED <<wire, pending, open, status>>

\* receive_and_record: take the next envelope, check it, advance, record.
Receive(r) ==
  LET p == Peer(r)
      e == Head(wire[p])
      target == IF ValidEnvelope(r, e)
                  THEN AcceptTarget(Local(r), r, e.frame) ELSE {}
  IN  /\ Blocked(r)
      /\ wire[p] # <<>>
      /\ wire' = [wire EXCEPT ![p] = Tail(wire[p])]
      /\ \/ \E next \in target :
              /\ machine' = [machine EXCEPT ![r] =
                   [current |-> next, sequence |-> machine[r].sequence + 1]]
              /\ trace' = [trace EXCEPT ![r] = Append(trace[r], e)]
              /\ UNCHANGED <<open, status>>
         \/ /\ target = {}
            /\ status' = [status EXCEPT ![r] = "rejected"]
            /\ open' = [open EXCEPT ![r] = FALSE]
            /\ UNCHANGED <<machine, trace>>
      /\ UNCHANGED pending

\* Mutated form: a receive does not tell a peer that is gone from a slow one.
ReceiveFailuresDeaf(r) == CallFailures

\* A peer that is gone shows only once its last envelope has been taken.
ReceiveFailures(r) ==
  (IF ~open[Peer(r)] /\ wire[Peer(r)] = <<>> THEN {Closed} ELSE {})
    \cup CallFailures

\* receive_and_record, the transport failing.
ReceiveFails(r, failure) ==
  /\ Blocked(r)
  /\ failure \in ReceiveFailures(r)
  /\ ObserveFailureAt(r, machine[r].current, failure)

(***************************************************************************)
(* Leaving.  A worker returns its report as soon as its machine is         *)
(* complete, and the transport it owned goes with it.                      *)
(***************************************************************************)

\* Mutated form: a worker reports whether or not its machine is complete.
ReturnEarly(r) ==
  /\ Idle(r)
  /\ status' = [status EXCEPT ![r] = "reported"]
  /\ open' = [open EXCEPT ![r] = FALSE]
  /\ UNCHANGED <<machine, pending, wire, trace>>

\* Mutated form: the frame count is put right on the way out.
ReturnCorrecting(r) ==
  /\ Idle(r) /\ IsComplete(r)
  /\ status' = [status EXCEPT ![r] = "reported"]
  /\ open' = [open EXCEPT ![r] = FALSE]
  /\ machine' = [machine EXCEPT ![r].sequence = Len(trace[r])]
  /\ UNCHANGED <<pending, wire, trace>>

Return(r) ==
  /\ Idle(r) /\ IsComplete(r)
  /\ status' = [status EXCEPT ![r] = "reported"]
  /\ open' = [open EXCEPT ![r] = FALSE]
  /\ UNCHANGED <<machine, pending, wire, trace>>

Crash(r) ==
  /\ status[r] = "running"
  /\ status' = [status EXCEPT ![r] = "crashed"]
  /\ open' = [open EXCEPT ![r] = FALSE]
  /\ CutWire(r)
  /\ UNCHANGED <<machine, pending, trace>>

Next ==
  \E r \in Role :
    \/ EmitData(r)
    \/ \E label \in Label : EmitSelect(r, label)
    \/ EmitCancel(r)
    \/ SendSucceeds(r)
    \/ \E failure \in Failure :
         SendFails(r, failure) \/ ReceiveFails(r, failure)
    \/ Receive(r)
    \/ Return(r)
    \/ Crash(r)

\* What a scheduled worker does without the network's help: everything but
\* crashing and failures that come from nowhere.
Progress(r) ==
  \/ EmitData(r)
  \/ \E label \in Label : EmitSelect(r, label)
  \/ EmitCancel(r)
  \/ SendSucceeds(r)
  \/ ~open[Peer(r)] /\ (SendFails(r, Closed) \/ ReceiveFails(r, Closed))
  \/ Receive(r)
  \/ Return(r)

Spec == Init /\ [][Next]_vars

FairSpec == Spec /\ \A r \in Role : WF_vars(Progress(r))

-----------------------------------------------------------------------------
(***************************************************************************)
(* Properties.                                                             *)
(***************************************************************************)
\* Types: every state a machine is in or a frame names is one of the
\* conversation, and everything pending, in flight or recorded is an envelope.
TypeOK ==
  /\ machine \in [Role -> [current : State, sequence : Nat]]
  /\ pending \in [Role -> SUBSET Envelope]
  /\ wire \in [Role -> Seq(Envelope)]
  /\ trace \in [Role -> Seq(Envelope)]
  /\ open \in [Role -> BOOLEAN]
  /\ status \in [Role -> {"running", "reported", "undeclared", "rejected",
                          "crashed"}]

\* A fault is always the last thing a role records.
Faulted(r) ==
  trace[r] # <<>> /\ trace[r][Len(trace[r])].frame.op = "fault"

\* How many frames role r has exchanged with its peer.
Exchanged(r) == IF Faulted(r) THEN Len(trace[r]) - 1 ELSE Len(trace[r])

\* Neither endpoint ever refuses a frame of the other: however the two workers
\* interleave and whichever calls fail, validate_envelope and the frame match
\* of accept hold of everything an honest peer sends.
NoFrameRejected == \A r \in Role : status[r] # "rejected"

\* Only one machine at a time has the turn. While a role has a step prepared, or
\* frames of it are in flight, its peer has neither and is not at a state that
\* lets it emit, although the two machines are mostly at different states.
HalfDuplex ==
  \A r \in Role :
    (wire[r] # <<>> \/ pending[r] # {}) =>
      /\ wire[Peer(r)] = <<>> /\ pending[Peer(r)] = {}
      /\ Local(Peer(r)).kind \notin Emitting

\* The two semantic traces never contradict each other: up to the fault that
\* may end either, one is a prefix of the other, states and sequence numbers
\* included.
CommonHistory ==
  \A r \in Role :
    \A i \in 1..Exchanged(r) :
      i <= Exchanged(Peer(r)) => trace[r][i] = trace[Peer(r)][i]

\* What is in flight is what the sender has recorded and the receiver has not,
\* in order and without a gap; an abort can only shorten it.
InFlightIsUnseen ==
  \A r \in Role :
    LET seen == Exchanged(Peer(r)) IN
    /\ open[r] => Len(wire[r]) = IF Exchanged(r) > seen
                                   THEN Exchanged(r) - seen ELSE 0
    /\ \A i \in 1..Len(wire[r]) :
         seen + i <= Exchanged(r) /\ wire[r][i] = trace[r][seen + i]

\* verify_trace accepts what each role records, fault included, and ends in
\* the state the role's machine is in (or, between an emit and its send, in
\* the state the unsent envelope was emitted at).
TraceVerifies ==
  \A r \in Role :
    VerifyTrace(Conv, [i \in 1..Len(trace[r]) |-> trace[r][i].frame])
      = IF pending[r] = {} THEN {machine[r].current}
        ELSE {e.state : e \in pending[r]}

\* The frame count a role reports is the length of its trace, with one
\* exception: a send that fails at a state whose own target is itself is
\* counted twice, because observe_failure_at takes the advanced machine to be
\* still at that state.
SequenceCountsTrace ==
  \A r \in Role :
    pending[r] = {} =>
      \/ machine[r].sequence = Len(trace[r])
      \/ /\ machine[r].sequence = Len(trace[r]) + 1
         /\ Faulted(r)
         /\ LET s == trace[r][Len(trace[r])].state IN
              s \in Successors(Conv.states[s])

\* Two live workers never both wait for the other: with nothing in flight,
\* the turn belongs to one of them.
NoMutualWait ==
  \A r \in Role :
    ~(Blocked(r) /\ wire[Peer(r)] = <<>> /\ Blocked(Peer(r)) /\ wire[r] = <<>>)

\* Two reports without a fault tell the same story: same trace, same final
\* state (semantic_trace_equivalent and outcome_equivalent of demo_report).
ReportsAgree ==
  (\A r \in Role : status[r] = "reported" /\ ~Faulted(r)) =>
    \A r \in Role : /\ trace[r] = trace[Peer(r)]
                    /\ machine[r].current = machine[Peer(r)].current

\* Once a role has aborted its transport it adds nothing to the wire or to its
\* record, and a frame it has taken off the wire is never recorded later.
AbortIsFinal ==
  [][\A r \in Role : ~open[r] =>
       /\ ~open'[r]
       /\ Len(wire'[r]) <= Len(wire[r])
       /\ trace'[r] = trace[r]
       /\ machine'[r] = machine[r]]_vars

\* When one worker has stopped, for whatever reason, the other stops too: no
\* role is left blocked on a peer that is gone.
StopTogether ==
  \A r \in Role : status[r] # "running" ~> status[Peer(r)] # "running"

(***************************************************************************)
(* The inductive invariant.  Every entry of a record names the state it    *)
(* was taken at, so a record is a walk through the conversation; the role  *)
(* with the longer record took all the extra entries in its own turn.      *)
(***************************************************************************)
StepOf(e) == TraceStep(Conv, e.state, e.frame)

\* The record of role r leads to state s.
LeadsTo(r, s) ==
  IF trace[r] = <<>> THEN s = Conv.initial
  ELSE StepOf(trace[r][Len(trace[r])]) = {s}

EntryOK(r, i) ==
  /\ trace[r][i].sequence = i - 1
  /\ i = 1 => trace[r][i].state = Conv.initial
  /\ StepOf(trace[r][i]) # {}
  /\ i < Len(trace[r]) => StepOf(trace[r][i]) = {trace[r][i + 1].state}
  /\ i <= Exchanged(r) => trace[r][i].frame.op # "fault"

RecordsAreWalks == \A r \in Role : \A i \in 1..Len(trace[r]) : EntryOK(r, i)

Follows(r) ==
  /\ pending[r] = {} => /\ LeadsTo(r, machine[r].current)
                        /\ Faulted(r) \/ machine[r].sequence = Len(trace[r])
  /\ \A e \in pending[r] :
       /\ pending[r] = {e}
       /\ ~Faulted(r)
       /\ LeadsTo(r, e.state)
       /\ e.sequence = Len(trace[r])
       /\ machine[r].sequence = Len(trace[r]) + 1
       /\ e.frame.op # "fault"
       /\ StepOf(e) = {machine[r].current}
       /\ Actor(Conv.states[e.state]) = r

MachineFollowsRecord == \A r \in Role : Follows(r)

AheadInOwnTurn ==
  \A r \in Role :
    Exchanged(r) > Exchanged(Peer(r)) =>
      /\ pending[Peer(r)] = {}
      /\ \A i \in Exchanged(Peer(r)) + 1 .. Exchanged(r) :
           Actor(Conv.states[trace[r][i].state]) = r

StatusOK ==
  \A r \in Role :
    /\ status[r] = "running" /\ ~Faulted(r) => open[r]
    /\ Faulted(r) => ~open[r]
    /\ status[r] = "reported" =>
         pending[r] = {} /\ Terminal(Conv.states[machine[r].current])

\* The conjunction that every step preserves.  It ties each machine, its record
\* and the wire to one walk of the conversation, which is why accept never
\* meets a frame it must refuse.
SessionInv ==
  /\ TypeOK
  /\ RecordsAreWalks
  /\ MachineFollowsRecord
  /\ CommonHistory
  /\ InFlightIsUnseen
  /\ AheadInOwnTurn
  /\ StatusOK
  /\ NoFrameRejected

=============================================================================
