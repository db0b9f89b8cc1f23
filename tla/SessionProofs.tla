--------------------------- MODULE SessionProofs ---------------------------
(***************************************************************************)
(* Proofs about Session, for every well-formed conversation, every kind of *)
(* transport and every bound: first what holds of the machines and the     *)
(* wire, then what the two workers record, which verify_trace accepts and  *)
(* which together implements the shared log.                               *)
(***************************************************************************)
EXTENDS SessionRefinement, WellFoundedInduction, TLAPS

-----------------------------------------------------------------------------
(***************************************************************************)
(* Facts about the conversation graph.                                     *)
(***************************************************************************)

\* There are two roles, and each is the other's peer.
LEMMA PeerFacts ==
  \A r \in Role : /\ Peer(r) \in Role
                  /\ Peer(r) # r
                  /\ Peer(Peer(r)) = r
                  /\ \A q \in Role : q = r \/ q = Peer(r)
<1>1. PICK a \in Role, b \in Role : a # b /\ Role = {a, b}
  BY ConversationAssumption DEF WellFormed, Role
<1>2. Peer(a) = b /\ Peer(b) = a
  BY <1>1 DEF Peer
<1> QED
  BY <1>1, <1>2

\* What validate has established about the state with id s.
LEMMA StateFacts ==
  ASSUME NEW s \in State
  PROVE  StateOK(Conv, Conv.states[s])
BY ConversationAssumption DEF WellFormed, State

\* There are five kinds of states.
LEMMA StateKinds ==
  ASSUME NEW c, NEW g, StateOK(c, g)
  PROVE  g.kind \in {"send", "choice", "cancel", "end", "fail"}
<1>1. EndState.kind = "end"
  BY DEF EndState
<1> QED BY <1>1 DEF StateOK

\* The initial state is a state.
LEMMA InitialFact == Conv.initial \in State
BY ConversationAssumption DEF WellFormed, State

\* A failure edge leads to a terminal state (the check CLQ0020 of validate).
LEMMA FailureFacts ==
  ASSUME NEW s \in State, NEW f, NEW t \in FailureTarget(Conv.states[s], f)
  PROVE  t \in State /\ Terminal(Conv.states[t]) /\ FailureTarget(Conv.states[s], f) = {t}
<1> DEFINE g == Conv.states[s]
<1>0. StateOK(Conv, g)
  BY StateFacts
<1>1. ~Terminal(g) /\ f \in DOMAIN g.on_failure /\ t = g.on_failure[f]
  BY DEF Only, FailureTarget
<1>2. FailureEdgesOK(Conv, g)
  BY <1>0, <1>1 DEF StateOK, Terminal, EndState, FailState
<1>3. t \in State /\ Conv.states[t] = FailState(f)
  BY <1>1, <1>2 DEF FailureEdgesOK, State
<1>4. Terminal(Conv.states[t])
  BY <1>3 DEF Terminal, FailState
<1>5. FailureTarget(g, f) = {t}
  BY <1>1 DEF Only, FailureTarget
<1> QED
  BY <1>3, <1>4, <1>5

\* A step of verify_trace leads to at most one state, and to a state of the
\* conversation.
LEMMA StepFacts ==
  ASSUME NEW s \in State, NEW f \in Frame, TraceStep(Conv, s, f) # {}
  PROVE  \E t \in State : TraceStep(Conv, s, f) = {t}
<1> DEFINE g == Conv.states[s]
<1>0. StateOK(Conv, g)
  BY StateFacts
<1>1. CASE f.op = "fault"
  <2>1. FailureTarget(g, f.failure) # {} /\ TraceStep(Conv, s, f) = FailureTarget(g, f.failure)
    BY <1>1 DEF Only, TraceStep, FailureTarget
  <2> QED BY <2>1, FailureFacts
<1>2. CASE f.op = "data"
  BY <1>0, <1>2, SMTT(30) DEF Only, TraceStep, StateOK, State, EndState, FailState
<1>3. CASE f.op = "select"
  BY <1>0, <1>3, SMTT(30) DEF Only, TraceStep, StateOK, State, EndState, FailState
<1>4. CASE f.op = "cancel"
  BY <1>0, <1>4, SMTT(30) DEF Only, TraceStep, StateOK, State, EndState, FailState
<1> QED
  BY <1>1, <1>2, <1>3, <1>4 DEF Frame

\* Nothing follows a terminal state.
LEMMA TerminalFacts ==
  ASSUME NEW s \in State, NEW f \in Frame, Terminal(Conv.states[s])
  PROVE  TraceStep(Conv, s, f) = {}
BY DEF Only, Terminal, TraceStep, FailureTarget, Frame

\* Projection keeps the failure edges.
LEMMA ProjectedFailures ==
  ASSUME NEW s \in State, NEW r \in Role, NEW f
  PROVE  EndpointFailureTarget(ProjectState(Conv.states[s], r), f)
           = FailureTarget(Conv.states[s], f)
<1>0. StateOK(Conv, Conv.states[s])
  BY StateFacts
<1> QED
  BY <1>0 DEF Only, StateOK, ProjectState, EndpointFailureTarget, FailureTarget,
     Terminal, Emitting, Accepting, EndState, FailState

\* The actor of a state emits there, its peer accepts, and both see the same
\* terminal states.
LEMMA ProjectedKinds ==
  ASSUME NEW s \in State, NEW r \in Role
  PROVE  LET g == Conv.states[s]
             k == ProjectState(g, r).kind
         IN  /\ Terminal(g) <=> k \in {"end", "fail"}
             /\ ~Terminal(g) => Actor(g) \in Role
             /\ k \in Emitting <=> (~Terminal(g) /\ Actor(g) = r)
             /\ k \in Accepting <=> (~Terminal(g) /\ Actor(g) # r)
<1>0. StateOK(Conv, Conv.states[s])
  BY StateFacts
<1> QED
  BY <1>0 DEF StateOK, ProjectState, Terminal, Emitting, Accepting, Actor,
     EndState, FailState, Role

\* Duality: a frame the conversation permits is accepted by the role that is
\* not its actor, and takes that role where verify_trace goes.
LEMMA Duality ==
  ASSUME NEW s \in State, NEW r \in Role, NEW f \in Frame,
         f.op # "fault", TraceStep(Conv, s, f) # {},
         Actor(Conv.states[s]) # r
  PROVE  AcceptTarget(ProjectState(Conv.states[s], r), r, f) = TraceStep(Conv, s, f)
<1> DEFINE g == Conv.states[s]
<1>0. StateOK(Conv, g)
  BY StateFacts
<1>a. \A a, b \in Role : a # b /\ a # r => b = r
  BY PeerFacts
<1>1. CASE f.op = "data"
  <2>1. g.kind = "send" /\ g.from = f.from /\ g.to = f.to /\ g.message = f.message /\ TraceStep(Conv, s, f) = {g.next}
    BY <1>1 DEF Only, TraceStep
  <2>2. g.from # r /\ g.to = r
    BY <1>0, <1>a, <2>1 DEF StateOK, Actor, Role, EndState, FailState
  <2> QED
    BY <1>1, <2>1, <2>2 DEF Only, ProjectState, AcceptTarget
<1>2. CASE f.op = "select"
  <2>1. g.kind = "choice" /\ g.chooser = f.by /\ f.label \in DOMAIN g.branches /\ TraceStep(Conv, s, f) = {g.branches[f.label]}
    BY <1>2 DEF Only, TraceStep
  <2> QED
    BY <1>2, <2>1 DEF Only, ProjectState, AcceptTarget, Actor
<1>3. CASE f.op = "cancel"
  <2>1. g.kind = "cancel" /\ g.from = f.from /\ g.to = f.to /\ g.scope = f.scope /\ TraceStep(Conv, s, f) = {g.next}
    BY <1>3 DEF Only, TraceStep
  <2>2. g.from # r /\ g.to = r
    BY <1>0, <1>a, <2>1 DEF StateOK, Actor, Role, EndState, FailState
  <2> QED
    BY <1>3, <2>1, <2>2 DEF Only, ProjectState, AcceptTarget
<1> QED
  BY <1>1, <1>2, <1>3 DEF Frame

-----------------------------------------------------------------------------
(***************************************************************************)
(* Facts about records and the wire.                                       *)
(***************************************************************************)

\* Appending an entry to one record leaves the other record alone.
LEMMA RecordFacts ==
  ASSUME TypeOK, NEW r \in Role, NEW e \in Envelope,
         trace' = [trace EXCEPT ![r] = Append(trace[r], e)]
  PROVE  /\ trace' \in [Role -> Seq(Envelope)]
         /\ trace'[r] = Append(trace[r], e)
         /\ Len(trace'[r]) = Len(trace[r]) + 1
         /\ \A i \in 1..Len(trace[r]) : trace'[r][i] = trace[r][i]
         /\ trace'[r][Len(trace[r]) + 1] = e
         /\ trace'[r] # <<>>
         /\ Faulted(r)' <=> e.frame.op = "fault"
         /\ e.frame.op = "fault" => Exchanged(r)' = Len(trace[r])
         /\ e.frame.op # "fault" => Exchanged(r)' = Len(trace[r]) + 1
         /\ \A q \in Role : q # r => /\ trace'[q] = trace[q]
                                     /\ Faulted(q)' <=> Faulted(q)
                                     /\ Exchanged(q)' = Exchanged(q)
<1>1. trace \in [Role -> Seq(Envelope)]
  BY DEF TypeOK
<1>2. /\ trace'[r] = Append(trace[r], e)
      /\ Append(trace[r], e) \in Seq(Envelope)
      /\ \A q \in Role : q # r => trace'[q] = trace[q]
  BY <1>1
<1>3. trace' \in [Role -> Seq(Envelope)]
  BY <1>1, <1>2
<1>4. /\ Len(trace'[r]) = Len(trace[r]) + 1
      /\ \A i \in 1..Len(trace[r]) : trace'[r][i] = trace[r][i]
      /\ trace'[r][Len(trace[r]) + 1] = e
      /\ trace'[r] # <<>>
      /\ Len(trace[r]) \in Nat
  BY <1>1, <1>2
<1>5. Faulted(r)' <=> e.frame.op = "fault"
  BY <1>4 DEF Faulted
<1>6. /\ e.frame.op = "fault" => Exchanged(r)' = Len(trace[r])
      /\ e.frame.op # "fault" => Exchanged(r)' = Len(trace[r]) + 1
  BY <1>4, <1>5 DEF Exchanged
<1>7. \A q \in Role : q # r => /\ Faulted(q)' <=> Faulted(q)
                               /\ Exchanged(q)' = Exchanged(q)
  BY <1>2 DEF Faulted, Exchanged
<1> QED
  BY <1>2, <1>3, <1>4, <1>5, <1>6, <1>7

\* Exchanged counts entries of the record.
LEMMA ExchangedFacts ==
  ASSUME TypeOK, NEW r \in Role
  PROVE  /\ Exchanged(r) \in Nat
         /\ Exchanged(r) <= Len(trace[r])
         /\ Len(trace[r]) \in Nat
         /\ ~Faulted(r) => Exchanged(r) = Len(trace[r])
         /\ Faulted(r) => Exchanged(r) = Len(trace[r]) - 1
<1>1. trace[r] \in Seq(Envelope)
  BY DEF TypeOK
<1>2. Len(trace[r]) \in Nat /\ (trace[r] # <<>> => Len(trace[r]) > 0)
  BY <1>1
<1> QED
  BY <1>2 DEF Exchanged, Faulted

\* When no record changes, neither do the counts.
LEMMA SameRecords ==
  ASSUME trace' = trace
  PROVE  \A r \in Role : /\ Faulted(r)' <=> Faulted(r)
                         /\ Exchanged(r)' = Exchanged(r)
                         /\ \A s : LeadsTo(r, s)' <=> LeadsTo(r, s)
BY DEF Faulted, Exchanged, LeadsTo, StepOf

\* Cutting the wire keeps a prefix of it.
LEMMA CutFacts ==
  ASSUME TypeOK, NEW r \in Role, CutWire(r)
  PROVE  /\ wire' \in [Role -> Seq(Envelope)]
         /\ \A q \in Role : q # r => wire'[q] = wire[q]
         /\ Len(wire'[r]) \in Nat
         /\ Len(wire'[r]) <= Len(wire[r])
         /\ \A i \in 1..Len(wire'[r]) : wire'[r][i] = wire[r][i]
<1>1. PICK n \in 0..Len(wire[r]) : wire' = [wire EXCEPT ![r] = SubSeq(wire[r], 1, n)]
  BY DEF CutWire
<1>2. wire \in [Role -> Seq(Envelope)]
  BY DEF TypeOK
<1>3. wire[r] \in Seq(Envelope) /\ Len(wire[r]) \in Nat
  BY <1>2
<1>4. /\ SubSeq(wire[r], 1, n) \in Seq(Envelope)
      /\ Len(SubSeq(wire[r], 1, n)) = n
      /\ \A i \in 1..n : SubSeq(wire[r], 1, n)[i] = wire[r][i]
  BY <1>3
<1>5. wire'[r] = SubSeq(wire[r], 1, n) /\ \A q \in Role : q # r => wire'[q] = wire[q]
  BY <1>1, <1>2
<1>6. wire' \in [Role -> Seq(Envelope)]
  BY <1>1, <1>2, <1>4
<1> QED
  BY <1>3, <1>4, <1>5, <1>6

\* A role that has recorded a fault is in a terminal state, with nothing to
\* send.
LEMMA FaultedTerminal ==
  ASSUME TypeOK, RecordsAreWalks, MachineFollowsRecord, NEW r \in Role, Faulted(r)
  PROVE  pending[r] = {} /\ Terminal(Conv.states[machine[r].current])
<1>1. pending[r] = {}
  BY DEF MachineFollowsRecord, Follows
<1> DEFINE e == trace[r][Len(trace[r])]
<1>2. e \in Envelope /\ trace[r] # <<>> /\ e.frame.op = "fault"
  <2>1. trace[r] \in Seq(Envelope) /\ trace[r] # <<>> /\ e.frame.op = "fault"
    BY DEF TypeOK, Faulted
  <2>2. Len(trace[r]) \in 1..Len(trace[r])
    BY <2>1
  <2> QED BY <2>1, <2>2
<1>3. StepOf(e) = {machine[r].current}
  BY <1>1, <1>2 DEF MachineFollowsRecord, Follows, LeadsTo
<1>4. machine[r].current \in FailureTarget(Conv.states[e.state], e.frame.failure)
  BY <1>2, <1>3 DEF StepOf, TraceStep, Only
<1> QED
  BY <1>1, <1>2, <1>4, FailureFacts DEF Envelope

\* Where the shorter record ends, the longer one goes on; records of the same
\* length end in the same state.
LEMMA SamePosition ==
  ASSUME TypeOK, RecordsAreWalks, CommonHistory,
         NEW r \in Role, ~Faulted(r), NEW s, LeadsTo(r, s)
  PROVE  /\ Exchanged(Peer(r)) > Exchanged(r) =>
              trace[Peer(r)][Exchanged(r) + 1].state = s
         /\ \A t : /\ Exchanged(Peer(r)) = Exchanged(r)
                   /\ ~Faulted(Peer(r))
                   /\ LeadsTo(Peer(r), t)
                   => s = t
<1> DEFINE p == Peer(r)
           n == Len(trace[r])
<1>0. p \in Role /\ Peer(p) = r
  BY PeerFacts
<1>1. /\ n \in Nat /\ Exchanged(r) = n
      /\ Len(trace[p]) \in Nat /\ Exchanged(p) \in Nat
      /\ Exchanged(p) <= Len(trace[p])
      /\ ~Faulted(p) => Exchanged(p) = Len(trace[p])
  BY <1>0, ExchangedFacts
<1>2. (trace[r] = <<>> <=> n = 0) /\ (trace[p] = <<>> <=> Len(trace[p]) = 0)
  BY <1>0 DEF TypeOK
<1>3. CASE n = 0
  BY <1>0, <1>1, <1>2, <1>3 DEF LeadsTo, RecordsAreWalks, EntryOK
<1>4. CASE n > 0
  <2>1. Exchanged(p) >= n => trace[r][n] = trace[p][n]
    BY <1>0, <1>1, <1>4 DEF CommonHistory
  <2>2. StepOf(trace[r][n]) = {s}
    BY <1>2, <1>4 DEF LeadsTo
  <2>3. Exchanged(p) > n => StepOf(trace[p][n]) = {trace[p][n + 1].state}
    <3>1. Exchanged(p) > n => n \in 1..Len(trace[p]) /\ n < Len(trace[p])
      BY <1>1, <1>4
    <3> QED BY <1>0, <3>1 DEF RecordsAreWalks, EntryOK
  <2>4. ASSUME Exchanged(p) = n, ~Faulted(p), NEW t, LeadsTo(p, t)
        PROVE  s = t
    <3>1. StepOf(trace[p][n]) = {t}
      BY <1>1, <1>2, <1>4, <2>4 DEF LeadsTo
    <3> QED BY <2>1, <2>2, <2>4, <3>1, <1>1
  <2>5. Exchanged(p) > n => trace[p][n + 1].state = s
    <3>1. ASSUME Exchanged(p) > n PROVE {trace[p][n + 1].state} = {s}
      BY <1>1, <2>1, <2>2, <2>3, <3>1
    <3> QED BY <3>1
  <2> QED BY <1>1, <2>4, <2>5
<1> QED
  BY <1>1, <1>3, <1>4

-----------------------------------------------------------------------------
(***************************************************************************)
(* The invariant, one lemma for each thing a step can do.                  *)
(***************************************************************************)
\* Two fresh machines and an empty transport satisfy the invariant.
LEMMA InitInv == Init => SessionInv
<1> SUFFICES ASSUME Init PROVE SessionInv
  OBVIOUS
<1>1. \A r \in Role : trace[r] = <<>> /\ Len(trace[r]) = 0 /\ wire[r] = <<>>
                      /\ Len(wire[r]) = 0 /\ pending[r] = {}
  BY DEF Init
<1>2. \A r \in Role : ~Faulted(r) /\ Exchanged(r) = 0
  BY <1>1 DEF Faulted, Exchanged
<1>3. TypeOK
  BY InitialFact DEF Init, TypeOK
<1>4. RecordsAreWalks
  BY <1>1 DEF RecordsAreWalks
<1>5. MachineFollowsRecord
  BY <1>1 DEF MachineFollowsRecord, Follows, LeadsTo, Init
<1>6. CommonHistory
  BY <1>2 DEF CommonHistory
<1>7. InFlightIsUnseen
  BY <1>1, <1>2, PeerFacts DEF InFlightIsUnseen
<1>8. AheadInOwnTurn
  BY <1>2, PeerFacts DEF AheadInOwnTurn
<1>9. StatusOK /\ NoFrameRejected
  BY <1>2 DEF StatusOK, NoFrameRejected, Init
<1> QED
  BY <1>3, <1>4, <1>5, <1>6, <1>7, <1>8, <1>9 DEF SessionInv

\* Emitting a frame the conversation permits, by the actor of the state.  The
\* peer cannot be ahead: it would have taken this state in its own turn.
LEMMA EmitInv ==
  ASSUME SessionInv, NEW r \in Role, NEW f \in Frame, NEW n \in State,
         Idle(r), f.op # "fault",
         TraceStep(Conv, machine[r].current, f) = {n},
         ~Terminal(Conv.states[machine[r].current]),
         Actor(Conv.states[machine[r].current]) = r,
         Emit(r, f, n)
  PROVE  SessionInv'
<1> USE DEF SessionInv
<1> DEFINE m == machine[r]
<1>1. /\ m.current \in State /\ m.sequence \in Nat
      /\ pending[r] = {} /\ status[r] = "running"
  BY DEF TypeOK, Idle
<1>2. PICK e \in Envelope : /\ e = Stamp(r, f) /\ e.state = m.current
                            /\ e.sequence = m.sequence /\ e.frame = f
  <2>1. /\ Stamp(r, f) \in Envelope /\ Stamp(r, f).state = m.current
        /\ Stamp(r, f).sequence = m.sequence /\ Stamp(r, f).frame = f
    BY <1>1 DEF Stamp, Envelope
  <2> QED BY <2>1
<1>3. /\ UNCHANGED <<wire, trace, open, status>>
      /\ pending' = [pending EXCEPT ![r] = {e}]
      /\ machine' = [machine EXCEPT ![r] = [current |-> n, sequence |-> m.sequence + 1]]
  BY <1>2 DEF Emit
<1>4. /\ pending'[r] = {e}
      /\ machine'[r].current = n /\ machine'[r].sequence = m.sequence + 1
      /\ \A q \in Role : q # r => pending'[q] = pending[q] /\ machine'[q] = machine[q]
  BY <1>3 DEF TypeOK
<1>5. ~Faulted(r)
  BY FaultedTerminal
<1>6. LeadsTo(r, m.current) /\ m.sequence = Len(trace[r])
  BY <1>1, <1>5 DEF MachineFollowsRecord, Follows
<1>7. \A q \in Role : /\ Faulted(q)' <=> Faulted(q)
                      /\ Exchanged(q)' = Exchanged(q)
                      /\ \A s : LeadsTo(q, s)' <=> LeadsTo(q, s)
  BY <1>3, SameRecords
<1>8. TypeOK'
  BY <1>1, <1>2, <1>3 DEF TypeOK
<1>9. RecordsAreWalks'
  BY <1>3, <1>7 DEF RecordsAreWalks, EntryOK, StepOf
<1>10. MachineFollowsRecord'
  <2> SUFFICES ASSUME NEW q \in Role PROVE Follows(q)'
    BY DEF MachineFollowsRecord
  <2>1. CASE q = r
    <3>1. /\ trace' = trace /\ pending'[q] = {e} /\ ~Faulted(q)' /\ LeadsTo(q, e.state)'
          /\ e.sequence = Len(trace'[q]) /\ e.frame.op # "fault"
          /\ machine'[q].sequence = Len(trace'[q]) + 1
          /\ StepOf(e) = {machine'[q].current}
          /\ Actor(Conv.states[e.state]) = q
      BY <1>2, <1>3, <1>4, <1>5, <1>6, <1>7, <2>1 DEF StepOf
    <3> QED BY <3>1 DEF Follows, LeadsTo, StepOf
  <2>2. CASE q # r
    <3>1. /\ Follows(q) /\ trace' = trace
          /\ pending'[q] = pending[q] /\ machine'[q] = machine[q]
      BY <1>3, <1>4, <2>2 DEF MachineFollowsRecord
    <3> QED BY <3>1 DEF Follows, StepOf, LeadsTo, Faulted
  <2> QED BY <2>1, <2>2
<1>11. CommonHistory'
  BY <1>3, <1>7, PeerFacts DEF CommonHistory
<1>12. InFlightIsUnseen'
  BY <1>3, <1>7, PeerFacts DEF InFlightIsUnseen
<1>13. Exchanged(Peer(r)) <= Exchanged(r)
  <2> SUFFICES ASSUME Exchanged(Peer(r)) > Exchanged(r) PROVE FALSE
    BY ExchangedFacts, PeerFacts
  <2>1. trace[Peer(r)][Exchanged(r) + 1].state = m.current
    BY <1>5, <1>6, SamePosition
  <2>2. Actor(Conv.states[trace[Peer(r)][Exchanged(r) + 1].state]) = Peer(r)
    BY ExchangedFacts, PeerFacts DEF AheadInOwnTurn
  <2> QED BY <2>1, <2>2, PeerFacts
<1>14. AheadInOwnTurn'
  <2> SUFFICES ASSUME NEW q \in Role, Exchanged(q) > Exchanged(Peer(q))
               PROVE  /\ pending'[Peer(q)] = {}
                      /\ \A i \in Exchanged(Peer(q)) + 1 .. Exchanged(q) :
                           Actor(Conv.states[trace[q][i].state]) = q
    BY <1>3, <1>7, PeerFacts DEF AheadInOwnTurn
  <2>1. Peer(q) # r
    BY <1>13, PeerFacts, ExchangedFacts
  <2> QED
    BY <1>4, <2>1, PeerFacts DEF AheadInOwnTurn
<1>15. StatusOK'
  BY <1>1, <1>3, <1>4, <1>7 DEF StatusOK
<1>16. NoFrameRejected'
  BY <1>3 DEF NoFrameRejected
<1> QED
  BY <1>8, <1>9, <1>10, <1>11, <1>12, <1>14, <1>15, <1>16

\* A record that is extended at the state it leads to stays a walk.
LEMMA WalkGrows ==
  ASSUME TypeOK, RecordsAreWalks, NEW r \in Role, NEW e \in Envelope,
         ~Faulted(r), LeadsTo(r, e.state), e.sequence = Len(trace[r]),
         StepOf(e) # {},
         trace' = [trace EXCEPT ![r] = Append(trace[r], e)]
  PROVE  /\ RecordsAreWalks'
         /\ \A s : StepOf(e) = {s} => LeadsTo(r, s)'
         /\ \A q \in Role : q # r => \A s : LeadsTo(q, s)' <=> LeadsTo(q, s)
<1> DEFINE n == Len(trace[r])
<1>1. /\ n \in Nat /\ Exchanged(r) = n
      /\ trace[r] = <<>> <=> n = 0
  BY ExchangedFacts DEF TypeOK
<1>2. /\ trace'[r] # <<>> /\ Len(trace'[r]) = n + 1
      /\ \A i \in 1..n : trace'[r][i] = trace[r][i]
      /\ trace'[r][n + 1] = e
      /\ e.frame.op = "fault" => Exchanged(r)' = n
      /\ e.frame.op # "fault" => Exchanged(r)' = n + 1
      /\ \A q \in Role : q # r => trace'[q] = trace[q] /\ Exchanged(q)' = Exchanged(q)
  BY RecordFacts
<1>3. ASSUME NEW q \in Role, NEW i \in 1..Len(trace'[q])
      PROVE  EntryOK(q, i)'
  <2>1. CASE q # r
    <3>1. EntryOK(q, i) /\ trace'[q] = trace[q] /\ Exchanged(q)' = Exchanged(q)
      BY <1>2, <2>1 DEF RecordsAreWalks
    <3> QED BY <3>1 DEF EntryOK, StepOf
  <2>2. CASE q = r /\ i = n + 1
    <3>1. e.state = Conv.initial \/ n > 0
      BY <1>1 DEF LeadsTo
    <3> QED BY <1>1, <1>2, <2>2, <3>1 DEF EntryOK, StepOf
  <2>3. CASE q = r /\ i \in 1..n
    <3>1. EntryOK(r, i) /\ trace'[r][i] = trace[r][i] /\ i <= n /\ i \in Nat
      BY <1>1, <1>2, <2>3 DEF RecordsAreWalks
    <3>2. i = n => StepOf(trace[r][i]) = {e.state}
      BY <1>1, <2>3 DEF LeadsTo
    <3>3. StepOf(trace'[r][i]) = {trace'[r][i + 1].state}
      <4>1. CASE i = n
        BY <1>2, <3>1, <3>2, <4>1
      <4>2. CASE i < n
        <5>1. trace'[r][i + 1] = trace[r][i + 1]
          BY <1>1, <1>2, <2>3, <4>2
        <5> QED BY <3>1, <4>2, <5>1 DEF EntryOK
      <4>3. i = n \/ i < n
        BY <1>1, <3>1
      <4> QED BY <4>1, <4>2, <4>3
    <3>4. trace[r][i].frame.op # "fault"
      BY <1>1, <3>1 DEF EntryOK
    <3> QED BY <2>3, <3>1, <3>3, <3>4 DEF EntryOK, StepOf
  <2> QED BY <1>1, <1>2, <2>1, <2>2, <2>3
<1>4. RecordsAreWalks'
  BY <1>3 DEF RecordsAreWalks
<1>5. \A s : StepOf(e) = {s} => LeadsTo(r, s)'
  BY <1>2 DEF LeadsTo, StepOf
<1>6. \A q \in Role : q # r => \A s : LeadsTo(q, s)' <=> LeadsTo(q, s)
  BY <1>2 DEF LeadsTo, StepOf
<1> QED
  BY <1>4, <1>5, <1>6

\* While one role is not ahead, nothing of it is in flight.
LEMMA NothingInFlight ==
  ASSUME TypeOK, InFlightIsUnseen, NEW r \in Role,
         Exchanged(r) <= Exchanged(Peer(r))
  PROVE  wire[r] = <<>> /\ Len(wire[r]) = 0
<1>1. wire[r] \in Seq(Envelope) /\ Len(wire[r]) \in Nat
  BY DEF TypeOK
<1>2. Exchanged(r) \in Nat /\ Exchanged(Peer(r)) \in Nat
  BY ExchangedFacts, PeerFacts
<1>3. Len(wire[r]) = 0
  <2> SUFFICES ASSUME 1 \in 1..Len(wire[r]) PROVE FALSE
    BY <1>1
  <2>1. Exchanged(Peer(r)) + 1 <= Exchanged(r)
    BY DEF InFlightIsUnseen
  <2> QED BY <1>2, <2>1
<1> QED
  BY <1>1, <1>3

\* The transport takes the pending envelope.
LEMMA SendInv ==
  ASSUME SessionInv, NEW r \in Role, SendSucceeds(r)
  PROVE  SessionInv'
<1> USE DEF SessionInv
<1> DEFINE p == Peer(r)
           n == Len(trace[r])
<1>1. PICK e \in pending[r] :
        /\ wire' = [wire EXCEPT ![r] = Append(wire[r], e)]
        /\ trace' = [trace EXCEPT ![r] = Append(trace[r], e)]
  BY DEF SendSucceeds
<1>2. /\ pending' = [pending EXCEPT ![r] = {}]
      /\ UNCHANGED <<machine, open, status>>
      /\ status[r] = "running"
  BY DEF SendSucceeds
<1>3. /\ e \in Envelope /\ ~Faulted(r) /\ LeadsTo(r, e.state)
      /\ e.sequence = n /\ machine[r].sequence = n + 1
      /\ e.frame.op # "fault" /\ StepOf(e) = {machine[r].current}
      /\ Actor(Conv.states[e.state]) = r
  BY DEF TypeOK, MachineFollowsRecord, Follows
<1>4. open[r]
  BY <1>2, <1>3 DEF StatusOK
<1>5. /\ p \in Role /\ p # r /\ Peer(p) = r
      /\ \A q \in Role : q = r \/ q = p
  BY PeerFacts
<1>6. /\ Exchanged(r) = n /\ n \in Nat
      /\ Exchanged(p) \in Nat /\ Exchanged(p) <= Len(trace[p])
  BY <1>3, <1>5, ExchangedFacts
<1>7. /\ trace' \in [Role -> Seq(Envelope)]
      /\ Len(trace'[r]) = n + 1
      /\ \A i \in 1..n : trace'[r][i] = trace[r][i]
      /\ trace'[r][n + 1] = e
      /\ ~Faulted(r)' /\ Exchanged(r)' = n + 1
      /\ trace'[p] = trace[p]
      /\ Faulted(p)' <=> Faulted(p)
      /\ Exchanged(p)' = Exchanged(p)
  <2>1. TypeOK /\ e \in Envelope /\ e.frame.op # "fault"
    BY <1>3
  <2> HIDE DEF SessionInv
  <2> QED BY <1>1, <1>5, <2>1, RecordFacts
<1>8. Exchanged(p) <= n
  BY <1>1, <1>5, <1>6 DEF AheadInOwnTurn
<1>9. pending[p] = {}
  <2>1. CASE n > Exchanged(p)
    BY <1>6, <2>1 DEF AheadInOwnTurn
  <2>2. CASE n = Exchanged(p)
    <3> SUFFICES ASSUME NEW d \in pending[p] PROVE FALSE
      OBVIOUS
    <3>1. ~Faulted(p) /\ LeadsTo(p, d.state) /\ Actor(Conv.states[d.state]) = p
      BY <1>5 DEF MachineFollowsRecord, Follows
    <3>2. e.state = d.state
      BY <1>3, <1>6, <2>2, <3>1, SamePosition
    <3> QED BY <1>3, <1>5, <3>1, <3>2
  <2> QED BY <1>6, <1>8, <2>1, <2>2
<1>10. /\ pending'[r] = {} /\ pending'[p] = {}
       /\ pending' \in [Role -> SUBSET Envelope]
  BY <1>2, <1>5, <1>9 DEF TypeOK
<1>11. /\ wire' \in [Role -> Seq(Envelope)]
       /\ wire'[p] = wire[p]
       /\ Len(wire[r]) \in Nat
       /\ Len(wire'[r]) = Len(wire[r]) + 1
       /\ \A i \in 1..Len(wire[r]) : wire'[r][i] = wire[r][i]
       /\ wire'[r][Len(wire[r]) + 1] = e
  <2>1. wire \in [Role -> Seq(Envelope)] /\ wire[r] \in Seq(Envelope)
    BY DEF TypeOK
  <2>2. wire'[r] = Append(wire[r], e) /\ wire'[p] = wire[p]
    BY <1>1, <1>5, <2>1
  <2> QED BY <1>1, <1>3, <2>1, <2>2
<1>12. TypeOK'
  BY <1>2, <1>7, <1>10, <1>11 DEF TypeOK
<1>13. RecordsAreWalks' /\ LeadsTo(r, machine[r].current)'
       /\ \A s : LeadsTo(p, s)' <=> LeadsTo(p, s)
  <2>1. \A s : StepOf(e) = {s} => LeadsTo(r, s)'
    BY <1>1, <1>3, WalkGrows
  <2>2. LeadsTo(r, machine[r].current)'
    BY <1>2, <1>3, <2>1 DEF LeadsTo, StepOf
  <2> QED BY <1>1, <1>3, <1>5, <2>2, WalkGrows
<1>14. MachineFollowsRecord'
  <2>1. Follows(r)'
    BY <1>2, <1>3, <1>7, <1>10, <1>13 DEF Follows
  <2>2. Follows(p)'
    <3>1. Follows(p) /\ machine'[p] = machine[p]
      BY <1>2, <1>5 DEF MachineFollowsRecord
    <3> QED BY <1>7, <1>9, <1>10, <3>1 DEF Follows, LeadsTo, StepOf
  <2> QED BY <1>5, <2>1, <2>2 DEF MachineFollowsRecord
<1>15. CommonHistory'
  <2>1. \A i \in 1..(n + 1) : i <= Exchanged(p) => trace'[r][i] = trace[p][i]
    <3> SUFFICES ASSUME NEW i \in 1..(n + 1), i <= Exchanged(p)
                 PROVE  trace'[r][i] = trace[p][i]
      OBVIOUS
    <3>1. i \in 1..n
      BY <1>6, <1>8
    <3> QED BY <1>6, <1>7, <3>1 DEF CommonHistory
  <2>2. \A i \in 1..Exchanged(p) : i <= n + 1 => trace[p][i] = trace'[r][i]
    BY <1>6, <1>8, <2>1
  <2> QED BY <1>5, <1>7, <2>1, <2>2, ZenonT(30) DEF CommonHistory
<1>16. InFlightIsUnseen'
  <2>1. Len(wire[r]) = n - Exchanged(p)
    BY <1>4, <1>6, <1>8 DEF InFlightIsUnseen
  <2>2. ASSUME NEW i \in 1..Len(wire'[r])
        PROVE  Exchanged(p) + i <= n + 1 /\ wire'[r][i] = trace'[r][Exchanged(p) + i]
    <3>1. CASE i = Len(wire[r]) + 1
      BY <1>6, <1>7, <1>11, <2>1, <3>1, SMTT(30)
    <3>2. CASE i \in 1..Len(wire[r])
      <4>1. Exchanged(p) + i <= n /\ wire[r][i] = trace[r][Exchanged(p) + i]
        BY <1>6, <3>2 DEF InFlightIsUnseen
      <4>2. Exchanged(p) + i \in 1..n
        BY <1>6, <1>11, <3>2, <4>1
      <4>3. wire'[r][i] = wire[r][i]
        BY <1>11, <3>2
      <4>4. trace'[r][Exchanged(p) + i] = trace[r][Exchanged(p) + i]
        BY <1>7, <4>2
      <4>5. Exchanged(p) + i <= n + 1
        BY <1>6, <4>2
      <4> QED BY <4>1, <4>3, <4>4, <4>5
    <3> QED BY <1>11, <3>1, <3>2
  <2>3. Len(wire[p]) = 0
    BY <1>5, <1>6, <1>8, NothingInFlight
  <2>4. ASSUME NEW q \in Role
        PROVE  LET seen == Exchanged(Peer(q))' IN
               /\ open'[q] => Len(wire'[q]) = IF Exchanged(q)' > seen
                                                THEN Exchanged(q)' - seen ELSE 0
               /\ \A i \in 1..Len(wire'[q]) :
                    seen + i <= Exchanged(q)' /\ wire'[q][i] = trace'[q][seen + i]
    <3>1. CASE q = r
      BY <1>6, <1>7, <1>8, <1>11, <2>1, <2>2, <3>1, SMTT(30)
    <3>2. CASE q = p
      BY <1>5, <1>6, <1>7, <1>8, <1>11, <2>3, <3>2, SMTT(30)
    <3> QED BY <1>5, <3>1, <3>2
  <2> QED BY <2>4 DEF InFlightIsUnseen
<1>17. AheadInOwnTurn'
  <2>1. \A i \in Exchanged(p) + 1 .. n + 1 : Actor(Conv.states[trace'[r][i].state]) = r
    <3> SUFFICES ASSUME NEW i \in Exchanged(p) + 1 .. n + 1
                 PROVE  Actor(Conv.states[trace'[r][i].state]) = r
      OBVIOUS
    <3>1. CASE i = n + 1
      BY <1>3, <1>7, <3>1
    <3>2. CASE i <= n
      BY <1>6, <1>7, <1>8, <3>2 DEF AheadInOwnTurn
    <3> QED BY <1>6, <3>1, <3>2
  <2>2. ASSUME NEW q \in Role, Exchanged(q)' > Exchanged(Peer(q))'
        PROVE  /\ pending'[Peer(q)] = {}
               /\ \A i \in Exchanged(Peer(q))' + 1 .. Exchanged(q)' :
                    Actor(Conv.states[trace'[q][i].state]) = q
    <3>1. q = r
      BY <1>5, <1>6, <1>7, <1>8, <2>2
    <3> QED BY <1>7, <1>10, <2>1, <3>1
  <2> QED BY <2>2 DEF AheadInOwnTurn
<1>18. StatusOK'
  BY <1>2, <1>4, <1>5, <1>7, <1>10 DEF StatusOK
<1>19. NoFrameRejected'
  BY <1>2 DEF NoFrameRejected
<1> QED
  BY <1>12, <1>13, <1>14, <1>15, <1>16, <1>17, <1>18, <1>19

\* What a blocked role finds at the head of its inbound wire: the next entry
\* of its peer's record, taken at the state the role is in, with the sequence
\* number it expects, and acceptable to it.
LEMMA HeadFacts ==
  ASSUME SessionInv, NEW r \in Role, Blocked(r), wire[Peer(r)] # <<>>
  PROVE  LET e == Head(wire[Peer(r)])
             n == Len(trace[r])
         IN  /\ e \in Envelope /\ e = trace[Peer(r)][n + 1]
             /\ ~Faulted(r) /\ n + 1 <= Exchanged(Peer(r))
             /\ LeadsTo(r, machine[r].current)
             /\ ValidEnvelope(r, e) /\ e.sequence = n
             /\ e.frame.op # "fault"
             /\ \E t \in State : /\ StepOf(e) = {t}
                                 /\ AcceptTarget(Local(r), r, e.frame) = {t}
<1> DEFINE p == Peer(r)
           e == Head(wire[p])
           n == Len(trace[r])
<1>1. /\ TypeOK /\ RecordsAreWalks /\ MachineFollowsRecord /\ CommonHistory
      /\ InFlightIsUnseen /\ AheadInOwnTurn /\ StatusOK
  BY DEF SessionInv
<1>2. p \in Role /\ Peer(p) = r /\ machine[r].current \in State
  BY <1>1, PeerFacts DEF TypeOK
<1>3. status[r] = "running" /\ pending[r] = {} /\ Local(r).kind \in Accepting
  BY DEF Blocked, Idle
<1>4. ~Terminal(Conv.states[machine[r].current]) /\ Actor(Conv.states[machine[r].current]) # r
  BY <1>2, <1>3, ProjectedKinds DEF Local
<1>5. ~Faulted(r)
  BY <1>1, <1>4, FaultedTerminal
<1>6. LeadsTo(r, machine[r].current) /\ machine[r].sequence = n
  BY <1>1, <1>3, <1>5 DEF MachineFollowsRecord, Follows
<1>7. n \in Nat /\ Exchanged(r) = n /\ Exchanged(p) \in Nat /\ Exchanged(p) <= Len(trace[p])
      /\ Len(trace[p]) \in Nat
  BY <1>1, <1>2, <1>5, ExchangedFacts
<1>8. wire[p] \in Seq(Envelope) /\ 1 \in 1..Len(wire[p]) /\ e = wire[p][1] /\ e \in Envelope
  BY <1>1, <1>2 DEF TypeOK
<1>9. n + 1 <= Exchanged(p) /\ e = trace[p][n + 1]
  BY <1>1, <1>2, <1>7, <1>8 DEF InFlightIsUnseen
<1>10. e.state = machine[r].current
  BY <1>1, <1>5, <1>6, <1>7, <1>9, SamePosition
<1>11. EntryOK(p, n + 1)
  <2>1. n + 1 \in 1..Len(trace[p])
    BY <1>7, <1>9
  <2> QED BY <1>1, <1>2, <2>1 DEF RecordsAreWalks
<1>12. e.sequence = n /\ StepOf(e) # {} /\ e.frame.op # "fault"
  BY <1>7, <1>9, <1>11 DEF EntryOK
<1>13. e.state \in State /\ e.frame \in Frame
  BY <1>8 DEF Envelope
<1>14. PICK t \in State : StepOf(e) = {t}
  BY <1>12, <1>13, StepFacts DEF StepOf
<1>15. AcceptTarget(Local(r), r, e.frame) = {t}
  BY <1>4, <1>10, <1>12, <1>13, <1>14, Duality DEF StepOf, Local
<1> QED
  BY <1>5, <1>6, <1>8, <1>9, <1>10, <1>12, <1>14, <1>15 DEF ValidEnvelope

\* Index arithmetic for the head of the wire.
LEMMA PlusOne == \A a, b \in Nat : a + (b + 1) = a + 1 + b
OBVIOUS

\* Receiving.
LEMMA ReceiveInv ==
  ASSUME SessionInv, NEW r \in Role, Receive(r)
  PROVE  SessionInv'
<1> DEFINE p == Peer(r)
           n == Len(trace[r])
<1>0. /\ TypeOK /\ RecordsAreWalks /\ MachineFollowsRecord /\ CommonHistory
      /\ InFlightIsUnseen /\ AheadInOwnTurn /\ StatusOK /\ NoFrameRejected
  BY DEF SessionInv
<1>1. PICK e : e = Head(wire[p])
  OBVIOUS
<1>2. /\ Blocked(r) /\ wire[p] # <<>>
      /\ wire' = [wire EXCEPT ![p] = Tail(wire[p])]
      /\ pending' = pending
  BY DEF Receive
<1>3. /\ e \in Envelope /\ e = trace[p][n + 1]
      /\ ~Faulted(r) /\ n + 1 <= Exchanged(p)
      /\ LeadsTo(r, machine[r].current)
      /\ ValidEnvelope(r, e) /\ e.sequence = n /\ e.frame.op # "fault"
      /\ \E t \in State : /\ StepOf(e) = {t}
                          /\ AcceptTarget(Local(r), r, e.frame) = {t}
  BY <1>1, <1>2, HeadFacts
<1>4. PICK t \in State : StepOf(e) = {t} /\ AcceptTarget(Local(r), r, e.frame) = {t}
  BY <1>3
<1>5. /\ machine' = [machine EXCEPT ![r] =
                       [current |-> t, sequence |-> machine[r].sequence + 1]]
      /\ trace' = [trace EXCEPT ![r] = Append(trace[r], e)]
      /\ UNCHANGED <<open, status>>
  BY <1>1, <1>3, <1>4 DEF Receive
<1>6. /\ status[r] = "running" /\ pending[r] = {}
      /\ e.state = machine[r].current /\ machine[r].sequence = n
  BY <1>2, <1>3 DEF Blocked, Idle, ValidEnvelope
<1>7. /\ p \in Role /\ p # r /\ Peer(p) = r
      /\ \A q \in Role : q = r \/ q = p
  BY PeerFacts
<1>8. /\ Exchanged(r) = n /\ n \in Nat
      /\ Exchanged(p) \in Nat
  BY <1>0, <1>3, <1>7, ExchangedFacts
<1>9. /\ trace' \in [Role -> Seq(Envelope)]
      /\ Len(trace'[r]) = n + 1
      /\ \A i \in 1..n : trace'[r][i] = trace[r][i]
      /\ trace'[r][n + 1] = e
      /\ ~Faulted(r)' /\ Exchanged(r)' = n + 1
      /\ trace'[p] = trace[p]
      /\ Faulted(p)' <=> Faulted(p)
      /\ Exchanged(p)' = Exchanged(p)
  BY <1>0, <1>3, <1>5, <1>7, RecordFacts, ZenonT(30)
<1>10. /\ machine'[r].current = t /\ machine'[r].sequence = n + 1
       /\ machine'[p] = machine[p]
       /\ machine' \in [Role -> [current : State, sequence : Nat]]
  BY <1>0, <1>5, <1>6, <1>7, <1>8 DEF TypeOK
<1>11. /\ wire' \in [Role -> Seq(Envelope)]
       /\ wire'[r] = wire[r]
       /\ Len(wire[p]) \in Nat
       /\ Len(wire'[p]) = Len(wire[p]) - 1
       /\ \A i \in 1..Len(wire'[p]) : wire'[p][i] = wire[p][i + 1]
  <2>1. wire \in [Role -> Seq(Envelope)] /\ wire[p] \in Seq(Envelope)
    BY <1>0, <1>7 DEF TypeOK
  <2>2. /\ Tail(wire[p]) \in Seq(Envelope)
        /\ Len(Tail(wire[p])) = Len(wire[p]) - 1
        /\ Len(wire[p]) \in Nat
        /\ \A i \in 1..Len(Tail(wire[p])) : Tail(wire[p])[i] = wire[p][i + 1]
    BY <1>2, <2>1
  <2>3. wire'[p] = Tail(wire[p]) /\ wire'[r] = wire[r]
    BY <1>2, <1>7, <2>1
  <2>4. wire' \in [Role -> Seq(Envelope)]
    BY <1>2, <2>1, <2>2
  <2> QED BY <2>2, <2>3, <2>4
<1>12. TypeOK'
  BY <1>0, <1>2, <1>5, <1>9, <1>10, <1>11 DEF TypeOK
<1>13. RecordsAreWalks' /\ LeadsTo(r, t)'
       /\ \A s : LeadsTo(p, s)' <=> LeadsTo(p, s)
  <2>1. StepOf(e) # {} /\ LeadsTo(r, e.state)
    BY <1>3, <1>4, <1>6
  <2> QED BY <1>0, <1>3, <1>4, <1>5, <1>7, <2>1, WalkGrows
<1>14. MachineFollowsRecord'
  <2>1. Follows(r)'
    BY <1>2, <1>6, <1>9, <1>10, <1>13 DEF Follows, LeadsTo, StepOf
  <2>2. Follows(p)'
    <3>1. Follows(p) /\ pending'[p] = pending[p]
      BY <1>0, <1>2, <1>7 DEF MachineFollowsRecord
    <3> QED BY <1>9, <1>10, <3>1 DEF Follows, LeadsTo, StepOf
  <2> QED BY <1>7, <2>1, <2>2 DEF MachineFollowsRecord
<1>15. CommonHistory'
  <2>1. ASSUME NEW i \in 1..(n + 1) PROVE trace'[r][i] = trace[p][i]
    <3>1. CASE i = n + 1
      BY <1>3, <1>9, <3>1
    <3>2. CASE i \in 1..n
      BY <1>0, <1>3, <1>8, <1>9, <3>2 DEF CommonHistory
    <3> QED BY <1>8, <3>1, <3>2
  <2>2. \A i \in 1..Exchanged(p) : i <= n + 1 => trace[p][i] = trace'[r][i]
    BY <1>8, <2>1
  <2> QED BY <1>7, <1>9, <2>1, <2>2 DEF CommonHistory
<1>16. InFlightIsUnseen'
  <2>1. /\ open[p] => Len(wire[p]) = Exchanged(p) - n
        /\ \A i \in 1..Len(wire[p]) :
             n + i <= Exchanged(p) /\ wire[p][i] = trace[p][n + i]
    <3>1. /\ open[p] => Len(wire[p]) = IF Exchanged(p) > Exchanged(Peer(p))
                                         THEN Exchanged(p) - Exchanged(Peer(p)) ELSE 0
          /\ \A i \in 1..Len(wire[p]) :
               /\ Exchanged(Peer(p)) + i <= Exchanged(p)
               /\ wire[p][i] = trace[p][Exchanged(Peer(p)) + i]
      BY <1>0, <1>7 DEF InFlightIsUnseen
    <3>2. Exchanged(Peer(p)) = n /\ Exchanged(p) > n
      BY <1>3, <1>7, <1>8
    <3> QED BY <3>1, <3>2
  <2>2. ASSUME NEW i \in 1..Len(wire'[p])
        PROVE  n + 1 + i <= Exchanged(p) /\ wire'[p][i] = trace[p][n + 1 + i]
    <3>1. i + 1 \in 1..Len(wire[p])
      BY <1>11
    <3>2. n + (i + 1) <= Exchanged(p) /\ wire[p][i + 1] = trace[p][n + (i + 1)]
      BY <2>1, <3>1
    <3>3. i \in Nat /\ n \in Nat
      BY <1>8, <1>11
    <3>4. n + (i + 1) = n + 1 + i
      BY <3>3, PlusOne
    <3> QED BY <1>11, <3>2, <3>4
  <2>3. Len(wire[r]) = 0
    BY <1>0, <1>3, <1>8, NothingInFlight
  <2>4. ASSUME NEW q \in Role
        PROVE  LET seen == Exchanged(Peer(q))' IN
               /\ open'[q] => Len(wire'[q]) = IF Exchanged(q)' > seen
                                                THEN Exchanged(q)' - seen ELSE 0
               /\ \A i \in 1..Len(wire'[q]) :
                    seen + i <= Exchanged(q)' /\ wire'[q][i] = trace'[q][seen + i]
    <3>1. CASE q = r
      BY <1>3, <1>8, <1>9, <1>11, <2>3, <3>1
    <3>2. CASE q = p
      BY <1>3, <1>5, <1>7, <1>8, <1>9, <1>11, <2>1, <2>2, <3>2
    <3> QED BY <1>7, <3>1, <3>2
  <2> QED BY <2>4 DEF InFlightIsUnseen
<1>17. AheadInOwnTurn'
  <2>1. ASSUME NEW q \in Role, Exchanged(q)' > Exchanged(Peer(q))'
        PROVE  /\ pending'[Peer(q)] = {}
               /\ \A i \in Exchanged(Peer(q))' + 1 .. Exchanged(q)' :
                    Actor(Conv.states[trace'[q][i].state]) = q
    <3>1. q = p
      BY <1>3, <1>7, <1>8, <1>9, <2>1
    <3>2. \A i \in n + 1 .. Exchanged(p) : Actor(Conv.states[trace[p][i].state]) = p
      BY <1>0, <1>3, <1>7, <1>8 DEF AheadInOwnTurn
    <3> QED BY <1>2, <1>6, <1>7, <1>8, <1>9, <3>1, <3>2, Z3T(30)
  <2> QED BY <2>1 DEF AheadInOwnTurn
<1>18. StatusOK'
  <2>1. /\ status' = status /\ open' = open /\ pending' = pending
        /\ status[r] = "running" /\ ~Faulted(r)
    BY <1>2, <1>3, <1>5, <1>6
  <2> QED BY <1>0, <1>7, <1>9, <1>10, <2>1 DEF StatusOK
<1>19. NoFrameRejected'
  BY <1>0, <1>5 DEF NoFrameRejected
<1> QED
  BY <1>12, <1>13, <1>14, <1>15, <1>16, <1>17, <1>18, <1>19 DEF SessionInv

\* A worker that stops without recording anything: it returns, it crashes, or
\* its call failed with a failure the state does not declare.
LEMMA LeaveInv ==
  ASSUME SessionInv, NEW r \in Role, CutWire(r) \/ wire' = wire,
         UNCHANGED <<machine, pending, trace>>,
         open' = [open EXCEPT ![r] = FALSE],
         NEW how \in {"reported", "undeclared", "crashed"},
         status' = [status EXCEPT ![r] = how],
         how = "reported" =>
           pending[r] = {} /\ Terminal(Conv.states[machine[r].current])
  PROVE  SessionInv'
<1>0. /\ TypeOK /\ RecordsAreWalks /\ MachineFollowsRecord /\ CommonHistory
      /\ InFlightIsUnseen /\ AheadInOwnTurn /\ StatusOK /\ NoFrameRejected
  BY DEF SessionInv
<1>1. \A q \in Role : /\ Faulted(q)' <=> Faulted(q)
                      /\ Exchanged(q)' = Exchanged(q)
                      /\ \A s : LeadsTo(q, s)' <=> LeadsTo(q, s)
  BY SameRecords
<1>2. /\ wire' \in [Role -> Seq(Envelope)]
      /\ \A q \in Role : q # r => wire'[q] = wire[q]
      /\ Len(wire'[r]) <= Len(wire[r])
      /\ \A i \in 1..Len(wire'[r]) : wire'[r][i] = wire[r][i] /\ i \in 1..Len(wire[r])
  <2>1. Len(wire[r]) \in Nat
    BY <1>0 DEF TypeOK
  <2>2. CASE CutWire(r)
    BY <1>0, <2>1, <2>2, CutFacts
  <2>3. CASE wire' = wire
    BY <1>0, <2>1, <2>3 DEF TypeOK
  <2> QED BY <2>2, <2>3
<1>3. /\ ~open'[r] /\ status'[r] = how
      /\ \A q \in Role : q # r => open'[q] = open[q] /\ status'[q] = status[q]
  BY <1>0 DEF TypeOK
<1>4. TypeOK'
  BY <1>0, <1>2 DEF TypeOK
<1>5. RecordsAreWalks'
  BY <1>0, <1>1 DEF RecordsAreWalks, EntryOK, StepOf
<1>6. MachineFollowsRecord'
  BY <1>0, <1>1, ZenonT(30) DEF MachineFollowsRecord, Follows, LeadsTo, StepOf
<1>7. CommonHistory'
  BY <1>0, <1>1, PeerFacts DEF CommonHistory
<1>8. InFlightIsUnseen'
  <2> SUFFICES ASSUME NEW q \in Role
               PROVE  LET seen == Exchanged(Peer(q)) IN
                      /\ open'[q] => Len(wire'[q]) = IF Exchanged(q) > seen
                                                       THEN Exchanged(q) - seen ELSE 0
                      /\ \A i \in 1..Len(wire'[q]) :
                           seen + i <= Exchanged(q) /\ wire'[q][i] = trace[q][seen + i]
    BY <1>1, PeerFacts DEF InFlightIsUnseen
  <2>1. CASE q = r
    BY <1>0, <1>2, <1>3, <2>1, SMTT(30) DEF InFlightIsUnseen
  <2>2. CASE q # r
    BY <1>0, <1>2, <1>3, <2>2 DEF InFlightIsUnseen
  <2> QED BY <2>1, <2>2
<1>9. AheadInOwnTurn'
  BY <1>0, <1>1, PeerFacts DEF AheadInOwnTurn
<1>10. StatusOK'
  BY <1>0, <1>1, <1>3 DEF StatusOK
<1>11. NoFrameRejected'
  BY <1>0, <1>3 DEF NoFrameRejected
<1> QED
  BY <1>4, <1>5, <1>6, <1>7, <1>8, <1>9, <1>10, <1>11 DEF SessionInv

\* A transport call that fails, at the state the record leads to.
LEMMA FailInv ==
  ASSUME SessionInv, NEW r \in Role, NEW at \in State, NEW failure \in Failure,
         status[r] = "running", ~Faulted(r), LeadsTo(r, at),
         ObserveFailureAt(r, at, failure)
  PROVE  SessionInv'
<1> DEFINE target == EndpointFailureTarget(ProjectState(Conv.states[at], r), failure)
           n == Len(trace[r])
           p == Peer(r)
<1>0. /\ TypeOK /\ RecordsAreWalks /\ MachineFollowsRecord /\ CommonHistory
      /\ InFlightIsUnseen /\ AheadInOwnTurn /\ StatusOK /\ NoFrameRejected
  BY DEF SessionInv
<1>1. open' = [open EXCEPT ![r] = FALSE] /\ CutWire(r)
  BY DEF ObserveFailureAt
<1>2. CASE target = {}
  <2>1. /\ status' = [status EXCEPT ![r] = "undeclared"]
        /\ UNCHANGED <<machine, pending, trace>>
    BY <1>2 DEF ObserveFailureAt
  <2> QED BY <1>1, <2>1, LeaveInv
<1>3. ASSUME NEW next \in target,
             pending' = [pending EXCEPT ![r] = {}],
             machine' = [machine EXCEPT ![r] =
                   [current |-> next,
                    sequence |-> IF machine[r].current = at
                                   THEN machine[r].sequence + 1
                                   ELSE machine[r].sequence]],
             trace' = [trace EXCEPT ![r] =
                   Append(trace[r],
                          [state |-> at, sequence |-> Len(trace[r]),
                           frame |-> FaultFrame(r, failure)])],
             UNCHANGED status
      PROVE  SessionInv'
  <2>1. /\ next \in State /\ Terminal(Conv.states[next])
        /\ FailureTarget(Conv.states[at], failure) = {next}
    <3>1. next \in FailureTarget(Conv.states[at], failure)
      BY <1>3, ProjectedFailures
    <3> QED BY <3>1, FailureFacts
  <2>2. p \in Role /\ p # r /\ Peer(p) = r /\ \A q \in Role : q = r \/ q = p
    BY PeerFacts
  <2>3. n \in Nat /\ Exchanged(r) = n /\ Exchanged(p) \in Nat
    BY <1>0, <2>2, ExchangedFacts
  <2>4. PICK e : e = [state |-> at, sequence |-> n, frame |-> FaultFrame(r, failure)]
    OBVIOUS
  <2>5. /\ e \in Envelope /\ e.state = at /\ e.sequence = n
        /\ e.frame.op = "fault" /\ e.frame = FaultFrame(r, failure)
    BY <2>3, <2>4 DEF Envelope, Frame, FaultFrame
  <2>6. StepOf(e) = {next}
    BY <2>1, <2>5 DEF StepOf, TraceStep, FaultFrame, Only, Role
  <2>7. trace' = [trace EXCEPT ![r] = Append(trace[r], e)]
    BY <1>3, <2>4
  <2>8. /\ trace' \in [Role -> Seq(Envelope)]
        /\ \A i \in 1..n : trace'[r][i] = trace[r][i]
        /\ Faulted(r)' /\ Exchanged(r)' = n
        /\ trace'[p] = trace[p]
        /\ Faulted(p)' <=> Faulted(p)
        /\ Exchanged(p)' = Exchanged(p)
    BY <1>0, <2>2, <2>5, <2>7, RecordFacts
  <2>9. /\ machine'[r].current = next /\ machine'[p] = machine[p]
        /\ machine' \in [Role -> [current : State, sequence : Nat]]
        /\ pending'[r] = {} /\ pending'[p] = pending[p]
        /\ pending' \in [Role -> SUBSET Envelope]
        /\ ~open'[r] /\ open'[p] = open[p] /\ open' \in [Role -> BOOLEAN]
        /\ status' = status
    BY <1>0, <1>1, <1>3, <2>1, <2>2 DEF TypeOK
  <2>10. /\ wire' \in [Role -> Seq(Envelope)]
         /\ wire'[p] = wire[p]
         /\ \A i \in 1..Len(wire'[r]) : wire'[r][i] = wire[r][i] /\ i \in 1..Len(wire[r])
    <3>1. Len(wire[r]) \in Nat
      BY <1>0 DEF TypeOK
    <3> QED BY <1>0, <1>1, <2>2, <3>1, CutFacts
  <2>11. TypeOK'
    BY <1>0, <2>8, <2>9, <2>10 DEF TypeOK
  <2>12. RecordsAreWalks' /\ LeadsTo(r, next)'
         /\ \A s : LeadsTo(p, s)' <=> LeadsTo(p, s)
    BY <1>0, <2>2, <2>5, <2>6, <2>7, WalkGrows
  <2>13. MachineFollowsRecord'
    <3>1. Follows(r)'
      BY <2>8, <2>9, <2>12 DEF Follows, LeadsTo, StepOf
    <3>2. Follows(p)'
      <4>1. Follows(p)
        BY <1>0, <2>2 DEF MachineFollowsRecord
      <4> QED BY <2>8, <2>9, <4>1 DEF Follows, LeadsTo, StepOf
    <3> QED BY <2>2, <3>1, <3>2 DEF MachineFollowsRecord
  <2>14. CommonHistory'
    <3>1. \A i \in 1..n : i <= Exchanged(p) => trace'[r][i] = trace'[p][i]
      BY <1>0, <2>3, <2>8 DEF CommonHistory
    <3>2. \A i \in 1..Exchanged(p) : i <= n => trace'[p][i] = trace'[r][i]
      BY <2>3, <3>1
    <3> QED BY <2>2, <2>8, <3>1, <3>2 DEF CommonHistory
  <2>15. InFlightIsUnseen'
    <3>1. \A i \in 1..Len(wire'[r]) :
            Exchanged(p) + i <= n /\ wire'[r][i] = trace'[r][Exchanged(p) + i]
      <4> SUFFICES ASSUME NEW i \in 1..Len(wire'[r])
                   PROVE  Exchanged(p) + i <= n /\ wire'[r][i] = trace'[r][Exchanged(p) + i]
        OBVIOUS
      <4>1. Exchanged(p) + i <= n /\ wire[r][i] = trace[r][Exchanged(p) + i]
        BY <1>0, <2>3, <2>10 DEF InFlightIsUnseen
      <4>2. Exchanged(p) + i \in 1..n
        BY <2>3, <2>10, <4>1
      <4> QED BY <2>8, <2>10, <4>1, <4>2
    <3>2. ASSUME NEW q \in Role
          PROVE  LET seen == Exchanged(Peer(q))' IN
                 /\ open'[q] => Len(wire'[q]) = IF Exchanged(q)' > seen
                                                  THEN Exchanged(q)' - seen ELSE 0
                 /\ \A i \in 1..Len(wire'[q]) :
                      seen + i <= Exchanged(q)' /\ wire'[q][i] = trace'[q][seen + i]
      <4>1. CASE q = r
        BY <2>8, <2>9, <3>1, <4>1
      <4>2. CASE q = p
        <5>1. /\ open[p] => Len(wire[p]) = IF Exchanged(p) > Exchanged(Peer(p))
                                             THEN Exchanged(p) - Exchanged(Peer(p)) ELSE 0
              /\ \A i \in 1..Len(wire[p]) :
                   /\ Exchanged(Peer(p)) + i <= Exchanged(p)
                   /\ wire[p][i] = trace[p][Exchanged(Peer(p)) + i]
          BY <1>0, <2>2 DEF InFlightIsUnseen
        <5>2. Exchanged(Peer(p))' = Exchanged(Peer(p)) /\ Exchanged(p)' = Exchanged(p)
          BY <2>2, <2>3, <2>8
        <5> QED BY <2>8, <2>9, <2>10, <4>2, <5>1, <5>2
      <4> QED BY <2>2, <4>1, <4>2
    <3> QED BY <3>2 DEF InFlightIsUnseen
  <2>16. AheadInOwnTurn'
    <3>1. ASSUME NEW q \in Role, Exchanged(q)' > Exchanged(Peer(q))'
          PROVE  /\ pending'[Peer(q)] = {}
                 /\ \A i \in Exchanged(Peer(q))' + 1 .. Exchanged(q)' :
                      Actor(Conv.states[trace'[q][i].state]) = q
      <4>1. /\ Exchanged(q) > Exchanged(Peer(q))
            /\ Exchanged(q)' = Exchanged(q) /\ Exchanged(Peer(q))' = Exchanged(Peer(q))
        BY <2>2, <2>3, <2>8, <3>1
      <4>2. /\ pending[Peer(q)] = {}
            /\ \A i \in Exchanged(Peer(q)) + 1 .. Exchanged(q) :
                 Actor(Conv.states[trace[q][i].state]) = q
        BY <1>0, <4>1 DEF AheadInOwnTurn
      <4>3. \A i \in Exchanged(Peer(q)) + 1 .. Exchanged(q) : trace'[q][i] = trace[q][i]
        <5>1. CASE q = r
          <6>1. Exchanged(p) + 1 .. n \subseteq 1..n
            BY <2>3
          <6>2. Exchanged(Peer(q)) = Exchanged(p) /\ Exchanged(q) = n
            BY <2>3, <5>1
          <6> QED BY <2>8, <5>1, <6>1, <6>2
        <5>2. CASE q = p
          BY <2>8, <5>2
        <5> QED BY <2>2, <5>1, <5>2
      <4> QED BY <2>2, <2>9, <4>1, <4>2, <4>3
    <3> QED BY <3>1 DEF AheadInOwnTurn
  <2>17. StatusOK' /\ NoFrameRejected'
    BY <1>0, <2>2, <2>8, <2>9 DEF StatusOK, NoFrameRejected
  <2> QED
    BY <2>11, <2>12, <2>13, <2>14, <2>15, <2>16, <2>17 DEF SessionInv
<1> QED
  BY <1>2, <1>3 DEF ObserveFailureAt

-----------------------------------------------------------------------------
(***************************************************************************)
(* The step, action by action.                                             *)
(***************************************************************************)

\* The frame each of the three emit actions sends is one the conversation
\* permits at that state, and leads where the action moves the machine.
LEMMA EmittedFrames ==
  ASSUME TypeOK, NEW r \in Role
  PROVE  LET s == machine[r].current
             l == Local(r)
         IN  /\ l.kind = "send" =>
                  /\ DataFrame(r, l.to, l.message) \in Frame
                  /\ TraceStep(Conv, s, DataFrame(r, l.to, l.message)) = {l.next}
                  /\ l.next \in State
             /\ l.kind = "select" => \A label \in DOMAIN l.branches :
                  /\ SelectFrame(r, label) \in Frame
                  /\ TraceStep(Conv, s, SelectFrame(r, label)) = {l.branches[label]}
                  /\ l.branches[label] \in State
             /\ l.kind = "send_cancel" =>
                  /\ CancelFrame(r, l.to, l.scope) \in Frame
                  /\ TraceStep(Conv, s, CancelFrame(r, l.to, l.scope)) = {l.next}
                  /\ l.next \in State
<1> DEFINE s == machine[r].current
           l == Local(r)
           g == Conv.states[s]
<1>1. s \in State /\ StateOK(Conv, g)
  BY StateFacts DEF TypeOK
<1>2. CASE l.kind = "send"
  <2>1. /\ g.kind = "send" /\ g.from = r
        /\ l.to = g.to /\ l.message = g.message /\ l.next = g.next
    BY <1>1, <1>2 DEF Local, ProjectState, StateOK, EndState, FailState
  <2>2. g.to \in Role /\ g.next \in State
    BY <1>1, <2>1 DEF StateOK, Role, State, EndState, FailState
  <2>3. g.message \in Message
    BY <1>1, <2>1 DEF Message
  <2>4. DataFrame(r, g.to, g.message) \in Frame
    BY <2>2, <2>3 DEF DataFrame, Frame
  <2>5. TraceStep(Conv, s, DataFrame(r, g.to, g.message)) = {g.next}
    BY <2>1 DEF TraceStep, DataFrame, Only
  <2> QED BY <1>2, <2>1, <2>2, <2>4, <2>5
<1>3. CASE l.kind = "select"
  <2>0. l = ProjectState(g, r)
    BY DEF Local
  <2>a. g.kind = "choice"
    <3>1. g.kind \in {"send", "choice", "cancel", "end", "fail"}
      BY <1>1, StateKinds
    <3> QED BY <1>3, <2>0, <3>1, SMTT(30) DEF ProjectState
  <2>b. g.chooser = r
    BY <1>3, <2>0, <2>a DEF ProjectState
  <2>c. l.branches = g.branches
    BY <2>0, <2>a, <2>b DEF ProjectState
  <2>1. g.kind = "choice" /\ g.chooser = r /\ l.branches = g.branches
    BY <2>a, <2>b, <2>c
  <2> SUFFICES ASSUME NEW label \in DOMAIN g.branches
               PROVE  /\ SelectFrame(r, label) \in Frame
                      /\ TraceStep(Conv, s, SelectFrame(r, label)) = {g.branches[label]}
                      /\ g.branches[label] \in State
    BY <1>3, <2>1
  <2>2. g.branches[label] \in State
    BY <1>1, <2>1, SMTT(30) DEF StateOK, State, EndState, FailState
  <2>3. label \in Label
    BY <1>1, <2>1 DEF Label
  <2>4. SelectFrame(r, label) \in Frame
    BY <2>3 DEF SelectFrame, Frame
  <2>5. TraceStep(Conv, s, SelectFrame(r, label)) = {g.branches[label]}
    BY <2>1 DEF TraceStep, SelectFrame, Only
  <2> QED BY <2>2, <2>4, <2>5
<1>4. CASE l.kind = "send_cancel"
  <2>1. /\ g.kind = "cancel" /\ g.from = r
        /\ l.to = g.to /\ l.scope = g.scope /\ l.next = g.next
    <3>0. l = ProjectState(g, r)
      BY DEF Local
    <3>1. g.kind = "cancel"
      <4>1. g.kind \in {"send", "choice", "cancel", "end", "fail"}
        BY <1>1, StateKinds
      <4> QED BY <1>4, <3>0, <4>1, SMTT(30) DEF ProjectState
    <3>2. g.from = r
      BY <1>4, <3>0, <3>1 DEF ProjectState
    <3> QED BY <3>0, <3>1, <3>2 DEF ProjectState
  <2>2. g.to \in Role /\ g.next \in State
    BY <1>1, <2>1 DEF StateOK, Role, State, EndState, FailState
  <2>3. g.scope \in Scope
    BY <1>1, <2>1 DEF Scope
  <2>4. CancelFrame(r, g.to, g.scope) \in Frame
    BY <2>2, <2>3 DEF CancelFrame, Frame
  <2>5. TraceStep(Conv, s, CancelFrame(r, g.to, g.scope)) = {g.next}
    BY <2>1 DEF TraceStep, CancelFrame, Only
  <2> QED BY <1>4, <2>1, <2>2, <2>4, <2>5
<1> QED
  BY <1>2, <1>3, <1>4

\* Every action of either worker preserves the invariant.
LEMMA StepInv == SessionInv /\ [Next]_vars => SessionInv'
<1> SUFFICES ASSUME SessionInv, [Next]_vars PROVE SessionInv'
  OBVIOUS
<1>0. TypeOK /\ RecordsAreWalks /\ MachineFollowsRecord
  BY DEF SessionInv
<1>1. ASSUME NEW r \in Role, Local(r).kind \in Emitting
      PROVE  /\ ~Terminal(Conv.states[machine[r].current])
             /\ Actor(Conv.states[machine[r].current]) = r
  <2>1. machine[r].current \in State
    BY <1>0 DEF TypeOK
  <2> QED BY <1>1, <2>1, ProjectedKinds DEF Local
<1>2. ASSUME NEW r \in Role, EmitData(r) PROVE SessionInv'
  <2>1. /\ Local(r).kind = "send" /\ Idle(r)
        /\ Emit(r, DataFrame(r, Local(r).to, Local(r).message), Local(r).next)
    BY <1>2 DEF EmitData
  <2>2. /\ ~Terminal(Conv.states[machine[r].current])
        /\ Actor(Conv.states[machine[r].current]) = r
    BY <1>1, <2>1 DEF Emitting
  <2>3. DataFrame(r, Local(r).to, Local(r).message).op # "fault"
    BY DEF DataFrame
  <2> QED BY <1>0, <2>1, <2>2, <2>3, EmittedFrames, EmitInv
<1>3. ASSUME NEW r \in Role, NEW label \in Label, EmitSelect(r, label) PROVE SessionInv'
  <2>1. /\ Local(r).kind = "select" /\ Idle(r) /\ label \in DOMAIN Local(r).branches
        /\ Emit(r, SelectFrame(r, label), Local(r).branches[label])
    BY <1>3 DEF EmitSelect
  <2>2. /\ ~Terminal(Conv.states[machine[r].current])
        /\ Actor(Conv.states[machine[r].current]) = r
    BY <1>1, <2>1 DEF Emitting
  <2>3. SelectFrame(r, label).op # "fault"
    BY DEF SelectFrame
  <2> QED BY <1>0, <2>1, <2>2, <2>3, EmittedFrames, EmitInv
<1>4. ASSUME NEW r \in Role, EmitCancel(r) PROVE SessionInv'
  <2>1. /\ Local(r).kind = "send_cancel" /\ Idle(r)
        /\ Emit(r, CancelFrame(r, Local(r).to, Local(r).scope), Local(r).next)
    BY <1>4 DEF EmitCancel
  <2>2. /\ ~Terminal(Conv.states[machine[r].current])
        /\ Actor(Conv.states[machine[r].current]) = r
    BY <1>1, <2>1 DEF Emitting
  <2>3. CancelFrame(r, Local(r).to, Local(r).scope).op # "fault"
    BY DEF CancelFrame
  <2> QED BY <1>0, <2>1, <2>2, <2>3, EmittedFrames, EmitInv
<1>5. ASSUME NEW r \in Role, NEW failure \in Failure, SendFails(r, failure)
      PROVE  SessionInv'
  <2>1. PICK e \in pending[r] : status[r] = "running" /\ ObserveFailureAt(r, e.state, failure)
    BY <1>5 DEF SendFails
  <2>2. e.state \in State /\ ~Faulted(r) /\ LeadsTo(r, e.state)
    BY <1>0 DEF TypeOK, MachineFollowsRecord, Follows, Envelope
  <2> QED BY <2>1, <2>2, FailInv
<1>6. ASSUME NEW r \in Role, NEW failure \in Failure, ReceiveFails(r, failure)
      PROVE  SessionInv'
  <2>1. /\ status[r] = "running" /\ pending[r] = {} /\ Local(r).kind \in Accepting
        /\ ObserveFailureAt(r, machine[r].current, failure)
    BY <1>6 DEF ReceiveFails, Blocked, Idle
  <2>2. machine[r].current \in State
    BY <1>0 DEF TypeOK
  <2>3. ~Terminal(Conv.states[machine[r].current])
    BY <2>1, <2>2, ProjectedKinds DEF Local
  <2>4. ~Faulted(r)
    BY <1>0, <2>3, FaultedTerminal
  <2>5. LeadsTo(r, machine[r].current)
    BY <1>0, <2>1 DEF MachineFollowsRecord, Follows
  <2>6. PICK at \in State : at = machine[r].current
    BY <2>2
  <2> QED BY <2>1, <2>4, <2>5, <2>6, FailInv
<1>7. ASSUME NEW r \in Role, Return(r) PROVE SessionInv'
  <2>1. /\ pending[r] = {} /\ IsComplete(r) /\ wire' = wire
        /\ UNCHANGED <<machine, pending, trace>>
        /\ open' = [open EXCEPT ![r] = FALSE]
        /\ status' = [status EXCEPT ![r] = "reported"]
    BY <1>7 DEF Return, Idle
  <2>2. Terminal(Conv.states[machine[r].current])
    <3>1. machine[r].current \in State
      BY <1>0 DEF TypeOK
    <3> QED BY <2>1, <3>1, ProjectedKinds DEF IsComplete, Local
  <2> QED BY <2>1, <2>2, LeaveInv
<1>8. ASSUME NEW r \in Role, Crash(r) PROVE SessionInv'
  <2>1. /\ CutWire(r)
        /\ UNCHANGED <<machine, pending, trace>>
        /\ open' = [open EXCEPT ![r] = FALSE]
        /\ status' = [status EXCEPT ![r] = "crashed"]
    BY <1>8 DEF Crash
  <2> QED BY <2>1, LeaveInv
<1>9. CASE UNCHANGED vars
  <2>0. /\ machine' = machine /\ pending' = pending /\ wire' = wire
        /\ trace' = trace /\ open' = open /\ status' = status
    BY <1>9 DEF vars
  <2>a. /\ TypeOK /\ RecordsAreWalks /\ MachineFollowsRecord /\ CommonHistory
        /\ InFlightIsUnseen /\ AheadInOwnTurn /\ StatusOK /\ NoFrameRejected
    BY DEF SessionInv
  <2>b. \A r : Faulted(r)' = Faulted(r) /\ Exchanged(r)' = Exchanged(r)
    BY <2>0 DEF Exchanged, Faulted
  <2>1. TypeOK'
    BY <2>0, <2>a DEF TypeOK
  <2>2. RecordsAreWalks'
    BY <2>0, <2>a, <2>b DEF RecordsAreWalks, EntryOK, StepOf
  <2>3. MachineFollowsRecord'
    BY <2>0, <2>a, <2>b, ZenonT(30) DEF MachineFollowsRecord, Follows, LeadsTo, StepOf
  <2>4. CommonHistory'
    BY <2>0, <2>a, <2>b DEF CommonHistory
  <2>5. InFlightIsUnseen'
    BY <2>0, <2>a, <2>b DEF InFlightIsUnseen
  <2>6. AheadInOwnTurn'
    BY <2>0, <2>a, <2>b DEF AheadInOwnTurn
  <2>7. StatusOK' /\ NoFrameRejected'
    BY <2>0, <2>a, <2>b DEF StatusOK, NoFrameRejected
  <2> QED
    BY <2>1, <2>2, <2>3, <2>4, <2>5, <2>6, <2>7 DEF SessionInv
<1> QED
  BY <1>2, <1>3, <1>4, <1>5, <1>6, <1>7, <1>8, <1>9, SendInv, ReceiveInv DEF Next

\* The inductive invariant holds of every session.
THEOREM SessionInvariant == Spec => []SessionInv
<1> QED
  BY InitInv, StepInv, PTL DEF Spec

\* Types are respected.
THEOREM TypeCorrect == Spec => []TypeOK
<1>1. SessionInv => TypeOK
  BY DEF SessionInv
<1> QED
  BY <1>1, SessionInvariant, PTL

-----------------------------------------------------------------------------
(***************************************************************************)
(* What follows from the invariant.                                        *)
(***************************************************************************)

\* accept never refuses a frame of an honest peer.
THEOREM NoFrameIsRejected == Spec => []NoFrameRejected
<1>1. SessionInv => NoFrameRejected
  BY DEF SessionInv
<1> QED
  BY <1>1, SessionInvariant, PTL

\* The two recorded traces agree wherever both have an entry.
THEOREM TracesAgree == Spec => []CommonHistory
<1>1. SessionInv => CommonHistory
  BY DEF SessionInv
<1> QED
  BY <1>1, SessionInvariant, PTL

\* The transport holds exactly what was sent and not yet received.
THEOREM WireHoldsTheUnseen == Spec => []InFlightIsUnseen
<1>1. SessionInv => InFlightIsUnseen
  BY DEF SessionInv
<1> QED
  BY <1>1, SessionInvariant, PTL

\* A role whose peer has recorded more is at the state the peer's next entry was
\* emitted at, where the turn is the peer's.
LEMMA BehindIsWaiting ==
  ASSUME SessionInv, NEW r \in Role, Exchanged(r) > Exchanged(Peer(r))
  PROVE  /\ wire[Peer(r)] = <<>> /\ pending[Peer(r)] = {}
         /\ Local(Peer(r)).kind \notin Emitting
<1> DEFINE p == Peer(r)
           s == machine[p].current
<1>0. /\ TypeOK /\ RecordsAreWalks /\ MachineFollowsRecord /\ CommonHistory
      /\ InFlightIsUnseen /\ AheadInOwnTurn
      /\ p \in Role /\ Peer(p) = r /\ p # r
  BY PeerFacts DEF SessionInv
<1>1. Exchanged(r) \in Nat /\ Exchanged(p) \in Nat
  BY <1>0, ExchangedFacts
<1>2. pending[p] = {}
  BY <1>0 DEF AheadInOwnTurn
<1>3. wire[p] = <<>>
  BY <1>0, <1>1, NothingInFlight
<1>4. s \in State
  BY <1>0 DEF TypeOK
<1>5. Terminal(Conv.states[s]) \/ Actor(Conv.states[s]) = r
  <2>1. CASE Faulted(p)
    BY <1>0, <2>1, FaultedTerminal
  <2>2. CASE ~Faulted(p)
    <3>1. LeadsTo(p, s)
      BY <1>0, <1>2, <2>2 DEF MachineFollowsRecord, Follows
    <3>2. trace[r][Exchanged(p) + 1].state = s
      BY <1>0, <2>2, <3>1, SamePosition
    <3>3. Actor(Conv.states[trace[r][Exchanged(p) + 1].state]) = r
      BY <1>0, <1>1 DEF AheadInOwnTurn
    <3> QED BY <3>2, <3>3
  <2> QED BY <2>1, <2>2
<1>6. Local(p).kind \notin Emitting
  BY <1>0, <1>4, <1>5, ProjectedKinds DEF Local
<1> QED
  BY <1>2, <1>3, <1>6

\* A role that has a step prepared is level with its peer, at a state whose
\* turn is its own, or ahead of it; with frames in flight it is ahead.
LEMMA HalfDuplexHolds == SessionInv => HalfDuplex
<1> SUFFICES ASSUME SessionInv, NEW r \in Role,
                    wire[r] # <<>> \/ pending[r] # {}
             PROVE  /\ wire[Peer(r)] = <<>> /\ pending[Peer(r)] = {}
                    /\ Local(Peer(r)).kind \notin Emitting
  BY DEF HalfDuplex
<1> DEFINE p == Peer(r)
           s == machine[p].current
<1>0. /\ TypeOK /\ RecordsAreWalks /\ MachineFollowsRecord /\ CommonHistory
      /\ InFlightIsUnseen /\ AheadInOwnTurn
      /\ p \in Role /\ Peer(p) = r /\ p # r
  BY PeerFacts DEF SessionInv
<1>1. Exchanged(r) \in Nat /\ Exchanged(p) \in Nat
  BY <1>0, ExchangedFacts
<1>2. CASE Exchanged(r) > Exchanged(p)
  BY <1>2, BehindIsWaiting
<1>3. CASE ~(Exchanged(r) > Exchanged(p))
  <2>1. wire[r] = <<>> /\ pending[r] # {}
    BY <1>0, <1>1, <1>3, NothingInFlight
  <2>2. Exchanged(p) = Exchanged(r)
    BY <1>0, <1>1, <1>3, <2>1 DEF AheadInOwnTurn
  <2>3. wire[p] = <<>>
    BY <1>0, <1>1, <2>2, NothingInFlight
  \* Whoever has a step prepared took it at a state whose turn was its own.
  <2>4. ASSUME NEW q \in Role, pending[q] # {}
        PROVE  ~Faulted(q) /\ \E e \in pending[q] :
                 LeadsTo(q, e.state) /\ Actor(Conv.states[e.state]) = q
    BY <1>0, <2>4 DEF MachineFollowsRecord, Follows
  <2>5. PICK e \in pending[r] :
          LeadsTo(r, e.state) /\ Actor(Conv.states[e.state]) = r
    BY <2>1, <2>4
  <2>6. ~Faulted(r)
    BY <2>1, <2>4
  <2>7. pending[p] = {}
    <3> SUFFICES ASSUME pending[p] # {} PROVE FALSE
      OBVIOUS
    <3>1. ~Faulted(p)
      BY <1>0, <2>4
    <3>2. PICK d \in pending[p] :
            LeadsTo(p, d.state) /\ Actor(Conv.states[d.state]) = p
      BY <1>0, <2>4
    <3>3. e.state = d.state
      BY <1>0, <2>2, <2>5, <2>6, <3>1, <3>2, SamePosition
    <3> QED BY <1>0, <2>5, <3>2, <3>3
  <2>8. s \in State
    BY <1>0 DEF TypeOK
  <2>9. Terminal(Conv.states[s]) \/ Actor(Conv.states[s]) = r
    <3>1. CASE Faulted(p)
      BY <1>0, <3>1, FaultedTerminal
    <3>2. CASE ~Faulted(p)
      <4>1. LeadsTo(p, s)
        BY <1>0, <2>7, <3>2 DEF MachineFollowsRecord, Follows
      <4>2. e.state = s
        BY <1>0, <2>2, <2>5, <2>6, <3>2, <4>1, SamePosition
      <4> QED BY <2>5, <4>2
    <3> QED BY <3>1, <3>2
  <2>10. Local(p).kind \notin Emitting
    BY <1>0, <2>8, <2>9, ProjectedKinds DEF Local
  <2> QED BY <2>3, <2>7, <2>10
<1> QED
  BY <1>2, <1>3

\* Only one role at a time has frames in flight or the turn to emit.
THEOREM HalfDuplexAlways == Spec => []HalfDuplex
BY SessionInvariant, HalfDuplexHolds, PTL

\* With nothing in flight both are at the same state, which has one actor.
LEMMA NoMutualWaitHolds == SessionInv => NoMutualWait
<1> SUFFICES ASSUME SessionInv, NEW r \in Role,
                    Blocked(r), wire[Peer(r)] = <<>>,
                    Blocked(Peer(r)), wire[r] = <<>>
             PROVE  FALSE
  BY DEF NoMutualWait
<1> DEFINE p == Peer(r)
<1>0. /\ TypeOK /\ RecordsAreWalks /\ MachineFollowsRecord /\ CommonHistory
      /\ InFlightIsUnseen /\ StatusOK
      /\ p \in Role /\ Peer(p) = r /\ p # r
      /\ \A q \in Role : q = r \/ q = p
  BY PeerFacts DEF SessionInv
\* A blocked role is at a live state that the other must move out of.
<1>1. ASSUME NEW q \in Role, Blocked(q)
      PROVE  /\ ~Faulted(q) /\ open[q]
             /\ LeadsTo(q, machine[q].current)
             /\ ~Terminal(Conv.states[machine[q].current])
             /\ Actor(Conv.states[machine[q].current]) \in Role \ {q}
  <2>1. machine[q].current \in State
    BY <1>0 DEF TypeOK
  <2>2. status[q] = "running" /\ pending[q] = {} /\ Local(q).kind \in Accepting
    BY <1>1 DEF Blocked, Idle
  <2>3. /\ ~Terminal(Conv.states[machine[q].current])
        /\ Actor(Conv.states[machine[q].current]) \in Role \ {q}
    BY <2>1, <2>2, ProjectedKinds DEF Local
  <2>4. ~Faulted(q)
    BY <1>0, <2>3, FaultedTerminal
  <2>5. open[q]
    BY <1>0, <2>2, <2>4 DEF StatusOK
  <2>6. LeadsTo(q, machine[q].current)
    BY <1>0, <2>2 DEF MachineFollowsRecord, Follows
  <2> QED BY <2>3, <2>4, <2>5, <2>6
<1>2. Exchanged(r) \in Nat /\ Exchanged(p) \in Nat
  BY <1>0, ExchangedFacts
<1>3. Len(wire[r]) = 0 /\ Len(wire[p]) = 0
  OBVIOUS
<1>4. Exchanged(r) = Exchanged(p)
  <2>1. ~(Exchanged(r) > Exchanged(p))
    BY <1>0, <1>1, <1>2, <1>3 DEF InFlightIsUnseen
  <2>2. ~(Exchanged(p) > Exchanged(r))
    BY <1>0, <1>1, <1>2, <1>3 DEF InFlightIsUnseen
  <2> QED BY <1>2, <2>1, <2>2
<1>5. machine[r].current = machine[p].current
  BY <1>0, <1>1, <1>4, SamePosition
<1> QED
  BY <1>0, <1>1, <1>5

\* Two live workers are never both waiting for a frame.
THEOREM NoDeadlockOnTurns == Spec => []NoMutualWait
BY SessionInvariant, NoMutualWaitHolds, PTL

\* Both at a terminal state: neither can be ahead of the other in its turn.
LEMMA ReportsAgreeHolds == SessionInv => ReportsAgree
<1> SUFFICES ASSUME SessionInv,
                    \A r \in Role : status[r] = "reported" /\ ~Faulted(r),
                    NEW r \in Role
             PROVE  /\ trace[r] = trace[Peer(r)]
                    /\ machine[r].current = machine[Peer(r)].current
  BY DEF ReportsAgree
<1> DEFINE p == Peer(r)
<1>0. /\ TypeOK /\ RecordsAreWalks /\ MachineFollowsRecord /\ CommonHistory
      /\ StatusOK /\ p \in Role /\ Peer(p) = r
  BY PeerFacts DEF SessionInv
\* A reported role has nothing left to record.
<1>1. ASSUME NEW q \in Role
      PROVE  /\ LeadsTo(q, machine[q].current)
             /\ Terminal(Conv.states[machine[q].current])
             /\ machine[q].current \in State
             /\ Exchanged(q) = Len(trace[q]) /\ Len(trace[q]) \in Nat
             /\ ~Faulted(q)
  BY <1>0, ExchangedFacts DEF StatusOK, MachineFollowsRecord, Follows, TypeOK
\* So neither record is longer: the longer one would leave a terminal state.
<1>2. ASSUME NEW q \in Role PROVE ~(Exchanged(Peer(q)) > Exchanged(q))
  <2> SUFFICES ASSUME Exchanged(Peer(q)) > Exchanged(q) PROVE FALSE
    OBVIOUS
  <2>0. Peer(q) \in Role
    BY PeerFacts
  <2>1. trace[Peer(q)][Exchanged(q) + 1].state = machine[q].current
    BY <1>0, <1>1, SamePosition
  <2>2. Exchanged(q) + 1 \in 1..Len(trace[Peer(q)])
    BY <1>1, <2>0
  <2>3. PICK e \in Envelope : e = trace[Peer(q)][Exchanged(q) + 1]
    BY <1>0, <2>0, <2>2 DEF TypeOK
  <2>4. StepOf(e) # {}
    BY <1>0, <2>0, <2>2, <2>3 DEF RecordsAreWalks, EntryOK
  <2>5. e.frame \in Frame /\ e.state = machine[q].current
    BY <2>1, <2>3 DEF Envelope
  <2> QED BY <1>1, <2>4, <2>5, TerminalFacts DEF StepOf
<1>3. Exchanged(r) = Exchanged(p)
  BY <1>0, <1>1, <1>2
<1>4. machine[r].current = machine[p].current
  BY <1>0, <1>1, <1>3, SamePosition
<1>5. trace[r] = trace[p]
  <2>1. trace[r] \in Seq(Envelope) /\ trace[p] \in Seq(Envelope)
    BY <1>0 DEF TypeOK
  <2>2. Len(trace[r]) = Len(trace[p])
    BY <1>0, <1>1, <1>3
  <2>3. \A i \in 1..Len(trace[r]) : trace[r][i] = trace[p][i]
    BY <1>0, <1>1, <1>3 DEF CommonHistory
  <2> QED BY <2>1, <2>2, <2>3
<1> QED
  BY <1>4, <1>5

\* Two fault-free reports of a session are equal.
THEOREM ReportsAlwaysAgree == Spec => []ReportsAgree
BY SessionInvariant, ReportsAgreeHolds, PTL

\* The body of AbortIsFinal for one role and one step.
AbortedStays(r) ==
  /\ ~open'[r]
  /\ Len(wire'[r]) <= Len(wire[r])
  /\ trace'[r] = trace[r]
  /\ machine'[r] = machine[r]

\* A role without a transport has nothing to emit, to send or to receive.
LEMMA AbortedIsIdle ==
  ASSUME SessionInv, NEW r \in Role, ~open[r], status[r] = "running"
  PROVE  pending[r] = {} /\ Local(r).kind \notin Emitting \cup Accepting
<1>0. TypeOK /\ RecordsAreWalks /\ MachineFollowsRecord /\ StatusOK
  BY DEF SessionInv
<1>1. Faulted(r)
  BY <1>0 DEF StatusOK
<1>2. pending[r] = {} /\ Terminal(Conv.states[machine[r].current])
  BY <1>0, <1>1, FaultedTerminal
<1>3. machine[r].current \in State
  BY <1>0 DEF TypeOK
<1> QED
  BY <1>2, <1>3, ProjectedKinds DEF Local

\* No step of either worker gives an aborted role anything to add.
LEMMA AbortStep ==
  ASSUME SessionInv, Next, NEW r \in Role, ~open[r]
  PROVE  AbortedStays(r)
<1>0. TypeOK
  BY DEF SessionInv
<1>1. PICK q \in Role :
        \/ EmitData(q) \/ (\E label \in Label : EmitSelect(q, label)) \/ EmitCancel(q)
        \/ SendSucceeds(q)
        \/ (\E failure \in Failure : SendFails(q, failure) \/ ReceiveFails(q, failure))
        \/ Receive(q) \/ Return(q) \/ Crash(q)
  BY DEF Next
<1>2. wire[r] \in Seq(Envelope) /\ Len(wire[r]) \in Nat
  BY <1>0 DEF TypeOK
<1>3. status[r] = "running" =>
        pending[r] = {} /\ Local(r).kind \notin Emitting \cup Accepting
  BY AbortedIsIdle
<1>4. CASE EmitData(q) \/ (\E label \in Label : EmitSelect(q, label)) \/ EmitCancel(q)
  <2>1. status[q] = "running" /\ Local(q).kind \in Emitting
    BY <1>4 DEF EmitData, EmitSelect, EmitCancel, Idle, Emitting
  <2>2. q # r
    BY <1>3, <2>1
  <2>3. PICK next, seq : machine' = [machine EXCEPT ![q] = [current |-> next, sequence |-> seq]]
    BY <1>4 DEF EmitData, EmitSelect, EmitCancel, Emit
  <2>4. UNCHANGED <<wire, trace, open>>
    BY <1>4 DEF EmitData, EmitSelect, EmitCancel, Emit
  <2> QED BY <1>0, <1>2, <2>2, <2>3, <2>4 DEF AbortedStays, TypeOK
<1>5. CASE SendSucceeds(q)
  <2>1. status[q] = "running" /\ pending[q] # {} /\ UNCHANGED <<machine, open>>
    BY <1>5 DEF SendSucceeds
  <2>2. q # r
    BY <1>3, <2>1
  <2>3. PICK e : /\ wire' = [wire EXCEPT ![q] = Append(wire[q], e)]
                 /\ trace' = [trace EXCEPT ![q] = Append(trace[q], e)]
    BY <1>5 DEF SendSucceeds
  <2> QED BY <1>0, <1>2, <2>1, <2>2, <2>3 DEF AbortedStays, TypeOK
<1>6. ASSUME NEW failure \in Failure, SendFails(q, failure) \/ ReceiveFails(q, failure)
      PROVE  AbortedStays(r)
  <2>1. q # r
    BY <1>3, <1>6 DEF SendFails, ReceiveFails, Blocked, Idle
  <2>2. PICK at : ObserveFailureAt(q, at, failure)
    BY <1>6 DEF SendFails, ReceiveFails
  <2>3. open' = [open EXCEPT ![q] = FALSE] /\ CutWire(q)
    BY <2>2 DEF ObserveFailureAt
  <2>4. wire'[r] = wire[r]
    BY <1>0, <2>1, <2>3, CutFacts
  <2>5. machine'[r] = machine[r] /\ trace'[r] = trace[r]
    BY <1>0, <2>1, <2>2 DEF ObserveFailureAt, TypeOK
  <2> QED BY <1>0, <1>2, <2>1, <2>3, <2>4, <2>5 DEF AbortedStays, TypeOK
<1>7. CASE Receive(q)
  <2>1. q # r
    BY <1>3, <1>7 DEF Receive, Blocked, Idle
  <2>2. Peer(q) = r
    BY <2>1, PeerFacts
  <2>3. wire[r] # <<>> /\ wire' = [wire EXCEPT ![r] = Tail(wire[r])]
    BY <1>7, <2>2 DEF Receive
  <2>4. Len(wire'[r]) <= Len(wire[r])
    BY <1>0, <1>2, <2>3 DEF TypeOK
  <2>5. /\ machine'[r] = machine[r] /\ trace'[r] = trace[r]
        /\ open'[r] = open[r]
    BY <1>0, <1>7, <2>1 DEF Receive, TypeOK
  <2> QED BY <2>4, <2>5 DEF AbortedStays
<1>8. CASE Return(q)
  BY <1>0, <1>2, <1>8 DEF Return, AbortedStays, TypeOK
<1>9. CASE Crash(q)
  <2>1. open' = [open EXCEPT ![q] = FALSE] /\ CutWire(q) /\ UNCHANGED <<machine, trace>>
    BY <1>9 DEF Crash
  <2>2. Len(wire'[r]) <= Len(wire[r])
    <3>1. CASE q = r
      BY <1>0, <2>1, <3>1, CutFacts
    <3>2. CASE q # r
      <4>1. wire'[r] = wire[r]
        BY <1>0, <2>1, <3>2, CutFacts
      <4> QED BY <1>2, <4>1
    <3> QED BY <3>1, <3>2
  <2> QED BY <1>0, <2>1, <2>2 DEF AbortedStays, TypeOK
<1> QED
  BY <1>1, <1>4, <1>5, <1>6, <1>7, <1>8, <1>9

\* After a role has aborted its transport it sends, records and moves no more.
THEOREM AbortIsFinalAlways == Spec => AbortIsFinal
<1>1. SessionInv /\ [Next]_vars =>
        [\A r \in Role : ~open[r] =>
            /\ ~open'[r]
            /\ Len(wire'[r]) <= Len(wire[r])
            /\ trace'[r] = trace[r]
            /\ machine'[r] = machine[r]]_vars
  BY AbortStep DEF AbortedStays
<1> QED
  BY <1>1, SessionInvariant, PTL DEF Spec, AbortIsFinal

-----------------------------------------------------------------------------
(***************************************************************************)
(* verify_trace walks a record as the role itself did.                     *)
(***************************************************************************)
\* Induction on the natural numbers, for a set.
LEMMA NatSet ==
  ASSUME NEW S, 0 \in S, \A n \in Nat : n \in S => n + 1 \in S
  PROVE  Nat \subseteq S
<1> DEFINE T == Nat \ S
<1> SUFFICES ASSUME T # {} PROVE FALSE
  OBVIOUS
<1>1. \E x \in T : \A y \in T : ~(<<y, x>> \in OpToRel(<, Nat))
  <2>1. T \subseteq Nat
    OBVIOUS
  <2> QED BY <2>1, NatLessThanWellFounded, WFMin, Zenon
<1>2. PICK x \in T : \A y \in T : ~(<<y, x>> \in OpToRel(<, Nat))
  BY <1>1
<1>3. \A y \in T : ~(y < x)
  BY <1>2, Zenon DEF OpToRel
<1>4. x # 0 /\ x \in Nat /\ x - 1 \in Nat /\ x - 1 < x
  OBVIOUS
<1>5. x - 1 \in S
  BY <1>3, <1>4
<1> QED BY <1>4, <1>5

\* The walk of verify_trace, from the records: before entry n + 1 it is at the state
\* that entry was recorded at.
LEMMA WalkOfRecord ==
  ASSUME TypeOK, RecordsAreWalks, NEW r \in Role, NEW s, LeadsTo(r, s)
  PROVE  VerifyTrace(Conv, [i \in 1..Len(trace[r]) |-> trace[r][i].frame]) = {s}
<1> DEFINE t == trace[r]
           N == Len(t)
           F == [i \in 1..N |-> t[i].frame]
           W == [n \in 0..N |-> IF n = 0 THEN {Conv.initial} ELSE StepOf(t[n])]
           Eqn(f) == f = [n \in 0..Len(F) |->
                            IF n = 0 THEN {Conv.initial}
                            ELSE UNION {TraceStep(Conv, x, F[n]) : x \in f[n - 1]}]
<1>1. t \in Seq(Envelope) /\ N \in Nat /\ (t = <<>> <=> N = 0)
  BY DEF TypeOK
<1>2. Len(F) = N /\ \A n \in 1..N : F[n] = t[n].frame
  BY <1>1
<1> HIDE DEF t, N, F
<1>3. \A n \in 1..N : W[n - 1] = {t[n].state}
  <2> TAKE n \in 1..N
  <2>1. CASE n = 1
    BY <1>1, <2>1 DEF RecordsAreWalks, EntryOK, t, N
  <2>2. CASE n # 1
    <3>1. n - 1 \in 1..N /\ n - 1 < N /\ (n - 1) + 1 = n /\ n - 1 # 0 /\ n - 1 \in 0..N
      BY <1>1, <2>2
    <3>2. StepOf(t[n - 1]) = {t[n].state}
      BY <3>1 DEF RecordsAreWalks, EntryOK, t, N
    <3> QED BY <3>1, <3>2
  <2> QED BY <2>1, <2>2
<1>4. \A n \in 1..N : UNION {TraceStep(Conv, x, F[n]) : x \in {t[n].state}} = StepOf(t[n])
  BY <1>2 DEF StepOf
<1>5. Eqn(W)
  <2>1. \A n \in 0..N : W[n] = IF n = 0 THEN {Conv.initial}
                               ELSE UNION {TraceStep(Conv, x, F[n]) : x \in W[n - 1]}
    <3> TAKE n \in 0..N
    <3>1. CASE n = 0
      BY <1>1, <3>1
    <3>2. CASE n # 0
      <4>1. n \in 1..N /\ W[n] = StepOf(t[n])
        BY <1>1, <3>2
      <4> QED BY <1>3, <1>4, <3>2, <4>1
    <3> QED BY <3>1, <3>2
  <2> QED BY <1>2, <2>1
<1> DEFINE at == CHOOSE f : Eqn(f)
<1>6. Eqn(at)
  BY <1>5
<1>7. VerifyTrace(Conv, F) = at[N]
  BY <1>2 DEF VerifyTrace
<1> HIDE DEF at, W, Eqn
<1>8. \A n \in 0..N : W[n] = IF n = 0 THEN {Conv.initial} ELSE StepOf(t[n])
  BY DEF W
<1>9. \A n \in 0..N : at[n] = IF n = 0 THEN {Conv.initial}
                              ELSE UNION {TraceStep(Conv, x, F[n]) : x \in at[n - 1]}
  BY <1>2, <1>6 DEF Eqn
<1>10. \A n \in 0..N : at[n] = W[n]
  <2> DEFINE S == {n \in Nat : n \in 0..N => at[n] = W[n]}
  <2>1. 0 \in S
    BY <1>8, <1>9
  <2>2. \A n \in Nat : n \in S => n + 1 \in S
    <3> SUFFICES ASSUME NEW n \in Nat, n \in S, n + 1 \in 0..N PROVE at[n + 1] = W[n + 1]
      OBVIOUS
    <3>1. n \in 0..N /\ n + 1 \in 1..N /\ n + 1 # 0 /\ (n + 1) - 1 = n
      BY <1>1
    <3>2. at[n] = {t[n + 1].state}
      BY <1>3, <3>1
    <3>3. at[n + 1] = UNION {TraceStep(Conv, x, F[n + 1]) : x \in {t[n + 1].state}}
      BY <1>9, <3>1, <3>2
    <3> QED BY <1>4, <1>8, <3>1, <3>3
  <2> HIDE DEF S
  <2>3. Nat \subseteq S
    BY <2>1, <2>2, NatSet
  <2> QED BY <1>1, <2>3 DEF S
<1>11. at[N] = {s}
  <2>1. N \in 0..N
    BY <1>1
  <2> QED BY <1>1, <1>8, <1>10, <2>1 DEF LeadsTo, t, N
<1> QED BY <1>7, <1>11 DEF F, N, t

\* What a role records is a trace that verify_trace accepts, and it ends where the
\* role is, at every moment of every session.
THEOREM TraceAlwaysVerifies == Spec => []TraceVerifies
<1>1. SessionInv => TraceVerifies
  <2> SUFFICES ASSUME SessionInv, NEW r \in Role
               PROVE  VerifyTrace(Conv, [i \in 1..Len(trace[r]) |-> trace[r][i].frame])
                        = IF pending[r] = {} THEN {machine[r].current}
                          ELSE {e.state : e \in pending[r]}
    BY DEF TraceVerifies
  <2>0. TypeOK /\ RecordsAreWalks /\ Follows(r)
    BY DEF SessionInv, MachineFollowsRecord
  <2>1. CASE pending[r] = {}
    <3>1. LeadsTo(r, machine[r].current)
      BY <2>0, <2>1 DEF Follows
    <3> QED BY <2>0, <2>1, <3>1, WalkOfRecord
  <2>2. CASE pending[r] # {}
    <3>1. PICK e \in pending[r] : pending[r] = {e} /\ LeadsTo(r, e.state)
      BY <2>0, <2>2 DEF Follows
    <3>2. {d.state : d \in pending[r]} = {e.state}
      BY <3>1
    <3> QED BY <2>0, <2>2, <3>1, <3>2, WalkOfRecord
  <2> QED BY <2>1, <2>2
<1> QED BY <1>1, SessionInvariant, PTL

-----------------------------------------------------------------------------
(***************************************************************************)
(* What a step does to the records.                                        *)
(***************************************************************************)
\* Nothing is recorded; a worker may stop.
Quiet ==
  /\ trace' = trace
  /\ \/ status' = status
     \/ \E r \in Role : /\ status[r] = "running"
                        /\ \/ status' = [status EXCEPT ![r] = "reported"]
                           \/ status' = [status EXCEPT ![r] = "undeclared"]
                           \/ status' = [status EXCEPT ![r] = "crashed"]

\* Role r records a frame e it has sent or received.
Records(r, e) ==
  /\ status[r] = "running" /\ ~Faulted(r)
  /\ e \in Envelope /\ e.frame.op # "fault"
  /\ LeadsTo(r, e.state)
  /\ \/ /\ pending[r] = {e}
        /\ Actor(Conv.states[e.state]) = r /\ StepOf(e) # {}
     \/ Exchanged(r) < Exchanged(Peer(r)) /\ e = trace[Peer(r)][Exchanged(r) + 1]
  /\ trace' = [trace EXCEPT ![r] = Append(trace[r], e)]
  /\ pending'[r] = {}
  /\ status' = status

\* Role r records a failure that the state it is at declares.
Faults(r, at, failure) ==
  /\ status[r] = "running" /\ ~Faulted(r)
  /\ at \in State /\ failure \in Failure
  /\ LeadsTo(r, at)
  /\ FailureTarget(Conv.states[at], failure) # {}
  /\ trace' = [trace EXCEPT ![r] =
       Append(trace[r], [state |-> at, sequence |-> Len(trace[r]),
                         frame |-> FaultFrame(r, failure)])]
  /\ status' = status
  /\ machine'[r].sequence = IF machine[r].current = at THEN machine[r].sequence + 1
                            ELSE machine[r].sequence
  /\ \/ pending[r] = {} /\ machine[r].current = at
     \/ \E e \in pending[r] : e.state = at

\* observe_failure_at either records the failure or ends the worker.
LEMMA ObserveRecords ==
  ASSUME SessionInv, NEW r \in Role, NEW at \in State, NEW failure \in Failure,
         status[r] = "running", ~Faulted(r), LeadsTo(r, at),
         \/ pending[r] = {} /\ machine[r].current = at
         \/ \E e \in pending[r] : e.state = at,
         ObserveFailureAt(r, at, failure)
  PROVE  Quiet \/ Faults(r, at, failure)
<1>0. TypeOK
  BY DEF SessionInv
<1> DEFINE target == EndpointFailureTarget(ProjectState(Conv.states[at], r), failure)
<1>1. target = FailureTarget(Conv.states[at], failure)
  BY ProjectedFailures
<1> HIDE DEF target
<1>2. \/ /\ target = {}
         /\ status' = [status EXCEPT ![r] = "undeclared"]
         /\ UNCHANGED <<machine, pending, trace>>
      \/ \E next \in target :
           /\ pending' = [pending EXCEPT ![r] = {}]
           /\ machine' = [machine EXCEPT ![r] =
                [current |-> next,
                 sequence |-> IF machine[r].current = at
                                THEN machine[r].sequence + 1
                                ELSE machine[r].sequence]]
           /\ trace' = [trace EXCEPT ![r] =
                Append(trace[r],
                       [state |-> at, sequence |-> Len(trace[r]),
                        frame |-> FaultFrame(r, failure)])]
           /\ UNCHANGED status
  BY DEF ObserveFailureAt, target
<1>3. CASE target = {} /\ status' = [status EXCEPT ![r] = "undeclared"] /\ trace' = trace
  BY <1>3 DEF Quiet
<1>4. ASSUME NEW next \in target,
             machine' = [machine EXCEPT ![r] =
                [current |-> next,
                 sequence |-> IF machine[r].current = at
                                THEN machine[r].sequence + 1
                                ELSE machine[r].sequence]],
             trace' = [trace EXCEPT ![r] =
                Append(trace[r],
                       [state |-> at, sequence |-> Len(trace[r]),
                        frame |-> FaultFrame(r, failure)])],
             status' = status
      PROVE  Faults(r, at, failure)
  <2>1. machine'[r].sequence = IF machine[r].current = at THEN machine[r].sequence + 1
                               ELSE machine[r].sequence
    BY <1>0, <1>4 DEF TypeOK
  <2> QED BY <1>1, <1>4, <2>1 DEF Faults
<1> QED BY <1>2, <1>3, <1>4

\* Every step of a session is one of the three.
LEMMA RecordSteps ==
  ASSUME SessionInv, [Next]_vars
  PROVE  \/ Quiet
         \/ \E r \in Role, e \in Envelope : Records(r, e)
         \/ \E r \in Role, at \in State, failure \in Failure : Faults(r, at, failure)
<1>0. TypeOK /\ RecordsAreWalks /\ MachineFollowsRecord
  BY DEF SessionInv
<1>1. CASE UNCHANGED vars
  BY <1>1 DEF vars, Quiet
<1>2. ASSUME NEW r \in Role,
             EmitData(r) \/ (\E label \in Label : EmitSelect(r, label)) \/ EmitCancel(r)
      PROVE  Quiet
  BY <1>2 DEF EmitData, EmitSelect, EmitCancel, Emit, Quiet
<1>3. ASSUME NEW r \in Role, SendSucceeds(r)
      PROVE  \E e \in Envelope : Records(r, e)
  <2>1. PICK e \in pending[r] : trace' = [trace EXCEPT ![r] = Append(trace[r], e)]
    BY <1>3 DEF SendSucceeds
  <2>2. /\ pending[r] = {e} /\ ~Faulted(r) /\ LeadsTo(r, e.state) /\ e.frame.op # "fault"
        /\ StepOf(e) # {} /\ Actor(Conv.states[e.state]) = r
    BY <1>0 DEF MachineFollowsRecord, Follows
  <2>3. e \in Envelope /\ pending'[r] = {} /\ status' = status /\ status[r] = "running"
    BY <1>0, <1>3 DEF TypeOK, SendSucceeds
  <2> QED BY <2>1, <2>2, <2>3 DEF Records
<1>4. ASSUME NEW r \in Role, NEW failure \in Failure, SendFails(r, failure)
      PROVE  Quiet \/ \E at \in State : Faults(r, at, failure)
  <2>1. PICK e \in pending[r] : status[r] = "running" /\ ObserveFailureAt(r, e.state, failure)
    BY <1>4 DEF SendFails
  <2>2. e.state \in State /\ ~Faulted(r) /\ LeadsTo(r, e.state)
    BY <1>0 DEF TypeOK, MachineFollowsRecord, Follows, Envelope
  <2> QED BY <2>1, <2>2, ObserveRecords
<1>5. ASSUME NEW r \in Role, NEW failure \in Failure, ReceiveFails(r, failure)
      PROVE  Quiet \/ \E at \in State : Faults(r, at, failure)
  <2>1. /\ status[r] = "running" /\ pending[r] = {} /\ Local(r).kind \in Accepting
        /\ ObserveFailureAt(r, machine[r].current, failure)
    BY <1>5 DEF ReceiveFails, Blocked, Idle
  <2>2. machine[r].current \in State
    BY <1>0 DEF TypeOK
  <2>3. ~Terminal(Conv.states[machine[r].current])
    BY <2>1, <2>2, ProjectedKinds DEF Local
  <2>4. ~Faulted(r)
    BY <1>0, <2>3, FaultedTerminal
  <2>5. LeadsTo(r, machine[r].current)
    BY <1>0, <2>1 DEF MachineFollowsRecord, Follows
  <2>6. PICK at \in State : at = machine[r].current
    BY <2>2
  <2> QED BY <2>1, <2>4, <2>5, <2>6, ObserveRecords
<1>6. ASSUME NEW r \in Role, Receive(r)
      PROVE  \E e \in Envelope : Records(r, e)
  <2> DEFINE e == Head(wire[Peer(r)])
             n == Len(trace[r])
  <2>1. Blocked(r) /\ wire[Peer(r)] # <<>>
    BY <1>6 DEF Receive
  <2>2. /\ e \in Envelope /\ e = trace[Peer(r)][n + 1]
        /\ ~Faulted(r) /\ n + 1 <= Exchanged(Peer(r))
        /\ LeadsTo(r, machine[r].current)
        /\ ValidEnvelope(r, e)
        /\ e.frame.op # "fault"
        /\ AcceptTarget(Local(r), r, e.frame) # {}
    BY <2>1, HeadFacts
  <2>3. trace' = [trace EXCEPT ![r] = Append(trace[r], e)] /\ status' = status
    BY <1>6, <2>2 DEF Receive
  <2>4. status[r] = "running" /\ pending'[r] = {}
    BY <1>6, <2>1 DEF Receive, Blocked, Idle
  <2>5. Exchanged(r) = n /\ n \in Nat /\ Exchanged(Peer(r)) \in Nat
    BY <1>0, <2>2, ExchangedFacts, PeerFacts
  <2>6. LeadsTo(r, e.state)
    BY <2>2 DEF ValidEnvelope
  <2> HIDE DEF e, n
  <2>7. Exchanged(r) < Exchanged(Peer(r)) /\ e = trace[Peer(r)][Exchanged(r) + 1]
    BY <2>2, <2>5
  <2>8. Records(r, e)
    BY <2>2, <2>3, <2>4, <2>6, <2>7 DEF Records
  <2> QED BY <2>2, <2>8
<1>7. ASSUME NEW r \in Role, Return(r) \/ Crash(r) PROVE Quiet
  BY <1>7 DEF Return, Crash, Idle, Quiet
<1> QED
  BY <1>1, <1>2, <1>3, <1>4, <1>5, <1>6, <1>7 DEF Next

-----------------------------------------------------------------------------
(***************************************************************************)
(* The frame count.                                                        *)
(***************************************************************************)
\* A step of verify_trace that is no failure goes to a successor.
LEMMA StepToSuccessor ==
  ASSUME NEW s \in State, NEW f \in Frame, f.op # "fault", NEW t \in TraceStep(Conv, s, f)
  PROVE  t \in Successors(Conv.states[s])
<1> DEFINE g == Conv.states[s]
<1>1. \/ f.op = "data" /\ g.kind = "send" /\ t = g.next
      \/ f.op = "cancel" /\ g.kind = "cancel" /\ t = g.next
      \/ /\ f.op = "select" /\ g.kind = "choice"
         /\ f.label \in DOMAIN g.branches /\ t = g.branches[f.label]
  BY DEF TraceStep, Only
<1> HIDE DEF g
<1>2. t \in Successors(g)
  BY <1>1 DEF Successors
<1> QED BY <1>2 DEF g

\* The exception of SequenceCountsTrace, for one role.
CountOK(r) ==
  Faulted(r) =>
    \/ machine[r].sequence = Len(trace[r])
    \/ /\ machine[r].sequence = Len(trace[r]) + 1
       /\ LET s == trace[r][Len(trace[r])].state IN s \in Successors(Conv.states[s])

CountInv == \A r \in Role : CountOK(r)

\* A failed send that is counted twice was emitted at a state that leads to itself.
LEMMA CountStep == SessionInv /\ CountInv /\ [Next]_vars => CountInv'
<1> SUFFICES ASSUME SessionInv, CountInv, [Next]_vars, NEW q \in Role PROVE CountOK(q)'
  BY DEF CountInv
<1>0. TypeOK /\ MachineFollowsRecord /\ StatusOK
  BY DEF SessionInv
<1>1. CASE Faulted(q)
  <2>1. ~open[q]
    BY <1>0, <1>1 DEF StatusOK
  <2>2. trace'[q] = trace[q] /\ machine'[q] = machine[q]
    BY <2>1, AbortStep DEF AbortedStays, vars
  <2> QED BY <1>1, <2>2 DEF CountInv, CountOK, Faulted
<1>2. CASE trace'[q] = trace[q] /\ ~Faulted(q)
  BY <1>2 DEF CountOK, Faulted
<1>3. ASSUME NEW r \in Role, NEW e \in Envelope, Records(r, e), ~Faulted(q)
      PROVE  CountOK(q)'
  <2>1. /\ Faulted(r)' <=> e.frame.op = "fault"
        /\ \A p \in Role : p # r => trace'[p] = trace[p]
    BY <1>0, <1>3, RecordFacts DEF Records
  <2>2. CASE q = r
    BY <1>3, <2>1, <2>2 DEF CountOK, Records
  <2> QED BY <1>2, <1>3, <2>1, <2>2
<1>4. ASSUME NEW r \in Role, NEW at \in State, NEW failure \in Failure,
             Faults(r, at, failure), ~Faulted(q)
      PROVE  CountOK(q)'
  <2> DEFINE e == [state |-> at, sequence |-> Len(trace[r]), frame |-> FaultFrame(r, failure)]
             n == Len(trace[r])
  <2>1. e \in Envelope /\ e.state = at /\ n \in Nat
    BY <1>0 DEF TypeOK, Envelope, Frame, FaultFrame
  <2>2. trace' = [trace EXCEPT ![r] = Append(trace[r], e)]
    BY <1>4 DEF Faults
  <2> HIDE DEF e
  <2>3. /\ Len(trace'[r]) = n + 1 /\ trace'[r][n + 1] = e
        /\ \A p \in Role : p # r => trace'[p] = trace[p]
    BY <1>0, <2>1, <2>2, RecordFacts
  <2>4. CASE q # r
    BY <1>2, <1>4, <2>3, <2>4
  <2>5. CASE q = r /\ pending[r] = {} /\ machine[r].current = at
    <3>1. machine[r].sequence = n
      BY <1>0, <1>4, <2>5 DEF MachineFollowsRecord, Follows
    <3>2. machine'[r].sequence = n + 1
      BY <1>4, <2>5, <3>1 DEF Faults
    <3> QED BY <2>3, <2>5, <3>2 DEF CountOK
  <2>6. ASSUME q = r, NEW d \in pending[r], d.state = at PROVE CountOK(q)'
    <3>1. /\ machine[r].sequence = n + 1 /\ d.frame.op # "fault"
          /\ StepOf(d) = {machine[r].current} /\ d \in Envelope
      BY <1>0, <2>6 DEF MachineFollowsRecord, Follows, TypeOK
    <3>2. CASE machine[r].current # at
      <4>1. machine'[r].sequence = n + 1
        BY <1>4, <3>1, <3>2 DEF Faults
      <4> QED BY <2>3, <2>6, <4>1 DEF CountOK
    <3>3. CASE machine[r].current = at
      <4>1. machine'[r].sequence = (n + 1) + 1
        BY <1>4, <3>1, <3>3 DEF Faults
      <4>2. at \in Successors(Conv.states[at])
        BY <2>6, <3>1, <3>3, StepToSuccessor DEF StepOf, Envelope
      <4> QED BY <2>1, <2>3, <2>6, <4>1, <4>2 DEF CountOK
    <3> QED BY <3>2, <3>3
  <2> QED BY <1>4, <2>4, <2>5, <2>6 DEF Faults
<1> QED BY <1>1, <1>2, <1>3, <1>4, RecordSteps DEF Quiet

\* The count a role reports is the length of its record, except after a send that
\* failed at a state leading to itself.
THEOREM CountFollowsTrace == Spec => []SequenceCountsTrace
<1>1. Init => CountInv
  BY DEF Init, CountInv, CountOK, Faulted
<1>2. SessionInv /\ CountInv => SequenceCountsTrace
  BY DEF SessionInv, MachineFollowsRecord, Follows, CountInv, CountOK, SequenceCountsTrace
<1>3. Spec => []CountInv
  BY <1>1, CountStep, SessionInvariant, PTL DEF Spec
<1> QED BY <1>2, <1>3, SessionInvariant, PTL

-----------------------------------------------------------------------------
(***************************************************************************)
(* The refinement: what is recorded implements the shared log.             *)
(***************************************************************************)
\* The conversation means the same in both specifications.
LEMMA SameConversation ==
  /\ \A c, s, f : Log!TraceStep(c, s, f) = TraceStep(c, s, f)
  /\ \A g, f : Log!FailureTarget(g, f) = FailureTarget(g, f)
  /\ \A g : (Log!Terminal(g) <=> Terminal(g)) /\ Log!Actor(g) = Actor(g)
  /\ \A a, b, m : Log!DataFrame(a, b, m) = DataFrame(a, b, m)
  /\ \A a, l : Log!SelectFrame(a, l) = SelectFrame(a, l)
  /\ \A a, b, m : Log!CancelFrame(a, b, m) = CancelFrame(a, b, m)
  /\ Log!SharedRole = Role
BY DEF Log!TraceStep, TraceStep, Log!Only, Only, Log!FailureTarget, FailureTarget,
   Log!Terminal, Terminal, Log!Actor, Actor, Log!DataFrame, DataFrame,
   Log!SelectFrame, SelectFrame, Log!CancelFrame, CancelFrame, Log!SharedRole, Role

LogItem == [state : State, frame : Frame]

\* What one record says of the log.
LEMMA LogShape ==
  TypeOK => \A r \in Role :
    /\ LogOf(r) \in Seq(LogItem) /\ Len(LogOf(r)) = Exchanged(r) /\ Exchanged(r) \in Nat
    /\ \A i \in 1..Exchanged(r) : LogOf(r)[i] = Entry(trace[r][i])
<1> SUFFICES ASSUME TypeOK, NEW r \in Role
             PROVE  /\ LogOf(r) \in Seq(LogItem) /\ Len(LogOf(r)) = Exchanged(r)
                    /\ Exchanged(r) \in Nat
                    /\ \A i \in 1..Exchanged(r) : LogOf(r)[i] = Entry(trace[r][i])
  OBVIOUS
<1>1. Exchanged(r) \in Nat /\ Exchanged(r) <= Len(trace[r]) /\ Len(trace[r]) \in Nat
  BY ExchangedFacts
<1>2. \A i \in 1..Exchanged(r) : trace[r][i] \in Envelope
  BY <1>1 DEF TypeOK
<1>3. \A i \in 1..Exchanged(r) : Entry(trace[r][i]) \in LogItem
  BY <1>2 DEF Entry, LogItem, Envelope
<1> QED BY <1>1, <1>3 DEF LogOf

\* The longer record, or either of two of the same length, is the log.
LEMMA LogIsLonger ==
  TypeOK /\ CommonHistory =>
    /\ Ahead \in Role /\ Exchanged(Ahead) >= Exchanged(Peer(Ahead))
    /\ \A r \in Role : Exchanged(r) >= Exchanged(Peer(r)) => LogOf(Ahead) = LogOf(r)
<1> SUFFICES ASSUME TypeOK, CommonHistory
             PROVE  /\ Ahead \in Role /\ Exchanged(Ahead) >= Exchanged(Peer(Ahead))
                    /\ \A r \in Role :
                         Exchanged(r) >= Exchanged(Peer(r)) => LogOf(Ahead) = LogOf(r)
  OBVIOUS
<1>1. \A r \in Role : Exchanged(r) \in Nat
  BY ExchangedFacts
<1>2. \E r \in Role : Exchanged(r) >= Exchanged(Peer(r))
  <2>1. PICK r \in Role : TRUE
    BY ConversationAssumption DEF WellFormed, Role
  <2>2. Peer(r) \in Role /\ Peer(Peer(r)) = r
    BY PeerFacts
  <2> QED BY <1>1, <2>1, <2>2
<1>3. Ahead \in Role /\ Exchanged(Ahead) >= Exchanged(Peer(Ahead))
  BY <1>2 DEF Ahead
<1>4. ASSUME NEW r \in Role, Exchanged(r) >= Exchanged(Peer(r)) PROVE LogOf(Ahead) = LogOf(r)
  <2>1. CASE Ahead = r
    BY <2>1
  <2>2. CASE Ahead = Peer(r)
    <3>1. Peer(Ahead) = r /\ Exchanged(Ahead) = Exchanged(r)
      BY <1>1, <1>3, <1>4, <2>2, PeerFacts
    <3>2. \A i \in 1..Exchanged(r) : trace[Ahead][i] = trace[r][i]
      BY <1>1, <1>4, <2>2, <3>1 DEF CommonHistory
    <3> QED BY <3>1, <3>2 DEF LogOf
  <2> QED BY <1>3, <1>4, <2>1, <2>2, PeerFacts
<1> QED BY <1>3, <1>4

\* The same, after a step.
LEMMA LogIsLongerNext ==
  (TypeOK /\ CommonHistory)' =>
    \A r \in Role : Exchanged(r)' >= Exchanged(Peer(r))' => LogOf(Ahead)' = LogOf(r)'
<1>1. (TypeOK /\ CommonHistory =>
        /\ Ahead \in Role /\ Exchanged(Ahead) >= Exchanged(Peer(Ahead))
        /\ \A r \in Role : Exchanged(r) >= Exchanged(Peer(r)) => LogOf(Ahead) = LogOf(r))'
  BY LogIsLonger, PTL
<1> QED BY <1>1

\* A role that has recorded no fault is at the state that follows what it has read.
LEMMA WhereReadingEnds ==
  ASSUME SessionInv, NEW r \in Role, ~Faulted(r), NEW s, LeadsTo(r, s)
  PROVE  Log!After(Exchanged(r)) = {s}
<1>0. TypeOK /\ CommonHistory
  BY DEF SessionInv
<1> DEFINE n == Exchanged(r)
<1>1. /\ Len(trace[r]) = n /\ n \in Nat /\ trace[r] \in Seq(Envelope)
  BY <1>0, ExchangedFacts DEF TypeOK
<1>2. CASE n = 0
  <2>1. trace[r] = <<>>
    BY <1>1, <1>2
  <2> QED BY <1>2, <2>1 DEF LeadsTo, Log!After
<1>3. CASE n # 0
  <2>1. StepOf(trace[r][n]) = {s}
    BY <1>1, <1>3 DEF LeadsTo
  <2>2. /\ Ahead \in Role /\ Exchanged(Ahead) >= Exchanged(Peer(Ahead))
    BY <1>0, LogIsLonger
  <2>3. Exchanged(Ahead) \in Nat /\ n <= Exchanged(Ahead) /\ trace[Ahead][n] = trace[r][n]
    <3>1. CASE Ahead = r
      BY <1>1, <3>1
    <3>2. CASE Ahead # r
      <4>1. Ahead = Peer(r) /\ Peer(Ahead) = r /\ Exchanged(Ahead) \in Nat
        BY <1>0, <2>2, <3>2, PeerFacts, ExchangedFacts
      <4>2. n <= Exchanged(Ahead)
        BY <1>1, <2>2, <4>1
      <4> QED BY <1>0, <1>1, <1>3, <4>1, <4>2 DEF CommonHistory
    <3> QED BY <3>1, <3>2
  <2>4. LogOf(Ahead)[n] = Entry(trace[r][n])
    BY <1>0, <1>1, <1>3, <2>2, <2>3, LogShape
  <2>5. LogOf(Ahead)[n].state = trace[r][n].state /\ LogOf(Ahead)[n].frame = trace[r][n].frame
    BY <2>4 DEF Entry
  <2>6. Log!After(n) = TraceStep(Conv, trace[r][n].state, trace[r][n].frame)
    BY <1>3, <2>5, SameConversation DEF Log!After
  <2> QED BY <2>1, <2>6 DEF StepOf
<1> QED BY <1>2, <1>3

\* What the actor of a state records there is one of the frames the log admits.
LEMMA OfferedFrames ==
  ASSUME NEW e \in Envelope, e.frame.op # "fault", StepOf(e) # {}
  PROVE  /\ ~Terminal(Conv.states[e.state])
         /\ e.frame \in Log!Offers(e.state)
<1> DEFINE g == Conv.states[e.state]
           f == e.frame
<1>1. e.state \in State /\ f \in Frame
  BY DEF Envelope
<1>2. ~Terminal(g)
  BY <1>1, TerminalFacts DEF StepOf
<1>3. CASE f.op = "data"
  <2>1. g.kind = "send" /\ g.from = f.from /\ g.to = f.to /\ g.message = f.message
    BY <1>3 DEF StepOf, TraceStep, Only
  <2>2. f = DataFrame(f.from, f.to, f.message)
    BY <1>1, <1>3 DEF Frame, DataFrame
  <2> QED BY <1>2, <2>1, <2>2, SameConversation DEF Log!Offers
<1>4. CASE f.op = "select"
  <2>1. g.kind = "choice" /\ g.chooser = f.by /\ f.label \in DOMAIN g.branches
    BY <1>4 DEF StepOf, TraceStep, Only
  <2>2. f = SelectFrame(f.by, f.label)
    BY <1>1, <1>4 DEF Frame, SelectFrame
  <2> QED BY <1>2, <2>1, <2>2, SameConversation DEF Log!Offers
<1>5. CASE f.op = "cancel"
  <2>1. g.kind = "cancel" /\ g.from = f.from /\ g.to = f.to /\ g.scope = f.scope
    BY <1>5 DEF StepOf, TraceStep, Only
  <2>2. f = CancelFrame(f.from, f.to, f.scope)
    BY <1>1, <1>5 DEF Frame, CancelFrame
  <2> QED BY <1>2, <2>1, <2>2, SameConversation DEF Log!Offers
<1> QED BY <1>1, <1>3, <1>4, <1>5 DEF Frame

\* A step after which both roles have exchanged what they had leaves the log alone.
LEMMA LogStays ==
  ASSUME SessionInv, SessionInv',
         \A q \in Role : Exchanged(q)' = Exchanged(q),
         \A q \in Role : \A i \in 1..Exchanged(q) : trace'[q][i] = trace[q][i]
  PROVE  /\ LogOf(Ahead)' = LogOf(Ahead)
         /\ [q \in Role |-> Exchanged(q)]' = [q \in Role |-> Exchanged(q)]
<1>0. (TypeOK /\ CommonHistory) /\ (TypeOK /\ CommonHistory)'
  BY DEF SessionInv
<1>1. Ahead \in Role /\ Exchanged(Ahead) >= Exchanged(Peer(Ahead))
  BY <1>0, LogIsLonger
<1>2. PICK r \in Role : r = Ahead
  BY <1>1
<1>3. Exchanged(r)' >= Exchanged(Peer(r))'
  BY <1>1, <1>2, PeerFacts
<1>4. LogOf(Ahead)' = LogOf(r)' /\ LogOf(Ahead) = LogOf(r)
  BY <1>0, <1>2, <1>3, LogIsLongerNext
<1>5. LogOf(r)' = LogOf(r)
  BY DEF LogOf, Entry
<1> QED BY <1>4, <1>5

\* A step that records nothing: a stutter, or a role leaves.
LEMMA QuietRefines ==
  ASSUME SessionInv, SessionInv', Quiet
  PROVE  Log!SharedNext \/ UNCHANGED Log!sharedVars
<1>0. TypeOK
  BY DEF SessionInv
<1>1. trace' = trace
  BY DEF Quiet
<1>2. \A q \in Role : (Faulted(q)' <=> Faulted(q)) /\ Exchanged(q)' = Exchanged(q)
  BY <1>1, SameRecords
<1>3. /\ LogOf(Ahead)' = LogOf(Ahead)
      /\ [q \in Role |-> Exchanged(q)]' = [q \in Role |-> Exchanged(q)]
  BY <1>1, <1>2, LogStays
<1>4. ASSUME \A q \in Role : FateOf(q)' = FateOf(q)
      PROVE  UNCHANGED Log!sharedVars
  BY <1>3, <1>4 DEF Log!sharedVars
<1>5. CASE status' = status
  <2>1. \A q \in Role : FateOf(q)' = FateOf(q)
    BY <1>1, <1>2, <1>5 DEF FateOf
  <2> QED BY <1>4, <2>1
<1>6. ASSUME NEW r \in Role, status[r] = "running", NEW how \in {"reported", "undeclared", "crashed"},
             status' = [status EXCEPT ![r] = how]
      PROVE  Log!SharedNext \/ UNCHANGED Log!sharedVars
  <2>1. status'[r] = how /\ \A q \in Role : q # r => status'[q] = status[q]
    BY <1>0, <1>6 DEF TypeOK
  <2>2. \A q \in Role : q # r => FateOf(q)' = FateOf(q)
    BY <1>1, <1>2, <2>1 DEF FateOf
  <2>3. CASE how = "reported" \/ Faulted(r)
    <3>1. FateOf(r)' = FateOf(r)
      BY <1>1, <1>2, <1>6, <2>1, <2>3 DEF FateOf
    <3> QED BY <1>4, <2>2, <3>1
  <2>4. CASE how # "reported" /\ ~Faulted(r)
    <3>1. FateOf(r) = "live" /\ FateOf(r)' = "left"
      BY <1>2, <1>6, <2>1, <2>4 DEF FateOf
    <3>2. [q \in Role |-> FateOf(q)]' = [[q \in Role |-> FateOf(q)] EXCEPT ![r] = "left"]
      BY <2>2, <3>1
    <3>3. Log!Leave(r)
      BY <1>3, <3>1, <3>2 DEF Log!Leave
    <3> QED BY <3>3, SameConversation DEF Log!SharedNext
  <2> QED BY <2>3, <2>4
<1> QED BY <1>5, <1>6 DEF Quiet

\* A frame is recorded: by its actor, who extends the log, or by its peer, who reads it.
LEMMA RecordRefines ==
  ASSUME SessionInv, SessionInv', NEW r \in Role, NEW e \in Envelope, Records(r, e)
  PROVE  Log!SharedNext
<1> DEFINE p == Peer(r)
           n == Exchanged(r)
<1>0. /\ TypeOK /\ CommonHistory /\ AheadInOwnTurn
      /\ (TypeOK /\ CommonHistory)'
      /\ p \in Role /\ p # r /\ Peer(p) = r /\ \A q \in Role : q = r \/ q = p
  BY PeerFacts DEF SessionInv
<1>1. /\ trace' = [trace EXCEPT ![r] = Append(trace[r], e)] /\ status' = status
      /\ status[r] = "running" /\ ~Faulted(r) /\ e.frame.op # "fault" /\ LeadsTo(r, e.state)
  BY DEF Records
<1>2. /\ n \in Nat /\ Exchanged(p) \in Nat /\ n = Len(trace[r])
  BY <1>0, <1>1, ExchangedFacts
<1>3. /\ trace'[r][n + 1] = e
      /\ \A i \in 1..n : trace'[r][i] = trace[r][i]
      /\ ~Faulted(r)'
      /\ Exchanged(r)' = n + 1
      /\ trace'[p] = trace[p] /\ (Faulted(p)' <=> Faulted(p)) /\ Exchanged(p)' = Exchanged(p)
  <2>1. /\ trace'[r][Len(trace[r]) + 1] = e
        /\ \A i \in 1..Len(trace[r]) : trace'[r][i] = trace[r][i]
        /\ Faulted(r)' <=> e.frame.op = "fault"
        /\ e.frame.op # "fault" => Exchanged(r)' = Len(trace[r]) + 1
        /\ \A q \in Role : q # r => /\ trace'[q] = trace[q]
                                    /\ Faulted(q)' <=> Faulted(q)
                                    /\ Exchanged(q)' = Exchanged(q)
    BY <1>0, <1>1, RecordFacts
  <2> HIDE DEF p, n
  <2> QED BY <1>0, <1>1, <1>2, <2>1
<1>4. FateOf(r) = "live" /\ FateOf(r)' = FateOf(r) /\ FateOf(p)' = FateOf(p)
  BY <1>1, <1>3 DEF FateOf
<1> HIDE DEF p, n
<1>5. [q \in Role |-> FateOf(q)]' = [q \in Role |-> FateOf(q)]
  BY <1>0, <1>4
<1>6. [q \in Role |-> Exchanged(q)]' = [[q \in Role |-> Exchanged(q)] EXCEPT ![r] = n + 1]
  BY <1>0, <1>3
<1>7. CASE pending[r] = {e} /\ Actor(Conv.states[e.state]) = r /\ StepOf(e) # {}
  <2>1. n >= Exchanged(p)
    <3>1. Exchanged(p) > Exchanged(Peer(p)) => pending[Peer(p)] = {}
      BY <1>0 DEF AheadInOwnTurn
    <3> QED BY <1>0, <1>2, <1>7, <3>1 DEF n
  <2>2. LogOf(Ahead) = LogOf(r) /\ Len(LogOf(Ahead)) = n /\ LogOf(r) \in Seq(LogItem)
    BY <1>0, <2>1, LogIsLonger, LogShape DEF n, p
  <2>3. LogOf(Ahead)' = LogOf(r)'
    <3>1. Exchanged(r)' >= Exchanged(Peer(r))'
      BY <1>2, <1>3, <2>1 DEF p
    <3> QED BY <1>0, <3>1, LogIsLongerNext
  <2>4. LogOf(r)' = Append(LogOf(r), [state |-> e.state, frame |-> e.frame])
    <3> DEFINE x == [state |-> e.state, frame |-> e.frame]
    <3>1. x \in LogItem /\ x = Entry(e)
      BY DEF Envelope, LogItem, Entry
    <3>2. LogOf(r)' = [i \in 1..(n + 1) |-> Entry(trace'[r][i])]
      BY <1>3 DEF LogOf, Entry
    <3>3. LogOf(r) = [i \in 1..n |-> Entry(trace[r][i])]
      BY DEF LogOf, n
    <3>4. Append(LogOf(r), x) = [i \in 1..(n + 1) |-> IF i = n + 1 THEN x ELSE LogOf(r)[i]]
      BY <1>2, <2>2, <3>1
    <3>5. \A i \in 1..(n + 1) : Entry(trace'[r][i]) = IF i = n + 1 THEN x ELSE LogOf(r)[i]
      <4> TAKE i \in 1..(n + 1)
      <4>1. CASE i = n + 1
        BY <1>3, <3>1, <4>1
      <4>2. CASE i # n + 1
        <5>1. i \in 1..n
          BY <1>2, <4>2
        <5> QED BY <1>3, <3>3, <4>2, <5>1
      <4> QED BY <4>1, <4>2
    <3> QED BY <3>2, <3>4, <3>5
  <2>5. Log!After(n) = {e.state}
    BY <1>1, WhereReadingEnds DEF n
  <2>6. ~Terminal(Conv.states[e.state]) /\ e.frame \in Log!Offers(e.state)
    BY <1>1, <1>7, OfferedFrames
  <2>7. Log!Speak(r)
    <3>1. [q \in Role |-> FateOf(q)][r] = "live" /\ [q \in Role |-> Exchanged(q)][r] = n
      BY <1>4 DEF n
    <3>2. e.state \in Log!After(Len(LogOf(Ahead)))
      BY <2>2, <2>5
    <3>3. ~Log!Terminal(Conv.states[e.state]) /\ Log!Actor(Conv.states[e.state]) = r
      BY <1>7, <2>6, SameConversation
    <3>4. LogOf(Ahead)' = Append(LogOf(Ahead), [state |-> e.state, frame |-> e.frame])
      BY <2>2, <2>3, <2>4
    <3> QED BY <1>5, <1>6, <2>2, <2>6, <3>1, <3>2, <3>3, <3>4 DEF Log!Speak
  <2> QED BY <2>7, SameConversation DEF Log!SharedNext
<1>8. CASE n < Exchanged(p) /\ e = trace[p][n + 1]
  <2>1. LogOf(Ahead) = LogOf(p) /\ Len(LogOf(Ahead)) = Exchanged(p)
    <3>1. Exchanged(p) >= Exchanged(Peer(p))
      BY <1>0, <1>2, <1>8 DEF n
    <3> QED BY <1>0, <3>1, LogIsLonger, LogShape
  <2>2. LogOf(Ahead)' = LogOf(p)'
    <3>1. Exchanged(p)' >= Exchanged(Peer(p))'
      BY <1>0, <1>2, <1>3, <1>8
    <3> QED BY <1>0, <3>1, LogIsLongerNext
  <2>3. LogOf(p)' = LogOf(p)
    BY <1>3 DEF LogOf, Entry
  <2>4. Log!Listen(r)
    <3>1. [q \in Role |-> FateOf(q)][r] = "live" /\ [q \in Role |-> Exchanged(q)][r] = n
      BY <1>4 DEF n
    <3> QED BY <1>5, <1>6, <1>8, <2>1, <2>2, <2>3, <3>1 DEF Log!Listen
  <2> QED BY <2>4, SameConversation DEF Log!SharedNext
<1> QED BY <1>7, <1>8 DEF Records, n, p

\* A failure is recorded: the role leaves with a failure its state declares.
LEMMA FaultRefines ==
  ASSUME SessionInv, SessionInv', NEW r \in Role, NEW at \in State, NEW failure \in Failure,
         Faults(r, at, failure)
  PROVE  Log!SharedNext
<1> DEFINE e == [state |-> at, sequence |-> Len(trace[r]), frame |-> FaultFrame(r, failure)]
           n == Len(trace[r])
<1>0. TypeOK /\ \A q \in Role : Exchanged(q) \in Nat /\ Exchanged(q) <= Len(trace[q])
  BY ExchangedFacts DEF SessionInv
<1>1. /\ e \in Envelope /\ e.frame.op = "fault" /\ e.frame.failure = failure
  BY <1>0 DEF TypeOK, Envelope, Frame, FaultFrame
<1>2. trace' = [trace EXCEPT ![r] = Append(trace[r], e)] /\ status' = status
  BY DEF Faults
<1>a. /\ status[r] = "running" /\ ~Faulted(r) /\ LeadsTo(r, at)
      /\ FailureTarget(Conv.states[at], failure) # {}
  BY DEF Faults
<1> HIDE DEF e
<1>3. /\ trace'[r][n + 1] = e /\ Len(trace'[r]) = n + 1 /\ Faulted(r)'
      /\ \A i \in 1..n : trace'[r][i] = trace[r][i]
      /\ Exchanged(r)' = n
      /\ \A q \in Role : q # r => trace'[q] = trace[q] /\ (Faulted(q)' <=> Faulted(q))
                                  /\ Exchanged(q)' = Exchanged(q)
  BY <1>0, <1>1, <1>2, RecordFacts
<1>4. Exchanged(r) = n
  BY <1>0, <1>a, ExchangedFacts
<1>5. /\ LogOf(Ahead)' = LogOf(Ahead)
      /\ [q \in Role |-> Exchanged(q)]' = [q \in Role |-> Exchanged(q)]
  <2>1. \A q \in Role : Exchanged(q)' = Exchanged(q)
    BY <1>3, <1>4
  <2>2. \A q \in Role : \A i \in 1..Exchanged(q) : trace'[q][i] = trace[q][i]
    BY <1>3, <1>4
  <2> QED BY <2>1, <2>2, LogStays
<1>6. FateOf(r) = "live" /\ FateOf(r)' = failure
  BY <1>1, <1>3, <1>a DEF FateOf
<1>7. [q \in Role |-> FateOf(q)]' = [[q \in Role |-> FateOf(q)] EXCEPT ![r] = failure]
  <2>1. \A q \in Role : q # r => FateOf(q)' = FateOf(q)
    BY <1>2, <1>3 DEF FateOf
  <2> QED BY <1>6, <2>1
<1>8. at \in Log!After(Exchanged(r))
  BY <1>a, WhereReadingEnds
<1>9. Log!Fail(r)
  <2>1. [q \in Role |-> FateOf(q)][r] = "live" /\ [q \in Role |-> Exchanged(q)][r] = Exchanged(r)
    BY <1>6
  <2>2. Log!FailureTarget(Conv.states[at], failure) # {}
    BY <1>a, SameConversation
  <2> QED BY <1>5, <1>7, <1>8, <2>1, <2>2 DEF Log!Fail
<1> QED BY <1>9, SameConversation DEF Log!SharedNext

\* A session implements the shared log: fresh machines are an empty log, and every
\* step of either worker is a step of the log or changes nothing of it.
THEOREM SessionImplementsSharedLog == Spec => ImplementsSharedLog
<1>1. Init => Log!SharedInit
  <2> SUFFICES ASSUME Init PROVE Log!SharedInit
    OBVIOUS
  <2>1. SessionInv
    BY InitInv
  <2>2. TypeOK /\ CommonHistory
    BY <2>1 DEF SessionInv
  <2>3. \A r \in Role : trace[r] = <<>> /\ status[r] = "running"
    BY DEF Init
  <2>4. \A r \in Role : ~Faulted(r) /\ Exchanged(r) = 0 /\ FateOf(r) = "live"
    BY <2>3 DEF Faulted, Exchanged, FateOf
  <2>5. Ahead \in Role /\ LogOf(Ahead) \in Seq(LogItem) /\ Len(LogOf(Ahead)) = 0
    BY <2>2, <2>4, LogIsLonger, LogShape
  <2>6. LogOf(Ahead) = <<>>
    BY <2>5
  <2> QED BY <2>4, <2>6, SameConversation DEF Log!SharedInit
<1>2. SessionInv /\ SessionInv' /\ [Next]_vars => [Log!SharedNext]_(Log!sharedVars)
  BY RecordSteps, QuietRefines, RecordRefines, FaultRefines
<1> QED BY <1>1, <1>2, SessionInvariant, PTL DEF Spec, ImplementsSharedLog, Log!SharedSpec

=============================================================================
