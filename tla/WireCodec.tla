----------------------------- MODULE WireCodec -----------------------------
(***************************************************************************)
(* Plan artifacts and the two wire encodings.  A plan holds the projected  *)
(* endpoints and a dictionary of the transitions they share; the compact   *)
(* encoding sends the number of a transition where the reference encoding  *)
(* sends the whole envelope.                                               *)
(*                                                                         *)
(* Two sides prepare their own plan artifacts, each read from a file that  *)
(* may be older than the dictionary or not what compile wrote.  One        *)
(* envelope then travels: encoded by the sender, or made up by a peer of   *)
(* which nothing is known, and decoded by the receiver.                    *)
(***************************************************************************)
EXTENDS Conversation, Folds

CONSTANTS
  Artifact,   \* plan artifacts: [endpoints, wire, plan_identity]
  Name,       \* state ids an envelope may name
  Frame,      \* frames an envelope may carry, payload aside
  MaxId       \* the largest transition id: u16::MAX in the code

Elements(s) == {s[i] : i \in DOMAIN s}

IsList(s) == Len(s) \in Nat /\ DOMAIN s = 1..Len(s)

ASSUME MaxIdAssumption == MaxId \in Nat

\* Artifacts are finite, whatever the file they were read from says: lists of
\* endpoints and states, and maps of branches.
ASSUME ArtifactAssumption ==
  \A a \in Artifact :
    /\ IsList(a.endpoints)
    /\ \A p \in Elements(a.endpoints) :
         /\ IsList(p.states)
         /\ \A s \in Elements(p.states) :
              s.body.kind \in {"select", "branch"} => IsFiniteSet(DOMAIN s.body.branches)

\* A frame is one of the four variants of enum SemanticFrame.
ASSUME FrameAssumption ==
  \A f \in Frame :
    \/ f.op = "data" /\ f = DataFrame(f.from, f.to, f.message)
    \/ f.op = "select" /\ f = SelectFrame(f.by, f.label)
    \/ f.op = "cancel" /\ f = CancelFrame(f.from, f.to, f.scope)
    \/ f.op = "fault" /\ f = FaultFrame(f.observer, f.failure)

Side == {"sender", "receiver"}
Encoding == {"reference", "compact"}

\* "none" is an absent payload and "null" the JSON value; a "long" one fits
\* into MAX_ENVELOPE_BYTES without the fields only the reference envelope has.
Payload == {"none", "null", "text", "long"}

VARIABLES
  artifact,  \* the artifact each side has read
  table,     \* the dictionary of each side's prepared plan: at most one
  phase,     \* "load", "ready", "sent", "received", "refused"
  encoding,  \* the encoding of the session
  outgoing,  \* the envelope handed to encode: at most one
  bytes,     \* what is on the wire: at most one thing
  incoming   \* the envelope decode has returned: at most one

vars == <<artifact, table, phase, encoding, outgoing, bytes, incoming>>

-----------------------------------------------------------------------------
(***************************************************************************)
(* compile and derive_wire_plan.  A set is listed in the order of its      *)
(* BTreeSet: which order does not matter, only that it depends on the set  *)
(* alone.                                                                  *)
(***************************************************************************)
InOrder(S) ==
  MapThenFoldSet(LAMBDA x, listed : Append(listed, x), <<>>,
                 LAMBDA x : x, LAMBDA T : CHOOSE x \in T : TRUE, S)

\* The frames that belong to one projected state: WireOperation has the shape
\* of a frame without its payload.
WireOperations(role, e) ==
  CASE e.kind = "send" -> {DataFrame(role, e.to, e.message)}
    [] e.kind = "receive" -> {DataFrame(e.from, role, e.message)}
    [] e.kind = "select" -> {SelectFrame(role, l) : l \in DOMAIN e.branches}
    [] e.kind = "branch" -> {SelectFrame(e.from, l) : l \in DOMAIN e.branches}
    [] e.kind = "send_cancel" -> {CancelFrame(role, e.to, e.scope)}
    [] e.kind = "receive_cancel" -> {CancelFrame(e.from, role, e.scope)}
    [] OTHER -> {}

Transitions(endpoints) ==
  UNION {UNION {[state : {s.id}, operation : WireOperations(p.role, s.body)]
                  : s \in Elements(p.states)}
           : p \in Elements(endpoints)}

\* Nothing when the ids run out.
DeriveWirePlan(endpoints) ==
  LET listed == InOrder(Transitions(endpoints)) IN
  Only(Len(listed) <= MaxId,
       [i \in DOMAIN listed |->
          [id |-> i, state |-> listed[i].state, operation |-> listed[i].operation]])

\* The content a digest stands for: two artifacts have one identity exactly
\* when they agree on it.
CalculateIdentity(endpoints, wire) == <<endpoints, wire>>

Project(c, role) ==
  [role |-> role, initial |-> c.initial,
   states |-> InOrder({[id |-> s, body |-> ProjectState(c.states[s], role)]
                         : s \in DOMAIN c.states})]

\* What compile writes for a validated conversation; nothing when it cannot.
Compile(c) ==
  LET roles == InOrder(c.roles)
      endpoints == [i \in DOMAIN roles |-> Project(c, roles[i])]
  IN  {[endpoints |-> endpoints, wire |-> {w},
        plan_identity |-> CalculateIdentity(endpoints, {w})]
         : w \in DeriveWirePlan(endpoints)}

-----------------------------------------------------------------------------
(***************************************************************************)
(* verify and prepare.                                                     *)
(***************************************************************************)
EndpointSuccessors(e) ==
  CASE e.kind \in {"send", "receive", "send_cancel", "receive_cancel"} ->
         {e.next} \cup {e.on_failure[f] : f \in DOMAIN e.on_failure}
    [] e.kind \in {"select", "branch"} ->
         {e.branches[l] : l \in DOMAIN e.branches}
           \cup {e.on_failure[f] : f \in DOMAIN e.on_failure}
    [] OTHER -> {}

EndpointPeer(e) ==
  CASE e.kind \in {"send", "send_cancel"} -> {e.to}
    [] e.kind \in {"receive", "branch", "receive_cancel"} -> {e.from}
    [] OTHER -> {}

VerifyEndpoint(p, roles) ==
  LET ids == {s.id : s \in Elements(p.states)} IN
  /\ p.states # <<>>
  /\ Cardinality(ids) = Len(p.states)
  /\ p.initial \in ids
  /\ \A s \in Elements(p.states) :
       EndpointSuccessors(s.body) \subseteq ids /\ EndpointPeer(s.body) \subseteq roles

Verify(a) ==
  LET roles == {p.role : p \in Elements(a.endpoints)} IN
  /\ Len(a.endpoints) = 2
  /\ Cardinality(roles) = 2
  /\ \A p \in Elements(a.endpoints) : VerifyEndpoint(p, roles)
  /\ a.plan_identity = CalculateIdentity(a.endpoints, a.wire)
  /\ \A w \in a.wire : {w} = DeriveWirePlan(a.endpoints)

\* The dictionary of the prepared plan: the artifact's own, or derived when the
\* artifact is older than the dictionary.
PreparedWire(a) == IF a.wire = {} THEN DeriveWirePlan(a.endpoints) ELSE a.wire

Prepare(s) ==
  /\ phase = "load" /\ table[s] = {}
  /\ \/ /\ Verify(artifact[s]) /\ PreparedWire(artifact[s]) # {}
        /\ table' = [table EXCEPT ![s] = PreparedWire(artifact[s])]
        /\ UNCHANGED phase
     \/ /\ ~(Verify(artifact[s]) /\ PreparedWire(artifact[s]) # {})
        /\ phase' = "refused"
        /\ UNCHANGED table
  /\ UNCHANGED <<artifact, encoding, outgoing, bytes, incoming>>

\* The session preface: equal plan identities, or no session.
Establish ==
  /\ phase = "load" /\ \A s \in Side : table[s] # {}
  /\ phase' = IF artifact["sender"].plan_identity = artifact["receiver"].plan_identity
                THEN "ready" ELSE "refused"
  /\ UNCHANGED <<artifact, table, encoding, outgoing, bytes, incoming>>

-----------------------------------------------------------------------------
(***************************************************************************)
(* Envelopes.  conversation stands for the version, name and identity.     *)
(***************************************************************************)
Envelope == [conversation : {"this", "other"}, state : Name, sequence : {0, 1},
             frame : Frame, payload : Payload]

\* Only data frames have a payload.
Envelopes == {e \in Envelope : e.frame.op # "data" => e.payload = "none"}

TransitionMatches(t, e) == t.state = e.state /\ t.operation = e.frame

EncodeCompact(wire, e) ==
  LET found == {t \in Elements(wire) : TransitionMatches(t, e)} IN
  {[t |-> (CHOOSE t \in found : \A u \in found : t.id <= u.id).id,
    q |-> e.sequence, p |-> e.payload]
     : x \in Only(/\ e.conversation = "this" /\ found # {} /\ e.frame.op # "fault", 0)}

EncodeReference(e) == Only(e.payload # "long", e)

Encode(e) ==
  LET encoded == IF encoding = "compact"
                   THEN UNION {EncodeCompact(w, e) : w \in table["sender"]}
                   ELSE EncodeReference(e)
  IN  /\ phase = "ready"
      /\ outgoing' = {e}
      /\ bytes' = encoded
      /\ phase' = IF encoded = {} THEN "refused" ELSE "sent"
      /\ UNCHANGED <<artifact, table, encoding, incoming>>

\* A compact envelope that no encoder of this session has made.
Foreign(t, payload) ==
  /\ phase = "ready" /\ encoding = "compact"
  /\ bytes' = {[t |-> t, q |-> 0, p |-> payload]}
  /\ phase' = "sent"
  /\ UNCHANGED <<artifact, table, encoding, outgoing, incoming>>

\* Reading an optional JSON value takes null for none.
ReadPayload(p) == IF p = "null" THEN "none" ELSE p

\* Mutated form: nothing is rejected.
RejectControlPayloadNever(operation, p) == FALSE

RejectControlPayload(operation, p) ==
  operation.op \in {"select", "cancel"} /\ ReadPayload(p) # "none"

\* Mutated form: the neighbour in the dictionary is taken.
DecodeCompactShifted(wire, b) ==
  {[conversation |-> "this", state |-> wire[b.t + 1].state, sequence |-> b.q,
    frame |-> wire[b.t + 1].operation, payload |-> ReadPayload(b.p)]
     : x \in {t \in DOMAIN wire : t = b.t + 1}}

DecodeCompact(wire, b) ==
  {[conversation |-> "this", state |-> wire[b.t].state, sequence |-> b.q,
    frame |-> wire[b.t].operation, payload |-> ReadPayload(b.p)]
     : x \in {t \in DOMAIN wire : /\ t = b.t
                                  /\ wire[t].id = b.t
                                  /\ ~RejectControlPayload(wire[t].operation, b.p)}}

DecodeReference(b) == {[b EXCEPT !.payload = ReadPayload(@)]}

Decode ==
  LET decoded == IF encoding = "compact"
                   THEN UNION {DecodeCompact(w, b) : w \in table["receiver"], b \in bytes}
                   ELSE UNION {DecodeReference(b) : b \in bytes}
  IN  /\ phase = "sent"
      /\ incoming' = decoded
      /\ phase' = IF decoded = {} THEN "refused" ELSE "received"
      /\ UNCHANGED <<artifact, table, encoding, outgoing, bytes>>

CodecInit ==
  /\ artifact \in [Side -> Artifact]
  /\ table = [s \in Side |-> {}]
  /\ phase = "load"
  /\ encoding \in Encoding
  /\ outgoing = {} /\ bytes = {} /\ incoming = {}

CodecNext ==
  \/ \E s \in Side : Prepare(s)
  \/ Establish
  \/ \E e \in Envelopes : Encode(e)
  \/ \E t \in 0..MaxId, payload \in Payload : Foreign(t, payload)
  \/ Decode

CodecSpec == CodecInit /\ [][CodecNext]_vars

-----------------------------------------------------------------------------
(***************************************************************************)
(* Properties.                                                             *)
(***************************************************************************)
\* What the machines of a plan can send, and what they accept, at a state.
Emittable(a, state, frame) ==
  \E p \in Elements(a.endpoints) : \E s \in Elements(p.states) :
    s.id = state /\ s.body.kind \in Emitting /\ frame \in WireOperations(p.role, s.body)

Acceptable(a, state, frame) ==
  \E p \in Elements(a.endpoints) : \E s \in Elements(p.states) :
    s.id = state /\ AcceptTarget(s.body, p.role, frame) # {}

\* The two endpoints have the same states and name the same frames at each, as
\* projections of one conversation do.
Dual(a) ==
  \A p, q \in Elements(a.endpoints) : \A s \in Elements(p.states) :
    \E t \in Elements(q.states) :
      s.id = t.id /\ WireOperations(p.role, s.body) = WireOperations(q.role, t.body)

\* Two sides that agree on the plan identity number the transitions alike, even
\* if each derived or read its dictionary on its own; so the receiver restores
\* exactly the envelope that was sent (a null payload aside, which no driver
\* sends).
RestoredExactly ==
  \A e \in outgoing, d \in incoming : e.payload # "null" => d = e

\* The compact encoding has a number for every frame a machine of the plan
\* emits or accepts at that state, and for nothing else: it refuses neither a
\* permitted frame nor lets another through.
EncodesTheProtocol ==
  (encoding = "compact" /\ outgoing # {}) =>
    \A e \in outgoing :
      bytes # {} <=>
        /\ e.conversation = "this"
        /\ Emittable(artifact["sender"], e.state, e.frame)
             \/ Acceptable(artifact["sender"], e.state, e.frame)

\* Whatever compact bytes a peer makes up, decoding gives nothing or a frame that
\* a machine of the plan has a transition for, and a control frame never carries
\* a payload.  Where the endpoints are dual, the receiving machine accepts it.
DecodesTheProtocol ==
  (encoding = "compact" /\ phase = "received") =>
    \A d \in incoming :
      /\ d.frame.op # "data" => d.payload = "none"
      /\ \/ Acceptable(artifact["receiver"], d.state, d.frame)
         \/ /\ ~Dual(artifact["receiver"])
            /\ Emittable(artifact["receiver"], d.state, d.frame)

\* Both directions: through the transition dictionary of a verified plan passes
\* the protocol of the plan, all of it and nothing else.
CompactIsTheProtocol == EncodesTheProtocol /\ DecodesTheProtocol

\* The receiver reconstructs the complete semantic frame, whatever its payload.
FrameReconstructed == \A e \in outgoing, d \in incoming : d = e

=============================================================================
