------------------------------ MODULE Preface ------------------------------
(***************************************************************************)
(* The session preface of the network transports: establish_session of     *)
(* TcpTransport, QuicTransport and IrohTransport, and the check each of    *)
(* them makes before it carries a frame.                                   *)
(*                                                                         *)
(* Both sides write a preface, read the other's, answer with one byte and  *)
(* wait for the other's byte.  A stream is a sequence of the things written*)
(* to it; a reader takes whatever comes next for what it expects, as the   *)
(* length prefix and the JSON decoder do.                                  *)
(***************************************************************************)
EXTENDS Naturals, Sequences

CONSTANTS
  Kind,       \* the transports: "tcp", "quic", "iroh"
  Plan,       \* plans; equal when conversation and both identities are
  Setup,      \* the setups a side may have: [plan, codec, role, peer_role, wire]
  MaxSends    \* bound on the frames a side sends

Side == {"dialer", "listener"}
PlanRole == {"client", "server"}   \* validate_roles admits two roles

ASSUME KindAssumption == Kind \subseteq {"tcp", "quic", "iroh"}
ASSUME SetupAssumption ==
  \A u \in Setup : u.plan \in Plan /\ u.codec \in Plan /\ u.wire \in {"reference", "compact"}
ASSUME SendsAssumption == MaxSends \in Nat

VARIABLES
  kind,         \* the transport of this connection
  setup,        \* how each side was set up
  phase,        \* where each side is in establish_session
  established,  \* session_established, which nothing resets
  stream,       \* what each side has written and the other not yet read
  open,         \* whether a side still holds its connection
  sent,         \* frames each side has sent
  got,          \* frames each side has received
  reason        \* why a side failed

vars == <<kind, setup, phase, established, stream, open, sent, got, reason>>

Other(s) == CHOOSE t \in Side : t # s

PrefaceInit ==
  /\ kind \in Kind
  /\ setup \in [Side -> Setup]
  /\ phase = [s \in Side |-> "idle"]
  /\ established = [s \in Side |-> FALSE]
  /\ stream = [s \in Side |-> <<>>]
  /\ open = [s \in Side |-> TRUE]
  /\ sent = [s \in Side |-> 0]
  /\ got = [s \in Side |-> 0]
  /\ reason = [s \in Side |-> "none"]

-----------------------------------------------------------------------------
(***************************************************************************)
(* Prefaces.                                                               *)
(***************************************************************************)
\* What only Iroh adds: the writer's key and the exporter of this connection,
\* taken with the plan identity as context.
Binding(s, plan) == IF kind = "iroh" THEN {<<s, plan>>} ELSE {}

\* SessionPreface::for_plan with the fields establish_session adds.
SessionPreface(s) ==
  [item |-> "preface", plan |-> setup[s].plan, role |-> setup[s].role,
   wire |-> setup[s].wire, binding |-> Binding(s, setup[s].plan)]

\* local_session_preface and the codec's verify_plan.
LocalOK(s) ==
  LET u == setup[s] IN
  /\ u.wire = "compact" => u.codec = u.plan
  /\ u.peer_role \in PlanRole
  /\ u.role # u.peer_role
  /\ u.role \in PlanRole

\* Mutated form: the peer must claim this side's own role.
VerifyPeerOwnRole(s, p) ==
  p.plan = setup[s].plan /\ p.role = setup[s].role /\ p.wire = setup[s].wire

VerifyPeer(s, p) ==
  p.plan = setup[s].plan /\ p.role = setup[s].peer_role /\ p.wire = setup[s].wire

\* The key and the exporter are the ones this side sees of the connection.
VerifyIrohSessionPreface(s, p) ==
  VerifyPeer(s, p) /\ p.binding = Binding(Other(s), setup[s].plan)

\* What comes next off the stream decodes to a preface that this side accepts.
Fits(s, x) ==
  /\ x.item = "preface"
  /\ IF kind = "iroh" THEN VerifyIrohSessionPreface(s, x) ELSE VerifyPeer(s, x)

-----------------------------------------------------------------------------
Item(name) == [item |-> name]

Write(s, x) == stream' = [stream EXCEPT ![s] = Append(@, x)]

\* A side lets go of its connection after writing xs: what has not been read
\* may arrive in part, and its own reads are over.
Close(s, xs, why) ==
  /\ phase' = [phase EXCEPT ![s] = "failed"]
  /\ reason' = [reason EXCEPT ![s] = why]
  /\ open' = [open EXCEPT ![s] = FALSE]
  /\ \E n \in 0..Len(stream[s] \o xs) :
       stream' = [stream EXCEPT ![s] = SubSeq(@ \o xs, 1, n)]

\* Take the next thing off the other side's stream while writing to one's own.
TakeAnd(s, next) ==
  stream' = [next EXCEPT ![Other(s)] = Tail(@)]

Incoming(s) == Head(stream[Other(s)])
Readable(s) == open[s] /\ stream[Other(s)] # <<>>

(***************************************************************************)
(* establish_session.                                                      *)
(***************************************************************************)

\* Mutated form: both sides read before they write.
BeginListening(s) ==
  /\ phase[s] = "idle"
  /\ phase' = [phase EXCEPT ![s] = "preface"]
  /\ UNCHANGED <<kind, setup, established, stream, open, sent, got, reason>>

Begin(s) ==
  /\ phase[s] = "idle"
  /\ \/ /\ LocalOK(s)
        /\ phase' = [phase EXCEPT ![s] = "preface"]
        /\ Write(s, SessionPreface(s))
        /\ UNCHANGED <<open, reason>>
     \/ ~LocalOK(s) /\ Close(s, <<>>, "refused")
  /\ UNCHANGED <<kind, setup, established, sent, got>>

\* Mutated form: the session stands once this side has accepted.
ReadPrefaceHasty(s) ==
  /\ phase[s] = "preface" /\ Readable(s)
  /\ Fits(s, Incoming(s))
  /\ TakeAnd(s, [stream EXCEPT ![s] = Append(@, Item("accepted"))])
  /\ phase' = [phase EXCEPT ![s] = "established"]
  /\ established' = [established EXCEPT ![s] = TRUE]
  /\ UNCHANGED <<kind, setup, open, sent, got, reason>>

ReadPreface(s) ==
  /\ phase[s] = "preface" /\ Readable(s)
  /\ \/ /\ Fits(s, Incoming(s))
        /\ TakeAnd(s, [stream EXCEPT ![s] = Append(@, Item("accepted"))])
        /\ phase' = [phase EXCEPT ![s] = "verdict"]
        /\ UNCHANGED <<open, reason>>
     \/ /\ ~Fits(s, Incoming(s))
        /\ \E n \in 0..Len(stream[s]) + 1 :
             TakeAnd(s, [stream EXCEPT ![s] =
                           SubSeq(Append(@, Item("rejected")), 1, n)])
        /\ phase' = [phase EXCEPT ![s] = "failed"]
        /\ reason' = [reason EXCEPT ![s] = "mismatch"]
        /\ open' = [open EXCEPT ![s] = FALSE]
  /\ UNCHANGED <<kind, setup, established, sent, got>>

\* One byte decides.  Anything but an acceptance, the first byte of a length
\* prefix included, is a rejection.
ReadVerdict(s) ==
  /\ phase[s] = "verdict" /\ Readable(s)
  /\ \/ /\ Incoming(s).item = "accepted"
        /\ TakeAnd(s, stream)
        /\ phase' = [phase EXCEPT ![s] = "established"]
        /\ established' = [established EXCEPT ![s] = TRUE]
        /\ UNCHANGED <<open, reason>>
     \/ /\ Incoming(s).item # "accepted"
        /\ Close(s, <<>>, "rejected")
        /\ UNCHANGED established
  /\ UNCHANGED <<kind, setup, sent, got>>

\* A read or write fails: the other side is gone, the deadline has passed, or
\* the network dropped the connection.
IoError(s) ==
  /\ phase[s] # "failed"
  /\ Close(s, <<>>, "lost")
  /\ UNCHANGED <<kind, setup, established, sent, got>>

(***************************************************************************)
(* Frames.  TCP and QUIC ask for a session in compact mode only, Iroh      *)
(* always.                                                                 *)
(***************************************************************************)

\* Mutated form: no session is asked for.
SessionRequiredNever(s) == FALSE

SessionRequired(s) ==
  (kind = "iroh" \/ setup[s].wire = "compact") /\ ~established[s]

Outside(s) == phase[s] \in {"idle", "established"} /\ open[s]

Send(s) ==
  /\ Outside(s) /\ sent[s] < MaxSends
  /\ \/ /\ ~SessionRequired(s)
        /\ Write(s, Item("frame"))
        /\ sent' = [sent EXCEPT ![s] = @ + 1]
        /\ UNCHANGED <<phase, open, reason>>
     \/ SessionRequired(s) /\ Close(s, <<>>, "session_required") /\ UNCHANGED sent
  /\ UNCHANGED <<kind, setup, established, got>>

Receive(s) ==
  /\ Outside(s)
  /\ \/ /\ ~SessionRequired(s) /\ Readable(s) /\ Incoming(s).item = "frame"
        /\ TakeAnd(s, stream)
        /\ got' = [got EXCEPT ![s] = @ + 1]
        /\ UNCHANGED <<phase, open, reason>>
     \/ /\ ~SessionRequired(s) /\ Readable(s) /\ Incoming(s).item # "frame"
        /\ Close(s, <<>>, "garbled")
        /\ UNCHANGED got
     \/ SessionRequired(s) /\ Close(s, <<>>, "session_required") /\ UNCHANGED got
  /\ UNCHANGED <<kind, setup, established, sent>>

PrefaceNext ==
  \E s \in Side : \/ Begin(s) \/ ReadPreface(s) \/ ReadVerdict(s) \/ IoError(s)
                  \/ Send(s) \/ Receive(s)

PrefaceSpec == PrefaceInit /\ [][PrefaceNext]_vars

\* Both commands call establish_session as soon as they are connected, and a
\* side whose peer has left finds out.
Step(s) ==
  \/ Begin(s) \/ ReadPreface(s) \/ ReadVerdict(s)
  \/ ~open[Other(s)] /\ stream[Other(s)] = <<>> /\ IoError(s)

PrefaceFairSpec == PrefaceSpec /\ \A s \in Side : WF_vars(Step(s))

-----------------------------------------------------------------------------
(***************************************************************************)
(* Properties.                                                             *)
(***************************************************************************)
\* The two setups fit: one plan, one encoding, the two roles.
Compatible ==
  \A s \in Side : /\ LocalOK(s)
                  /\ setup[s].plan = setup[Other(s)].plan
                  /\ setup[s].wire = setup[Other(s)].wire
                  /\ setup[s].peer_role = setup[Other(s)].role

\* A session is established only between sides that fit, and the other side has
\* accepted as well: it can still lose the connection, but it never decides
\* against a session its peer already believes in.
EstablishedMeansAgreed ==
  \A s \in Side : established[s] =>
    /\ Compatible
    /\ \/ phase[Other(s)] \in {"verdict", "established"}
       \/ reason[Other(s)] = "lost"

\* Both sides of the connection insist on a session before frames.
Insisting == \A s \in Side : kind = "iroh" \/ setup[s].wire = "compact"

\* Sides that fit and that carry no frame before their session are never turned
\* away: only losing the connection keeps them apart.
NoFalseRejection ==
  (Compatible /\ Insisting) => \A s \in Side : reason[s] \notin {"refused", "mismatch", "rejected", "garbled"}

\* Where the transport insists on a session, what is read is what was written:
\* no verdict byte is taken from a frame and no frame from a preface, and every
\* frame that arrives comes from a side that had agreed.
FramesFollowAgreement ==
  Insisting => \A s \in Side :
    /\ reason[s] # "garbled"
    /\ phase[s] = "verdict" /\ stream[Other(s)] # <<>> =>
         Incoming(s).item \in {"accepted", "rejected"}
    /\ got[s] > 0 => established[s] /\ established[Other(s)] /\ Compatible

\* A transport that has no session refuses to carry frames.
NoFrameBeforeSession == \A s \in Side : sent[s] > 0 => established[s]

\* Neither side waits for ever in establish_session: both write before they
\* read, so the two are never both waiting for a preface.
HandshakeEnds ==
  \A s \in Side : phase[s] = "preface" ~> phase[s] \in {"established", "failed"}

=============================================================================
