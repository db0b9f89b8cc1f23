# colloq: a TLA+ verification project

colloq takes a *conversation* (a graph of sends, choices and cancellations between
two roles), validates it, projects it into one endpoint per role, compiles both into
a plan, and runs the endpoints as two workers over a transport (memory, TCP, QUIC,
Iroh). Each worker returns an execution report with a semantic trace. The promise is
that two workers with the same plan never disagree about what was said, that every
failure ends in a state the conversation declares for it, and that nobody is left
waiting. Around it stand files two hosts keep about each other (keys, grants, a pinned
plan), a server that takes one connection at a time, and a command that lets an outside
service decide a choice.

This directory models that machinery, model-checks it on small instances with TLC and
proves with TLAPS, for every value of the constants, every safety property that a
passing run checks: those of the session and its refinement, the generate drivers with the
fault injector, the preface, the close handshake, the validator, the outside decider, the
wire codecs, the drafts and their sync loops, and the trust files.
Source paths are relative to the repository root; line numbers of each definition are
in `PROJECT.json` (`map`).

## 1. Inventory

| Component | State | Operations | Talks to |
|---|---|---|---|
| Conversation graph, validation, projection (`src/lib.rs`) | the document; during `validate` the diagnostics, the search queue, the visited set | `validate`, `project`, `failure_target`, `verify_trace` | everything downstream indexes states by the ids `validate` checked |
| Endpoint machine (`src/runtime.rs`) | current state, sequence number, role | `emit_data`, `emit_select`, `emit_cancel`, `accept`, `observe_failure_at` | driven by one worker; envelopes go to a transport |
| Recording functions (`send_and_record`, `receive_and_record`, `report`) | the growing trace of a role | emit + send + record, receive + accept + record, fault record + abort | machine and transport of one role |
| Memory transport | two channels, one per direction | send, receive, abort, drop | the peer's thread |
| TCP / QUIC / Iroh transports | stream, codec, `session_established` | `establish_session`, send, receive, abort, `finish` | the network |
| Session preface | phase of the four-step exchange | write preface, read, answer, read answer | both sides, same stream as the frames |
| Close handshake (QUIC, Iroh) | queued and delivered bytes, close code | `finish`: markers, drain, close, await closed | both endpoints |
| Fault injector | occurrence counters, a flag shared by both ends | `should_inject`, failing send / receive, peer error mapping | wraps a memory transport |
| Generate drivers | position in a hand-written loop, token count | `run_generate_client_plan`, `run_generate_server_plan` | machine + recording functions |
| Plan compiler, verifier (`src/plan.rs`) | endpoints, transition dictionary, identities | compile, verify, prepare, `derive_wire_plan` | file on disk, codec |
| Wire codecs | the prepared plan | encode / decode, reference and compact | transport |
| Draft store (`src/graph.rs`), draft exchange (`src/draft_exchange.rs`) | a draft file; an Automerge document in memory, a sync state per peer | create, patch, merge, promote; round-limited sync | files; an Iroh session |
| Jev decisions (`src/jev.rs`) | the binding, the number of repeats | `bind`, `decide` with threshold, escalation, retry | `validate`; an HTTP service; `emit_select` |
| Identity, authorization (`src/node.rs`) | identity file, policy file | `node-init`, `policy-allow`, `bootstrap-two-node`, `authorize`, `authorized_peers` | operators of two hosts; the Iroh endpoint |
| Deployment (`src/deploy.rs`) | manifest with a pinned plan identity | `emit-miren`, `verify_deployment_identity` | Miren, which starts and restarts the server |
| Server commands (`src/main.rs`) | the listener, one connection | accept, preface, session, go on or return | visitors, whose own time limits run while they wait |
| Benchmarks (`src/benchmark.rs`) | none | timing | |

What is hard here, and why a unit test hardly reaches it:

* **two machines at different states.** Each worker moves its own machine; a frame is
  checked by the receiver against *its* state and sequence number. The order in which
  the two threads run is not under a test's control.
* **emit before send.** A machine has advanced and counted the frame before the
  transport accepts it. When the send fails the fault has to be recorded at the state
  the envelope left, which is no longer the machine's.
* **failures at every call.** Send and receive may each fail, with any of several
  failures, declared at the current state or not; the peer sees something else.
* **ends.** An abort, a returned worker, a crash or a dropped endpoint takes with it
  some suffix of what was in flight; the other side must still stop, and on QUIC and
  Iroh must not report success for a session the peer has not completed.
* **one stream for several things**: preface, verdict byte, frames, close marker.
* **two files, one dictionary**: plans read on the two sides may differ in age and in
  origin; equal identities must mean equal numbering.
* **hand-written drivers** beside derived machines.
* **drafts in files**: a command reads a draft, works on it and writes it back, while
  other commands do the same; a merge may hide an edit behind another.
* **trust in files**: keys, grants and the pinned plan are read at different times by
  different processes, and commands that write them overlap.
* **one server, several visitors**: those who wait in the backlog time out or leave
  before they are accepted, some never speak, and an error ends the process.
* **an outside decider**: busy, late, wrong or unsure, while the conversation needs one
  of its own labels.

The complete list is under `hazards` in `PROJECT.json`, each at the line where it
bites with the properties that would catch it.

What makes each component correct: *validation* accepts exactly the documents the
runtime can rely on; *machines and recording* keep both records on one walk of the
conversation and never refuse an honest frame; *transports* deliver a gapless prefix
and release a blocked peer; the *preface* lets a session stand only between sides
that agree; the *close handshake* makes success mutual; the *fault injector* gives the
same reports again; the *drivers* never ask their machine for a step it does not
offer; the *codec* restores the envelope and nothing outside the protocol; *drafts* are
never promoted with an edit hidden, and a sync that ends well has converged; a *Jev
decision* is a label the bound state permits; a *policy* lets a session stand only on
grants made for this very plan; a deployed *server* comes back to accepting.

## 2. Modules

| Module | Models | Kind |
|---|---|---|
| `Conversation` | graph, projection, failure edges, `verify_trace`; `WellFormed`, what the runtime needs of a document | operators |
| `Session` | two machines, two workers, a transport, `send_and_record`, `receive_and_record`, `report`, abort, crash | state machine |
| `SharedLog` | what a session promises: one log, one turn, two readers | abstract specification |
| `SessionRefinement` | the mapping from `Session` to `SharedLog` | refinement |
| `SessionProofs` | theorems about `Session`: the session itself, `verify_trace` on what it records, the frame count, the refinement of `SharedLog` | TLAPS |
| `GenerateProofs` | theorems about `Generate` and `FaultReplay`, on top of `SessionProofs` | TLAPS |
| `PrefaceProofs`, `CloseProofs` | theorems about `Preface` and `CloseHandshake` | TLAPS |
| `ValidationProofs` | theorems about `Validation` and `Jev` | TLAPS |
| `CodecProofs` | theorems about `WireCodec` | TLAPS |
| `DraftProofs`, `ServiceProofs` | theorems about `Draft` with `DraftExchange` and about `Trust` with `Service` | TLAPS |
| `Generate` | the two drivers, the fault injector and `verify-session`, composed with `Session` | state machine |
| `FaultReplay` | one command line run twice, reports compared, on top of `Generate` | composition |
| `Preface` | `establish_session` of the three network transports and the frame check | state machine |
| `CloseHandshake` | the last frame and `finish` over QUIC and Iroh | state machine |
| `Validation` | `validate`, with its breadth-first search step by step | state machine |
| `WireCodec` | compile, verify, prepare, derive, encode, decode | state machine + operators |
| `Draft` | documents, patches, merge, conflicts, promotion, and the draft commands on two hosts | state machine + operators |
| `DraftExchange` | the two sync loops with their machines, on top of `Draft`; sessions, saves, dying processes | composition |
| `Jev` | `jev-decide`: bind and decide with the live client, after `Validation` | composition |
| `Trust` | identity and policy files of two hosts and the commands that write them | state machine |
| `Service` | the server commands, visitors, manifest and deployment, on top of `Trust` | composition |
| `MCSession`, `MCSessionRefinement`, `MCGenerate`, `MCFaultReplay`, `MCPreface`, `MCValidation`, `MCWireCodec`, `MCDraftExchange`, `MCService` | the instances TLC checks | instances |

Two conventions: `Option<T>` is a set with at most one element, and an operator whose
comment begins "Mutated form" is a deliberately broken variant of the definition after
it. No specification uses a mutated form; `PROJECT.json` (`mutants`) records which
property refutes each, as evidence that the property depends on the code.

### Session

| Variable | Code |
|---|---|
| `machine[r]` | `EndpointMachine { current, sequence }` |
| `pending[r]` | the envelope between `emit_*` and `transport.send` inside `send_and_record` |
| `wire[r]` | what `r` has sent and its peer has not received |
| `trace[r]` | the recorded trace, each frame with state and sequence |
| `open[r]` | whether `r`'s end of the transport is usable |
| `status[r]` | running; reported; an error returned; a frame refused; crashed |

`EmitData`, `EmitSelect`, `EmitCancel` are the first half of `send_and_record`;
`SendSucceeds` and `SendFails` the second, including `observe_failure_at`, the fault
record and the abort. `Receive` is the whole of a successful or refused
`receive_and_record`, `ReceiveFails` the failing one. `Return` is `report` plus the
drop of the transport, `Crash` a panic or kill. The split inside `send_and_record`
is there because the other worker runs between the two halves; everything else in a
call touches only the worker's own state and is one step.

The application is any one that follows its projection: any label at a select, any
interleaving. With `Network = TRUE` a call may fail on its own and an ending role
loses any suffix of its frames in flight, which includes everything a memory pair does.

`observe_failure_at` is kept as written, with the test that decides whether to count
the fault by comparing the current state with the failing one. At a state that leads to
itself that test is fooled and the frame count ends one higher than the trace is long;
`SequenceCountsTrace` says exactly when.

### Generate and FaultReplay

`at[r]` is the position of a driver in its own loop, kept apart from the machine's state,
so that "the loop never asks for what the machine does not offer" (`DriverInStep`) is a
property and not a guard. `Inject` and `InjectedFailure` are separate steps because the
shared flag is raised before the failing call returns and takes the link down.
`VerifySession` is the `verify-session` command on the two reports:
`VerifiedMeansComplete` says that what it accepts is a whole conversation. `FaultReplay`
stores the reports of a first run and starts again. The drivers name the states and labels
of one conversation, `examples/generate.colloqconv.json`; `GenerateAssumption` is that
conversation, with any failure edges that declare a closed transport. Token texts are left
out; counts are kept.

### Preface, CloseHandshake

A stream is a sequence of whole items. A reader takes whatever comes next for what it
expects, as the length prefix and the decoder do, so a verdict byte read out of a frame
is possible in the model and excluded by `FramesFollowAgreement`. In `CloseHandshake`
a written item is first queued, then delivered, and a dropped endpoint takes its queue
with it; the two transports differ in the list of steps `Finish` gives each role.
The QUIC and Iroh libraries are external: their behaviour (reads before the close
notice, idle timeout, close codes) is modelled from how the code uses it.

### Validation, WireCodec

`Validation` runs `Check` (the per-state diagnostics), `Visit` (one turn of the
search loop, which queues a target once per edge) and `Conclude`. `WireCodec` lets
each side read an artifact with or without a dictionary, or one `compile` did not
write, and sends one envelope, either encoded or made up (`Foreign`). A digest is
modelled as the content it stands for (no collisions). `ReadPayload` models how
serde reads an optional JSON value. `verify` looks at the structure of each endpoint, at
the identity and at the dictionary, and not at how the two endpoints go together. An
artifact put together from projections of two conversations therefore verifies (`Mixed` in
`MCWireCodec`). Its envelopes still come back as they were, but a compact frame may decode to
one that only the other endpoint knows, which the machine then refuses. `Dual` says that
the two endpoints name the same frames at the same states, as those `compile` makes do
(`CompiledPlansVerify`); for such an artifact `CompactIsTheProtocol` says that what is decoded
is a frame the receiving machine accepts at the state the envelope names.

### Draft, DraftExchange

| Variable | Code |
|---|---|
| `file[h]` | the draft file of a host |
| `editor[h]` | an `AutomergeDraft` a caller works on, the heads it read, the file as loaded |
| `memory[r]` | the locals of a sync command: document, `DraftSyncSession`, `EndpointMachine`, rounds |
| `at[r]`, `outcome[r]` | the call the command makes next; how it returned |
| `wire[r]`, `acked` | frames in flight; whether the server's `finish` has returned |

A document is the set of its changes, the first being its creation, and a change holds the
document it was made on: that is what its hash covers, so heads determine a document. Both
files start as copies of one draft. `DraftCreate` may put a new one in the place of a
draft in use, as `draft-create` does not look at its `--out`; two creations share no
history, so a merge of them has two writes to every place the draft starts with, which
`Conflicts` reports and below which nothing can be patched. A patch inside an object and a
patch that puts a scalar in the place of the object do not compete for one key, so
`collect_conflicts` reports neither and the first is gone with the object
(`src/graph.rs:350`). The schema refuses a scalar for every object of a conversation but
those in annotations and in type definitions; `PromotionKeepsEdits` names this as the one
way an edit can go unseen. `OpenDraft`, `PatchDraft` and `SaveDraft` are the three parts
of `draft-patch`, split because other commands run between them; with `--out` the last one
writes to the other draft file, or to a third that nobody reads. `MergeInto` is what a
caller of the library may do between reading heads and patching.

Automerge is external. Its sync protocol is modelled with its parts that matter to the
loops: heads, needed changes, the summary of what a peer has, what was sent already, and a
message in flight. The summary is a Bloom filter, so a message may leave out a change the
peer lacks, which is then asked for by name. The hex text of a sync frame is the message
it encodes. Each loop keeps its place (`at`) apart from the state of its machine, as in
`Generate`. `finish` is two steps in the order `CloseHandshake` shows. The conversation is
the one the loops are written for and the commands take by default,
`examples/draft-sync.colloqconv.json` (`SyncAssumption`). A command that returns or dies
loses its memory and any suffix of its frames in flight; one that died has not written its
file.

### Jev

`Jev` goes on where `Validation` concludes: `bind` refuses a document with diagnostics
before it looks at the binding. `Busy` is a 429 or 529 answer with a back-off left,
`HttpError` the rest of the status codes, `UnusableBody` a body without the answer
asked for, `Answers` the parsed choice. The service is external and may do any of
these at any attempt. A confidence or a threshold is a number on a scale of ten or no
finite number at all, so 0, 1, the threshold itself and values outside the interval
are told apart. The fixture decider of the tests is one of the answers.

### Trust, Service

| Variable | Code |
|---|---|
| `source[h]` | the plan identity a host's conversation file compiles to |
| `key[h]`, `policy[h]` | the identity file, the rules of the policy file |
| `announced[h]`, `granted[h]` | what operators have been shown or told; no code reads them |
| `commands` | commands that have looked at the files and have some left to write |
| `manifest`, `deployed` | `.miren/app.toml`; the image and environment Miren runs |
| `server` | the process: where it is, whom it serves, the plan, key and peers it has read |
| `backlog`, `conn`, `ticket` | connections not accepted; each visitor; the ticket file |

`NodeInit`, `PolicyAllow` and `Bootstrap` are the look a command takes; `SavePrivate` and
`SavePolicy` write one file each, so `bootstrap-two-node` is one look and four writes,
with others in between, because nothing locks the files. A command that is killed leaves
the rest of its files unwritten. `Launch` is a server command up to its accept; `Accept`,
`Establish`, `RefusePeer`, `ReadTimesOut`, `SessionEnds` and `SessionBreaks` are one turn
of its loop, with `Exit` wherever the code leaves through `?`: `SessionBreaks` is the one
after the driver, for a frame that is refused or cannot be decoded and for a finish that
fails. A visitor waits in the backlog while its own ten seconds run; one that has given up
is still accepted. One that falls silent (`Probe`, `Stalls`) is let go by the read timeout
of a TCP socket. `IrohTransport` has no such timeout (`src/runtime/iroh.rs:129`, `258`,
`354`, `411`), so over Iroh a visitor that is in the policy and keeps its connection holds
the server until it goes away (`HeldOverIroh`). `Preface` and `Session` have the steps in
between; here they have only their outcomes. Miren is external: it deploys over a process
that is down and starts what has exited.

## 3. Runs

| Run | Instance | Shows |
|---|---|---|
| `session` | the generate conversation with a self-loop, an edge out of the choice, a state without failure edges and one with some; a network that fails, crashes | `SessionInv`, `NoFrameRejected`, `HalfDuplex`, `NoMutualWait`, `InFlightIsUnseen`, `CommonHistory`, `TraceVerifies`, `SequenceCountsTrace`, `ReportsAgree`, `AbortIsFinal`; `ImplementsSharedLog`; `StopTogether`: when one worker stops so does the other |
| `generate_demo` | every command line with up to two tokens, every budget, every single fault, run twice; 46 250 states | `DriverInStep`, `VerifiedMeansComplete`, `FaultsAreReported`, `SameReportsAgain`, `BothJoin` |
| `fault_receive` | the same with faults on receive | refutes `SameOutcomeAgain` (finding 1) |
| `preface` | three transports, every pair of set-ups; 157 656 states | `EstablishedMeansAgreed`, `NoFalseRejection`, `FramesFollowAgreement`, `HandshakeEnds` |
| `preface_reference` | TCP in reference mode | refutes `NoFrameBeforeSession` (finding 2) |
| `close_handshake` | both transports, either role sending last, prompt or not; 1 336 states | `OkMeansPeerComplete`, `ClientOkMeansServerOk`, `BothFinish`, `NobodyHangs` |
| `validation` | every small document, then `jev-decide` on it with every binding of two routing conversations; 95 000 states | `ValidationIsExact`, `SearchIsExact`, `DecisionIsSanctioned`, `EveryBranchDecidable`, `CommandEnds` |
| `wire_codec` | pairs of artifacts, every envelope and made-up item; 12 508 states | `RestoredExactly`, `CompactIsTheProtocol` |
| `wire_payload` | compiled plans, null payloads | refutes `FrameReconstructed` (finding 3) |
| `draft_sync` | two hosts, edits of one field, of a field in an annotation and of the annotation itself, a draft created anew, saves to the other file, one session; 1 131 244 states | `LoopsStayTogether`, `CompletionIsShared`, `EditsReplaceWhatWasRead`, `PromotionKeepsEdits`, `EditsLostOnlyToBlindWrites` |
| `service` | the three server commands, by hand and deployed, two visitors, overlapping commands, crashes, silence at any point, broken sessions, kills; 459 095 states | `SessionsAreSanctioned`, `ServiceRecovers`, `TrustLostOnlyToOverlap` |
| `service_forever` | `serve --forever` without crashes and with one plan | refutes `ForeverKeepsAccepting` (finding 4) |

The type invariant of `Session` is `TypeOK`, a conjunct of `SessionInv`, checked and
proved; those of the other modules are conjuncts of the invariants in their proof
modules. Sessions, handshakes and validations end, so a state without successor is normal
and `CHECK_DEADLOCK FALSE` is set; that nobody is stuck is stated by the liveness
properties and by `NoMutualWait`.

To run one: `tlc -config MCSession.cfg MCSessionRefinement`. The proofs:
`tlapm SessionProofs.tla`, and so on for each module that ends in `Proofs`.

### Bounds

* `MaxFrames` stops new frames once a machine has counted that many, unless the peer
  is already gone. Seven goes through the conversation to its end, or round its loops
  and out by every other edge; twenty
  is above what two tokens can produce, so it never binds in `generate_demo`.
* Tokens `0..2` give a loop that is skipped, taken once and repeated; budgets none and
  `0..2` put the cancellation before, at and after the end of generation.
* `MaxOccurrence = 8` is past the last call either driver makes with two tokens;
  occurrence 0 is the one the plan check refuses.
* Two plans and two or three roles make every kind of mismatch possible; one frame per
  side (`MaxSends`) is enough for a frame to stand where a preface or a verdict is
  expected.
* Documents have up to four states over few names: enough for an unreachable state, a
  cycle without an exit, a self-loop, a dangling target, a duplicate id, a bad header and a
  failure edge to a wrong kind of state.
* `MaxId = 5` lies just below and just above the number of transitions of the plans
  checked, so the u16 limit is met.
* `MaxEdits = 3` is the creation the two files start from and two changes more: concurrent
  edits of one field, of an object and a field in it, a dependent pair, an edit beside a
  second creation, two new creations. `MaxRounds = 3` lets an exchange converge and lets
  it run into the limit (`MAX_SYNC_ROUNDS` is 1024). With `MaxSessions = 1` the session may
  start on any two files that edits, saves and creations lead to, and they go on during
  the session and after it. Files that a failed session leaves, saved on one side only,
  are two copies with different changes, as edits leave them too; the theorems hold for
  every number of sessions. Patches include a pointer to no place and a value that is no
  scalar.
* Labels, criteria and thresholds of a binding come from sets with names that fit and
  names that do not; the back-off list is the code's own two.
* `Visitors = 2` lets one be served while the other waits and gives up;
  `MaxPlan = 2` is one edit of the conversation on each host; `MaxCommands = 2` is a
  bootstrap and a second one, a `node-init` or a `policy-allow` that overlaps it, between
  any two of its writes. Two `policy-allow` on one host with the `node-init` they need are
  three commands, as are the new grants on both hosts after a bootstrap: those are left to
  `OverlapTheorem` and `SanctionedTheorem`.
* The conversations keep two or three of the five failures in `examples/`: which
  failure it is matters only through being declared and being the peer's.

### Fairness

* `Session`: weak fairness of each worker's `Progress`: a worker that can run does,
  and a call on a transport whose other end is gone returns (channels disconnect,
  sockets report the end or the idle timeout). Nothing is assumed about failures
  that may happen or about crashes. A receive whose peer is alive and slow may wait for
  ever, which is why `StopTogether` starts from a worker that has stopped.
* `FaultReplay`: two threads of one process, both scheduled.
* `Preface`: both commands call `establish_session` as soon as they are connected;
  a side whose peer has left finds out.
* `CloseHandshake`: steps of `finish`, delivery of what a living endpoint queued, and
  noticing a close, at the latest by the idle timeout. Timeouts and aborts are not
  forced except when the peer is known to be gone.
* `Jev`: the one thread of the command runs; the client sets a global timeout on every
  request, so a request in progress ends.
* `Service`: weak fairness of the server's steps and of Miren's restart. Over TCP every wait
  of the server has a limit (read and write timeouts, the token limit). Over Iroh reads
  have none, so no step of the server is enabled while an accepted visitor keeps silent;
  `ServiceRecovers` excepts exactly the behaviours in which one does so for ever, and TLC
  refutes it without the exception. Nothing is assumed of visitors, who may wait, vanish,
  break the protocol or stay silent.
* `WireCodec`, `DraftExchange`: none; what is stated of them is safety.
  `LoopsStayTogether` says among other things that two living sync commands never wait for each other, and the
  round limit does the rest.

## 4. Proofs

Every theorem holds for all values of the constants that satisfy the named assumptions:
conversations and documents of every size, every set of set-ups, paths, patches, answers
and bindings, any number of plans and visitors, any bound on frames, edits, rounds and
commands. The bounds therefore take nothing away from what is proved.

| Module | Theorem | Statement |
|---|---|---|
| `SessionProofs` | `SessionInvariant` | `Spec => []SessionInv` |
| | `TypeCorrect` | `Spec => []TypeOK` |
| | `NoFrameIsRejected` | `accept` never refuses an honest peer's frame |
| | `TracesAgree` | the two traces agree wherever both have an entry |
| | `WireHoldsTheUnseen` | in flight is exactly what was sent and not yet received |
| | `HalfDuplexAlways` | only one machine at a time has the turn |
| | `NoDeadlockOnTurns` | two live workers are never both waiting with nothing in flight |
| | `ReportsAlwaysAgree` | two fault-free reports have one trace and one final state |
| | `AbortIsFinalAlways` | nothing is sent, recorded or moved after an abort |
| | `TraceAlwaysVerifies` | `verify_trace` accepts every record and ends where the role is |
| | `CountFollowsTrace` | the frame count is the length of the record, but for a failed send at a self-loop |
| | `SessionImplementsSharedLog` | the session implements the shared log |
| `GenerateProofs` | `DriversRunTheSession` | `GenSpec => Spec`: what is proved of sessions holds of the drivers |
| | `GenerateInvariant` | `GenSpec => []GenInv`, and the same over two runs |
| | `DriversStayInStep` | no driver asks its machine for an action of another state |
| | `VerifiedIsComplete` | `verify-session` accepts exactly the pairs of reports of a complete run, with the tokens counted |
| | `FaultsAlwaysReported` | an injected fault is in both reports, each with the failure assigned to that role |
| | `ReportsReproduced` | two runs of one configuration that fails a send, or nothing, report the same |
| `PrefaceProofs` | `PrefaceInvariance` | `PrefaceSpec => []PrefaceInv` |
| | `AgreedTheorem` | who believes in a session has a fitting peer that accepted |
| | `NoFalseRejectionTheorem` | fitting sides are not turned away |
| | `FramesTheorem` | frames and verdicts are read as what they were written as |
| `CloseProofs` | `CloseInvariance` | `CloseSpec => []CloseInv` |
| | `OkTheorem` | Ok from `finish` means the peer completed |
| | `ClientOkTheorem` | the client's success means the server's |
| `ValidationProofs` | `JevInvariance` | `JevSpec => []JevInv` |
| | `SearchTheorem` | the search visits exactly what is within reach |
| | `ExactTheorem` | `validate` accepts the sound documents and no others |
| | `DecisionTheorem` | a label given out is one the bound state permits |
| | `DecidableTheorem` | binding cuts no branch off |
| `CodecProofs` | `CompiledPlansVerify` | `verify` accepts what `compile` makes, whatever the conversation |
| | `CodecInvariance` | `CodecSpec => []CodecInv` |
| | `RestoredTheorem` | between plans of one identity every envelope comes back as it was sent |
| | `CompactTheorem` | the compact encoding covers the transitions and nothing else |
| `DraftProofs` | `DraftInvariance` | `ExchangeSpec => []DraftInv` |
| | `ReplaceTheorem` | an edit replaces only what its editor had read |
| | `PromotionTheorem` | promotion drops no edit on its own |
| | `EditsTheorem` | an edit is lost only to a document made without a look at it: an overlapping write-back, `--out` over another draft, a new creation |
| | `SyncInvariance` | `ExchangeSpec => []SyncInv` |
| | `LoopsTheorem` | the two sync loops meet no frame they refuse and never wait for each other |
| | `CompletionTheorem` | an acknowledged exchange has converged, and its end is shared |
| `ServiceProofs` | `ServiceInvariance` | `ServiceSpec => []ServiceInv` |
| | `SanctionedTheorem` | a session rests on one plan and on grants of both operators |
| | `OverlapTheorem` | a key or grant is lost only to a command that had looked before it, at any of its writes |

### Assumptions

* `ConversationAssumption`: the conversation is `WellFormed` (two roles, known targets,
  actors and peers that are roles, failure edges that end in fail states with that
  failure). `ExactTheorem` says that `validate` establishes it for every document it
  accepts.
* `RolesAssumption`, `GenerateAssumption`: the drivers run the generate conversation over a
  memory pair, as `run_generate_client_plan` and `run_generate_server_plan` do: they name its
  states and labels in the code. `ConfigAssumption`: a command line has numbers, at most one
  limit and at most one fault.
* `ArtifactAssumption`: an artifact is finite, whatever file it was read from. `FrameAssumption`:
  a frame is one of the four variants of the enum. `MaxIdAssumption`: the largest number
  of a transition is a number; it may be anything.
* `SyncAssumption`: the draft-sync conversation of the examples. The loops match on its
  labels and know its order of turns, so another conversation would make them fail.
  `RoundsAssumption`, `EditsAssumption`: bounds are numbers.
* `DocumentAssumption`: a document is what serde makes of its text, sequences and states of
  the five variants with finite maps. Names may clash, dangle or be empty.
* `NumberAssumption`: a threshold or confidence is a number or no finite number.
* `ParentAssumption`, `PatchAssumption`: a path lies in at most objects of the base
  document, one level deep, and a patch writes a value. `SetupAssumption`, `KindAssumption`,
  `ServiceAssumption` and the rest give constants their sorts.

TLC evaluates all of them on the instances of the runs.

### Arguments

**Session.** None of the properties is inductive alone: that a frame is accepted
depends on the receiver being at the state the frame names, which depends on how it
got there. `SessionInv` adds

* `RecordsAreWalks`: each record is a walk through the conversation, every entry
  naming the state it was taken at and its position;
* `MachineFollowsRecord`: a machine is where its record leads, or, between emit and
  send, one step past it;
* `AheadInOwnTurn`: the role with the longer record took all the extra entries in its
  own turns, and its peer has nothing prepared;
* `StatusOK`: which endpoints are closed and why,

to `CommonHistory`, `InFlightIsUnseen`, `NoFrameRejected` and the types. With a common
prefix and deterministic steps (`StepFacts`) two records of the same length lead to
the same state (`SamePosition`), and the next entry of the longer record starts where
the shorter one's machine is: so the head of the wire is what `accept` expects. At one
state only one role can act (`ProjectedKinds`), which gives `HalfDuplex` and
`NoMutualWait`. The step proof has one lemma per family of actions (emit, send,
receive, failed call, leave) and one step per conjunct under each.

**Records and refinement.** `VerifyTrace` is a recursive function. A candidate solution
is written down from `RecordsAreWalks`, so the recursion has one, and an induction over
the natural numbers (`NatSet`) shows that every solution agrees with it. For the frame
count each step is first reduced to what it does to the records (`RecordSteps`). The
refinement maps the longer record to the log; each family of actions is a step of the
log or a stutter.

**Drivers.** Every step of the drivers and the injector is a step of `Session` or leaves it
alone, so `SessionInv` comes for nothing. `GenInv` adds

* `InStep`: the call a driver makes next is the one its machine's state calls for, which
  is what a hand-written loop has to get right and what `DriverInStep` says;
* `TokensCounted`, `ServerBounds`, `ClientBounds`: a token count follows from the length of
  the record and stays within the command line's number and limit, so that two completed
  records have the same number of tokens;
* `FaultsLead`, `FaultsHaveACause`, `InjectionOK`, `ViewsAreAssigned`: a fault is the last
  thing in a record; it is there because the plan struck, or the peer stopped; and
  a role that is inside a chosen call, or whose link was taken down by one, records the
  failure the plan gives that role.

That two runs report the same needs more, because the interleaving differs. Under a
configuration that fails no receive, `Script` says that entry `i` of either record is what
a function of the configuration says it is, that nobody gets past the first send that is
to fail, and that the number of sends of a role follows from its place. So the reports of
a finished run are determined (`Settled`), and `ReplayInv` keeps that of the first run
while the second one is under way. With a fault on receive this breaks where finding 1
says: the peer's record may be shorter.

**Codec.** A dictionary is derived by walking the states of two endpoints in an order and
numbering what was not seen before. Lists of finite sets are shown to exist by induction
over the cardinality, so `compile` always has a dictionary to offer, and `verify`
recomputes the very same. `CodecInv` says that both sides hold what `verify` let
through (`TablesVerified`) and that what is on its way is what its sender's table makes of
its message, or bytes no encoder made (`EnvelopeOK`). Equal identities give equal tables
even where one artifact came without a dictionary, and in a verified one a number stands
for one transition.

**Preface.** `PrefaceInv` says, for each side and phase, what its stream can hold
(`ShapeOK`), what that says about its writer (`WriterOK`), what a verdict in flight or
read means (`VerdictOK`, `FitOK`) and, where sessions are insisted on, that frames come
last (`InsistOK`). Without the shape of the stream a verdict could be read out of a
frame, and nothing would follow from having read one.

**Close handshake.** `CloseInv` follows each role through its list of steps: what a
queue and a stream hold are the markers of the steps done (`MarkerOK`), a step past a
read means the peer wrote (`ReadOK`), and a notice of the end means there was one
(`NoticeOK`).

**Validation and Jev.** The first pass is compared with `Sound` code by code and state
by state (`StateExact`, `FirstPassExact`). The reference `Within` goes as many edges deep
as there are states; `WithinFacts` shows by a counting argument (a level is closed or
has a state more than the one before) that it is the least set with the initial state
that no edge leaves. The search keeps `Searching`: visited and queued ids are within
reach, include the initial state and every successor of what was visited; with an empty
queue the visited set is closed, hence all of `Within`. A queue of edges in any order is
one of `SetToSeqs`, shown to list every edge (`OrderingFacts`). `CommandInv` adds that a
bound choice has passed every check of `bind`.

**Drafts.** `DraftInv` says of every document anywhere, in a file, an editor, a sync
command or a message, that it is finite and that each of its changes is a creation or was
made on the very document its editor had read, and of every editor and sync command that
it only adds to what it loaded. Merges and syncs are unions of such sets.
`PromotionTheorem` needs the finiteness to count: without a conflict at most one write to
a path is unseen by all others, and it is the one `materialize` shows.

**Sync loops.** That no frame is refused, that nobody waits for nothing and that the end
is shared are not inductive: each depends on what is in flight, and that on how far both
loops are. `SyncInv` has three parts. `CommandOK` and `InboxOK` speak of one command,
whether or not the other still runs: its place goes with the state of its machine
and with its round counter, and what it finds in flight is a frame for that place, an
announcement always before its message. While both run, `Together` says that they
are at one of six points of a round: the client's turn, its message on its way, received,
the answer on its way, the server idle, the client done (`AtTurn` to `Ending`). Each
point carries what the sync states of Automerge say there: a side that is in flight
and was answered knows the other's document, and an idle server or a done client has an
equal one. `ContentOK` says that no change is made up on the way and that the heads in a
message are still those of its sender. `Abandoned` is about the round limit, the one way
out of a loop that the peer is not told of: the client whose server has given up is in its
last round as well, so its own end cannot be a success. The lemmas about `Received` show
that a command takes up a change once its dependencies are there, so that knowing the other's
heads and missing none of them means having its document.

**Trust and service.** `ServiceInv` says that an unfinished command goes by its files
having been absent, or has one policy to write with all the rules it loaded (`CommandOK`),
that rules in files, environments and processes have been granted (`CopiesAreGrants`),
that a running server holds the plan, key and peers it read (`ServerOK`), and that a
visitor on its way holds what its policy sanctioned with the key of the server it reached
(`ConnectionsOK`).

TLC has checked each of these invariants on the instances of the runs (the one over two
reports with its length bounded, since `Settled` ranges over the numbers).

### Only model-checked

* all liveness: `StopTogether`, `BothJoin`, `HandshakeEnds`, `BothFinish`, `NobodyHangs`,
  `CommandEnds`, `ServiceRecovers`. Fairness and `ENABLED` are beyond the prover. For the
  sync loops, for which no fairness is assumed, `LoopsStayTogether` is the safety part;
* the four properties that are refuted (section 5).

## 5. Where the documents and the code differ

1. **A plan that fails a receive is not reproducible** (`fault_receive`).
   `docs/runtime.md:116` says the fault plan "makes this behavior reproducible"; a
   receive chosen to fail fails when the call is made, and how far the peer got by then
   is up to the scheduler (`src/runtime.rs:645`). A plan that fails a send is
   reproducible (`SameReportsAgain`).
2. **Reference mode carries frames without a session** (`preface_reference`).
   `docs/runtime.md:24` says network transports "refuse frame I/O until the preface
   succeeds"; `require_compact_session` asks only when the codec is compact
   (`src/runtime.rs:928`, `1204`). The Iroh transport always asks.
3. **A null payload arrives as no payload** (`wire_payload`). `docs/wire.md:43` says the
   receiver "reconstructs the complete semantic frame"; `Some(Null)` is written as
   `null` and read as `None` (`src/lib.rs:746`, `src/runtime.rs:100`), so the two
   traces differ.
4. **`serve --forever` stops at the first visitor that gives up** (`service_forever`).
   The help text of the option (`src/main.rs:243`) is "Continue accepting conversations
   instead of exiting after the first session"; the loop leaves through `?` when the preface fails
   (`src/main.rs:809`), and a client that waited in the backlog longer than its own
   ten seconds makes it fail. Under Miren the service comes back (`ServiceRecovers`),
   and whoever was waiting with it is lost.

## 6. Not modelled

* certificates and signatures, connection set-up inside the libraries, the text of
  tickets, keys, policies and manifests: cryptography and I/O. What a file says and when
  it is read and written is modelled;
* byte framing and size limits, beyond "does not fit";
* digests as bytes, identifier syntax, diagnostic texts and locations;
* `deadline` fields: no code reads them;
* payload contents and type checking of payloads (the runtime does none);
* a draft file torn by a crash in the middle of a write, lists in drafts beyond "no such
  place", the kinds of JSON numbers and pointer escapes;
* how long the Iroh library keeps a silent connection, by its keep-alive and idle
  settings: in `Service` such a visitor may hold the server for ever;
* `serve-quic`, which is `serve` with another transport, several instances under one
  Miren application, and the grants `bootstrap-two-node` makes for the draft
  conversation;
* the checks of command-line options, and the benchmarks: no protocol state.

## 7. Plan

Built so far, in order of importance: `Conversation`, `Session` with its proofs and
refinement, `Generate` and `FaultReplay`, `Preface`, `CloseHandshake`, `Validation` with
`Jev`, `WireCodec`, `Draft` with `DraftExchange`, `Trust` with `Service`, and the proof
modules of section 4. No safety property of a passing run is left without a theorem.
What section 6 leaves out has no protocol state or belongs to a library. When the code
changes, the places to start from are

1. a new call of a driver or a sync loop: `InStep` of `GenerateProofs`, `Together` of
   `DraftProofs`, each with one lemma per call;
2. a new check in `verify` that the two endpoints are projections of one conversation
   would make `Dual` a fact about every verified artifact and take the condition out of
   `CompactIsTheProtocol`;
3. limits on the reads of the Iroh transport would take the exception out of
   `ServiceRecovers`; a look at the file before `draft-create` and `--out` write would take
   two of the three out of `EditsLostOnlyToBlindWrites`; and a draft file written beside the
   old one and renamed would turn the one hazard without a property (a torn file, section
   6) into a property of `Draft`, that a killed command leaves a file that can be read.
