--------------------------- MODULE DraftExchange ---------------------------
(***************************************************************************)
(* draft-serve-iroh and draft-connect-iroh: two commands load their draft  *)
(* files, run run_draft_sync_client and run_draft_sync_server over one     *)
(* established session, and save.  Editors may work on the same files.     *)
(*                                                                         *)
(* Both drivers are loops next to a machine of the draft-sync conversation *)
(* (Sync).  The conversation declares no failures: any call that fails     *)
(* ends its command, and dropping the transport takes with it any suffix   *)
(* of what is in flight.                                                   *)
(***************************************************************************)
EXTENDS Draft, Conversation

CONSTANTS
  Sync,          \* the draft-sync conversation
  MaxRounds,     \* MAX_SYNC_ROUNDS
  MaxSessions    \* bound on the sessions run one after the other

Client == "client"
Server == "server"

ASSUME RoundsAssumption == MaxRounds \in Nat /\ MaxSessions \in Nat

\* The conversation the loops are written for, and the one the commands take by default:
\* examples/draft-sync.colloqconv.json.
NoEdges == [f \in {} |-> ""]

ASSUME SyncAssumption ==
  /\ Sync.roles = Host /\ Sync.initial = "client-turn"
  /\ Sync.states["client-turn"] = ChoiceState(Client,
       [l \in {"message", "done"} |-> IF l = "message" THEN "client-send" ELSE "end"], NoEdges)
  /\ Sync.states["client-send"] = SendState(Client, Server, "sync", "server-turn", NoEdges)
  /\ Sync.states["server-turn"] = ChoiceState(Server,
       [l \in {"message", "idle"} |-> IF l = "message" THEN "server-send" ELSE "client-turn"],
       NoEdges)
  /\ Sync.states["server-send"] = SendState(Server, Client, "sync", "client-turn", NoEdges)
  /\ Sync.states["end"] = EndState

VARIABLES
  at,        \* the call each command makes next
  memory,    \* what a command holds in memory, lost when it stops:
             \*   doc, loaded: the document, and as it was read from the file
             \*   held: changes Automerge keeps until their dependencies arrive
             \*   peer: its DraftSyncSession
             \*   outbox: the sync message that is generated and not sent
             \*   machine: the state of its endpoint machine
             \*   round: the rounds its loop has finished
  wire,      \* frames in flight from a role
  acked,     \* the server's finish has returned
  outcome,   \* "running", "ok", "error", "rounds", "refused"
  sessions   \* how many sessions have been started

exchangeVars == <<at, memory, wire, acked, outcome, sessions>>
allVars == <<draftVars, exchangeVars>>

(***************************************************************************)
(* Automerge's sync protocol, as generate_sync_message and                 *)
(* receive_sync_message use it (external).  A message has the heads of its *)
(* sender, a summary of what it has or none, the changes it asks for by    *)
(* name, and changes.  The summary is a Bloom filter: a change may pass    *)
(* for one the peer has, but then no change that depends on one sent does. *)
(***************************************************************************)
NewSession ==
  [their |-> {}, need |-> {}, have |-> "unknown", last |-> {}, responded |-> FALSE,
   in_flight |-> FALSE, sent |-> {}]

Newest(d) == {c \in d : ~\E e \in d : c \in e.past}

MissingDeps(d, held, their) ==
  (UNION {Newest(t) : t \in their} \cup UNION {Newest(c.past) : c \in held}) \ (d \cup held)

\* The changes a message may carry.
ToSend(d, s) ==
  LET asked == s.need \cap d
      lacking == d \ UNION s.their
      dependents == {x \in SUBSET lacking :
                       \A c \in x, e \in lacking : c \in e.past => e \in x}
  IN  CASE s.have = "unknown" -> {{}}
        [] s.have = "nothing" -> {asked \ s.sent}
        [] s.have = "summary" -> {(x \cup asked) \ s.sent : x \in dependents}

\* generate_sync_message with changes x: the message, unless there is none.
SyncMessage(d, held, s, x) ==
  LET need == MissingDeps(d, held, s.their) IN
  Only(~(/\ s.last = {d} /\ s.responded
         /\ (s.their = {d} /\ x = {}) \/ s.in_flight),
       [heads |-> d, need |-> need, changes |-> x,
        have |-> need \subseteq UNION {Newest(t) : t \in s.their}])

AfterGenerate(d, s, x) ==
  [s EXCEPT !.last = {d}, !.responded = TRUE, !.in_flight = TRUE, !.sent = @ \cup x]

\* receive_sync_message: changes are applied once all they depend on is there.
Applied(d, held, m) ==
  LET pool == held \cup m.changes IN d \cup {c \in pool : c.past \subseteq d \cup pool}

AfterReceive(d, s, m) ==
  [s EXCEPT !.their = {m.heads}, !.need = m.need, !.in_flight = FALSE,
            !.have = IF m.have THEN "summary" ELSE "nothing",
            !.sent = @ \ m.heads,
            !.last = IF m.changes = {} /\ m.heads = d THEN {d} ELSE @]

Fresh ==
  [doc |-> {}, loaded |-> {}, held |-> {}, peer |-> NewSession, outbox |-> {},
   machine |-> Sync.initial, round |-> 0]

(***************************************************************************)
(* Frames.  A sync frame carries the message its bytes encode.             *)
(***************************************************************************)
Running(r) == outcome[r] = "running"

\* A command is at call c of its loop.
Calls(r, c) == at[r] = c /\ Running(r)

\* A command returns or dies.  Its memory is gone, and any suffix of what it
\* has in flight is lost with its transport.
Leave(r, how) ==
  /\ outcome' = [outcome EXCEPT ![r] = how]
  /\ at' = [at EXCEPT ![r] = "stopped"]
  /\ memory' = [memory EXCEPT ![r] = Fresh]
  /\ \E n \in 0..Len(wire[r]) : wire' = [wire EXCEPT ![r] = SubSeq(wire[r], 1, n)]

\* emit and send: r goes on at next with memory m.  A frame the machine does
\* not permit ends the command.
SendFrame(r, frame, message, m, next) ==
  LET target == TraceStep(Sync, memory[r].machine, frame) IN
  \/ /\ target # {}
     /\ \E s \in target : memory' = [memory EXCEPT ![r] = [m EXCEPT !.machine = s]]
     /\ wire' = [wire EXCEPT ![r] = Append(@, [frame |-> frame, message |-> message])]
     /\ at' = [at EXCEPT ![r] = next]
     /\ UNCHANGED outcome
  \/ /\ target = {}
     /\ Leave(r, "refused")

Incoming(r) == wire[OtherHost(r)]

\* receive and accept: r goes on at one of next with memory m.  A frame that
\* the machine refuses, or that the loop has no arm for, ends the command.
ReceiveFrame(r, m, next) ==
  LET g == Sync.states[memory[r].machine]
      target == AcceptTarget(ProjectState(g, r), r, Head(Incoming(r)).frame)
  IN
  /\ wire' = [wire EXCEPT ![OtherHost(r)] = Tail(@)]
  /\ \/ /\ target # {} /\ next # {}
        /\ \E s \in target : memory' = [memory EXCEPT ![r] = [m EXCEPT !.machine = s]]
        /\ \E n \in next : at' = [at EXCEPT ![r] = n]
        /\ UNCHANGED outcome
     \/ /\ target = {} \/ next = {}
        /\ at' = [at EXCEPT ![r] = "stopped"]
        /\ outcome' = [outcome EXCEPT ![r] = "refused"]
        /\ memory' = [memory EXCEPT ![r] = Fresh]

\* The loop's match on a selection.
Arm(r, label, next) ==
  LET f == Head(Incoming(r)).frame IN Only(f.op = "select" /\ f.label = label, next)

RoundDone(m) == [m EXCEPT !.round = @ + 1]

(***************************************************************************)
(* The drivers.                                                            *)
(***************************************************************************)
LoadDraft(r) ==
  /\ Calls(r, "load")
  /\ memory' = [memory EXCEPT ![r].doc = file[r], ![r].loaded = file[r]]
  /\ at' = [at EXCEPT ![r] = IF r = Client THEN "turn" ELSE "wait"]
  /\ UNCHANGED <<draftVars, wire, acked, outcome, sessions>>

\* The end of either loop.
TooManyRounds(r) ==
  /\ Calls(r, "turn") \/ Calls(r, "wait")
  /\ memory[r].round = MaxRounds
  /\ Leave(r, "rounds")
  /\ UNCHANGED <<draftVars, acked, sessions>>

\* A message is generated, announced and kept for the next frame; without one
\* the driver selects quiet and goes on at next with memory m.
Offer(r, quiet, m, next) ==
  LET mem == memory[r] IN
  \E x \in ToSend(mem.doc, mem.peer) :
    LET offered == SyncMessage(mem.doc, mem.held, mem.peer, x)
        after == [mem EXCEPT !.outbox = offered, !.peer = AfterGenerate(mem.doc, mem.peer, x)]
    IN
    \/ offered # {} /\ SendFrame(r, SelectFrame(r, "message"), {}, after, "data")
    \/ offered = {} /\ SendFrame(r, SelectFrame(r, quiet), {}, m, next)

ClientTurn ==
  /\ Calls(Client, "turn") /\ memory[Client].round < MaxRounds
  /\ Offer(Client, "done", memory[Client], "finish")
  /\ UNCHANGED <<draftVars, acked, sessions>>

\* Mutated form: the server is quiet once it has spoken.
ServerAnswerBriefly ==
  /\ Calls(Server, "answer")
  /\ IF memory[Server].peer.responded
     THEN SendFrame(Server, SelectFrame(Server, "idle"), {}, RoundDone(memory[Server]), "wait")
     ELSE Offer(Server, "idle", RoundDone(memory[Server]), "wait")
  /\ UNCHANGED <<draftVars, acked, sessions>>

\* Mutated form: a server with nothing to say does not select idle.
ServerAnswerSilently ==
  /\ Calls(Server, "answer")
  /\ \/ Offer(Server, "idle", RoundDone(memory[Server]), "wait")
     \/ /\ at' = [at EXCEPT ![Server] = "wait"]
        /\ memory' = [memory EXCEPT ![Server] = RoundDone(@)]
        /\ UNCHANGED <<wire, outcome>>
  /\ UNCHANGED <<draftVars, acked, sessions>>

ServerAnswer ==
  /\ Calls(Server, "answer")
  /\ Offer(Server, "idle", RoundDone(memory[Server]), "wait")
  /\ UNCHANGED <<draftVars, acked, sessions>>

SendSync(r) ==
  LET sent == [memory[r] EXCEPT !.outbox = {}] IN
  /\ Calls(r, "data")
  /\ SendFrame(r, DataFrame(r, OtherHost(r), "sync"), memory[r].outbox,
               IF r = Client THEN sent ELSE RoundDone(sent),
               IF r = Client THEN "reply" ELSE "wait")
  /\ UNCHANGED <<draftVars, acked, sessions>>

ClientReply ==
  LET idle == Arm(Client, "idle", "turn") IN
  /\ Calls(Client, "reply") /\ Incoming(Client) # <<>>
  /\ IF idle # {}
     THEN ReceiveFrame(Client, RoundDone(memory[Client]), idle)
     ELSE ReceiveFrame(Client, memory[Client], Arm(Client, "message", "body"))
  /\ UNCHANGED <<draftVars, acked, sessions>>

ServerWait ==
  /\ Calls(Server, "wait") /\ memory[Server].round < MaxRounds /\ Incoming(Server) # <<>>
  /\ ReceiveFrame(Server, memory[Server],
                  Arm(Server, "message", "body") \cup Arm(Server, "done", "finish"))
  /\ UNCHANGED <<draftVars, acked, sessions>>

\* The data frame, sync_payload and receive_sync_message.  A frame without a
\* sync message in it is one more the command ends on.
ReceiveSync(r) ==
  /\ Calls(r, "body") /\ Incoming(r) # <<>>
  /\ IF Head(Incoming(r)).message = {} THEN ReceiveFrame(r, memory[r], {})
     ELSE \E m \in Head(Incoming(r)).message :
       LET mem == memory[r]
           now == Applied(mem.doc, mem.held, m)
           after == [mem EXCEPT !.doc = now, !.held = (@ \cup m.changes) \ now,
                                !.peer = AfterReceive(mem.doc, mem.peer, m)]
       IN  IF r = Client THEN ReceiveFrame(r, RoundDone(after), {"turn"})
                         ELSE ReceiveFrame(r, after, {"answer"})
  /\ UNCHANGED <<draftVars, acked, sessions>>

\* finish, by what CloseHandshake shows of it: the server's returns once the
\* client has come to its own, the client's only after the server's.
FinishSync(r) ==
  /\ Calls(r, "finish")
  /\ IF r = Server THEN Calls(Client, "finish") ELSE acked
  /\ acked' = TRUE
  /\ at' = [at EXCEPT ![r] = "save"]
  /\ UNCHANGED <<draftVars, memory, wire, outcome, sessions>>

SaveSync(r) ==
  /\ Calls(r, "save")
  /\ file' = [file EXCEPT ![r] = memory[r].doc]
  /\ Leave(r, "ok")
  /\ UNCHANGED <<editor, edits, acked, sessions>>

\* A call fails, or the process is killed.
Fail(r) ==
  /\ Running(r)
  /\ Leave(r, "error")
  /\ UNCHANGED <<draftVars, acked, sessions>>

\* Both commands are started, on the files as they are.
NextSession ==
  /\ \A r \in Host : ~Running(r)
  /\ sessions < MaxSessions
  /\ sessions' = sessions + 1
  /\ at' = [r \in Host |-> "load"]
  /\ wire' = [r \in Host |-> <<>>]
  /\ acked' = FALSE
  /\ outcome' = [r \in Host |-> "running"]
  /\ UNCHANGED <<draftVars, memory>>

ExchangeInit ==
  /\ DraftInit
  /\ at = [r \in Host |-> "stopped"]
  /\ memory = [r \in Host |-> Fresh]
  /\ wire = [r \in Host |-> <<>>]
  /\ acked = FALSE
  /\ outcome = [r \in Host |-> "ok"]
  /\ sessions = 0

Drive(r) ==
  \/ LoadDraft(r) \/ TooManyRounds(r) \/ SendSync(r) \/ ReceiveSync(r)
  \/ FinishSync(r) \/ SaveSync(r)
  \/ r = Client /\ (ClientTurn \/ ClientReply)
  \/ r = Server /\ (ServerWait \/ ServerAnswer)

ExchangeNext ==
  \/ Edit /\ UNCHANGED exchangeVars
  \/ NextSession
  \/ \E r \in Host : Drive(r) \/ Fail(r)

ExchangeSpec == ExchangeInit /\ [][ExchangeNext]_allVars

-----------------------------------------------------------------------------
(***************************************************************************)
(* Properties.                                                             *)
(***************************************************************************)
\* The loops of draft_exchange.rs never ask their machines for a frame that is
\* not permitted, nor meet one they have no arm for, whatever the other side
\* has to say and when.
LoopsInStep == \A r \in Host : outcome[r] # "refused"

\* Done means converged: when the exchange is acknowledged, both commands hold
\* the changes of both files, although the client stops at the first round in
\* which it has nothing to say.
ConvergedWhenDone ==
  (acked /\ \A r \in Host : Running(r)) =>
    \A r \in Host : memory[r].doc = memory[Client].loaded \cup memory[Server].loaded

\* The two round counters agree: a server has not given up on a client that
\* has come to its end.
RoundsCountedAlike == at[Client] \in {"finish", "save"} => outcome[Server] # "rounds"

\* Both parts: a command that reports a completed exchange has a peer that
\* completed it too, with the same changes.
CompletionIsShared == ConvergedWhenDone /\ RoundsCountedAlike

\* What was saved to a draft file stays in it, unless a write puts there a document
\* that was made without a look at it.  There are three such writes: an editor or a
\* sync command writes back a file that has changed since it was loaded; draft-patch
\* --out writes to a file its editor did not load; draft-create writes a document of
\* its own.  Each ends its command, and what it leaves is its document, whole.
EditsLostOnlyToBlindWrites ==
  [][\A h \in Host :
       \/ file[h] \subseteq file'[h]
       \/ \E g \in Host : \E e \in editor[g] :
            /\ e.patched /\ editor'[g] = {}
            /\ file'[h] = e.doc
            /\ g # h \/ e.from # file[h]
       \/ /\ at[h] = "save"
          /\ file'[h] = memory[h].doc
          /\ memory[h].loaded # file[h]
       \/ file'[h] = {Creation(edits)} /\ edits' = edits + 1]_allVars

\* A command in receive with nothing to read, or in finish before its turn.
Waiting(r) ==
  \/ at[r] \in {"wait", "reply", "body"} /\ Incoming(r) = <<>>
  \/ r = Server /\ at[r] = "finish" /\ at[Client] # "finish"
  \/ r = Client /\ at[r] = "finish" /\ ~acked

\* Two living commands are never both waiting, so the exchange goes on until
\* one of them returns: neither loop has a limit on how long it waits.
NoStandstill ==
  ~\A r \in Host : Running(r) /\ Waiting(r) /\ memory[r].round < MaxRounds

\* Both parts: the two loops and the two machines stay together through every
\* exchange, so that neither an error nor a standstill of the loops' own making
\* ends one.
LoopsStayTogether == LoopsInStep /\ NoStandstill

=============================================================================
