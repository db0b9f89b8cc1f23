------------------------------ MODULE Service ------------------------------
(***************************************************************************)
(* A server and those who connect to it: serve, serve --forever and        *)
(* serve-iroh, started by hand or deployed by Miren from what emit-miren   *)
(* wrote, and the commands connect and connect-iroh.                       *)
(*                                                                         *)
(* The server takes one connection at a time.  The others wait in the      *)
(* backlog, their own ten seconds running, and are lost when the process   *)
(* exits.  Preface has the steps of establish_session and Session those of *)
(* a conversation; here both are a few steps with the outcomes they have.  *)
(***************************************************************************)
EXTENDS Trust

CONSTANTS
  Visitors,     \* bound: connections, each one run of connect or connect-iroh, or a probe
  Mode,         \* the commands to look at: "serve", "forever", "iroh"
  Faults        \* whether visitors may crash, fall silent or break the protocol, and
                \* the server be killed

Visitor == 1..Visitors

ASSUME ServiceAssumption ==
  Visitors \in Nat /\ Mode \subseteq {"serve", "forever", "iroh"} /\ Faults \in BOOLEAN

VARIABLES
  mode,         \* the command the server host runs
  manifest,     \* the plan identity in .miren/app.toml: at most one
  deployed,     \* what Miren runs: at most one [plan, pinned, key, policy]
  server,       \* the server process
  ticket,       \* the Endpoint ID in the ticket the client host has: at most one
  backlog,      \* connections the server has not accepted
  conn          \* the state of each visitor, the plan it has compiled and its key

serviceVars == <<mode, manifest, deployed, server, ticket, backlog, conn>>
allVars == <<trustVars, serviceVars>>

\* status: "down", "accepting", "preface", "session"; exit: how it last went down.
Down(exit) ==
  [status |-> "down", exit |-> exit, served |-> 0, peer |-> {}, plan |-> 0, key |-> {},
   allowed |-> {}]

ServiceInit ==
  /\ TrustInit
  /\ mode \in Mode
  /\ manifest = {} /\ deployed = {} /\ ticket = {}
  /\ server = Down("none")
  /\ backlog = <<>>
  /\ conn = [v \in Visitor |-> [state |-> "idle", plan |-> 0, key |-> {}]]

Iroh == mode = "iroh"
Serving(v) == server.peer = {v}
Waiting == {v \in Visitor : \E i \in DOMAIN backlog : backlog[i] = v}

-----------------------------------------------------------------------------
(***************************************************************************)
(* Deployment.                                                             *)
(***************************************************************************)
EmitMiren ==
  /\ mode # "serve"
  /\ manifest' = {source["server"]}
  /\ manifest' # manifest
  /\ UNCHANGED <<trustVars, mode, deployed, server, ticket, backlog, conn>>

\* Miren replaces what was deployed, its process being down.  The image copies the
\* conversation as it is now; the environment has the pinned
\* identities and, for Iroh, the identity and the policy.
Deploy ==
  /\ manifest # {} /\ server.status = "down"
  /\ deployed' = {[plan |-> source["server"], pinned |-> manifest,
                   key |-> key["server"], policy |-> policy["server"]]}
  /\ deployed' # deployed
  /\ UNCHANGED <<trustVars, mode, manifest, server, ticket, backlog, conn>>

VerifyDeploymentIdentity(d) == d.pinned \subseteq {d.plan}

Startable(d) ==
  /\ VerifyDeploymentIdentity(d)
  /\ Iroh => d.key # {} /\ AuthorizedPeers(d.policy, "client", d.plan) # {}

\* The server command up to its accept, on what it is given.
Launch(d) ==
  /\ server.status = "down"
  /\ Startable(d)
  /\ server' = [status |-> "accepting", exit |-> "none", served |-> 0, peer |-> {},
                plan |-> d.plan, key |-> d.key,
                allowed |-> IF Iroh THEN AuthorizedPeers(d.policy, "client", d.plan) ELSE {}]
  /\ UNCHANGED <<trustVars, mode, manifest, deployed, ticket, backlog, conn>>

\* Without Miren there is nothing to compare with, and files are read at the start.
StartByHand ==
  /\ deployed = {}
  /\ Launch([plan |-> source["server"], pinned |-> {}, key |-> key["server"],
             policy |-> policy["server"]])

Restart == \E d \in deployed : Launch(d)

-----------------------------------------------------------------------------
(***************************************************************************)
(* The visitors.                                                           *)
(***************************************************************************)
Goes(v, state) == conn' = [conn EXCEPT ![v].state = state]

\* The ticket the server has written is copied to the client host.
CopyTicket ==
  /\ Iroh /\ server.status # "down" /\ ticket # server.key
  /\ ticket' = server.key
  /\ UNCHANGED <<trustVars, mode, manifest, deployed, server, backlog, conn>>

\* The connection is made when the server host has a listener (the very node of the
\* ticket, for Iroh), or fails.  Visitors are numbered as they come.
Arrives(v, plan, k, state) ==
  /\ \A u \in Visitor : u < v <=> conn[u].state # "idle"
  /\ \/ /\ server.status # "down"
        /\ Iroh => server.key = ticket
        /\ backlog' = Append(backlog, v)
        /\ conn' = [conn EXCEPT ![v] = [state |-> state, plan |-> plan, key |-> k]]
     \/ /\ server.status = "down" \/ (Iroh /\ server.key # ticket)
        /\ Goes(v, "failed")
        /\ UNCHANGED backlog
  /\ UNCHANGED <<trustVars, mode, manifest, deployed, server, ticket>>

Connect(v) == ~Iroh /\ Arrives(v, source["client"], {}, "waiting")

\* connect-iroh goes on only if its own policy has the ticket's holder as the server.
ConnectIroh(v) ==
  /\ Iroh /\ key["client"] # {} /\ ticket # {}
  /\ \E peer \in ticket : Authorize(policy["client"], peer, "server", source["client"])
  /\ Arrives(v, source["client"], key["client"], "waiting")

\* Something connects and says nothing: a health check, a scan.  It is no node that a
\* policy has.
Probe(v) == Faults /\ Arrives(v, 0, {}, "silent")

\* A visitor keeps its connection and says no more, in the backlog, in the middle of
\* the preface or of the session.
Stalls(v) ==
  /\ Faults /\ conn[v].state \in {"waiting", "session"}
  /\ Goes(v, "silent")
  /\ UNCHANGED <<trustVars, mode, manifest, deployed, server, ticket, backlog>>

\* Ten seconds without an answer, the server being busy with somebody else (over Iroh,
\* the limit its library has for a handshake).
TimesOut(v) ==
  /\ conn[v].state = "waiting" /\ v \in Waiting
  /\ server.status \in {"preface", "session"} /\ ~Serving(v)
  /\ Goes(v, "failed")
  /\ UNCHANGED <<trustVars, mode, manifest, deployed, server, ticket, backlog>>

\* A visitor crashes or goes away.
Vanishes(v) ==
  /\ Faults /\ conn[v].state \in {"waiting", "silent", "session"}
  /\ Goes(v, "failed")
  /\ UNCHANGED <<trustVars, mode, manifest, deployed, server, ticket, backlog>>

-----------------------------------------------------------------------------
(***************************************************************************)
(* The server.                                                             *)
(***************************************************************************)

\* The process exits: its listener, backlog and connection go with it.
Exit(why) ==
  /\ server' = [Down(why) EXCEPT !.served = server.served]
  /\ backlog' = <<>>
  /\ conn' = [v \in Visitor |->
                IF (v \in Waiting \/ Serving(v)) /\ conn[v].state \in {"waiting", "silent", "session"}
                  THEN [conn[v] EXCEPT !.state = "failed"] ELSE conn[v]]
  /\ UNCHANGED <<trustVars, mode, manifest, deployed, ticket>>

\* accept, which also gives connections whose other end has gone.  An Iroh peer
\* that is not in the policy is turned away, and the command returns.
Accept ==
  /\ server.status = "accepting" /\ backlog # <<>>
  /\ LET v == Head(backlog) IN
     IF Iroh /\ conn[v].key \cap server.allowed = {}
       THEN Exit("error")
       ELSE /\ server' = [server EXCEPT !.status = "preface", !.peer = {v}]
            /\ backlog' = Tail(backlog)
            /\ UNCHANGED <<trustVars, mode, manifest, deployed, ticket, conn>>

\* establish_session with a peer that is there and has the same plan.
Establish(v) ==
  /\ server.status = "preface" /\ Serving(v)
  /\ conn[v].state = "waiting" /\ conn[v].plan = server.plan
  /\ server' = [server EXCEPT !.status = "session"]
  /\ Goes(v, "session")
  /\ UNCHANGED <<trustVars, mode, manifest, deployed, ticket, backlog>>

\* establish_session with another plan, or with a peer that has left.
RefusePeer(v) ==
  /\ server.status = "preface" /\ Serving(v)
  /\ \/ conn[v].state = "waiting" /\ conn[v].plan # server.plan
     \/ conn[v].state = "failed"
  /\ Exit("error")

\* Mutated form: a socket without a read timeout.
ReadTimesOutNever(v) == FALSE /\ UNCHANGED allVars

\* The read timeout of TcpTransport ends the wait for a preface that never comes.
\* IrohTransport has none, neither in accept_bi nor in its reads.
ReadTimesOut(v) ==
  /\ ~Iroh
  /\ server.status = "preface" /\ Serving(v) /\ conn[v].state = "silent"
  /\ Exit("error")

\* A call of the server's driver comes back: always over TCP, by its timeouts; over
\* Iroh not from a visitor that keeps the connection and says nothing.
Answered(v) == server.status = "session" /\ Serving(v) /\ ~(Iroh /\ conn[v].state = "silent")

\* The driver returns an error: the visitor sent a frame that is refused or cannot be
\* decoded, or was not there to finish.  main returns it, --forever or not.
SessionBreaks(v) ==
  /\ Answered(v) /\ Faults
  /\ Exit("error")

\* The conversation ends on both sides, or the visitor has gone or fallen silent and
\* the server reports the failure it declares.  Only serve --forever goes on.
SessionEnds(v) ==
  /\ Answered(v)
  /\ IF mode = "forever"
       THEN /\ server' = [server EXCEPT !.status = "accepting", !.peer = {},
                                        !.served = @ + 1]
            /\ Goes(v, IF conn[v].state = "session" THEN "reported" ELSE "failed")
            /\ UNCHANGED <<trustVars, mode, manifest, deployed, ticket, backlog>>
       ELSE /\ server' = [Down("done") EXCEPT !.served = server.served + 1]
            /\ backlog' = <<>>
            /\ conn' = [u \in Visitor |->
                 IF u = v
                   THEN [conn[u] EXCEPT !.state = IF @ = "session" THEN "reported" ELSE "failed"]
                 ELSE IF u \in Waiting THEN [conn[u] EXCEPT !.state = "failed"] ELSE conn[u]]
            /\ UNCHANGED <<trustVars, mode, manifest, deployed, ticket>>

Killed == Faults /\ server.status # "down" /\ Exit("killed")

ServerStep ==
  \/ Accept
  \/ \E v \in Visitor : \/ Establish(v) \/ RefusePeer(v) \/ ReadTimesOut(v)
                        \/ SessionEnds(v) \/ SessionBreaks(v)

ServiceNext ==
  \/ Iroh /\ TrustNext /\ UNCHANGED serviceVars
  \/ ~Iroh /\ (\E h \in Host : EditConversation(h)) /\ UNCHANGED serviceVars
  \/ EmitMiren \/ Deploy \/ StartByHand \/ Restart \/ CopyTicket
  \/ \E v \in Visitor : \/ Connect(v) \/ ConnectIroh(v) \/ Probe(v)
                        \/ Stalls(v) \/ TimesOut(v) \/ Vanishes(v)
  \/ ServerStep \/ Killed

\* The server process runs: over TCP every read and write it does has a limit, and the
\* tokens have one; over Iroh only what a visitor does not keep waiting goes on (see
\* ReadTimesOut and Answered).  Miren starts again what has exited.  Nothing is assumed
\* of the visitors.
ServiceSpec ==
  /\ ServiceInit /\ [][ServiceNext]_allVars
  /\ WF_allVars(ServerStep) /\ WF_allVars(Restart)

-----------------------------------------------------------------------------
(***************************************************************************)
(* Properties.                                                             *)
(***************************************************************************)
\* A session stands only between two sides that compiled one plan, in a deployed
\* server the one its manifest names; over Iroh, both operators have granted
\* exactly that: the other's Endpoint ID, in its role, for this very plan.  So an
\* edited conversation needs new grants on both hosts, whichever of the files a
\* process has read when.
SessionsAreSanctioned ==
  \A v \in server.peer :
    (server.status = "session" /\ conn[v].state = "session") =>
      /\ conn[v].plan = server.plan
      /\ \A d \in deployed : server.plan \in d.pinned
      /\ Iroh => \E ours \in server.key, theirs \in conn[v].key :
           /\ Rule(theirs, "client", server.plan) \in granted["server"]
           /\ Rule(ours, "server", server.plan) \in granted["client"]

\* An authorized node holds a server that listens over Iroh: it keeps the connection
\* and says nothing.
HeldOverIroh == Iroh /\ \E v \in server.peer : conn[v].state = "silent"

\* A deployed service that can start at all always comes back to accepting, although
\* any of its visitors can make the process exit: over TCP however they behave, neither
\* one that says nothing nor one that has left keeps it; over Iroh unless it is held by
\* an authorized node that never goes away, as no read there has a limit.
ServiceRecovers ==
  \/ []<>(server.status = "accepting" \/ \A d \in deployed : ~Startable(d))
  \/ <>[]HeldOverIroh

\* serve --forever goes on accepting: it does not exit of its own accord once it has
\* completed a session (the help text of --forever).
ForeverKeepsAccepting ==
  mode = "forever" => ~(server.exit = "error" /\ server.served > 0)

=============================================================================
