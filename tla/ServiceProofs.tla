--------------------------- MODULE ServiceProofs ---------------------------
(***************************************************************************)
(* Proofs about Trust and Service: who can be in a session with a server,  *)
(* and what two commands on one host can lose.                             *)
(*                                                                         *)
(* The rules a process holds were read from a file at some earlier time,   *)
(* and the file may have lost some of them since.  What makes the argument *)
(* go through is that every copy of a policy, in a file, in a deployment   *)
(* or in the server's list of allowed peers, consists of grants a command  *)
(* has written, and what was granted is never taken back.                  *)
(***************************************************************************)
EXTENDS Service, TLAPS

-----------------------------------------------------------------------------
(***************************************************************************)
(* The inductive invariant.                                                *)
(***************************************************************************)
Rules == [peer : Nat, role : Host, plan : Nat]

Files == [kind : {"key", "policy"}, host : Host]

Commands == [id : Nat, seen : SUBSET Rules, todo : Seq(Files), rules : [Host -> SUBSET Rules]]

\* A command goes by nothing having been there, or it is policy-allow and writes all the
\* rules it has loaded.
CommandOK(c) ==
  /\ c.todo # <<>>
  /\ \/ c.seen = {}
     \/ \E h \in Host : c.todo = <<File("policy", h)>> /\ c.seen \subseteq c.rules[h]

TrustTypeOK ==
  /\ source \in [Host -> Nat]
  /\ key \in [Host -> SUBSET Nat]
  /\ policy \in [Host -> SUBSET Rules]
  /\ announced \in [Host -> SUBSET Nat]
  /\ granted \in [Host -> SUBSET Rules]
  /\ commands \subseteq Commands
  /\ \A c \in commands : CommandOK(c)
  /\ started \in Nat

Deployments == [plan : Nat, pinned : SUBSET Nat, key : SUBSET Nat, policy : SUBSET Rules]

ConnType ==
  [state : {"idle", "waiting", "silent", "session", "reported", "failed"},
   plan : Nat, key : SUBSET Nat]

ServerType ==
  [status : {"down", "accepting", "preface", "session"},
   exit : {"none", "error", "done", "killed"}, served : Nat,
   peer : SUBSET Visitor, plan : Nat, key : SUBSET Nat, allowed : SUBSET Nat]

ServiceTypeOK ==
  /\ mode \in {"serve", "forever", "iroh"}
  /\ manifest \in SUBSET Nat
  /\ deployed \in SUBSET Deployments
  /\ ticket \in SUBSET Nat
  /\ server \in ServerType
  /\ backlog \in Seq(Visitor)
  /\ conn \in [Visitor -> ConnType]

\* Every copy of a policy is made of grants.
CopiesAreGrants ==
  /\ \A h \in Host : policy[h] \subseteq granted[h]
  /\ \A d \in deployed : d.policy \subseteq granted["server"]

\* At most one deployment, with a plan pinned.
DeploymentOK ==
  /\ \A d \in deployed : d.pinned # {}
  /\ \A d, e \in deployed : d = e

\* What a running server has checked at its start.
ServerOK ==
  server.status # "down" =>
    /\ \A d \in deployed : server.plan \in d.pinned
    /\ Iroh => \A t \in server.allowed : Rule(t, "client", server.plan) \in granted["server"]

\* What connect-iroh has checked before it connects; a visitor without a key of a
\* policy has checked nothing.
Admitted(v) ==
  conn[v].key # {} =>
    \E ours \in server.key : Rule(ours, "server", conn[v].plan) \in granted["client"]

\* The connections a server has, in its backlog or in its hands.
ConnectionsOK ==
  /\ server.status = "down" => server.peer = {} /\ backlog = <<>>
  /\ server.status = "accepting" => server.peer = {}
  /\ \A v \in Waiting \cup server.peer : conn[v].state # "idle" /\ (Iroh => Admitted(v))
  /\ \A v \in server.peer : Iroh => conn[v].key \cap server.allowed # {}
  /\ \A v \in Visitor : conn[v].state = "session" =>
       server.status = "session" /\ server.peer = {v} /\ conn[v].plan = server.plan

ServiceInv ==
  /\ TrustTypeOK
  /\ ServiceTypeOK
  /\ CopiesAreGrants
  /\ DeploymentOK
  /\ ServerOK
  /\ ConnectionsOK

-----------------------------------------------------------------------------
(***************************************************************************)
(* The commands.                                                           *)
(***************************************************************************)
\* There are two hosts.
LEMMA OtherFacts ==
  /\ Other("server") = "client" /\ Other("client") = "server"
  /\ \A h \in Host : Other(h) \in Host
<1>1. Other("server") = "client" /\ Other("client") = "server"
  BY DEF Other, Host
<1> QED BY <1>1 DEF Host

\* Keys are numbers.
LEMMA KeysAreNumbers == \A n \in Nat : \A h \in Host : KeyOf(n, h) \in Nat
BY DEF KeyOf

\* What a command writes next, and to whom.
LEMMA CommandFacts ==
  ASSUME TrustTypeOK, NEW c \in commands
  PROVE  /\ c \in Commands /\ c.id \in Nat /\ c.todo \in Seq(Files) /\ c.todo # <<>>
         /\ c.rules \in [Host -> SUBSET Rules]
         /\ Head(c.todo) \in Files /\ Head(c.todo).host \in Host
         /\ Head(c.todo).kind = "key" => c.seen = {}
         /\ Head(c.todo).kind = "policy" => c.seen \subseteq c.rules[Head(c.todo).host]
<1>1. /\ c \in Commands /\ c.id \in Nat /\ c.todo \in Seq(Files) /\ c.todo # <<>>
      /\ c.rules \in [Host -> SUBSET Rules] /\ CommandOK(c)
  BY DEF TrustTypeOK, Commands, CommandOK
<1>2. Head(c.todo) \in Files
  BY <1>1
<1>3. Head(c.todo).host \in Host
  BY <1>2 DEF Files
<1>4. CASE c.seen = {}
  BY <1>1, <1>2, <1>3, <1>4
<1>5. CASE c.seen # {}
  <2>1. PICK h \in Host : c.todo = <<File("policy", h)>> /\ c.seen \subseteq c.rules[h]
    BY <1>1, <1>5 DEF CommandOK
  <2>2. Head(c.todo).kind = "policy" /\ Head(c.todo).host = h
    BY <2>1 DEF File
  <2> QED BY <1>1, <1>2, <1>3, <2>1, <2>2
<1> QED BY <1>4, <1>5

\* A command that has more to write is one that has found what it had found.
LEMMA WroteKeeps ==
  ASSUME TrustTypeOK, NEW c \in commands, Wrote(c)
  PROVE  /\ commands' \subseteq Commands /\ \A d \in commands' : CommandOK(d)
         /\ c \notin commands'
<1> DEFINE rest == [c EXCEPT !.todo = Tail(c.todo)]
<1>1. commands' = (commands \ {c}) \cup {d \in {rest} : d.todo # <<>>}
  BY DEF Wrote
<1>2. /\ c \in Commands /\ c.todo \in Seq(Files) /\ c.todo # <<>> /\ CommandOK(c)
  BY CommandFacts DEF TrustTypeOK
<1>3. Tail(c.todo) \in Seq(Files) /\ Len(Tail(c.todo)) # Len(c.todo)
  BY <1>2
<1>4. /\ rest \in Commands /\ rest.todo = Tail(c.todo) /\ rest.seen = c.seen
      /\ rest.rules = c.rules
  BY <1>2, <1>3 DEF Commands
<1> HIDE DEF rest
<1>5. ASSUME rest.todo # <<>> PROVE CommandOK(rest)
  <2>1. c.seen = {}
    <3> SUFFICES ASSUME NEW h \in Host, c.todo = <<File("policy", h)>> PROVE FALSE
      BY <1>2 DEF CommandOK
    <3>1. Tail(c.todo) = <<>>
      OBVIOUS
    <3> QED BY <1>4, <1>5, <3>1
  <2> QED BY <1>4, <1>5, <2>1 DEF CommandOK
<1>6. rest # c
  BY <1>3, <1>4
<1> QED BY <1>1, <1>4, <1>5, <1>6 DEF TrustTypeOK

\* What a step of an operator or an author keeps: the types, copies made of grants,
\* and every grant.
TrustKept ==
  /\ TrustTypeOK' /\ CopiesAreGrants'
  /\ \A h \in Host : granted[h] \subseteq granted'[h]

\* An edit of a conversation.
LEMMA EditKeeps ==
  ASSUME TrustTypeOK, CopiesAreGrants, NEW h \in Host, EditConversation(h),
         UNCHANGED deployed
  PROVE  TrustKept
<1>1. source' \in [Host -> Nat]
  BY DEF TrustTypeOK, EditConversation
<1>2. UNCHANGED <<key, policy, announced, granted, commands, started, deployed>>
  BY DEF EditConversation
<1> QED BY <1>1, <1>2 DEF TrustKept, TrustTypeOK, CopiesAreGrants

\* A command that has looked.
LEMMA StartKeeps ==
  ASSUME TrustTypeOK, CopiesAreGrants, NEW seen \in SUBSET Rules, NEW todo \in Seq(Files),
         NEW rules \in [Host -> SUBSET Rules], Start(seen, todo, rules), todo # <<>>,
         \/ seen = {}
         \/ \E h \in Host : todo = <<File("policy", h)>> /\ seen \subseteq rules[h],
         UNCHANGED deployed
  PROVE  TrustKept
<1> DEFINE c == [id |-> started, seen |-> seen, todo |-> todo, rules |-> rules]
<1>1. UNCHANGED <<source, key, policy, announced, granted, deployed>>
  BY DEF Start
<1>2. commands' = commands \cup {c} /\ started' \in Nat
  BY DEF Start, TrustTypeOK
<1>3. c \in Commands /\ CommandOK(c)
  BY DEF Commands, CommandOK, TrustTypeOK
<1> HIDE DEF c
<1>4. TrustTypeOK'
  BY <1>1, <1>2, <1>3 DEF TrustTypeOK
<1> QED BY <1>1, <1>2, <1>4 DEF TrustKept, CopiesAreGrants

\* node-init passes ensure_absent.
LEMMA NodeInitKeeps ==
  ASSUME TrustTypeOK, CopiesAreGrants, NEW h \in Host, NodeInit(h), UNCHANGED deployed
  PROVE  TrustKept
<1> DEFINE todo == <<File("key", h)>>
<1>1. todo \in Seq(Files) /\ todo # <<>>
  BY DEF File, Files
<1>2. NoRules \in [Host -> SUBSET Rules] /\ {} \in SUBSET Rules
  BY DEF NoRules
<1>3. Start({}, todo, NoRules)
  BY DEF NodeInit
<1> HIDE DEF todo
<1> QED BY <1>1, <1>2, <1>3, StartKeeps

\* policy-allow has loaded the policy.
LEMMA PolicyAllowKeeps ==
  ASSUME TrustTypeOK, CopiesAreGrants, NEW h \in Host, NEW peer \in announced[Other(h)],
         PolicyAllow(h, peer), UNCHANGED deployed
  PROVE  TrustKept
<1> DEFINE todo == <<File("policy", h)>>
           allowed == Allow(policy[h], peer, Other(h), source[h])
           rules == [g \in Host |-> IF g = h THEN allowed ELSE {}]
<1>1. Other(h) \in Host /\ peer \in Nat /\ source[h] \in Nat
  BY OtherFacts DEF TrustTypeOK
<1>2. Rule(peer, Other(h), source[h]) \in Rules
  BY <1>1 DEF Rule, Rules
<1>3. policy[h] \in SUBSET Rules /\ allowed \in SUBSET Rules /\ policy[h] \subseteq allowed
  BY <1>2 DEF Allow, TrustTypeOK
<1>4. todo \in Seq(Files) /\ todo # <<>> /\ todo = <<File("policy", h)>>
  BY DEF File, Files
<1>5. Start(policy[h], todo, rules)
  BY DEF PolicyAllow
<1> HIDE DEF todo, allowed
<1>6. rules \in [Host -> SUBSET Rules] /\ policy[h] \subseteq rules[h]
  BY <1>3
<1> HIDE DEF rules
<1> QED BY <1>3, <1>4, <1>5, <1>6, StartKeeps

\* bootstrap-two-node has found none of its four files.
LEMMA BootstrapKeeps ==
  ASSUME TrustTypeOK, CopiesAreGrants, Bootstrap, UNCHANGED deployed
  PROVE  TrustKept
<1> DEFINE todo == <<File("key", "server"), File("key", "client"),
                     File("policy", "server"), File("policy", "client")>>
           rules == [h \in Host |-> Allow({}, KeyOf(started, Other(h)), Other(h), source["server"])]
<1>1. todo \in Seq(Files) /\ todo # <<>>
  <2>1. /\ File("key", "server") \in Files /\ File("key", "client") \in Files
        /\ File("policy", "server") \in Files /\ File("policy", "client") \in Files
    BY DEF File, Files, Host
  <2> QED BY <2>1
<1>2. rules \in [Host -> SUBSET Rules]
  <2>1. \A h \in Host : /\ Other(h) \in Host /\ KeyOf(started, Other(h)) \in Nat
                       /\ source["server"] \in Nat
    BY OtherFacts, KeysAreNumbers DEF TrustTypeOK, Host
  <2>2. \A h \in Host : Rule(KeyOf(started, Other(h)), Other(h), source["server"]) \in Rules
    BY <2>1 DEF Rule, Rules
  <2> QED BY <2>2 DEF Allow
<1>3. Start({}, todo, rules)
  BY DEF Bootstrap
<1> HIDE DEF todo, rules
<1> QED BY <1>1, <1>2, <1>3, StartKeeps

\* A key is written.
LEMMA SavePrivateKeeps ==
  ASSUME TrustTypeOK, CopiesAreGrants, NEW c \in commands, SavePrivate(c), UNCHANGED deployed
  PROVE  TrustKept
<1> DEFINE h == Head(c.todo).host
           k == KeyOf(c.id, h)
<1>1. h \in Host /\ k \in Nat
  BY CommandFacts, KeysAreNumbers
<1>2. UNCHANGED <<source, policy, granted, started, deployed>>
  BY DEF SavePrivate
<1>3. key' = [key EXCEPT ![h] = {k}] /\ announced' = [announced EXCEPT ![h] = @ \cup {k}]
  BY DEF SavePrivate
<1> HIDE DEF h, k
<1>4. key' \in [Host -> SUBSET Nat] /\ announced' \in [Host -> SUBSET Nat]
  BY <1>1, <1>3 DEF TrustTypeOK
<1>5. commands' \subseteq Commands /\ \A d \in commands' : CommandOK(d)
  BY WroteKeeps DEF SavePrivate
<1>6. TrustTypeOK'
  BY <1>2, <1>4, <1>5 DEF TrustTypeOK
<1> QED BY <1>2, <1>6 DEF TrustKept, CopiesAreGrants

\* A policy is written: what it consists of is granted from then on.
LEMMA SavePolicyKeeps ==
  ASSUME TrustTypeOK, CopiesAreGrants, NEW c \in commands, SavePolicy(c), UNCHANGED deployed
  PROVE  TrustKept
<1> DEFINE h == Head(c.todo).host
           written == c.rules[h]
<1>1. h \in Host /\ written \in SUBSET Rules
  BY CommandFacts
<1>2. UNCHANGED <<source, key, announced, started, deployed>>
  BY DEF SavePolicy
<1>3. /\ policy' = [policy EXCEPT ![h] = written]
      /\ granted' = [granted EXCEPT ![h] = @ \cup written]
  BY DEF SavePolicy
<1> HIDE DEF h, written
<1>4. policy' \in [Host -> SUBSET Rules] /\ granted' \in [Host -> SUBSET Rules]
  BY <1>1, <1>3 DEF TrustTypeOK
<1>5. \A g \in Host : granted[g] \subseteq granted'[g] /\ policy'[g] \subseteq granted'[g]
  BY <1>1, <1>3 DEF TrustTypeOK, CopiesAreGrants
<1>6. commands' \subseteq Commands /\ \A d \in commands' : CommandOK(d)
  BY WroteKeeps DEF SavePolicy
<1>7. TrustTypeOK'
  BY <1>2, <1>4, <1>6 DEF TrustTypeOK
<1> QED BY <1>2, <1>5, <1>7 DEF TrustKept, CopiesAreGrants, Host

\* Every step of the hosts' files.
LEMMA TrustStepKeeps ==
  ASSUME TrustTypeOK, CopiesAreGrants, UNCHANGED deployed,
         TrustNext \/ \E h \in Host : EditConversation(h)
  PROVE  TrustKept
BY EditKeeps, NodeInitKeeps, PolicyAllowKeeps, SavePrivateKeeps, SavePolicyKeeps,
   BootstrapKeeps DEF TrustNext

-----------------------------------------------------------------------------
(***************************************************************************)
(* The invariant, one lemma for each thing the service can do.             *)
(***************************************************************************)
\* Nothing is there yet.
LEMMA ServiceInitInv == ServiceInit => ServiceInv
<1> SUFFICES ASSUME ServiceInit PROVE ServiceInv
  OBVIOUS
<1>1. TrustTypeOK
  BY DEF ServiceInit, TrustInit, TrustTypeOK
<1>2. ServiceTypeOK
  BY ServiceAssumption DEF ServiceInit, ServiceTypeOK, Down, ServerType, ConnType
<1>3. CopiesAreGrants /\ DeploymentOK
  BY DEF ServiceInit, TrustInit, CopiesAreGrants, DeploymentOK
<1>4. server.status = "down" /\ server.peer = {} /\ backlog = <<>>
      /\ \A v \in Visitor : conn[v].state = "idle"
  BY DEF ServiceInit, Down
<1>5. Waiting = {}
  BY <1>4 DEF Waiting
<1> QED BY <1>1, <1>2, <1>3, <1>4, <1>5 DEF ServiceInv, ServerOK, ConnectionsOK

\* What the service has seen of the files stays true when they change.
LEMMA FilesInv ==
  ASSUME ServiceInv, UNCHANGED serviceVars,
         TrustNext \/ \E h \in Host : EditConversation(h)
  PROVE  ServiceInv'
<1>1. UNCHANGED <<mode, manifest, deployed, server, ticket, backlog, conn>>
  BY DEF serviceVars
<1>2. TrustTypeOK' /\ CopiesAreGrants' /\ \A h \in Host : granted[h] \subseteq granted'[h]
  BY <1>1, TrustStepKeeps DEF ServiceInv, TrustKept
<1>3. ServiceTypeOK' /\ DeploymentOK'
  BY <1>1 DEF ServiceInv, ServiceTypeOK, DeploymentOK
<1>4. ServerOK'
  BY <1>1, <1>2 DEF ServiceInv, ServerOK, Iroh, Host
<1>5. Waiting' = Waiting /\ \A v : Admitted(v) => Admitted(v)'
  BY <1>1, <1>2 DEF Waiting, Admitted, Host
<1>6. ConnectionsOK'
  BY <1>1, <1>5 DEF ServiceInv, ConnectionsOK, Iroh
<1> QED BY <1>2, <1>3, <1>4, <1>6 DEF ServiceInv

\* emit-miren writes the manifest, or the ticket is copied.
LEMMA NotesInv ==
  ASSUME ServiceInv, EmitMiren \/ CopyTicket
  PROVE  ServiceInv'
<1>1. UNCHANGED <<trustVars, mode, deployed, server, backlog, conn>>
  BY DEF EmitMiren, CopyTicket
<1>2. manifest' \in SUBSET Nat /\ ticket' \in SUBSET Nat
  BY DEF EmitMiren, CopyTicket, ServiceInv, ServiceTypeOK, ServerType, TrustTypeOK, Host
<1>3. TrustTypeOK' /\ CopiesAreGrants' /\ DeploymentOK' /\ ServerOK'
  BY <1>1 DEF ServiceInv, trustVars, TrustTypeOK, CopiesAreGrants, DeploymentOK, ServerOK, Iroh
<1>4. ServiceTypeOK'
  BY <1>1, <1>2 DEF ServiceInv, ServiceTypeOK
<1>5. Waiting' = Waiting /\ \A v : Admitted(v) <=> Admitted(v)'
  BY <1>1 DEF Waiting, Admitted, trustVars
<1>6. ConnectionsOK'
  BY <1>1, <1>5 DEF ServiceInv, ConnectionsOK, Iroh
<1> QED BY <1>3, <1>4, <1>6 DEF ServiceInv

\* Miren takes over a new version, nothing of the old one running.
LEMMA DeployInv ==
  ASSUME ServiceInv, Deploy
  PROVE  ServiceInv'
<1> DEFINE d == [plan |-> source["server"], pinned |-> manifest,
                 key |-> key["server"], policy |-> policy["server"]]
<1>1. /\ UNCHANGED <<trustVars, mode, manifest, server, ticket, backlog, conn>>
      /\ deployed' = {d} /\ server.status = "down" /\ manifest # {}
  BY DEF Deploy
<1>2. d \in Deployments /\ d.pinned # {} /\ d.policy \subseteq granted["server"]
  BY <1>1 DEF ServiceInv, ServiceTypeOK, TrustTypeOK, Deployments, CopiesAreGrants, Host
<1> HIDE DEF d
<1>3. TrustTypeOK' /\ CopiesAreGrants' /\ DeploymentOK' /\ ServerOK'
  BY <1>1, <1>2 DEF ServiceInv, trustVars, TrustTypeOK, CopiesAreGrants, DeploymentOK, ServerOK
<1>4. ServiceTypeOK'
  BY <1>1, <1>2 DEF ServiceInv, ServiceTypeOK
<1>5. Waiting' = Waiting /\ \A v : Admitted(v) <=> Admitted(v)'
  BY <1>1 DEF Waiting, Admitted, trustVars
<1>6. ConnectionsOK'
  BY <1>1, <1>5 DEF ServiceInv, ConnectionsOK, Iroh
<1> QED BY <1>3, <1>4, <1>6 DEF ServiceInv

\* A server starts on files that are made of grants and, deployed, on the plan that
\* is pinned.
LEMMA LaunchInv ==
  ASSUME ServiceInv, NEW d \in Deployments, Launch(d), d.policy \subseteq granted["server"],
         deployed = {} \/ d \in deployed
  PROVE  ServiceInv'
<1> DEFINE peers == AuthorizedPeers(d.policy, "client", d.plan)
<1>1. /\ UNCHANGED <<trustVars, mode, manifest, deployed, ticket, backlog, conn>>
      /\ server' = [status |-> "accepting", exit |-> "none", served |-> 0, peer |-> {},
                    plan |-> d.plan, key |-> d.key, allowed |-> IF Iroh THEN peers ELSE {}]
      /\ server.status = "down" /\ VerifyDeploymentIdentity(d)
  BY DEF Launch, Startable
<1>2. d.plan \in Nat /\ d.key \in SUBSET Nat /\ d.policy \in SUBSET Rules /\ d.pinned \in SUBSET Nat
  BY DEF Deployments
<1>3. /\ peers \in SUBSET Nat
      /\ \A t \in peers : Rule(t, "client", d.plan) \in granted["server"]
  <2> SUFFICES ASSUME NEW t \in peers
               PROVE  t \in Nat /\ Rule(t, "client", d.plan) \in granted["server"]
    OBVIOUS
  <2>1. PICK q \in d.policy : q.role = "client" /\ q.plan = d.plan /\ t = q.peer
    BY DEF AuthorizedPeers
  <2>2. q \in Rules /\ q \in granted["server"]
    BY <1>2, <2>1
  <2>3. q.peer \in Nat /\ q = Rule(q.peer, q.role, q.plan)
    BY <2>2 DEF Rules, Rule
  <2> QED BY <2>1, <2>2, <2>3
<1> HIDE DEF peers
<1>4. TrustTypeOK' /\ CopiesAreGrants' /\ DeploymentOK'
  BY <1>1 DEF ServiceInv, trustVars, TrustTypeOK, CopiesAreGrants, DeploymentOK
<1>5. ServiceTypeOK'
  <2>1. server' \in ServerType
    BY <1>1, <1>2, <1>3 DEF ServerType
  <2> QED BY <1>1, <2>1 DEF ServiceInv, ServiceTypeOK
<1>6. \A e \in deployed : d.plan \in e.pinned
  BY <1>1 DEF ServiceInv, DeploymentOK, VerifyDeploymentIdentity
<1>7. ServerOK'
  BY <1>1, <1>3, <1>6 DEF ServerOK, Iroh, trustVars
<1>8. Waiting' = {} /\ server'.peer = {} /\ server'.status = "accepting"
  BY <1>1 DEF ServiceInv, ConnectionsOK, Waiting
<1>9. ConnectionsOK'
  BY <1>1, <1>8 DEF ServiceInv, ConnectionsOK
<1> QED BY <1>4, <1>5, <1>7, <1>9 DEF ServiceInv

\* By hand, from the files as they are.
LEMMA StartByHandInv ==
  ASSUME ServiceInv, StartByHand
  PROVE  ServiceInv'
<1> DEFINE d == [plan |-> source["server"], pinned |-> {}, key |-> key["server"],
                 policy |-> policy["server"]]
<1>1. d \in Deployments /\ d.policy \subseteq granted["server"] /\ deployed = {} /\ Launch(d)
  BY DEF StartByHand, ServiceInv, TrustTypeOK, Deployments, CopiesAreGrants, Host
<1> HIDE DEF d
<1> QED BY <1>1, LaunchInv

\* By Miren, from what was deployed.
LEMMA RestartInv ==
  ASSUME ServiceInv, Restart
  PROVE  ServiceInv'
<1>1. PICK d \in deployed : Launch(d)
  BY DEF Restart
<1>2. d \in Deployments /\ d.policy \subseteq granted["server"]
  BY DEF ServiceInv, ServiceTypeOK, CopiesAreGrants
<1> QED BY <1>1, <1>2, LaunchInv

\* A connection is made, or cannot be.
LEMMA ArrivesInv ==
  ASSUME ServiceInv, NEW v \in Visitor, NEW plan \in Nat, NEW k \in SUBSET Nat,
         NEW state \in {"waiting", "silent"}, Arrives(v, plan, k, state),
         Iroh /\ k # {} =>
           \E peer \in ticket : Rule(peer, "server", plan) \in granted["client"]
  PROVE  ServiceInv'
<1>1. UNCHANGED <<trustVars, mode, manifest, deployed, server, ticket>>
  BY DEF Arrives
<1>2. conn[v].state = "idle" /\ v \notin Waiting \cup server.peer
  <2>1. ~(v < v)
    BY DEF Visitor
  <2>2. conn[v].state = "idle"
    BY <2>1 DEF Arrives
  <2> QED BY <2>2 DEF ServiceInv, ConnectionsOK
<1>3. TrustTypeOK' /\ CopiesAreGrants' /\ DeploymentOK' /\ ServerOK'
  BY <1>1 DEF ServiceInv, trustVars, TrustTypeOK, CopiesAreGrants, DeploymentOK, ServerOK, Iroh
<1>4. /\ backlog \in Seq(Visitor)
      /\ conn \in [Visitor -> ConnType]
  BY DEF ServiceInv, ServiceTypeOK
<1>5. CASE /\ server.status # "down" /\ (Iroh => server.key = ticket)
           /\ backlog' = Append(backlog, v)
           /\ conn' = [conn EXCEPT ![v] = [state |-> state, plan |-> plan, key |-> k]]
  <2>1. /\ conn'[v] = [state |-> state, plan |-> plan, key |-> k]
        /\ \A u \in Visitor : u # v => conn'[u] = conn[u]
        /\ conn' \in [Visitor -> ConnType]
    BY <1>4, <1>5 DEF ConnType
  <2>2. backlog' \in Seq(Visitor) /\ backlog' # <<>>
    BY <1>4, <1>5
  <2>3. Waiting' \subseteq Waiting \cup {v}
    <3>1. \A i \in DOMAIN backlog' : backlog'[i] = v \/ (i \in DOMAIN backlog /\ backlog'[i] = backlog[i])
      BY <1>4, <1>5
    <3> QED BY <3>1 DEF Waiting
  <2>4. Iroh => Admitted(v)'
    BY <1>1, <1>5, <2>1 DEF Admitted, trustVars
  <2>5. \A u \in Visitor : u # v /\ Admitted(u) => Admitted(u)'
    BY <1>1, <2>1 DEF Admitted, trustVars
  <2>6. \A u \in Waiting' \cup server.peer : conn'[u].state # "idle" /\ (Iroh => Admitted(u)')
    <3> SUFFICES ASSUME NEW u \in Waiting' \cup server.peer
                 PROVE  conn'[u].state # "idle" /\ (Iroh => Admitted(u)')
      OBVIOUS
    <3>1. CASE u = v
      BY <2>1, <2>4, <3>1
    <3>2. CASE u # v
      <4>1. u \in Waiting \cup server.peer /\ u \in Visitor
        BY <2>3, <3>2 DEF Waiting, ServiceInv, ServiceTypeOK, ServerType
      <4> QED BY <2>1, <2>5, <3>2, <4>1 DEF ServiceInv, ConnectionsOK
    <3> QED BY <3>1, <3>2
  <2>7. \A u \in server.peer : u # v /\ u \in Visitor /\ conn'[u] = conn[u]
    BY <1>2, <2>1 DEF ServiceInv, ServiceTypeOK, ServerType
  <2>8. ConnectionsOK'
    BY <1>1, <1>5, <2>1, <2>6, <2>7 DEF ServiceInv, ConnectionsOK, Iroh
  <2>9. ServiceTypeOK'
    BY <1>1, <2>1, <2>2 DEF ServiceInv, ServiceTypeOK
  <2> QED BY <1>3, <2>8, <2>9 DEF ServiceInv
<1>6. CASE Goes(v, "failed") /\ backlog' = backlog
  <2>1. /\ conn'[v] = [conn[v] EXCEPT !.state = "failed"]
        /\ \A u \in Visitor : u # v => conn'[u] = conn[u]
        /\ conn' \in [Visitor -> ConnType]
    BY <1>4, <1>6 DEF Goes, ConnType
  <2>2. Waiting' = Waiting
    BY <1>6 DEF Waiting
  <2>3. \A u \in Waiting \cup server.peer : u # v /\ u \in Visitor /\ conn'[u] = conn[u]
    BY <1>2, <2>1 DEF ServiceInv, ServiceTypeOK, ServerType, Waiting
  <2>4. \A u \in Waiting \cup server.peer : Admitted(u) => Admitted(u)'
    BY <1>1, <2>3 DEF Admitted, trustVars
  <2>5. \A u \in Visitor : conn'[u].state = "session" => conn'[u] = conn[u]
    BY <1>4, <2>1 DEF ConnType
  <2>6. ConnectionsOK'
    BY <1>1, <1>6, <2>2, <2>3, <2>4, <2>5 DEF ServiceInv, ConnectionsOK, Iroh
  <2>7. ServiceTypeOK'
    BY <1>1, <1>6, <2>1 DEF ServiceInv, ServiceTypeOK
  <2> QED BY <1>3, <2>6, <2>7 DEF ServiceInv
<1> QED BY <1>5, <1>6 DEF Arrives

\* Who may arrive.
LEMMA VisitorInv ==
  ASSUME ServiceInv, NEW v \in Visitor, Connect(v) \/ ConnectIroh(v) \/ Probe(v)
  PROVE  ServiceInv'
<1>1. source["client"] \in Nat /\ key["client"] \in SUBSET Nat /\ 0 \in Nat /\ {} \in SUBSET Nat
  BY DEF ServiceInv, TrustTypeOK, Host
<1>2. CASE Connect(v)
  BY <1>1, <1>2, ArrivesInv DEF Connect
<1>3. CASE Probe(v)
  BY <1>1, <1>3, ArrivesInv DEF Probe
<1>4. CASE ConnectIroh(v)
  <2>1. \E peer \in ticket : Rule(peer, "server", source["client"]) \in granted["client"]
    BY <1>4 DEF ConnectIroh, Authorize, ServiceInv, CopiesAreGrants, Host
  <2>2. key["client"] # {} /\ Arrives(v, source["client"], key["client"], "waiting")
    BY <1>4 DEF ConnectIroh
  <2> QED BY <1>1, <2>1, <2>2, ArrivesInv
<1> QED BY <1>2, <1>3, <1>4

\* What the steps of connections and of the server leave alone.
LEMMA SameFiles ==
  ASSUME ServiceInv, UNCHANGED <<trustVars, mode, manifest, deployed, ticket>>,
         server' \in ServerType, backlog' \in Seq(Visitor), conn' \in [Visitor -> ConnType]
  PROVE  TrustTypeOK' /\ ServiceTypeOK' /\ CopiesAreGrants' /\ DeploymentOK'
<1>1. TrustTypeOK' /\ CopiesAreGrants' /\ DeploymentOK'
  BY DEF ServiceInv, trustVars, TrustTypeOK, CopiesAreGrants, DeploymentOK
<1>2. ServiceTypeOK'
  BY DEF ServiceInv, ServiceTypeOK
<1> QED BY <1>1, <1>2

\* The types, ready for use.
LEMMA TypeFacts ==
  ASSUME ServiceInv
  PROVE  server \in ServerType /\ backlog \in Seq(Visitor) /\ conn \in [Visitor -> ConnType]
BY DEF ServiceInv, ServiceTypeOK

\* A visitor gives up or falls silent.
LEMMA GivesUpInv ==
  ASSUME ServiceInv, NEW v \in Visitor, TimesOut(v) \/ Vanishes(v) \/ Stalls(v)
  PROVE  ServiceInv'
<1>1. /\ UNCHANGED <<trustVars, mode, manifest, deployed, server, ticket, backlog>>
      /\ Goes(v, "failed") \/ Goes(v, "silent")
  BY DEF TimesOut, Vanishes, Stalls
<1>2. /\ conn' \in [Visitor -> ConnType]
      /\ \A u \in Visitor : conn'[u].plan = conn[u].plan /\ conn'[u].key = conn[u].key
      /\ \A u \in Visitor : \/ conn'[u].state = conn[u].state
                           \/ conn'[u].state \in {"failed", "silent"}
  <2>1. PICK how \in {"failed", "silent"} : conn' = [conn EXCEPT ![v].state = how]
    BY <1>1 DEF Goes
  <2>2. conn \in [Visitor -> ConnType]
    BY TypeFacts
  <2>3. conn[v] \in ConnType /\ [conn[v] EXCEPT !.state = how] \in ConnType
    BY <2>1, <2>2 DEF ConnType
  <2>4. /\ conn' \in [Visitor -> ConnType]
        /\ conn'[v] = [conn[v] EXCEPT !.state = how]
        /\ \A u \in Visitor : u # v => conn'[u] = conn[u]
    BY <2>1, <2>2, <2>3
  <2> QED BY <2>1, <2>2, <2>3, <2>4 DEF ConnType
<1>3. TrustTypeOK' /\ ServiceTypeOK' /\ CopiesAreGrants' /\ DeploymentOK'
  BY <1>1, <1>2, TypeFacts, SameFiles
<1>4. ServerOK'
  BY <1>1 DEF ServiceInv, ServerOK, Iroh, trustVars
<1>5. Waiting' = Waiting /\ server' = server /\ backlog' = backlog /\ (Iroh' <=> Iroh)
  BY <1>1 DEF Waiting, Iroh
<1>6. \A u \in Visitor : Admitted(u) => Admitted(u)'
  BY <1>1, <1>2 DEF Admitted, trustVars
<1>7. \A u \in Waiting \cup server.peer : u \in Visitor
  BY TypeFacts DEF Waiting, ServerType
<1>8. ConnectionsOK'
  BY <1>2, <1>5, <1>6, <1>7 DEF ServiceInv, ConnectionsOK
<1> QED BY <1>3, <1>4, <1>8 DEF ServiceInv

\* A process that is gone has no connection, and no visitor stays in a session.
LEMMA GoneInv ==
  ASSUME ServiceInv, UNCHANGED <<trustVars, mode, manifest, deployed, ticket>>,
         server' \in ServerType, server'.status = "down", server'.peer = {}, backlog' = <<>>,
         conn' \in [Visitor -> ConnType], \A v \in Visitor : conn'[v].state # "session"
  PROVE  ServiceInv'
<1>1. TrustTypeOK' /\ ServiceTypeOK' /\ CopiesAreGrants' /\ DeploymentOK'
  BY SameFiles
<1>2. ServerOK'
  BY DEF ServerOK
<1>3. Waiting' = {}
  BY DEF Waiting
<1>4. ConnectionsOK'
  BY <1>3 DEF ConnectionsOK
<1> QED BY <1>1, <1>2, <1>4 DEF ServiceInv

\* The process exits.
LEMMA ExitInv ==
  ASSUME ServiceInv, NEW why \in {"error", "killed"}, Exit(why)
  PROVE  ServiceInv'
<1>1. /\ UNCHANGED <<trustVars, mode, manifest, deployed, ticket>> /\ backlog' = <<>>
      /\ server' = [Down(why) EXCEPT !.served = server.served]
      /\ conn' = [v \in Visitor |->
                    IF (v \in Waiting \/ Serving(v)) /\ conn[v].state \in {"waiting", "silent", "session"}
                      THEN [conn[v] EXCEPT !.state = "failed"] ELSE conn[v]]
  BY DEF Exit
<1>2. server' \in ServerType /\ server'.status = "down" /\ server'.peer = {}
  BY <1>1, TypeFacts DEF Down, ServerType
<1>3. conn' \in [Visitor -> ConnType]
  BY <1>1, TypeFacts DEF ConnType
<1>4. \A v \in Visitor : conn'[v].state # "session"
  <2> SUFFICES ASSUME NEW v \in Visitor PROVE conn'[v].state # "session"
    OBVIOUS
  <2>1. conn[v] \in ConnType
    BY TypeFacts
  <2>2. CASE conn[v].state = "session"
    <3>1. Serving(v)
      BY <2>2 DEF ServiceInv, ConnectionsOK, Serving
    <3>2. conn'[v] = [conn[v] EXCEPT !.state = "failed"]
      BY <1>1, <2>2, <3>1
    <3> QED BY <2>1, <3>2 DEF ConnType
  <2>3. CASE conn[v].state # "session"
    BY <1>1, <2>1, <2>3 DEF ConnType
  <2> QED BY <2>2, <2>3
<1> QED BY <1>1, <1>2, <1>3, <1>4, GoneInv

\* accept lets in nobody whose key the policy does not have.
LEMMA AcceptInv ==
  ASSUME ServiceInv, Accept
  PROVE  ServiceInv'
<1> DEFINE v == Head(backlog)
<1>1. server.status = "accepting" /\ backlog # <<>> /\ backlog \in Seq(Visitor)
  BY TypeFacts DEF Accept
<1>2. v \in Visitor /\ v \in Waiting
  BY <1>1 DEF Waiting
<1>3. \/ Exit("error")
      \/ /\ server' = [server EXCEPT !.status = "preface", !.peer = {v}]
         /\ backlog' = Tail(backlog)
         /\ UNCHANGED <<trustVars, mode, manifest, deployed, ticket, conn>>
         /\ Iroh => conn[v].key \cap server.allowed # {}
  BY DEF Accept
<1> HIDE DEF v
<1>4. CASE Exit("error")
  BY <1>4, ExitInv
<1>5. CASE /\ server' = [server EXCEPT !.status = "preface", !.peer = {v}]
           /\ backlog' = Tail(backlog)
           /\ UNCHANGED <<trustVars, mode, manifest, deployed, ticket, conn>>
           /\ Iroh => conn[v].key \cap server.allowed # {}
  <2>1. /\ server' \in ServerType /\ server'.status = "preface" /\ server'.peer = {v}
        /\ server'.plan = server.plan /\ server'.key = server.key
        /\ server'.allowed = server.allowed
    BY <1>2, <1>5, TypeFacts DEF ServerType
  <2>2. backlog' \in Seq(Visitor) /\ conn' = conn
    BY <1>1, <1>5
  <2>3. TrustTypeOK' /\ ServiceTypeOK' /\ CopiesAreGrants' /\ DeploymentOK'
    BY <1>5, <2>1, <2>2, TypeFacts, SameFiles
  <2>4. ServerOK'
    BY <1>1, <1>5, <2>1 DEF ServiceInv, ServerOK, Iroh, trustVars
  <2>5. Waiting' \subseteq Waiting
    <3>1. \A i \in DOMAIN backlog' : i + 1 \in DOMAIN backlog /\ backlog'[i] = backlog[i + 1]
      BY <1>1, <1>5
    <3> QED BY <3>1 DEF Waiting
  <2>6. \A u : Admitted(u) <=> Admitted(u)'
    BY <1>5, <2>1, <2>2 DEF Admitted, trustVars
  <2>7. \A u \in Visitor : conn[u].state # "session"
    BY <1>1 DEF ServiceInv, ConnectionsOK
  <2>8. ConnectionsOK'
    BY <1>2, <1>5, <2>1, <2>2, <2>5, <2>6, <2>7 DEF ServiceInv, ConnectionsOK, Iroh
  <2> QED BY <2>3, <2>4, <2>8 DEF ServiceInv
<1> QED BY <1>3, <1>4, <1>5

\* establish_session succeeds between two that have one plan.
LEMMA EstablishInv ==
  ASSUME ServiceInv, NEW v \in Visitor, Establish(v)
  PROVE  ServiceInv'
<1>1. /\ server.status = "preface" /\ server.peer = {v} /\ conn[v].plan = server.plan
      /\ server' = [server EXCEPT !.status = "session"] /\ Goes(v, "session")
      /\ UNCHANGED <<trustVars, mode, manifest, deployed, ticket, backlog>>
  BY DEF Establish, Serving
<1>2. /\ server' \in ServerType /\ server'.status = "session" /\ server'.peer = {v}
      /\ server'.plan = server.plan /\ server'.key = server.key
      /\ server'.allowed = server.allowed
  BY <1>1, TypeFacts DEF ServerType
<1>3. /\ conn' \in [Visitor -> ConnType]
      /\ \A u \in Visitor : conn'[u].plan = conn[u].plan /\ conn'[u].key = conn[u].key
      /\ \A u \in Visitor : u # v => conn'[u].state = conn[u].state
      /\ conn'[v].state = "session"
  BY <1>1, TypeFacts DEF Goes, ConnType
<1>4. TrustTypeOK' /\ ServiceTypeOK' /\ CopiesAreGrants' /\ DeploymentOK'
  BY <1>1, <1>2, <1>3, TypeFacts, SameFiles
<1>5. ServerOK'
  BY <1>1, <1>2 DEF ServiceInv, ServerOK, Iroh, trustVars
<1>6. Waiting' = Waiting /\ backlog' = backlog /\ (Iroh' <=> Iroh)
  BY <1>1 DEF Waiting, Iroh
<1>7. \A u \in Visitor : Admitted(u) => Admitted(u)'
  BY <1>1, <1>2, <1>3 DEF Admitted, trustVars
<1>8. \A u \in Waiting \cup server.peer : u \in Visitor
  BY TypeFacts DEF Waiting, ServerType
<1>9. \A u \in Visitor : conn[u].state # "session"
  BY <1>1 DEF ServiceInv, ConnectionsOK
<1>10. ConnectionsOK'
  BY <1>1, <1>2, <1>3, <1>6, <1>7, <1>8, <1>9 DEF ServiceInv, ConnectionsOK
<1> QED BY <1>4, <1>5, <1>10 DEF ServiceInv

\* A session ends; serve --forever accepts again, the others exit.
LEMMA SessionEndsInv ==
  ASSUME ServiceInv, NEW v \in Visitor, SessionEnds(v)
  PROVE  ServiceInv'
<1>1. server.status = "session" /\ server.peer = {v}
  BY DEF SessionEnds, Answered, Serving
<1>2. \A u \in Visitor : conn[u].state = "session" => u = v
  BY <1>1 DEF ServiceInv, ConnectionsOK
<1>3. CASE mode = "forever"
  <2>1. /\ server' = [server EXCEPT !.status = "accepting", !.peer = {}, !.served = @ + 1]
        /\ Goes(v, IF conn[v].state = "session" THEN "reported" ELSE "failed")
        /\ UNCHANGED <<trustVars, mode, manifest, deployed, ticket, backlog>>
    BY <1>3 DEF SessionEnds
  <2>2. /\ server' \in ServerType /\ server'.status = "accepting" /\ server'.peer = {}
        /\ server'.plan = server.plan /\ server'.key = server.key
        /\ server'.allowed = server.allowed
    <3>1. server \in ServerType /\ server.served + 1 \in Nat
      BY TypeFacts DEF ServerType
    <3>2. server' = [server EXCEPT !.status = "accepting", !.peer = {},
                                   !.served = server.served + 1]
      BY <2>1
    <3> QED BY <3>1, <3>2 DEF ServerType
  <2>3. /\ conn' \in [Visitor -> ConnType]
        /\ \A u \in Visitor : u # v => conn'[u] = conn[u]
        /\ conn'[v].state \in {"reported", "failed"}
        /\ conn'[v].plan = conn[v].plan /\ conn'[v].key = conn[v].key
    BY <2>1, TypeFacts DEF Goes, ConnType
  <2>4. TrustTypeOK' /\ ServiceTypeOK' /\ CopiesAreGrants' /\ DeploymentOK'
    BY <2>1, <2>2, <2>3, TypeFacts, SameFiles
  <2>5. ServerOK'
    BY <1>1, <2>1, <2>2 DEF ServiceInv, ServerOK, Iroh, trustVars
  <2>6. Waiting' = Waiting /\ backlog' = backlog /\ (Iroh' <=> Iroh)
    BY <2>1 DEF Waiting, Iroh
  <2>7. \A u \in Visitor : Admitted(u) => Admitted(u)'
    BY <2>1, <2>2, <2>3 DEF Admitted, trustVars
  <2>8. \A u \in Waiting : u \in Visitor
    BY DEF Waiting
  <2>9. \A u \in Visitor : conn'[u].state # "session"
    BY <1>2, <2>3
  <2>10. ConnectionsOK'
    BY <2>2, <2>3, <2>6, <2>7, <2>8, <2>9 DEF ServiceInv, ConnectionsOK
  <2> QED BY <2>4, <2>5, <2>10 DEF ServiceInv
<1>4. CASE mode # "forever"
  <2>1. /\ server' = [Down("done") EXCEPT !.served = server.served + 1] /\ backlog' = <<>>
        /\ UNCHANGED <<trustVars, mode, manifest, deployed, ticket>>
        /\ conn' = [u \in Visitor |->
             IF u = v
               THEN [conn[u] EXCEPT !.state = IF @ = "session" THEN "reported" ELSE "failed"]
             ELSE IF u \in Waiting THEN [conn[u] EXCEPT !.state = "failed"] ELSE conn[u]]
    BY <1>4 DEF SessionEnds
  <2>2. server' \in ServerType /\ server'.status = "down" /\ server'.peer = {}
    BY <2>1, TypeFacts DEF Down, ServerType
  <2>3. conn' \in [Visitor -> ConnType] /\ \A u \in Visitor : conn'[u].state # "session"
    BY <1>2, <2>1, TypeFacts DEF ConnType
  <2> QED BY <2>1, <2>2, <2>3, GoneInv
<1> QED BY <1>3, <1>4

\* Every step of the service keeps the invariant.
LEMMA ServiceStepInv == ServiceInv /\ [ServiceNext]_allVars => ServiceInv'
<1> SUFFICES ASSUME ServiceInv, [ServiceNext]_allVars PROVE ServiceInv'
  OBVIOUS
<1>1. CASE UNCHANGED allVars
  <2>1. UNCHANGED <<source, key, policy, announced, granted, commands, started,
                    mode, manifest, deployed, server, ticket, backlog, conn>>
    BY <1>1 DEF allVars, trustVars, serviceVars
  <2>2. TrustTypeOK' /\ ServiceTypeOK' /\ CopiesAreGrants' /\ DeploymentOK' /\ ServerOK'
    BY <2>1 DEF ServiceInv, TrustTypeOK, ServiceTypeOK, CopiesAreGrants, DeploymentOK, ServerOK, Iroh
  <2>3. Waiting' = Waiting /\ (Iroh' <=> Iroh) /\ \A v : Admitted(v) <=> Admitted(v)'
    BY <2>1 DEF Waiting, Iroh, Admitted
  <2> QED BY <2>1, <2>2, <2>3 DEF ServiceInv, ConnectionsOK
<1>2. ASSUME NEW v \in Visitor, RefusePeer(v) \/ ReadTimesOut(v) \/ SessionBreaks(v)
      PROVE  ServiceInv'
  BY <1>2, ExitInv DEF RefusePeer, ReadTimesOut, SessionBreaks
<1>3. CASE Killed
  BY <1>3, ExitInv DEF Killed
<1>4. CASE ServerStep
  BY <1>2, <1>4, AcceptInv, EstablishInv, SessionEndsInv DEF ServerStep
<1> QED BY <1>1, <1>3, <1>4, FilesInv, NotesInv, DeployInv, StartByHandInv, RestartInv,
           VisitorInv, GivesUpInv DEF ServiceNext

-----------------------------------------------------------------------------
(***************************************************************************)
(* The theorems.                                                           *)
(***************************************************************************)
\* The files and the processes that have read them keep the invariant.
THEOREM ServiceInvariance == ServiceSpec => []ServiceInv
BY ServiceInitInv, ServiceStepInv, PTL DEF ServiceSpec

\* A session stands only between two sides that compiled one plan, the one that is
\* pinned where the server is deployed, and over Iroh only where both operators
\* granted it: accept compares keys with the policy the server started with, and
\* connect-iroh asked its own policy before it connected.
THEOREM SanctionedTheorem == ServiceSpec => []SessionsAreSanctioned
<1>1. ServiceInv => SessionsAreSanctioned
  <2> SUFFICES ASSUME ServiceInv, NEW v \in server.peer, server.status = "session",
                      conn[v].state = "session"
               PROVE  /\ conn[v].plan = server.plan
                      /\ \A d \in deployed : server.plan \in d.pinned
                      /\ Iroh => \E ours \in server.key, theirs \in conn[v].key :
                           /\ Rule(theirs, "client", server.plan) \in granted["server"]
                           /\ Rule(ours, "server", server.plan) \in granted["client"]
    BY DEF SessionsAreSanctioned
  <2>1. v \in Visitor
    BY TypeFacts DEF ServerType
  <2>2. conn[v].plan = server.plan
    BY <2>1 DEF ServiceInv, ConnectionsOK
  <2>3. \A d \in deployed : server.plan \in d.pinned
    BY DEF ServiceInv, ServerOK
  <2>4. ASSUME Iroh
        PROVE  \E ours \in server.key, theirs \in conn[v].key :
                 /\ Rule(theirs, "client", server.plan) \in granted["server"]
                 /\ Rule(ours, "server", server.plan) \in granted["client"]
    <3>1. Admitted(v)
      BY <2>4 DEF ServiceInv, ConnectionsOK
    <3>2. PICK theirs \in conn[v].key : theirs \in server.allowed
      BY <2>4 DEF ServiceInv, ConnectionsOK
    <3>3. PICK ours \in server.key : Rule(ours, "server", conn[v].plan) \in granted["client"]
      BY <3>1, <3>2 DEF Admitted
    <3>4. Rule(theirs, "client", server.plan) \in granted["server"]
      BY <2>4, <3>2 DEF ServiceInv, ServerOK
    <3> QED BY <2>2, <3>2, <3>3, <3>4
  <2> QED BY <2>2, <2>3, <2>4
<1> QED BY <1>1, ServiceInvariance, PTL

\* Of what is written, a key or a grant, only a write by a command that had looked before
\* can take it away: each write of a key goes by a file that was absent, and each write
\* of a policy puts back whatever its command had found.
THEOREM OverlapTheorem == ServiceSpec => TrustLostOnlyToOverlap
<1> DEFINE Kept == \A h \in Host :
      \/ key[h] \subseteq key'[h] /\ policy[h] \subseteq policy'[h]
      \/ \E c \in commands \ commands' :
           /\ Head(c.todo).host = h
           /\ c.seen # IF Head(c.todo).kind = "key" THEN key[h] ELSE policy[h]
<1>1. ASSUME ServiceInv, UNCHANGED <<key, policy>> PROVE Kept
  BY <1>1
<1>2. ASSUME ServiceInv, NEW c \in commands, SavePrivate(c) PROVE Kept
  <2> DEFINE g == Head(c.todo).host
  <2>1. /\ g \in Host /\ c.seen = {} /\ Head(c.todo).kind = "key" /\ c \in commands \ commands'
        /\ policy' = policy /\ key' = [key EXCEPT ![g] = {KeyOf(c.id, g)}]
        /\ key \in [Host -> SUBSET Nat]
    BY <1>2, CommandFacts, WroteKeeps DEF SavePrivate, ServiceInv, TrustTypeOK
  <2>2. \A h \in Host : h # g => key'[h] = key[h]
    BY <2>1
  <2>3. CASE key[g] = {}
    BY <2>1, <2>2, <2>3
  <2>4. CASE key[g] # {}
    BY <2>1, <2>2, <2>4
  <2> QED BY <2>3, <2>4
<1>3. ASSUME ServiceInv, NEW c \in commands, SavePolicy(c) PROVE Kept
  <2> DEFINE g == Head(c.todo).host
  <2>1. /\ g \in Host /\ Head(c.todo).kind = "policy" /\ c \in commands \ commands'
        /\ c.seen \subseteq c.rules[g]
        /\ key' = key /\ policy' = [policy EXCEPT ![g] = c.rules[g]]
        /\ policy \in [Host -> SUBSET Rules]
    BY <1>3, CommandFacts, WroteKeeps DEF SavePolicy, ServiceInv, TrustTypeOK
  <2>2. \A h \in Host : h # g => policy'[h] = policy[h]
    BY <2>1
  <2>3. c.seen \subseteq policy'[g]
    BY <2>1
  <2>4. CASE c.seen = policy[g]
    BY <2>1, <2>2, <2>3, <2>4
  <2>5. CASE c.seen # policy[g]
    BY <2>1, <2>2, <2>5
  <2> QED BY <2>4, <2>5
<1>4. ServiceInv /\ [ServiceNext]_allVars => [Kept]_trustVars
  <2> SUFFICES ASSUME ServiceInv, [ServiceNext]_allVars PROVE Kept \/ UNCHANGED trustVars
    OBVIOUS
  <2>1. CASE TrustNext
    <3>1. CASE \/ Bootstrap
               \/ \E h \in Host : \/ EditConversation(h) \/ NodeInit(h)
                                  \/ \E peer \in announced[Other(h)] : PolicyAllow(h, peer)
      <4>1. UNCHANGED <<key, policy>>
        BY <3>1 DEF Bootstrap, EditConversation, NodeInit, PolicyAllow, Start
      <4> QED BY <1>1, <4>1
    <3> QED BY <1>2, <1>3, <2>1, <3>1 DEF TrustNext
  <2>2. CASE \E h \in Host : EditConversation(h)
    <3>1. UNCHANGED <<key, policy>>
      BY <2>2 DEF EditConversation
    <3> QED BY <1>1, <3>1
  <2>3. CASE UNCHANGED trustVars
    BY <2>3
  <2>4. TrustNext \/ (\E h \in Host : EditConversation(h)) \/ UNCHANGED trustVars
    BY DEF ServiceNext, allVars, EmitMiren, Deploy, StartByHand, Restart, Launch, CopyTicket,
           Connect, ConnectIroh, Probe, Arrives, Stalls, TimesOut, Vanishes, ServerStep, Accept,
           Establish, RefusePeer, ReadTimesOut, SessionBreaks, SessionEnds, Killed, Exit
  <2> QED BY <2>1, <2>2, <2>3, <2>4
<1> QED BY <1>4, ServiceInvariance, PTL DEF ServiceSpec, TrustLostOnlyToOverlap

=============================================================================
