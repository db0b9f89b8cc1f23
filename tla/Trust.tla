------------------------------- MODULE Trust -------------------------------
(***************************************************************************)
(* The files two hosts keep about each other: the conversation each of     *)
(* them compiles, its node identity and its authorization policy, and the  *)
(* commands that write them (node-init, policy-allow, bootstrap-two-node). *)
(*                                                                         *)
(* A command looks at what is there in one step and writes each of its     *)
(* files in another; commands may overlap, and one that is killed never    *)
(* writes the rest.  A plan stands for its identity, a node key for its    *)
(* Endpoint ID; a policy is the set of its rules, empty when there is no   *)
(* file (both make every command that needs it fail).                      *)
(***************************************************************************)
EXTENDS Naturals, Sequences, FiniteSets

CONSTANTS
  MaxPlan,        \* bound: versions of the conversation
  MaxCommands     \* bound: commands started

ASSUME TrustBounds == MaxPlan \in Nat \ {0} /\ MaxCommands \in Nat

Host == {"server", "client"}
Other(h) == CHOOSE o \in Host : o # h

VARIABLES
  source,       \* the plan each host's conversation file compiles to
  key,          \* the key in each host's identity file: at most one
  policy,       \* the rules in each host's policy file
  announced,    \* the Endpoint IDs that have been in each host's identity file
  granted,      \* every grant that a command has written to each host's policy file
  commands,     \* the commands that have looked and have not written everything:
                \*   seen: the rules or the key the command found, and goes by
                \*   todo: the files it has to write, in their order
                \*   rules: what it writes to each host's policy
  started       \* how many were started

trustVars == <<source, key, policy, announced, granted, commands, started>>

Rule(peer, role, plan) == [peer |-> peer, role |-> role, plan |-> plan]

File(kind, h) == [kind |-> kind, host |-> h]

TrustInit ==
  /\ source = [h \in Host |-> 1]
  /\ key = [h \in Host |-> {}]
  /\ policy = [h \in Host |-> {}]
  /\ announced = [h \in Host |-> {}]
  /\ granted = [h \in Host |-> {}]
  /\ commands = {}
  /\ started = 0

\* NodeIdentity::generate: the key command n makes for a host is nobody else's.
KeyOf(n, h) == 2 * n + IF h = "server" THEN 1 ELSE 2

\* The author edits the conversation on one host; the plan changes with it.
EditConversation(h) ==
  /\ source[h] < MaxPlan
  /\ source' = [source EXCEPT ![h] = @ + 1]
  /\ UNCHANGED <<key, policy, announced, granted, commands, started>>

Start(seen, todo, rules) ==
  /\ started < MaxCommands
  /\ started' = started + 1
  /\ commands' = commands \cup {[id |-> started, seen |-> seen, todo |-> todo, rules |-> rules]}
  /\ UNCHANGED <<source, key, policy, announced, granted>>

NoRules == [h \in Host |-> {}]

-----------------------------------------------------------------------------
(***************************************************************************)
(* What the commands look at.                                              *)
(***************************************************************************)
\* Mutated form: an identity file that is there is no obstacle.
NodeInitAnyway(h) == Start(key[h], <<File("key", h)>>, NoRules)

\* node-init: ensure_absent passes.
NodeInit(h) ==
  /\ key[h] = {}
  /\ Start({}, <<File("key", h)>>, NoRules)

Allow(rules, peer, role, plan) == rules \cup {Rule(peer, role, plan)}

\* policy-allow: the conversation and the policy are read, or a default one made.
PolicyAllow(h, peer) ==
  /\ peer \in announced[Other(h)]
  /\ Start(policy[h], <<File("policy", h)>>,
           [g \in Host |-> IF g = h THEN Allow(policy[h], peer, Other(h), source[h]) ELSE {}])

\* bootstrap-two-node, on one machine: two keys and reciprocal policies, unless one of
\* the four files is there.  The draft conversation's grants are left out.
Bootstrap ==
  /\ \A h \in Host : key[h] = {} /\ policy[h] = {}
  /\ Start({}, <<File("key", "server"), File("key", "client"),
                 File("policy", "server"), File("policy", "client")>>,
           [h \in Host |-> Allow({}, KeyOf(started, Other(h)), Other(h), source["server"])])

(***************************************************************************)
(* What they write.                                                        *)
(***************************************************************************)
\* The file is written; after its last one the command returns.
Wrote(c) ==
  LET rest == [c EXCEPT !.todo = Tail(@)] IN
  commands' = (commands \ {c}) \cup {d \in {rest} : d.todo # <<>>}

\* save_private truncates whatever is there by now.
SavePrivate(c) ==
  LET f == Head(c.todo) IN
  /\ f.kind = "key"
  /\ key' = [key EXCEPT ![f.host] = {KeyOf(c.id, f.host)}]
  /\ announced' = [announced EXCEPT ![f.host] = @ \cup {KeyOf(c.id, f.host)}]
  /\ Wrote(c)
  /\ UNCHANGED <<source, policy, granted, started>>

\* So does the save of a policy.
SavePolicy(c) ==
  LET f == Head(c.todo) IN
  /\ f.kind = "policy"
  /\ policy' = [policy EXCEPT ![f.host] = c.rules[f.host]]
  /\ granted' = [granted EXCEPT ![f.host] = @ \cup c.rules[f.host]]
  /\ Wrote(c)
  /\ UNCHANGED <<source, key, announced, started>>

(***************************************************************************)
(* What serve-iroh and connect-iroh ask of a policy.                       *)
(***************************************************************************)
Authorize(rules, peer, role, plan) == Rule(peer, role, plan) \in rules

\* Mutated form: a grant for any plan will do.
AuthorizedPeersAnyPlan(rules, role, plan) ==
  {r.peer : r \in {q \in rules : q.role = role}}

AuthorizedPeers(rules, role, plan) ==
  {r.peer : r \in {q \in rules : q.role = role /\ q.plan = plan}}

TrustNext ==
  \/ Bootstrap
  \/ \E h \in Host :
       \/ EditConversation(h) \/ NodeInit(h)
       \/ \E peer \in announced[Other(h)] : PolicyAllow(h, peer)
  \/ \E c \in commands : SavePrivate(c) \/ SavePolicy(c)

-----------------------------------------------------------------------------
\* A key or a grant that was written stays, unless it came after the look of the command
\* that now writes its file.  No command takes a look again: node-init and bootstrap-
\* two-node ask once whether their files are absent, the latter before four writes, and
\* policy-allow adds to the rules it has loaded.  So two commands that overlap, a
\* bootstrap that goes on while others use its first files included, lose a grant or a
\* key whose Endpoint ID can have been given out, and nothing else does.
TrustLostOnlyToOverlap ==
  [][\A h \in Host :
       \/ key[h] \subseteq key'[h] /\ policy[h] \subseteq policy'[h]
       \/ \E c \in commands \ commands' :
            /\ Head(c.todo).host = h
            /\ c.seen # IF Head(c.todo).kind = "key" THEN key[h] ELSE policy[h]]_trustVars

=============================================================================
