----------------------------- MODULE Validation -----------------------------
(***************************************************************************)
(* validate: the checks a conversation document passes before anything is  *)
(* projected, compiled or run.  A first pass collects diagnostics state by *)
(* state; only when it finds none does a breadth-first search from the     *)
(* initial state look for unreachable states and for a terminal one.       *)
(*                                                                         *)
(* A document is a record of sequences, in the order they are written:     *)
(*   [format, roles, types, failures, initial, states]                     *)
(* where types is a sequence of [id, kind], kind telling whether the       *)
(* definition has one, and states a sequence of [id, body].  Of a          *)
(* diagnostic only its code is kept.                                       *)
(***************************************************************************)
EXTENDS Conversation, SequencesExt

CONSTANT Document   \* the documents to validate

VARIABLES
  doc,              \* the document
  phase,            \* "check", "search", "done"
  diagnostics,      \* the codes found so far
  queue,            \* the search: ids still to visit, in order
  reachable,        \* ids visited
  reaches_terminal

vars == <<doc, phase, diagnostics, queue, reachable, reaches_terminal>>

Empty == ""

Elements(s) == {s[i] : i \in DOMAIN s}
Distinct(s) == \A i, j \in DOMAIN s : s[i] = s[j] => i = j
Code(condition, code) == Only(condition, code)

IsSequence(s) == s \in Seq(Elements(s))

\* What serde makes of a document: sequences, and states of the five variants.
Variant(g) ==
  \/ g.kind = "send" /\ g = SendState(g.from, g.to, g.message, g.next, g.on_failure)
  \/ g.kind = "choice" /\ g = ChoiceState(g.chooser, g.branches, g.on_failure)
  \/ g.kind = "cancel" /\ g = CancelState(g.from, g.to, g.scope, g.next, g.on_failure)
  \/ g = EndState
  \/ g.kind = "fail" /\ g = FailState(g.failure)

ASSUME DocumentAssumption ==
  \A d \in Document :
    /\ IsSequence(d.roles) /\ IsSequence(d.types) /\ IsSequence(d.failures)
    /\ IsSequence(d.states)
    /\ \A i \in DOMAIN d.states :
         LET g == d.states[i].body IN
         /\ Variant(g)
         /\ ~Terminal(g) => IsFiniteSet(DOMAIN g.on_failure)
         /\ g.kind = "choice" => IsFiniteSet(DOMAIN g.branches)

-----------------------------------------------------------------------------
(***************************************************************************)
(* The first pass.                                                         *)
(***************************************************************************)

\* unique_ids: what it reports and what it returns.
UniqueIdsCodes(ids) ==
  Code(Empty \in Elements(ids), "CLQ0011")
    \cup Code(\E i, j \in DOMAIN ids : i # j /\ ids[i] = ids[j] /\ ids[i] # Empty,
              "CLQ0012")

UniqueIds(ids) == Elements(ids) \ {Empty}

TypeIds(d) == [i \in DOMAIN d.types |-> d.types[i].id]
StateIds(d) == [i \in DOMAIN d.states |-> d.states[i].id]

\* The BTreeMap of states: of two with one id, the later.
StateOf(d, id) ==
  LET last == CHOOSE i \in DOMAIN d.states :
                /\ d.states[i].id = id
                /\ \A j \in DOMAIN d.states : d.states[j].id = id => j <= i
  IN  d.states[last].body

Known(d, id) == id \in Elements(StateIds(d))

ValidateRoles(d, from, to) ==
  Code(from \notin UniqueIds(d.roles), "CLQ0013")
    \cup Code(to \notin UniqueIds(d.roles), "CLQ0014")
    \cup Code(from = to, "CLQ0015")

ValidateTarget(d, target) == Code(~Known(d, target), "CLQ0016")

\* Mutated form: the target of a failure edge may be any state.
ValidateFailureEdgesAnyTarget(d, onFailure) ==
  UNION {
    Code(failure \notin UniqueIds(d.failures), "CLQ0019")
      \cup ValidateTarget(d, onFailure[failure])
    : failure \in DOMAIN onFailure}

ValidateFailureEdges(d, onFailure) ==
  UNION {
    Code(failure \notin UniqueIds(d.failures), "CLQ0019")
      \cup ValidateTarget(d, onFailure[failure])
      \cup Code(/\ Known(d, onFailure[failure])
                /\ StateOf(d, onFailure[failure]) # FailState(failure), "CLQ0020")
    : failure \in DOMAIN onFailure}

ValidateState(d, g) ==
  CASE g.kind = "send" ->
         ValidateRoles(d, g.from, g.to)
           \cup Code(g.message \notin UniqueIds(TypeIds(d)), "CLQ0006")
           \cup ValidateTarget(d, g.next)
           \cup ValidateFailureEdges(d, g.on_failure)
    [] g.kind = "choice" ->
         Code(g.chooser \notin UniqueIds(d.roles), "CLQ0007")
           \cup Code(Cardinality(DOMAIN g.branches) < 2, "CLQ0008")
           \cup Code(Empty \in DOMAIN g.branches, "CLQ0009")
           \cup (UNION {ValidateTarget(d, g.branches[l]) : l \in DOMAIN g.branches})
           \cup ValidateFailureEdges(d, g.on_failure)
    [] g.kind = "cancel" ->
         ValidateRoles(d, g.from, g.to)
           \cup Code(g.scope = Empty, "CLQ0010")
           \cup ValidateTarget(d, g.next)
           \cup ValidateFailureEdges(d, g.on_failure)
    [] g.kind = "fail" -> Code(g.failure \notin UniqueIds(d.failures), "CLQ0019")
    [] g.kind = "end" -> {}

FirstPass(d) ==
  Code(~d.format, "CLQ0001")
    \cup UniqueIdsCodes(d.roles)
    \cup Code(Len(d.roles) # 2, "CLQ0002")
    \cup UniqueIdsCodes(TypeIds(d))
    \cup Code(\E i \in DOMAIN d.types : ~d.types[i].kind, "CLQ0003")
    \cup UniqueIdsCodes(d.failures)
    \cup Code(~Distinct(StateIds(d)), "CLQ0004")
    \cup Code(~Known(d, d.initial), "CLQ0005")
    \cup UNION {ValidateState(d, d.states[i].body) : i \in DOMAIN d.states}

Check ==
  /\ phase = "check"
  /\ diagnostics' = FirstPass(doc)
  /\ phase' = IF diagnostics' = {} THEN "search" ELSE "done"
  /\ queue' = IF diagnostics' = {} THEN <<doc.initial>> ELSE <<>>
  /\ UNCHANGED <<doc, reachable, reaches_terminal>>

-----------------------------------------------------------------------------
(***************************************************************************)
(* validate_reachability: one iteration of its loop, and what it reports.  *)
(***************************************************************************)

\* Mutated form: failure edges are not followed.
EdgesOfWithoutFailures(g) ==
  CASE g.kind \in {"send", "cancel"} -> {<<"next", "">>}
    [] g.kind = "choice" -> {<<"branch", l>> : l \in DOMAIN g.branches}
    [] OTHER -> {}

\* GlobalState::successors lists a target once for every edge to it.
EdgesOf(g) ==
  CASE g.kind \in {"send", "cancel"} ->
         {<<"next", "">>} \cup {<<"failure", f>> : f \in DOMAIN g.on_failure}
    [] g.kind = "choice" ->
         {<<"branch", l>> : l \in DOMAIN g.branches}
           \cup {<<"failure", f>> : f \in DOMAIN g.on_failure}
    [] OTHER -> {}

TargetOf(g, edge) ==
  CASE edge[1] = "next" -> g.next
    [] edge[1] = "branch" -> g.branches[edge[2]]
    [] edge[1] = "failure" -> g.on_failure[edge[2]]

Visit ==
  /\ phase = "search" /\ queue # <<>>
  /\ LET id == Head(queue) IN
     IF id \in reachable
       THEN /\ queue' = Tail(queue)
            /\ UNCHANGED <<reachable, reaches_terminal>>
       ELSE /\ reachable' = reachable \cup {id}
            /\ reaches_terminal' = (reaches_terminal \/ Terminal(StateOf(doc, id)))
            /\ LET g == StateOf(doc, id) IN
               \E edges \in SetToSeqs(EdgesOf(g)) :
                 queue' = Tail(queue) \o [i \in DOMAIN edges |-> TargetOf(g, edges[i])]
  /\ UNCHANGED <<doc, phase, diagnostics>>

Conclude ==
  /\ phase = "search" /\ queue = <<>>
  /\ diagnostics' = diagnostics
       \cup Code(Elements(StateIds(doc)) \ reachable # {}, "CLQ0017")
       \cup Code(~reaches_terminal, "CLQ0018")
  /\ phase' = "done"
  /\ UNCHANGED <<doc, queue, reachable, reaches_terminal>>

ValidationInit ==
  /\ doc \in Document
  /\ phase = "check"
  /\ diagnostics = {}
  /\ queue = <<>>
  /\ reachable = {}
  /\ reaches_terminal = FALSE

ValidationNext == Check \/ Visit \/ Conclude

ValidationSpec == ValidationInit /\ [][ValidationNext]_vars

-----------------------------------------------------------------------------
(***************************************************************************)
(* Properties.                                                             *)
(***************************************************************************)
Accepted == phase = "done" /\ diagnostics = {}

\* The conversation an accepted document stands for, in the form the runtime
\* uses it.
ConversationOf(d) ==
  [roles |-> Elements(d.roles), initial |-> d.initial,
   states |-> [id \in Elements(StateIds(d)) |-> StateOf(d, id)]]

\* Reference: the states n edges from the initial one, for growing n.
Within(d) ==
  LET within[n \in 0..Len(d.states)] ==
        IF n = 0 THEN {d.initial}
        ELSE within[n - 1] \cup UNION {Successors(StateOf(d, id)) : id \in within[n - 1]}
  IN  within[Len(d.states)]

\* The search visits exactly the states that edges lead to, whatever order the
\* successors are queued in, and finds a terminal one if and only if there is one.
SearchIsExact ==
  (phase = "done" /\ reachable # {}) =>
    /\ reachable = Within(doc)
    /\ reaches_terminal <=> \E id \in Within(doc) : Terminal(StateOf(doc, id))

Refused ==
  phase = "done" /\ diagnostics # {}

\* Nothing is wrong with the document.
Sound(d) ==
  /\ d.format
  /\ \A ids \in {d.roles, TypeIds(d), d.failures} : Distinct(ids) /\ Empty \notin Elements(ids)
  /\ Distinct(StateIds(d))
  /\ \A i \in DOMAIN d.types : d.types[i].kind
  /\ WellFormed(ConversationOf(d))
  /\ \A i \in DOMAIN d.states :
       LET g == d.states[i].body IN
       /\ g.kind = "send" => g.message \in Elements(TypeIds(d))
       /\ g.kind = "cancel" => g.scope # Empty
       /\ g.kind = "choice" => Empty \notin DOMAIN g.branches
       /\ g.kind = "fail" => g.failure \in Elements(d.failures)
       /\ ~Terminal(g) => DOMAIN g.on_failure \subseteq Elements(d.failures)
  /\ Within(d) = Elements(StateIds(d))
  /\ \E id \in Within(d) : Terminal(StateOf(d, id))

\* validate is exact.  What it accepts is sound: the projected machines index
\* states and roles by what a document names, and the sessions are proved, under
\* that assumption alone.  What it refuses is not: no document is turned away
\* for the order its states are visited in or for what it does not say.
ValidationIsExact ==
  /\ Accepted => Sound(doc)
  /\ Refused => ~Sound(doc)

=============================================================================
