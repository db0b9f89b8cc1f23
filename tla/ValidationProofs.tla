-------------------------- MODULE ValidationProofs --------------------------
(***************************************************************************)
(* Proofs about Validation and Jev: validate accepts exactly the sound     *)
(* documents, its search visits exactly what is within reach, and a label  *)
(* that jev-decide gives out is one the bound state permits.               *)
(*                                                                         *)
(* The first pass is compared with Sound state by state.  For the search,  *)
(* what is within reach is the least set with the initial state that is    *)
(* closed under successors; the reference definition, which goes as many   *)
(* edges deep as there are states, computes it by a counting argument.     *)
(***************************************************************************)
EXTENDS Jev, FiniteSetTheorems, WellFoundedInduction, TLAPS

-----------------------------------------------------------------------------
(***************************************************************************)
(* The first pass.                                                         *)
(***************************************************************************)
\* The part of Sound that is about ids and single states.
LocalSound(d) ==
  /\ d.format
  /\ \A ids \in {d.roles, TypeIds(d), d.failures} : Distinct(ids) /\ Empty \notin Elements(ids)
  /\ Distinct(StateIds(d))
  /\ \A i \in DOMAIN d.types : d.types[i].kind
  /\ WellFormed(ConversationOf(d))
  /\ \A i \in DOMAIN d.states :
       LET g == d.states[i].body IN
       /\ g.kind = "send" => g.message \in Elements(TypeIds(d))
       /\ g.kind = "cancel" => g.scope # Empty
       /\ g.kind = "choice" => Empty \notin DOMAIN g.branches
       /\ g.kind = "fail" => g.failure \in Elements(d.failures)
       /\ ~Terminal(g) => DOMAIN g.on_failure \subseteq Elements(d.failures)

\* What the last checks of the first pass may take for granted.
HeaderOK(d) ==
  /\ Distinct(d.roles) /\ Empty \notin Elements(d.roles)
  /\ Distinct(TypeIds(d)) /\ Empty \notin Elements(TypeIds(d))
  /\ Distinct(d.failures) /\ Empty \notin Elements(d.failures)
  /\ Distinct(StateIds(d))

\* A state that is right on its own: in the runtime's terms and in those of names.
StateSound(d, g) ==
  /\ StateOK(ConversationOf(d), g)
  /\ g.kind = "send" => g.message \in Elements(TypeIds(d))
  /\ g.kind = "cancel" => g.scope # Empty
  /\ g.kind = "choice" => Empty \notin DOMAIN g.branches
  /\ g.kind = "fail" => g.failure \in Elements(d.failures)
  /\ ~Terminal(g) => DOMAIN g.on_failure \subseteq Elements(d.failures)

\* unique_ids is content with ids that are all there and all different.
LEMMA UniqueIdsExact ==
  ASSUME NEW ids
  PROVE  UniqueIdsCodes(ids) = {} <=> Distinct(ids) /\ Empty \notin Elements(ids)
<1> DEFINE none == Empty \in Elements(ids)
           twice == \E i, j \in DOMAIN ids : i # j /\ ids[i] = ids[j] /\ ids[i] # Empty
<1>1. UniqueIdsCodes(ids) = {} <=> ~none /\ ~twice
  BY DEF UniqueIdsCodes, Code, Only
<1>2. ~none => (~twice <=> Distinct(ids))
  BY DEF Distinct, Elements
<1> QED BY <1>1, <1>2

\* Two roles.
LEMMA RolesExact ==
  ASSUME NEW s, IsSequence(s), Distinct(s)
  PROVE  Len(s) = 2 <=> \E a, b \in Elements(s) : a # b /\ Elements(s) = {a, b}
<1>1. Len(s) \in Nat /\ DOMAIN s = 1..Len(s)
  BY DEF IsSequence
<1>2. ASSUME Len(s) = 2 PROVE \E a, b \in Elements(s) : a # b /\ Elements(s) = {a, b}
  <2>1. DOMAIN s = {1, 2}
    BY <1>1, <1>2
  <2>2. s[1] # s[2]
    BY <2>1 DEF Distinct
  <2>3. Elements(s) = {s[1], s[2]}
    BY <2>1 DEF Elements
  <2> QED BY <2>2, <2>3
<1>3. ASSUME NEW a \in Elements(s), NEW b \in Elements(s), a # b, Elements(s) = {a, b}
      PROVE  Len(s) = 2
  <2>1. PICK i \in 1..Len(s) : s[i] = a
    BY <1>1 DEF Elements
  <2>2. PICK j \in 1..Len(s) : s[j] = b
    BY <1>1 DEF Elements
  <2>3. \A k \in 1..Len(s) : k = i \/ k = j
    BY <1>1, <1>3, <2>1, <2>2 DEF Elements, Distinct
  <2>4. i # j
    BY <1>3, <2>1, <2>2
  <2>5. ~(Len(s) > 2)
    <3> SUFFICES ASSUME Len(s) > 2 PROVE FALSE
      OBVIOUS
    <3>1. 1 \in 1..Len(s) /\ 2 \in 1..Len(s) /\ 3 \in 1..Len(s)
      BY <1>1
    <3> QED BY <2>3, <3>1
  <2>6. ~(Len(s) < 2)
    BY <1>1, <2>4
  <2> QED BY <1>1, <2>5, <2>6
<1> QED BY <1>2, <1>3

\* Under distinct ids, every state is the one its id stands for.
LEMMA StateOfFacts ==
  ASSUME NEW d \in Document, Distinct(StateIds(d))
  PROVE  /\ DOMAIN d.states = DOMAIN StateIds(d) /\ DOMAIN d.states = 1..Len(d.states)
         /\ Len(d.states) \in Nat
         /\ \A i \in DOMAIN d.states :
              /\ StateIds(d)[i] = d.states[i].id
              /\ StateOf(d, d.states[i].id) = d.states[i].body
              /\ d.states[i].id \in Elements(StateIds(d))
         /\ \A id \in Elements(StateIds(d)) :
              \E i \in DOMAIN d.states : d.states[i].id = id /\ StateOf(d, id) = d.states[i].body
<1>1. IsSequence(d.states)
  BY DocumentAssumption
<1>2. Len(d.states) \in Nat /\ DOMAIN d.states = 1..Len(d.states)
  BY <1>1 DEF IsSequence
<1>3. /\ DOMAIN d.states = DOMAIN StateIds(d)
      /\ \A i \in DOMAIN d.states : StateIds(d)[i] = d.states[i].id
  BY DEF StateIds
<1>4. ASSUME NEW i \in DOMAIN d.states PROVE StateOf(d, d.states[i].id) = d.states[i].body
  <2> DEFINE Final(k) == /\ d.states[k].id = d.states[i].id
                         /\ \A j \in DOMAIN d.states : d.states[j].id = d.states[i].id => j <= k
  <2>1. \A j \in DOMAIN d.states : d.states[j].id = d.states[i].id => j = i
    BY <1>3 DEF Distinct
  <2>2. Final(i)
    BY <1>2, <2>1
  <2>3. \A k \in DOMAIN d.states : Final(k) => k = i
    BY <2>1
  <2>4. (CHOOSE k \in DOMAIN d.states : Final(k)) = i
    <3> HIDE DEF Final
    <3> QED BY <2>2, <2>3
  <2> QED BY <2>4 DEF StateOf
<1> QED BY <1>2, <1>3, <1>4 DEF Elements

\* What the states of the conversation are.
LEMMA ConversationFacts ==
  ASSUME NEW d
  PROVE  /\ DOMAIN ConversationOf(d).states = Elements(StateIds(d))
         /\ \A id : Known(d, id) <=> id \in DOMAIN ConversationOf(d).states
         /\ \A id \in Elements(StateIds(d)) : ConversationOf(d).states[id] = StateOf(d, id)
         /\ ConversationOf(d).roles = Elements(d.roles)
         /\ ConversationOf(d).initial = d.initial
BY DEF ConversationOf, Known

\* The checks of failure edges.
LEMMA FailureEdgesExact ==
  ASSUME NEW d, HeaderOK(d), NEW g
  PROVE  ValidateFailureEdges(d, g.on_failure) = {} <=>
           /\ FailureEdgesOK(ConversationOf(d), g)
           /\ DOMAIN g.on_failure \subseteq Elements(d.failures)
<1> DEFINE F == g.on_failure
           Codes(f) == Code(f \notin UniqueIds(d.failures), "CLQ0019")
                         \cup ValidateTarget(d, F[f])
                         \cup Code(Known(d, F[f]) /\ StateOf(d, F[f]) # FailState(f), "CLQ0020")
           Right(f) == /\ f \in Elements(d.failures)
                       /\ Known(d, F[f]) /\ StateOf(d, F[f]) = FailState(f)
<1>1. ASSUME NEW f PROVE Codes(f) = {} <=> Right(f)
  <2>1. f \in UniqueIds(d.failures) <=> f \in Elements(d.failures)
    BY DEF UniqueIds, HeaderOK
  <2> QED BY <2>1 DEF Code, Only, ValidateTarget
<1>2. ValidateFailureEdges(d, F) = UNION {Codes(f) : f \in DOMAIN F}
  BY DEF ValidateFailureEdges
<1> HIDE DEF Codes, Right
<1>3. ValidateFailureEdges(d, F) = {} <=> \A f \in DOMAIN F : Codes(f) = {}
  BY <1>2
<1>4. ValidateFailureEdges(d, F) = {} <=> \A f \in DOMAIN F : Right(f)
  BY <1>1, <1>3
<1>5. \A f : Right(f) <=> /\ f \in Elements(d.failures)
                          /\ F[f] \in DOMAIN ConversationOf(d).states
                          /\ ConversationOf(d).states[F[f]] = FailState(f)
  BY ConversationFacts DEF Right
<1> QED BY <1>4, <1>5 DEF FailureEdgesOK

\* The checks of one state.
LEMMA StateExact ==
  ASSUME NEW d \in Document, HeaderOK(d), NEW i \in DOMAIN d.states
  PROVE  ValidateState(d, d.states[i].body) = {} <=> StateSound(d, d.states[i].body)
<1> DEFINE g == d.states[i].body
           c == ConversationOf(d)
<1>0. /\ Variant(g)
      /\ ~Terminal(g) => IsFiniteSet(DOMAIN g.on_failure)
      /\ g.kind = "choice" => IsFiniteSet(DOMAIN g.branches)
  BY DocumentAssumption
<1>1. /\ \A x : x \in UniqueIds(d.roles) <=> x \in c.roles
      /\ \A x : x \in UniqueIds(TypeIds(d)) <=> x \in Elements(TypeIds(d))
      /\ \A x : x \in UniqueIds(d.failures) <=> x \in Elements(d.failures)
      /\ \A id : Known(d, id) <=> id \in DOMAIN c.states
  BY ConversationFacts DEF UniqueIds, HeaderOK
<1>2. ValidateFailureEdges(d, g.on_failure) = {} <=>
           FailureEdgesOK(c, g) /\ DOMAIN g.on_failure \subseteq Elements(d.failures)
  BY FailureEdgesExact
<1> HIDE DEF g, c
<1>3. \A from, to : ValidateRoles(d, from, to) = {} <=>
                      from \in c.roles /\ to \in c.roles /\ from # to
  BY <1>1 DEF ValidateRoles, Code, Only
<1>4. \A t : ValidateTarget(d, t) = {} <=> t \in DOMAIN c.states
  BY <1>1 DEF ValidateTarget, Code, Only
<1>5. CASE g.kind = "send"
  <2>1. g = SendState(g.from, g.to, g.message, g.next, g.on_failure) /\ ~Terminal(g)
    BY <1>0, <1>5 DEF Variant, Terminal, EndState
  <2>2. ValidateState(d, g) = ValidateRoles(d, g.from, g.to)
           \cup Code(g.message \notin UniqueIds(TypeIds(d)), "CLQ0006")
           \cup ValidateTarget(d, g.next)
           \cup ValidateFailureEdges(d, g.on_failure)
    BY <1>5 DEF ValidateState
  <2>3. Code(g.message \notin UniqueIds(TypeIds(d)), "CLQ0006") = {} <=>
          g.message \in Elements(TypeIds(d))
    BY <1>1 DEF Code, Only
  <2>4. ValidateState(d, g) = {} <=>
          /\ g.from \in c.roles /\ g.to \in c.roles /\ g.from # g.to
          /\ g.message \in Elements(TypeIds(d))
          /\ g.next \in DOMAIN c.states
          /\ FailureEdgesOK(c, g) /\ DOMAIN g.on_failure \subseteq Elements(d.failures)
    BY <1>2, <1>3, <1>4, <2>2, <2>3
  <2>5. StateOK(c, g) <=>
          /\ g.from \in c.roles /\ g.to \in c.roles /\ g.from # g.to
          /\ g.next \in DOMAIN c.states /\ FailureEdgesOK(c, g)
    BY <1>5, <2>1 DEF StateOK, EndState
  <2> QED BY <1>5, <2>1, <2>4, <2>5 DEF StateSound, c, g
<1>6. CASE g.kind = "cancel"
  <2>1. g = CancelState(g.from, g.to, g.scope, g.next, g.on_failure) /\ ~Terminal(g)
    BY <1>0, <1>6 DEF Variant, Terminal, EndState
  <2>2. ValidateState(d, g) = ValidateRoles(d, g.from, g.to)
           \cup Code(g.scope = Empty, "CLQ0010")
           \cup ValidateTarget(d, g.next)
           \cup ValidateFailureEdges(d, g.on_failure)
    BY <1>6 DEF ValidateState
  <2>3. Code(g.scope = Empty, "CLQ0010") = {} <=> g.scope # Empty
    BY DEF Code, Only
  <2>4. ValidateState(d, g) = {} <=>
          /\ g.from \in c.roles /\ g.to \in c.roles /\ g.from # g.to
          /\ g.scope # Empty
          /\ g.next \in DOMAIN c.states
          /\ FailureEdgesOK(c, g) /\ DOMAIN g.on_failure \subseteq Elements(d.failures)
    BY <1>2, <1>3, <1>4, <2>2, <2>3
  <2>5. StateOK(c, g) <=>
          /\ g.from \in c.roles /\ g.to \in c.roles /\ g.from # g.to
          /\ g.next \in DOMAIN c.states /\ FailureEdgesOK(c, g)
    BY <1>6, <2>1 DEF StateOK, EndState
  <2> QED BY <1>6, <2>1, <2>4, <2>5 DEF StateSound, c, g
<1>7. CASE g.kind = "choice"
  <2> DEFINE B == DOMAIN g.branches
  <2>1. g = ChoiceState(g.chooser, g.branches, g.on_failure) /\ ~Terminal(g)
    BY <1>0, <1>7 DEF Variant, Terminal, EndState
  <2>2. ValidateState(d, g) =
          Code(g.chooser \notin UniqueIds(d.roles), "CLQ0007")
           \cup Code(Cardinality(B) < 2, "CLQ0008")
           \cup Code(Empty \in B, "CLQ0009")
           \cup (UNION {ValidateTarget(d, g.branches[l]) : l \in B})
           \cup ValidateFailureEdges(d, g.on_failure)
    BY <1>7 DEF ValidateState
  <2>3. ~(Cardinality(B) < 2) <=> \E l, m \in B : l # m
    <3> HIDE DEF B
    <3>0. IsFiniteSet(B)
      BY <1>0, <1>7 DEF B
    <3>1. Cardinality(B) \in Nat /\ (Cardinality(B) = 0 <=> B = {})
      BY <3>0, FS_CardinalityType, FS_EmptySet
    <3>2. CASE B = {}
      BY <3>1, <3>2
    <3>3. CASE B # {}
      <4>1. PICK l \in B : TRUE
        BY <3>3
      <4>2. IsFiniteSet(B \ {l}) /\ Cardinality(B \ {l}) = Cardinality(B) - 1
        BY <3>0, <4>1, FS_RemoveElement
      <4>3. Cardinality(B \ {l}) \in Nat /\ (Cardinality(B \ {l}) = 0 <=> B \ {l} = {})
        BY <4>2, FS_CardinalityType, FS_EmptySet
      <4>4. Cardinality(B) < 2 <=> B \ {l} = {}
        BY <3>1, <4>2, <4>3
      <4> QED BY <4>1, <4>4
    <3> QED BY <3>2, <3>3
  <2>4. /\ (Code(g.chooser \notin UniqueIds(d.roles), "CLQ0007") = {} <=> g.chooser \in c.roles)
        /\ (Code(Cardinality(B) < 2, "CLQ0008") = {} <=> ~(Cardinality(B) < 2))
        /\ (Code(Empty \in B, "CLQ0009") = {} <=> Empty \notin B)
    BY <1>1 DEF Code, Only
  <2>5. UNION {ValidateTarget(d, g.branches[l]) : l \in B} = {} <=>
          \A l \in B : g.branches[l] \in DOMAIN c.states
    <3>1. UNION {ValidateTarget(d, g.branches[l]) : l \in B} = {} <=>
            \A l \in B : ValidateTarget(d, g.branches[l]) = {}
      <4> HIDE DEF B
      <4> QED OBVIOUS
    <3> QED BY <1>4, <3>1
  <2>6. ValidateState(d, g) = {} <=>
          /\ g.chooser \in c.roles /\ (\E l, m \in B : l # m) /\ Empty \notin B
          /\ \A l \in B : g.branches[l] \in DOMAIN c.states
          /\ FailureEdgesOK(c, g) /\ DOMAIN g.on_failure \subseteq Elements(d.failures)
    <3> DEFINE X1 == Code(g.chooser \notin UniqueIds(d.roles), "CLQ0007")
               X2 == Code(Cardinality(B) < 2, "CLQ0008")
               X3 == Code(Empty \in B, "CLQ0009")
               X4 == UNION {ValidateTarget(d, g.branches[l]) : l \in B}
               X5 == ValidateFailureEdges(d, g.on_failure)
    <3>1. ValidateState(d, g) = X1 \cup X2 \cup X3 \cup X4 \cup X5
      BY <2>2
    <3>2. /\ (X1 = {} <=> g.chooser \in c.roles)
          /\ (X2 = {} <=> \E l, m \in B : l # m)
          /\ (X3 = {} <=> Empty \notin B)
      BY <2>3, <2>4
    <3>3. X4 = {} <=> \A l \in B : g.branches[l] \in DOMAIN c.states
      BY <2>5
    <3>4. X5 = {} <=> FailureEdgesOK(c, g) /\ DOMAIN g.on_failure \subseteq Elements(d.failures)
      BY <1>2
    <3> HIDE DEF X1, X2, X3, X4, X5, B
    <3>5. ValidateState(d, g) = {} <=> X1 = {} /\ X2 = {} /\ X3 = {} /\ X4 = {} /\ X5 = {}
      BY <3>1
    <3> QED BY <3>2, <3>3, <3>4, <3>5
  <2>7. StateOK(c, g) <=>
          /\ g.chooser \in c.roles /\ (\E l, m \in B : l # m)
          /\ \A l \in B : g.branches[l] \in DOMAIN c.states
          /\ FailureEdgesOK(c, g)
    BY <1>7, <2>1 DEF StateOK, EndState
  <2> QED BY <1>7, <2>1, <2>6, <2>7 DEF StateSound, c, g
<1>8. CASE g.kind = "fail"
  <2>1. g = FailState(g.failure) /\ Terminal(g)
    BY <1>0, <1>8 DEF Variant, Terminal, EndState
  <2>2. ValidateState(d, g) = Code(g.failure \notin UniqueIds(d.failures), "CLQ0019")
    BY <1>8 DEF ValidateState
  <2>3. StateOK(c, g)
    BY <1>8, <2>1 DEF StateOK
  <2> QED BY <1>1, <1>8, <2>1, <2>2, <2>3 DEF StateSound, Code, Only, c, g
<1>9. CASE g = EndState
  <2>1. g.kind = "end" /\ Terminal(g)
    BY <1>9 DEF EndState, Terminal
  <2>2. ValidateState(d, g) = {} /\ StateOK(c, g)
    BY <1>9, <2>1 DEF ValidateState, StateOK
  <2> QED BY <2>1, <2>2 DEF StateSound, c, g
<1> QED BY <1>0, <1>5, <1>6, <1>7, <1>8, <1>9 DEF Variant

\* The first pass finds nothing if and only if ids and single states are right.
LEMMA FirstPassExact ==
  ASSUME NEW d \in Document
  PROVE  FirstPass(d) = {} <=> LocalSound(d)
<1> DEFINE c == ConversationOf(d)
           X1 == Code(~d.format, "CLQ0001")
           X2 == UniqueIdsCodes(d.roles)
           X3 == Code(Len(d.roles) # 2, "CLQ0002")
           X4 == UniqueIdsCodes(TypeIds(d))
           X5 == Code(\E i \in DOMAIN d.types : ~d.types[i].kind, "CLQ0003")
           X6 == UniqueIdsCodes(d.failures)
           X7 == Code(~Distinct(StateIds(d)), "CLQ0004")
           X8 == Code(~Known(d, d.initial), "CLQ0005")
           X9 == UNION {ValidateState(d, d.states[i].body) : i \in DOMAIN d.states}
           types == \A i \in DOMAIN d.types : d.types[i].kind
           named == /\ Distinct(d.roles) /\ Empty \notin Elements(d.roles)
                    /\ Distinct(TypeIds(d)) /\ Empty \notin Elements(TypeIds(d))
                    /\ Distinct(d.failures) /\ Empty \notin Elements(d.failures)
           two == \E a, b \in c.roles : a # b /\ c.roles = {a, b}
           states == \A i \in DOMAIN d.states : StateSound(d, d.states[i].body)
<1>1. FirstPass(d) = X1 \cup X2 \cup X3 \cup X4 \cup X5 \cup X6 \cup X7 \cup X8 \cup X9
  BY DEF FirstPass
<1>2. /\ (X1 = {} <=> d.format)
      /\ (X3 = {} <=> Len(d.roles) = 2)
      /\ (X5 = {} <=> types)
      /\ (X7 = {} <=> Distinct(StateIds(d)))
      /\ (X8 = {} <=> d.initial \in DOMAIN c.states)
  BY ConversationFacts DEF Code, Only
<1>3. X2 = {} /\ X4 = {} /\ X6 = {} <=> named
  BY UniqueIdsExact
<1>4. named => (X3 = {} <=> two)
  <2>1. IsSequence(d.roles) /\ c.roles = Elements(d.roles)
    BY DocumentAssumption, ConversationFacts
  <2> QED BY <1>2, <2>1, RolesExact
<1>5. HeaderOK(d) <=> named /\ Distinct(StateIds(d))
  BY DEF HeaderOK
<1>6. HeaderOK(d) => (X9 = {} <=> states)
  <2>1. HeaderOK(d) => \A i \in DOMAIN d.states :
          ValidateState(d, d.states[i].body) = {} <=> StateSound(d, d.states[i].body)
    BY StateExact
  <2>2. X9 = {} <=> \A i \in DOMAIN d.states : ValidateState(d, d.states[i].body) = {}
    OBVIOUS
  <2> QED BY <2>1, <2>2
<1>7. FirstPass(d) = {} <=> /\ X1 = {} /\ X2 = {} /\ X3 = {} /\ X4 = {} /\ X5 = {}
                           /\ X6 = {} /\ X7 = {} /\ X8 = {} /\ X9 = {}
  <2> HIDE DEF X1, X2, X3, X4, X5, X6, X7, X8, X9
  <2> QED BY <1>1
<1>8. FirstPass(d) = {} <=> /\ d.format /\ two /\ types /\ HeaderOK(d)
                           /\ d.initial \in DOMAIN c.states /\ states
  <2> HIDE DEF X1, X2, X3, X4, X5, X6, X7, X8, X9, types, named, two, states, c
  <2> QED BY <1>2, <1>3, <1>4, <1>5, <1>6, <1>7
<1>9. HeaderOK(d) => (states <=>
        /\ \A s \in DOMAIN c.states : StateOK(c, c.states[s])
        /\ \A i \in DOMAIN d.states :
             LET g == d.states[i].body IN
             /\ g.kind = "send" => g.message \in Elements(TypeIds(d))
             /\ g.kind = "cancel" => g.scope # Empty
             /\ g.kind = "choice" => Empty \notin DOMAIN g.branches
             /\ g.kind = "fail" => g.failure \in Elements(d.failures)
             /\ ~Terminal(g) => DOMAIN g.on_failure \subseteq Elements(d.failures))
  <2> SUFFICES ASSUME HeaderOK(d)
               PROVE  (\A s \in DOMAIN c.states : StateOK(c, c.states[s])) <=>
                        \A i \in DOMAIN d.states : StateOK(c, d.states[i].body)
    BY DEF StateSound
  <2>1. Distinct(StateIds(d))
    BY DEF HeaderOK
  <2>2. \A s \in DOMAIN c.states : \E i \in DOMAIN d.states : c.states[s] = d.states[i].body
    BY <2>1, StateOfFacts, ConversationFacts
  <2>3. \A i \in DOMAIN d.states : \E s \in DOMAIN c.states : c.states[s] = d.states[i].body
    BY <2>1, StateOfFacts, ConversationFacts
  <2> HIDE DEF c
  <2> QED BY <2>2, <2>3
<1>10. c.initial = d.initial
  BY ConversationFacts
<1> HIDE DEF states
<1> QED BY <1>5, <1>8, <1>9, <1>10 DEF LocalSound, WellFormed, HeaderOK

\* Sound adds to the first pass what the search is for.
LEMMA SoundFacts ==
  ASSUME NEW d
  PROVE  Sound(d) <=> /\ LocalSound(d)
                      /\ Within(d) = Elements(StateIds(d))
                      /\ \E id \in Within(d) : Terminal(StateOf(d, id))
BY DEF Sound, LocalSound

-----------------------------------------------------------------------------
(***************************************************************************)
(* What is within reach.                                                   *)
(***************************************************************************)
\* One edge further, and a set that no edge leads out of.
Grow(d, X) == X \cup UNION {Successors(StateOf(d, id)) : id \in X}
Closed(d, X) == \A id \in X : Successors(StateOf(d, id)) \subseteq X

\* Induction on the natural numbers, for a set.
LEMMA NatSet ==
  ASSUME NEW S, 0 \in S, \A n \in Nat : n \in S => n + 1 \in S
  PROVE  Nat \subseteq S
<1> DEFINE T == Nat \ S
<1> SUFFICES ASSUME T # {} PROVE FALSE
  OBVIOUS
<1>1. \E x \in T : \A y \in T : ~(<<y, x>> \in OpToRel(<, Nat))
  <2>1. T \subseteq Nat
    OBVIOUS
  <2> QED BY <2>1, NatLessThanWellFounded, WFMin, Zenon
<1>2. PICK x \in T : \A y \in T : ~(<<y, x>> \in OpToRel(<, Nat))
  BY <1>1
<1>3. \A y \in T : ~(y < x)
  BY <1>2, Zenon DEF OpToRel
<1>4. x # 0 /\ x \in Nat /\ x - 1 \in Nat /\ x - 1 < x
  OBVIOUS
<1>5. x - 1 \in S
  BY <1>3, <1>4
<1> QED BY <1>4, <1>5

\* The levels of the reference definition exist: it is not a recursion without
\* a solution.
LEMMA LevelsExist ==
  ASSUME NEW d, NEW N \in Nat
  PROVE  \E f : f = [k \in 0..N |-> IF k = 0 THEN {d.initial} ELSE Grow(d, f[k - 1])]
<1> DEFINE Solves(n, f) ==
             f = [k \in 0..n |-> IF k = 0 THEN {d.initial} ELSE Grow(d, f[k - 1])]
           S == {n \in Nat : \E f : Solves(n, f)}
<1>1. 0 \in S
  <2> DEFINE f == [k \in 0..0 |-> {d.initial}]
  <2>1. Solves(0, f)
    OBVIOUS
  <2> HIDE DEF Solves, f
  <2> QED BY <2>1
<1>2. \A n \in Nat : n \in S => n + 1 \in S
  <2> HIDE DEF Solves
  <2> SUFFICES ASSUME NEW n \in Nat, NEW f, Solves(n, f) PROVE \E h : Solves(n + 1, h)
    OBVIOUS
  <2> USE DEF Solves
  <2> DEFINE h == [k \in 0..n + 1 |-> IF k <= n THEN f[k] ELSE Grow(d, f[n])]
  <2>1. \A k \in 0..n : f[k] = IF k = 0 THEN {d.initial} ELSE Grow(d, f[k - 1])
    OBVIOUS
  <2>2. \A k \in 0..n + 1 : h[k] = IF k <= n THEN f[k] ELSE Grow(d, f[n])
    OBVIOUS
  <2>3. h = [k \in 0..n + 1 |-> h[k]]
    OBVIOUS
  <2> HIDE DEF h
  <2>4. ASSUME NEW k \in 0..n + 1
        PROVE  h[k] = IF k = 0 THEN {d.initial} ELSE Grow(d, h[k - 1])
    <3>1. CASE k = 0
      BY <2>1, <2>2, <3>1
    <3>2. CASE k # 0 /\ k <= n
      <4>1. k \in 0..n /\ k - 1 \in 0..n + 1 /\ k - 1 <= n
        BY <3>2
      <4> QED BY <2>1, <2>2, <3>2, <4>1
    <3>3. CASE k = n + 1
      <4>1. k # 0 /\ ~(k <= n) /\ k - 1 = n /\ n \in 0..n + 1 /\ n <= n
        BY <3>3
      <4> QED BY <2>2, <4>1
    <3> QED BY <3>1, <3>2, <3>3
  <2>5. Solves(n + 1, h)
    BY <2>3, <2>4
  <2> HIDE DEF Solves
  <2> QED BY <2>5
<1> HIDE DEF S
<1>3. N \in S
  BY <1>1, <1>2, NatSet
<1> QED BY <1>3 DEF S

\* What Within computes, level by level.
LEMMA WithinLevels ==
  ASSUME NEW d, Len(d.states) \in Nat
  PROVE  \E f : /\ f[0] = {d.initial}
                /\ \A n \in 1..Len(d.states) : f[n] = Grow(d, f[n - 1])
                /\ Within(d) = f[Len(d.states)]
<1> DEFINE N == Len(d.states)
           Eqn(f) == f = [n \in 0..N |->
                            IF n = 0 THEN {d.initial}
                            ELSE f[n - 1] \cup UNION {Successors(StateOf(d, id)) : id \in f[n - 1]}]
           at == CHOOSE f : Eqn(f)
<1>1. \E f : Eqn(f)
  <2>1. PICK f : f = [k \in 0..N |-> IF k = 0 THEN {d.initial} ELSE Grow(d, f[k - 1])]
    BY LevelsExist
  <2>2. Eqn(f)
    BY <2>1 DEF Grow
  <2> HIDE DEF Eqn
  <2> QED BY <2>2
<1>2. Eqn(at)
  BY <1>1
<1>3. Within(d) = at[N]
  BY DEF Within
<1> HIDE DEF at
<1>4. \A n \in 0..N : at[n] = IF n = 0 THEN {d.initial} ELSE Grow(d, at[n - 1])
  BY <1>2 DEF Grow
<1>5. at[0] = {d.initial} /\ \A n \in 1..N : at[n] = Grow(d, at[n - 1])
  BY <1>4
<1> QED BY <1>3, <1>5

\* A document that passes the first pass: its ids are finitely many, no edge
\* leads out of them, and every state is one the runtime knows.
LEMMA PassedFacts ==
  ASSUME NEW d \in Document, FirstPass(d) = {}
  PROVE  /\ Len(d.states) \in Nat
         /\ IsFiniteSet(Elements(StateIds(d)))
         /\ Cardinality(Elements(StateIds(d))) <= Len(d.states)
         /\ d.initial \in Elements(StateIds(d))
         /\ Closed(d, Elements(StateIds(d)))
         /\ \A id \in Elements(StateIds(d)) :
              LET g == StateOf(d, id) IN
              /\ Variant(g)
              /\ ~Terminal(g) => IsFiniteSet(DOMAIN g.on_failure)
              /\ g.kind = "choice" => IsFiniteSet(DOMAIN g.branches)
<1> DEFINE All == Elements(StateIds(d))
           c == ConversationOf(d)
<1>1. LocalSound(d)
  BY FirstPassExact
<1>2. Distinct(StateIds(d)) /\ WellFormed(c)
  BY <1>1 DEF LocalSound
<1>3. /\ Len(d.states) \in Nat /\ DOMAIN StateIds(d) = 1..Len(d.states)
      /\ \A id \in All : \E i \in DOMAIN d.states : StateOf(d, id) = d.states[i].body
  BY <1>2, StateOfFacts
<1>4. StateIds(d) \in Surjection(1..Len(d.states), All)
  <2>1. StateIds(d) \in [1..Len(d.states) -> All]
    BY <1>3 DEF StateIds, Elements
  <2>2. \A x \in All : \E i \in 1..Len(d.states) : StateIds(d)[i] = x
    BY <1>3 DEF Elements
  <2> QED BY <2>1, <2>2 DEF Surjection
<1>5. IsFiniteSet(1..Len(d.states)) /\ Cardinality(1..Len(d.states)) = Len(d.states)
  <2>1. 1 \in Int /\ Len(d.states) \in Int
    BY <1>3
  <2>2. Cardinality(1..Len(d.states)) = IF 1 > Len(d.states) THEN 0 ELSE Len(d.states) - 1 + 1
    BY <2>1, FS_Interval
  <2>3. IsFiniteSet(1..Len(d.states))
    BY <2>1, FS_Interval
  <2> QED BY <1>3, <2>2, <2>3
<1>6. IsFiniteSet(All) /\ Cardinality(All) <= Len(d.states)
  BY <1>4, <1>5, FS_Surjection
<1>7. \A id \in All : StateOK(c, StateOf(d, id))
  BY <1>2, ConversationFacts DEF WellFormed
<1>8. d.initial \in All
  BY <1>2, ConversationFacts DEF WellFormed
<1>9. Closed(d, All)
  <2> SUFFICES ASSUME NEW id \in All PROVE Successors(StateOf(d, id)) \subseteq All
    BY DEF Closed
  <2> DEFINE g == StateOf(d, id)
  <2>1. StateOK(c, g) /\ DOMAIN c.states = All
    BY <1>7, ConversationFacts
  <2> HIDE DEF g, c, All
  <2>2. CASE g.kind \in {"send", "cancel"}
    <3>1. Successors(g) = {g.next} \cup {g.on_failure[f] : f \in DOMAIN g.on_failure}
      BY <2>2 DEF Successors
    <3>2. g.next \in All /\ FailureEdgesOK(c, g)
      BY <2>1, <2>2 DEF StateOK, EndState
    <3> QED BY <2>1, <3>1, <3>2 DEF FailureEdgesOK, g, All
  <2>3. CASE g.kind = "choice"
    <3>1. Successors(g) = {g.branches[l] : l \in DOMAIN g.branches}
                            \cup {g.on_failure[f] : f \in DOMAIN g.on_failure}
      BY <2>3 DEF Successors
    <3>2. (\A l \in DOMAIN g.branches : g.branches[l] \in All) /\ FailureEdgesOK(c, g)
      BY <2>1, <2>3 DEF StateOK, EndState
    <3> QED BY <2>1, <3>1, <3>2 DEF FailureEdgesOK, g, All
  <2>4. CASE g.kind \notin {"send", "cancel", "choice"}
    BY <2>4 DEF Successors, g
  <2> QED BY <2>2, <2>3, <2>4
<1>10. ASSUME NEW id \in All
       PROVE  LET g == StateOf(d, id) IN
              /\ Variant(g)
              /\ ~Terminal(g) => IsFiniteSet(DOMAIN g.on_failure)
              /\ g.kind = "choice" => IsFiniteSet(DOMAIN g.branches)
  <2>1. PICK i \in DOMAIN d.states : StateOf(d, id) = d.states[i].body
    BY <1>3
  <2> QED BY <2>1, DocumentAssumption
<1> QED BY <1>3, <1>6, <1>8, <1>9, <1>10

\* Within is the least set that has the initial state and that no edge leads out
\* of: each level is closed or has at least one state more than the one before,
\* and there are no more levels than states.
LEMMA WithinFacts ==
  ASSUME NEW d \in Document, FirstPass(d) = {}
  PROVE  /\ d.initial \in Within(d)
         /\ Within(d) \subseteq Elements(StateIds(d))
         /\ Closed(d, Within(d))
         /\ \A X : d.initial \in X /\ Closed(d, X) => Within(d) \subseteq X
<1> DEFINE All == Elements(StateIds(d))
           N == Len(d.states)
<1>1. /\ N \in Nat /\ IsFiniteSet(All) /\ Cardinality(All) <= N
      /\ d.initial \in All /\ Closed(d, All)
  BY PassedFacts
<1> HIDE DEF All
<1>2. PICK w : /\ w[0] = {d.initial}
               /\ \A n \in 1..N : w[n] = Grow(d, w[n - 1])
               /\ Within(d) = w[N]
  BY <1>1, WithinLevels
<1> HIDE DEF N
<1>3. ASSUME NEW X, d.initial \in X, Closed(d, X) PROVE w[N] \subseteq X
  <2> DEFINE S == {n \in Nat : n <= N => w[n] \subseteq X}
  <2>1. 0 \in S
    BY <1>2, <1>3
  <2>2. \A n \in Nat : n \in S => n + 1 \in S
    <3> SUFFICES ASSUME NEW n \in Nat, n \in S, n + 1 <= N PROVE w[n + 1] \subseteq X
      OBVIOUS
    <3>1. n <= N /\ n + 1 \in 1..N /\ (n + 1) - 1 = n
      BY <1>1
    <3>2. w[n] \subseteq X /\ w[n + 1] = Grow(d, w[n])
      BY <1>2, <3>1
    <3> QED BY <1>3, <3>2 DEF Grow, Closed
  <2> HIDE DEF S
  <2>3. N \in S
    BY <1>1, <2>1, <2>2, NatSet
  <2> QED BY <1>1, <2>3 DEF S
<1>4. w[N] \subseteq All
  BY <1>1, <1>3
<1> DEFINE Deep(n) == /\ d.initial \in w[n] /\ w[n] \subseteq All
                      /\ Closed(d, w[n]) \/ Cardinality(w[n]) >= n + 1
<1>5. Deep(N)
  <2> DEFINE S == {n \in Nat : n <= N => Deep(n)}
  <2>1. 0 \in S
    <3>1. Cardinality({d.initial}) = 1
      BY FS_Singleton
    <3> QED BY <1>1, <1>2, <3>1
  <2>2. \A n \in Nat : n \in S => n + 1 \in S
    <3> SUFFICES ASSUME NEW n \in Nat, Deep(n), n + 1 <= N PROVE Deep(n + 1)
      BY <1>1
    <3>1. n + 1 \in 1..N /\ (n + 1) - 1 = n
      BY <1>1
    <3>2. w[n + 1] = Grow(d, w[n])
      BY <1>2, <3>1
    <3>3. d.initial \in w[n + 1] /\ w[n] \subseteq w[n + 1] /\ w[n + 1] \subseteq All
      BY <1>1, <3>2 DEF Grow, Closed
    <3>4. CASE Closed(d, w[n])
      <4>1. w[n + 1] = w[n]
        BY <3>2, <3>4 DEF Grow, Closed
      <4> QED BY <3>3, <3>4, <4>1
    <3>5. CASE ~Closed(d, w[n])
      <4>1. PICK x : x \in w[n + 1] /\ x \notin w[n]
        BY <3>2, <3>5 DEF Grow, Closed
      <4>2. IsFiniteSet(w[n]) /\ IsFiniteSet(w[n + 1])
        BY <1>1, <3>3, FS_Subset
      <4>3. Cardinality(w[n]) \in Nat /\ Cardinality(w[n + 1]) \in Nat
        BY <4>2, FS_CardinalityType
      <4>4. Cardinality(w[n] \cup {x}) = Cardinality(w[n]) + 1
        BY <4>1, <4>2, FS_AddElement
      <4>5. w[n] \cup {x} \in SUBSET w[n + 1]
        BY <3>3, <4>1
      <4>6. Cardinality(w[n] \cup {x}) <= Cardinality(w[n + 1])
        BY <4>2, <4>5, FS_Subset
      <4>7. Cardinality(w[n + 1]) >= (n + 1) + 1
        BY <3>5, <4>3, <4>4, <4>6
      <4> QED BY <3>3, <4>7
    <3> QED BY <3>4, <3>5
  <2> HIDE DEF S
  <2>3. N \in S
    BY <1>1, <2>1, <2>2, NatSet
  <2> QED BY <1>1, <2>3 DEF S
<1>6. ~(Cardinality(w[N]) >= N + 1)
  <2>1. w[N] \in SUBSET All
    BY <1>4
  <2>2. IsFiniteSet(w[N]) /\ Cardinality(w[N]) <= Cardinality(All)
    BY <1>1, <2>1, FS_Subset
  <2>3. Cardinality(w[N]) \in Nat /\ Cardinality(All) \in Nat
    BY <1>1, <2>2, FS_CardinalityType
  <2> QED BY <1>1, <2>2, <2>3
<1> QED BY <1>2, <1>3, <1>5, <1>6 DEF All

-----------------------------------------------------------------------------
(***************************************************************************)
(* The search.                                                             *)
(***************************************************************************)
\* An ordering of a finite set lists all of it.
LEMMA OrderingFacts ==
  ASSUME NEW S, IsFiniteSet(S), NEW s \in SetToSeqs(S)
  PROVE  s \in Seq(S) /\ Elements(s) = S /\ DOMAIN s = 1..Len(s) /\ Len(s) \in Nat
<1> DEFINE n == Cardinality(S)
<1>1. n \in Nat
  BY FS_CardinalityType
<1> HIDE DEF n
<1>2. s \in [1..n -> S] /\ \A i, j \in 1..n : i # j => s[i] # s[j]
  BY DEF SetToSeqs, n
<1>3. s \in Injection(1..n, S)
  BY <1>2 DEF Injection, IsInjective
<1>4. Cardinality(1..n) = n
  <2>1. Cardinality(1..n) = IF 1 > n THEN 0 ELSE n - 1 + 1
    BY <1>1, FS_Interval
  <2> QED BY <1>1, <2>1
<1>5. s \in Surjection(1..n, S)
  <2>1. Cardinality(1..n) = Cardinality(S)
    BY <1>4 DEF n
  <2> QED BY <1>3, <2>1, FS_Injection
<1>6. Elements(s) = S
  BY <1>2, <1>5 DEF Elements, Surjection
<1> QED BY <1>1, <1>2, <1>6

\* A set with one pair for every element of a finite set is finite.
LEMMA TaggedFinite ==
  ASSUME NEW S, IsFiniteSet(S), NEW tag
  PROVE  IsFiniteSet({<<tag, x>> : x \in S})
<1> DEFINE T == {<<tag, x>> : x \in S}
           h == [x \in S |-> <<tag, x>>]
<1>1. h \in [S -> T] /\ \A y \in T : \E x \in S : h[x] = y
  OBVIOUS
<1> HIDE DEF h, T
<1>2. h \in Surjection(S, T)
  BY <1>1 DEF Surjection
<1> QED BY <1>2, FS_Surjection DEF T

\* The edges of a state are finitely many and lead to its successors.
LEMMA EdgeFacts ==
  ASSUME NEW g, Variant(g),
         ~Terminal(g) => IsFiniteSet(DOMAIN g.on_failure),
         g.kind = "choice" => IsFiniteSet(DOMAIN g.branches)
  PROVE  IsFiniteSet(EdgesOf(g)) /\ {TargetOf(g, e) : e \in EdgesOf(g)} = Successors(g)
<1> DEFINE F == {<<"failure", f>> : f \in DOMAIN g.on_failure}
           B == {<<"branch", l>> : l \in DOMAIN g.branches}
<1>1. /\ TargetOf(g, <<"next", "">>) = g.next
      /\ \A f : TargetOf(g, <<"failure", f>>) = g.on_failure[f]
      /\ \A l : TargetOf(g, <<"branch", l>>) = g.branches[l]
  BY DEF TargetOf
<1>2. {TargetOf(g, e) : e \in F} = {g.on_failure[f] : f \in DOMAIN g.on_failure}
  BY <1>1
<1>3. {TargetOf(g, e) : e \in B} = {g.branches[l] : l \in DOMAIN g.branches}
  BY <1>1
<1>4. \A X, Y : {TargetOf(g, e) : e \in X \cup Y} =
                  {TargetOf(g, e) : e \in X} \cup {TargetOf(g, e) : e \in Y}
  OBVIOUS
<1>5. CASE g.kind \in {"send", "cancel"}
  <2>1. IsFiniteSet(F)
    BY <1>5, TaggedFinite DEF Terminal
  <2>2. EdgesOf(g) = {<<"next", "">>} \cup F
    BY <1>5 DEF EdgesOf
  <2>3. Successors(g) = {g.next} \cup {g.on_failure[f] : f \in DOMAIN g.on_failure}
    BY <1>5 DEF Successors
  <2>4. {TargetOf(g, e) : e \in {<<"next", "">>}} = {g.next}
    BY <1>1
  <2> HIDE DEF F
  <2>5. IsFiniteSet({<<"next", "">>} \cup F)
    BY <2>1, FS_Singleton, FS_Union
  <2>6. {TargetOf(g, e) : e \in EdgesOf(g)} =
          {TargetOf(g, e) : e \in {<<"next", "">>}} \cup {TargetOf(g, e) : e \in F}
    BY <1>4, <2>2
  <2>7. {TargetOf(g, e) : e \in EdgesOf(g)} = Successors(g)
    BY <1>2, <2>3, <2>4, <2>6, Zenon
  <2> QED BY <2>2, <2>5, <2>7
<1>6. CASE g.kind = "choice"
  <2>1. IsFiniteSet(F) /\ IsFiniteSet(B)
    BY <1>6, TaggedFinite DEF Terminal
  <2>2. EdgesOf(g) = B \cup F
    BY <1>6 DEF EdgesOf
  <2>3. Successors(g) = {g.branches[l] : l \in DOMAIN g.branches}
                          \cup {g.on_failure[f] : f \in DOMAIN g.on_failure}
    BY <1>6 DEF Successors
  <2> HIDE DEF F, B
  <2>4. IsFiniteSet(B \cup F)
    BY <2>1, FS_Union
  <2>5. {TargetOf(g, e) : e \in EdgesOf(g)} =
          {TargetOf(g, e) : e \in B} \cup {TargetOf(g, e) : e \in F}
    BY <1>4, <2>2
  <2>6. {TargetOf(g, e) : e \in EdgesOf(g)} = Successors(g)
    BY <1>2, <1>3, <2>3, <2>5, Zenon
  <2> QED BY <2>2, <2>4, <2>6
<1>7. CASE g.kind \notin {"send", "cancel", "choice"}
  <2>1. EdgesOf(g) = {} /\ Successors(g) = {}
    BY <1>7 DEF EdgesOf, Successors
  <2> QED BY <2>1, FS_EmptySet
<1> QED BY <1>5, <1>6, <1>7

\* The targets of an ordering of the edges, as a piece of the queue.
LEMMA TargetsFacts ==
  ASSUME NEW g, Variant(g),
         ~Terminal(g) => IsFiniteSet(DOMAIN g.on_failure),
         g.kind = "choice" => IsFiniteSet(DOMAIN g.branches),
         NEW edges \in SetToSeqs(EdgesOf(g))
  PROVE  LET t == [i \in DOMAIN edges |-> TargetOf(g, edges[i])] IN
         t \in Seq(Successors(g)) /\ Elements(t) = Successors(g)
<1> DEFINE t == [i \in DOMAIN edges |-> TargetOf(g, edges[i])]
<1>1. IsFiniteSet(EdgesOf(g)) /\ {TargetOf(g, e) : e \in EdgesOf(g)} = Successors(g)
  BY EdgeFacts
<1>2. Elements(edges) = EdgesOf(g) /\ DOMAIN edges = 1..Len(edges) /\ Len(edges) \in Nat
  BY <1>1, OrderingFacts
<1>3. Elements(t) = {TargetOf(g, e) : e \in Elements(edges)}
  BY DEF Elements
<1>4. Elements(t) = Successors(g)
  BY <1>1, <1>2, <1>3
<1>5. t \in [1..Len(edges) -> Successors(g)]
  BY <1>2, <1>4 DEF Elements
<1> HIDE DEF t
<1>6. t \in Seq(Successors(g))
  BY <1>2, <1>5
<1> QED BY <1>4, <1>6 DEF t

\* Elements of what the loop does to its queue.
LEMMA QueueFacts ==
  ASSUME NEW S, NEW q \in Seq(S), q # <<>>
  PROVE  /\ Head(q) \in Elements(q)
         /\ Tail(q) \in Seq(S)
         /\ Elements(q) = {Head(q)} \cup Elements(Tail(q))
<1>1. Len(q) \in Nat /\ Len(q) >= 1 /\ DOMAIN q = 1..Len(q) /\ Head(q) = q[1]
  OBVIOUS
<1>2. Tail(q) \in Seq(S) /\ Len(Tail(q)) = Len(q) - 1 /\ DOMAIN Tail(q) = 1..(Len(q) - 1)
  BY <1>1
<1>3. \A i \in 1..(Len(q) - 1) : Tail(q)[i] = q[i + 1]
  BY <1>1
<1>4. Elements(q) \subseteq {Head(q)} \cup Elements(Tail(q))
  <2> SUFFICES ASSUME NEW i \in 1..Len(q), i # 1 PROVE q[i] \in Elements(Tail(q))
    BY <1>1 DEF Elements
  <2>1. i - 1 \in 1..(Len(q) - 1) /\ (i - 1) + 1 = i
    BY <1>1
  <2> QED BY <1>2, <1>3, <2>1 DEF Elements
<1>5. Elements(Tail(q)) \subseteq Elements(q)
  <2> SUFFICES ASSUME NEW i \in 1..(Len(q) - 1) PROVE Tail(q)[i] \in Elements(q)
    BY <1>2 DEF Elements
  <2>1. i + 1 \in 1..Len(q)
    BY <1>1
  <2> QED BY <1>1, <1>3, <2>1 DEF Elements
<1>6. Head(q) \in Elements(q)
  BY <1>1 DEF Elements
<1> QED BY <1>2, <1>4, <1>5, <1>6

\* What is appended is added.
LEMMA AppendedFacts ==
  ASSUME NEW S, NEW q \in Seq(S), NEW t \in Seq(S)
  PROVE  q \o t \in Seq(S) /\ Elements(q \o t) = Elements(q) \cup Elements(t)
<1>1. /\ Len(q) \in Nat /\ DOMAIN q = 1..Len(q) /\ Len(t) \in Nat /\ DOMAIN t = 1..Len(t)
      /\ q \o t \in Seq(S) /\ Len(q \o t) = Len(q) + Len(t)
      /\ DOMAIN (q \o t) = 1..(Len(q) + Len(t))
  OBVIOUS
<1>2. \A i \in 1..(Len(q) + Len(t)) :
        (q \o t)[i] = IF i <= Len(q) THEN q[i] ELSE t[i - Len(q)]
  OBVIOUS
<1>3. Elements(q \o t) \subseteq Elements(q) \cup Elements(t)
  <2> SUFFICES ASSUME NEW i \in 1..(Len(q) + Len(t))
               PROVE  (q \o t)[i] \in Elements(q) \cup Elements(t)
    BY <1>1 DEF Elements
  <2>1. CASE i <= Len(q)
    BY <1>1, <1>2, <2>1 DEF Elements
  <2>2. CASE ~(i <= Len(q))
    <3>1. i - Len(q) \in 1..Len(t)
      BY <1>1, <2>2
    <3> QED BY <1>1, <1>2, <2>2, <3>1 DEF Elements
  <2> QED BY <2>1, <2>2
<1>4. Elements(q) \subseteq Elements(q \o t)
  <2> SUFFICES ASSUME NEW i \in 1..Len(q) PROVE q[i] \in Elements(q \o t)
    BY <1>1 DEF Elements
  <2>1. i \in 1..(Len(q) + Len(t)) /\ i <= Len(q)
    BY <1>1
  <2> QED BY <1>1, <1>2, <2>1 DEF Elements
<1>5. Elements(t) \subseteq Elements(q \o t)
  <2> SUFFICES ASSUME NEW i \in 1..Len(t) PROVE t[i] \in Elements(q \o t)
    BY <1>1 DEF Elements
  <2>1. i + Len(q) \in 1..(Len(q) + Len(t)) /\ ~(i + Len(q) <= Len(q)) /\ (i + Len(q)) - Len(q) = i
    BY <1>1
  <2> QED BY <1>1, <1>2, <2>1 DEF Elements
<1> QED BY <1>1, <1>3, <1>4, <1>5

\* The search in progress: what was visited and what is queued is within reach,
\* has the initial state, and has every successor of what was visited.
Searching ==
  /\ FirstPass(doc) = {}
  /\ diagnostics = {}
  /\ queue \in Seq(Elements(StateIds(doc)))
  /\ reachable \cup Elements(queue) \subseteq Within(doc)
  /\ doc.initial \in reachable \cup Elements(queue)
  /\ \A id \in reachable : Successors(StateOf(doc, id)) \subseteq reachable \cup Elements(queue)
  /\ reaches_terminal <=> \E id \in reachable : Terminal(StateOf(doc, id))

\* What it finds.
Searched ==
  /\ FirstPass(doc) = {}
  /\ reachable = Within(doc)
  /\ reaches_terminal <=> \E id \in reachable : Terminal(StateOf(doc, id))
  /\ diagnostics = Code(Elements(StateIds(doc)) \ reachable # {}, "CLQ0017")
                     \cup Code(~reaches_terminal, "CLQ0018")

SearchInv ==
  /\ doc \in Document
  /\ phase \in {"check", "search", "done"}
  /\ reaches_terminal \in BOOLEAN
  /\ phase = "check" => diagnostics = {} /\ reachable = {} /\ ~reaches_terminal
  /\ phase = "search" => Searching
  /\ phase = "done" =>
       \/ FirstPass(doc) # {} /\ diagnostics = FirstPass(doc) /\ reachable = {}
       \/ Searched

\* The first pass.
LEMMA CheckKeeps == SearchInv /\ Check => SearchInv'
<1> SUFFICES ASSUME SearchInv, Check PROVE SearchInv'
  OBVIOUS
<1>1. doc \in Document /\ reachable = {} /\ reaches_terminal = FALSE
  BY DEF SearchInv, Check
<1>2. /\ doc' = doc /\ reachable' = {} /\ reaches_terminal' = FALSE
      /\ diagnostics' = FirstPass(doc)
  BY <1>1 DEF Check
<1>3. CASE FirstPass(doc) # {}
  <2>1. phase' = "done"
    BY <1>2, <1>3 DEF Check
  <2> QED BY <1>1, <1>2, <1>3, <2>1 DEF SearchInv
<1>4. CASE FirstPass(doc) = {}
  <2>1. phase' = "search" /\ queue' = <<doc.initial>>
    BY <1>2, <1>4 DEF Check
  <2>2. doc.initial \in Within(doc) /\ Within(doc) \subseteq Elements(StateIds(doc))
    BY <1>1, <1>4, WithinFacts
  <2>3. queue' \in Seq(Elements(StateIds(doc))) /\ Elements(queue') = {doc.initial}
    BY <2>1, <2>2 DEF Elements
  <2>4. Searching'
    BY <1>2, <1>4, <2>2, <2>3 DEF Searching
  <2> QED BY <1>1, <1>2, <2>1, <2>4 DEF SearchInv
<1> QED BY <1>3, <1>4

\* One iteration of the search.
LEMMA VisitKeeps == SearchInv /\ Visit => SearchInv'
<1> SUFFICES ASSUME SearchInv, Visit PROVE SearchInv'
  OBVIOUS
<1> DEFINE All == Elements(StateIds(doc))
           id == Head(queue)
           g == StateOf(doc, id)
           found == reachable \cup Elements(queue)
<1>1. doc \in Document /\ Searching /\ queue # <<>>
  BY DEF SearchInv, Visit
<1>2. /\ FirstPass(doc) = {} /\ queue \in Seq(All) /\ found \subseteq Within(doc)
      /\ doc.initial \in found
      /\ \A x \in reachable : Successors(StateOf(doc, x)) \subseteq found
      /\ reaches_terminal <=> \E x \in reachable : Terminal(StateOf(doc, x))
  BY <1>1 DEF Searching
<1>3. doc' = doc /\ phase' = "search" /\ diagnostics' = {}
  BY <1>1 DEF Visit, Searching
<1>4. /\ id \in Elements(queue) /\ Tail(queue) \in Seq(All)
      /\ Elements(queue) = {id} \cup Elements(Tail(queue))
  BY <1>1, <1>2, QueueFacts
<1>5. Within(doc) \subseteq All /\ Closed(doc, Within(doc))
  BY <1>1, <1>2, WithinFacts
<1>6. CASE id \in reachable
  <2>1. queue' = Tail(queue) /\ reachable' = reachable /\ reaches_terminal' = reaches_terminal
    BY <1>6 DEF Visit
  <2>2. reachable' \cup Elements(queue') = found
    BY <1>4, <1>6, <2>1
  <2>3. Searching'
    BY <1>2, <1>3, <1>4, <2>1, <2>2 DEF Searching
  <2> QED BY <1>1, <1>3, <2>1, <2>3 DEF SearchInv
<1>7. CASE id \notin reachable
  <2>1. PICK edges \in SetToSeqs(EdgesOf(g)) :
          queue' = Tail(queue) \o [i \in DOMAIN edges |-> TargetOf(g, edges[i])]
    BY <1>7 DEF Visit
  <2>2. /\ reachable' = reachable \cup {id}
        /\ reaches_terminal' = (reaches_terminal \/ Terminal(g))
    BY <1>7 DEF Visit
  <2>3. id \in Within(doc) /\ id \in All
    BY <1>2, <1>4, <1>5
  <2>4. Successors(g) \subseteq Within(doc)
    BY <1>5, <2>3 DEF Closed
  <2>5. /\ Variant(g)
        /\ ~Terminal(g) => IsFiniteSet(DOMAIN g.on_failure)
        /\ g.kind = "choice" => IsFiniteSet(DOMAIN g.branches)
    BY <1>1, <1>2, <2>3, PassedFacts
  <2> DEFINE t == [i \in DOMAIN edges |-> TargetOf(g, edges[i])]
  <2>6. t \in Seq(Successors(g)) /\ Elements(t) = Successors(g)
    <3> HIDE DEF g
    <3> QED BY <2>1, <2>5, TargetsFacts
  <2>7. queue' = Tail(queue) \o t
    BY <2>1
  <2> HIDE DEF t, g, id, All
  <2>8. t \in Seq(All)
    BY <1>5, <2>4, <2>6
  <2>9. queue' \in Seq(All) /\ Elements(queue') = Elements(Tail(queue)) \cup Successors(g)
    <3> DEFINE q == Tail(queue)
    <3>1. q \in Seq(All)
      BY <1>4
    <3> HIDE DEF q
    <3>2. q \o t \in Seq(All) /\ Elements(q \o t) = Elements(q) \cup Elements(t)
      BY <2>8, <3>1, AppendedFacts, Zenon
    <3> QED BY <2>6, <2>7, <3>2, Zenon DEF q
  <2>10. reachable' \cup Elements(queue') = found \cup Successors(g)
    BY <1>4, <2>2, <2>9
  <2> HIDE DEF found
  <2>11. \A x \in reachable' : Successors(StateOf(doc, x)) \subseteq found \cup Successors(g)
    BY <1>2, <2>2 DEF g
  <2>12. reaches_terminal' <=> \E x \in reachable' : Terminal(StateOf(doc, x))
    BY <1>2, <2>2 DEF g
  <2>13. doc.initial \in found \cup Successors(g) /\ found \cup Successors(g) \subseteq Within(doc)
    BY <1>2, <2>4
  <2>14. Searching'
    BY <1>2, <1>3, <2>9, <2>10, <2>11, <2>12, <2>13 DEF Searching, All
  <2>15. reaches_terminal' \in BOOLEAN
    BY <2>2, Zenon
  <2> QED BY <1>1, <1>3, <2>14, <2>15 DEF SearchInv
<1> QED BY <1>6, <1>7

\* The end of the search.
LEMMA ConcludeKeeps == SearchInv /\ Conclude => SearchInv'
<1> SUFFICES ASSUME SearchInv, Conclude PROVE SearchInv'
  OBVIOUS
<1>1. doc \in Document /\ Searching /\ queue = <<>> /\ reaches_terminal \in BOOLEAN
  BY DEF SearchInv, Conclude
<1>2. Elements(queue) = {}
  BY <1>1 DEF Elements
<1>3. reachable \subseteq Within(doc) /\ doc.initial \in reachable /\ Closed(doc, reachable)
  BY <1>1, <1>2 DEF Searching, Closed
<1>4. reachable = Within(doc)
  BY <1>1, <1>3, WithinFacts DEF Searching
<1>5. /\ doc' = doc /\ phase' = "done" /\ reachable' = reachable
      /\ reaches_terminal' = reaches_terminal
      /\ diagnostics' = Code(Elements(StateIds(doc)) \ reachable # {}, "CLQ0017")
                          \cup Code(~reaches_terminal, "CLQ0018")
  BY <1>1 DEF Conclude, Searching
<1>6. Searched'
  BY <1>1, <1>4, <1>5 DEF Searched, Searching
<1> QED BY <1>1, <1>5, <1>6 DEF SearchInv

\* Every step of validate, and every step that leaves it alone.
LEMMA SearchStep == SearchInv /\ [ValidationNext]_vars => SearchInv'
<1>1. SearchInv /\ UNCHANGED vars => SearchInv'
  BY DEF vars, SearchInv, Searching, Searched
<1> QED BY <1>1, CheckKeeps, VisitKeeps, ConcludeKeeps DEF ValidationNext

-----------------------------------------------------------------------------
(***************************************************************************)
(* The command.  Its invariant adds to the one of validate what bind has   *)
(* let through, and what answers and outcomes there are at each stage.     *)
(***************************************************************************)
\* The choice that is bound.
BoundTo(b) ==
  /\ b \in BindingFor(doc)
  /\ binding = {b}
  /\ phase = "done" /\ FirstPass(doc) = {}
  /\ BindCodes(doc, b) = {}

Decided(b) ==
  \E a \in Answer : \E label \in Decide(b, a) :
    answered = {a} /\ outcome = {[label |-> label]}

Failed ==
  \/ outcome = {[failure |-> "jev.unavailable"]} /\ answered = {}
  \/ outcome = {[failure |-> "jev.invalid_answer"]}

CommandInv ==
  /\ stage \in {"bind", "refused", "bound", "asking", "decided", "failed"}
  /\ stage \notin {"bind", "refused"} => \E b \in BindingFor(doc) : BoundTo(b)
  /\ stage \in {"bind", "bound", "asking"} => answered = {} /\ outcome = {}
  /\ stage = "decided" => \E b \in BindingFor(doc) : BoundTo(b) /\ Decided(b)
  /\ stage = "failed" => Failed

JevInv == SearchInv /\ CommandInv

\* A step of the decider that leaves document and binding alone.
LEMMA BoundKept ==
  ASSUME NEW b, BoundTo(b), UNCHANGED <<vars, binding>>
  PROVE  BoundTo(b)' /\ doc' = doc
BY DEF BoundTo, vars

\* bind lets a binding through only when validate and its own checks found nothing.
LEMMA BindKeeps ==
  ASSUME JevInv, NEW b \in BindingFor(doc), Bind(b)
  PROVE  CommandInv'
<1>1. doc' = doc /\ phase' = phase /\ phase = "done" /\ binding' = {b}
  BY DEF Bind, vars
<1>2. answered' = {} /\ outcome' = {}
  BY DEF Bind, JevInv, CommandInv
<1>3. CASE diagnostics # {}
  <2>1. stage' = "refused"
    BY <1>3 DEF Bind
  <2> QED BY <1>1, <1>2, <2>1 DEF CommandInv
<1>4. CASE diagnostics = {}
  <2>1. FirstPass(doc) = {}
    BY <1>1, <1>4 DEF JevInv, SearchInv, Searched
  <2>2. stage' = IF BindCodes(doc, b) = {} THEN "bound" ELSE "refused"
    BY <1>4 DEF Bind
  <2>3. BindCodes(doc, b) = {} => BoundTo(b)'
    BY <1>1, <2>1 DEF BoundTo
  <2> QED BY <1>1, <1>2, <2>2, <2>3 DEF CommandInv
<1> QED BY <1>3, <1>4

\* A stage that ends in a failure id.
LEMMA FailsKeeps ==
  ASSUME JevInv, stage \in {"bound", "asking"}, NEW failure, Fails(failure),
         \/ failure = "jev.unavailable" /\ answered' = {}
         \/ failure = "jev.invalid_answer"
  PROVE  CommandInv'
<1>1. PICK b \in BindingFor(doc) : BoundTo(b)
  BY DEF JevInv, CommandInv
<1>2. BoundTo(b)' /\ doc' = doc
  BY <1>1, BoundKept DEF Fails
<1>3. stage' = "failed" /\ Failed'
  BY DEF Fails, Failed
<1> QED BY <1>2, <1>3 DEF CommandInv

\* What the client does.
LEMMA AskKeeps == JevInv /\ Ask => CommandInv'
<1> SUFFICES ASSUME JevInv, Ask PROVE CommandInv'
  OBVIOUS
<1>0. stage \in {"bound", "asking"} => answered = {} /\ outcome = {}
  BY DEF JevInv, CommandInv
<1>1. CASE WithKey \/ Busy
  <2>1. /\ stage \in {"bound", "asking"} /\ stage' = "asking"
        /\ UNCHANGED <<vars, binding, answered, outcome>>
    BY <1>1 DEF WithKey, Busy
  <2>2. PICK b \in BindingFor(doc) : BoundTo(b)
    BY <2>1 DEF JevInv, CommandInv
  <2>3. BoundTo(b)' /\ doc' = doc
    BY <2>1, <2>2, BoundKept
  <2> QED BY <1>0, <2>1, <2>3 DEF CommandInv
<1>2. CASE WithoutKey \/ PostFails \/ \E busy \in BOOLEAN : HttpError(busy)
  <2>1. stage \in {"bound", "asking"} /\ Fails("jev.unavailable") /\ answered' = answered
    BY <1>2 DEF WithoutKey, PostFails, HttpError
  <2> QED BY <1>0, <2>1, FailsKeeps
<1>3. CASE UnusableBody
  <2>1. stage = "asking" /\ Fails("jev.invalid_answer")
    BY <1>3 DEF UnusableBody
  <2> QED BY <2>1, FailsKeeps
<1>4. ASSUME NEW a \in Answer, Answers(a) PROVE CommandInv'
  <2>1. stage = "asking" /\ answered' = {a}
    BY <1>4 DEF Answers
  <2>2. PICK b \in BindingFor(doc) : BoundTo(b)
    BY <2>1 DEF JevInv, CommandInv
  <2>3. \/ Fails("jev.invalid_answer")
        \/ \E label \in Decide(b, a) :
             /\ stage' = "decided" /\ outcome' = {[label |-> label]}
             /\ UNCHANGED <<vars, binding>>
    BY <1>4, <2>2 DEF Answers, BoundTo
  <2>4. CASE Fails("jev.invalid_answer")
    BY <2>1, <2>4, FailsKeeps
  <2>5. ASSUME NEW label \in Decide(b, a), stage' = "decided", outcome' = {[label |-> label]},
               UNCHANGED <<vars, binding>>
        PROVE  CommandInv'
    <3>1. BoundTo(b)' /\ doc' = doc
      BY <2>2, <2>5, BoundKept
    <3>2. Decided(b)'
      BY <2>1, <2>5 DEF Decided
    <3> QED BY <2>5, <3>1, <3>2 DEF CommandInv
  <2> QED BY <2>3, <2>4, <2>5
<1> QED BY <1>1, <1>2, <1>3, <1>4 DEF Ask

\* jev-decide keeps its invariant: the one of validate at every step, and its own.
THEOREM JevInvariance == JevSpec => []JevInv
<1>1. JevInit => JevInv
  BY DEF JevInit, ValidationInit, JevInv, SearchInv, CommandInv
<1>2. JevInv /\ [JevNext]_commandVars => JevInv'
  <2> SUFFICES ASSUME JevInv, [JevNext]_commandVars PROVE JevInv'
    OBVIOUS
  <2>1. [ValidationNext]_vars
    BY DEF JevNext, commandVars, Bind, Ask, Fails, WithKey, WithoutKey, PostFails, Busy,
           HttpError, UnusableBody, Answers
  <2>2. SearchInv'
    BY <2>1, SearchStep DEF JevInv
  <2>3. CASE ValidationNext /\ UNCHANGED jevVars
    <3>1. doc' = doc /\ phase # "done"
      BY <2>3 DEF ValidationNext, Check, Visit, Conclude
    <3>2. stage \in {"bind", "refused"}
      BY <3>1 DEF JevInv, CommandInv, BoundTo
    <3>3. CommandInv'
      BY <2>3, <3>1, <3>2 DEF JevInv, CommandInv, jevVars
    <3> QED BY <2>2, <3>3 DEF JevInv
  <2>4. CASE \E b \in BindingFor(doc) : Bind(b)
    BY <2>2, <2>4, BindKeeps DEF JevInv
  <2>5. CASE Ask
    BY <2>2, <2>5, AskKeeps DEF JevInv
  <2>6. CASE UNCHANGED commandVars
    <3>1. CommandInv'
      BY <2>6 DEF JevInv, CommandInv, BoundTo, Decided, Failed, commandVars, vars, jevVars
    <3> QED BY <2>2, <3>1 DEF JevInv
  <2> QED BY <2>3, <2>4, <2>5, <2>6 DEF JevNext
<1> QED BY <1>1, <1>2, PTL DEF JevSpec

-----------------------------------------------------------------------------
(***************************************************************************)
(* What the invariant gives.                                               *)
(***************************************************************************)
\* The search of validate visits what is within reach, no more and no less, in
\* whatever order successors are queued and however large the document is.
THEOREM SearchTheorem == JevSpec => []SearchIsExact
<1>1. JevInv => SearchIsExact
  BY DEF JevInv, SearchInv, Searched, SearchIsExact
<1> QED BY <1>1, JevInvariance, PTL

\* validate accepts the sound documents and refuses the others.
THEOREM ExactTheorem == JevSpec => []ValidationIsExact
<1>1. JevInv => ValidationIsExact
  <2> SUFFICES ASSUME JevInv, phase = "done"
               PROVE  diagnostics = {} <=> Sound(doc)
    BY DEF ValidationIsExact, Accepted, Refused
  <2> DEFINE All == Elements(StateIds(doc))
             ends == \E id \in Within(doc) : Terminal(StateOf(doc, id))
  <2>0. doc \in Document
    BY DEF JevInv, SearchInv
  <2>1. Sound(doc) <=> FirstPass(doc) = {} /\ Within(doc) = All /\ ends
    BY <2>0, FirstPassExact, SoundFacts
  <2>2. CASE FirstPass(doc) # {} /\ diagnostics = FirstPass(doc)
    BY <2>1, <2>2
  <2>3. CASE Searched
    <3>1. /\ FirstPass(doc) = {} /\ reachable = Within(doc) /\ (reaches_terminal <=> ends)
          /\ diagnostics = Code(All \ reachable # {}, "CLQ0017")
                             \cup Code(~reaches_terminal, "CLQ0018")
      BY <2>3 DEF Searched
    <3>2. Within(doc) \subseteq All
      BY <2>0, <3>1, WithinFacts
    <3> HIDE DEF All, ends
    <3>3. diagnostics = {} <=> All \ Within(doc) = {} /\ ends
      BY <3>1 DEF Code, Only
    <3>4. All \ Within(doc) = {} <=> Within(doc) = All
      BY <3>2
    <3> QED BY <2>1, <3>1, <3>3, <3>4
  <2> QED BY <2>2, <2>3 DEF JevInv, SearchInv
<1> QED BY <1>1, JevInvariance, PTL

\* What bind has found of a binding it lets through.
LEMMA BoundFacts ==
  ASSUME JevInv, NEW b \in BindingFor(doc), BoundTo(b)
  PROVE  LET g == ConversationOf(doc).states[b.state] IN
         /\ g.kind = "choice"
         /\ b.criteria \subseteq DOMAIN g.branches
         /\ b.escalate \in DOMAIN g.branches
         /\ \A branch \in DOMAIN g.branches : branch = b.escalate \/ branch \in b.criteria
         /\ b.criteria # {}
         /\ \E t \in 0..Unit : b.threshold = {t}
<1>0. doc \in Document /\ BindCodes(doc, b) = {}
  BY DEF JevInv, SearchInv, BoundTo
<1> DEFINE X == IF ~Known(doc, b.state) THEN {"CLQJ007"}
                ELSE IF StateOf(doc, b.state).kind # "choice" THEN {"CLQJ006"}
                ELSE BranchCodes(doc, b)
<1>1. /\ Code(~InUnit(b.threshold), "CLQJ004") = {}
      /\ Code(Cardinality(b.criteria) < 2, "CLQJ005") = {}
      /\ X = {}
  BY <1>0 DEF BindCodes
<1>2. InUnit(b.threshold) /\ ~(Cardinality(b.criteria) < 2)
  BY <1>1 DEF Code, Only
<1>3. Known(doc, b.state) /\ StateOf(doc, b.state).kind = "choice" /\ BranchCodes(doc, b) = {}
  BY <1>1
<1>4. ConversationOf(doc).states[b.state] = StateOf(doc, b.state)
  BY <1>3, ConversationFacts DEF Known
<1> DEFINE B == BranchesOf(doc, b)
<1>5. /\ b.criteria \subseteq B /\ b.escalate \in B
      /\ \A branch \in B : branch = b.escalate \/ branch \in b.criteria
  <2> HIDE DEF B
  <2>1. BranchCodes(doc, b) =
          Code(\E option \in b.criteria : option \notin B, "CLQJ008")
            \cup Code(\E branch \in B \ {b.escalate} : branch \notin b.criteria, "CLQJ009")
            \cup Code(b.escalate \notin B, "CLQJ010")
    BY DEF BranchCodes, B
  <2>2. /\ Code(\E option \in b.criteria : option \notin B, "CLQJ008") = {}
        /\ Code(\E branch \in B \ {b.escalate} : branch \notin b.criteria, "CLQJ009") = {}
        /\ Code(b.escalate \notin B, "CLQJ010") = {}
    BY <1>3, <2>1
  <2> QED BY <2>2 DEF Code, Only
<1>6. b.criteria # {}
  BY <1>2, FS_EmptySet
<1>7. \E t \in 0..Unit : b.threshold = {t}
  BY <1>0, <1>2, NumberAssumption DEF InUnit, Number
<1> QED BY <1>3, <1>4, <1>5, <1>6, <1>7 DEF BranchesOf

\* A label that jev-decide gives out is one the bound state permits, and the
\* decider's own exactly when it was sure enough.
THEOREM DecisionTheorem == JevSpec => []DecisionIsSanctioned
<1>1. JevInv => DecisionIsSanctioned
  <2> SUFFICES ASSUME JevInv, stage \in {"decided", "failed"}, NEW b \in binding, NEW o \in outcome
               PROVE  LET g == ConversationOf(doc).states[b.state]
                          local == ProjectState(g, g.chooser)
                          sure(a) == \E c \in a.confidence, t \in b.threshold : c >= t
                      IN  IF stage = "decided"
                            THEN /\ local.kind = "select" /\ o.label \in DOMAIN local.branches
                                 /\ \E a \in answered :
                                      /\ a.choice \in DOMAIN local.branches
                                      /\ o.label = IF sure(a) THEN a.choice ELSE b.escalate
                            ELSE \/ o.failure = "jev.unavailable" /\ answered = {}
                                 \/ o.failure = "jev.invalid_answer"
    BY DEF DecisionIsSanctioned
  <2> DEFINE g == ConversationOf(doc).states[b.state]
             local == ProjectState(g, g.chooser)
             sure(a) == \E c \in a.confidence, t \in b.threshold : c >= t
  <2>1. CASE stage = "failed"
    <3>1. Failed
      BY <2>1 DEF JevInv, CommandInv
    <3> QED BY <2>1, <3>1 DEF Failed
  <2>2. CASE stage = "decided"
    <3>1. b \in BindingFor(doc) /\ BoundTo(b) /\ Decided(b)
      BY <2>2 DEF JevInv, CommandInv, BoundTo
    <3>2. PICK a \in Answer : \E label \in Decide(b, a) :
            answered = {a} /\ outcome = {[label |-> label]}
      BY <3>1 DEF Decided
    <3>3. PICK label \in Decide(b, a) : answered = {a} /\ outcome = {[label |-> label]}
      BY <3>2
    <3>4. o.label = label
      BY <3>3
    <3>5. /\ g.kind = "choice" /\ b.criteria \subseteq DOMAIN g.branches
          /\ b.escalate \in DOMAIN g.branches
          /\ \E t \in 0..Unit : b.threshold = {t}
      BY <3>1, BoundFacts
    <3>6. local.kind = "select" /\ local.branches = g.branches
      <4> HIDE DEF g
      <4> QED BY <3>5 DEF ProjectState
    <3>7. /\ a.choice \in b.criteria /\ InUnit(a.confidence)
          /\ label = IF Escalated(b, a) THEN b.escalate ELSE a.choice
      BY <3>3 DEF Decide, Only
    <3>8. Escalated(b, a) <=> ~sure(a)
      <4>1. PICK t \in 0..Unit : b.threshold = {t}
        BY <3>5
      <4>2. PICK c \in 0..Unit : a.confidence = {c}
        BY <3>7, NumberAssumption DEF InUnit, Number
      <4> QED BY <4>1, <4>2 DEF Escalated, Unit
    <3> HIDE DEF g, local, sure
    <3>9. label \in DOMAIN local.branches /\ a.choice \in DOMAIN local.branches
      BY <3>5, <3>6, <3>7
    <3>10. label = IF sure(a) THEN a.choice ELSE b.escalate
      BY <3>7, <3>8
    <3> QED BY <2>2, <3>3, <3>4, <3>6, <3>9, <3>10 DEF local, g, sure
  <2> QED BY <2>1, <2>2
<1> QED BY <1>1, JevInvariance, PTL

\* Binding a choice to a decider cuts no branch off, but for the escalation branch
\* that has neither a criterion nor a confidence below its threshold.
THEOREM DecidableTheorem == JevSpec => []EveryBranchDecidable
<1>1. JevInv => EveryBranchDecidable
  <2> SUFFICES ASSUME JevInv, stage \notin {"bind", "refused"}, NEW b \in binding,
                      NEW branch \in DOMAIN ConversationOf(doc).states[b.state].branches
               PROVE  \/ \E a \in [choice : b.criteria, confidence : {{0}, {Unit}}] :
                           Decide(b, a) = {branch}
                      \/ branch = b.escalate /\ b.threshold = {0} /\ branch \notin b.criteria
    BY DEF EveryBranchDecidable
  <2>1. b \in BindingFor(doc) /\ BoundTo(b)
    BY DEF JevInv, CommandInv, BoundTo
  <2>2. branch = b.escalate \/ branch \in b.criteria
    BY <2>1, BoundFacts
  <2>3. PICK t \in 0..Unit : b.threshold = {t}
    BY <2>1, BoundFacts
  <2>4. CASE branch \in b.criteria
    <3> DEFINE a == [choice |-> branch, confidence |-> {Unit}]
    <3>1. a \in [choice : b.criteria, confidence : {{0}, {Unit}}]
      BY <2>4
    <3>2. InUnit(a.confidence) /\ ~Escalated(b, a) /\ a.choice = branch
      BY <2>3 DEF InUnit, Escalated, Unit
    <3> HIDE DEF a
    <3>3. Decide(b, a) = {branch}
      BY <2>4, <3>2 DEF Decide, Only
    <3> QED BY <3>1, <3>3
  <2>5. CASE branch \notin b.criteria /\ t # 0
    <3>1. PICK x \in b.criteria : TRUE
      BY <2>1, BoundFacts
    <3> DEFINE a == [choice |-> x, confidence |-> {0}]
    <3>2. a \in [choice : b.criteria, confidence : {{0}, {Unit}}]
      OBVIOUS
    <3>3. InUnit(a.confidence) /\ Escalated(b, a) /\ a.choice = x
      BY <2>3, <2>5 DEF InUnit, Escalated, Unit
    <3> HIDE DEF a
    <3>4. Decide(b, a) = {branch}
      BY <2>2, <2>5, <3>3 DEF Decide, Only
    <3> QED BY <3>2, <3>4
  <2>6. CASE branch \notin b.criteria /\ t = 0
    BY <2>2, <2>3, <2>6
  <2> QED BY <2>4, <2>5, <2>6
<1> QED BY <1>1, JevInvariance, PTL

=============================================================================
