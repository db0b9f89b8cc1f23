---------------------------- MODULE CodecProofs ----------------------------
(***************************************************************************)
(* Proofs about plan artifacts and the wire encodings, for every set of    *)
(* artifacts and frames and every largest transition id: what compile      *)
(* writes is accepted by verify, and through the dictionary of a verified  *)
(* plan passes the protocol of the plan, all of it and nothing else.       *)
(***************************************************************************)
EXTENDS WireCodec, FiniteSetTheorems, WellFoundedInduction, TLAPS

-----------------------------------------------------------------------------
(***************************************************************************)
(* The listing of a finite set.                                            *)
(***************************************************************************)
\* Induction on the natural numbers, for a set.
LEMMA NatSet ==
  ASSUME NEW S, 0 \in S, \A n \in Nat : n \in S => n + 1 \in S
  PROVE  Nat \subseteq S
<1> DEFINE T == Nat \ S
<1> SUFFICES ASSUME T # {} PROVE FALSE
  OBVIOUS
<1>1. \E x \in T : \A y \in T : ~(<<y, x>> \in OpToRel(<, Nat))
  <2>1. T \subseteq Nat
    OBVIOUS
  <2> QED BY <2>1, NatLessThanWellFounded, WFMin, Zenon
<1>2. PICK x \in T : \A y \in T : ~(<<y, x>> \in OpToRel(<, Nat))
  BY <1>1
<1>3. \A y \in T : ~(y < x)
  BY <1>2, Zenon DEF OpToRel
<1>4. x # 0 /\ x \in Nat /\ x - 1 \in Nat /\ x - 1 < x
  OBVIOUS
<1>5. x - 1 \in S
  BY <1>3, <1>4
<1> QED BY <1>4, <1>5

\* The element that is listed last of T.
Chosen(T) == CHOOSE x \in T : TRUE

Listing(f, S) ==
  f = [T \in SUBSET S |-> IF T = {} THEN <<>> ELSE Append(f[T \ {Chosen(T)}], Chosen(T))]

\* Leaving out the element that comes last leaves a smaller finite set.
LEMMA ChosenFacts ==
  ASSUME NEW T, IsFiniteSet(T), T # {}
  PROVE  /\ Chosen(T) \in T
         /\ IsFiniteSet(T \ {Chosen(T)})
         /\ Cardinality(T) \in Nat /\ Cardinality(T \ {Chosen(T)}) \in Nat
         /\ Cardinality(T) = Cardinality(T \ {Chosen(T)}) + 1
<1>1. Chosen(T) \in T
  BY DEF Chosen
<1>2. /\ IsFiniteSet(T \ {Chosen(T)})
      /\ Cardinality(T \ {Chosen(T)}) = IF Chosen(T) \in T THEN Cardinality(T) - 1
                                        ELSE Cardinality(T)
  BY FS_RemoveElement
<1>3. Cardinality(T) \in Nat /\ Cardinality(T \ {Chosen(T)}) \in Nat
  BY <1>2, FS_CardinalityType
<1> QED BY <1>1, <1>2, <1>3

\* The recursion has a solution.
LEMMA ListingExists ==
  ASSUME NEW S, IsFiniteSet(S)
  PROVE  \E f : Listing(f, S)
<1> DEFINE Next1(f, T) == IF T = {} THEN <<>> ELSE Append(f[T \ {Chosen(T)}], Chosen(T))
           Small(n) == {T \in SUBSET S : Cardinality(T) <= n}
           Fits(n, f) == \A T \in Small(n) : f[T] = Next1(f, T)
           N == {n \in Nat : \E f : Fits(n, f)}
<1>0. \A T \in SUBSET S : IsFiniteSet(T)
  BY FS_Subset
<1>1. 0 \in N
  <2>1. \A T \in Small(0) : T = {}
    <3> TAKE T \in Small(0)
    <3>1. IsFiniteSet(T) /\ Cardinality(T) <= 0
      BY <1>0
    <3>2. Cardinality(T) \in Nat
      BY <3>1, FS_CardinalityType
    <3> QED BY <3>1, <3>2, FS_EmptySet
  <2> DEFINE g == [T \in SUBSET S |-> <<>>]
  <2>2. Fits(0, g)
    BY <2>1
  <2> HIDE DEF Fits, g
  <2> QED BY <2>2
<1>2. \A n \in Nat : n \in N => n + 1 \in N
  <2> SUFFICES ASSUME NEW n \in Nat, n \in N PROVE n + 1 \in N
    OBVIOUS
  <2>1. PICK f : Fits(n, f)
    OBVIOUS
  <2> DEFINE g == [T \in SUBSET S |-> Next1(f, T)]
  <2>2. \A T \in Small(n) : g[T] = f[T]
    BY <2>1
  <2>3. ASSUME NEW T \in Small(n + 1), T # {}
        PROVE  T \ {Chosen(T)} \in Small(n)
    <3>1. T \in SUBSET S /\ Cardinality(T) <= n + 1 /\ IsFiniteSet(T)
      BY <1>0
    <3>2. /\ Cardinality(T \ {Chosen(T)}) \in Nat
          /\ Cardinality(T) = Cardinality(T \ {Chosen(T)}) + 1
      BY <2>3, <3>1, ChosenFacts
    <3>3. Cardinality(T \ {Chosen(T)}) <= n
      BY <3>1, <3>2
    <3> QED BY <3>1, <3>3
  <2>4. \A T \in Small(n + 1) : g[T] = Next1(g, T)
    <3> TAKE T \in Small(n + 1)
    <3>1. g[T] = Next1(f, T)
      OBVIOUS
    <3>2. T # {} => g[T \ {Chosen(T)}] = f[T \ {Chosen(T)}]
      <4> HIDE DEF g, Small
      <4> QED BY <2>2, <2>3
    <3> HIDE DEF g
    <3> QED BY <3>1, <3>2
  <2>5. Fits(n + 1, g)
    BY <2>4
  <2> HIDE DEF Fits, g
  <2> QED BY <2>5
<1>3. \A n \in Nat : n \in N
  <2> HIDE DEF N
  <2> QED BY <1>1, <1>2, NatSet
<1>4. Cardinality(S) \in Nat /\ \A T \in SUBSET S : Cardinality(T) <= Cardinality(S)
  BY FS_CardinalityType, FS_Subset
<1>5. PICK f : Fits(Cardinality(S), f)
  <2> HIDE DEF Fits
  <2> QED BY <1>3, <1>4
<1> DEFINE g == [T \in SUBSET S |-> f[T]]
<1>6. \A T \in SUBSET S : f[T] = Next1(f, T)
  BY <1>4, <1>5
<1>7. \A T \in SUBSET S : Next1(f, T) = Next1(g, T)
  OBVIOUS
<1>8. g = [T \in SUBSET S |-> Next1(g, T)]
  <2>1. g = [T \in SUBSET S |-> g[T]]
    OBVIOUS
  <2>2. \A T \in SUBSET S : g[T] = Next1(g, T)
    BY <1>6, <1>7
  <2> HIDE DEF g, Next1
  <2> QED BY <2>1, <2>2
<1>9. Listing(g, S)
  BY <1>8 DEF Listing
<1> HIDE DEF g
<1> QED BY <1>9

\* A listing of T goes on with an element that is not in it.
LEMMA AppendElements ==
  ASSUME NEW S, NEW s \in Seq(S), NEW x \in S, x \notin Elements(s),
         \A i, j \in DOMAIN s : s[i] = s[j] => i = j
  PROVE  LET t == Append(s, x) IN
         /\ t \in Seq(S) /\ Len(t) = Len(s) + 1
         /\ Elements(t) = Elements(s) \cup {x}
         /\ \A i, j \in DOMAIN t : t[i] = t[j] => i = j
<1> DEFINE t == Append(s, x)
<1>1. /\ t \in Seq(S) /\ Len(t) = Len(s) + 1 /\ Len(s) \in Nat
      /\ DOMAIN s = 1..Len(s) /\ DOMAIN t = 1..Len(s) + 1
      /\ \A i \in 1..Len(s) : t[i] = s[i]
      /\ t[Len(s) + 1] = x
  OBVIOUS
<1> HIDE DEF t
<1>2. \A i \in DOMAIN t : i \in DOMAIN s \/ i = Len(s) + 1
  BY <1>1
<1>3. \A i \in DOMAIN s : i \in DOMAIN t /\ t[i] = s[i] /\ s[i] # x
  BY <1>1 DEF Elements
<1>4. Elements(t) = Elements(s) \cup {x}
  <2>1. ASSUME NEW y \in Elements(t) PROVE y \in Elements(s) \cup {x}
    BY <1>1, <1>2, <1>3 DEF Elements
  <2>2. ASSUME NEW y \in Elements(s) \cup {x} PROVE y \in Elements(t)
    BY <1>1, <1>2, <1>3 DEF Elements
  <2> QED BY <2>1, <2>2
<1>5. \A i, j \in DOMAIN t : t[i] = t[j] => i = j
  BY <1>1, <1>2, <1>3
<1> QED BY <1>1, <1>4, <1>5 DEF t

\* InOrder lists a finite set, each element once.
LEMMA InOrderFacts ==
  ASSUME NEW S, IsFiniteSet(S)
  PROVE  /\ InOrder(S) \in Seq(S)
         /\ Len(InOrder(S)) = Cardinality(S)
         /\ Elements(InOrder(S)) = S
         /\ \A i, j \in DOMAIN InOrder(S) : InOrder(S)[i] = InOrder(S)[j] => i = j
<1> DEFINE at == CHOOSE f : Listing(f, S)
<1>1. InOrder(S) = at[S]
  BY DEF InOrder, MapThenFoldSet, Listing, Chosen
<1>2. Listing(at, S)
  BY ListingExists
<1> HIDE DEF at
<1>3. \A T \in SUBSET S : at[T] = IF T = {} THEN <<>>
                                  ELSE Append(at[T \ {Chosen(T)}], Chosen(T))
  BY <1>2 DEF Listing
<1> DEFINE Good(T) == /\ at[T] \in Seq(S) /\ Len(at[T]) = Cardinality(T)
                      /\ Elements(at[T]) = T
                      /\ \A i, j \in DOMAIN at[T] : at[T][i] = at[T][j] => i = j
           N == {n \in Nat : \A T \in SUBSET S : Cardinality(T) = n => Good(T)}
<1>0. \A T \in SUBSET S : IsFiniteSet(T) /\ Cardinality(T) \in Nat
  BY FS_Subset, FS_CardinalityType
<1>4. 0 \in N
  <2> SUFFICES ASSUME NEW T \in SUBSET S, Cardinality(T) = 0 PROVE Good(T)
    OBVIOUS
  <2>1. T = {}
    BY <1>0, FS_EmptySet
  <2>2. at[T] = <<>>
    BY <1>3, <2>1
  <2>3. Elements(<<>>) = {}
    BY DEF Elements
  <2> QED BY <2>1, <2>2, <2>3
<1>5. \A n \in Nat : n \in N => n + 1 \in N
  <2> SUFFICES ASSUME NEW n \in Nat, n \in N, NEW T \in SUBSET S, Cardinality(T) = n + 1
               PROVE  Good(T)
    OBVIOUS
  <2> DEFINE x == Chosen(T)  R == T \ {x}
  <2>1. T # {}
    BY <1>0, FS_EmptySet
  <2>2. x \in T /\ x \in S /\ R \in SUBSET S /\ Cardinality(R) = n
    BY <1>0, <2>1, ChosenFacts
  <2>3. Good(R)
    BY <2>2
  <2>4. at[T] = Append(at[R], x)
    BY <1>3, <2>1
  <2> HIDE DEF x
  <2>5. x \notin R /\ T = R \cup {x}
    BY <2>2
  <2> HIDE DEF R
  <2>6. /\ Append(at[R], x) \in Seq(S) /\ Len(Append(at[R], x)) = Len(at[R]) + 1
        /\ Elements(Append(at[R], x)) = Elements(at[R]) \cup {x}
        /\ \A i, j \in DOMAIN Append(at[R], x) :
             Append(at[R], x)[i] = Append(at[R], x)[j] => i = j
    BY <2>2, <2>3, <2>5, AppendElements
  <2> QED BY <2>2, <2>3, <2>4, <2>5, <2>6
<1>6. \A n \in Nat : n \in N
  <2> HIDE DEF N
  <2> QED BY <1>4, <1>5, NatSet
<1>7. Good(S)
  <2> HIDE DEF Good
  <2> QED BY <1>0, <1>6
<1> QED BY <1>1, <1>7

-----------------------------------------------------------------------------
(***************************************************************************)
(* The dictionary.                                                         *)
(***************************************************************************)
\* The values of a function with a finite domain are finite in number.
LEMMA RangeFinite ==
  ASSUME NEW f, IsFiniteSet(DOMAIN f)
  PROVE  IsFiniteSet({f[x] : x \in DOMAIN f})
<1> DEFINE R == {f[x] : x \in DOMAIN f}
           g == [x \in DOMAIN f |-> f[x]]
<1>1. g \in Surjection(DOMAIN f, R)
  BY DEF Surjection
<1> QED BY <1>1, FS_Surjection

\* So are the elements of a list.
LEMMA ElementsFinite ==
  ASSUME NEW s, IsList(s)
  PROVE  IsFiniteSet(Elements(s))
<1>1. IsFiniteSet(DOMAIN s)
  BY FS_Interval DEF IsList
<1>2. IsFiniteSet({s[i] : i \in DOMAIN s})
  BY <1>1, RangeFinite
<1> QED BY <1>2 DEF Elements

\* A state of an endpoint has finitely many frames.
LEMMA OperationsFinite ==
  ASSUME NEW a \in Artifact, NEW p \in Elements(a.endpoints), NEW s \in Elements(p.states)
  PROVE  IsFiniteSet(WireOperations(p.role, s.body))
<1> DEFINE e == s.body
<1>1. e.kind \in {"select", "branch"} => IsFiniteSet(DOMAIN e.branches)
  BY ArtifactAssumption
<1> HIDE DEF e
<1>2. CASE e.kind \in {"select", "branch"}
  <2> DEFINE f == [l \in DOMAIN e.branches |->
                     IF e.kind = "select" THEN SelectFrame(p.role, l)
                     ELSE SelectFrame(e.from, l)]
  <2>1. IsFiniteSet({f[l] : l \in DOMAIN f})
    BY <1>1, <1>2, RangeFinite
  <2>2. WireOperations(p.role, e) = {f[l] : l \in DOMAIN f}
    BY <1>2 DEF WireOperations
  <2> QED BY <2>1, <2>2 DEF e
<1>3. CASE e.kind \notin {"select", "branch"}
  <2>1. \/ WireOperations(p.role, e) = {DataFrame(p.role, e.to, e.message)}
        \/ WireOperations(p.role, e) = {DataFrame(e.from, p.role, e.message)}
        \/ WireOperations(p.role, e) = {CancelFrame(p.role, e.to, e.scope)}
        \/ WireOperations(p.role, e) = {CancelFrame(e.from, p.role, e.scope)}
        \/ WireOperations(p.role, e) = {}
    BY <1>3 DEF WireOperations
  <2> QED BY <2>1, FS_Singleton, FS_EmptySet DEF e
<1> QED BY <1>2, <1>3

\* A transition pairs a state's id with a frame of that state, at either endpoint.
LEMMA TransitionFacts ==
  ASSUME NEW E
  PROVE  /\ \A x \in Transitions(E) : x = [state |-> x.state, operation |-> x.operation]
         /\ \A id, o :
              [state |-> id, operation |-> o] \in Transitions(E)
                <=> \E p \in Elements(E) : \E s \in Elements(p.states) :
                      s.id = id /\ o \in WireOperations(p.role, s.body)
<1> DEFINE At(p, s) == [state : {s.id}, operation : WireOperations(p.role, s.body)]
<1>1. \A p, s, x : x \in At(p, s) => x = [state |-> x.state, operation |-> x.operation]
  OBVIOUS
<1>2. \A p, s, id, o :
        [state |-> id, operation |-> o] \in At(p, s)
          <=> id = s.id /\ o \in WireOperations(p.role, s.body)
  OBVIOUS
<1>3. Transitions(E) = UNION {UNION {At(p, s) : s \in Elements(p.states)} : p \in Elements(E)}
  BY DEF Transitions
<1> HIDE DEF At
<1>4. \A x : x \in Transitions(E)
               <=> \E p \in Elements(E) : \E s \in Elements(p.states) : x \in At(p, s)
  BY <1>3
<1> QED BY <1>1, <1>2, <1>4

\* Finitely many of them.
LEMMA TransitionsFinite ==
  ASSUME NEW a \in Artifact
  PROVE  IsFiniteSet(Transitions(a.endpoints))
<1> DEFINE E == a.endpoints
           At(p, s) == [state : {s.id}, operation : WireOperations(p.role, s.body)]
           Of(p) == {At(p, s) : s \in Elements(p.states)}
           All == {UNION Of(p) : p \in Elements(E)}
<1>1. IsFiniteSet(Elements(E))
  BY ArtifactAssumption, ElementsFinite
<1>2. ASSUME NEW p \in Elements(E) PROVE IsFiniteSet(UNION Of(p))
  <2>1. IsFiniteSet(Elements(p.states))
    BY <1>2, ArtifactAssumption, ElementsFinite
  <2>2. ASSUME NEW s \in Elements(p.states) PROVE IsFiniteSet(At(p, s))
    <3> DEFINE W == WireOperations(p.role, s.body)
               f == [o \in W |-> [state |-> s.id, operation |-> o]]
    <3>1. IsFiniteSet(W)
      BY <1>2, <2>2, OperationsFinite
    <3>2. IsFiniteSet({f[o] : o \in DOMAIN f})
      <4>1. DOMAIN f = W
        OBVIOUS
      <4> HIDE DEF f, W
      <4> QED BY <3>1, <4>1, RangeFinite
    <3>3. At(p, s) = {f[o] : o \in DOMAIN f}
      <4>1. At(p, s) = [state : {s.id}, operation : W]
        OBVIOUS
      <4> HIDE DEF W, At
      <4>2. ASSUME NEW x \in [state : {s.id}, operation : W]
            PROVE  x.operation \in W /\ x = f[x.operation]
        OBVIOUS
      <4>3. ASSUME NEW o \in W PROVE f[o] \in [state : {s.id}, operation : W]
        OBVIOUS
      <4>4. DOMAIN f = W
        OBVIOUS
      <4> HIDE DEF f
      <4> QED BY <4>1, <4>2, <4>3, <4>4
    <3> QED BY <3>2, <3>3
  <2> DEFINE g == [s \in Elements(p.states) |-> At(p, s)]
  <2> HIDE DEF At
  <2>3. DOMAIN g = Elements(p.states) /\ Of(p) = {g[s] : s \in DOMAIN g}
    OBVIOUS
  <2>4. IsFiniteSet(Of(p))
    <3> HIDE DEF g, Of
    <3> QED BY <2>1, <2>3, RangeFinite
  <2>5. \A T \in Of(p) : IsFiniteSet(T)
    BY <2>2
  <2> HIDE DEF Of
  <2> QED BY <2>4, <2>5, FS_UNION
<1>3. Transitions(E) = UNION All
  BY DEF Transitions
<1> DEFINE h == [p \in Elements(E) |-> UNION Of(p)]
<1> HIDE DEF E, Of
<1>4. DOMAIN h = Elements(E) /\ All = {h[p] : p \in DOMAIN h}
  OBVIOUS
<1>5. IsFiniteSet(All)
  <2> HIDE DEF h, All
  <2> QED BY <1>1, <1>4, RangeFinite
<1>6. \A T \in All : IsFiniteSet(T)
  BY <1>2
<1>7. IsFiniteSet(UNION All)
  <2> HIDE DEF All
  <2> QED BY <1>5, <1>6, FS_UNION
<1> QED BY <1>3, <1>7 DEF E

\* The dictionary numbers the transitions, each once, from one to at most MaxId.
LEMMA Dictionary ==
  ASSUME NEW a \in Artifact, NEW w \in DeriveWirePlan(a.endpoints)
  PROVE  /\ DeriveWirePlan(a.endpoints) = {w}
         /\ \A i \in DOMAIN w : i \in Nat /\ i <= MaxId /\ w[i].id = i
         /\ \A i \in DOMAIN w :
              [state |-> w[i].state, operation |-> w[i].operation]
                \in Transitions(a.endpoints)
         /\ \A x \in Transitions(a.endpoints) :
              \E i \in DOMAIN w : w[i].state = x.state /\ w[i].operation = x.operation
         /\ \A i, j \in DOMAIN w :
              (w[i].state = w[j].state /\ w[i].operation = w[j].operation) => i = j
<1> DEFINE T == Transitions(a.endpoints)
           L == InOrder(T)
           v == [i \in DOMAIN L |->
                   [id |-> i, state |-> L[i].state, operation |-> L[i].operation]]
<1>1. L \in Seq(T) /\ Elements(L) = T /\ \A i, j \in DOMAIN L : L[i] = L[j] => i = j
  BY TransitionsFinite, InOrderFacts
<1>2. Len(L) <= MaxId /\ w = v /\ DeriveWirePlan(a.endpoints) = {v}
  BY DEF DeriveWirePlan, Only
<1>3. \A x \in T : x = [state |-> x.state, operation |-> x.operation]
  BY TransitionFacts
<1> HIDE DEF T, L
<1>4. DOMAIN L = 1..Len(L) /\ Len(L) \in Nat /\ \A i \in DOMAIN L : L[i] \in T
  BY <1>1
<1>5. /\ DOMAIN w = DOMAIN L
      /\ \A i \in DOMAIN w : /\ w[i].id = i
                             /\ w[i].state = L[i].state
                             /\ w[i].operation = L[i].operation
  BY <1>2
<1>6. \A i \in DOMAIN w : [state |-> w[i].state, operation |-> w[i].operation] = L[i]
  BY <1>3, <1>4, <1>5
<1>7. \A x \in T : \E i \in DOMAIN w : x = L[i]
  BY <1>1, <1>5 DEF Elements
<1>8. \A i, j \in DOMAIN w :
        (w[i].state = w[j].state /\ w[i].operation = w[j].operation) => i = j
  BY <1>1, <1>5, <1>6
<1>9. \A i \in DOMAIN w : i \in Nat /\ i <= MaxId
  BY <1>2, <1>4, <1>5, MaxIdAssumption
<1>10. DeriveWirePlan(a.endpoints) = {w}
  BY <1>2
<1> HIDE DEF v
<1> QED BY <1>4, <1>5, <1>6, <1>7, <1>8, <1>9, <1>10 DEF T

\* What has a number is what the machine of that endpoint emits or accepts.
LEMMA OperationsOfMachine ==
  ASSUME NEW role, NEW e, NEW f
  PROVE  /\ f \in WireOperations(role, e) =>
              /\ e.kind \in Emitting \/ AcceptTarget(e, role, f) # {}
              /\ f.op \in {"data", "select", "cancel"}
         /\ f \in Frame /\ AcceptTarget(e, role, f) # {} => f \in WireOperations(role, e)
<1>1. ASSUME f \in WireOperations(role, e)
      PROVE  /\ e.kind \in Emitting \/ AcceptTarget(e, role, f) # {}
             /\ f.op \in {"data", "select", "cancel"}
  <2>1. CASE e.kind \in Emitting
    BY <1>1, <2>1 DEF WireOperations, Emitting, DataFrame, SelectFrame, CancelFrame
  <2>2. CASE e.kind = "receive"
    <3>1. f = DataFrame(e.from, role, e.message)
      BY <1>1, <2>2 DEF WireOperations
    <3> QED BY <2>2, <3>1 DEF AcceptTarget, Only, DataFrame
  <2>3. CASE e.kind = "branch"
    <3>1. PICK l \in DOMAIN e.branches : f = SelectFrame(e.from, l)
      BY <1>1, <2>3 DEF WireOperations
    <3> QED BY <2>3, <3>1 DEF AcceptTarget, Only, SelectFrame
  <2>4. CASE e.kind = "receive_cancel"
    <3>1. f = CancelFrame(e.from, role, e.scope)
      BY <1>1, <2>4 DEF WireOperations
    <3> QED BY <2>4, <3>1 DEF AcceptTarget, Only, CancelFrame
  <2>5. e.kind \in Emitting \cup {"receive", "branch", "receive_cancel"}
    BY <1>1 DEF WireOperations, Emitting
  <2> QED BY <2>1, <2>2, <2>3, <2>4, <2>5
<1>2. ASSUME f \in Frame, AcceptTarget(e, role, f) # {}
      PROVE  f \in WireOperations(role, e)
  <2>1. \/ f.op = "data" /\ f = DataFrame(f.from, f.to, f.message)
        \/ f.op = "select" /\ f = SelectFrame(f.by, f.label)
        \/ f.op = "cancel" /\ f = CancelFrame(f.from, f.to, f.scope)
        \/ f.op = "fault"
    BY <1>2, FrameAssumption
  <2>2. \/ /\ e.kind = "receive" /\ f.op = "data"
           /\ e.from = f.from /\ f.to = role /\ e.message = f.message
        \/ /\ e.kind = "branch" /\ f.op = "select"
           /\ e.from = f.by /\ f.label \in DOMAIN e.branches
        \/ /\ e.kind = "receive_cancel" /\ f.op = "cancel"
           /\ e.from = f.from /\ f.to = role /\ e.scope = f.scope
    BY <1>2 DEF AcceptTarget, Only
  <2> QED BY <2>1, <2>2 DEF WireOperations
<1> QED BY <1>1, <1>2

-----------------------------------------------------------------------------
(***************************************************************************)
(* What compile writes.                                                    *)
(***************************************************************************)
\* Both projections of a state have the frames of that state.
LEMMA ProjectedOperations ==
  ASSUME NEW c, WellFormed(c), NEW g, StateOK(c, g), NEW r \in c.roles, NEW q \in c.roles
  PROVE  WireOperations(r, ProjectState(g, r)) = WireOperations(q, ProjectState(g, q))
<1>1. PICK a, b \in c.roles : a # b /\ c.roles = {a, b}
  BY DEF WellFormed
<1>2. ASSUME g.kind = "send", NEW x \in c.roles
      PROVE  WireOperations(x, ProjectState(g, x)) = {DataFrame(g.from, g.to, g.message)}
  <2>1. g.from \in c.roles /\ g.to \in c.roles /\ g.from # g.to
    BY <1>2 DEF StateOK, EndState
  <2>2. x = g.from \/ x = g.to
    BY <1>1, <2>1
  <2> QED BY <1>2, <2>1, <2>2 DEF WireOperations, ProjectState
<1>3. ASSUME g.kind = "choice", NEW x \in c.roles
      PROVE  WireOperations(x, ProjectState(g, x))
               = {SelectFrame(g.chooser, l) : l \in DOMAIN g.branches}
  <2>1. CASE x = g.chooser
    BY <1>3, <2>1 DEF WireOperations, ProjectState
  <2>2. CASE x # g.chooser
    BY <1>3, <2>2 DEF WireOperations, ProjectState
  <2> QED BY <2>1, <2>2
<1>4. ASSUME g.kind = "cancel", NEW x \in c.roles
      PROVE  WireOperations(x, ProjectState(g, x)) = {CancelFrame(g.from, g.to, g.scope)}
  <2>1. g.from \in c.roles /\ g.to \in c.roles /\ g.from # g.to
    BY <1>4 DEF StateOK, EndState
  <2>2. x = g.from \/ x = g.to
    BY <1>1, <2>1
  <2> QED BY <1>4, <2>1, <2>2 DEF WireOperations, ProjectState
<1>5. ASSUME g.kind \in {"end", "fail"}, NEW x \in c.roles
      PROVE  WireOperations(x, ProjectState(g, x)) = {}
  BY <1>5 DEF WireOperations, ProjectState
<1>6. g.kind \in {"send", "choice", "cancel", "end", "fail"}
  BY DEF StateOK, EndState
<1> QED BY <1>2, <1>3, <1>4, <1>5, <1>6

\* A projected state leads to states of the conversation and names a role.
LEMMA ProjectedEdges ==
  ASSUME NEW c, WellFormed(c), NEW g, StateOK(c, g), NEW r \in c.roles
  PROVE  /\ EndpointSuccessors(ProjectState(g, r)) \subseteq DOMAIN c.states
         /\ EndpointPeer(ProjectState(g, r)) \subseteq c.roles
<1> DEFINE e == ProjectState(g, r)
<1>0. e = ProjectState(g, r)
  OBVIOUS
<1> HIDE DEF e
<1> SUFFICES /\ EndpointSuccessors(e) \subseteq DOMAIN c.states
             /\ EndpointPeer(e) \subseteq c.roles
  BY <1>0
<1>1. CASE g.kind \in {"send", "cancel"}
  <2>1. /\ g.from \in c.roles /\ g.to \in c.roles /\ g.next \in DOMAIN c.states
        /\ \A f \in DOMAIN g.on_failure : g.on_failure[f] \in DOMAIN c.states
    BY <1>1 DEF StateOK, FailureEdgesOK, EndState
  <2>2. /\ e.kind \in {"send", "receive", "send_cancel", "receive_cancel"}
        /\ e.next = g.next /\ e.on_failure = g.on_failure
        /\ e.kind \in {"send", "send_cancel"} => e.to = g.to
        /\ e.kind \in {"receive", "receive_cancel"} => e.from = g.from
    BY <1>1 DEF ProjectState, e
  <2> QED BY <2>1, <2>2 DEF EndpointSuccessors, EndpointPeer
<1>2. CASE g.kind = "choice"
  <2>1. /\ g.chooser \in c.roles
        /\ \A l \in DOMAIN g.branches : g.branches[l] \in DOMAIN c.states
        /\ \A f \in DOMAIN g.on_failure : g.on_failure[f] \in DOMAIN c.states
    BY <1>2 DEF StateOK, FailureEdgesOK, EndState
  <2>2. /\ e.kind \in {"select", "branch"}
        /\ e.branches = g.branches /\ e.on_failure = g.on_failure
        /\ e.kind = "branch" => e.from = g.chooser
    BY <1>2 DEF ProjectState, e
  <2> QED BY <2>1, <2>2 DEF EndpointSuccessors, EndpointPeer
<1>3. CASE g.kind \in {"end", "fail"}
  <2>1. e.kind \in {"end", "fail"}
    BY <1>3 DEF ProjectState, e
  <2> QED BY <2>1 DEF EndpointSuccessors, EndpointPeer
<1>4. g.kind \in {"send", "choice", "cancel", "end", "fail"}
  BY DEF StateOK, EndState
<1> QED BY <1>1, <1>2, <1>3, <1>4

\* The states of a projection, once each.
LEMMA ProjectFacts ==
  ASSUME NEW c, IsFiniteSet(DOMAIN c.states), NEW r
  PROVE  LET p == Project(c, r) IN
         /\ p.role = r /\ p.initial = c.initial
         /\ Elements(p.states)
              = {[id |-> s, body |-> ProjectState(c.states[s], r)] : s \in DOMAIN c.states}
         /\ Len(p.states) = Cardinality(DOMAIN c.states)
         /\ p.states \in Seq(Elements(p.states))
<1> DEFINE S == {[id |-> s, body |-> ProjectState(c.states[s], r)] : s \in DOMAIN c.states}
           f == [s \in DOMAIN c.states |->
                   [id |-> s, body |-> ProjectState(c.states[s], r)]]
<1>1. ExistsBijection(DOMAIN c.states, S)
  <2>1. f \in Bijection(DOMAIN c.states, S)
    BY DEF Bijection, Injection, Surjection, IsInjective
  <2> HIDE DEF f, S
  <2> QED BY <2>1 DEF ExistsBijection
<1>2. IsFiniteSet(S) /\ Cardinality(S) = Cardinality(DOMAIN c.states)
  <2> HIDE DEF S
  <2> QED BY <1>1, FS_Bijection
<1> HIDE DEF S
<1>3. InOrder(S) \in Seq(S) /\ Len(InOrder(S)) = Cardinality(S) /\ Elements(InOrder(S)) = S
  BY <1>2, InOrderFacts
<1> QED BY <1>2, <1>3 DEF Project, S

\* verify accepts every artifact that compile writes for a conversation validate
\* accepts, and its endpoints have the same frames at the same states.
THEOREM CompiledPlansVerify ==
  ASSUME NEW c, WellFormed(c), IsFiniteSet(DOMAIN c.states), NEW a \in Compile(c)
  PROVE  Verify(a) /\ Dual(a)
<1> DEFINE L == InOrder(c.roles)
           E == [i \in DOMAIN L |-> Project(c, L[i])]
<1>1. PICK w \in DeriveWirePlan(E) :
        a = [endpoints |-> E, wire |-> {w}, plan_identity |-> CalculateIdentity(E, {w})]
  BY DEF Compile
<1>2. IsFiniteSet(c.roles) /\ Cardinality(c.roles) = 2
  <2>1. PICK x, y \in c.roles : x # y /\ c.roles = {x} \cup {y}
    BY DEF WellFormed
  <2>2. IsFiniteSet({x}) /\ Cardinality({x}) = 1
    BY FS_Singleton
  <2>3. y \notin {x}
    BY <2>1
  <2> DEFINE X == {x}
  <2>4. IsFiniteSet(X \cup {y}) /\ Cardinality(X \cup {y}) = 2
    <3> HIDE DEF X
    <3>1. IsFiniteSet(X) /\ Cardinality(X) = 1 /\ y \notin X
      BY <2>2, <2>3 DEF X
    <3> QED BY <3>1, FS_AddElement
  <2> QED BY <2>1, <2>4
<1>3. /\ DOMAIN L = 1..2 /\ Elements(L) = c.roles
      /\ \A i, j \in DOMAIN L : L[i] = L[j] => i = j
  <2>1. L \in Seq(c.roles) /\ Len(L) = 2
    BY <1>2, InOrderFacts
  <2> HIDE DEF L
  <2>2. DOMAIN L = 1..2
    BY <2>1
  <2> QED BY <1>2, <2>2, InOrderFacts DEF L
<1> HIDE DEF L
<1>4. Len(E) = 2
  BY <1>3
<1>5. \A p \in Elements(E) : \E r \in c.roles : p = Project(c, r)
  BY <1>3 DEF Elements
<1>6. \A r \in c.roles : Project(c, r) \in Elements(E)
  BY <1>3 DEF Elements
<1> HIDE DEF E
<1>7. {p.role : p \in Elements(E)} = c.roles
  <2>1. \A r : Project(c, r).role = r
    BY DEF Project
  <2> QED BY <1>5, <1>6, <2>1
<1>8. \A s \in DOMAIN c.states : StateOK(c, c.states[s])
  BY DEF WellFormed
<1>9. ASSUME NEW p \in Elements(E) PROVE VerifyEndpoint(p, c.roles)
  <2>1. PICK r \in c.roles : p = Project(c, r)
    BY <1>5
  <2>2. /\ p.initial = c.initial
        /\ Elements(p.states)
             = {[id |-> s, body |-> ProjectState(c.states[s], r)] : s \in DOMAIN c.states}
        /\ Len(p.states) = Cardinality(DOMAIN c.states)
        /\ p.states \in Seq(Elements(p.states))
    BY <2>1, ProjectFacts
  <2>3. {s.id : s \in Elements(p.states)} = DOMAIN c.states
    <3>1. ASSUME NEW s \in Elements(p.states) PROVE s.id \in DOMAIN c.states
      BY <2>2
    <3>2. ASSUME NEW x \in DOMAIN c.states PROVE \E s \in Elements(p.states) : s.id = x
      <4>1. [id |-> x, body |-> ProjectState(c.states[x], r)] \in Elements(p.states)
        BY <2>2
      <4> QED BY <4>1
    <3> QED BY <3>1, <3>2
  <2>4. c.initial \in DOMAIN c.states
    BY DEF WellFormed
  <2>5. p.states # <<>>
    <3>1. Elements(<<>>) = {}
      BY DEF Elements
    <3> QED BY <2>2, <2>4, <3>1
  <2>6. ASSUME NEW s \in Elements(p.states)
        PROVE  /\ EndpointSuccessors(s.body) \subseteq DOMAIN c.states
               /\ EndpointPeer(s.body) \subseteq c.roles
    <3>1. PICK x \in DOMAIN c.states :
            s = [id |-> x, body |-> ProjectState(c.states[x], r)]
      BY <2>2
    <3>2. s.body = ProjectState(c.states[x], r)
      BY <3>1
    <3> QED BY <1>8, <3>2, ProjectedEdges
  <2> QED BY <2>2, <2>3, <2>4, <2>5, <2>6 DEF VerifyEndpoint
<1>10. DeriveWirePlan(E) = {w}
  BY <1>1 DEF DeriveWirePlan, Only
<1>11. Verify(a)
  BY <1>1, <1>2, <1>4, <1>7, <1>9, <1>10 DEF Verify
<1>12. ASSUME NEW p \in Elements(E), NEW q \in Elements(E), NEW s \in Elements(p.states)
       PROVE  \E t \in Elements(q.states) :
                /\ s.id = t.id
                /\ WireOperations(p.role, s.body) = WireOperations(q.role, t.body)
  <2>1. PICK r \in c.roles : p = Project(c, r)
    BY <1>5
  <2>2. PICK v \in c.roles : q = Project(c, v)
    BY <1>5
  <2>3. PICK x \in DOMAIN c.states : s = [id |-> x, body |-> ProjectState(c.states[x], r)]
    BY <2>1, ProjectFacts
  <2> DEFINE t == [id |-> x, body |-> ProjectState(c.states[x], v)]
  <2>4. t \in Elements(q.states)
    BY <2>2, ProjectFacts
  <2>5. WireOperations(r, ProjectState(c.states[x], r))
          = WireOperations(v, ProjectState(c.states[x], v))
    BY <1>8, ProjectedOperations
  <2>6. p.role = r /\ q.role = v
    BY <2>1, <2>2, ProjectFacts
  <2> QED BY <2>3, <2>4, <2>5, <2>6
<1>13. Dual(a)
  BY <1>1, <1>12 DEF Dual
<1> QED BY <1>11, <1>13

-----------------------------------------------------------------------------
(***************************************************************************)
(* One envelope between two sides.                                         *)
(***************************************************************************)
\* What a side has prepared it has verified, and it is the dictionary of its own
\* endpoints, read or derived.
TablesVerified ==
  \A s \in Side : table[s] # {} =>
    Verify(artifact[s]) /\ table[s] = DeriveWirePlan(artifact[s].endpoints)

\* The same dictionary on both sides.
Agreed == table["sender"] # {} /\ table["receiver"] = table["sender"]

\* How far an envelope has come says what the sides have agreed on, and each
\* encoding what is on the wire.
EnvelopeOK ==
  /\ phase = "load" => outgoing = {} /\ bytes = {} /\ incoming = {}
  /\ phase = "ready" => outgoing = {} /\ bytes = {} /\ incoming = {}
  /\ phase = "sent" => incoming = {}
  /\ (phase \in {"ready", "sent", "received"} \/ outgoing # {} \/ bytes # {}
        \/ incoming # {}) => Agreed
  /\ outgoing \subseteq Envelopes
  /\ \A e \in outgoing :
       bytes = IF encoding = "compact"
                 THEN UNION {EncodeCompact(w, e) : w \in table["sender"]}
                 ELSE EncodeReference(e)
  /\ \A d \in incoming : \E b \in bytes :
       IF encoding = "compact" THEN \E w \in table["receiver"] : d \in DecodeCompact(w, b)
       ELSE d \in DecodeReference(b)

CodecInv ==
  /\ artifact \in [Side -> Artifact]
  /\ table = [s \in Side |-> table[s]]
  /\ TablesVerified
  /\ EnvelopeOK

\* The invariant holds at the start.
LEMMA InitCodec == CodecInit => CodecInv
<1> SUFFICES ASSUME CodecInit PROVE CodecInv
  OBVIOUS
<1>1. TablesVerified
  BY DEF CodecInit, TablesVerified
<1>2. EnvelopeOK
  BY DEF CodecInit, EnvelopeOK
<1> QED BY <1>1, <1>2 DEF CodecInit, CodecInv

\* Every step keeps it.
LEMMA StepCodec == CodecInv /\ [CodecNext]_vars => CodecInv'
<1> SUFFICES ASSUME CodecInv, [CodecNext]_vars PROVE CodecInv'
  OBVIOUS
<1> USE DEF CodecInv
<1>1. ASSUME NEW s \in Side, Prepare(s) PROVE CodecInv'
  <2> USE <1>1 DEF Prepare
  <2>1. table' = [x \in Side |-> table'[x]]
    OBVIOUS
  <2>2. ASSUME Verify(artifact[s]), PreparedWire(artifact[s]) # {}
        PROVE  PreparedWire(artifact[s]) = DeriveWirePlan(artifact[s].endpoints)
    BY <2>2 DEF PreparedWire, Verify
  <2>3. TablesVerified'
    BY <2>2 DEF TablesVerified
  <2>4. EnvelopeOK'
    <3>1. /\ phase' \in {"load", "refused"}
          /\ outgoing' = {} /\ bytes' = {} /\ incoming' = {}
      BY DEF EnvelopeOK
    <3> QED BY <3>1 DEF EnvelopeOK
  <2> QED BY <2>1, <2>3, <2>4
<1>2. ASSUME Establish PROVE CodecInv'
  <2> USE <1>2 DEF Establish
  <2>1. TablesVerified'
    BY DEF TablesVerified
  <2>2. ASSUME artifact["sender"].plan_identity = artifact["receiver"].plan_identity
        PROVE  Agreed'
    <3>1. \A s \in Side : /\ table[s] # {} /\ Verify(artifact[s])
                          /\ table[s] = DeriveWirePlan(artifact[s].endpoints)
      BY DEF TablesVerified
    <3>2. \A s \in Side :
            artifact[s].plan_identity = <<artifact[s].endpoints, artifact[s].wire>>
      BY <3>1 DEF Verify, CalculateIdentity
    <3>3. artifact["sender"].endpoints = artifact["receiver"].endpoints
      BY <2>2, <3>2 DEF Side
    <3> QED BY <3>1, <3>3 DEF Agreed, Side
  <2>3. EnvelopeOK'
    <3>1. /\ phase' \in {"ready", "refused"} /\ (phase' = "ready" => Agreed')
          /\ outgoing' = {} /\ bytes' = {} /\ incoming' = {}
      BY <2>2 DEF EnvelopeOK
    <3> QED BY <3>1 DEF EnvelopeOK
  <2> QED BY <2>1, <2>3
<1>3. ASSUME NEW e \in Envelopes, Encode(e) PROVE CodecInv'
  <2> USE <1>3 DEF Encode
  <2>1. TablesVerified'
    BY DEF TablesVerified
  <2>2. /\ Agreed' /\ outgoing' = {e} /\ incoming' = {}
        /\ phase' \in {"refused", "sent"}
        /\ bytes' = IF encoding' = "compact"
                      THEN UNION {EncodeCompact(w, e) : w \in table'["sender"]}
                      ELSE EncodeReference(e)
    BY DEF EnvelopeOK, Agreed
  <2>3. EnvelopeOK'
    BY <2>2 DEF EnvelopeOK
  <2> QED BY <2>1, <2>3
<1>4. ASSUME NEW t \in 0..MaxId, NEW payload \in Payload, Foreign(t, payload) PROVE CodecInv'
  <2> USE <1>4 DEF Foreign
  <2>1. TablesVerified'
    BY DEF TablesVerified
  <2>2. /\ Agreed' /\ outgoing' = {} /\ incoming' = {} /\ phase' = "sent"
    BY DEF EnvelopeOK, Agreed
  <2>3. EnvelopeOK'
    BY <2>2 DEF EnvelopeOK
  <2> QED BY <2>1, <2>3
<1>5. ASSUME Decode PROVE CodecInv'
  <2> USE <1>5 DEF Decode
  <2>1. TablesVerified'
    BY DEF TablesVerified
  <2>2. /\ Agreed'
        /\ outgoing' = outgoing /\ bytes' = bytes /\ table' = table
        /\ encoding' = encoding
    BY DEF EnvelopeOK, Agreed
  <2>5. phase' \in {"received", "refused"}
    <3>1. incoming' = {} => phase' = "refused"
      OBVIOUS
    <3>2. incoming' # {} => phase' = "received"
      OBVIOUS
    <3> QED BY <3>1, <3>2
  <2>3. ASSUME NEW d \in incoming'
        PROVE  \E b \in bytes :
                 IF encoding = "compact"
                 THEN \E w \in table["receiver"] : d \in DecodeCompact(w, b)
                 ELSE d \in DecodeReference(b)
    <3>1. CASE encoding = "compact"
      <4>1. d \in UNION {DecodeCompact(w, b) : w \in table["receiver"], b \in bytes}
        BY <2>3, <3>1
      <4> QED BY <3>1, <4>1
    <3>2. CASE encoding # "compact"
      <4>1. d \in UNION {DecodeReference(b) : b \in bytes}
        BY <2>3, <3>2
      <4> QED BY <3>2, <4>1
    <3> QED BY <3>1, <3>2
  <2>4. EnvelopeOK'
    BY <2>2, <2>3, <2>5 DEF EnvelopeOK
  <2> QED BY <2>1, <2>4
<1>6. CASE UNCHANGED vars
  BY <1>6 DEF vars, TablesVerified, EnvelopeOK, Agreed
<1> QED BY <1>1, <1>2, <1>3, <1>4, <1>5, <1>6 DEF CodecNext

\* What both sides hold fits together in every state: the inductive invariant.
THEOREM CodecInvariance == CodecSpec => []CodecInv
<1> QED BY InitCodec, StepCodec, PTL DEF CodecSpec

\* The dictionary two sides have agreed on, and whose it is.
LEMMA AgreedFacts ==
  ASSUME CodecInv, Agreed
  PROVE  /\ \A s \in Side : /\ artifact[s] \in Artifact /\ Verify(artifact[s])
                          /\ table[s] = DeriveWirePlan(artifact[s].endpoints)
         /\ \E w : \A s \in Side :
              w \in DeriveWirePlan(artifact[s].endpoints) /\ table[s] = {w}
<1>1. \A s \in Side : /\ artifact[s] \in Artifact /\ Verify(artifact[s]) /\ table[s] # {}
                     /\ table[s] = DeriveWirePlan(artifact[s].endpoints)
  BY DEF CodecInv, Agreed, TablesVerified, Side
<1>2. "sender" \in Side /\ \A s \in Side : table[s] = table["sender"]
  BY DEF Agreed, Side
<1>3. PICK w : w \in DeriveWirePlan(artifact["sender"].endpoints)
  BY <1>1, <1>2
<1>4. DeriveWirePlan(artifact["sender"].endpoints) = {w}
  BY <1>1, <1>2, <1>3, Dictionary
<1> QED BY <1>1, <1>2, <1>3, <1>4

\* What encode finds for an envelope is the number of its own transition.
LEMMA EncodedNumber ==
  ASSUME NEW a \in Artifact, NEW w \in DeriveWirePlan(a.endpoints), NEW e, NEW b,
         b \in EncodeCompact(w, e)
  PROVE  /\ e.conversation = "this" /\ b.q = e.sequence /\ b.p = e.payload
         /\ b.t \in DOMAIN w /\ w[b.t].state = e.state /\ w[b.t].operation = e.frame
<1> DEFINE found == {t \in Elements(w) : TransitionMatches(t, e)}
           t0 == CHOOSE t \in found : \A u \in found : t.id <= u.id
<1>1. /\ e.conversation = "this" /\ found # {}
      /\ b = [t |-> t0.id, q |-> e.sequence, p |-> e.payload]
  BY DEF EncodeCompact, Only
<1>2. PICK i \in DOMAIN w : w[i] \in found
  BY <1>1 DEF Elements
<1>3. \A u \in found : u = w[i]
  BY <1>2, Dictionary DEF Elements, TransitionMatches
<1>4. i \in Nat /\ w[i].id = i
  BY Dictionary
<1>5. \A u \in found : w[i].id <= u.id
  BY <1>3, <1>4
<1>6. t0 \in found
  <2> HIDE DEF found
  <2> QED BY <1>2, <1>5
<1>7. t0 = w[i]
  <2> HIDE DEF t0, found
  <2> QED BY <1>3, <1>6
<1>8. w[i].state = e.state /\ w[i].operation = e.frame
  BY <1>2 DEF TransitionMatches
<1> HIDE DEF t0, found
<1> QED BY <1>1, <1>4, <1>7, <1>8

\* Two sides that agree on the plan identity number the transitions alike, so the
\* receiver restores exactly the envelope that was sent.
THEOREM RestoredTheorem == CodecSpec => []RestoredExactly
<1>1. CodecInv => RestoredExactly
  <2> SUFFICES ASSUME CodecInv, NEW e \in outgoing, NEW d \in incoming, e.payload # "null"
               PROVE  d = e
    BY DEF RestoredExactly
  <2>1. /\ Agreed /\ e \in Envelopes
        /\ bytes = IF encoding = "compact"
                     THEN UNION {EncodeCompact(w, e) : w \in table["sender"]}
                     ELSE EncodeReference(e)
    BY DEF CodecInv, EnvelopeOK
  <2>2. PICK b \in bytes :
          IF encoding = "compact" THEN \E w \in table["receiver"] : d \in DecodeCompact(w, b)
          ELSE d \in DecodeReference(b)
    BY DEF CodecInv, EnvelopeOK
  <2>3. e = [conversation |-> e.conversation, state |-> e.state, sequence |-> e.sequence,
             frame |-> e.frame, payload |-> e.payload]
    BY <2>1 DEF Envelopes, Envelope
  <2>4. CASE encoding = "compact"
    <3>1. PICK w : \A s \in Side :
                     w \in DeriveWirePlan(artifact[s].endpoints) /\ table[s] = {w}
      BY <2>1, AgreedFacts
    <3>2. "sender" \in Side /\ "receiver" \in Side /\ artifact["sender"] \in Artifact
      BY <2>1, AgreedFacts DEF Side
    <3>3. b \in EncodeCompact(w, e)
      BY <2>1, <2>2, <2>4, <3>1, <3>2
    <3>4. d \in DecodeCompact(w, b)
      BY <2>2, <2>4, <3>1, <3>2
    <3>5. d = [conversation |-> "this", state |-> w[b.t].state, sequence |-> b.q,
               frame |-> w[b.t].operation, payload |-> ReadPayload(b.p)]
      BY <3>4 DEF DecodeCompact
    <3>6. /\ e.conversation = "this" /\ b.q = e.sequence /\ b.p = e.payload
          /\ w[b.t].state = e.state /\ w[b.t].operation = e.frame
      BY <3>1, <3>2, <3>3, EncodedNumber
    <3>7. ReadPayload(b.p) = e.payload
      BY <3>6 DEF ReadPayload
    <3> QED BY <2>3, <3>5, <3>6, <3>7
  <2>5. CASE encoding # "compact"
    <3>1. b = e
      BY <2>1, <2>2, <2>5 DEF EncodeReference, Only
    <3>2. d = [e EXCEPT !.payload = ReadPayload(@)]
      BY <2>2, <2>5, <3>1 DEF DecodeReference
    <3>3. ReadPayload(e.payload) = e.payload
      BY DEF ReadPayload
    <3> QED BY <2>3, <3>2, <3>3
  <2> QED BY <2>4, <2>5
<1> QED BY <1>1, CodecInvariance, PTL

\* A transition of a verified plan is one its machines emit or accept.
LEMMA TransitionsOfMachines ==
  ASSUME NEW a, NEW id, NEW f
  PROVE  /\ [state |-> id, operation |-> f] \in Transitions(a.endpoints) =>
              /\ Emittable(a, id, f) \/ Acceptable(a, id, f)
              /\ f.op \in {"data", "select", "cancel"}
         /\ f \in Frame /\ (Emittable(a, id, f) \/ Acceptable(a, id, f)) =>
              [state |-> id, operation |-> f] \in Transitions(a.endpoints)
<1>1. [state |-> id, operation |-> f] \in Transitions(a.endpoints)
        <=> \E p \in Elements(a.endpoints) : \E s \in Elements(p.states) :
              s.id = id /\ f \in WireOperations(p.role, s.body)
  BY TransitionFacts
<1>2. ASSUME [state |-> id, operation |-> f] \in Transitions(a.endpoints)
      PROVE  /\ Emittable(a, id, f) \/ Acceptable(a, id, f)
             /\ f.op \in {"data", "select", "cancel"}
  <2>0. PICK p \in Elements(a.endpoints) : \E s \in Elements(p.states) :
          s.id = id /\ f \in WireOperations(p.role, s.body)
    BY <1>1, <1>2
  <2>1. PICK s \in Elements(p.states) : s.id = id /\ f \in WireOperations(p.role, s.body)
    BY <2>0
  <2>2. /\ s.body.kind \in Emitting \/ AcceptTarget(s.body, p.role, f) # {}
        /\ f.op \in {"data", "select", "cancel"}
    BY <2>1, OperationsOfMachine
  <2> QED BY <2>1, <2>2 DEF Emittable, Acceptable
<1>3. ASSUME f \in Frame, Emittable(a, id, f) \/ Acceptable(a, id, f)
      PROVE  [state |-> id, operation |-> f] \in Transitions(a.endpoints)
  <2>1. CASE Emittable(a, id, f)
    BY <1>1, <2>1 DEF Emittable
  <2>2. CASE Acceptable(a, id, f)
    <3>0. PICK p \in Elements(a.endpoints) : \E s \in Elements(p.states) :
            s.id = id /\ AcceptTarget(s.body, p.role, f) # {}
      BY <2>2 DEF Acceptable
    <3>1. PICK s \in Elements(p.states) : s.id = id /\ AcceptTarget(s.body, p.role, f) # {}
      BY <3>0
    <3>2. f \in WireOperations(p.role, s.body)
      BY <1>3, <3>1, OperationsOfMachine
    <3> QED BY <1>1, <3>1, <3>2
  <2> QED BY <1>3, <2>1, <2>2
<1> QED BY <1>2, <1>3

\* Where the endpoints of a verified plan are dual, what one emits the other accepts.
LEMMA DualAccepts ==
  ASSUME NEW a, Verify(a), Dual(a), NEW id, NEW f, Emittable(a, id, f)
  PROVE  Acceptable(a, id, f)
<1>0. PICK p \in Elements(a.endpoints) : \E s \in Elements(p.states) :
        s.id = id /\ s.body.kind \in Emitting /\ f \in WireOperations(p.role, s.body)
  BY DEF Emittable
<1>1. PICK s \in Elements(p.states) :
        s.id = id /\ s.body.kind \in Emitting /\ f \in WireOperations(p.role, s.body)
  BY <1>0
<1>2. PICK q \in Elements(a.endpoints) : q.role # p.role
  <2> SUFFICES ASSUME \A q \in Elements(a.endpoints) : q.role = p.role PROVE FALSE
    OBVIOUS
  <2>1. {q.role : q \in Elements(a.endpoints)} = {p.role}
    OBVIOUS
  <2>2. Cardinality({p.role}) = 1
    BY FS_Singleton
  <2> QED BY <2>1, <2>2 DEF Verify
<1>3. PICK t \in Elements(q.states) :
        s.id = t.id /\ WireOperations(p.role, s.body) = WireOperations(q.role, t.body)
  BY DEF Dual
<1>4. f \in WireOperations(q.role, t.body)
  BY <1>1, <1>3
<1>5. \/ f.op = "data" /\ f.from = p.role
      \/ f.op = "select" /\ f.by = p.role
      \/ f.op = "cancel" /\ f.from = p.role
  BY <1>1 DEF Emitting, WireOperations, DataFrame, SelectFrame, CancelFrame
<1>6. t.body.kind \in Emitting =>
        \/ f.op = "data" /\ f.from = q.role
        \/ f.op = "select" /\ f.by = q.role
        \/ f.op = "cancel" /\ f.from = q.role
  BY <1>4 DEF Emitting, WireOperations, DataFrame, SelectFrame, CancelFrame
<1>7. t.body.kind \notin Emitting
  BY <1>2, <1>5, <1>6
<1>8. AcceptTarget(t.body, q.role, f) # {}
  BY <1>4, <1>7, OperationsOfMachine
<1> QED BY <1>1, <1>3, <1>8 DEF Acceptable

\* The compact encoding has a number for every frame the plan permits at a state and
\* for nothing else, and whatever bytes a peer makes up decode to such a frame or to
\* nothing.
THEOREM CompactTheorem == CodecSpec => []CompactIsTheProtocol
<1>1. CodecInv => EncodesTheProtocol
  <2> SUFFICES ASSUME CodecInv, encoding = "compact", NEW e \in outgoing
               PROVE  bytes # {} <=>
                        /\ e.conversation = "this"
                        /\ \/ Emittable(artifact["sender"], e.state, e.frame)
                           \/ Acceptable(artifact["sender"], e.state, e.frame)
    BY DEF EncodesTheProtocol
  <2> DEFINE a == artifact["sender"]
             Known == [state |-> e.state, operation |-> e.frame] \in Transitions(a.endpoints)
  <2>1. /\ Agreed /\ e \in Envelopes
        /\ bytes = UNION {EncodeCompact(w, e) : w \in table["sender"]}
    BY DEF CodecInv, EnvelopeOK
  <2>2. PICK w : w \in DeriveWirePlan(a.endpoints) /\ table["sender"] = {w}
    BY <2>1, AgreedFacts DEF Side
  <2>3. a \in Artifact
    BY <2>1, AgreedFacts DEF Side
  <2>4. e.frame \in Frame
    BY <2>1 DEF Envelopes, Envelope
  <2>5. bytes = EncodeCompact(w, e)
    BY <2>1, <2>2
  <2> DEFINE found == {t \in Elements(w) : TransitionMatches(t, e)}
  <2>6. bytes # {} <=> e.conversation = "this" /\ found # {} /\ e.frame.op # "fault"
    BY <2>5 DEF EncodeCompact, Only
  <2>7. found # {} <=> Known
    <3>1. ASSUME found # {} PROVE Known
      <4>1. PICK i \in DOMAIN w : w[i].state = e.state /\ w[i].operation = e.frame
        BY <3>1 DEF Elements, TransitionMatches
      <4> QED BY <2>2, <2>3, <4>1, Dictionary
    <3>2. ASSUME Known PROVE found # {}
      <4>1. PICK i \in DOMAIN w : w[i].state = e.state /\ w[i].operation = e.frame
        BY <2>2, <2>3, <3>2, Dictionary
      <4> QED BY <4>1 DEF Elements, TransitionMatches
    <3> QED BY <3>1, <3>2
  <2>8. /\ Known => /\ \/ Emittable(a, e.state, e.frame)
                       \/ Acceptable(a, e.state, e.frame)
                    /\ e.frame.op # "fault"
        /\ Emittable(a, e.state, e.frame) \/ Acceptable(a, e.state, e.frame) => Known
    BY <2>4, TransitionsOfMachines
  <2> HIDE DEF found, Known
  <2> QED BY <2>6, <2>7, <2>8
<1>2. CodecInv => DecodesTheProtocol
  <2> SUFFICES ASSUME CodecInv, encoding = "compact", NEW d \in incoming
               PROVE  /\ d.frame.op # "data" => d.payload = "none"
                      /\ \/ Acceptable(artifact["receiver"], d.state, d.frame)
                         \/ /\ ~Dual(artifact["receiver"])
                            /\ Emittable(artifact["receiver"], d.state, d.frame)
    BY DEF DecodesTheProtocol
  <2> DEFINE a == artifact["receiver"]
  <2>1. Agreed
    BY DEF CodecInv, EnvelopeOK
  <2>2. PICK w : w \in DeriveWirePlan(a.endpoints) /\ table["receiver"] = {w}
    BY <2>1, AgreedFacts DEF Side
  <2>3. a \in Artifact /\ Verify(a)
    BY <2>1, AgreedFacts DEF Side
  <2>4. PICK b \in bytes : d \in DecodeCompact(w, b)
    BY <2>2 DEF CodecInv, EnvelopeOK
  <2>5. /\ d.state = w[b.t].state /\ d.frame = w[b.t].operation
        /\ d.payload = ReadPayload(b.p) /\ b.t \in DOMAIN w
        /\ ~RejectControlPayload(w[b.t].operation, b.p)
    BY <2>4 DEF DecodeCompact
  <2>6. [state |-> d.state, operation |-> d.frame] \in Transitions(a.endpoints)
    BY <2>2, <2>3, <2>5, Dictionary
  <2>7. /\ Emittable(a, d.state, d.frame) \/ Acceptable(a, d.state, d.frame)
        /\ d.frame.op \in {"data", "select", "cancel"}
    BY <2>6, TransitionsOfMachines
  <2>8. d.frame.op # "data" => d.payload = "none"
    BY <2>5, <2>7 DEF RejectControlPayload
  <2>9. Dual(a) /\ Emittable(a, d.state, d.frame) => Acceptable(a, d.state, d.frame)
    BY <2>3, DualAccepts
  <2> QED BY <2>7, <2>8, <2>9
<1>3. CodecInv => CompactIsTheProtocol
  BY <1>1, <1>2 DEF CompactIsTheProtocol
<1> QED BY <1>3, CodecInvariance, PTL

=============================================================================
