--------------------------- MODULE PrefaceProofs ---------------------------
(***************************************************************************)
(* Proofs about Preface, for every transport, every pair of setups and any *)
(* number of frames.                                                       *)
(*                                                                         *)
(* The argument is about what is still unread on a stream.  A side writes  *)
(* frames (where no session is asked for), its preface, one verdict, and   *)
(* frames again if the verdict was an acceptance.  How much of that its    *)
(* reader has taken follows from the reader's phase.                       *)
(***************************************************************************)
EXTENDS Preface, TLAPS

-----------------------------------------------------------------------------
(***************************************************************************)
(* The inductive invariant.                                                *)
(***************************************************************************)
Verdict == {"accepted", "rejected"}

Thing ==
  {Item("frame"), Item("accepted"), Item("rejected")} \cup {SessionPreface(s) : s \in Side}

\* Unread before the reader has taken the preface x.
Talk(q, x) ==
  /\ \A i \in 1..Len(q) : q[i].item = "preface" => q[i] = x
  /\ \A i, j \in 1..Len(q) : i < j /\ q[j].item = "preface" => q[i].item = "frame"
  /\ \A i \in 1..Len(q) : q[i].item \in Verdict => i > 1 /\ q[i - 1].item = "preface"
  /\ \A i, j \in 1..Len(q) : i < j /\ q[i].item \in Verdict => q[j].item = "frame"
  /\ \A i \in 1..Len(q) : q[i].item = "preface" /\ i < Len(q) => q[i + 1].item \in Verdict

\* Unread after the preface and before the verdict.
Answer(q) ==
  /\ q # <<>> => q[1].item \in Verdict
  /\ \A i \in 1..Len(q) : i > 1 => q[i].item = "frame"

\* Unread once both have been taken.
Frames(q) == \A i \in 1..Len(q) : q[i].item = "frame"

Shows(q, name) == \E i \in 1..Len(q) : q[i].item = name

PrefaceTypeOK ==
  /\ kind \in Kind
  /\ setup \in [Side -> Setup]
  /\ phase \in [Side -> {"idle", "preface", "verdict", "established", "failed"}]
  /\ established \in [Side -> BOOLEAN]
  /\ stream \in [Side -> Seq(Thing)]
  /\ open \in [Side -> BOOLEAN]
  /\ sent \in [Side -> Nat]
  /\ got \in [Side -> Nat]
  /\ reason \in [Side -> {"none", "refused", "mismatch", "rejected", "lost",
                          "session_required", "garbled"}]

\* The fields of one side agree with each other.
PhaseOK(s) ==
  /\ open[s] <=> phase[s] # "failed"
  /\ reason[s] = "none" <=> phase[s] # "failed"
  /\ established[s] => phase[s] \in {"established", "failed"}
  /\ phase[s] = "established" => established[s]

\* What side o has written, as far as its reader is.
ShapeOK(o) ==
  LET q == stream[o]
      r == phase[Other(o)]
  IN  /\ r \in {"idle", "preface"} => Talk(q, SessionPreface(o))
      /\ r = "verdict" => Answer(q)
      /\ r = "established" => Frames(q)

\* What side o has written, as far as o is itself.
WriterOK(o) ==
  LET q == stream[o]
      r == phase[Other(o)]
  IN  /\ phase[o] = "idle" => Frames(q) /\ r \notin {"verdict", "established"}
      /\ phase[o] = "preface" =>
           /\ r # "established"
           /\ r \in {"idle", "preface"} => q # <<>> /\ q[Len(q)].item = "preface"
           /\ r = "verdict" => q = <<>>
      /\ phase[o] \in {"verdict", "established"} =>
           /\ r \in {"idle", "preface"} => \E j \in 1..Len(q) : j < Len(q) /\ q[j].item = "preface"
           /\ r = "verdict" => q # <<>>

\* A rejection is the last word of a side that found a mismatch; an acceptance
\* that is read, or still can be, comes from a side that keeps to it.
VerdictOK(o) ==
  /\ Shows(stream[o], "rejected") =>
       phase[o] = "failed" /\ ~established[o] /\ reason[o] = "mismatch"
  /\ (phase[Other(o)] # "failed" /\ Shows(stream[o], "accepted")) \/ established[Other(o)] =>
       phase[o] \in {"verdict", "established"} \/ reason[o] = "lost"

\* Side o has checked the preface of the other side.
Fit(o) ==
  LocalOK(o) /\ LocalOK(Other(o)) /\ VerifyPeer(o, SessionPreface(Other(o)))

FitOK(o) ==
  /\ phase[o] \in {"preface", "verdict", "established"} \/ established[o]
       \/ Shows(stream[o], "preface") => LocalOK(o)
  /\ phase[o] \in {"verdict", "established"} \/ established[o] \/ Shows(stream[o], "accepted")
       \/ established[Other(o)] => Fit(o)

\* Where sessions are insisted on, frames come after them.
InsistOK(o) ==
  Insisting =>
    /\ Shows(stream[o], "frame") => established[o]
    /\ phase[Other(o)] \in {"idle", "preface"} /\ stream[o] # <<>> =>
         stream[o][1].item = "preface"
    /\ reason[o] # "garbled"
    /\ got[o] > 0 => established[o] /\ established[Other(o)]
    /\ Compatible => reason[o] \notin {"refused", "mismatch", "rejected"}

PrefaceInv ==
  /\ PrefaceTypeOK
  /\ \A o \in Side : /\ PhaseOK(o) /\ ShapeOK(o) /\ WriterOK(o)
                     /\ VerdictOK(o) /\ FitOK(o) /\ InsistOK(o)

-----------------------------------------------------------------------------
(***************************************************************************)
(* Sequences: reading from the front, writing at the end, losing the end.  *)
(***************************************************************************)
\* Taking the head off.
LEMMA TailFacts ==
  ASSUME NEW T, NEW q \in Seq(T), q # <<>>
  PROVE  /\ Tail(q) \in Seq(T)
         /\ Len(Tail(q)) = Len(q) - 1 /\ Len(q) \in Nat /\ Len(q) > 0
         /\ \A i \in 1..Len(Tail(q)) : Tail(q)[i] = q[i + 1]
         /\ Head(q) = q[1] /\ 1 \in 1..Len(q)
OBVIOUS

\* Writing x.
LEMMA AppendFacts ==
  ASSUME NEW T, NEW q \in Seq(T), NEW x \in T
  PROVE  /\ Append(q, x) \in Seq(T) /\ Append(q, x) # <<>>
         /\ Len(Append(q, x)) = Len(q) + 1 /\ Len(q) \in Nat
         /\ \A i \in 1..Len(q) : Append(q, x)[i] = q[i]
         /\ Append(q, x)[Len(q) + 1] = x
OBVIOUS

\* Losing all but the first n.
LEMMA PrefixFacts ==
  ASSUME NEW T, NEW q \in Seq(T), NEW n \in 0..Len(q)
  PROVE  /\ SubSeq(q, 1, n) \in Seq(T)
         /\ Len(SubSeq(q, 1, n)) = n /\ Len(q) \in Nat
         /\ \A i \in 1..n : SubSeq(q, 1, n)[i] = q[i]
OBVIOUS

\* A prefix p of q has the shape of q.
LEMMA PrefixShape ==
  ASSUME NEW T, NEW q \in Seq(T), NEW p \in Seq(T), Len(p) <= Len(q),
         \A i \in 1..Len(p) : p[i] = q[i]
  PROVE  /\ \A x : Talk(q, x) => Talk(p, x)
         /\ Answer(q) => Answer(p)
         /\ Frames(q) => Frames(p)
         /\ \A name : Shows(p, name) => Shows(q, name)
         /\ p # <<>> => q # <<>> /\ p[1] = q[1]
<1>0. /\ Len(p) \in Nat /\ Len(q) \in Nat
      /\ p # <<>> <=> Len(p) > 0
      /\ q # <<>> <=> Len(q) > 0
  OBVIOUS
<1>1. ASSUME NEW x, Talk(q, x) PROVE Talk(p, x)
  <2>1. \A i \in 1..Len(p) : p[i] = q[i] /\ i \in 1..Len(q) /\ (i > 1 => i - 1 \in 1..Len(p))
    BY <1>0
  <2>2. \A i \in 1..Len(p) : i < Len(p) => i + 1 \in 1..Len(p) /\ i < Len(q)
    BY <1>0
  <2> QED BY <1>0, <1>1, <2>1, <2>2 DEF Talk
<1>2. Answer(q) => Answer(p)
  BY <1>0 DEF Answer
<1>3. (Frames(q) => Frames(p)) /\ \A name : Shows(p, name) => Shows(q, name)
  BY <1>0 DEF Frames, Shows
<1> QED BY <1>0, <1>1, <1>2, <1>3

\* What is left after a read, by what was read.
LEMMA ReadShape ==
  ASSUME NEW T, NEW q \in Seq(T), q # <<>>
  PROVE  /\ \A x : Talk(q, x) /\ q[1].item = "frame" => Talk(Tail(q), x)
         /\ \A x : Talk(q, x) /\ q[1].item = "preface" => Answer(Tail(q))
         /\ Answer(q) => Frames(Tail(q))
         /\ Frames(q) => Frames(Tail(q))
         /\ \A name : Shows(Tail(q), name) => Shows(q, name)
<1> DEFINE t == Tail(q)
<1>0. /\ t \in Seq(T) /\ Len(t) \in Nat /\ Len(q) = Len(t) + 1
      /\ \A i \in 1..Len(t) : t[i] = q[i + 1] /\ i + 1 \in 1..Len(q)
      /\ t # <<>> <=> Len(t) > 0
  <2>1. /\ t \in Seq(T) /\ Len(t) = Len(q) - 1 /\ Len(q) \in Nat /\ Len(q) > 0
        /\ \A i \in 1..Len(t) : t[i] = q[i + 1]
    BY TailFacts
  <2> HIDE DEF t
  <2>2. (t # <<>> <=> Len(t) > 0) /\ Len(t) \in Nat
    BY <2>1
  <2> QED BY <2>1, <2>2
<1> HIDE DEF t
<1>1. ASSUME NEW x, Talk(q, x), q[1].item = "frame" PROVE Talk(t, x)
  <2>1. \A i \in 1..Len(t) : t[i].item = "preface" => t[i] = x
    BY <1>0, <1>1 DEF Talk
  <2>2. \A i, j \in 1..Len(t) : i < j /\ t[j].item = "preface" => t[i].item = "frame"
    BY <1>0, <1>1 DEF Talk
  <2>3. \A i \in 1..Len(t) : t[i].item \in Verdict => i > 1 /\ t[i - 1].item = "preface"
    <3> SUFFICES ASSUME NEW i \in 1..Len(t), t[i].item \in Verdict
                 PROVE  i > 1 /\ t[i - 1].item = "preface"
      OBVIOUS
    <3>1. q[i].item = "preface"
      BY <1>0, <1>1 DEF Talk
    <3>2. i > 1
      BY <1>1, <3>1
    <3> QED BY <1>0, <3>1, <3>2
  <2>4. \A i, j \in 1..Len(t) : i < j /\ t[i].item \in Verdict => t[j].item = "frame"
    BY <1>0, <1>1 DEF Talk
  <2>5. \A i \in 1..Len(t) : t[i].item = "preface" /\ i < Len(t) => t[i + 1].item \in Verdict
    <3> SUFFICES ASSUME NEW i \in 1..Len(t), t[i].item = "preface", i < Len(t)
                 PROVE  t[i + 1].item \in Verdict
      OBVIOUS
    <3>1. q[(i + 1) + 1].item \in Verdict
      BY <1>0, <1>1 DEF Talk
    <3> QED BY <1>0, <3>1
  <2> QED BY <2>1, <2>2, <2>3, <2>4, <2>5 DEF Talk
<1>2. ASSUME NEW x, Talk(q, x), q[1].item = "preface" PROVE Answer(t)
  <2>1. t # <<>> => t[1].item \in Verdict
    BY <1>0, <1>2 DEF Talk
  <2>2. ASSUME NEW i \in 1..Len(t), i > 1 PROVE t[i].item = "frame"
    BY <1>0, <1>2, <2>1, <2>2 DEF Talk
  <2> QED BY <2>1, <2>2 DEF Answer
<1>3. (Answer(q) => Frames(t)) /\ (Frames(q) => Frames(t))
  BY <1>0 DEF Answer, Frames
<1>4. \A name : Shows(t, name) => Shows(q, name)
  BY <1>0 DEF Shows
<1> QED BY <1>1, <1>2, <1>3, <1>4 DEF t

\* What is there after a write, by what is written.
LEMMA WriteShape ==
  ASSUME NEW T, NEW q \in Seq(T), NEW y \in T
  PROVE  /\ Frames(q) /\ y.item = "frame" => Frames(Append(q, y))
         /\ \A x : Frames(q) /\ y.item = "frame" => Talk(Append(q, y), x)
         /\ Frames(q) /\ y.item = "preface" => Talk(Append(q, y), y)
         /\ \A x : Talk(q, x) /\ q # <<>> /\ q[Len(q)].item = "preface" /\ y.item \in Verdict
                  => Talk(Append(q, y), x)
         /\ \A x : Talk(q, x) /\ (\E j \in 1..Len(q) : j < Len(q) /\ q[j].item = "preface")
                     /\ y.item = "frame" => Talk(Append(q, y), x)
         /\ q = <<>> /\ y.item \in Verdict => Answer(Append(q, y))
         /\ q # <<>> /\ Answer(q) /\ y.item = "frame" => Answer(Append(q, y))
         /\ \A name : Shows(Append(q, y), name) => Shows(q, name) \/ y.item = name
<1> DEFINE t == Append(q, y)
           n == Len(q)
<1>0. /\ t \in Seq(T) /\ n \in Nat /\ Len(t) = n + 1
      /\ \A i \in 1..n : t[i] = q[i]
      /\ t[n + 1] = y /\ t # <<>>
      /\ q # <<>> <=> n > 0
  BY AppendFacts
<1>a. \A i \in 1..Len(t) : i \in 1..n \/ i = n + 1
  BY <1>0
<1>b. "frame" # "preface" /\ "frame" \notin Verdict /\ "preface" \notin Verdict
  BY DEF Verdict
<1> HIDE DEF t, n
<1>1. Frames(q) /\ y.item = "frame" => Frames(t)
  BY <1>0, <1>a DEF Frames, n
<1>2. ASSUME NEW x, Frames(q), y.item = "frame" PROVE Talk(t, x)
  BY <1>1, <1>2, <1>b DEF Frames, Talk
<1>3. ASSUME Frames(q), y.item = "preface" PROVE Talk(t, y)
  BY <1>0, <1>a, <1>b, <1>3 DEF Frames, Talk, n
<1>4. ASSUME NEW x, Talk(q, x), q # <<>>, q[n].item = "preface", y.item \in Verdict
      PROVE  Talk(t, x)
  BY <1>0, <1>a, <1>b, <1>4 DEF Talk, n
<1>5. ASSUME NEW x, Talk(q, x), NEW j \in 1..n, j < n, q[j].item = "preface",
             y.item = "frame"
      PROVE  Talk(t, x)
  <2>1. q[n].item # "preface"
    BY <1>0, <1>b, <1>5 DEF Talk, n
  <2>2. \A i \in 1..Len(t) : t[i].item = "preface" => t[i] = x
    BY <1>0, <1>a, <1>b, <1>5 DEF Talk, n
  <2>3. \A i, k \in 1..Len(t) : i < k /\ t[k].item = "preface" => t[i].item = "frame"
    BY <1>0, <1>a, <1>b, <1>5 DEF Talk, n
  <2>4. \A i \in 1..Len(t) : t[i].item \in Verdict => i > 1 /\ t[i - 1].item = "preface"
    BY <1>0, <1>a, <1>b, <1>5 DEF Talk, n
  <2>5. \A i, k \in 1..Len(t) : i < k /\ t[i].item \in Verdict => t[k].item = "frame"
    BY <1>0, <1>a, <1>b, <1>5 DEF Talk, n
  <2>6. \A i \in 1..Len(t) : t[i].item = "preface" /\ i < Len(t) => t[i + 1].item \in Verdict
    <3> SUFFICES ASSUME NEW i \in 1..Len(t), t[i].item = "preface", i < Len(t)
                 PROVE  t[i + 1].item \in Verdict
      OBVIOUS
    <3>1. i \in 1..n /\ i # n /\ i + 1 \in 1..n
      BY <1>0, <2>1
    <3>2. q[i + 1].item \in Verdict
      BY <1>0, <1>5, <3>1 DEF Talk, n
    <3> QED BY <1>0, <3>1, <3>2
  <2> QED BY <2>2, <2>3, <2>4, <2>5, <2>6 DEF Talk
<1>6. q = <<>> /\ y.item \in Verdict => Answer(t)
  BY <1>0, <1>a DEF Answer
<1>7. q # <<>> /\ Answer(q) /\ y.item = "frame" => Answer(t)
  BY <1>0, <1>a DEF Answer, n
<1>8. \A name : Shows(t, name) => Shows(q, name) \/ y.item = name
  BY <1>0, <1>a DEF Shows, n
<1> QED BY <1>1, <1>2, <1>3, <1>4, <1>5, <1>6, <1>7, <1>8 DEF t, n

-----------------------------------------------------------------------------
(***************************************************************************)
(* Sides and setups.                                                       *)
(***************************************************************************)
\* There are two sides, and each is the other's other.
LEMMA OtherFacts ==
  \A s \in Side : /\ Other(s) \in Side /\ Other(s) # s /\ Other(Other(s)) = s
                  /\ \A t \in Side : t = s \/ t = Other(s)
<1>1. Other("dialer") = "listener" /\ Other("listener") = "dialer"
  BY DEF Other, Side
<1> QED BY <1>1 DEF Side

\* What the items of a stream are.
LEMMA ThingFacts ==
  /\ Item("frame") \in Thing /\ Item("frame").item = "frame"
  /\ Item("accepted") \in Thing /\ Item("accepted").item = "accepted"
  /\ Item("rejected") \in Thing /\ Item("rejected").item = "rejected"
  /\ \A s \in Side : SessionPreface(s) \in Thing /\ SessionPreface(s).item = "preface"
  /\ \A x \in Thing : x.item \in {"frame", "preface", "accepted", "rejected"}
BY DEF Thing, Item, SessionPreface

\* Transport and setups never change, and what is said of them with them.
LEMMA SameSetup ==
  ASSUME kind' = kind, setup' = setup
  PROVE  /\ \A s \in Side : /\ SessionPreface(s)' = SessionPreface(s)
                            /\ LocalOK(s)' <=> LocalOK(s)
                            /\ Fit(s)' <=> Fit(s)
         /\ Thing' = Thing
         /\ Insisting' <=> Insisting
         /\ Compatible' <=> Compatible
<1>1. \A s : SessionPreface(s)' = SessionPreface(s)
  BY DEF SessionPreface, Binding
<1>2. \A s : LocalOK(s)' <=> LocalOK(s)
  BY DEF LocalOK
<1>3. \A s : Fit(s)' <=> Fit(s)
  BY <1>1, <1>2 DEF Fit, VerifyPeer
<1>4. Thing' = Thing
  BY <1>1 DEF Thing
<1>5. (Insisting' <=> Insisting) /\ (Compatible' <=> Compatible)
  BY <1>2 DEF Insisting, Compatible
<1> QED BY <1>1, <1>2, <1>3, <1>4, <1>5

\* Two sides that have checked each other's preface are compatible, and in
\* compatible setups each preface fits.
LEMMA FitMeansCompatible ==
  ASSUME NEW s \in Side
  PROVE  /\ Fit(s) /\ Fit(Other(s)) => Compatible
         /\ Compatible => Fits(s, SessionPreface(Other(s)))
         /\ Fits(s, SessionPreface(Other(s))) => VerifyPeer(s, SessionPreface(Other(s)))
<1>1. \A t \in Side : t = s \/ t = Other(s)
  BY OtherFacts
<1>2. Other(s) \in Side /\ Other(Other(s)) = s
  BY OtherFacts
<1>3. Fit(s) /\ Fit(Other(s)) => Compatible
  BY <1>1, <1>2 DEF Fit, VerifyPeer, SessionPreface, Compatible
<1>4. Compatible => Fits(s, SessionPreface(Other(s)))
  BY <1>2 DEF Compatible, Fits, VerifyIrohSessionPreface, VerifyPeer, SessionPreface, Binding
<1>5. Fits(s, SessionPreface(Other(s))) => VerifyPeer(s, SessionPreface(Other(s)))
  BY DEF Fits, VerifyIrohSessionPreface
<1> QED BY <1>3, <1>4, <1>5

-----------------------------------------------------------------------------
(***************************************************************************)
(* The invariant, one lemma for each thing a step can do.                  *)
(***************************************************************************)
\* Two sides that have just connected.
LEMMA PrefaceInitInv == PrefaceInit => PrefaceInv
<1> SUFFICES ASSUME PrefaceInit PROVE PrefaceInv
  OBVIOUS
<1>1. \A o \in Side : /\ phase[o] = "idle" /\ ~established[o] /\ stream[o] = <<>> /\ open[o]
                      /\ Len(stream[o]) = 0 /\ got[o] = 0 /\ reason[o] = "none"
  BY DEF PrefaceInit
<1>2. PrefaceTypeOK
  BY DEF PrefaceInit, PrefaceTypeOK
<1>3. \A o \in Side : PhaseOK(o) /\ ShapeOK(o) /\ WriterOK(o)
  BY <1>1, OtherFacts DEF PhaseOK, ShapeOK, WriterOK, Talk, Frames
<1>4. \A o \in Side : VerdictOK(o) /\ FitOK(o) /\ InsistOK(o)
  BY <1>1, OtherFacts DEF VerdictOK, FitOK, InsistOK, Shows
<1> QED BY <1>2, <1>3, <1>4 DEF PrefaceInv

\* What makes a side let go of its connection without having written anything
\* more, by the reason it gives.
Excuse(s, why) ==
  \/ why = "refused" /\ phase[s] = "idle" /\ ~LocalOK(s)
  \/ why = "session_required" /\ phase[s] = "idle"
  \/ why = "garbled" /\ phase[s] = "idle" /\ ~Insisting
  \/ /\ why = "rejected" /\ phase[s] = "verdict"
     /\ stream[Other(s)] # <<>> /\ stream[Other(s)][1].item # "accepted"
  \/ why = "lost" /\ phase[s] # "failed"

\* A side fails.
LEMMA FailInv ==
  ASSUME PrefaceInv, NEW s \in Side, NEW why, Excuse(s, why), Close(s, <<>>, why),
         UNCHANGED <<kind, setup, established, sent, got>>
  PROVE  PrefaceInv'
<1> DEFINE o == Other(s)
           q == stream[s]
           p == stream'[s]
<1>0. /\ PrefaceTypeOK /\ o \in Side /\ o # s /\ Other(o) = s
      /\ \A t \in Side : t = s \/ t = o
      /\ q \in Seq(Thing)
  BY OtherFacts DEF PrefaceInv, PrefaceTypeOK
<1>1. /\ PhaseOK(s) /\ ShapeOK(s) /\ WriterOK(s) /\ VerdictOK(s) /\ FitOK(s) /\ InsistOK(s)
      /\ PhaseOK(o) /\ ShapeOK(o) /\ WriterOK(o) /\ VerdictOK(o) /\ FitOK(o) /\ InsistOK(o)
  BY <1>0 DEF PrefaceInv
<1>2. PICK n \in 0..Len(q) : stream' = [stream EXCEPT ![s] = SubSeq(q, 1, n)]
  <2>1. q \o <<>> = q
    BY <1>0
  <2>2. \E n \in 0..Len(q \o <<>>) : stream' = [stream EXCEPT ![s] = SubSeq(q \o <<>>, 1, n)]
    BY DEF Close
  <2> QED BY <2>1, <2>2
<1>3. /\ p = SubSeq(q, 1, n) /\ stream'[o] = stream[o]
      /\ p \in Seq(Thing) /\ Len(p) <= Len(q) /\ \A i \in 1..Len(p) : p[i] = q[i]
  BY <1>0, <1>2, PrefixFacts DEF PrefaceTypeOK
<1>4. /\ \A x : Talk(q, x) => Talk(p, x)
      /\ (Answer(q) => Answer(p)) /\ (Frames(q) => Frames(p))
      /\ \A name : Shows(p, name) => Shows(q, name)
      /\ p # <<>> => q # <<>> /\ p[1] = q[1]
  BY <1>0, <1>3, PrefixShape
<1> HIDE DEF o, q, p
<1>5. /\ phase' = [phase EXCEPT ![s] = "failed"] /\ phase'[s] = "failed" /\ phase'[o] = phase[o]
      /\ reason'[s] = why /\ reason'[o] = reason[o]
      /\ open'[s] = FALSE /\ open'[o] = open[o]
      /\ established' = established /\ got' = got
      /\ phase[s] # "failed"
  BY <1>0 DEF Close, PrefaceTypeOK, Excuse
<1>6. /\ \A t \in Side : /\ SessionPreface(t)' = SessionPreface(t)
                         /\ (LocalOK(t)' <=> LocalOK(t)) /\ (Fit(t)' <=> Fit(t))
      /\ Thing' = Thing /\ (Insisting' <=> Insisting) /\ (Compatible' <=> Compatible)
  BY SameSetup
<1>7. why \in {"refused", "rejected", "lost", "session_required", "garbled"}
  BY DEF Excuse
<1>8. PrefaceTypeOK'
  <2>1. stream' \in [Side -> Seq(Thing)]
    BY <1>0, <1>2, <1>3 DEF PrefaceTypeOK, p
  <2> QED BY <1>0, <1>6, <1>7, <2>1 DEF PrefaceTypeOK, Close
<1>9. PhaseOK(s)' /\ PhaseOK(o)'
  BY <1>1, <1>5, <1>7 DEF PhaseOK
<1>10. ShapeOK(s)' /\ ShapeOK(o)'
  BY <1>0, <1>1, <1>3, <1>4, <1>5, <1>6 DEF ShapeOK, o, p, q
<1>11. WriterOK(s)' /\ WriterOK(o)'
  BY <1>0, <1>1, <1>3, <1>5 DEF WriterOK, o
\* The other side does not count on an answer of s: there is none, or it has itself
\* turned s down.
<1>12. why # "lost" => ~established[o] /\ ~(phase[o] # "failed" /\ Shows(q, "accepted"))
  <2>1. CASE phase[s] = "idle"
    BY <1>1, <2>1 DEF VerdictOK, PhaseOK, o, q
  <2>2. CASE phase[s] = "verdict" /\ why = "rejected"
    <3>1. stream[o] # <<>> /\ stream[o][1].item = "rejected"
      BY <1>0, <1>1, <2>2 DEF Excuse, ShapeOK, Answer, Verdict, o
    <3>2. 1 \in 1..Len(stream[o])
      BY <1>0, <3>1 DEF PrefaceTypeOK
    <3>3. Shows(stream[o], "rejected")
      BY <3>1, <3>2 DEF Shows
    <3> QED BY <1>1, <3>3 DEF VerdictOK
  <2> QED BY <2>1, <2>2 DEF Excuse
<1>13. VerdictOK(s)' /\ VerdictOK(o)'
  <2>1. ~Shows(q, "rejected")
    BY <1>1, <1>5 DEF VerdictOK, q
  <2>2. VerdictOK(s)'
    BY <1>3, <1>4, <1>5, <1>12, <2>1 DEF VerdictOK, o, p
  <2>3. VerdictOK(o)'
    BY <1>0, <1>1, <1>3, <1>5 DEF VerdictOK
  <2> QED BY <2>2, <2>3
<1>14. FitOK(s)' /\ FitOK(o)'
  <2>1. FitOK(s)'
    BY <1>1, <1>3, <1>4, <1>5, <1>6 DEF FitOK, o, p, q
  <2>2. FitOK(o)'
    BY <1>0, <1>1, <1>3, <1>5, <1>6 DEF FitOK
  <2> QED BY <2>1, <2>2
<1>15. InsistOK(s)' /\ InsistOK(o)'
  <2>1. Insisting => why # "garbled"
    BY DEF Excuse
  <2>2. Compatible => why # "refused"
    BY DEF Excuse, Compatible
  <2>3. Compatible /\ Insisting => why # "rejected"
    <3> SUFFICES ASSUME Compatible, Insisting, why = "rejected" PROVE FALSE
      OBVIOUS
    <3>1. stream[o] # <<>> /\ stream[o][1].item = "rejected"
      BY <1>0, <1>1 DEF Excuse, ShapeOK, Answer, Verdict, o
    <3>2. 1 \in 1..Len(stream[o])
      BY <1>0, <3>1 DEF PrefaceTypeOK
    <3>3. reason[o] = "mismatch"
      BY <1>1, <3>1, <3>2 DEF VerdictOK, Shows
    <3> QED BY <1>1, <3>3 DEF InsistOK
  <2>a. why # "mismatch"
    BY <1>7
  <2>4. InsistOK(s)'
    BY <1>1, <1>3, <1>4, <1>5, <1>6, <2>a, <2>1, <2>2, <2>3 DEF InsistOK, o, p, q
  <2>5. InsistOK(o)'
    BY <1>0, <1>1, <1>3, <1>5, <1>6 DEF InsistOK
  <2> QED BY <2>4, <2>5
<1> QED
  BY <1>0, <1>8, <1>9, <1>10, <1>11, <1>13, <1>14, <1>15 DEF PrefaceInv, o

\* Side s sends its preface.
LEMMA BeginInv ==
  ASSUME PrefaceInv, NEW s \in Side, phase[s] = "idle", LocalOK(s),
         phase' = [phase EXCEPT ![s] = "preface"], Write(s, SessionPreface(s)),
         UNCHANGED <<kind, setup, established, open, sent, got, reason>>
  PROVE  PrefaceInv'
<1> DEFINE o == Other(s)
           q == stream[s]
           d == stream[o]
<1>0. /\ PrefaceTypeOK /\ o \in Side /\ o # s /\ Other(o) = s
      /\ \A t \in Side : t = s \/ t = o
      /\ q \in Seq(Thing) /\ d \in Seq(Thing)
  BY OtherFacts DEF PrefaceInv, PrefaceTypeOK
<1>1. /\ PhaseOK(s) /\ ShapeOK(s) /\ WriterOK(s) /\ VerdictOK(s) /\ FitOK(s) /\ InsistOK(s)
      /\ PhaseOK(o) /\ ShapeOK(o) /\ WriterOK(o) /\ VerdictOK(o) /\ FitOK(o) /\ InsistOK(o)
  BY <1>0 DEF PrefaceInv
<1>2. /\ \A t \in Side : /\ SessionPreface(t)' = SessionPreface(t)
                         /\ (LocalOK(t)' <=> LocalOK(t)) /\ (Fit(t)' <=> Fit(t))
      /\ Thing' = Thing /\ (Insisting' <=> Insisting) /\ (Compatible' <=> Compatible)
  BY SameSetup
<1> DEFINE y == SessionPreface(s)
           p == stream'[s]
<1>3. /\ y \in Thing /\ y.item = "preface"
      /\ \A x \in Thing : x.item \in {"frame", "preface", "accepted", "rejected"}
  BY ThingFacts
<1>4. /\ p = Append(q, y) /\ stream'[o] = d
      /\ stream' \in [Side -> Seq(Thing)]
  BY <1>0, <1>3, AppendFacts DEF Write, PrefaceTypeOK
<1>5. /\ Frames(q) => Talk(p, y)
      /\ \A name : Shows(p, name) => Shows(q, name) \/ y.item = name
  BY <1>0, <1>3, <1>4, WriteShape
<1>6. p # <<>> /\ p[Len(p)] = y /\ (q = <<>> => p[1] = y)
  <2>1. /\ Append(q, y) # <<>> /\ Len(Append(q, y)) = Len(q) + 1 /\ Len(q) \in Nat
        /\ Append(q, y)[Len(q) + 1] = y
    BY <1>0, <1>3, AppendFacts
  <2> QED BY <1>4, <2>1
<1> HIDE DEF o, q, d, p, y
<1>7. /\ phase'[s] = "preface" /\ phase'[o] = phase[o]
      /\ established' = established /\ got' = got /\ reason' = reason /\ open' = open
  BY <1>0 DEF PrefaceTypeOK
<1>8. Frames(q) /\ phase[o] \notin {"verdict", "established"} /\ ~established[s]
  BY <1>1 DEF WriterOK, PhaseOK, o, q
<1>9. PrefaceTypeOK'
  BY <1>0, <1>2, <1>4 DEF PrefaceTypeOK
<1>10. PhaseOK(s)' /\ PhaseOK(o)'
  BY <1>1, <1>7 DEF PhaseOK
<1>11. ShapeOK(s)' /\ ShapeOK(o)'
  <2>1. ShapeOK(s)'
    BY <1>0, <1>2, <1>5, <1>7, <1>8 DEF ShapeOK, o, p, y
  <2>2. ShapeOK(o)'
    BY <1>0, <1>1, <1>2, <1>4, <1>7 DEF ShapeOK, d
  <2> QED BY <2>1, <2>2
<1>12. WriterOK(s)' /\ WriterOK(o)'
  <2>1. WriterOK(s)'
    BY <1>3, <1>6, <1>7, <1>8 DEF WriterOK, o, p
  <2>2. WriterOK(o)'
    BY <1>0, <1>1, <1>4, <1>7 DEF WriterOK, d
  <2> QED BY <2>1, <2>2
<1>13. VerdictOK(s)' /\ VerdictOK(o)'
  <2>1. VerdictOK(s)'
    BY <1>1, <1>3, <1>5, <1>7 DEF VerdictOK, PhaseOK, o, p, q
  <2>2. VerdictOK(o)'
    BY <1>0, <1>1, <1>4, <1>7 DEF VerdictOK, d
  <2> QED BY <2>1, <2>2
<1>14. FitOK(s)' /\ FitOK(o)'
  <2>1. FitOK(s)'
    BY <1>1, <1>2, <1>3, <1>5, <1>7 DEF FitOK, o, p, q
  <2>2. FitOK(o)'
    BY <1>0, <1>1, <1>2, <1>4, <1>7 DEF FitOK, d
  <2> QED BY <2>1, <2>2
<1>15. InsistOK(s)' /\ InsistOK(o)'
  <2>1. Insisting => q = <<>>
    <3> SUFFICES ASSUME Insisting, q # <<>> PROVE FALSE
      OBVIOUS
    <3>1. 1 \in 1..Len(q)
      BY <1>0
    <3>2. Shows(q, "frame")
      BY <1>8, <3>1 DEF Frames, Shows
    <3> QED BY <1>1, <1>8, <3>2 DEF InsistOK, q
  <2>2. InsistOK(s)'
    BY <1>1, <1>2, <1>3, <1>5, <1>6, <1>7, <2>1 DEF InsistOK, o, p, q
  <2>3. InsistOK(o)'
    BY <1>0, <1>1, <1>2, <1>4, <1>7 DEF InsistOK, d
  <2> QED BY <2>2, <2>3
<1> QED
  BY <1>0, <1>9, <1>10, <1>11, <1>12, <1>13, <1>14, <1>15 DEF PrefaceInv, o

\* Side s sends a frame, before its session or in it.
LEMMA SendInv ==
  ASSUME PrefaceInv, NEW s \in Side, Outside(s), ~SessionRequired(s),
         Write(s, Item("frame")), sent' = [sent EXCEPT ![s] = @ + 1],
         UNCHANGED <<kind, setup, phase, established, open, got, reason>>
  PROVE  PrefaceInv'
<1> DEFINE o == Other(s)
           q == stream[s]
           d == stream[o]
<1>0. /\ PrefaceTypeOK /\ o \in Side /\ o # s /\ Other(o) = s
      /\ \A t \in Side : t = s \/ t = o
      /\ q \in Seq(Thing) /\ d \in Seq(Thing)
  BY OtherFacts DEF PrefaceInv, PrefaceTypeOK
<1>1. /\ PhaseOK(s) /\ ShapeOK(s) /\ WriterOK(s) /\ VerdictOK(s) /\ FitOK(s) /\ InsistOK(s)
      /\ PhaseOK(o) /\ ShapeOK(o) /\ WriterOK(o) /\ VerdictOK(o) /\ FitOK(o) /\ InsistOK(o)
  BY <1>0 DEF PrefaceInv
<1>2. /\ \A t \in Side : /\ SessionPreface(t)' = SessionPreface(t)
                         /\ (LocalOK(t)' <=> LocalOK(t)) /\ (Fit(t)' <=> Fit(t))
      /\ Thing' = Thing /\ (Insisting' <=> Insisting) /\ (Compatible' <=> Compatible)
  BY SameSetup
<1> DEFINE y == Item("frame")
           p == stream'[s]
<1>3. y \in Thing /\ y.item = "frame"
  BY ThingFacts
<1>4. /\ p = Append(q, y) /\ stream'[o] = d
      /\ stream' \in [Side -> Seq(Thing)]
  BY <1>0, <1>3, AppendFacts DEF Write, PrefaceTypeOK
<1>5. /\ Frames(q) => Frames(p)
      /\ \A x : Frames(q) => Talk(p, x)
      /\ \A x : Talk(q, x) /\ (\E j \in 1..Len(q) : j < Len(q) /\ q[j].item = "preface")
               => Talk(p, x)
      /\ q # <<>> /\ Answer(q) => Answer(p)
      /\ \A name : Shows(p, name) => Shows(q, name) \/ name = "frame"
  BY <1>0, <1>3, <1>4, WriteShape
<1>6. /\ p # <<>> /\ Len(p) = Len(q) + 1 /\ Len(q) \in Nat
      /\ \A i \in 1..Len(q) : p[i] = q[i]
      /\ q # <<>> => 1 \in 1..Len(q)
  <2>1. /\ Append(q, y) # <<>> /\ Len(Append(q, y)) = Len(q) + 1 /\ Len(q) \in Nat
        /\ \A i \in 1..Len(q) : Append(q, y)[i] = q[i]
    BY <1>0, <1>3, AppendFacts
  <2>2. q # <<>> => 1 \in 1..Len(q)
    BY <1>0
  <2> QED BY <1>4, <2>1, <2>2
<1> HIDE DEF o, q, d, p, y
<1>7. /\ phase' = phase /\ (phase[s] = "idle" \/ phase[s] = "established")
      /\ established' = established /\ got' = got /\ reason' = reason /\ open' = open
  BY DEF Outside
<1>8. Insisting => phase[s] = "established" /\ established[s]
  BY <1>1, <1>7 DEF SessionRequired, Insisting, PhaseOK
<1>9. PrefaceTypeOK'
  <2>1. sent' \in [Side -> Nat]
    BY <1>0 DEF PrefaceTypeOK
  <2> QED BY <1>0, <1>2, <1>4, <2>1 DEF PrefaceTypeOK
<1>10. PhaseOK(s)' /\ PhaseOK(o)'
  BY <1>1, <1>7 DEF PhaseOK
<1>11. ShapeOK(s)' /\ ShapeOK(o)'
  <2>1. ShapeOK(s)'
    BY <1>1, <1>2, <1>5, <1>7 DEF ShapeOK, WriterOK, o, p, q
  <2>2. ShapeOK(o)'
    BY <1>0, <1>1, <1>2, <1>4, <1>7 DEF ShapeOK, d
  <2> QED BY <2>1, <2>2
<1>12. WriterOK(s)' /\ WriterOK(o)'
  <2>1. (\E j \in 1..Len(q) : j < Len(q) /\ q[j].item = "preface") =>
           \E j \in 1..Len(p) : j < Len(p) /\ p[j].item = "preface"
    BY <1>6
  <2>2. WriterOK(s)'
    BY <1>1, <1>5, <1>6, <1>7, <2>1 DEF WriterOK, o, p, q
  <2>3. WriterOK(o)'
    BY <1>0, <1>1, <1>4, <1>7 DEF WriterOK, d
  <2> QED BY <2>2, <2>3
<1>13. VerdictOK(s)' /\ VerdictOK(o)'
  <2>1. VerdictOK(s)'
    BY <1>1, <1>5, <1>7 DEF VerdictOK, o, p, q
  <2>2. VerdictOK(o)'
    BY <1>0, <1>1, <1>4, <1>7 DEF VerdictOK, d
  <2> QED BY <2>1, <2>2
<1>14. FitOK(s)' /\ FitOK(o)'
  <2>1. FitOK(s)'
    BY <1>1, <1>2, <1>5, <1>7 DEF FitOK, o, p, q
  <2>2. FitOK(o)'
    BY <1>0, <1>1, <1>2, <1>4, <1>7 DEF FitOK, d
  <2> QED BY <2>1, <2>2
<1>15. InsistOK(s)' /\ InsistOK(o)'
  <2>1. phase[s] = "established" /\ phase[o] \in {"idle", "preface"} => q # <<>> /\ p[1] = q[1]
    BY <1>1, <1>6 DEF WriterOK, o, q
  <2>2. InsistOK(s)'
    BY <1>1, <1>2, <1>7, <1>8, <2>1 DEF InsistOK, o, p, q
  <2>3. InsistOK(o)'
    BY <1>0, <1>1, <1>2, <1>4, <1>7 DEF InsistOK, d
  <2> QED BY <2>2, <2>3
<1> QED
  BY <1>0, <1>9, <1>10, <1>11, <1>12, <1>13, <1>14, <1>15 DEF PrefaceInv, o

\* Side s takes a frame, before its session or in it.
LEMMA ReceiveInv ==
  ASSUME PrefaceInv, NEW s \in Side, Outside(s), ~SessionRequired(s),
         Readable(s), Incoming(s).item = "frame", TakeAnd(s, stream),
         got' = [got EXCEPT ![s] = @ + 1],
         UNCHANGED <<kind, setup, phase, established, open, sent, reason>>
  PROVE  PrefaceInv'
<1> DEFINE o == Other(s)
           q == stream[s]
           d == stream[o]
<1>0. /\ PrefaceTypeOK /\ o \in Side /\ o # s /\ Other(o) = s
      /\ \A t \in Side : t = s \/ t = o
      /\ q \in Seq(Thing) /\ d \in Seq(Thing)
  BY OtherFacts DEF PrefaceInv, PrefaceTypeOK
<1>1. /\ PhaseOK(s) /\ ShapeOK(s) /\ WriterOK(s) /\ VerdictOK(s) /\ FitOK(s) /\ InsistOK(s)
      /\ PhaseOK(o) /\ ShapeOK(o) /\ WriterOK(o) /\ VerdictOK(o) /\ FitOK(o) /\ InsistOK(o)
  BY <1>0 DEF PrefaceInv
<1>2. /\ \A t \in Side : /\ SessionPreface(t)' = SessionPreface(t)
                         /\ (LocalOK(t)' <=> LocalOK(t)) /\ (Fit(t)' <=> Fit(t))
      /\ Thing' = Thing /\ (Insisting' <=> Insisting) /\ (Compatible' <=> Compatible)
  BY SameSetup
<1> DEFINE e == stream'[o]
<1>3. /\ d # <<>> /\ e = Tail(d) /\ d[1].item = "frame" /\ stream'[s] = q
      /\ e \in Seq(Thing) /\ 1 \in 1..Len(d)
      /\ Len(e) = Len(d) - 1 /\ Len(d) \in Nat
      /\ \A i \in 1..Len(e) : e[i] = d[i + 1]
  <2>1. d # <<>> /\ e = Tail(d)
    BY <1>0 DEF Readable, TakeAnd, PrefaceTypeOK
  <2> QED BY <1>0, <2>1, TailFacts DEF Incoming, TakeAnd, PrefaceTypeOK
<1>4. /\ \A x : Talk(d, x) /\ d[1].item = "frame" => Talk(e, x)
      /\ \A x : Talk(d, x) /\ d[1].item = "preface" => Answer(e)
      /\ Answer(d) => Frames(e)
      /\ Frames(d) => Frames(e)
      /\ \A name : Shows(e, name) => Shows(d, name)
  BY <1>0, <1>3, ReadShape
<1>5. Shows(d, d[1].item)
  BY <1>3 DEF Shows
<1> HIDE DEF o, q, d, e
<1>7. /\ phase' = phase /\ (phase[s] = "idle" \/ phase[s] = "established")
      /\ established' = established /\ reason' = reason /\ open' = open
      /\ got'[o] = got[o]
  BY <1>0 DEF Outside, PrefaceTypeOK
<1>8. Insisting => phase[s] = "established" /\ established[s] /\ established[o]
  BY <1>1, <1>3, <1>5, <1>7 DEF SessionRequired, Insisting, PhaseOK, InsistOK, d
<1>9. PrefaceTypeOK'
  <2>1. got' \in [Side -> Nat]
    BY <1>0 DEF PrefaceTypeOK
  <2>2. stream' \in [Side -> Seq(Thing)]
    BY <1>0, <1>3 DEF PrefaceTypeOK, TakeAnd, o, e
  <2> QED BY <1>0, <1>2, <2>1, <2>2 DEF PrefaceTypeOK
<1>10. PhaseOK(s)' /\ PhaseOK(o)'
  BY <1>1, <1>7 DEF PhaseOK
<1>11. ShapeOK(s)' /\ ShapeOK(o)'
  <2>1. ShapeOK(s)'
    BY <1>1, <1>2, <1>3, <1>7 DEF ShapeOK, o, q
  <2>2. ShapeOK(o)'
    BY <1>0, <1>1, <1>2, <1>3, <1>4, <1>7 DEF ShapeOK, d, e
  <2> QED BY <2>1, <2>2
<1>12. WriterOK(s)' /\ WriterOK(o)'
  <2>1. WriterOK(s)'
    BY <1>1, <1>3, <1>7 DEF WriterOK, o, q
  <2>2. phase[o] = "preface" /\ phase[s] = "idle" => e # <<>> /\ e[Len(e)].item = "preface"
    <3> SUFFICES ASSUME phase[o] = "preface", phase[s] = "idle"
                 PROVE  e # <<>> /\ e[Len(e)].item = "preface"
      OBVIOUS
    <3>1. d[Len(d)].item = "preface"
      BY <1>0, <1>1 DEF WriterOK, d
    <3>2. Len(d) # 1
      BY <1>3, <3>1
    <3>3. Len(e) \in 1..Len(e) /\ Len(e) + 1 = Len(d)
      BY <1>3, <3>2
    <3>4. e[Len(e)] = d[Len(d)]
      BY <1>3, <3>3
    <3>5. e # <<>>
      BY <3>3
    <3> QED BY <3>1, <3>4, <3>5
  <2>3. phase[o] \in {"verdict", "established"} /\ phase[s] = "idle" =>
          \E j \in 1..Len(e) : j < Len(e) /\ e[j].item = "preface"
    <3> SUFFICES ASSUME phase[o] \in {"verdict", "established"}, phase[s] = "idle"
                 PROVE  \E j \in 1..Len(e) : j < Len(e) /\ e[j].item = "preface"
      OBVIOUS
    <3>1. PICK j \in 1..Len(d) : j < Len(d) /\ d[j].item = "preface"
      BY <1>0, <1>1 DEF WriterOK, d
    <3>2. j # 1
      BY <1>3, <3>1
    <3>3. j - 1 \in 1..Len(e) /\ j - 1 < Len(e) /\ e[j - 1] = d[j]
      BY <1>3, <3>1, <3>2
    <3> QED BY <3>1, <3>3
  <2>4. WriterOK(o)'
    BY <1>0, <1>1, <1>3, <1>4, <1>7, <2>2, <2>3 DEF WriterOK, d, e
  <2> QED BY <2>1, <2>4
<1>13. VerdictOK(s)' /\ VerdictOK(o)'
  <2>1. VerdictOK(s)'
    BY <1>1, <1>3, <1>7 DEF VerdictOK, o, q
  <2>2. VerdictOK(o)'
    BY <1>0, <1>1, <1>4, <1>7 DEF VerdictOK, d, e
  <2> QED BY <2>1, <2>2
<1>14. FitOK(s)' /\ FitOK(o)'
  <2>1. FitOK(s)'
    BY <1>1, <1>2, <1>3, <1>7 DEF FitOK, o, q
  <2>2. FitOK(o)'
    BY <1>0, <1>1, <1>2, <1>4, <1>7 DEF FitOK, d, e
  <2> QED BY <2>1, <2>2
<1>15. InsistOK(s)' /\ InsistOK(o)'
  <2>1. InsistOK(s)'
    BY <1>1, <1>2, <1>3, <1>7, <1>8 DEF InsistOK, o, q
  <2>2. InsistOK(o)'
    BY <1>0, <1>1, <1>2, <1>4, <1>7, <1>8 DEF InsistOK, d, e
  <2> QED BY <2>1, <2>2
<1> QED
  BY <1>0, <1>9, <1>10, <1>11, <1>12, <1>13, <1>14, <1>15 DEF PrefaceInv, o

\* Side s reads the acceptance it has been waiting for.
LEMMA VerdictInv ==
  ASSUME PrefaceInv, NEW s \in Side, phase[s] = "verdict",
         Readable(s), Incoming(s).item = "accepted", TakeAnd(s, stream),
         phase' = [phase EXCEPT ![s] = "established"],
         established' = [established EXCEPT ![s] = TRUE],
         UNCHANGED <<kind, setup, open, sent, got, reason>>
  PROVE  PrefaceInv'
<1> DEFINE o == Other(s)
           q == stream[s]
           d == stream[o]
<1>0. /\ PrefaceTypeOK /\ o \in Side /\ o # s /\ Other(o) = s
      /\ \A t \in Side : t = s \/ t = o
      /\ q \in Seq(Thing) /\ d \in Seq(Thing)
  BY OtherFacts DEF PrefaceInv, PrefaceTypeOK
<1>1. /\ PhaseOK(s) /\ ShapeOK(s) /\ WriterOK(s) /\ VerdictOK(s) /\ FitOK(s) /\ InsistOK(s)
      /\ PhaseOK(o) /\ ShapeOK(o) /\ WriterOK(o) /\ VerdictOK(o) /\ FitOK(o) /\ InsistOK(o)
  BY <1>0 DEF PrefaceInv
<1>2. /\ \A t \in Side : /\ SessionPreface(t)' = SessionPreface(t)
                         /\ (LocalOK(t)' <=> LocalOK(t)) /\ (Fit(t)' <=> Fit(t))
      /\ Thing' = Thing /\ (Insisting' <=> Insisting) /\ (Compatible' <=> Compatible)
  BY SameSetup
<1> DEFINE e == stream'[o]
<1>3. /\ d # <<>> /\ e = Tail(d) /\ d[1].item = "accepted" /\ stream'[s] = q
      /\ e \in Seq(Thing) /\ 1 \in 1..Len(d)
      /\ Len(e) = Len(d) - 1 /\ Len(d) \in Nat
      /\ \A i \in 1..Len(e) : e[i] = d[i + 1]
  <2>1. d # <<>> /\ e = Tail(d)
    BY <1>0 DEF Readable, TakeAnd, PrefaceTypeOK
  <2> QED BY <1>0, <2>1, TailFacts DEF Incoming, TakeAnd, PrefaceTypeOK
<1>4. /\ \A x : Talk(d, x) /\ d[1].item = "frame" => Talk(e, x)
      /\ \A x : Talk(d, x) /\ d[1].item = "preface" => Answer(e)
      /\ Answer(d) => Frames(e)
      /\ Frames(d) => Frames(e)
      /\ \A name : Shows(e, name) => Shows(d, name)
  BY <1>0, <1>3, ReadShape
<1>5. Shows(d, d[1].item)
  BY <1>3 DEF Shows
<1> HIDE DEF o, q, d, e
<1>7. /\ phase'[s] = "established" /\ phase'[o] = phase[o]
      /\ established'[s] /\ established'[o] = established[o]
      /\ reason' = reason /\ open' = open /\ got' = got
  BY <1>0 DEF PrefaceTypeOK
<1>8. /\ phase[o] \in {"verdict", "established"} \/ reason[o] = "lost"
      /\ Fit(o) /\ Fit(s) /\ LocalOK(s)
  <2>1. Shows(d, "accepted")
    BY <1>3, <1>5
  <2> QED BY <1>0, <1>1, <2>1 DEF VerdictOK, FitOK, d
<1>9. PrefaceTypeOK'
  <2>1. stream' \in [Side -> Seq(Thing)]
    BY <1>0, <1>3 DEF PrefaceTypeOK, TakeAnd, o, e
  <2> QED BY <1>0, <1>2, <2>1 DEF PrefaceTypeOK
<1>10. PhaseOK(s)' /\ PhaseOK(o)'
  BY <1>1, <1>7 DEF PhaseOK
<1>11. ShapeOK(s)' /\ ShapeOK(o)'
  <2>1. ShapeOK(s)'
    BY <1>1, <1>2, <1>3, <1>7 DEF ShapeOK, o, q
  <2>2. ShapeOK(o)'
    BY <1>0, <1>1, <1>2, <1>4, <1>7 DEF ShapeOK, d, e
  <2> QED BY <2>1, <2>2
<1>12. WriterOK(s)' /\ WriterOK(o)'
  <2>1. WriterOK(s)'
    BY <1>1, <1>3, <1>7 DEF WriterOK, o, q
  <2>2. WriterOK(o)'
    BY <1>0, <1>1, <1>7, <1>8 DEF WriterOK, PhaseOK
  <2> QED BY <2>1, <2>2
<1>13. VerdictOK(s)' /\ VerdictOK(o)'
  <2>1. VerdictOK(s)'
    BY <1>1, <1>3, <1>7 DEF VerdictOK, o, q
  <2>2. VerdictOK(o)'
    BY <1>0, <1>1, <1>4, <1>7, <1>8 DEF VerdictOK, d, e
  <2> QED BY <2>1, <2>2
<1>14. FitOK(s)' /\ FitOK(o)'
  <2>1. FitOK(s)'
    BY <1>1, <1>2, <1>3, <1>7, <1>8 DEF FitOK, o, q
  <2>2. FitOK(o)'
    BY <1>0, <1>1, <1>2, <1>4, <1>7, <1>8 DEF FitOK, Fit, d, e
  <2> QED BY <2>1, <2>2
<1>15. InsistOK(s)' /\ InsistOK(o)'
  <2>1. InsistOK(s)'
    BY <1>1, <1>2, <1>3, <1>7 DEF InsistOK, o, q
  <2>2. InsistOK(o)'
    BY <1>0, <1>1, <1>2, <1>4, <1>7 DEF InsistOK, d, e
  <2> QED BY <2>1, <2>2
<1> QED
  BY <1>0, <1>9, <1>10, <1>11, <1>12, <1>13, <1>14, <1>15 DEF PrefaceInv, o

\* Side s reads a preface that fits and writes its acceptance.
LEMMA AcceptInv ==
  ASSUME PrefaceInv, NEW s \in Side, phase[s] = "preface", Readable(s),
         Fits(s, Incoming(s)),
         TakeAnd(s, [stream EXCEPT ![s] = Append(@, Item("accepted"))]),
         phase' = [phase EXCEPT ![s] = "verdict"],
         UNCHANGED <<kind, setup, established, open, sent, got, reason>>
  PROVE  PrefaceInv'
<1> DEFINE o == Other(s)
           q == stream[s]
           d == stream[o]
<1>0. /\ PrefaceTypeOK /\ o \in Side /\ o # s /\ Other(o) = s
      /\ \A t \in Side : t = s \/ t = o
      /\ q \in Seq(Thing) /\ d \in Seq(Thing)
  BY OtherFacts DEF PrefaceInv, PrefaceTypeOK
<1>1. /\ PhaseOK(s) /\ ShapeOK(s) /\ WriterOK(s) /\ VerdictOK(s) /\ FitOK(s) /\ InsistOK(s)
      /\ PhaseOK(o) /\ ShapeOK(o) /\ WriterOK(o) /\ VerdictOK(o) /\ FitOK(o) /\ InsistOK(o)
  BY <1>0 DEF PrefaceInv
<1>2. /\ \A t \in Side : /\ SessionPreface(t)' = SessionPreface(t)
                         /\ (LocalOK(t)' <=> LocalOK(t)) /\ (Fit(t)' <=> Fit(t))
      /\ Thing' = Thing /\ (Insisting' <=> Insisting) /\ (Compatible' <=> Compatible)
  BY SameSetup
<1> DEFINE y == Item("accepted")
<1> DEFINE e == stream'[o]
           p == stream'[s]
<1>3. /\ d # <<>> /\ e = Tail(d) /\ e \in Seq(Thing) /\ 1 \in 1..Len(d)
      /\ Len(e) = Len(d) - 1 /\ Len(d) \in Nat
      /\ \A i \in 1..Len(e) : e[i] = d[i + 1]
  <2>1. d # <<>> /\ e = Tail(d)
    BY <1>0 DEF Readable, TakeAnd, PrefaceTypeOK
  <2> QED BY <1>0, <2>1, TailFacts
<1>4. /\ \A x : Talk(d, x) /\ d[1].item = "preface" => Answer(e)
      /\ Frames(d) => Frames(e)
      /\ \A name : Shows(e, name) => Shows(d, name)
  BY <1>0, <1>3, ReadShape
<1>5. Shows(d, d[1].item) /\ Incoming(s) = d[1]
  BY <1>0, <1>3, TailFacts DEF Shows, Incoming
<1>a. /\ y \in Thing /\ y.item = "accepted" /\ y.item \in Verdict
  BY ThingFacts DEF Verdict
<1>b. p = Append(q, y)
  BY <1>0 DEF TakeAnd, PrefaceTypeOK
<1>c. /\ p \in Seq(Thing) /\ p # <<>> /\ Len(p) = Len(q) + 1 /\ Len(q) \in Nat
      /\ \A i \in 1..Len(q) : p[i] = q[i]
      /\ q # <<>> => 1 \in 1..Len(q) /\ Len(q) \in 1..Len(q)
  <2>1. /\ Append(q, y) \in Seq(Thing) /\ Append(q, y) # <<>>
        /\ Len(Append(q, y)) = Len(q) + 1 /\ Len(q) \in Nat
        /\ \A i \in 1..Len(q) : Append(q, y)[i] = q[i]
    BY <1>0, <1>a, AppendFacts
  <2>2. q # <<>> => 1 \in 1..Len(q) /\ Len(q) \in 1..Len(q)
    BY <1>0
  <2> QED BY <1>b, <2>1, <2>2
<1>d. /\ \A x : Talk(q, x) /\ q # <<>> /\ q[Len(q)].item = "preface" => Talk(p, x)
      /\ q = <<>> => Answer(p)
      /\ \A name : Shows(p, name) => Shows(q, name) \/ name = "accepted"
  BY <1>0, <1>a, <1>b, WriteShape
<1>e. stream' \in [Side -> Seq(Thing)]
  <2>1. stream' = [[stream EXCEPT ![s] = p] EXCEPT ![o] = e]
    BY <1>0, <1>3, <1>b DEF TakeAnd, PrefaceTypeOK
  <2> HIDE DEF o, q, d, p, e, y
  <2> QED BY <1>0, <1>3, <1>c, <2>1 DEF PrefaceTypeOK
<1> HIDE DEF o, q, d, p, e, y
<1>7. /\ phase'[s] = "verdict" /\ phase'[o] = phase[o]
      /\ established' = established /\ got' = got /\ reason' = reason /\ open' = open
  BY <1>0 DEF PrefaceTypeOK
<1>8. /\ d[1].item = "preface" /\ d[1] = SessionPreface(o) /\ Talk(d, SessionPreface(o))
      /\ Fit(s) /\ LocalOK(s) /\ ~established[s]
  <2>1. d[1].item = "preface" /\ Talk(d, SessionPreface(o))
    BY <1>0, <1>1, <1>5 DEF Fits, ShapeOK, d
  <2>2. d[1] = SessionPreface(o)
    BY <1>3, <2>1 DEF Talk
  <2>3. VerifyPeer(s, SessionPreface(o))
    BY <1>5, <2>2, FitMeansCompatible DEF o
  <2>4. LocalOK(o)
    BY <1>1, <1>5, <2>1 DEF FitOK, d
  <2>5. LocalOK(s) /\ ~established[s]
    BY <1>1 DEF FitOK, PhaseOK
  <2> QED BY <2>1, <2>2, <2>3, <2>4, <2>5 DEF Fit, o
<1>9. PrefaceTypeOK'
  BY <1>0, <1>2, <1>e DEF PrefaceTypeOK
<1>10. PhaseOK(s)' /\ PhaseOK(o)'
  BY <1>1, <1>7 DEF PhaseOK
<1>11. ShapeOK(s)' /\ ShapeOK(o)'
  <2>1. ShapeOK(s)'
    BY <1>1, <1>2, <1>7, <1>d DEF ShapeOK, WriterOK, o, p, q
  <2>2. ShapeOK(o)'
    BY <1>0, <1>4, <1>7, <1>8 DEF ShapeOK, e
  <2> QED BY <2>1, <2>2
<1>12. WriterOK(s)' /\ WriterOK(o)'
  <2>1. phase[o] \in {"idle", "preface"} =>
          \E j \in 1..Len(p) : j < Len(p) /\ p[j].item = "preface"
    <3> SUFFICES ASSUME phase[o] \in {"idle", "preface"}
                 PROVE  \E j \in 1..Len(p) : j < Len(p) /\ p[j].item = "preface"
      OBVIOUS
    <3>1. q # <<>> /\ q[Len(q)].item = "preface"
      BY <1>1 DEF WriterOK, o, q
    <3>2. Len(q) \in 1..Len(p) /\ Len(q) < Len(p) /\ p[Len(q)] = q[Len(q)]
      BY <1>c, <3>1
    <3> QED BY <3>1, <3>2
  <2>2. WriterOK(s)'
    BY <1>7, <1>c, <2>1 DEF WriterOK, o, p
  <2>3. phase[o] # "idle"
    BY <1>1, <1>3, <1>8 DEF WriterOK, Frames, d
  <2>4. phase[o] = "preface" => e = <<>>
    <3> SUFFICES ASSUME phase[o] = "preface" PROVE e = <<>>
      OBVIOUS
    <3>1. d[Len(d)].item = "preface"
      BY <1>0, <1>1 DEF WriterOK, d
    <3>2. Len(d) \in 1..Len(d) /\ ~(1 < Len(d))
      BY <1>3, <1>8, <3>1 DEF Talk
    <3>3. Len(e) = 0
      BY <1>3, <3>2
    <3> QED BY <1>3, <3>3
  <2>5. phase[o] \in {"verdict", "established"} => e # <<>>
    <3> SUFFICES ASSUME phase[o] \in {"verdict", "established"} PROVE e # <<>>
      OBVIOUS
    <3>1. \E j \in 1..Len(d) : j < Len(d)
      BY <1>0, <1>1 DEF WriterOK, d
    <3>2. Len(e) # 0
      BY <1>3, <3>1
    <3>3. e = <<>> => Len(e) = 0
      OBVIOUS
    <3> QED BY <3>2, <3>3
  <2>6. WriterOK(o)'
    BY <1>0, <1>7, <2>3, <2>4, <2>5 DEF WriterOK, e
  <2> QED BY <2>2, <2>6
<1>13. VerdictOK(s)' /\ VerdictOK(o)'
  <2>1. VerdictOK(s)'
    BY <1>1, <1>7, <1>d DEF VerdictOK, o, p, q
  <2>2. VerdictOK(o)'
    BY <1>0, <1>1, <1>4, <1>7 DEF VerdictOK, d, e
  <2> QED BY <2>1, <2>2
<1>14. FitOK(s)' /\ FitOK(o)'
  <2>1. FitOK(s)'
    BY <1>2, <1>8 DEF FitOK
  <2>2. FitOK(o)'
    BY <1>0, <1>1, <1>2, <1>4, <1>7 DEF FitOK, d, e
  <2> QED BY <2>1, <2>2
<1>15. InsistOK(s)' /\ InsistOK(o)'
  <2>1. phase[o] \in {"idle", "preface"} => q # <<>> /\ p[1] = q[1]
    BY <1>1, <1>c DEF WriterOK, o, q
  <2>2. InsistOK(s)'
    BY <1>1, <1>2, <1>7, <1>d, <2>1 DEF InsistOK, o, p, q
  <2>3. InsistOK(o)'
    BY <1>0, <1>1, <1>2, <1>4, <1>7 DEF InsistOK, d, e
  <2> QED BY <2>2, <2>3
<1> QED
  BY <1>0, <1>9, <1>10, <1>11, <1>12, <1>13, <1>14, <1>15 DEF PrefaceInv, o

\* Side s reads something it does not take for a fitting preface; its rejection and
\* what it wrote before may get lost.
LEMMA MismatchInv ==
  ASSUME PrefaceInv, NEW s \in Side, phase[s] = "preface", Readable(s),
         ~Fits(s, Incoming(s)),
         NEW n \in 0..Len(stream[s]) + 1,
         TakeAnd(s, [stream EXCEPT ![s] = SubSeq(Append(@, Item("rejected")), 1, n)]),
         phase' = [phase EXCEPT ![s] = "failed"],
         reason' = [reason EXCEPT ![s] = "mismatch"],
         open' = [open EXCEPT ![s] = FALSE],
         UNCHANGED <<kind, setup, established, sent, got>>
  PROVE  PrefaceInv'
<1> DEFINE o == Other(s)
           q == stream[s]
           d == stream[o]
<1>0. /\ PrefaceTypeOK /\ o \in Side /\ o # s /\ Other(o) = s
      /\ \A t \in Side : t = s \/ t = o
      /\ q \in Seq(Thing) /\ d \in Seq(Thing)
  BY OtherFacts DEF PrefaceInv, PrefaceTypeOK
<1>1. /\ PhaseOK(s) /\ ShapeOK(s) /\ WriterOK(s) /\ VerdictOK(s) /\ FitOK(s) /\ InsistOK(s)
      /\ PhaseOK(o) /\ ShapeOK(o) /\ WriterOK(o) /\ VerdictOK(o) /\ FitOK(o) /\ InsistOK(o)
  BY <1>0 DEF PrefaceInv
<1>2. /\ \A t \in Side : /\ SessionPreface(t)' = SessionPreface(t)
                         /\ (LocalOK(t)' <=> LocalOK(t)) /\ (Fit(t)' <=> Fit(t))
      /\ Thing' = Thing /\ (Insisting' <=> Insisting) /\ (Compatible' <=> Compatible)
  BY SameSetup
<1> DEFINE y == Item("rejected")
           f == Append(q, y)
<1> DEFINE e == stream'[o]
           p == stream'[s]
<1>3. /\ d # <<>> /\ e = Tail(d) /\ e \in Seq(Thing) /\ 1 \in 1..Len(d)
      /\ Len(e) = Len(d) - 1 /\ Len(d) \in Nat
      /\ \A i \in 1..Len(e) : e[i] = d[i + 1]
  <2>1. d # <<>> /\ e = Tail(d)
    BY <1>0 DEF Readable, TakeAnd, PrefaceTypeOK
  <2> QED BY <1>0, <2>1, TailFacts
<1>4. /\ \A x : Talk(d, x) /\ d[1].item = "preface" => Answer(e)
      /\ Frames(d) => Frames(e)
      /\ \A name : Shows(e, name) => Shows(d, name)
  BY <1>0, <1>3, ReadShape
<1>5. Shows(d, d[1].item) /\ Incoming(s) = d[1]
  BY <1>0, <1>3, TailFacts DEF Shows, Incoming
<1>a. /\ y \in Thing /\ y.item = "rejected" /\ y.item \in Verdict
  BY ThingFacts DEF Verdict
<1>b. p = SubSeq(f, 1, n)
  BY <1>0 DEF TakeAnd, PrefaceTypeOK
<1>c. /\ f \in Seq(Thing) /\ Len(f) = Len(q) + 1 /\ Len(q) \in Nat
      /\ \A i \in 1..Len(q) : f[i] = q[i]
      /\ q # <<>> => 1 \in 1..Len(q)
  <2>1. q # <<>> => 1 \in 1..Len(q)
    BY <1>0
  <2> QED BY <1>0, <1>a, <2>1, AppendFacts
<1>d. /\ \A x : Talk(q, x) /\ q # <<>> /\ q[Len(q)].item = "preface" => Talk(f, x)
      /\ q = <<>> => Answer(f)
      /\ \A name : Shows(f, name) => Shows(q, name) \/ name = "rejected"
  BY <1>0, <1>a, WriteShape
<1> HIDE DEF f
<1>e. p \in Seq(Thing) /\ Len(p) <= Len(f) /\ \A i \in 1..Len(p) : p[i] = f[i]
  <2>1. n \in 0..Len(f)
    BY <1>c
  <2>2. /\ SubSeq(f, 1, n) \in Seq(Thing) /\ Len(SubSeq(f, 1, n)) = n /\ Len(f) \in Nat
        /\ \A i \in 1..n : SubSeq(f, 1, n)[i] = f[i]
    BY <1>c, <2>1, PrefixFacts
  <2> QED BY <1>b, <2>1, <2>2
<1> HIDE DEF p
<1>f. /\ \A x : Talk(f, x) => Talk(p, x)
      /\ Answer(f) => Answer(p)
      /\ \A name : Shows(p, name) => Shows(f, name)
      /\ p # <<>> => p[1] = f[1]
  BY <1>c, <1>e, PrefixShape
<1>g. stream' \in [Side -> Seq(Thing)]
  <2>1. stream' = [[stream EXCEPT ![s] = p] EXCEPT ![o] = e]
    BY <1>0, <1>3, <1>b DEF TakeAnd, PrefaceTypeOK, f, p
  <2> HIDE DEF o, q, d, e, y
  <2> QED BY <1>0, <1>3, <1>e, <2>1 DEF PrefaceTypeOK
<1> HIDE DEF o, q, d, e, y
<1>7. /\ phase'[s] = "failed" /\ phase'[o] = phase[o]
      /\ reason'[s] = "mismatch" /\ reason'[o] = reason[o]
      /\ open'[s] = FALSE /\ open'[o] = open[o]
      /\ established' = established /\ got' = got
  BY <1>0 DEF PrefaceTypeOK
\* Nobody counts on s, which has not answered.
<1>8. ~established[s] /\ ~established[o] /\ ~(phase[o] # "failed" /\ Shows(q, "accepted"))
  BY <1>1 DEF VerdictOK, PhaseOK, o, q
<1>9. PrefaceTypeOK'
  BY <1>0, <1>2, <1>g DEF PrefaceTypeOK
<1>10. PhaseOK(s)' /\ PhaseOK(o)'
  BY <1>1, <1>7, <1>8 DEF PhaseOK
<1>11. ShapeOK(s)' /\ ShapeOK(o)'
  <2>1. ShapeOK(s)'
    BY <1>1, <1>2, <1>7, <1>d, <1>f DEF ShapeOK, WriterOK, o, p, q
  <2>2. ShapeOK(o)'
    BY <1>0, <1>7 DEF ShapeOK
  <2> QED BY <2>1, <2>2
<1>12. WriterOK(s)' /\ WriterOK(o)'
  <2>1. WriterOK(s)'
    BY <1>7 DEF WriterOK
  <2>2. WriterOK(o)'
    BY <1>0, <1>1, <1>4, <1>7 DEF WriterOK, d, e
  <2> QED BY <2>1, <2>2
<1>13. VerdictOK(s)' /\ VerdictOK(o)'
  <2>1. VerdictOK(s)'
    BY <1>7, <1>8, <1>d, <1>f DEF VerdictOK, o, p
  <2>2. VerdictOK(o)'
    BY <1>0, <1>1, <1>4, <1>7, <1>8 DEF VerdictOK, d, e
  <2> QED BY <2>1, <2>2
<1>14. FitOK(s)' /\ FitOK(o)'
  <2>1. FitOK(s)'
    BY <1>1, <1>2, <1>7, <1>8, <1>d, <1>f DEF FitOK, o, p, q
  <2>2. FitOK(o)'
    BY <1>0, <1>1, <1>2, <1>4, <1>7, <1>8 DEF FitOK, d, e
  <2> QED BY <2>1, <2>2
<1>15. InsistOK(s)' /\ InsistOK(o)'
  <2>1. phase[o] \in {"idle", "preface"} /\ p # <<>> => q # <<>> /\ p[1] = q[1]
    BY <1>1, <1>c, <1>f DEF WriterOK, o, q
  <2>2. ~(Insisting /\ Compatible)
    <3> SUFFICES ASSUME Insisting, Compatible PROVE FALSE
      OBVIOUS
    <3>1. d[1].item = "preface" /\ Talk(d, SessionPreface(o))
      BY <1>0, <1>1, <1>3 DEF InsistOK, ShapeOK, d
    <3>2. d[1] = SessionPreface(o)
      BY <1>3, <3>1 DEF Talk
    <3> QED BY <1>5, <3>2, FitMeansCompatible DEF o
  <2>3. InsistOK(s)'
    BY <1>1, <1>2, <1>7, <1>d, <1>f, <2>1, <2>2 DEF InsistOK, o, p, q
  <2>4. InsistOK(o)'
    BY <1>0, <1>1, <1>2, <1>4, <1>7 DEF InsistOK, d, e
  <2> QED BY <2>3, <2>4
<1> QED
  BY <1>0, <1>9, <1>10, <1>11, <1>12, <1>13, <1>14, <1>15 DEF PrefaceInv, o

\* Every step of either side keeps the invariant.
LEMMA PrefaceStepInv == PrefaceInv /\ [PrefaceNext]_vars => PrefaceInv'
<1> SUFFICES ASSUME PrefaceInv, [PrefaceNext]_vars PROVE PrefaceInv'
  OBVIOUS
<1>1. CASE UNCHANGED vars
  <2>1. Thing' = Thing /\ (Insisting' <=> Insisting) /\ (Compatible' <=> Compatible)
    BY <1>1, SameSetup DEF vars
  <2>2. PrefaceTypeOK'
    BY <1>1, <2>1 DEF PrefaceInv, PrefaceTypeOK, vars
  <2>3. ASSUME NEW o \in Side
        PROVE  (PhaseOK(o) /\ ShapeOK(o) /\ WriterOK(o) /\ VerdictOK(o) /\ FitOK(o) /\ InsistOK(o))'
    <3>1. Other(o) \in Side
      BY OtherFacts
    <3>2. /\ SessionPreface(o)' = SessionPreface(o)
          /\ (LocalOK(o)' <=> LocalOK(o)) /\ (Fit(o)' <=> Fit(o))
      BY <1>1, SameSetup DEF vars
    <3>3. PhaseOK(o)' /\ ShapeOK(o)' /\ WriterOK(o)'
      BY <1>1, <3>2 DEF PrefaceInv, PhaseOK, ShapeOK, WriterOK, vars
    <3>4. VerdictOK(o)' /\ FitOK(o)' /\ InsistOK(o)'
      BY <1>1, <2>1, <3>2 DEF PrefaceInv, VerdictOK, FitOK, InsistOK, vars
    <3> QED BY <3>3, <3>4
  <2> QED BY <2>2, <2>3 DEF PrefaceInv
<1>2. ASSUME NEW s \in Side, Begin(s) PROVE PrefaceInv'
  <2>1. CASE LocalOK(s) /\ phase' = [phase EXCEPT ![s] = "preface"]
               /\ Write(s, SessionPreface(s)) /\ UNCHANGED <<open, reason>>
    BY <1>2, <2>1, BeginInv DEF Begin
  <2>2. CASE ~LocalOK(s) /\ Close(s, <<>>, "refused")
    <3>1. Excuse(s, "refused")
      BY <1>2, <2>2 DEF Begin, Excuse
    <3> QED BY <1>2, <2>2, <3>1, FailInv DEF Begin
  <2> QED BY <1>2, <2>1, <2>2 DEF Begin
<1>3. ASSUME NEW s \in Side, ReadPreface(s) PROVE PrefaceInv'
  <2>1. CASE Fits(s, Incoming(s))
    BY <1>3, <2>1, AcceptInv DEF ReadPreface
  <2>2. CASE ~Fits(s, Incoming(s))
    BY <1>3, <2>2, MismatchInv DEF ReadPreface
  <2> QED BY <2>1, <2>2
<1>4. ASSUME NEW s \in Side, ReadVerdict(s) PROVE PrefaceInv'
  <2>1. CASE Incoming(s).item = "accepted"
    BY <1>4, <2>1, VerdictInv DEF ReadVerdict
  <2>2. CASE Incoming(s).item # "accepted"
    <3>1. stream[Other(s)] \in Seq(Thing) /\ stream[Other(s)] # <<>>
      BY <1>4, OtherFacts DEF ReadVerdict, Readable, PrefaceInv, PrefaceTypeOK
    <3>2. Incoming(s) = stream[Other(s)][1]
      BY <3>1, TailFacts DEF Incoming
    <3>3. Excuse(s, "rejected")
      BY <1>4, <2>2, <3>1, <3>2 DEF ReadVerdict, Excuse
    <3> QED BY <1>4, <2>2, <3>3, FailInv DEF ReadVerdict
  <2> QED BY <2>1, <2>2
<1>5. ASSUME NEW s \in Side, IoError(s) PROVE PrefaceInv'
  <2>1. Excuse(s, "lost")
    BY <1>5 DEF IoError, Excuse
  <2> QED BY <1>5, <2>1, FailInv DEF IoError
\* A session that is asked for and not there is asked for by a side that is idle.
<1>6. ASSUME NEW s \in Side, Outside(s), SessionRequired(s) PROVE Excuse(s, "session_required")
  <2>1. PhaseOK(s)
    BY DEF PrefaceInv
  <2> QED BY <1>6, <2>1 DEF Outside, SessionRequired, PhaseOK, Excuse
<1>7. ASSUME NEW s \in Side, Send(s) PROVE PrefaceInv'
  <2>1. CASE ~SessionRequired(s)
    BY <1>7, <2>1, SendInv DEF Send
  <2>2. CASE SessionRequired(s)
    <3>1. Excuse(s, "session_required")
      BY <1>6, <1>7, <2>2 DEF Send
    <3> QED BY <1>7, <2>2, <3>1, FailInv DEF Send
  <2> QED BY <2>1, <2>2
<1>8. ASSUME NEW s \in Side, Receive(s) PROVE PrefaceInv'
  <2>1. CASE SessionRequired(s)
    <3>1. Excuse(s, "session_required")
      BY <1>6, <1>8, <2>1 DEF Receive
    <3> QED BY <1>8, <2>1, <3>1, FailInv DEF Receive
  <2>2. CASE ~SessionRequired(s) /\ Incoming(s).item = "frame"
    BY <1>8, <2>2, ReceiveInv DEF Receive
  <2>3. CASE ~SessionRequired(s) /\ Incoming(s).item # "frame"
    <3> DEFINE d == stream[Other(s)]
    <3>1. Other(s) \in Side /\ Other(Other(s)) = s /\ d \in Seq(Thing) /\ d # <<>>
      BY <1>8, <2>3, OtherFacts DEF Receive, Readable, PrefaceInv, PrefaceTypeOK
    <3>2. Incoming(s) = d[1] /\ 1 \in 1..Len(d)
      BY <3>1, TailFacts DEF Incoming
    <3>3. PhaseOK(s) /\ ShapeOK(Other(s))
      BY <3>1 DEF PrefaceInv
    <3>4. phase[s] # "established"
      BY <2>3, <3>1, <3>2, <3>3 DEF ShapeOK, Frames
    <3>5. phase[s] = "idle" /\ ~established[s]
      BY <1>8, <3>3, <3>4 DEF Receive, Outside, PhaseOK
    <3>6. ~Insisting
      BY <2>3, <3>5 DEF SessionRequired, Insisting
    <3>7. Excuse(s, "garbled")
      BY <3>5, <3>6 DEF Excuse
    <3> QED BY <1>8, <2>3, <3>7, FailInv DEF Receive
  <2> QED BY <2>1, <2>2, <2>3
<1> QED BY <1>1, <1>2, <1>3, <1>4, <1>5, <1>7, <1>8 DEF PrefaceNext

-----------------------------------------------------------------------------
(***************************************************************************)
(* The theorems.                                                           *)
(***************************************************************************)
\* establish_session keeps the invariant on every transport, whatever the two sides
\* were set up with and whatever the network does.
THEOREM PrefaceInvariance == PrefaceSpec => []PrefaceInv
BY PrefaceInitInv, PrefaceStepInv, PTL DEF PrefaceSpec

\* A session that one side believes in stands between fitting sides, and the other
\* side has accepted as well.
THEOREM AgreedTheorem == PrefaceSpec => []EstablishedMeansAgreed
<1>1. PrefaceInv => EstablishedMeansAgreed
  <2> SUFFICES ASSUME PrefaceInv, NEW s \in Side, established[s]
               PROVE  /\ Compatible
                      /\ \/ phase[Other(s)] \in {"verdict", "established"}
                         \/ reason[Other(s)] = "lost"
    BY DEF EstablishedMeansAgreed
  <2>1. Other(s) \in Side /\ Other(Other(s)) = s
    BY OtherFacts
  <2>2. FitOK(s) /\ FitOK(Other(s)) /\ VerdictOK(Other(s))
    BY <2>1 DEF PrefaceInv
  <2>3. Fit(s) /\ Fit(Other(s))
    BY <2>1, <2>2 DEF FitOK
  <2>4. Compatible
    BY <2>3, FitMeansCompatible
  <2> QED BY <2>1, <2>2, <2>4 DEF VerdictOK
<1> QED BY <1>1, PrefaceInvariance, PTL

\* Fitting sides that insist on a session are never turned away.
THEOREM NoFalseRejectionTheorem == PrefaceSpec => []NoFalseRejection
<1>1. PrefaceInv => NoFalseRejection
  BY DEF PrefaceInv, InsistOK, NoFalseRejection
<1> QED BY <1>1, PrefaceInvariance, PTL

\* Where a session is insisted on, a verdict is read from a verdict, a frame from a
\* frame, and frames come from a side that had agreed.
THEOREM FramesTheorem == PrefaceSpec => []FramesFollowAgreement
<1>1. PrefaceInv => FramesFollowAgreement
  <2> SUFFICES ASSUME PrefaceInv, Insisting, NEW s \in Side
               PROVE  /\ reason[s] # "garbled"
                      /\ phase[s] = "verdict" /\ stream[Other(s)] # <<>> =>
                           Incoming(s).item \in {"accepted", "rejected"}
                      /\ got[s] > 0 => established[s] /\ established[Other(s)] /\ Compatible
    BY DEF FramesFollowAgreement
  <2>1. Other(s) \in Side /\ Other(Other(s)) = s /\ stream[Other(s)] \in Seq(Thing)
    BY OtherFacts DEF PrefaceInv, PrefaceTypeOK
  <2>2. /\ InsistOK(s) /\ FitOK(s) /\ FitOK(Other(s)) /\ ShapeOK(Other(s))
    BY <2>1 DEF PrefaceInv
  <2>3. stream[Other(s)] # <<>> => Incoming(s) = stream[Other(s)][1]
    BY <2>1, TailFacts DEF Incoming
  <2>4. established[s] => Fit(s) /\ Fit(Other(s))
    BY <2>1, <2>2 DEF FitOK
  <2>5. established[s] => Compatible
    BY <2>4, FitMeansCompatible
  <2>6. phase[s] = "verdict" /\ stream[Other(s)] # <<>> => Incoming(s).item \in {"accepted", "rejected"}
    BY <2>1, <2>2, <2>3 DEF ShapeOK, Answer, Verdict
  <2> QED BY <2>2, <2>5, <2>6 DEF InsistOK
<1> QED BY <1>1, PrefaceInvariance, PTL

=============================================================================
