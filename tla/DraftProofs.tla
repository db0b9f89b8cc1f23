---------------------------- MODULE DraftProofs ----------------------------
(***************************************************************************)
(* Proofs about Draft and DraftExchange: what becomes of an edit, in the   *)
(* files, in the editors and through any number of sync sessions.          *)
(*                                                                         *)
(* A change can be anywhere: in a file, in an editor, in the memory of a   *)
(* sync command, held back there until its dependencies come, in a message *)
(* that is generated and not sent, or in one in flight.  The invariant     *)
(* says the same of all of them; what the peers tell each other of their   *)
(* heads, and when a message is due, does not matter to it.                *)
(*                                                                         *)
(* It matters to the second invariant, SyncInv, about the two loops: where *)
(* they may be together, and what each knows of the other there.           *)
(***************************************************************************)
EXTENDS DraftExchange, FiniteSetTheorems, TLAPS

-----------------------------------------------------------------------------
(***************************************************************************)
(* The inductive invariant.                                                *)
(***************************************************************************)
\* A change creates a draft or is made at a path of it, by an editor that had read the
\* very document it was made on.
ChangeOK(c) ==
  c.path \in Path \cup {Whole} /\ c.value # "none" /\ c.read = {b.id : b \in c.past}

GoodDoc(d) == IsFiniteSet(d) /\ \A c \in d : ChangeOK(c)

GoodMessages(ms) == \A m \in ms : GoodDoc(m.changes)

\* An editor only adds to what it has loaded.
EditorOK(e) ==
  /\ e = [doc |-> e.doc, heads |-> e.heads, from |-> e.from, patched |-> e.patched]
  /\ GoodDoc(e.doc) /\ e.from \subseteq e.doc

PeerOK(s) ==
  /\ s = [their |-> s.their, need |-> s.need, have |-> s.have, last |-> s.last,
          responded |-> s.responded, in_flight |-> s.in_flight, sent |-> s.sent]
  /\ s.have \in {"unknown", "nothing", "summary"}

\* So does a sync command.
MemoryOK(m) ==
  /\ m = [doc |-> m.doc, loaded |-> m.loaded, held |-> m.held, peer |-> m.peer,
          outbox |-> m.outbox, machine |-> m.machine, round |-> m.round]
  /\ GoodDoc(m.doc) /\ GoodDoc(m.held) /\ m.loaded \subseteq m.doc
  /\ PeerOK(m.peer)
  /\ GoodMessages(m.outbox)

IsSeq(q) == q \in Seq({q[i] : i \in 1..Len(q)})

WireOK(q) == IsSeq(q) /\ \A i \in 1..Len(q) : GoodMessages(q[i].message)

FilesOK ==
  /\ file = [h \in Host |-> file[h]] /\ editor = [h \in Host |-> editor[h]]
  /\ \A h \in Host : GoodDoc(file[h]) /\ \A e \in editor[h] : EditorOK(e)

ExchangeOK ==
  /\ memory = [r \in Host |-> memory[r]] /\ wire = [r \in Host |-> wire[r]]
  /\ \A r \in Host : MemoryOK(memory[r]) /\ WireOK(wire[r])

DraftInv == FilesOK /\ ExchangeOK

-----------------------------------------------------------------------------
(***************************************************************************)
(* Documents and sequences.                                                *)
(***************************************************************************)
\* Each host is the other's other one.
LEMMA HostFacts ==
  \A h \in Host : OtherHost(h) \in Host /\ OtherHost(h) # h
<1>1. OtherHost("client") = "server" /\ OtherHost("server") = "client"
  BY DEF OtherHost, Host
<1> QED BY <1>1 DEF Host

\* What is made of good documents by merging and leaving out is good.
LEMMA GoodFacts ==
  /\ GoodDoc({})
  /\ \A d, e : GoodDoc(d) /\ GoodDoc(e) => GoodDoc(d \cup e)
  /\ \A d, e : GoodDoc(d) /\ e \subseteq d => GoodDoc(e)
  /\ \A d, c : GoodDoc(d) /\ ChangeOK(c) => GoodDoc(d \cup {c})
<1>1. GoodDoc({})
  BY FS_EmptySet DEF GoodDoc
<1>2. ASSUME NEW d, NEW e, GoodDoc(d), GoodDoc(e) PROVE GoodDoc(d \cup e)
  BY <1>2, FS_Union DEF GoodDoc
<1>3. ASSUME NEW d, NEW e, GoodDoc(d), e \subseteq d PROVE GoodDoc(e)
  BY <1>3, FS_Subset DEF GoodDoc
<1>4. ASSUME NEW d, NEW c, GoodDoc(d), ChangeOK(c) PROVE GoodDoc(d \cup {c})
  BY <1>4, FS_AddElement DEF GoodDoc
<1> QED BY <1>1, <1>2, <1>3, <1>4

\* A sequence of anything is one over any larger set.
LEMMA WiderSeq ==
  ASSUME NEW S, NEW T, S \subseteq T, NEW q \in Seq(S)
  PROVE  q \in Seq(T)
OBVIOUS

\* A sequence is one over its own elements.
LEMMA OwnElements ==
  ASSUME NEW T, NEW q \in Seq(T)
  PROVE  IsSeq(q)
<1>1. Len(q) \in Nat /\ q \in [1..Len(q) -> T]
  OBVIOUS
<1>2. q = [i \in 1..Len(q) |-> q[i]]
  BY <1>1
<1> QED BY <1>1, <1>2 DEF IsSeq

\* Writing at the end of a wire.
LEMMA WireAppend ==
  ASSUME NEW q, WireOK(q), NEW x, GoodMessages(x.message)
  PROVE  WireOK(Append(q, x))
<1> DEFINE T == {q[i] : i \in 1..Len(q)} \cup {x}
<1>1. q \in Seq(T)
  BY WiderSeq DEF WireOK, IsSeq
<1>2. x \in T
  OBVIOUS
<1> HIDE DEF T
<1>3. /\ Append(q, x) \in Seq(T) /\ Len(Append(q, x)) = Len(q) + 1 /\ Len(q) \in Nat
      /\ \A i \in 1..Len(q) : Append(q, x)[i] = q[i]
      /\ Append(q, x)[Len(q) + 1] = x
  BY <1>1, <1>2
<1>4. \A i \in 1..(Len(q) + 1) : i \in 1..Len(q) \/ i = Len(q) + 1
  BY <1>3
<1> QED BY <1>3, <1>4, OwnElements DEF WireOK

\* What was written first is read, or the end is lost.
LEMMA WireRest ==
  ASSUME NEW q, WireOK(q)
  PROVE  /\ Len(q) \in Nat
         /\ q # <<>> => WireOK(Tail(q)) /\ GoodMessages(Head(q).message)
         /\ \A n \in 0..Len(q) : WireOK(SubSeq(q, 1, n))
         /\ WireOK(<<>>)
<1> DEFINE T == {q[i] : i \in 1..Len(q)}
<1>1. q \in Seq(T)
  BY DEF WireOK, IsSeq
<1> HIDE DEF T
<1>2. Len(q) \in Nat
  BY <1>1
<1>3. ASSUME q # <<>> PROVE WireOK(Tail(q)) /\ GoodMessages(Head(q).message)
  <2>1. /\ Tail(q) \in Seq(T) /\ Len(Tail(q)) = Len(q) - 1 /\ Len(q) > 0
        /\ \A i \in 1..Len(Tail(q)) : Tail(q)[i] = q[i + 1] /\ i + 1 \in 1..Len(q)
        /\ Head(q) = q[1] /\ 1 \in 1..Len(q)
    BY <1>1, <1>3
  <2> QED BY <2>1, OwnElements DEF WireOK
<1>4. ASSUME NEW n \in 0..Len(q) PROVE WireOK(SubSeq(q, 1, n))
  <2>1. /\ SubSeq(q, 1, n) \in Seq(T) /\ Len(SubSeq(q, 1, n)) = n
        /\ \A i \in 1..n : SubSeq(q, 1, n)[i] = q[i] /\ i \in 1..Len(q)
    BY <1>1, <1>2
  <2> QED BY <2>1, OwnElements DEF WireOK
<1>5. WireOK(<<>>)
  <2>1. <<>> \in Seq(T) /\ Len(<<>>) = 0
    OBVIOUS
  <2>2. IsSeq(<<>>)
    BY <2>1, OwnElements
  <2> QED BY <2>1, <2>2 DEF WireOK
<1> QED BY <1>2, <1>3, <1>4, <1>5

-----------------------------------------------------------------------------
(***************************************************************************)
(* The editors.                                                            *)
(***************************************************************************)
\* A patch that is not refused leaves the document as it is or adds a change to
\* the very document its editor has read.
LEMMA PatchFacts ==
  ASSUME NEW d, NEW expected, NEW patch \in Patch, GoodDoc(d),
         NEW x \in ApplyScalarPatch(d, expected, patch)
  PROVE  d \subseteq x /\ GoodDoc(x)
<1> DEFINE c == [id |-> edits, path |-> patch.path, value |-> patch.value,
                 past |-> d, read |-> {b.id : b \in expected}]
<1>1. d = expected /\ patch.path \in Path /\ (x = d \/ x = d \cup {c})
  BY DEF ApplyScalarPatch
<1>2. ChangeOK(c)
  BY <1>1, PatchAssumption DEF ChangeOK
<1> HIDE DEF c
<1> QED BY <1>1, <1>2, GoodFacts

\* An editor reads a file.
LEMMA OpenKeeps ==
  ASSUME FilesOK, NEW h \in Host, OpenDraft(h)
  PROVE  FilesOK'
<1> DEFINE e == [doc |-> file[h], heads |-> file[h], from |-> file[h], patched |-> FALSE]
<1>1. editor' = [editor EXCEPT ![h] = {e}] /\ file' = file
  BY DEF OpenDraft
<1>2. EditorOK(e)
  BY DEF EditorOK, FilesOK
<1> HIDE DEF e
<1>3. editor' = [g \in Host |-> editor'[g]] /\ \A g \in Host : g # h => editor'[g] = editor[g]
  BY <1>1 DEF FilesOK
<1>4. editor'[h] = {e}
  BY <1>1 DEF FilesOK
<1> QED BY <1>1, <1>2, <1>3, <1>4 DEF FilesOK

\* merge.
LEMMA MergeKeeps ==
  ASSUME FilesOK, NEW h \in Host, MergeInto(h)
  PROVE  FilesOK'
<1>1. PICK e \in editor[h] :
        editor' = [editor EXCEPT ![h] = {[e EXCEPT !.doc = @ \cup file[OtherHost(h)]]}]
  BY DEF MergeInto
<1>2. file' = file
  BY DEF MergeInto
<1> DEFINE n == [e EXCEPT !.doc = @ \cup file[OtherHost(h)]]
<1>3. EditorOK(e) /\ GoodDoc(file[OtherHost(h)])
  BY HostFacts DEF FilesOK
<1>4. EditorOK(n)
  <2>1. /\ n.doc = e.doc \cup file[OtherHost(h)] /\ n.from = e.from
        /\ n = [doc |-> n.doc, heads |-> n.heads, from |-> n.from, patched |-> n.patched]
    BY <1>3 DEF EditorOK
  <2>2. GoodDoc(n.doc)
    BY <1>3, <2>1, GoodFacts DEF EditorOK
  <2> QED BY <1>3, <2>1, <2>2 DEF EditorOK
<1> HIDE DEF n
<1>5. editor' = [editor EXCEPT ![h] = {n}]
  BY <1>1 DEF n
<1>6. editor' = [g \in Host |-> editor'[g]] /\ \A g \in Host : g # h => editor'[g] = editor[g]
  BY <1>5 DEF FilesOK
<1>7. editor'[h] = {n}
  BY <1>5 DEF FilesOK
<1> QED BY <1>2, <1>4, <1>6, <1>7 DEF FilesOK

\* An editor that has patched has the fields it had.
LEMMA PatchedShape ==
  ASSUME NEW e, NEW a, NEW b, NEW c, NEW f, NEW d, NEW n,
         e = [doc |-> a, heads |-> b, from |-> c, patched |-> f],
         n = [e EXCEPT !.doc = d, !.heads = d, !.patched = TRUE]
  PROVE  n = [doc |-> n.doc, heads |-> n.heads, from |-> n.from, patched |-> n.patched]
OBVIOUS

\* draft-patch applies its patch.
LEMMA PatchKeeps ==
  ASSUME FilesOK, NEW h \in Host, NEW patch \in Patch, PatchDraft(h, patch)
  PROVE  FilesOK'
<1>1. PICK e \in editor[h] :
        editor' = [editor EXCEPT
          ![h] = {[e EXCEPT !.doc = d, !.heads = d, !.patched = TRUE] :
                    d \in ApplyScalarPatch(e.doc, e.heads, patch)}]
  BY DEF PatchDraft
<1>2. file' = file
  BY DEF PatchDraft
<1>3. EditorOK(e)
  BY DEF FilesOK
<1> DEFINE ns == {[e EXCEPT !.doc = d, !.heads = d, !.patched = TRUE] :
                    d \in ApplyScalarPatch(e.doc, e.heads, patch)}
<1>4. \A n \in ns : EditorOK(n)
  <2> SUFFICES ASSUME NEW d \in ApplyScalarPatch(e.doc, e.heads, patch)
               PROVE  EditorOK([e EXCEPT !.doc = d, !.heads = d, !.patched = TRUE])
    OBVIOUS
  <2> DEFINE n == [e EXCEPT !.doc = d, !.heads = d, !.patched = TRUE]
  <2>1. e.doc \subseteq d /\ GoodDoc(d)
    BY <1>3, PatchFacts DEF EditorOK
  <2>2. /\ n.doc = d /\ n.from = e.from
        /\ n = [doc |-> n.doc, heads |-> n.heads, from |-> n.from, patched |-> n.patched]
    <3>1. e = [doc |-> e.doc, heads |-> e.heads, from |-> e.from, patched |-> e.patched]
      BY <1>3 DEF EditorOK
    <3>2. n.doc = d /\ n.from = e.from
      BY <3>1
    <3>3. n = [doc |-> n.doc, heads |-> n.heads, from |-> n.from, patched |-> n.patched]
      <4>1. n = [e EXCEPT !.doc = d, !.heads = d, !.patched = TRUE]
        OBVIOUS
      <4> HIDE DEF n
      <4> QED BY <3>1, <4>1, PatchedShape
    <3> QED BY <3>2, <3>3
  <2> HIDE DEF n
  <2>3. EditorOK(n)
    BY <1>3, <2>1, <2>2 DEF EditorOK
  <2> QED BY <2>3 DEF n
<1> HIDE DEF ns
<1>5. editor' = [editor EXCEPT ![h] = ns]
  BY <1>1 DEF ns
<1>6. editor' = [g \in Host |-> editor'[g]] /\ \A g \in Host : g # h => editor'[g] = editor[g]
  BY <1>5 DEF FilesOK
<1>7. editor'[h] = ns
  BY <1>5 DEF FilesOK
<1> QED BY <1>2, <1>4, <1>6, <1>7 DEF FilesOK

\* An editor writes a file.
LEMMA SaveKeeps ==
  ASSUME FilesOK, NEW h \in Host, NEW out, SaveDraft(h, out)
  PROVE  FilesOK'
<1>1. PICK e \in editor[h] : file' = [g \in Host |-> IF g = out THEN e.doc ELSE file[g]]
  BY DEF SaveDraft
<1>2. editor' = [editor EXCEPT ![h] = {}] /\ GoodDoc(e.doc)
  BY DEF SaveDraft, FilesOK, EditorOK
<1>3. /\ editor' = [g \in Host |-> editor'[g]] /\ file' = [g \in Host |-> file'[g]]
      /\ \A g \in Host : g # h => editor'[g] = editor[g]
      /\ \A g \in Host : file'[g] = file[g] \/ file'[g] = e.doc
      /\ editor'[h] = {}
  BY <1>1, <1>2 DEF FilesOK
<1> QED BY <1>2, <1>3 DEF FilesOK

\* A document that has just been created.
LEMMA CreationIsGood == \A n : GoodDoc({Creation(n)})
<1> SUFFICES ASSUME NEW n PROVE GoodDoc({Creation(n)})
  OBVIOUS
<1>1. ChangeOK(Creation(n))
  BY DEF ChangeOK, Creation
<1> QED BY <1>1, FS_Singleton DEF GoodDoc

\* draft-create writes a file.
LEMMA CreateKeeps ==
  ASSUME FilesOK, NEW h \in Host, DraftCreate(h)
  PROVE  FilesOK'
<1> DEFINE d == {Creation(edits)}
<1>1. file' = [file EXCEPT ![h] = d] /\ editor' = editor /\ GoodDoc(d)
  BY CreationIsGood DEF DraftCreate
<1> HIDE DEF d
<1>2. /\ file' = [g \in Host |-> file'[g]] /\ file'[h] = d
      /\ \A g \in Host : g # h => file'[g] = file[g]
  BY <1>1 DEF FilesOK
<1> QED BY <1>1, <1>2 DEF FilesOK

-----------------------------------------------------------------------------
(***************************************************************************)
(* The sync commands.                                                      *)
(***************************************************************************)
\* What the loops do to their memory besides receiving.
LEMMA MemoryFacts ==
  /\ MemoryOK(Fresh)
  /\ \A m : MemoryOK(m) => MemoryOK(RoundDone(m)) /\ MemoryOK([m EXCEPT !.outbox = {}])
  /\ \A m, s : MemoryOK(m) => MemoryOK([m EXCEPT !.machine = s])
<1>1. MemoryOK(Fresh)
  BY GoodFacts DEF MemoryOK, Fresh, NewSession, PeerOK, GoodMessages
<1>2. ASSUME NEW m, MemoryOK(m) PROVE MemoryOK(RoundDone(m))
  <2> DEFINE n == RoundDone(m)
  <2>1. /\ n = [doc |-> n.doc, loaded |-> n.loaded, held |-> n.held, peer |-> n.peer,
                outbox |-> n.outbox, machine |-> n.machine, round |-> n.round]
        /\ n.doc = m.doc /\ n.loaded = m.loaded /\ n.held = m.held /\ n.peer = m.peer
        /\ n.outbox = m.outbox
    BY <1>2 DEF MemoryOK, RoundDone
  <2> HIDE DEF n
  <2>2. MemoryOK(n)
    BY <1>2, <2>1 DEF MemoryOK
  <2> QED BY <2>2 DEF n
<1>3. ASSUME NEW m, MemoryOK(m) PROVE MemoryOK([m EXCEPT !.outbox = {}])
  <2> DEFINE n == [m EXCEPT !.outbox = {}]
  <2>1. /\ n = [doc |-> n.doc, loaded |-> n.loaded, held |-> n.held, peer |-> n.peer,
                outbox |-> n.outbox, machine |-> n.machine, round |-> n.round]
        /\ n.doc = m.doc /\ n.loaded = m.loaded /\ n.held = m.held /\ n.peer = m.peer
        /\ n.outbox = {}
    BY <1>3 DEF MemoryOK
  <2> HIDE DEF n
  <2>2. MemoryOK(n)
    BY <1>3, <2>1 DEF MemoryOK, GoodMessages
  <2> QED BY <2>2 DEF n
<1>4. ASSUME NEW m, NEW s, MemoryOK(m) PROVE MemoryOK([m EXCEPT !.machine = s])
  <2> DEFINE n == [m EXCEPT !.machine = s]
  <2>1. /\ n = [doc |-> n.doc, loaded |-> n.loaded, held |-> n.held, peer |-> n.peer,
                outbox |-> n.outbox, machine |-> n.machine, round |-> n.round]
        /\ n.doc = m.doc /\ n.loaded = m.loaded /\ n.held = m.held /\ n.peer = m.peer
        /\ n.outbox = m.outbox
    BY <1>4 DEF MemoryOK
  <2> HIDE DEF n
  <2>2. MemoryOK(n)
    BY <1>4, <2>1 DEF MemoryOK
  <2> QED BY <2>2 DEF n
<1> QED BY <1>1, <1>2, <1>3, <1>4

\* A record with the fields of a memory has its form.
LEMMA MemoryShape ==
  ASSUME NEW m, MemoryOK(m), NEW n, DOMAIN n = DOMAIN m, n = [i \in DOMAIN n |-> n[i]]
  PROVE  n = [doc |-> n.doc, loaded |-> n.loaded, held |-> n.held, peer |-> n.peer,
              outbox |-> n.outbox, machine |-> n.machine, round |-> n.round]
<1>1. DOMAIN n = {"doc", "loaded", "held", "peer", "outbox", "machine", "round"}
  BY DEF MemoryOK
<1> QED BY <1>1

\* One command's memory and one wire change.
LEMMA ChangeKeeps ==
  ASSUME ExchangeOK, NEW r \in Host, NEW w \in Host, NEW m, MemoryOK(m), NEW q, WireOK(q),
         memory' = [memory EXCEPT ![r] = m], wire' = [wire EXCEPT ![w] = q]
  PROVE  ExchangeOK'
<1>1. /\ memory' = [t \in Host |-> memory'[t]] /\ memory'[r] = m
      /\ \A t \in Host : t # r => memory'[t] = memory[t]
  BY DEF ExchangeOK
<1>2. /\ wire' = [t \in Host |-> wire'[t]] /\ wire'[w] = q
      /\ \A t \in Host : t # w => wire'[t] = wire[t]
  BY DEF ExchangeOK
<1> QED BY <1>1, <1>2 DEF ExchangeOK

\* A command returns or dies.
LEMMA LeaveKeeps ==
  ASSUME ExchangeOK, NEW r \in Host, NEW how, Leave(r, how)
  PROVE  ExchangeOK'
<1>1. PICK n \in 0..Len(wire[r]) : wire' = [wire EXCEPT ![r] = SubSeq(wire[r], 1, n)]
  BY DEF Leave
<1>2. WireOK(SubSeq(wire[r], 1, n))
  BY WireRest DEF ExchangeOK
<1>3. memory' = [memory EXCEPT ![r] = Fresh] /\ MemoryOK(Fresh)
  BY MemoryFacts DEF Leave
<1> QED BY <1>1, <1>2, <1>3, ChangeKeeps

\* A frame is sent, or refused.
LEMMA SendKeeps ==
  ASSUME ExchangeOK, NEW r \in Host, NEW frame, NEW message, NEW m, NEW next,
         MemoryOK(m), GoodMessages(message), SendFrame(r, frame, message, m, next)
  PROVE  ExchangeOK'
<1> DEFINE x == [frame |-> frame, message |-> message]
<1>1. CASE Leave(r, "refused")
  BY <1>1, LeaveKeeps
<1>2. CASE /\ \E s \in TraceStep(Sync, memory[r].machine, frame) :
                memory' = [memory EXCEPT ![r] = [m EXCEPT !.machine = s]]
           /\ wire' = [wire EXCEPT ![r] = Append(@, x)]
  <2>1. PICK s : memory' = [memory EXCEPT ![r] = [m EXCEPT !.machine = s]]
    BY <1>2
  <2>2. MemoryOK([m EXCEPT !.machine = s])
    BY MemoryFacts
  <2>3. WireOK(wire[r]) /\ x.message = message
    BY DEF ExchangeOK
  <2> HIDE DEF x
  <2>4. WireOK(Append(wire[r], x))
    BY <2>3, WireAppend
  <2>5. wire' = [wire EXCEPT ![r] = Append(wire[r], x)]
    BY <1>2
  <2> QED BY <2>1, <2>2, <2>4, <2>5, ChangeKeeps
<1> QED BY <1>1, <1>2 DEF SendFrame

\* A frame is received, or the command ends on it.
LEMMA ReceiveKeeps ==
  ASSUME ExchangeOK, NEW r \in Host, NEW m, NEW next, MemoryOK(m), Incoming(r) # <<>>,
         ReceiveFrame(r, m, next)
  PROVE  ExchangeOK'
<1> DEFINE w == OtherHost(r)
<1>1. w \in Host /\ WireOK(Tail(wire[w])) /\ wire' = [wire EXCEPT ![w] = Tail(wire[w])]
  BY HostFacts, WireRest DEF ReceiveFrame, Incoming, ExchangeOK
<1>2. memory' = [memory EXCEPT ![r] = Fresh]
        \/ \E s : memory' = [memory EXCEPT ![r] = [m EXCEPT !.machine = s]]
  BY DEF ReceiveFrame
<1> HIDE DEF w
<1>3. CASE memory' = [memory EXCEPT ![r] = Fresh]
  <2>1. MemoryOK(Fresh)
    BY MemoryFacts
  <2> QED BY <1>1, <1>3, <2>1, ChangeKeeps
<1>4. CASE \E s : memory' = [memory EXCEPT ![r] = [m EXCEPT !.machine = s]]
  <2>1. PICK s : memory' = [memory EXCEPT ![r] = [m EXCEPT !.machine = s]]
    BY <1>4
  <2>2. MemoryOK([m EXCEPT !.machine = s])
    BY MemoryFacts
  <2> QED BY <1>1, <2>1, <2>2, ChangeKeeps
<1> QED BY <1>2, <1>3, <1>4

\* A message carries only changes of its sender's document.
LEMMA SentFacts ==
  ASSUME NEW d, NEW held, NEW s, PeerOK(s), GoodDoc(d), NEW x \in ToSend(d, s)
  PROVE  x \subseteq d /\ GoodMessages(SyncMessage(d, held, s, x))
<1>1. x \subseteq d
  <2>1. CASE s.have = "unknown"
    BY <2>1 DEF ToSend
  <2>2. CASE s.have = "nothing"
    BY <2>2 DEF ToSend
  <2>3. CASE s.have = "summary"
    BY <2>3 DEF ToSend
  <2> QED BY <2>1, <2>2, <2>3 DEF PeerOK
<1>2. GoodDoc(x)
  BY <1>1, GoodFacts
<1>3. \A m \in SyncMessage(d, held, s, x) : m.changes = x
  BY DEF SyncMessage, Only
<1> QED BY <1>1, <1>2, <1>3 DEF GoodMessages

\* The state a peer is thought to be in, after a message to it or from it.
LEMMA PeerFacts ==
  ASSUME NEW s, PeerOK(s)
  PROVE  /\ \A d, x : PeerOK(AfterGenerate(d, s, x))
         /\ \A d, m : PeerOK(AfterReceive(d, s, m))
<1>0. /\ s = [their |-> s.their, need |-> s.need, have |-> s.have, last |-> s.last,
              responded |-> s.responded, in_flight |-> s.in_flight, sent |-> s.sent]
      /\ s.have \in {"unknown", "nothing", "summary"}
  BY DEF PeerOK
<1>1. ASSUME NEW d, NEW x PROVE PeerOK(AfterGenerate(d, s, x))
  <2> DEFINE n == AfterGenerate(d, s, x)
  <2>1. n = [s EXCEPT !.last = {d}, !.responded = TRUE, !.in_flight = TRUE, !.sent = s.sent \cup x]
    BY DEF AfterGenerate
  <2> HIDE DEF n
  <2>2. /\ DOMAIN n = {"their", "need", "have", "last", "responded", "in_flight", "sent"}
        /\ n.have = s.have
    BY <1>0, <2>1
  <2>3. n = [i \in DOMAIN n |-> n[i]]
    BY <1>0, <2>1
  <2>4. n = [their |-> n.their, need |-> n.need, have |-> n.have, last |-> n.last,
             responded |-> n.responded, in_flight |-> n.in_flight, sent |-> n.sent]
    BY <2>2, <2>3
  <2>5. PeerOK(n)
    BY <1>0, <2>2, <2>4 DEF PeerOK
  <2> QED BY <2>5 DEF n
<1>2. ASSUME NEW d, NEW m PROVE PeerOK(AfterReceive(d, s, m))
  <2> DEFINE n == AfterReceive(d, s, m)
             have == IF m.have THEN "summary" ELSE "nothing"
             last == IF m.changes = {} /\ m.heads = d THEN {d} ELSE s.last
  <2>1. n = [s EXCEPT !.their = {m.heads}, !.need = m.need, !.in_flight = FALSE,
                      !.have = have, !.sent = s.sent \ m.heads, !.last = last]
    BY DEF AfterReceive
  <2>2. have \in {"summary", "nothing"}
    OBVIOUS
  <2> HIDE DEF n, have, last
  <2>3. /\ DOMAIN n = {"their", "need", "have", "last", "responded", "in_flight", "sent"}
        /\ n.have = have
    BY <1>0, <2>1
  <2>4. n = [i \in DOMAIN n |-> n[i]]
    BY <1>0, <2>1
  <2>5. n = [their |-> n.their, need |-> n.need, have |-> n.have, last |-> n.last,
             responded |-> n.responded, in_flight |-> n.in_flight, sent |-> n.sent]
    BY <2>3, <2>4
  <2>6. PeerOK(n)
    BY <2>2, <2>3, <2>5 DEF PeerOK
  <2> QED BY <2>6 DEF n
<1> QED BY <1>1, <1>2

\* A message is generated, or there is none.
LEMMA OfferKeeps ==
  ASSUME ExchangeOK, NEW r \in Host, NEW quiet, NEW m, NEW next, MemoryOK(m),
         Offer(r, quiet, m, next)
  PROVE  ExchangeOK'
<1> DEFINE mem == memory[r]
<1>0. MemoryOK(mem) /\ PeerOK(mem.peer) /\ GoodDoc(mem.doc)
  BY DEF ExchangeOK, MemoryOK
<1>1. PICK x \in ToSend(mem.doc, mem.peer) :
        \/ SendFrame(r, SelectFrame(r, "message"), {},
                     [mem EXCEPT !.outbox = SyncMessage(mem.doc, mem.held, mem.peer, x),
                                 !.peer = AfterGenerate(mem.doc, mem.peer, x)], "data")
        \/ SendFrame(r, SelectFrame(r, quiet), {}, m, next)
  BY DEF Offer
<1> DEFINE o == SyncMessage(mem.doc, mem.held, mem.peer, x)
           p == AfterGenerate(mem.doc, mem.peer, x)
           n == [mem EXCEPT !.outbox = o, !.peer = p]
<1>2. GoodMessages(o) /\ PeerOK(p) /\ GoodMessages({})
  BY <1>0, SentFacts, PeerFacts DEF GoodMessages
<1> HIDE DEF mem, o, p
<1>3. MemoryOK(n)
  <2>1. n = [doc |-> n.doc, loaded |-> n.loaded, held |-> n.held, peer |-> n.peer,
             outbox |-> n.outbox, machine |-> n.machine, round |-> n.round]
    <3>1. DOMAIN n = DOMAIN mem /\ n = [i \in DOMAIN n |-> n[i]]
      OBVIOUS
    <3> HIDE DEF n
    <3> QED BY <1>0, <3>1, MemoryShape
  <2>2. /\ n.doc = mem.doc /\ n.loaded = mem.loaded /\ n.held = mem.held /\ n.peer = p
        /\ n.outbox = o
    BY <1>0 DEF MemoryOK
  <2> HIDE DEF n
  <2> QED BY <1>0, <1>2, <2>1, <2>2 DEF MemoryOK
<1>4. \/ SendFrame(r, SelectFrame(r, "message"), {}, n, "data")
      \/ SendFrame(r, SelectFrame(r, quiet), {}, m, next)
  BY <1>1 DEF o, p
<1> HIDE DEF n
<1> QED BY <1>2, <1>3, <1>4, SendKeeps

\* Received changes are applied or held back, and none is made up.
LEMMA Received ==
  ASSUME NEW mem, MemoryOK(mem), NEW m, GoodDoc(m.changes)
  PROVE  LET now == Applied(mem.doc, mem.held, m)
             after == [mem EXCEPT !.doc = now, !.held = (mem.held \cup m.changes) \ now,
                                  !.peer = AfterReceive(mem.doc, mem.peer, m)]
         IN  /\ MemoryOK(after) /\ after.loaded = mem.loaded /\ after.outbox = mem.outbox
             /\ after.machine = mem.machine /\ after.round = mem.round
             /\ after.peer = AfterReceive(mem.doc, mem.peer, m)
             /\ after.doc \subseteq mem.doc \cup (mem.held \cup m.changes)
             /\ after.held \subseteq mem.held \cup m.changes
<1> DEFINE now == Applied(mem.doc, mem.held, m)
           held == (mem.held \cup m.changes) \ now
           p == AfterReceive(mem.doc, mem.peer, m)
           after == [mem EXCEPT !.doc = now, !.held = held, !.peer = p]
<1>1. GoodDoc(mem.doc) /\ GoodDoc(mem.held) /\ mem.loaded \subseteq mem.doc
  BY DEF MemoryOK
<1>2. mem.doc \subseteq now /\ now \subseteq mem.doc \cup (mem.held \cup m.changes)
  BY DEF Applied
<1>3. GoodDoc(mem.held \cup m.changes)
  BY <1>1, GoodFacts
<1>4. GoodDoc(mem.doc \cup (mem.held \cup m.changes))
  BY <1>1, <1>3, GoodFacts
<1>5. GoodDoc(now)
  <2> HIDE DEF now
  <2> QED BY <1>2, <1>4, GoodFacts
<1>6. held \subseteq mem.held \cup m.changes
  OBVIOUS
<1>7. GoodDoc(held)
  <2> HIDE DEF held
  <2> QED BY <1>3, <1>6, GoodFacts
<1>8. PeerOK(p)
  BY PeerFacts DEF MemoryOK
<1>9. /\ after.doc = now /\ after.loaded = mem.loaded /\ after.held = held
      /\ after.peer = p /\ after.outbox = mem.outbox
      /\ after.machine = mem.machine /\ after.round = mem.round
  <2> HIDE DEF now, held, p
  <2> QED BY DEF MemoryOK
<1>10. MemoryOK(after)
  <2> HIDE DEF now, held, p
  <2>1. after = [doc |-> after.doc, loaded |-> after.loaded, held |-> after.held,
                 peer |-> after.peer, outbox |-> after.outbox, machine |-> after.machine,
                 round |-> after.round]
    <3>1. DOMAIN after = DOMAIN mem /\ after = [i \in DOMAIN after |-> after[i]]
      OBVIOUS
    <3> HIDE DEF after
    <3> QED BY <3>1, MemoryShape
  <2> HIDE DEF after
  <2> QED BY <1>1, <1>2, <1>5, <1>7, <1>8, <1>9, <2>1 DEF MemoryOK
<1> HIDE DEF now, held, p, after
<1>11. /\ MemoryOK(after) /\ after.loaded = mem.loaded /\ after.outbox = mem.outbox
       /\ after.machine = mem.machine /\ after.round = mem.round /\ after.peer = p
       /\ after.doc \subseteq mem.doc \cup (mem.held \cup m.changes)
       /\ after.held \subseteq mem.held \cup m.changes
  BY <1>2, <1>6, <1>9, <1>10
<1> QED BY <1>11 DEF now, held, p, after

\* A sync command goes on with what it has received, or ends.
LEMMA SyncKeeps ==
  ASSUME ExchangeOK, NEW r \in Host, ReceiveSync(r)
  PROVE  ExchangeOK'
<1> DEFINE mem == memory[r]
           head == Head(Incoming(r))
<1>0. MemoryOK(mem) /\ GoodMessages(head.message) /\ Incoming(r) # <<>>
  BY HostFacts, WireRest DEF ExchangeOK, ReceiveSync, Incoming
<1>1. CASE head.message = {}
  BY <1>0, <1>1, ReceiveKeeps DEF ReceiveSync
<1>2. CASE head.message # {}
  <2>1. PICK m \in head.message :
          LET now == Applied(mem.doc, mem.held, m)
              after == [mem EXCEPT !.doc = now, !.held = (mem.held \cup m.changes) \ now,
                                   !.peer = AfterReceive(mem.doc, mem.peer, m)]
          IN  IF r = Client THEN ReceiveFrame(r, RoundDone(after), {"turn"})
                            ELSE ReceiveFrame(r, after, {"answer"})
    BY <1>2 DEF ReceiveSync
  <2> DEFINE now == Applied(mem.doc, mem.held, m)
             after == [mem EXCEPT !.doc = now, !.held = (mem.held \cup m.changes) \ now,
                                  !.peer = AfterReceive(mem.doc, mem.peer, m)]
  <2>2. GoodDoc(m.changes)
    BY <1>0 DEF GoodMessages
  <2>3. MemoryOK(after)
    <3> HIDE DEF mem
    <3> QED BY <1>0, <2>2, Received
  <2>4. IF r = Client THEN ReceiveFrame(r, RoundDone(after), {"turn"})
                      ELSE ReceiveFrame(r, after, {"answer"})
    BY <2>1
  <2> HIDE DEF mem, after
  <2> QED BY <1>0, <2>3, <2>4, MemoryFacts, ReceiveKeeps
<1> QED BY <1>1, <1>2

\* A command reads its file.
LEMMA LoadKeeps ==
  ASSUME FilesOK, ExchangeOK, NEW r \in Host, LoadDraft(r)
  PROVE  ExchangeOK'
<1> DEFINE mem == memory[r]
           n == [mem EXCEPT !.doc = file[r], !.loaded = file[r]]
<1>0. MemoryOK(mem) /\ GoodDoc(file[r])
  BY DEF ExchangeOK, FilesOK
<1>1. memory' = [memory EXCEPT ![r] = n]
  BY DEF LoadDraft, ExchangeOK
<1>2. wire' = wire
  BY DEF LoadDraft
<1> HIDE DEF mem
<1>3. MemoryOK(n)
  <2>1. n = [doc |-> n.doc, loaded |-> n.loaded, held |-> n.held, peer |-> n.peer,
             outbox |-> n.outbox, machine |-> n.machine, round |-> n.round]
    <3>1. DOMAIN n = DOMAIN mem /\ n = [i \in DOMAIN n |-> n[i]]
      OBVIOUS
    <3> HIDE DEF n
    <3> QED BY <1>0, <3>1, MemoryShape
  <2>2. /\ n.doc = file[r] /\ n.loaded = file[r] /\ n.held = mem.held /\ n.peer = mem.peer
        /\ n.outbox = mem.outbox
    BY <1>0 DEF MemoryOK
  <2> HIDE DEF n
  <2> QED BY <1>0, <2>1, <2>2 DEF MemoryOK
<1> HIDE DEF n
<1>4. /\ memory' = [t \in Host |-> memory'[t]] /\ memory'[r] = n
      /\ \A t \in Host : t # r => memory'[t] = memory[t]
  BY <1>1 DEF ExchangeOK
<1> QED BY <1>2, <1>3, <1>4 DEF ExchangeOK

-----------------------------------------------------------------------------
(***************************************************************************)
(* The invariant.                                                          *)
(***************************************************************************)
\* Two copies of a draft nobody has edited.
LEMMA DraftInitInv == ExchangeInit => DraftInv
<1> SUFFICES ASSUME ExchangeInit PROVE DraftInv
  OBVIOUS
<1>1. FilesOK
  BY CreationIsGood DEF ExchangeInit, DraftInit, FilesOK
<1>2. WireOK(<<>>)
  <2>1. <<>> \in Seq({}) /\ Len(<<>>) = 0
    OBVIOUS
  <2>2. IsSeq(<<>>)
    BY <2>1, OwnElements
  <2> QED BY <2>1, <2>2 DEF WireOK
<1>3. MemoryOK(Fresh)
  BY MemoryFacts
<1>4. ExchangeOK
  BY <1>2, <1>3 DEF ExchangeInit, ExchangeOK
<1> QED BY <1>1, <1>4 DEF DraftInv

\* What a step of an editor leaves alone, and what it keeps.
LEMMA EditInv ==
  ASSUME DraftInv, Edit, UNCHANGED exchangeVars
  PROVE  DraftInv'
<1>1. FilesOK'
  BY OpenKeeps, MergeKeeps, PatchKeeps, SaveKeeps, CreateKeeps DEF DraftInv, Edit
<1>2. UNCHANGED <<memory, wire>>
  BY DEF exchangeVars
<1>3. ExchangeOK'
  BY <1>2 DEF DraftInv, ExchangeOK
<1> QED BY <1>1, <1>3 DEF DraftInv

\* What a step of a sync command keeps, besides its save.
LEMMA DriveInv ==
  ASSUME DraftInv, NEW r \in Host, (Drive(r) /\ ~SaveSync(r)) \/ Fail(r)
  PROVE  DraftInv'
<1>0. /\ FilesOK /\ ExchangeOK /\ MemoryOK(memory[r]) /\ MemoryOK(RoundDone(memory[r]))
      /\ MemoryOK([memory[r] EXCEPT !.outbox = {}])
      /\ MemoryOK(RoundDone([memory[r] EXCEPT !.outbox = {}]))
      /\ GoodMessages(memory[r].outbox)
  BY MemoryFacts DEF DraftInv, ExchangeOK, MemoryOK
<1>1. CASE LoadDraft(r)
  <2>1. ExchangeOK' /\ UNCHANGED draftVars
    BY <1>0, <1>1, LoadKeeps DEF LoadDraft
  <2> QED BY <1>0, <2>1 DEF DraftInv, FilesOK, draftVars
<1>2. CASE TooManyRounds(r) \/ Fail(r)
  <2>1. ExchangeOK' /\ UNCHANGED draftVars
    BY <1>0, <1>2, LeaveKeeps DEF TooManyRounds, Fail
  <2> QED BY <1>0, <2>1 DEF DraftInv, FilesOK, draftVars
<1>3. CASE SendSync(r)
  <2>1. UNCHANGED draftVars
    BY <1>3 DEF SendSync
  <2>2. \E m, next : /\ MemoryOK(m)
                     /\ SendFrame(r, DataFrame(r, OtherHost(r), "sync"), memory[r].outbox, m, next)
    BY <1>0, <1>3 DEF SendSync
  <2>3. ExchangeOK'
    BY <1>0, <2>2, SendKeeps
  <2> QED BY <1>0, <2>1, <2>3 DEF DraftInv, FilesOK, draftVars
<1>4. CASE ReceiveSync(r)
  <2>1. ExchangeOK' /\ UNCHANGED draftVars
    BY <1>0, <1>4, SyncKeeps DEF ReceiveSync
  <2> QED BY <1>0, <2>1 DEF DraftInv, FilesOK, draftVars
<1>5. CASE FinishSync(r)
  <2>1. UNCHANGED <<memory, wire>> /\ UNCHANGED draftVars
    BY <1>5 DEF FinishSync
  <2> QED BY <1>0, <2>1 DEF DraftInv, FilesOK, ExchangeOK, draftVars
<1>6. CASE r = Client /\ ClientTurn
  <2>1. ExchangeOK' /\ UNCHANGED draftVars
    BY <1>0, <1>6, OfferKeeps DEF ClientTurn
  <2> QED BY <1>0, <2>1 DEF DraftInv, FilesOK, draftVars
<1>7. CASE r = Server /\ ServerAnswer
  <2>1. ExchangeOK' /\ UNCHANGED draftVars
    BY <1>0, <1>7, OfferKeeps DEF ServerAnswer
  <2> QED BY <1>0, <2>1 DEF DraftInv, FilesOK, draftVars
<1>8. CASE r = Client /\ ClientReply
  <2>1. /\ UNCHANGED draftVars /\ Incoming(r) # <<>>
        /\ \E m, next : MemoryOK(m) /\ ReceiveFrame(r, m, next)
    BY <1>0, <1>8 DEF ClientReply
  <2>2. ExchangeOK'
    BY <1>0, <2>1, ReceiveKeeps
  <2> QED BY <1>0, <2>1, <2>2 DEF DraftInv, FilesOK, draftVars
<1>9. CASE r = Server /\ ServerWait
  <2>1. ExchangeOK' /\ UNCHANGED draftVars
    BY <1>0, <1>9, ReceiveKeeps DEF ServerWait
  <2> QED BY <1>0, <2>1 DEF DraftInv, FilesOK, draftVars
<1> QED BY <1>1, <1>2, <1>3, <1>4, <1>5, <1>6, <1>7, <1>8, <1>9 DEF Drive

\* A sync command saves.
LEMMA SaveSyncInv ==
  ASSUME DraftInv, NEW r \in Host, SaveSync(r)
  PROVE  DraftInv'
<1>1. ExchangeOK'
  BY LeaveKeeps DEF SaveSync, DraftInv
<1>2. /\ file' = [file EXCEPT ![r] = memory[r].doc] /\ editor' = editor
      /\ GoodDoc(memory[r].doc)
  BY DEF SaveSync, DraftInv, ExchangeOK, MemoryOK
<1>3. /\ file' = [g \in Host |-> file'[g]] /\ file'[r] = memory[r].doc
      /\ \A g \in Host : g # r => file'[g] = file[g]
  BY <1>2 DEF DraftInv, FilesOK
<1> QED BY <1>1, <1>2, <1>3 DEF DraftInv, FilesOK

\* Every step keeps the invariant.
LEMMA DraftStepInv == DraftInv /\ [ExchangeNext]_allVars => DraftInv'
<1> SUFFICES ASSUME DraftInv, [ExchangeNext]_allVars PROVE DraftInv'
  OBVIOUS
<1>1. CASE UNCHANGED allVars
  <2>1. UNCHANGED <<file, editor, memory, wire>>
    BY <1>1 DEF allVars, draftVars, exchangeVars
  <2> QED BY <2>1 DEF DraftInv, FilesOK, ExchangeOK
<1>2. CASE NextSession
  <2>1. UNCHANGED <<file, editor, memory>> /\ wire' = [r \in Host |-> <<>>]
    BY <1>2 DEF NextSession, draftVars
  <2>2. "client" \in Host
    BY DEF Host
  <2>3. WireOK(<<>>)
    BY <2>2, WireRest DEF DraftInv, ExchangeOK
  <2> QED BY <2>1, <2>3 DEF DraftInv, FilesOK, ExchangeOK
<1> QED BY <1>1, <1>2, EditInv, DriveInv, SaveSyncInv DEF ExchangeNext

-----------------------------------------------------------------------------
(***************************************************************************)
(* The theorems.                                                           *)
(***************************************************************************)
\* Editors and sync commands keep the invariant.
THEOREM DraftInvariance == ExchangeSpec => []DraftInv
BY DraftInitInv, DraftStepInv, PTL DEF ExchangeSpec

\* The documents the properties speak of are good ones.
LEMMA DocumentsAreGood ==
  ASSUME DraftInv, NEW d \in Documents
  PROVE  GoodDoc(d)
BY DEF DraftInv, FilesOK, EditorOK, Documents

\* An edit replaces nothing its editor had not read: apply_scalar_patch compares the
\* heads it is given with those of the document it changes.
THEOREM ReplaceTheorem == ExchangeSpec => []EditsReplaceWhatWasRead
<1>1. DraftInv => EditsReplaceWhatWasRead
  BY DocumentsAreGood DEF EditsReplaceWhatWasRead, GoodDoc, ChangeOK
<1> QED BY <1>1, DraftInvariance, PTL

\* Where there is no conflict, a path that can be reached has the value of the one
\* write that no later write has seen.
LEMMA OneCompetes ==
  ASSUME NEW d, GoodDoc(d), Conflicts(d) = {}, NEW p \in Path, Reachable(d, p),
         NEW c \in Competing(d, p)
  PROVE  ValueAt(d, p) = ValueOf(c, p)
<1> DEFINE S == Competing(d, p)
<1>1. S \subseteq d
  BY DEF Competing, Writes
<1>2. IsFiniteSet(S)
  BY <1>1, FS_Subset DEF GoodDoc
<1>3. ~(Cardinality(S) > 1)
  BY DEF Conflicts
<1> HIDE DEF S
<1>4. S = {c}
  <2> SUFFICES ASSUME NEW e \in S, e # c PROVE FALSE
    BY DEF S
  <2>1. c \in S /\ Cardinality(S) \in Nat
    BY <1>2, FS_CardinalityType DEF S
  <2>2. IsFiniteSet(S \ {c}) /\ Cardinality(S \ {c}) = Cardinality(S) - 1
    BY <1>2, <2>1, FS_RemoveElement
  <2>3. Cardinality(S \ {c}) \in Nat /\ Cardinality(S \ {c}) # 0
    BY <2>2, FS_CardinalityType, FS_EmptySet
  <2> QED BY <1>3, <2>1, <2>2, <2>3
<1> QED BY <1>4 DEF ValueAt, S

\* promote drops no edit on its own: without a conflict every write that no later
\* one has seen is in the materialized document, where the object is still there.
THEOREM PromotionTheorem == ExchangeSpec => []PromotionKeepsEdits
<1>1. DraftInv => PromotionKeepsEdits
  <2> SUFFICES ASSUME DraftInv, NEW d \in Documents, NEW m \in Promote(d), NEW c \in d,
                      ~IsCreation(c), ~\E e \in d : e.path = c.path /\ c \in e.past
               PROVE  \/ c.path \in DOMAIN m /\ m[c.path] = c.value
                      \/ \E q \in ParentOf[c.path] \cap DOMAIN m :
                           \E e \in d : e.path = q /\ m[q] = e.value
    BY DEF PromotionKeepsEdits
  <2>1. GoodDoc(d) /\ Conflicts(d) = {} /\ m = Materialize(d)
    BY DocumentsAreGood DEF Promote
  <2>2. c.path \in Path /\ c \in Competing(d, c.path)
    BY <2>1 DEF GoodDoc, ChangeOK, IsCreation, Competing, Writes
  <2>3. ASSUME NEW p \in Path, Reachable(d, p), NEW e \in Competing(d, p), ~IsCreation(e)
        PROVE  p \in DOMAIN m /\ m[p] = e.value /\ e \in d /\ e.path = p
    <3>1. e \in d /\ e.path = p
      BY <2>3 DEF Competing, Writes
    <3>2. ValueAt(d, p) = e.value
      BY <2>1, <2>3, OneCompetes DEF ValueOf
    <3> QED BY <2>1, <2>3, <3>1, <3>2 DEF Materialize
  <2>4. CASE Reachable(d, c.path)
    BY <2>2, <2>3, <2>4
  <2>5. CASE ~Reachable(d, c.path)
    <3>1. PICK q \in ParentOf[c.path] :
            ~(/\ Cardinality(Competing(d, q)) <= 1
              /\ \A e \in Competing(d, q) : IsCreation(e))
      BY <2>5 DEF Reachable
    <3>2. q \in Path /\ ParentOf[q] = {}
      BY <2>2, ParentAssumption
    <3>3. Reachable(d, q)
      BY <3>2 DEF Reachable
    <3>4. Cardinality(Competing(d, q)) <= 1
      <4>1. IsFiniteSet(Competing(d, q))
        BY <2>1, FS_Subset DEF GoodDoc, Competing, Writes
      <4>2. Cardinality(Competing(d, q)) \in Nat
        BY <4>1, FS_CardinalityType
      <4>3. ~(Cardinality(Competing(d, q)) > 1)
        BY <2>1, <3>2, <3>3 DEF Conflicts
      <4> QED BY <4>2, <4>3
    <3>5. PICK e \in Competing(d, q) : ~IsCreation(e)
      BY <3>1, <3>4
    <3> QED BY <2>3, <3>1, <3>2, <3>3, <3>5
  <2> QED BY <2>4, <2>5
<1> QED BY <1>1, DraftInvariance, PTL

\* What a file loses, it loses to a document that was made without a look at it: an
\* editor and a sync command only ever add to what they have loaded, so what they write
\* back to a file that is still as it was contains it.
THEOREM EditsTheorem == ExchangeSpec => EditsLostOnlyToBlindWrites
<1> DEFINE Kept == \A h \in Host :
       \/ file[h] \subseteq file'[h]
       \/ \E g \in Host : \E e \in editor[g] :
            /\ e.patched /\ editor'[g] = {}
            /\ file'[h] = e.doc
            /\ g # h \/ e.from # file[h]
       \/ /\ at[h] = "save"
          /\ file'[h] = memory[h].doc
          /\ memory[h].loaded # file[h]
       \/ file'[h] = {Creation(edits)} /\ edits' = edits + 1
<1>1. ASSUME DraftInv, file' = file PROVE Kept
  BY <1>1
<1>2. ASSUME DraftInv, NEW g \in Host, NEW out, SaveDraft(g, out) PROVE Kept
  <2>1. PICK e \in editor[g] :
          e.patched /\ file' = [h \in Host |-> IF h = out THEN e.doc ELSE file[h]]
    BY <1>2 DEF SaveDraft
  <2>2. e.from \subseteq e.doc /\ editor'[g] = {}
    BY <1>2 DEF DraftInv, FilesOK, EditorOK, SaveDraft
  <2> SUFFICES ASSUME NEW h \in Host, ~(file[h] \subseteq file'[h])
               PROVE  file'[h] = e.doc /\ (g # h \/ e.from # file[h])
    BY <2>1, <2>2
  <2>3. file'[h] = file[h] \/ file'[h] = e.doc
    BY <2>1
  <2> QED BY <2>2, <2>3
<1>3. ASSUME DraftInv, NEW r \in Host, SaveSync(r) PROVE Kept
  <2>1. at[r] = "save" /\ file' = [file EXCEPT ![r] = memory[r].doc]
    BY <1>3 DEF SaveSync, Calls
  <2>2. memory[r].loaded \subseteq memory[r].doc
    BY <1>3 DEF DraftInv, ExchangeOK, MemoryOK
  <2>3. file'[r] = memory[r].doc /\ \A g \in Host : g # r => file'[g] = file[g]
    BY <1>3, <2>1 DEF DraftInv, FilesOK
  <2> QED BY <2>1, <2>2, <2>3
<1>4. ASSUME DraftInv, NEW h \in Host, DraftCreate(h) PROVE Kept
  <2>1. /\ file'[h] = {Creation(edits)} /\ \A g \in Host : g # h => file'[g] = file[g]
        /\ edits' = edits + 1
    BY <1>4 DEF DraftCreate, DraftInv, FilesOK
  <2> QED BY <2>1
<1>5. DraftInv /\ [ExchangeNext]_allVars => [Kept]_allVars
  <2> SUFFICES ASSUME DraftInv, ExchangeNext PROVE Kept
    OBVIOUS
  <2>1. CASE Edit
    <3>1. CASE \E h \in Host : \E out \in Host \cup {"elsewhere"} : SaveDraft(h, out)
      BY <1>2, <3>1
    <3>2. CASE \E h \in Host : DraftCreate(h)
      BY <1>4, <3>2
    <3>3. CASE \E h \in Host : \/ OpenDraft(h) \/ MergeInto(h)
                               \/ \E patch \in Patch : PatchDraft(h, patch)
      <4>1. file' = file
        BY <3>3 DEF OpenDraft, MergeInto, PatchDraft
      <4> QED BY <1>1, <4>1
    <3> QED BY <2>1, <3>1, <3>2, <3>3 DEF Edit
  <2>2. CASE \E r \in Host : SaveSync(r)
    BY <1>3, <2>2
  <2>3. CASE UNCHANGED draftVars
    BY <1>1, <2>3 DEF draftVars
  <2>4. Edit \/ (\E r \in Host : SaveSync(r)) \/ UNCHANGED draftVars
    BY DEF ExchangeNext, NextSession, Drive, Fail, LoadDraft, TooManyRounds, SendSync, ReceiveSync,
           FinishSync, ClientTurn, ClientReply, ServerWait, ServerAnswer
  <2> QED BY <2>1, <2>2, <2>3, <2>4
<1> QED BY <1>5, DraftInvariance, PTL DEF ExchangeSpec, EditsLostOnlyToBlindWrites

-----------------------------------------------------------------------------
(***************************************************************************)
(* The loops.  The second invariant says where each command may be in its  *)
(* loop and machine, what it may find in its inbox there, and, while both  *)
(* run, at which of six points of a round the two are and what each knows  *)
(* of the other's document at that point.  When one has left, the other    *)
(* keeps its place and what was in flight, or a first part of it.          *)
(***************************************************************************)
\* What a loop sends: a selection, or a data frame with a sync message.
Word(r, label) == [frame |-> SelectFrame(r, label), message |-> {}]
Letter(r, m) == [frame |-> DataFrame(r, OtherHost(r), "sync"), message |-> {m}]

Place(r) ==
  IF r = Client THEN {"stopped", "load", "turn", "data", "reply", "body", "finish", "save"}
                ELSE {"stopped", "load", "wait", "body", "answer", "data", "finish", "save"}

\* The machine's state at a call of the loop.
StateAt(r, a) ==
  CASE a \in {"stopped", "load", "turn", "wait"} -> "client-turn"
    [] a = "data" -> IF r = Client THEN "client-send" ELSE "server-send"
    [] a = "body" -> IF r = Client THEN "server-send" ELSE "client-send"
    [] a \in {"reply", "answer"} -> "server-turn"
    [] OTHER -> "end"

\* One command: its machine is where its loop is, a message is in its outbox exactly
\* when it is due, and its rounds are not used up within one.
CommandOK(r) ==
  /\ at[r] \in Place(r) /\ outcome[r] # "refused"
  /\ Running(r) <=> at[r] # "stopped"
  /\ at[r] \in {"stopped", "load"} => memory[r] = Fresh
  /\ memory[r].machine = StateAt(r, at[r])
  /\ memory[r].round \in 0..MaxRounds
  /\ at[r] \notin {"stopped", "load", "turn", "wait"} => memory[r].round < MaxRounds
  /\ IF at[r] = "data" THEN \E m \in memory[r].outbox : memory[r].outbox = {m}
                       ELSE memory[r].outbox = {}

\* An announced message on its way, and one whose announcement was read.
IsPost(o, q) ==
  Len(q) = 2 /\ \E m \in q[2].message : q = <<Word(o, "message"), Letter(o, m)>>
IsLetter(o, q) == Len(q) = 1 /\ \E m \in q[1].message : q = <<Letter(o, m)>>

Quiet(o) == IF o = Client THEN "done" ELSE "idle"
Listens(r) == at[r] \in (IF r = Client THEN {"reply"} ELSE {"load", "wait"})

\* What role r may find in flight to it, whether or not its sender still runs.
InboxOK(r) ==
  LET o == OtherHost(r) q == wire[OtherHost(r)] IN
  \/ q = <<>>
  \/ Listens(r) /\ (q = <<Word(o, "message")>> \/ q = <<Word(o, Quiet(o))>> \/ IsPost(o, q))
  \/ at[r] = "body" /\ IsLetter(o, q)

Both == \A r \in Host : Running(r)

\* The changes of both files, and the messages that a role generated and that were
\* not received: its outbox b and those in its frames q.
Loaded == memory[Client].loaded \cup memory[Server].loaded
Said(b, q) == b \cup UNION {q[i].message : i \in DOMAIN q}

\* No change is made up on the way, and what a message says of its sender's heads is
\* still so when it is received.
ContentOK(r) ==
  /\ memory[r].doc \subseteq Loaded /\ memory[r].held \subseteq Loaded
  /\ \A m \in Said(memory[r].outbox, wire[r]) :
       m.heads = memory[r].doc /\ m.changes \subseteq Loaded

\* The round counters, and the documents.
Level == memory[Server].round = memory[Client].round
Ahead == memory[Server].round = memory[Client].round + 1
Equal == memory[Client].doc = memory[Server].doc
Unsent(r) == wire[r] = <<>>

\* The client has the turn.  Once it has spoken it has been answered: by a message,
\* and then it knows the server's document, or by idle, and then they are equal.
AtTurn ==
  /\ at[Client] \in {"load", "turn"} /\ at[Server] \in {"load", "wait"}
  /\ Unsent(Client) /\ Unsent(Server) /\ Level
  /\ LET p == memory[Client].peer IN
       p.responded => /\ at[Server] = "wait"
                      /\ IF p.in_flight THEN Equal ELSE p.their = {memory[Server].doc}

\* The client's message is on its way.
Asking ==
  /\ Unsent(Server) /\ Level /\ memory[Client].peer.in_flight
  /\ \/ /\ at[Client] = "data" /\ at[Server] \in {"load", "wait"}
        /\ wire[Client] = <<Word(Client, "message")>>
     \/ at[Client] = "data" /\ at[Server] = "body" /\ Unsent(Client)
     \/ at[Client] = "reply" /\ at[Server] \in {"load", "wait"} /\ IsPost(Client, wire[Client])
     \/ at[Client] = "reply" /\ at[Server] = "body" /\ IsLetter(Client, wire[Client])

\* The server has received it, and has to answer.
AtAnswer ==
  /\ at[Client] = "reply" /\ at[Server] = "answer"
  /\ Unsent(Client) /\ Unsent(Server) /\ Level
  /\ memory[Client].peer.in_flight /\ ~memory[Server].peer.in_flight
  /\ memory[Server].peer.their = {memory[Client].doc}

\* The server's message is on its way.
Answering ==
  /\ Unsent(Client)
  /\ \/ /\ at[Client] = "reply" /\ at[Server] = "data" /\ Level
        /\ wire[Server] = <<Word(Server, "message")>>
     \/ at[Client] = "body" /\ at[Server] = "data" /\ Level /\ Unsent(Server)
     \/ at[Client] = "reply" /\ at[Server] = "wait" /\ Ahead /\ IsPost(Server, wire[Server])
     \/ at[Client] = "body" /\ at[Server] = "wait" /\ Ahead /\ IsLetter(Server, wire[Server])

\* The server is idle: it has what the client has.
Passing ==
  /\ at[Client] = "reply" /\ at[Server] = "wait"
  /\ Unsent(Client) /\ wire[Server] = <<Word(Server, "idle")>> /\ Ahead
  /\ memory[Client].peer.in_flight /\ Equal

\* The client is done.
Ending ==
  /\ Unsent(Server) /\ Level /\ Equal
  /\ \/ /\ at[Client] = "finish" /\ ~acked
        /\ \/ at[Server] = "wait" /\ wire[Client] = <<Word(Client, "done")>>
           \/ at[Server] = "finish" /\ Unsent(Client)
     \/ at[Client] \in {"finish", "save"} /\ at[Server] = "save" /\ Unsent(Client) /\ acked

Together ==
  /\ AtTurn \/ Asking \/ AtAnswer \/ Answering \/ Passing \/ Ending
  /\ acked => at[Server] = "save"

\* A client whose server gave up has no rounds left either, or is in its last one.
Abandoned ==
  (outcome[Server] = "rounds" /\ Running(Client)) =>
    \/ at[Client] \in {"load", "turn"} /\ memory[Client].round = MaxRounds
    \/ at[Client] \in {"reply", "body"} /\ memory[Client].round + 1 = MaxRounds

SyncInv ==
  /\ at = [r \in Host |-> at[r]] /\ outcome = [r \in Host |-> outcome[r]]
  /\ \A r \in Host : CommandOK(r) /\ (Running(r) => InboxOK(r))
  /\ Both => Together /\ \A r \in Host : ContentOK(r)
  /\ Abandoned

-----------------------------------------------------------------------------
\* The two commands.
LEMMA Hosts ==
  /\ Host = {Client, Server} /\ Client # Server /\ Client \in Host /\ Server \in Host
  /\ OtherHost(Client) = Server /\ OtherHost(Server) = Client
<1>1. Host = {Client, Server} /\ Client # Server
  BY DEF Host, Client, Server
<1> QED BY <1>1, HostFacts

\* What is written first is read first, and what is lost is lost from the end.
LEMMA Lists ==
  ASSUME NEW a, NEW b
  PROVE  /\ Head(<<a>>) = a /\ Tail(<<a>>) = <<>> /\ <<a>> # <<>>
         /\ Head(<<a, b>>) = a /\ Tail(<<a, b>>) = <<b>> /\ <<a, b>> # <<>>
         /\ Append(<<>>, a) = <<a>> /\ Append(<<a>>, b) = <<a, b>>
         /\ \A n \in 0..Len(<<>>) : SubSeq(<<>>, 1, n) = <<>>
         /\ \A n \in 0..Len(<<a>>) : SubSeq(<<a>>, 1, n) \in {<<>>, <<a>>}
         /\ \A n \in 0..Len(<<a, b>>) : SubSeq(<<a, b>>, 1, n) \in {<<>>, <<a>>, <<a, b>>}
<1>1. /\ Head(<<a>>) = a /\ Tail(<<a>>) = <<>> /\ <<a>> # <<>>
      /\ Head(<<a, b>>) = a /\ Tail(<<a, b>>) = <<b>> /\ <<a, b>> # <<>>
  OBVIOUS
<1>2. Append(<<>>, a) = <<a>> /\ Append(<<a>>, b) = <<a, b>>
  <2> DEFINE T == {a, b}
             p == Append(<<>>, a)
             q == Append(<<a>>, b)
  <2>1. <<>> \in Seq(T) /\ <<a>> \in Seq(T) /\ Len(<<>>) = 0 /\ Len(<<a>>) = 1 /\ <<a>>[1] = a
    OBVIOUS
  <2>2. p \in Seq(T) /\ Len(p) = 1 /\ p[1] = a
    BY <2>1
  <2>3. q \in Seq(T) /\ Len(q) = 2 /\ q[1] = a /\ q[2] = b
    BY <2>1
  <2> HIDE DEF p, q, T
  <2>4. p = <<p[1]>> /\ q = <<q[1], q[2]>>
    BY <2>2, <2>3
  <2> QED BY <2>2, <2>3, <2>4 DEF p, q
<1>3. Len(<<>>) = 0 /\ Len(<<a>>) = 1 /\ Len(<<a, b>>) = 2
  OBVIOUS
<1> DEFINE T == {a, b}
<1>4. ASSUME NEW q \in Seq(T), NEW n \in 0..Len(q)
      PROVE  /\ SubSeq(q, 1, n) \in Seq(T) /\ Len(SubSeq(q, 1, n)) = n
             /\ \A i \in 1..n : SubSeq(q, 1, n)[i] = q[i]
  OBVIOUS
<1>5. ASSUME NEW p \in Seq(T)
      PROVE  /\ Len(p) = 0 => p = <<>>
             /\ Len(p) = 1 => p = <<p[1]>>
             /\ Len(p) = 2 => p = <<p[1], p[2]>>
  OBVIOUS
<1>6. ASSUME NEW n \in 0..0 PROVE SubSeq(<<>>, 1, n) = <<>>
  <2> DEFINE q == <<>>
             p == SubSeq(q, 1, n)
  <2>1. q \in Seq(T) /\ Len(q) = 0 /\ n = 0
    OBVIOUS
  <2>2. p \in Seq(T) /\ Len(p) = 0
    BY <1>4, <2>1
  <2> HIDE DEF p, T
  <2>3. p = <<>>
    BY <1>5, <2>2
  <2> QED BY <2>3 DEF p
<1>7. ASSUME NEW n \in 0..1 PROVE SubSeq(<<a>>, 1, n) \in {<<>>, <<a>>}
  <2> DEFINE q == <<a>>
             p == SubSeq(q, 1, n)
  <2>1. q \in Seq(T) /\ Len(q) = 1 /\ q[1] = a /\ (n = 0 \/ n = 1)
    OBVIOUS
  <2>2. p \in Seq(T) /\ Len(p) = n /\ \A i \in 1..n : p[i] = q[i]
    BY <1>4, <2>1
  <2> HIDE DEF p, q, T
  <2>3. n = 1 => p[1] = a
    BY <2>1, <2>2
  <2>4. p \in {<<>>, <<a>>}
    BY <1>5, <2>1, <2>2, <2>3
  <2> QED BY <2>4 DEF p, q
<1>8. ASSUME NEW n \in 0..2 PROVE SubSeq(<<a, b>>, 1, n) \in {<<>>, <<a>>, <<a, b>>}
  <2> DEFINE q == <<a, b>>
             p == SubSeq(q, 1, n)
  <2>1. q \in Seq(T) /\ Len(q) = 2 /\ q[1] = a /\ q[2] = b /\ (n = 0 \/ n = 1 \/ n = 2)
    OBVIOUS
  <2>2. p \in Seq(T) /\ Len(p) = n /\ \A i \in 1..n : p[i] = q[i]
    BY <1>4, <2>1
  <2> HIDE DEF p, q, T
  <2>3. (n = 1 \/ n = 2 => p[1] = a) /\ (n = 2 => p[2] = b)
    BY <2>1, <2>2
  <2>4. p \in {<<>>, <<a>>, <<a, b>>}
    BY <1>5, <2>1, <2>2, <2>3
  <2> QED BY <2>4 DEF p, q
<1> HIDE DEF T
<1> QED BY <1>1, <1>2, <1>3, <1>6, <1>7, <1>8

\* Words and letters differ, and words by what they say.
LEMMA Words ==
  /\ \A r, l : /\ Word(r, l).frame = SelectFrame(r, l) /\ Word(r, l).message = {}
               /\ Word(r, l).frame.op = "select" /\ Word(r, l).frame.label = l
  /\ \A r, m : /\ Letter(r, m).frame = DataFrame(r, OtherHost(r), "sync")
               /\ Letter(r, m).message = {m} /\ Letter(r, m).frame.op = "data"
BY DEF Word, Letter, SelectFrame, DataFrame

\* A post is a word and a letter.
LEMMA Posts ==
  /\ \A o, q : IsPost(o, q) <=> \E m : q = <<Word(o, "message"), Letter(o, m)>>
  /\ \A o, q : IsLetter(o, q) <=> \E m : q = <<Letter(o, m)>>
<1>1. ASSUME NEW o, NEW m
      PROVE  /\ IsPost(o, <<Word(o, "message"), Letter(o, m)>>)
             /\ IsLetter(o, <<Letter(o, m)>>)
  <2> DEFINE q == <<Word(o, "message"), Letter(o, m)>>
             p == <<Letter(o, m)>>
  <2>1. Len(q) = 2 /\ q[2] = Letter(o, m) /\ Len(p) = 1 /\ p[1] = Letter(o, m)
    OBVIOUS
  <2>2. Letter(o, m).message = {m}
    BY Words
  <2> QED BY <2>1, <2>2 DEF IsPost, IsLetter
<1> QED BY <1>1 DEF IsPost, IsLetter

\* What each loop sends is permitted where its machine is.
LEMMA SyncSends ==
  /\ TraceStep(Sync, "client-turn", SelectFrame(Client, "message")) = {"client-send"}
  /\ TraceStep(Sync, "client-turn", SelectFrame(Client, "done")) = {"end"}
  /\ TraceStep(Sync, "client-send", DataFrame(Client, Server, "sync")) = {"server-turn"}
  /\ TraceStep(Sync, "server-turn", SelectFrame(Server, "message")) = {"server-send"}
  /\ TraceStep(Sync, "server-turn", SelectFrame(Server, "idle")) = {"client-turn"}
  /\ TraceStep(Sync, "server-send", DataFrame(Server, Client, "sync")) = {"client-turn"}
<1>1. /\ TraceStep(Sync, "client-turn", SelectFrame(Client, "message")) = {"client-send"}
      /\ TraceStep(Sync, "client-turn", SelectFrame(Client, "done")) = {"end"}
  BY SyncAssumption DEF TraceStep, Only, SelectFrame, ChoiceState
<1>2. /\ TraceStep(Sync, "server-turn", SelectFrame(Server, "message")) = {"server-send"}
      /\ TraceStep(Sync, "server-turn", SelectFrame(Server, "idle")) = {"client-turn"}
  BY SyncAssumption DEF TraceStep, Only, SelectFrame, ChoiceState
<1>3. TraceStep(Sync, "client-send", DataFrame(Client, Server, "sync")) = {"server-turn"}
  BY SyncAssumption DEF TraceStep, Only, DataFrame, SendState
<1>4. TraceStep(Sync, "server-send", DataFrame(Server, Client, "sync")) = {"client-turn"}
  BY SyncAssumption DEF TraceStep, Only, DataFrame, SendState
<1> QED BY <1>1, <1>2, <1>3, <1>4

\* The state of the machine of role r, as r sees it.
Seen(r, s) == ProjectState(Sync.states[s], r)

\* What each loop waits for is what its machine permits.
LEMMA SyncAccepts ==
  /\ AcceptTarget(Seen(Server, "client-turn"), Server, SelectFrame(Client, "message"))
       = {"client-send"}
  /\ AcceptTarget(Seen(Server, "client-turn"), Server, SelectFrame(Client, "done")) = {"end"}
  /\ AcceptTarget(Seen(Server, "client-send"), Server, DataFrame(Client, Server, "sync"))
       = {"server-turn"}
  /\ AcceptTarget(Seen(Client, "server-turn"), Client, SelectFrame(Server, "message"))
       = {"server-send"}
  /\ AcceptTarget(Seen(Client, "server-turn"), Client, SelectFrame(Server, "idle"))
       = {"client-turn"}
  /\ AcceptTarget(Seen(Client, "server-send"), Client, DataFrame(Server, Client, "sync"))
       = {"client-turn"}
<1>0. Client # Server
  BY Hosts
<1>1. /\ AcceptTarget(Seen(Server, "client-turn"), Server, SelectFrame(Client, "message"))
           = {"client-send"}
      /\ AcceptTarget(Seen(Server, "client-turn"), Server, SelectFrame(Client, "done")) = {"end"}
  BY <1>0, SyncAssumption DEF Seen, ProjectState, AcceptTarget, Only, SelectFrame, ChoiceState
<1>2. /\ AcceptTarget(Seen(Client, "server-turn"), Client, SelectFrame(Server, "message"))
           = {"server-send"}
      /\ AcceptTarget(Seen(Client, "server-turn"), Client, SelectFrame(Server, "idle"))
           = {"client-turn"}
  BY <1>0, SyncAssumption DEF Seen, ProjectState, AcceptTarget, Only, SelectFrame, ChoiceState
<1>3. AcceptTarget(Seen(Server, "client-send"), Server, DataFrame(Client, Server, "sync"))
        = {"server-turn"}
  BY <1>0, SyncAssumption DEF Seen, ProjectState, AcceptTarget, Only, DataFrame, SendState
<1>4. AcceptTarget(Seen(Client, "server-send"), Client, DataFrame(Server, Client, "sync"))
        = {"client-turn"}
  BY <1>0, SyncAssumption DEF Seen, ProjectState, AcceptTarget, Only, DataFrame, SendState
<1> QED BY <1>1, <1>2, <1>3, <1>4

-----------------------------------------------------------------------------
(***************************************************************************)
(* What the steps of the loops change.                                     *)
(***************************************************************************)
\* Role r goes on at call a; its peer does nothing.
Moved(r, a) ==
  LET o == OtherHost(r) IN
  /\ at' = [h \in Host |-> at'[h]] /\ at'[r] = a /\ at'[o] = at[o]
  /\ memory'[o] = memory[o] /\ outcome' = outcome

Sends(r, x) == wire'[r] = Append(wire[r], x) /\ wire'[OtherHost(r)] = wire[OtherHost(r)]

Takes(r) == wire'[OtherHost(r)] = Tail(wire[OtherHost(r)]) /\ wire'[r] = wire[r]

\* What a memory keeps when its machine, its round or its outbox change.
LEMMA Fields ==
  ASSUME NEW m, MemoryOK(m)
  PROVE  /\ \A s : LET n == [m EXCEPT !.machine = s] IN
              /\ n.doc = m.doc /\ n.loaded = m.loaded /\ n.held = m.held /\ n.peer = m.peer
              /\ n.outbox = m.outbox /\ n.machine = s /\ n.round = m.round
         /\ LET n == RoundDone(m) IN
              /\ n.doc = m.doc /\ n.loaded = m.loaded /\ n.held = m.held /\ n.peer = m.peer
              /\ n.outbox = m.outbox /\ n.machine = m.machine /\ n.round = m.round + 1
         /\ LET n == [m EXCEPT !.outbox = {}] IN
              /\ n.doc = m.doc /\ n.loaded = m.loaded /\ n.held = m.held /\ n.peer = m.peer
              /\ n.outbox = {} /\ n.machine = m.machine /\ n.round = m.round
         /\ \A d : LET n == [m EXCEPT !.doc = d, !.loaded = d] IN
              /\ n.doc = d /\ n.loaded = d /\ n.held = m.held /\ n.peer = m.peer
              /\ n.outbox = m.outbox /\ n.machine = m.machine /\ n.round = m.round
         /\ \A b, p : LET n == [m EXCEPT !.outbox = b, !.peer = p] IN
              /\ n.doc = m.doc /\ n.loaded = m.loaded /\ n.held = m.held /\ n.peer = p
              /\ n.outbox = b /\ n.machine = m.machine /\ n.round = m.round
         /\ \A d, h, p : LET n == [m EXCEPT !.doc = d, !.held = h, !.peer = p] IN
              /\ n.doc = d /\ n.loaded = m.loaded /\ n.held = h /\ n.peer = p
              /\ n.outbox = m.outbox /\ n.machine = m.machine /\ n.round = m.round
BY DEF MemoryOK, RoundDone

\* What is kept of a peer when a message is generated.
LEMMA PeerFields ==
  ASSUME NEW s, PeerOK(s), NEW d, NEW x
  PROVE  LET p == AfterGenerate(d, s, x) IN
           p.their = s.their /\ p.responded = TRUE /\ p.in_flight = TRUE
<1>1. s = [their |-> s.their, need |-> s.need, have |-> s.have, last |-> s.last,
           responded |-> s.responded, in_flight |-> s.in_flight, sent |-> s.sent]
  BY DEF PeerOK
<1> QED BY <1>1, Zenon DEF AfterGenerate

\* What is known of a peer once a message of its is received.
LEMMA PeerTaken ==
  /\ \A s, d, m : PeerOK(s) => AfterReceive(d, s, m).their = {m.heads}
  /\ \A s, d, m : PeerOK(s) => AfterReceive(d, s, m).in_flight = FALSE
<1>1. \A s, d, m : PeerOK(s) => AfterReceive(d, s, m).their = {m.heads}
  BY DEF PeerOK, AfterReceive
<1>2. \A s, d, m : PeerOK(s) => AfterReceive(d, s, m).in_flight = FALSE
  BY DEF PeerOK, AfterReceive
<1> QED BY <1>1, <1>2

\* A frame the machine permits is sent.
LEMMA SendShape ==
  ASSUME DraftInv, SyncInv, NEW r \in Host, NEW frame, NEW message, NEW m, NEW next, NEW t,
         TraceStep(Sync, memory[r].machine, frame) = {t},
         SendFrame(r, frame, message, m, next)
  PROVE  /\ Moved(r, next) /\ Sends(r, [frame |-> frame, message |-> message])
         /\ memory'[r] = [m EXCEPT !.machine = t]
<1> DEFINE o == OtherHost(r)
           x == [frame |-> frame, message |-> message]
<1>0. o \in Host /\ o # r
  BY HostFacts
<1>1. /\ memory' = [memory EXCEPT ![r] = [m EXCEPT !.machine = t]]
      /\ wire' = [wire EXCEPT ![r] = Append(wire[r], x)]
      /\ at' = [at EXCEPT ![r] = next] /\ outcome' = outcome
  BY DEF SendFrame, SyncInv
<1>2. /\ memory = [h \in Host |-> memory[h]] /\ wire = [h \in Host |-> wire[h]]
      /\ at = [h \in Host |-> at[h]]
  BY DEF DraftInv, ExchangeOK, SyncInv
<1> HIDE DEF o, x
<1>3. memory'[r] = [m EXCEPT !.machine = t] /\ memory'[o] = memory[o]
  BY <1>0, <1>1, <1>2
<1>4. wire'[r] = Append(wire[r], x) /\ wire'[o] = wire[o]
  BY <1>0, <1>1, <1>2
<1>5. at' = [h \in Host |-> at'[h]] /\ at'[r] = next /\ at'[o] = at[o]
  BY <1>0, <1>1, <1>2
<1> QED BY <1>1, <1>3, <1>4, <1>5 DEF Moved, Sends, o, x

\* A frame the machine permits is taken, where the loop has an arm for it.
LEMMA TakeShape ==
  ASSUME DraftInv, SyncInv, NEW r \in Host, NEW m, NEW next, NEW t,
         AcceptTarget(Seen(r, memory[r].machine), r, Head(wire[OtherHost(r)]).frame) = {t},
         ReceiveFrame(r, m, {next})
  PROVE  Moved(r, next) /\ Takes(r) /\ memory'[r] = [m EXCEPT !.machine = t]
<1> DEFINE o == OtherHost(r)
<1>0. o \in Host /\ o # r
  BY HostFacts
<1>1. /\ memory' = [memory EXCEPT ![r] = [m EXCEPT !.machine = t]]
      /\ wire' = [wire EXCEPT ![o] = Tail(wire[o])]
      /\ at' = [at EXCEPT ![r] = next] /\ outcome' = outcome
  BY <1>0 DEF ReceiveFrame, Seen, Incoming, DraftInv, ExchangeOK
<1>2. /\ memory = [h \in Host |-> memory[h]] /\ wire = [h \in Host |-> wire[h]]
      /\ at = [h \in Host |-> at[h]]
  BY DEF DraftInv, ExchangeOK, SyncInv
<1> HIDE DEF o
<1>3. memory'[r] = [m EXCEPT !.machine = t] /\ memory'[o] = memory[o]
  BY <1>0, <1>1, <1>2
<1>4. wire'[o] = Tail(wire[o]) /\ wire'[r] = wire[r]
  BY <1>0, <1>1, <1>2
<1>5. at' = [h \in Host |-> at'[h]] /\ at'[r] = next /\ at'[o] = at[o]
  BY <1>0, <1>1, <1>2
<1> QED BY <1>1, <1>3, <1>4, <1>5 DEF Moved, Takes, o

\* A message is announced, or the loop is quiet because there is none: nothing was
\* ever sent, or the peer has what there is, or it has yet to answer.
LEMMA OfferShape ==
  ASSUME DraftInv, SyncInv, NEW r \in Host, NEW quiet, NEW m, NEW next, NEW t, NEW u,
         TraceStep(Sync, memory[r].machine, SelectFrame(r, "message")) = {t},
         TraceStep(Sync, memory[r].machine, SelectFrame(r, quiet)) = {u},
         Offer(r, quiet, m, next)
  PROVE  LET mem == memory[r]
             new == memory'[r]
         IN
         \/ /\ Moved(r, "data") /\ Sends(r, Word(r, "message"))
            /\ new.doc = mem.doc /\ new.loaded = mem.loaded /\ new.held = mem.held
            /\ new.machine = t /\ new.round = mem.round
            /\ new.peer.in_flight
            /\ \E msg : /\ new.outbox = {msg} /\ msg.heads = mem.doc
                        /\ msg.changes \subseteq mem.doc
         \/ /\ Moved(r, next) /\ Sends(r, Word(r, quiet)) /\ new = [m EXCEPT !.machine = u]
            /\ mem.peer.responded
            /\ mem.peer.in_flight \/ mem.peer.their = {mem.doc}
<1> DEFINE mem == memory[r]
<1>0. MemoryOK(mem) /\ PeerOK(mem.peer) /\ GoodDoc(mem.doc)
  BY DEF DraftInv, ExchangeOK, MemoryOK
<1>1. PICK x \in ToSend(mem.doc, mem.peer) :
        LET offered == SyncMessage(mem.doc, mem.held, mem.peer, x)
            after == [mem EXCEPT !.outbox = offered, !.peer = AfterGenerate(mem.doc, mem.peer, x)]
        IN
        \/ offered # {} /\ SendFrame(r, SelectFrame(r, "message"), {}, after, "data")
        \/ offered = {} /\ SendFrame(r, SelectFrame(r, quiet), {}, m, next)
  BY DEF Offer
<1> DEFINE b == SyncMessage(mem.doc, mem.held, mem.peer, x)
           p == AfterGenerate(mem.doc, mem.peer, x)
           after == [mem EXCEPT !.outbox = b, !.peer = p]
<1>2. x \subseteq mem.doc
  BY <1>0, SentFacts
<1>3. CASE b # {} /\ SendFrame(r, SelectFrame(r, "message"), {}, after, "data")
  <2>1. \E msg : b = {msg} /\ msg.heads = mem.doc /\ msg.changes \subseteq mem.doc
    BY <1>2, <1>3 DEF SyncMessage, Only
  <2>2. p.in_flight
    BY <1>0, PeerFields
  <2>3. MemoryOK(after)
    <3> HIDE DEF mem, p
    <3>1. GoodMessages(b)
      BY <1>0, SentFacts DEF mem
    <3>2. PeerOK(p)
      BY <1>0, PeerFacts DEF p
    <3> HIDE DEF b
    <3>3. after = [doc |-> after.doc, loaded |-> after.loaded, held |-> after.held,
                   peer |-> after.peer, outbox |-> after.outbox, machine |-> after.machine,
                   round |-> after.round]
      <4>1. DOMAIN after = DOMAIN mem /\ after = [i \in DOMAIN after |-> after[i]]
        OBVIOUS
      <4> HIDE DEF after
      <4> QED BY <1>0, <4>1, MemoryShape
    <3>4. /\ after.doc = mem.doc /\ after.loaded = mem.loaded /\ after.held = mem.held
          /\ after.peer = p /\ after.outbox = b
      BY <1>0, Fields
    <3> HIDE DEF after
    <3> QED BY <1>0, <3>1, <3>2, <3>3, <3>4 DEF MemoryOK
  <2>4. /\ after.doc = mem.doc /\ after.loaded = mem.loaded /\ after.held = mem.held
        /\ after.peer = p /\ after.outbox = b /\ after.round = mem.round
    <3> HIDE DEF mem, b, p
    <3> QED BY <1>0, Fields
  <2>5. SendFrame(r, SelectFrame(r, "message"), {}, after, "data")
    BY <1>3
  <2> HIDE DEF mem, b, p, after
  <2>6. /\ Moved(r, "data") /\ Sends(r, Word(r, "message"))
        /\ memory'[r] = [after EXCEPT !.machine = t]
    <3>1. ASSUME NEW frame, NEW n, NEW a, TraceStep(Sync, memory[r].machine, frame) = {t},
                 SendFrame(r, frame, {}, n, a)
          PROVE  /\ Moved(r, a) /\ Sends(r, [frame |-> frame, message |-> {}])
                 /\ memory'[r] = [n EXCEPT !.machine = t]
      BY <3>1, SendShape
    <3> QED BY <2>5, <3>1 DEF Word
  <2>7. /\ memory'[r].doc = mem.doc /\ memory'[r].loaded = mem.loaded
        /\ memory'[r].held = mem.held /\ memory'[r].machine = t
        /\ memory'[r].round = mem.round /\ memory'[r].peer = p /\ memory'[r].outbox = b
    BY <2>3, <2>4, <2>6, Fields
  <2> QED BY <2>1, <2>2, <2>6, <2>7 DEF mem
<1>4. CASE b = {} /\ SendFrame(r, SelectFrame(r, quiet), {}, m, next)
  <2>1. mem.peer.responded /\ (mem.peer.in_flight \/ mem.peer.their = {mem.doc})
    BY <1>4 DEF SyncMessage, Only
  <2>2. /\ Moved(r, next) /\ Sends(r, Word(r, quiet)) /\ memory'[r] = [m EXCEPT !.machine = u]
    <3>1. SendFrame(r, SelectFrame(r, quiet), {}, m, next)
      BY <1>4
    <3> HIDE DEF mem, b, p, after
    <3> QED BY <3>1, SendShape DEF Word
  <2> QED BY <2>1, <2>2
<1> QED BY <1>1, <1>3, <1>4

-----------------------------------------------------------------------------
(***************************************************************************)
(* The parts of the invariant.                                             *)
(***************************************************************************)
\* What a role may find in its inbox, alone or not.
LEMMA Inboxes ==
  /\ InboxOK(Client) <=>
       \/ wire[Server] = <<>>
       \/ /\ at[Client] = "reply"
          /\ \/ wire[Server] = <<Word(Server, "message")>>
             \/ wire[Server] = <<Word(Server, "idle")>>
             \/ IsPost(Server, wire[Server])
       \/ at[Client] = "body" /\ IsLetter(Server, wire[Server])
  /\ InboxOK(Server) <=>
       \/ wire[Client] = <<>>
       \/ /\ at[Server] \in {"load", "wait"}
          /\ \/ wire[Client] = <<Word(Client, "message")>>
             \/ wire[Client] = <<Word(Client, "done")>>
             \/ IsPost(Client, wire[Client])
       \/ at[Server] = "body" /\ IsLetter(Client, wire[Client])
BY Hosts DEF InboxOK, Listens, Quiet

\* Two commands that are together find in their inboxes what they wait for.
LEMMA TogetherInboxes == Together => InboxOK(Client) /\ InboxOK(Server)
BY Inboxes DEF Together, AtTurn, Asking, AtAnswer, Answering, Passing, Ending, Unsent

\* The messages of a role: the one that is generated, and those in what it has sent.
LEMMA SaidFacts ==
  ASSUME NEW b, NEW q
  PROVE  /\ q = <<>> => Said(b, q) = b
         /\ \A w : q = <<w>> => Said(b, q) = b \cup w.message
         /\ \A w, k : q = <<w, k>> => Said(b, q) = b \cup (w.message \cup k.message)
<1>1. ASSUME q = <<>> PROVE Said(b, q) = b
  <2>1. DOMAIN q = {}
    BY <1>1
  <2> QED BY <2>1 DEF Said
<1>2. ASSUME NEW w, q = <<w>> PROVE Said(b, q) = b \cup w.message
  <2>1. DOMAIN q = {1} /\ q[1] = w
    BY <1>2
  <2> QED BY <2>1 DEF Said
<1>3. ASSUME NEW w, NEW k, q = <<w, k>>
      PROVE  Said(b, q) = b \cup (w.message \cup k.message)
  <2>1. DOMAIN q = {1, 2} /\ q[1] = w /\ q[2] = k
    BY <1>3
  <2> QED BY <2>1 DEF Said
<1> QED BY <1>1, <1>2, <1>3

\* A word carries no message, a letter its own.
LEMMA SaidWords ==
  ASSUME NEW b, NEW q
  PROVE  /\ q = <<>> => Said(b, q) = b
         /\ \A r, l : q = <<Word(r, l)>> => Said(b, q) = b
         /\ \A r, m : q = <<Letter(r, m)>> => Said(b, q) = b \cup {m}
         /\ \A r, l, m : q = <<Word(r, l), Letter(r, m)>> => Said(b, q) = b \cup {m}
<1>1. q = <<>> => Said(b, q) = b
  BY SaidFacts
<1>2. ASSUME NEW r, NEW l, NEW m
      PROVE  /\ q = <<Word(r, l)>> => Said(b, q) = b
             /\ q = <<Letter(r, m)>> => Said(b, q) = b \cup {m}
             /\ q = <<Word(r, l), Letter(r, m)>> => Said(b, q) = b \cup {m}
  <2> DEFINE w == Word(r, l)
             k == Letter(r, m)
  <2>1. w.message = {} /\ k.message = {m}
    BY Words
  <2> HIDE DEF w, k
  <2>2. ASSUME q = <<w>> PROVE Said(b, q) = b
    <3>1. Said(b, q) = b \cup w.message
      BY <2>2, SaidFacts
    <3> QED BY <2>1, <3>1
  <2>3. q = <<k>> => Said(b, q) = b \cup {m}
    BY <2>1, SaidFacts
  <2>4. q = <<w, k>> => Said(b, q) = b \cup {m}
    BY <2>1, SaidFacts
  <2> QED BY <2>2, <2>3, <2>4 DEF w, k
<1> QED BY <1>1, <1>2

\* A letter, with or without its word, carries its message.
LEMMA SaidPost ==
  ASSUME NEW q, NEW r, NEW m,
         q = <<Letter(r, m)>> \/ q = <<Word(r, "message"), Letter(r, m)>>
  PROVE  Said({}, q) = {m}
BY SaidWords

\* A step of one loop keeps the invariant if it keeps its own part of it, and the
\* common part where the other command runs too.
LEMMA MoveKeeps ==
  ASSUME SyncInv, NEW r \in Host, NEW a, Moved(r, a), Running(r), CommandOK(r)', InboxOK(r)',
         Both => Together' /\ ContentOK(Client)' /\ ContentOK(Server)', Abandoned'
  PROVE  SyncInv'
<1> DEFINE o == OtherHost(r)
<1>0. o \in Host /\ Host = {r, o} /\ o # r
  BY Hosts
<1>1. /\ at' = [h \in Host |-> at'[h]] /\ outcome' = outcome
      /\ at'[o] = at[o] /\ memory'[o] = memory[o]
  BY DEF Moved
<1>2. \A h \in Host : Running(h)' <=> Running(h)
  BY <1>1 DEF Running
<1>3. Both' <=> Both
  BY <1>2 DEF Both
<1>4. CommandOK(o)'
  BY <1>0, <1>1 DEF SyncInv, CommandOK, Running
<1>5. Together' => InboxOK(Client)' /\ InboxOK(Server)'
  <2> SUFFICES ASSUME Together' PROVE (InboxOK(Client) /\ InboxOK(Server))'
    OBVIOUS
  <2> QED BY TogetherInboxes, PTL
<1>6. Running(o)' => InboxOK(o)'
  <2>1. Running(o) => Both
    BY <1>0 DEF Both
  <2> QED BY <1>0, <1>2, <1>5, <2>1, Hosts
<1>7. outcome' = [h \in Host |-> outcome'[h]]
  BY <1>1 DEF SyncInv
<1>8. \A h \in Host : CommandOK(h)' /\ (Running(h)' => InboxOK(h)')
  BY <1>0, <1>4, <1>6
<1>9. Both' => Together' /\ \A h \in Host : ContentOK(h)'
  BY <1>3, Hosts
<1> QED BY <1>1, <1>7, <1>8, <1>9 DEF SyncInv

\* What holds of a role at its call.
LEMMA AtCall ==
  ASSUME DraftInv, SyncInv, NEW r \in Host, Running(r)
  PROVE  /\ MemoryOK(memory[r]) /\ PeerOK(memory[r].peer)
         /\ memory[r].loaded \subseteq memory[r].doc
         /\ CommandOK(r) /\ InboxOK(r) /\ memory[r].machine = StateAt(r, at[r])
         /\ at[r] \in Place(r) /\ memory[r].round \in Nat /\ MaxRounds \in Nat
         /\ r = Server => outcome[Server] # "rounds"
         /\ Abandoned
<1>1. MemoryOK(memory[r])
  BY DEF DraftInv, ExchangeOK
<1>2. CommandOK(r) /\ InboxOK(r)
  BY DEF SyncInv
<1>3. r = Server => outcome[Server] # "rounds"
  BY DEF Running
<1>4. Abandoned
  BY DEF SyncInv
<1> QED BY <1>1, <1>2, <1>3, <1>4, RoundsAssumption DEF MemoryOK, CommandOK

-----------------------------------------------------------------------------
(***************************************************************************)
(* The steps of the loops.                                                 *)
(***************************************************************************)
\* A command reads its file.
LEMMA LoadSync ==
  ASSUME DraftInv, SyncInv, NEW r \in Host, LoadDraft(r)
  PROVE  SyncInv'
<1> DEFINE o == OtherHost(r)
           a == IF r = Client THEN "turn" ELSE "wait"
           new == memory'[r]
<1>0. at[r] = "load" /\ Running(r) /\ o \in Host /\ o # r /\ Host = {r, o} /\ Client # Server
  BY Hosts DEF LoadDraft, Calls
<1>1. CommandOK(r) /\ InboxOK(r) /\ MemoryOK(memory[r]) /\ memory[r] = Fresh
  BY <1>0, AtCall DEF CommandOK
<1>2. Moved(r, a) /\ wire' = wire /\ acked' = acked
  BY <1>0 DEF LoadDraft, Moved, SyncInv, DraftInv, ExchangeOK
<1>3. /\ new.doc = file[r] /\ new.loaded = file[r] /\ new.held = {} /\ new.peer = NewSession
      /\ new.outbox = {} /\ new.machine = "client-turn" /\ new.round = 0
  <2>1. memory'[r] = [memory[r] EXCEPT !.doc = file[r], !.loaded = file[r]]
    BY <1>0 DEF LoadDraft, DraftInv, ExchangeOK
  <2> QED BY <1>1, <2>1, SyncAssumption DEF Fresh
<1> HIDE DEF new
<1>4. at'[r] = a /\ at'[o] = at[o] /\ memory'[o] = memory[o] /\ outcome' = outcome
  BY <1>2 DEF Moved
<1>5. CommandOK(r)'
  <2>1. a \in Place(r) /\ StateAt(r, a) = "client-turn" /\ a \in {"turn", "wait"}
    BY <1>0 DEF Place, StateAt
  <2> QED BY <1>0, <1>1, <1>3, <1>4, <2>1, RoundsAssumption DEF CommandOK, Running, new
<1>6. InboxOK(r)'
  BY <1>0, <1>1, <1>2, <1>4, Inboxes, Hosts DEF InboxOK, Listens, Quiet
<1>7. Abandoned'
  <2>1. CASE r = Server
    BY <1>0, <1>4, <2>1, AtCall DEF Abandoned
  <2>2. CASE r = Client
    <3>1. Abandoned /\ memory[Client].round = 0
      BY <1>0, <1>1, <2>2, AtCall DEF Fresh
    <3> QED BY <1>0, <1>3, <1>4, <2>2, <3>1 DEF Abandoned, Running, new
  <2> QED BY <2>1, <2>2, Hosts
<1>8. ASSUME Both
      PROVE  Together' /\ ContentOK(Client)' /\ ContentOK(Server)'
  <2>1. Together /\ ContentOK(o)
    BY <1>0, <1>8 DEF SyncInv
  <2>2. memory[r].round = 0 /\ ~memory[r].peer.responded /\ memory[r].loaded = {}
    BY <1>1 DEF Fresh, NewSession
  <2>3. Together' /\ wire[r] = <<>>
    <3>1. CASE r = Client
      <4>1. AtTurn /\ ~acked
        BY <1>0, <2>1, <3>1 DEF Together, Asking, AtAnswer, Answering, Passing, Ending, AtTurn
      <4>2. AtTurn'
        BY <1>2, <1>3, <1>4, <2>2, <3>1, <4>1, Hosts DEF AtTurn, Unsent, Level, NewSession, new
      <4> QED BY <1>2, <3>1, <4>1, <4>2 DEF Together, AtTurn, Unsent
    <3>2. CASE r = Server
      <4>1. (AtTurn \/ Asking) /\ ~acked
        BY <1>0, <2>1, <3>2 DEF Together, Asking, AtAnswer, Answering, Passing, Ending, AtTurn
      <4>2. AtTurn => AtTurn'
        BY <1>0, <1>2, <1>3, <1>4, <2>2, <3>2, Hosts DEF AtTurn, Unsent, Level, new
      <4>3. Asking => Asking'
        BY <1>0, <1>2, <1>3, <1>4, <2>2, <3>2, Hosts DEF Asking, Unsent, Level, new
      <4> QED BY <1>2, <3>2, <4>1, <4>2, <4>3 DEF Together, AtTurn, Asking, Unsent
    <3> QED BY <3>1, <3>2, Hosts
  <2>4. Loaded \subseteq Loaded' /\ file[r] \subseteq Loaded'
    BY <1>0, <1>3, <1>4, <2>2, Hosts DEF Loaded, new
  <2>5. ContentOK(r)'
    <3>1. Said(memory'[r].outbox, wire'[r]) = {}
      BY <1>2, <1>3, <2>3, SaidWords DEF new
    <3> QED BY <1>3, <2>4, <3>1 DEF ContentOK, new
  <2>6. ContentOK(o)'
    BY <1>2, <1>4, <2>1, <2>4 DEF ContentOK
  <2> QED BY <1>0, <2>3, <2>5, <2>6, Hosts
<1> QED BY <1>0, <1>2, <1>5, <1>6, <1>7, <1>8, MoveKeeps

\* The client announces a message, or says it is done: then the server, which has
\* nothing to send either, or has told all it has, holds what the client holds.
LEMMA TurnSync ==
  ASSUME DraftInv, SyncInv, ClientTurn
  PROVE  SyncInv'
<1> DEFINE mem == memory[Client]
           new == memory'[Client]
<1>0. /\ at[Client] = "turn" /\ Running(Client) /\ mem.round < MaxRounds /\ acked' = acked
      /\ Offer(Client, "done", mem, "finish")
      /\ Client \in Host /\ Server \in Host /\ Client # Server /\ OtherHost(Client) = Server
  BY Hosts DEF ClientTurn, Calls
<1>1. /\ CommandOK(Client) /\ InboxOK(Client) /\ MemoryOK(mem) /\ Abandoned
      /\ mem.machine = "client-turn" /\ mem.round \in Nat /\ MaxRounds \in Nat
  BY <1>0, AtCall DEF StateAt
<1>2. outcome[Server] # "rounds"
  BY <1>0, <1>1 DEF Abandoned
<1>3. \/ /\ Moved(Client, "data") /\ Sends(Client, Word(Client, "message"))
         /\ new.doc = mem.doc /\ new.loaded = mem.loaded /\ new.held = mem.held
         /\ new.machine = "client-send" /\ new.round = mem.round
         /\ new.peer.in_flight
         /\ \E msg : new.outbox = {msg} /\ msg.heads = mem.doc /\ msg.changes \subseteq mem.doc
      \/ /\ Moved(Client, "finish") /\ Sends(Client, Word(Client, "done"))
         /\ new = [mem EXCEPT !.machine = "end"]
         /\ mem.peer.responded
         /\ mem.peer.in_flight \/ mem.peer.their = {mem.doc}
  <2>1. /\ TraceStep(Sync, mem.machine, SelectFrame(Client, "message")) = {"client-send"}
        /\ TraceStep(Sync, mem.machine, SelectFrame(Client, "done")) = {"end"}
    BY <1>1, SyncSends
  <2>2. ASSUME NEW quiet, NEW m, NEW next, NEW t, NEW u,
               TraceStep(Sync, mem.machine, SelectFrame(Client, "message")) = {t},
               TraceStep(Sync, mem.machine, SelectFrame(Client, quiet)) = {u},
               Offer(Client, quiet, m, next)
        PROVE  \/ /\ Moved(Client, "data") /\ Sends(Client, Word(Client, "message"))
                  /\ new.doc = mem.doc /\ new.loaded = mem.loaded /\ new.held = mem.held
                  /\ new.machine = t /\ new.round = mem.round
                  /\ new.peer.in_flight
                  /\ \E msg : /\ new.outbox = {msg} /\ msg.heads = mem.doc
                              /\ msg.changes \subseteq mem.doc
               \/ /\ Moved(Client, next) /\ Sends(Client, Word(Client, quiet))
                  /\ new = [m EXCEPT !.machine = u]
                  /\ mem.peer.responded
                  /\ mem.peer.in_flight \/ mem.peer.their = {mem.doc}
    BY <1>0, <2>2, OfferShape
  <2> HIDE DEF mem, new
  <2> QED BY <1>0, <2>1, <2>2
<1>4. wire[Server] = <<>>
  BY <1>0, <1>1, Inboxes
<1>5. Both => AtTurn /\ ~acked /\ wire[Client] = <<>> /\ ContentOK(Client) /\ ContentOK(Server)
  BY <1>0 DEF SyncInv, Together, AtTurn, Asking, AtAnswer, Answering, Passing, Ending, Unsent
<1>6. CASE /\ Moved(Client, "data") /\ Sends(Client, Word(Client, "message"))
           /\ new.doc = mem.doc /\ new.loaded = mem.loaded /\ new.held = mem.held
           /\ new.machine = "client-send" /\ new.round = mem.round
           /\ new.peer.in_flight
           /\ \E msg : /\ new.outbox = {msg} /\ msg.heads = mem.doc
                       /\ msg.changes \subseteq mem.doc
  <2> HIDE DEF mem, new
  <2>1. /\ at'[Client] = "data" /\ at'[Server] = at[Server] /\ memory'[Server] = memory[Server]
        /\ outcome' = outcome /\ wire'[Server] = wire[Server]
        /\ wire'[Client] = Append(wire[Client], Word(Client, "message"))
    BY <1>0, <1>6 DEF Moved, Sends
  <2>2. CommandOK(Client)'
    BY <1>0, <1>1, <1>6, <2>1 DEF CommandOK, Place, StateAt, Running, mem, new
  <2>3. InboxOK(Client)' /\ Abandoned'
    BY <1>0, <1>2, <1>4, <2>1 DEF InboxOK, Abandoned
  <2>4. ASSUME Both PROVE Together' /\ ContentOK(Client)' /\ ContentOK(Server)'
    <3>1. wire'[Client] = <<Word(Client, "message")>>
      BY <1>5, <2>1, <2>4, Lists
    <3>2. Asking'
      BY <1>4, <1>5, <1>6, <2>1, <2>4, <3>1 DEF AtTurn, Asking, Unsent, Level, mem, new
    <3>3. Loaded' = Loaded
      BY <1>6, <2>1 DEF Loaded, mem, new
    <3>4. ContentOK(Server)'
      BY <1>5, <2>1, <2>4, <3>3 DEF ContentOK
    <3>5. ContentOK(Client)'
      <4>1. Said(memory'[Client].outbox, wire'[Client]) = new.outbox
        BY <3>1, SaidWords DEF new
      <4> QED BY <1>5, <1>6, <2>4, <3>3, <4>1 DEF ContentOK, mem, new
    <3> QED BY <1>0, <1>5, <2>1, <2>4, <3>2, <3>4, <3>5 DEF Together
  <2> QED BY <1>0, <1>6, <2>2, <2>3, <2>4, MoveKeeps
<1>7. CASE /\ Moved(Client, "finish") /\ Sends(Client, Word(Client, "done"))
           /\ new = [mem EXCEPT !.machine = "end"]
           /\ mem.peer.responded
           /\ mem.peer.in_flight \/ mem.peer.their = {mem.doc}
  <2>0. /\ new.doc = mem.doc /\ new.loaded = mem.loaded /\ new.held = mem.held
        /\ new.outbox = mem.outbox /\ new.machine = "end" /\ new.round = mem.round
    <3> HIDE DEF mem, new
    <3> QED BY <1>1, <1>7, Fields
  <2> HIDE DEF mem, new
  <2>1. /\ at'[Client] = "finish" /\ at'[Server] = at[Server] /\ memory'[Server] = memory[Server]
        /\ outcome' = outcome /\ wire'[Server] = wire[Server]
        /\ wire'[Client] = Append(wire[Client], Word(Client, "done"))
    BY <1>0, <1>7 DEF Moved, Sends
  <2>a. mem.outbox = {}
    BY <1>0, <1>1 DEF CommandOK, mem
  <2>2. CommandOK(Client)'
    BY <1>0, <1>1, <2>0, <2>a, <2>1 DEF CommandOK, Place, StateAt, Running, mem, new
  <2>3. InboxOK(Client)' /\ Abandoned'
    BY <1>0, <1>2, <1>4, <2>1 DEF InboxOK, Abandoned
  <2>4. ASSUME Both PROVE Together' /\ ContentOK(Client)' /\ ContentOK(Server)'
    <3>1. wire'[Client] = <<Word(Client, "done")>>
      BY <1>5, <2>1, <2>4, Lists
    <3>2. Equal
      <4>1. mem.peer.in_flight \/ mem.peer.their = {memory[Server].doc}
        BY <1>5, <1>7, <2>4 DEF AtTurn, mem
      <4>2. mem.peer.in_flight => Equal
        BY <1>5, <1>7, <2>4 DEF AtTurn, mem
      <4>3. ~mem.peer.in_flight => mem.doc = memory[Server].doc
        BY <1>7, <4>1
      <4> QED BY <4>2, <4>3 DEF Equal, mem
    <3>3. Loaded' = Loaded
      BY <2>0, <2>1 DEF Loaded, mem, new
    <3>4. Ending'
      BY <1>0, <1>4, <1>5, <1>7, <2>0, <2>1, <2>4, <3>1, <3>2
         DEF AtTurn, Ending, Unsent, Level, Equal, mem, new
    <3>5. ContentOK(Server)'
      BY <1>5, <2>1, <2>4, <3>3 DEF ContentOK
    <3>6. ContentOK(Client)'
      <4>1. Said(memory'[Client].outbox, wire'[Client]) = {}
        BY <2>0, <2>a, <3>1, SaidWords DEF new
      <4> QED BY <1>5, <2>0, <2>4, <3>3, <4>1 DEF ContentOK, mem, new
    <3> QED BY <1>0, <1>5, <2>1, <2>4, <3>4, <3>5, <3>6 DEF Together
  <2> QED BY <1>0, <1>7, <2>2, <2>3, <2>4, MoveKeeps
<1> QED BY <1>3, <1>6, <1>7

\* The generated message follows its announcement.
LEMMA PostSync ==
  ASSUME DraftInv, SyncInv, NEW r \in Host, SendSync(r)
  PROVE  SyncInv'
<1> DEFINE o == OtherHost(r)
           mem == memory[r]
           new == memory'[r]
           a == IF r = Client THEN "reply" ELSE "wait"
           sent == [mem EXCEPT !.outbox = {}]
           n == IF r = Client THEN sent ELSE RoundDone(sent)
           f == DataFrame(r, o, "sync")
           s == IF r = Client THEN "server-turn" ELSE "client-turn"
<1>0. /\ at[r] = "data" /\ Running(r) /\ acked' = acked
      /\ SendFrame(r, f, mem.outbox, n, a)
      /\ Client \in Host /\ Server \in Host /\ Client # Server
      /\ OtherHost(Client) = Server /\ OtherHost(Server) = Client
  BY Hosts DEF SendSync, Calls
<1>1. /\ CommandOK(r) /\ InboxOK(r) /\ MemoryOK(mem) /\ Abandoned /\ at[r] \in Place(r)
      /\ mem.round \in Nat /\ MaxRounds \in Nat /\ mem.machine = StateAt(r, "data")
      /\ r = Server => outcome[Server] # "rounds"
  BY <1>0, AtCall
<1>2. PICK msg : mem.outbox = {msg}
  BY <1>0, <1>1 DEF CommandOK
<1>3. MemoryOK(sent)
  BY <1>1, MemoryFacts
<1>4. TraceStep(Sync, mem.machine, f) = {s}
  <2>1. r = Client \/ r = Server
    BY Hosts
  <2> QED BY <1>0, <1>1, <2>1, SyncSends DEF StateAt
<1>5. /\ Moved(r, a) /\ Sends(r, Letter(r, msg)) /\ new = [n EXCEPT !.machine = s]
  <2>1. ASSUME NEW fr, NEW m, NEW nx, NEW t, NEW b, TraceStep(Sync, mem.machine, fr) = {t},
               SendFrame(r, fr, b, m, nx)
        PROVE  /\ Moved(r, nx) /\ Sends(r, [frame |-> fr, message |-> b])
               /\ new = [m EXCEPT !.machine = t]
    BY <2>1, SendShape
  <2> HIDE DEF n, a, s, mem, new
  <2> QED BY <1>0, <1>2, <1>4, <2>1 DEF Letter
<1>6. /\ new.doc = mem.doc /\ new.loaded = mem.loaded /\ new.held = mem.held
      /\ new.peer = mem.peer /\ new.outbox = {} /\ new.machine = s
      /\ new.round = IF r = Client THEN mem.round ELSE mem.round + 1
  <2>1. /\ sent.doc = mem.doc /\ sent.loaded = mem.loaded /\ sent.held = mem.held
        /\ sent.peer = mem.peer /\ sent.outbox = {} /\ sent.round = mem.round
    <3> HIDE DEF mem
    <3> QED BY <1>1, Fields
  <2> HIDE DEF mem, sent, new, s
  <2>2. /\ n.doc = mem.doc /\ n.loaded = mem.loaded /\ n.held = mem.held
        /\ n.peer = mem.peer /\ n.outbox = {}
        /\ n.round = IF r = Client THEN mem.round ELSE mem.round + 1
    BY <1>3, <2>1, Fields
  <2>3. MemoryOK(n)
    BY <1>3, MemoryFacts
  <2> HIDE DEF n
  <2> QED BY <1>5, <2>2, <2>3, Fields
<1> HIDE DEF mem, new, sent, n, f
<1>7. /\ at'[r] = a /\ at'[o] = at[o] /\ memory'[o] = memory[o] /\ outcome' = outcome
      /\ wire'[o] = wire[o] /\ wire'[r] = Append(wire[r], Letter(r, msg))
  BY <1>5 DEF Moved, Sends
<1>8. CommandOK(r)'
  <2>1. a \in Place(r) /\ StateAt(r, a) = s /\ a \in {"reply", "wait"} /\ (r = Server => a = "wait")
    BY <1>0, Hosts DEF Place, StateAt
  <2>2. mem.round < MaxRounds /\ outcome[r] # "refused"
    BY <1>0, <1>1 DEF CommandOK, mem
  <2>3. new.round \in 0..MaxRounds /\ (r = Client => new.round < MaxRounds)
    BY <1>1, <1>6, <2>2
  <2> QED BY <1>0, <1>6, <1>7, <2>1, <2>2, <2>3, Hosts DEF CommandOK, Running, new
<1>9. wire[o] = <<>> /\ InboxOK(r)'
  BY <1>0, <1>1, <1>7 DEF InboxOK, Listens
<1>10. Abandoned'
  <2>1. CASE r = Server
    BY <1>1, <1>7, <2>1 DEF Abandoned
  <2>2. CASE r = Client
    BY <1>0, <1>1, <1>7, <2>2 DEF Abandoned, Running
  <2> QED BY <2>1, <2>2, Hosts
<1>11. ASSUME Both PROVE Together' /\ ContentOK(Client)' /\ ContentOK(Server)'
  <2>1. Together /\ ContentOK(r) /\ ContentOK(o) /\ o \in Host /\ Host = {r, o} /\ o # r
    BY <1>11, Hosts DEF SyncInv
  <2>2. wire[r] = <<>> \/ wire[r] = <<Word(r, "message")>>
    BY <1>0, <2>1, Hosts
       DEF Together, AtTurn, Asking, AtAnswer, Answering, Passing, Ending, Unsent
  <2>3. /\ wire[r] = <<>> => wire'[r] = <<Letter(r, msg)>>
        /\ wire[r] = <<Word(r, "message")>> => wire'[r] = <<Word(r, "message"), Letter(r, msg)>>
    <3> DEFINE w == Word(r, "message")
               k == Letter(r, msg)
    <3>1. wire'[r] = Append(wire[r], k)
      BY <1>7
    <3> HIDE DEF w, k
    <3>2. Append(<<>>, k) = <<k>> /\ Append(<<w>>, k) = <<w, k>>
      BY Lists
    <3>3. /\ wire[r] = <<>> => wire'[r] = <<k>>
          /\ wire[r] = <<w>> => wire'[r] = <<w, k>>
      BY <3>1, <3>2
    <3> QED BY <3>3 DEF w, k
  <2>4. /\ wire[r] = <<>> => IsLetter(r, wire'[r])
        /\ wire[r] = <<Word(r, "message")>> => IsPost(r, wire'[r])
    BY <2>3, Posts
  <2>5. Together'
    <3>0. ~acked
      BY <1>0, <2>1, Hosts DEF Together, AtTurn, Asking, AtAnswer, Answering, Passing, Ending
    <3>1. CASE r = Client
      <4>1. Asking /\ o = Server
        BY <1>0, <2>1, <3>1 DEF Together, AtTurn, Asking, AtAnswer, Answering, Passing, Ending
      <4>2. /\ at'[Client] = "reply" /\ at'[Server] = at[Server] /\ wire'[Server] = wire[Server]
            /\ memory'[Client].round = memory[Client].round
            /\ memory'[Client].peer = memory[Client].peer
            /\ memory'[Server].round = memory[Server].round
        BY <1>0, <1>6, <1>7, <3>1, <4>1 DEF mem, new
      <4>3. /\ wire[Server] = <<>> /\ memory[Server].round = memory[Client].round
            /\ memory[Client].peer.in_flight
            /\ \/ at[Server] \in {"load", "wait"} /\ wire[Client] = <<Word(Client, "message")>>
               \/ at[Server] = "body" /\ wire[Client] = <<>>
        BY <1>0, <3>1, <4>1 DEF Asking, Unsent, Level
      <4>4. \/ at'[Server] \in {"load", "wait"} /\ IsPost(Client, wire'[Client])
            \/ at'[Server] = "body" /\ IsLetter(Client, wire'[Client])
        BY <2>4, <3>1, <4>2, <4>3
      <4>5. Asking'
        BY <4>2, <4>3, <4>4 DEF Asking, Unsent, Level
      <4> QED BY <1>0, <3>0, <4>5 DEF Together
    <3>2. CASE r = Server
      <4>1. Answering /\ o = Client
        BY <1>0, <2>1, <3>2 DEF Together, AtTurn, Asking, AtAnswer, Answering, Passing, Ending
      <4>2. /\ at'[Server] = "wait" /\ at'[Client] = at[Client] /\ wire'[Client] = wire[Client]
            /\ memory'[Server].round = memory[Server].round + 1
            /\ memory'[Client].round = memory[Client].round
        BY <1>0, <1>6, <1>7, <3>2, <4>1 DEF mem, new
      <4>3. /\ wire[Client] = <<>> /\ memory[Server].round = memory[Client].round
            /\ \/ at[Client] = "reply" /\ wire[Server] = <<Word(Server, "message")>>
               \/ at[Client] = "body" /\ wire[Server] = <<>>
        BY <1>0, <3>2, <4>1 DEF Answering, Unsent, Level
      <4>4. \/ at'[Client] = "reply" /\ IsPost(Server, wire'[Server])
            \/ at'[Client] = "body" /\ IsLetter(Server, wire'[Server])
        BY <2>4, <3>2, <4>2, <4>3
      <4>5. Answering'
        BY <4>2, <4>3, <4>4 DEF Answering, Unsent, Ahead
      <4> QED BY <1>0, <3>0, <4>5 DEF Together
    <3> QED BY <3>1, <3>2, Hosts
  <2>6. Loaded' = Loaded
    BY <1>6, <1>7, <2>1, Hosts DEF Loaded, mem, new
  <2>7. ContentOK(o)'
    BY <1>7, <2>1, <2>6 DEF ContentOK
  <2>8. ContentOK(r)'
    <3>1. msg \in Said(memory[r].outbox, wire[r])
      BY <1>2 DEF Said, mem
    <3>2. Said(memory'[r].outbox, wire'[r]) = {msg}
      <4>1. memory'[r].outbox = {}
        BY <1>6 DEF new
      <4>2. Said({}, wire'[r]) = {msg}
        <5>1. ASSUME NEW q, q = <<Letter(r, msg)>> \/ q = <<Word(r, "message"), Letter(r, msg)>>
              PROVE  Said({}, q) = {msg}
          BY <5>1, SaidPost
        <5> QED BY <2>2, <2>3, <5>1
      <4> QED BY <4>1, <4>2
    <3> QED BY <1>6, <2>1, <2>6, <3>1, <3>2 DEF ContentOK, mem, new
  <2> QED BY <2>1, <2>5, <2>7, <2>8, Hosts
<1> QED BY <1>0, <1>5, <1>8, <1>9, <1>10, <1>11, MoveKeeps
-----------------------------------------------------------------------------
\* The loop's arms for a selection: one for each word.
LEMMA Arms ==
  ASSUME NEW r, NEW l, Head(wire[OtherHost(r)]) = Word(OtherHost(r), l)
  PROVE  /\ \A next : Arm(r, l, next) = {next}
         /\ \A label, next : label # l => Arm(r, label, next) = {}
<1> DEFINE f == Head(wire[OtherHost(r)]).frame
<1>1. f.op = "select" /\ f.label = l
  BY Words
<1> HIDE DEF f
<1>2. \A label, next : Arm(r, label, next) = Only(f.op = "select" /\ f.label = label, next)
  BY DEF Arm, Incoming, f
<1> QED BY <1>1, <1>2 DEF Only

\* No word is taken for another, or for a letter.
LEMMA Apart ==
  /\ \A o, l, m : l # m => <<Word(o, l)>> # <<Word(o, m)>>
  /\ \A o, l : ~IsPost(o, <<Word(o, l)>>) /\ ~IsLetter(o, <<Word(o, l)>>)
  /\ \A o, q : IsPost(o, q) => ~IsLetter(o, q) /\ \A l : q # <<Word(o, l)>>
  /\ \A o : ~IsPost(o, <<>>) /\ ~IsLetter(o, <<>>)
<1>1. ASSUME NEW o, NEW l, NEW m, l # m PROVE <<Word(o, l)>> # <<Word(o, m)>>
  <2> DEFINE w == Word(o, l)
             k == Word(o, m)
  <2>1. w # k
    BY <1>1, Words
  <2> HIDE DEF w, k
  <2>2. <<w>> # <<k>>
    BY <2>1, Lists
  <2> QED BY <2>2 DEF w, k
<1>2. ASSUME NEW o, NEW l PROVE ~IsPost(o, <<Word(o, l)>>) /\ ~IsLetter(o, <<Word(o, l)>>)
  <2> DEFINE w == Word(o, l)
             q == <<w>>
  <2>1. w.message = {} /\ Len(q) = 1 /\ q[1] = w
    BY Words
  <2> HIDE DEF w, q
  <2>2. ~IsPost(o, q) /\ ~IsLetter(o, q)
    BY <2>1 DEF IsPost, IsLetter
  <2> QED BY <2>2 DEF w, q
<1>3. ASSUME NEW o, NEW q, IsPost(o, q) PROVE ~IsLetter(o, q) /\ \A l : q # <<Word(o, l)>>
  <2>1. Len(q) = 2
    BY <1>3 DEF IsPost
  <2> QED BY <1>2, <1>3, <2>1 DEF IsLetter
<1>4. \A o : ~IsPost(o, <<>>) /\ ~IsLetter(o, <<>>)
  BY DEF IsPost, IsLetter
<1> QED BY <1>1, <1>2, <1>3, <1>4

\* What is taken from a post leaves its letter, and nothing that was not said.
LEMMA Rests ==
  ASSUME NEW o, NEW q
  PROVE  /\ \A l : q = <<Word(o, l)>> => Head(q) = Word(o, l) /\ Tail(q) = <<>>
         /\ IsPost(o, q) => Head(q) = Word(o, "message") /\ IsLetter(o, Tail(q))
         /\ IsPost(o, q) \/ (\E l : q = <<Word(o, l)>>) =>
              \A b : Said(b, Tail(q)) \subseteq Said(b, q)
<1>1. ASSUME NEW l, q = <<Word(o, l)>> PROVE Head(q) = Word(o, l) /\ Tail(q) = <<>>
  <2> DEFINE w == Word(o, l)
  <2> HIDE DEF w
  <2>1. q = <<w>> => Head(q) = w /\ Tail(q) = <<>>
    BY Lists
  <2> QED BY <1>1, <2>1 DEF w
<1>2. ASSUME IsPost(o, q) PROVE Head(q) = Word(o, "message") /\ \E m : Tail(q) = <<Letter(o, m)>>
  <2>1. PICK m : q = <<Word(o, "message"), Letter(o, m)>>
    BY <1>2, Posts
  <2> DEFINE w == Word(o, "message")
             k == Letter(o, m)
  <2> HIDE DEF w, k
  <2>2. q = <<w, k>> => Head(q) = w /\ Tail(q) = <<k>>
    BY Lists
  <2> QED BY <2>1, <2>2 DEF w, k
<1>3. ASSUME NEW l, q = <<Word(o, l)>>, NEW b PROVE Said(b, Tail(q)) \subseteq Said(b, q)
  <2>1. Tail(q) = <<>>
    BY <1>1, <1>3
  <2>2. Said(b, Tail(q)) = b
    BY <2>1, SaidFacts
  <2> QED BY <2>2 DEF Said
<1>4. ASSUME IsPost(o, q), NEW b PROVE Said(b, Tail(q)) \subseteq Said(b, q)
  <2>1. PICK m : q = <<Word(o, "message"), Letter(o, m)>>
    BY <1>4, Posts
  <2> DEFINE w == Word(o, "message")
             k == Letter(o, m)
  <2>2. w.message = {} /\ q = <<w, k>>
    BY <2>1, Words
  <2> HIDE DEF w, k
  <2>3. Tail(q) = <<k>>
    BY <2>2, Lists
  <2>4. Said(b, q) = b \cup (w.message \cup k.message)
    BY <2>2, SaidFacts
  <2>5. Said(b, Tail(q)) = b \cup k.message
    BY <2>3, SaidFacts
  <2> QED BY <2>4, <2>5
<1> QED BY <1>1, <1>2, <1>3, <1>4, Posts

\* What a role has said is in order when it has done nothing and its peer, which
\* has what it loaded, has read from it.
LEMMA PeerContent ==
  ASSUME NEW o, ContentOK(o), memory'[o] = memory[o], Loaded' = Loaded,
         Said(memory[o].outbox, wire'[o]) \subseteq Said(memory[o].outbox, wire[o])
  PROVE  ContentOK(o)'
BY DEF ContentOK

\* The client reads that the server is idle, and its round is over, or that there is
\* a message for it.
LEMMA ReplySync ==
  ASSUME DraftInv, SyncInv, ClientReply
  PROVE  SyncInv'
<1> DEFINE mem == memory[Client]
           new == memory'[Client]
           q == wire[Server]
<1>0. /\ at[Client] = "reply" /\ Running(Client) /\ acked' = acked /\ q # <<>>
      /\ IF Arm(Client, "idle", "turn") # {}
         THEN ReceiveFrame(Client, RoundDone(mem), Arm(Client, "idle", "turn"))
         ELSE ReceiveFrame(Client, mem, Arm(Client, "message", "body"))
      /\ Client \in Host /\ Server \in Host /\ Client # Server
      /\ OtherHost(Client) = Server /\ OtherHost(Server) = Client
  BY Hosts DEF ClientReply, Calls, Incoming
<1>1. /\ CommandOK(Client) /\ InboxOK(Client) /\ MemoryOK(mem) /\ Abandoned
      /\ mem.machine = "server-turn" /\ mem.round \in Nat /\ MaxRounds \in Nat
  BY <1>0, AtCall DEF StateAt
<1>2. mem.round < MaxRounds /\ mem.outbox = {} /\ outcome[Client] # "refused"
  BY <1>0, <1>1 DEF CommandOK
<1>3. \/ q = <<Word(Server, "idle")>>
      \/ q = <<Word(Server, "message")>> \/ IsPost(Server, q)
  BY <1>0, <1>1, Inboxes
<1>4. \A b : Said(b, Tail(q)) \subseteq Said(b, q)
  BY <1>3, Rests
<1>5. ASSUME NEW m, NEW next, NEW t,
             AcceptTarget(Seen(Client, mem.machine), Client, Head(q).frame) = {t},
             ReceiveFrame(Client, m, {next})
      PROVE  /\ Moved(Client, next) /\ Takes(Client) /\ new = [m EXCEPT !.machine = t]
             /\ at'[Client] = next /\ at'[Server] = at[Server]
             /\ memory'[Server] = memory[Server] /\ outcome' = outcome
             /\ wire'[Server] = Tail(q) /\ wire'[Client] = wire[Client]
  <2>1. ASSUME NEW r \in Host,
               AcceptTarget(Seen(r, memory[r].machine), r, Head(wire[OtherHost(r)]).frame) = {t},
               ReceiveFrame(r, m, {next})
        PROVE  Moved(r, next) /\ Takes(r) /\ memory'[r] = [m EXCEPT !.machine = t]
    BY <2>1, TakeShape
  <2>2. Moved(Client, next) /\ Takes(Client) /\ new = [m EXCEPT !.machine = t]
    BY <1>0, <1>5, <2>1
  <2> HIDE DEF new
  <2> QED BY <1>0, <2>2 DEF Moved, Takes
<1>6. Both => /\ Together /\ ContentOK(Client) /\ ContentOK(Server) /\ wire[Client] = <<>> /\ ~acked
              /\ q = <<Word(Server, "idle")>> => Passing
              /\ ~(q = <<Word(Server, "idle")>>) => Answering
  <2> SUFFICES ASSUME Both
               PROVE  /\ Together /\ ContentOK(Client) /\ ContentOK(Server) /\ wire[Client] = <<>>
                      /\ ~acked
                      /\ q = <<Word(Server, "idle")>> => Passing
                      /\ ~(q = <<Word(Server, "idle")>>) => Answering
    OBVIOUS
  <2>1. Together /\ ContentOK(Client) /\ ContentOK(Server)
    BY <1>0 DEF SyncInv
  <2>2. Passing \/ Answering
    BY <1>0, <2>1 DEF Together, AtTurn, Asking, AtAnswer, Answering, Passing, Ending, Unsent
  <2>3. q = <<Word(Server, "idle")>> => ~Answering
    <3>1. Answering => \/ q = <<Word(Server, "message")>> \/ IsPost(Server, q)
      BY <1>0 DEF Answering
    <3>2. "idle" # "message"
      OBVIOUS
    <3> HIDE DEF q
    <3> QED BY <3>1, <3>2, Apart
  <2> QED BY <1>0, <2>1, <2>2, <2>3 DEF Together, Passing, Answering, Unsent
<1>7. CASE q = <<Word(Server, "idle")>>
  <2>1. Head(q) = Word(Server, "idle") /\ Tail(q) = <<>>
    BY <1>7, Rests
  <2>2. Arm(Client, "idle", "turn") = {"turn"}
    <3>1. ASSUME NEW l, Head(q) = Word(Server, l) PROVE \A next : Arm(Client, l, next) = {next}
      BY <1>0, <3>1, Arms
    <3> QED BY <2>1, <3>1
  <2>3. AcceptTarget(Seen(Client, mem.machine), Client, Head(q).frame) = {"client-turn"}
    BY <1>1, <2>1, SyncAccepts, Words
  <2>4. /\ Moved(Client, "turn") /\ new = [RoundDone(mem) EXCEPT !.machine = "client-turn"]
        /\ at'[Client] = "turn" /\ at'[Server] = at[Server] /\ memory'[Server] = memory[Server]
        /\ outcome' = outcome /\ wire'[Server] = <<>> /\ wire'[Client] = wire[Client]
    <3>1. ReceiveFrame(Client, RoundDone(mem), {"turn"})
      BY <1>0, <2>2
    <3> HIDE DEF mem, new, q
    <3> QED BY <1>5, <2>1, <2>3, <3>1
  <2>5. /\ new.doc = mem.doc /\ new.loaded = mem.loaded /\ new.held = mem.held
        /\ new.peer = mem.peer /\ new.outbox = {} /\ new.machine = "client-turn"
        /\ new.round = mem.round + 1
    <3> HIDE DEF mem, new
    <3>1. MemoryOK(RoundDone(mem))
      BY <1>1, MemoryFacts
    <3> QED BY <1>1, <1>2, <2>4, <3>1, Fields
  <2> HIDE DEF mem, new, q
  <2>6. CommandOK(Client)'
    BY <1>0, <1>1, <1>2, <2>4, <2>5 DEF CommandOK, Place, StateAt, Running, new
  <2>7. InboxOK(Client)'
    BY <1>0, <2>4 DEF InboxOK
  <2>8. Abandoned'
    BY <1>0, <1>1, <2>4, <2>5 DEF Abandoned, Running, mem, new
  <2>9. ASSUME Both PROVE Together' /\ ContentOK(Client)' /\ ContentOK(Server)'
    <3>1. AtTurn'
      BY <1>0, <1>6, <1>7, <2>4, <2>5, <2>9
         DEF Passing, AtTurn, Unsent, Ahead, Level, Equal, mem, new
    <3>2. Loaded' = Loaded
      BY <2>4, <2>5 DEF Loaded, mem, new
    <3>3. ContentOK(Server)'
      BY <1>4, <1>6, <2>1, <2>4, <2>9, <3>2, PeerContent DEF q
    <3>4. ContentOK(Client)'
      <4>1. wire'[Client] = wire[Client] /\ new.outbox = mem.outbox
        BY <1>2, <2>4, <2>5
      <4> QED BY <1>6, <2>5, <2>9, <3>2, <4>1 DEF ContentOK, mem, new
    <3> QED BY <1>0, <1>6, <2>9, <3>1, <3>3, <3>4 DEF Together
  <2> QED BY <1>0, <2>4, <2>6, <2>7, <2>8, <2>9, MoveKeeps
<1>8. CASE q = <<Word(Server, "message")>> \/ IsPost(Server, q)
  <2>1. /\ Head(q) = Word(Server, "message")
        /\ (q = <<Word(Server, "message")>> /\ Tail(q) = <<>>)
             \/ (IsPost(Server, q) /\ IsLetter(Server, Tail(q)))
    BY <1>8, Rests
  <2>2. Arm(Client, "idle", "turn") = {} /\ Arm(Client, "message", "body") = {"body"}
    <3>1. ASSUME NEW l, Head(q) = Word(Server, l)
          PROVE  /\ \A next : Arm(Client, l, next) = {next}
                 /\ \A label, next : label # l => Arm(Client, label, next) = {}
      BY <1>0, <3>1, Arms
    <3> QED BY <2>1, <3>1
  <2>3. AcceptTarget(Seen(Client, mem.machine), Client, Head(q).frame) = {"server-send"}
    BY <1>1, <2>1, SyncAccepts, Words
  <2>4. /\ Moved(Client, "body") /\ new = [mem EXCEPT !.machine = "server-send"]
        /\ at'[Client] = "body" /\ at'[Server] = at[Server] /\ memory'[Server] = memory[Server]
        /\ outcome' = outcome /\ wire'[Server] = Tail(q) /\ wire'[Client] = wire[Client]
    <3>1. ReceiveFrame(Client, mem, {"body"})
      BY <1>0, <2>2
    <3> HIDE DEF mem, new, q
    <3> QED BY <1>5, <2>1, <2>3, <3>1
  <2>5. /\ new.doc = mem.doc /\ new.loaded = mem.loaded /\ new.held = mem.held
        /\ new.peer = mem.peer /\ new.outbox = {} /\ new.machine = "server-send"
        /\ new.round = mem.round
    <3> HIDE DEF mem, new
    <3> QED BY <1>1, <1>2, <2>4, Fields
  <2>0. ~(q = <<Word(Server, "idle")>>)
    <3>1. "idle" # "message"
      OBVIOUS
    <3> HIDE DEF q
    <3> QED BY <1>8, <3>1, Apart
  <2> HIDE DEF mem, new, q
  <2>6. CommandOK(Client)'
    BY <1>0, <1>1, <1>2, <2>4, <2>5 DEF CommandOK, Place, StateAt, Running, new
  <2>7. InboxOK(Client)'
    BY <1>0, <2>1, <2>4 DEF InboxOK
  <2>8. Abandoned'
    BY <1>0, <1>1, <2>4, <2>5 DEF Abandoned, Running, mem, new
  <2>9. ASSUME Both PROVE Together' /\ ContentOK(Client)' /\ ContentOK(Server)'
    <3>1. Answering'
      <4>1. wire[Client] = <<>> /\ Answering
        BY <1>6, <2>0, <2>9
      <4>2. q = <<Word(Server, "message")>> => at[Server] = "data" /\ Level
        BY <1>0, <4>1, Apart DEF Answering, q
      <4>3. IsPost(Server, q) => at[Server] = "wait" /\ Ahead
        BY <1>0, <4>1, Apart DEF Answering, q
      <4> QED BY <2>1, <2>4, <2>5, <4>1, <4>2, <4>3 DEF Answering, Unsent, Ahead, Level, mem, new
    <3>2. Loaded' = Loaded
      BY <2>4, <2>5 DEF Loaded, mem, new
    <3>3. ContentOK(Server)'
      BY <1>4, <1>6, <2>1, <2>4, <2>9, <3>2, PeerContent DEF q
    <3>4. ContentOK(Client)'
      <4>1. wire'[Client] = wire[Client] /\ new.outbox = mem.outbox
        BY <1>2, <2>4, <2>5
      <4> QED BY <1>6, <2>5, <2>9, <3>2, <4>1 DEF ContentOK, mem, new
    <3> QED BY <1>0, <1>6, <2>9, <3>1, <3>3, <3>4 DEF Together
  <2> QED BY <1>0, <2>4, <2>6, <2>7, <2>8, <2>9, MoveKeeps
<1> QED BY <1>3, <1>7, <1>8

\* The server reads that there is a message for it, or that the client is done.
LEMMA WaitSync ==
  ASSUME DraftInv, SyncInv, ServerWait
  PROVE  SyncInv'
<1> DEFINE mem == memory[Server]
           new == memory'[Server]
           q == wire[Client]
<1>0. /\ at[Server] = "wait" /\ Running(Server) /\ acked' = acked /\ q # <<>>
      /\ mem.round < MaxRounds
      /\ ReceiveFrame(Server, mem,
                      Arm(Server, "message", "body") \cup Arm(Server, "done", "finish"))
      /\ Client \in Host /\ Server \in Host /\ Client # Server
      /\ OtherHost(Client) = Server /\ OtherHost(Server) = Client
  BY Hosts DEF ServerWait, Calls, Incoming
<1>1. /\ CommandOK(Server) /\ InboxOK(Server) /\ MemoryOK(mem)
      /\ mem.machine = "client-turn" /\ mem.round \in Nat /\ MaxRounds \in Nat
      /\ outcome[Server] # "rounds"
  BY <1>0, AtCall DEF StateAt
<1>2. mem.outbox = {} /\ outcome[Server] # "refused"
  BY <1>0, <1>1 DEF CommandOK
<1>3. \/ q = <<Word(Client, "done")>>
      \/ q = <<Word(Client, "message")>> \/ IsPost(Client, q)
  BY <1>0, <1>1, Inboxes
<1>4. \A b : Said(b, Tail(q)) \subseteq Said(b, q)
  BY <1>3, Rests
<1>5. ASSUME NEW m, NEW next, NEW t,
             AcceptTarget(Seen(Server, mem.machine), Server, Head(q).frame) = {t},
             ReceiveFrame(Server, m, {next})
      PROVE  /\ Moved(Server, next) /\ Takes(Server) /\ new = [m EXCEPT !.machine = t]
             /\ at'[Server] = next /\ at'[Client] = at[Client]
             /\ memory'[Client] = memory[Client] /\ outcome' = outcome
             /\ wire'[Client] = Tail(q) /\ wire'[Server] = wire[Server]
  <2>1. ASSUME NEW r \in Host,
               AcceptTarget(Seen(r, memory[r].machine), r, Head(wire[OtherHost(r)]).frame) = {t},
               ReceiveFrame(r, m, {next})
        PROVE  Moved(r, next) /\ Takes(r) /\ memory'[r] = [m EXCEPT !.machine = t]
    BY <2>1, TakeShape
  <2>2. Moved(Server, next) /\ Takes(Server) /\ new = [m EXCEPT !.machine = t]
    BY <1>0, <1>5, <2>1
  <2> HIDE DEF new
  <2> QED BY <1>0, <2>2 DEF Moved, Takes
<1>6. Both => /\ Together /\ ContentOK(Client) /\ ContentOK(Server) /\ wire[Server] = <<>> /\ ~acked
              /\ q = <<Word(Client, "done")>> => Ending
              /\ ~(q = <<Word(Client, "done")>>) => Asking
  <2> SUFFICES ASSUME Both
               PROVE  /\ Together /\ ContentOK(Client) /\ ContentOK(Server) /\ wire[Server] = <<>>
                      /\ ~acked
                      /\ q = <<Word(Client, "done")>> => Ending
                      /\ ~(q = <<Word(Client, "done")>>) => Asking
    OBVIOUS
  <2>1. Together /\ ContentOK(Client) /\ ContentOK(Server)
    BY <1>0 DEF SyncInv
  <2>2. Ending \/ Asking
    BY <1>0, <2>1 DEF Together, AtTurn, Asking, AtAnswer, Answering, Passing, Ending, Unsent
  <2>3. "done" # "message"
    OBVIOUS
  <2>4. q = <<Word(Client, "done")>> => ~Asking
    <3>1. Asking => q = <<Word(Client, "message")>> \/ IsPost(Client, q)
      BY <1>0 DEF Asking
    <3> HIDE DEF q
    <3> QED BY <2>3, <3>1, Apart
  <2>5. Ending => q = <<Word(Client, "done")>>
    BY <1>0 DEF Ending, Unsent
  <2> QED BY <1>0, <2>1, <2>2, <2>4, <2>5 DEF Together, Ending, Asking, Unsent
<1>7. CASE q = <<Word(Client, "done")>>
  <2>1. Head(q) = Word(Client, "done") /\ Tail(q) = <<>>
    BY <1>7, Rests
  <2>2. Arm(Server, "message", "body") = {} /\ Arm(Server, "done", "finish") = {"finish"}
    <3>1. ASSUME NEW l, Head(q) = Word(Client, l)
          PROVE  /\ \A next : Arm(Server, l, next) = {next}
                 /\ \A label, next : label # l => Arm(Server, label, next) = {}
      BY <1>0, <3>1, Arms
    <3> QED BY <2>1, <3>1
  <2>3. AcceptTarget(Seen(Server, mem.machine), Server, Head(q).frame) = {"end"}
    BY <1>1, <2>1, SyncAccepts, Words
  <2>4. /\ Moved(Server, "finish") /\ new = [mem EXCEPT !.machine = "end"]
        /\ at'[Server] = "finish" /\ at'[Client] = at[Client] /\ memory'[Client] = memory[Client]
        /\ outcome' = outcome /\ wire'[Client] = <<>> /\ wire'[Server] = wire[Server]
    <3>1. ReceiveFrame(Server, mem, {"finish"})
      BY <1>0, <2>2
    <3> HIDE DEF mem, new, q
    <3> QED BY <1>5, <2>1, <2>3, <3>1
  <2>5. /\ new.doc = mem.doc /\ new.loaded = mem.loaded /\ new.held = mem.held
        /\ new.peer = mem.peer /\ new.outbox = {} /\ new.machine = "end"
        /\ new.round = mem.round
    <3> HIDE DEF mem, new
    <3> QED BY <1>1, <1>2, <2>4, Fields
  <2> HIDE DEF mem, new, q
  <2>6. CommandOK(Server)'
    BY <1>0, <1>1, <1>2, <2>4, <2>5 DEF CommandOK, Place, StateAt, Running, mem, new
  <2>7. InboxOK(Server)' /\ Abandoned'
    BY <1>0, <1>1, <2>4 DEF InboxOK, Abandoned
  <2>9. ASSUME Both PROVE Together' /\ ContentOK(Client)' /\ ContentOK(Server)'
    <3>1. Ending'
      BY <1>0, <1>6, <1>7, <2>4, <2>5, <2>9 DEF Ending, Unsent, Level, Equal, mem, new
    <3>2. Loaded' = Loaded
      BY <2>4, <2>5 DEF Loaded, mem, new
    <3>3. ContentOK(Client)'
      BY <1>4, <1>6, <2>1, <2>4, <2>9, <3>2, PeerContent DEF q
    <3>4. ContentOK(Server)'
      <4>1. wire'[Server] = wire[Server] /\ new.outbox = mem.outbox
        BY <1>2, <2>4, <2>5
      <4> QED BY <1>6, <2>5, <2>9, <3>2, <4>1 DEF ContentOK, mem, new
    <3> QED BY <1>0, <1>6, <2>9, <3>1, <3>3, <3>4 DEF Together
  <2> QED BY <1>0, <2>4, <2>6, <2>7, <2>9, MoveKeeps
<1>8. CASE q = <<Word(Client, "message")>> \/ IsPost(Client, q)
  <2>1. /\ Head(q) = Word(Client, "message")
        /\ (q = <<Word(Client, "message")>> /\ Tail(q) = <<>>)
             \/ (IsPost(Client, q) /\ IsLetter(Client, Tail(q)))
    BY <1>8, Rests
  <2>2. Arm(Server, "done", "finish") = {} /\ Arm(Server, "message", "body") = {"body"}
    <3>1. ASSUME NEW l, Head(q) = Word(Client, l)
          PROVE  /\ \A next : Arm(Server, l, next) = {next}
                 /\ \A label, next : label # l => Arm(Server, label, next) = {}
      BY <1>0, <3>1, Arms
    <3> QED BY <2>1, <3>1
  <2>3. AcceptTarget(Seen(Server, mem.machine), Server, Head(q).frame) = {"client-send"}
    BY <1>1, <2>1, SyncAccepts, Words
  <2>4. /\ Moved(Server, "body") /\ new = [mem EXCEPT !.machine = "client-send"]
        /\ at'[Server] = "body" /\ at'[Client] = at[Client] /\ memory'[Client] = memory[Client]
        /\ outcome' = outcome /\ wire'[Client] = Tail(q) /\ wire'[Server] = wire[Server]
    <3>1. ReceiveFrame(Server, mem, {"body"})
      BY <1>0, <2>2
    <3> HIDE DEF mem, new, q
    <3> QED BY <1>5, <2>1, <2>3, <3>1
  <2>5. /\ new.doc = mem.doc /\ new.loaded = mem.loaded /\ new.held = mem.held
        /\ new.peer = mem.peer /\ new.outbox = {} /\ new.machine = "client-send"
        /\ new.round = mem.round
    <3> HIDE DEF mem, new
    <3> QED BY <1>1, <1>2, <2>4, Fields
  <2>0. ~(q = <<Word(Client, "done")>>)
    <3>1. "done" # "message"
      OBVIOUS
    <3> HIDE DEF q
    <3> QED BY <1>8, <3>1, Apart
  <2> HIDE DEF mem, new, q
  <2>6. CommandOK(Server)'
    BY <1>0, <1>1, <1>2, <2>4, <2>5 DEF CommandOK, Place, StateAt, Running, mem, new
  <2>7. InboxOK(Server)' /\ Abandoned'
    BY <1>0, <1>1, <2>1, <2>4 DEF InboxOK, Abandoned
  <2>9. ASSUME Both PROVE Together' /\ ContentOK(Client)' /\ ContentOK(Server)'
    <3>1. Asking'
      <4>1. wire[Server] = <<>> /\ Asking
        BY <1>6, <2>0, <2>9
      <4>2. q = <<Word(Client, "message")>> => at[Client] = "data"
        BY <1>0, <4>1, Apart DEF Asking, q
      <4>3. IsPost(Client, q) => at[Client] = "reply"
        BY <1>0, <4>1, Apart DEF Asking, q
      <4> QED BY <2>1, <2>4, <2>5, <4>1, <4>2, <4>3 DEF Asking, Unsent, Level, mem, new
    <3>2. Loaded' = Loaded
      BY <2>4, <2>5 DEF Loaded, mem, new
    <3>3. ContentOK(Client)'
      BY <1>4, <1>6, <2>1, <2>4, <2>9, <3>2, PeerContent DEF q
    <3>4. ContentOK(Server)'
      <4>1. wire'[Server] = wire[Server] /\ new.outbox = mem.outbox
        BY <1>2, <2>4, <2>5
      <4> QED BY <1>6, <2>5, <2>9, <3>2, <4>1 DEF ContentOK, mem, new
    <3> QED BY <1>0, <1>6, <2>9, <3>1, <3>3, <3>4 DEF Together
  <2> QED BY <1>0, <2>4, <2>6, <2>7, <2>9, MoveKeeps
<1> QED BY <1>3, <1>7, <1>8

\* A message is received, with what its sender had when it was sent.
LEMMA BodySync ==
  ASSUME DraftInv, SyncInv, NEW r \in Host, ReceiveSync(r)
  PROVE  SyncInv'
<1> DEFINE o == OtherHost(r)
           mem == memory[r]
           new == memory'[r]
           q == wire[o]
           a == IF r = Client THEN "turn" ELSE "answer"
           s == IF r = Client THEN "client-turn" ELSE "server-turn"
<1>0. /\ at[r] = "body" /\ Running(r) /\ acked' = acked /\ q # <<>>
      /\ o \in Host /\ o # r /\ Host = {r, o} /\ (r = Client \/ r = Server) /\ OtherHost(o) = r
      /\ Client \in Host /\ Server \in Host /\ Client # Server
      /\ OtherHost(Client) = Server /\ OtherHost(Server) = Client
  BY Hosts DEF ReceiveSync, Calls, Incoming
<1>1. /\ CommandOK(r) /\ InboxOK(r) /\ MemoryOK(mem) /\ Abandoned /\ at[r] \in Place(r)
      /\ mem.round \in Nat /\ MaxRounds \in Nat /\ mem.machine = StateAt(r, "body")
      /\ r = Server => outcome[Server] # "rounds"
  BY <1>0, AtCall
<1>2. mem.round < MaxRounds /\ mem.outbox = {} /\ outcome[r] # "refused"
  BY <1>0, <1>1 DEF CommandOK
<1>3. PICK m : q = <<Letter(o, m)>>
  <2>1. IsLetter(o, q)
    BY <1>0, <1>1 DEF InboxOK, Listens
  <2> HIDE DEF q
  <2> QED BY <2>1, Posts
<1>4. Head(q) = Letter(o, m) /\ Tail(q) = <<>>
  <2> DEFINE k == Letter(o, m)
  <2> HIDE DEF k
  <2>1. q = <<k>> => Head(q) = k /\ Tail(q) = <<>>
    BY Lists
  <2> QED BY <1>3, <2>1 DEF k
<1>5. Head(q).message = {m} /\ Head(q).frame = DataFrame(o, r, "sync")
  BY <1>0, <1>4, Words
<1>6. GoodDoc(m.changes)
  <2>1. GoodMessages(Head(q).message)
    BY <1>0, WireRest DEF DraftInv, ExchangeOK
  <2> QED BY <1>5, <2>1 DEF GoodMessages
<1> DEFINE now == Applied(mem.doc, mem.held, m)
           after == [mem EXCEPT !.doc = now, !.held = (mem.held \cup m.changes) \ now,
                                !.peer = AfterReceive(mem.doc, mem.peer, m)]
           n == IF r = Client THEN RoundDone(after) ELSE after
<1>7. ReceiveFrame(r, n, {a})
  <2>1. Head(Incoming(r)).message = {m}
    BY <1>5 DEF Incoming
  <2> QED BY <2>1 DEF ReceiveSync
<1>8. /\ MemoryOK(after) /\ after.loaded = mem.loaded /\ after.outbox = mem.outbox
      /\ after.round = mem.round
      /\ after.peer.their = {m.heads} /\ after.peer.in_flight = FALSE
      /\ after.doc \subseteq mem.doc \cup (mem.held \cup m.changes)
      /\ after.held \subseteq mem.held \cup m.changes
  <2>1. PeerOK(mem.peer)
    BY <1>1 DEF MemoryOK
  <2> DEFINE p == AfterReceive(mem.doc, mem.peer, m)
  <2>2. p.their = {m.heads} /\ p.in_flight = FALSE
    <3> HIDE DEF mem
    <3> QED BY <2>1, PeerTaken
  <2>3. /\ MemoryOK(after) /\ after.loaded = mem.loaded /\ after.outbox = mem.outbox
        /\ after.round = mem.round /\ after.peer = p
        /\ after.doc \subseteq mem.doc \cup (mem.held \cup m.changes)
        /\ after.held \subseteq mem.held \cup m.changes
    <3> HIDE DEF mem
    <3> QED BY <1>1, <1>6, Received
  <2> HIDE DEF p, after
  <2> QED BY <2>2, <2>3
<1>9. AcceptTarget(Seen(r, mem.machine), r, Head(q).frame) = {s}
  BY <1>0, <1>1, <1>5, SyncAccepts DEF StateAt
<1>10. /\ Moved(r, a) /\ new = [n EXCEPT !.machine = s]
       /\ at'[r] = a /\ at'[o] = at[o] /\ memory'[o] = memory[o] /\ outcome' = outcome
       /\ wire'[o] = <<>> /\ wire'[r] = wire[r]
  <2> HIDE DEF n, a, s, mem, new
  <2>1. AcceptTarget(Seen(r, memory[r].machine), r, Head(wire[OtherHost(r)]).frame) = {s}
    BY <1>9 DEF mem
  <2>2. Moved(r, a) /\ Takes(r) /\ new = [n EXCEPT !.machine = s]
    BY <1>7, <2>1, TakeShape DEF new
  <2> QED BY <1>4, <2>2 DEF Moved, Takes
<1> HIDE DEF after, mem, new
<1>11. /\ new.loaded = mem.loaded /\ new.outbox = {} /\ new.machine = s
       /\ new.peer.their = {m.heads} /\ new.peer.in_flight = FALSE
       /\ new.round = IF r = Client THEN mem.round + 1 ELSE mem.round
       /\ new.doc \subseteq mem.doc \cup (mem.held \cup m.changes)
       /\ new.held \subseteq mem.held \cup m.changes
  <2>1. /\ MemoryOK(n) /\ n.loaded = mem.loaded /\ n.outbox = {}
        /\ n.peer.their = {m.heads} /\ n.peer.in_flight = FALSE
        /\ n.round = IF r = Client THEN mem.round + 1 ELSE mem.round
        /\ n.doc \subseteq mem.doc \cup (mem.held \cup m.changes)
        /\ n.held \subseteq mem.held \cup m.changes
    <3>1. /\ RoundDone(after).loaded = after.loaded /\ RoundDone(after).outbox = after.outbox
          /\ RoundDone(after).peer = after.peer /\ RoundDone(after).round = after.round + 1
          /\ RoundDone(after).doc = after.doc /\ RoundDone(after).held = after.held
          /\ MemoryOK(RoundDone(after))
      BY <1>8, Fields, MemoryFacts
    <3>2. CASE r = Client
      BY <1>2, <1>8, <3>1, <3>2
    <3>3. CASE r # Client
      BY <1>2, <1>8, <3>3
    <3> QED BY <3>2, <3>3
  <2> HIDE DEF n
  <2> QED BY <1>10, <2>1, Fields
<1> HIDE DEF n
<1>12. CommandOK(r)'
  <2>1. /\ a \in Place(r) /\ StateAt(r, a) = s /\ a \in {"turn", "answer"}
        /\ r = Server => a = "answer"
    BY <1>0 DEF Place, StateAt
  <2>2. new.round \in 0..MaxRounds /\ (r = Server => new.round < MaxRounds)
    BY <1>0, <1>1, <1>2, <1>11
  <2> QED BY <1>0, <1>2, <1>10, <1>11, <2>1, <2>2 DEF CommandOK, Running, new
<1>13. InboxOK(r)'
  BY <1>0, <1>10 DEF InboxOK
<1>14. Abandoned'
  <2>1. CASE r = Server
    BY <1>1, <1>10, <2>1 DEF Abandoned
  <2>2. CASE r = Client
    BY <1>0, <1>1, <1>10, <1>11, <2>2 DEF Abandoned, Running, mem, new
  <2> QED BY <1>0, <2>1, <2>2
<1>15. ASSUME Both PROVE Together' /\ ContentOK(Client)' /\ ContentOK(Server)'
  <2>1. Together /\ ContentOK(r) /\ ContentOK(o)
    BY <1>0, <1>15 DEF SyncInv
  <2>2. m.heads = memory[o].doc /\ m.changes \subseteq Loaded
    <3>1. m \in Said(memory[o].outbox, q)
      BY <1>3, SaidWords
    <3> QED BY <2>1, <3>1 DEF ContentOK
  <2>3. ~acked
    BY <1>0, <2>1 DEF Together, AtTurn, Asking, AtAnswer, Answering, Passing, Ending
  <2>4. Together' /\ wire[r] = <<>>
    <3>1. CASE r = Client
      <4>1. Answering /\ o = Server
        BY <1>0, <2>1, <3>1 DEF Together, AtTurn, Asking, AtAnswer, Answering, Passing, Ending
      <4>2. at[Server] = "wait" /\ Ahead /\ wire[Client] = <<>>
        BY <1>0, <3>1, <4>1 DEF Answering, Unsent
      <4>3. /\ at'[Client] = "turn" /\ at'[Server] = "wait"
            /\ wire'[Client] = <<>> /\ wire'[Server] = <<>>
        BY <1>0, <1>10, <3>1, <4>1, <4>2
      <4>4. /\ memory'[Client].round = memory[Client].round + 1
            /\ memory'[Client].peer.their = {memory'[Server].doc}
            /\ memory'[Client].peer.in_flight = FALSE
            /\ memory'[Server] = memory[Server]
        <5>1. /\ mem = memory[Client] /\ new = memory'[Client] /\ memory'[Server] = memory[Server]
              /\ m.heads = memory[Server].doc
          BY <1>10, <2>2, <3>1, <4>1 DEF mem, new
        <5>2. new.round = mem.round + 1
          BY <1>0, <1>11, <3>1
        <5>3. new.peer.their = {m.heads} /\ new.peer.in_flight = FALSE
          BY <1>11
        <5> HIDE DEF o
        <5> QED BY <5>1, <5>2, <5>3
      <4>5. AtTurn'
        BY <4>2, <4>3, <4>4 DEF AtTurn, Unsent, Level, Ahead
      <4> QED BY <1>0, <2>3, <3>1, <4>2, <4>5 DEF Together
    <3>2. CASE r = Server
      <4>1. Asking /\ o = Client
        BY <1>0, <2>1, <3>2 DEF Together, AtTurn, Asking, AtAnswer, Answering, Passing, Ending
      <4>2. /\ at[Client] = "reply" /\ Level /\ wire[Server] = <<>>
            /\ memory[Client].peer.in_flight
        BY <1>0, <3>2, <4>1 DEF Asking, Unsent
      <4>3. /\ at'[Server] = "answer" /\ at'[Client] = "reply"
            /\ wire'[Client] = <<>> /\ wire'[Server] = <<>>
        BY <1>0, <1>10, <3>2, <4>1, <4>2
      <4>4. /\ memory'[Server].round = memory[Server].round
            /\ memory'[Server].peer.their = {memory'[Client].doc}
            /\ memory'[Server].peer.in_flight = FALSE
            /\ memory'[Client] = memory[Client]
        <5>1. /\ mem = memory[Server] /\ new = memory'[Server] /\ memory'[Client] = memory[Client]
              /\ m.heads = memory[Client].doc
          BY <1>10, <2>2, <3>2, <4>1 DEF mem, new
        <5>2. new.round = mem.round
          BY <1>0, <1>11, <3>2
        <5>3. new.peer.their = {m.heads} /\ new.peer.in_flight = FALSE
          BY <1>11
        <5> HIDE DEF o
        <5> QED BY <5>1, <5>2, <5>3
      <4>5. AtAnswer'
        BY <4>2, <4>3, <4>4 DEF AtAnswer, Unsent, Level
      <4> QED BY <1>0, <2>3, <3>2, <4>2, <4>5 DEF Together
    <3> QED BY <1>0, <3>1, <3>2
  <2>5. Loaded' = Loaded
    BY <1>0, <1>10, <1>11 DEF Loaded, mem, new
  <2>6. ContentOK(o)'
    <3>1. Said(memory[o].outbox, wire'[o]) = memory[o].outbox
      BY <1>10, SaidFacts
    <3>2. memory[o].outbox \subseteq Said(memory[o].outbox, wire[o])
      BY DEF Said
    <3> QED BY <1>10, <2>1, <2>5, <3>1, <3>2, PeerContent
  <2>7. ContentOK(r)'
    <3>1. Said(memory'[r].outbox, wire'[r]) = {}
      BY <1>10, <1>11, <2>4, SaidFacts DEF new
    <3> QED BY <1>11, <2>1, <2>2, <2>5, <3>1 DEF ContentOK, mem, new
  <2> QED BY <1>0, <2>4, <2>6, <2>7
<1> QED BY <1>0, <1>10, <1>12, <1>13, <1>14, <1>15, MoveKeeps

\* The server answers with a message, or is idle: then the client, which has told all
\* it had, holds what the server holds.
LEMMA AnswerSync ==
  ASSUME DraftInv, SyncInv, ServerAnswer
  PROVE  SyncInv'
<1> DEFINE mem == memory[Server]
           new == memory'[Server]
<1>0. /\ at[Server] = "answer" /\ Running(Server) /\ acked' = acked
      /\ Offer(Server, "idle", RoundDone(mem), "wait")
      /\ Client \in Host /\ Server \in Host /\ Client # Server
      /\ OtherHost(Server) = Client /\ OtherHost(Client) = Server
  BY Hosts DEF ServerAnswer, Calls
<1>1. /\ CommandOK(Server) /\ InboxOK(Server) /\ MemoryOK(mem) /\ outcome[Server] # "rounds"
      /\ mem.machine = "server-turn" /\ mem.round \in Nat /\ MaxRounds \in Nat
  BY <1>0, AtCall DEF StateAt
<1>2. mem.round < MaxRounds /\ mem.outbox = {} /\ outcome[Server] # "refused"
  BY <1>0, <1>1 DEF CommandOK
<1>3. \/ /\ Moved(Server, "data") /\ Sends(Server, Word(Server, "message"))
         /\ new.doc = mem.doc /\ new.loaded = mem.loaded /\ new.held = mem.held
         /\ new.machine = "server-send" /\ new.round = mem.round
         /\ \E msg : new.outbox = {msg} /\ msg.heads = mem.doc /\ msg.changes \subseteq mem.doc
      \/ /\ Moved(Server, "wait") /\ Sends(Server, Word(Server, "idle"))
         /\ new = [RoundDone(mem) EXCEPT !.machine = "client-turn"]
         /\ mem.peer.in_flight \/ mem.peer.their = {mem.doc}
  <2> DEFINE w == "idle"
             a == "wait"
             ss == "server-send"
             ct == "client-turn"
             m == RoundDone(mem)
  <2>1. /\ TraceStep(Sync, memory[Server].machine, SelectFrame(Server, "message")) = {ss}
        /\ TraceStep(Sync, memory[Server].machine, SelectFrame(Server, w)) = {ct}
        /\ Offer(Server, w, m, a) /\ Server \in Host
    BY <1>0, <1>1, SyncSends
  <2> HIDE DEF mem, new, w, a, ss, ct, m
  <2>2. LET old == memory[Server]
            kept == memory'[Server]
        IN
        \/ /\ Moved(Server, "data") /\ Sends(Server, Word(Server, "message"))
           /\ kept.doc = old.doc /\ kept.loaded = old.loaded /\ kept.held = old.held
           /\ kept.machine = ss /\ kept.round = old.round
           /\ kept.peer.in_flight
           /\ \E msg : /\ kept.outbox = {msg} /\ msg.heads = old.doc
                       /\ msg.changes \subseteq old.doc
        \/ /\ Moved(Server, a) /\ Sends(Server, Word(Server, w)) /\ kept = [m EXCEPT !.machine = ct]
           /\ old.peer.responded
           /\ old.peer.in_flight \/ old.peer.their = {old.doc}
    BY <2>1, OfferShape
  <2> QED BY <2>2 DEF w, a, ss, ct, m, mem, new
<1>4. wire[Client] = <<>>
  BY <1>0, <1>1, Inboxes
<1>5. Both => AtAnswer /\ ~acked /\ wire[Server] = <<>> /\ ContentOK(Client) /\ ContentOK(Server)
  BY <1>0 DEF SyncInv, Together, AtTurn, Asking, AtAnswer, Answering, Passing, Ending, Unsent
<1>6. CASE /\ Moved(Server, "data") /\ Sends(Server, Word(Server, "message"))
           /\ new.doc = mem.doc /\ new.loaded = mem.loaded /\ new.held = mem.held
           /\ new.machine = "server-send" /\ new.round = mem.round
           /\ \E msg : /\ new.outbox = {msg} /\ msg.heads = mem.doc
                       /\ msg.changes \subseteq mem.doc
  <2> HIDE DEF mem, new
  <2>1. /\ at'[Server] = "data" /\ at'[Client] = at[Client] /\ memory'[Client] = memory[Client]
        /\ outcome' = outcome /\ wire'[Client] = wire[Client]
        /\ wire'[Server] = Append(wire[Server], Word(Server, "message"))
    BY <1>0, <1>6 DEF Moved, Sends
  <2>2. CommandOK(Server)'
    BY <1>0, <1>1, <1>2, <1>6, <2>1 DEF CommandOK, Place, StateAt, Running, mem, new
  <2>3. InboxOK(Server)' /\ Abandoned'
    BY <1>0, <1>1, <1>4, <2>1 DEF InboxOK, Abandoned
  <2>4. ASSUME Both PROVE Together' /\ ContentOK(Client)' /\ ContentOK(Server)'
    <3>1. wire'[Server] = <<Word(Server, "message")>>
      BY <1>5, <2>1, <2>4, Lists
    <3>2. Answering'
      BY <1>4, <1>5, <1>6, <2>1, <2>4, <3>1 DEF AtAnswer, Answering, Unsent, Level, mem, new
    <3>3. Loaded' = Loaded
      BY <1>6, <2>1 DEF Loaded, mem, new
    <3>4. ContentOK(Client)'
      BY <1>5, <2>1, <2>4, <3>3 DEF ContentOK
    <3>5. ContentOK(Server)'
      <4>1. Said(memory'[Server].outbox, wire'[Server]) = new.outbox
        BY <3>1, SaidWords DEF new
      <4> QED BY <1>5, <1>6, <2>4, <3>3, <4>1 DEF ContentOK, mem, new
    <3> QED BY <1>0, <1>5, <2>4, <3>2, <3>4, <3>5 DEF Together
  <2> QED BY <1>0, <1>6, <2>2, <2>3, <2>4, MoveKeeps
<1>7. CASE /\ Moved(Server, "wait") /\ Sends(Server, Word(Server, "idle"))
           /\ new = [RoundDone(mem) EXCEPT !.machine = "client-turn"]
           /\ mem.peer.in_flight \/ mem.peer.their = {mem.doc}
  <2>0. /\ new.doc = mem.doc /\ new.loaded = mem.loaded /\ new.held = mem.held
        /\ new.outbox = {} /\ new.machine = "client-turn" /\ new.round = mem.round + 1
    <3> HIDE DEF mem, new
    <3>1. MemoryOK(RoundDone(mem))
      BY <1>1, MemoryFacts
    <3> QED BY <1>1, <1>2, <1>7, <3>1, Fields
  <2> HIDE DEF mem, new
  <2>1. /\ at'[Server] = "wait" /\ at'[Client] = at[Client] /\ memory'[Client] = memory[Client]
        /\ outcome' = outcome /\ wire'[Client] = wire[Client]
        /\ wire'[Server] = Append(wire[Server], Word(Server, "idle"))
    BY <1>0, <1>7 DEF Moved, Sends
  <2>2. CommandOK(Server)'
    BY <1>0, <1>1, <1>2, <2>0, <2>1 DEF CommandOK, Place, StateAt, Running, new
  <2>3. InboxOK(Server)' /\ Abandoned'
    BY <1>0, <1>1, <1>4, <2>1 DEF InboxOK, Abandoned
  <2>4. ASSUME Both PROVE Together' /\ ContentOK(Client)' /\ ContentOK(Server)'
    <3>1. wire'[Server] = <<Word(Server, "idle")>>
      BY <1>5, <2>1, <2>4, Lists
    <3>2. Equal
      <4>1. mem.peer.their = {memory[Client].doc} /\ ~mem.peer.in_flight
        BY <1>5, <2>4 DEF AtAnswer, mem
      <4>2. mem.doc = memory[Client].doc
        BY <1>7, <4>1
      <4> QED BY <4>2 DEF Equal, mem
    <3>3. Loaded' = Loaded
      BY <2>0, <2>1 DEF Loaded, mem, new
    <3>4. Passing'
      BY <1>0, <1>4, <1>5, <2>0, <2>1, <2>4, <3>1, <3>2
         DEF AtAnswer, Passing, Unsent, Level, Ahead, Equal, mem, new
    <3>5. ContentOK(Client)'
      BY <1>5, <2>1, <2>4, <3>3 DEF ContentOK
    <3>6. ContentOK(Server)'
      <4>1. Said(memory'[Server].outbox, wire'[Server]) = {}
        BY <2>0, <3>1, SaidWords DEF new
      <4> QED BY <1>5, <2>0, <2>4, <3>3, <4>1 DEF ContentOK, mem, new
    <3> QED BY <1>0, <1>5, <2>4, <3>4, <3>5, <3>6 DEF Together
  <2> QED BY <1>0, <1>7, <2>2, <2>3, <2>4, MoveKeeps
<1> QED BY <1>3, <1>6, <1>7

\* finish returns, for the server once the client waits in its own, and then for the
\* client.
LEMMA FinishKeeps ==
  ASSUME DraftInv, SyncInv, NEW r \in Host, FinishSync(r)
  PROVE  SyncInv'
<1> DEFINE o == OtherHost(r)
<1>0. /\ at[r] = "finish" /\ Running(r) /\ acked' = TRUE
      /\ memory' = memory /\ wire' = wire /\ outcome' = outcome
      /\ IF r = Server THEN at[Client] = "finish" /\ Running(Client) ELSE acked
      /\ o \in Host /\ o # r /\ Host = {r, o} /\ (r = Client \/ r = Server)
      /\ Client \in Host /\ Server \in Host /\ Client # Server
      /\ OtherHost(Client) = Server /\ OtherHost(Server) = Client
  BY Hosts DEF FinishSync, Calls
<1>1. /\ CommandOK(r) /\ InboxOK(r) /\ Abandoned
  BY <1>0, AtCall
<1>2. Moved(r, "save") /\ at'[r] = "save" /\ at'[o] = at[o]
  BY <1>0 DEF FinishSync, Moved, SyncInv
<1>3. CommandOK(r)'
  BY <1>0, <1>1, <1>2 DEF CommandOK, Place, StateAt, Running
<1>4. InboxOK(r)'
  <2>1. wire[o] = <<>>
    BY <1>0, <1>1 DEF InboxOK, Listens
  <2> QED BY <1>0, <2>1 DEF InboxOK
<1>5. Abandoned'
  <2>1. CASE r = Server
    BY <1>0, <2>1 DEF Abandoned, Running
  <2>2. CASE r = Client
    BY <1>0, <1>1, <2>2 DEF Abandoned, Running
  <2> QED BY <1>0, <2>1, <2>2
<1>6. ASSUME Both PROVE Together' /\ ContentOK(Client)' /\ ContentOK(Server)'
  <2>1. Together /\ ContentOK(Client) /\ ContentOK(Server)
    BY <1>0, <1>6 DEF SyncInv
  <2>2. ContentOK(Client)' /\ ContentOK(Server)'
    BY <1>0, <2>1 DEF ContentOK, Loaded
  <2>3. Ending
    BY <1>0, <2>1 DEF Together, AtTurn, Asking, AtAnswer, Answering, Passing
  <2>4. CASE r = Server
    <3>1. at'[Client] = "finish" /\ at'[Server] = "save" /\ wire[Client] = <<>>
      BY <1>0, <1>2, <2>3, <2>4 DEF Ending, Unsent
    <3> QED BY <1>0, <2>2, <2>3, <3>1 DEF Together, Ending, Unsent, Level, Equal
  <2>5. CASE r = Client
    <3>1. at'[Client] = "save" /\ at'[Server] = "save" /\ wire[Client] = <<>>
      BY <1>0, <1>2, <2>3, <2>5 DEF Ending, Unsent
    <3> QED BY <1>0, <2>2, <2>3, <3>1 DEF Together, Ending, Unsent, Level, Equal
  <2> QED BY <1>0, <2>4, <2>5
<1> QED BY <1>0, <1>2, <1>3, <1>4, <1>5, <1>6, MoveKeeps

-----------------------------------------------------------------------------
\* A command returns or dies, and what its peer finds of it is still in order.
LEMMA LeaveSync ==
  ASSUME DraftInv, SyncInv, NEW r \in Host, NEW how, how # "running", how # "refused",
         Leave(r, how), Abandoned'
  PROVE  SyncInv'
<1> DEFINE o == OtherHost(r)
<1>0. o \in Host /\ o # r /\ Host = {r, o} /\ OtherHost(o) = r
  BY Hosts
<1>1. PICK n \in 0..Len(wire[r]) : wire' = [wire EXCEPT ![r] = SubSeq(wire[r], 1, n)]
  BY DEF Leave
<1>2. /\ memory' = [memory EXCEPT ![r] = Fresh] /\ at' = [at EXCEPT ![r] = "stopped"]
      /\ outcome' = [outcome EXCEPT ![r] = how]
  BY DEF Leave
<1>3. /\ memory = [h \in Host |-> memory[h]] /\ wire = [h \in Host |-> wire[h]]
      /\ at = [h \in Host |-> at[h]] /\ outcome = [h \in Host |-> outcome[h]]
  BY DEF DraftInv, ExchangeOK, SyncInv
<1> HIDE DEF o
<1>4. /\ memory'[r] = Fresh /\ memory'[o] = memory[o]
      /\ at' = [h \in Host |-> at'[h]] /\ at'[r] = "stopped" /\ at'[o] = at[o]
  BY <1>0, <1>2, <1>3
<1>5. /\ outcome' = [h \in Host |-> outcome'[h]] /\ outcome'[r] = how /\ outcome'[o] = outcome[o]
      /\ wire'[r] = SubSeq(wire[r], 1, n) /\ wire'[o] = wire[o]
  BY <1>0, <1>1, <1>2, <1>3
<1>6. ~Running(r)' /\ (Running(o)' <=> Running(o))
  BY <1>5 DEF Running
<1>7. CommandOK(r)'
  <2>1. "stopped" \in Place(r) /\ StateAt(r, "stopped") = "client-turn"
    BY DEF Place, StateAt
  <2>2. Fresh.machine = "client-turn" /\ Fresh.round = 0 /\ Fresh.outbox = {}
    BY SyncAssumption DEF Fresh
  <2> QED BY <1>4, <1>5, <1>6, <2>1, <2>2, RoundsAssumption DEF CommandOK
<1>8. CommandOK(o)'
  <2>1. CommandOK(o)
    BY <1>0 DEF SyncInv
  <2> QED BY <1>4, <1>5, <1>6, <2>1 DEF CommandOK
<1>9. ASSUME Running(o) PROVE InboxOK(o)'
  <2>1. InboxOK(o)
    BY <1>0, <1>9 DEF SyncInv
  <2> DEFINE q == wire[r]
             p == wire'[r]
  <2>2. /\ q = <<>> => p = <<>>
        /\ \A l : q = <<Word(r, l)>> => p = <<>> \/ p = q
        /\ IsPost(r, q) => p = <<>> \/ p = <<Word(r, "message")>> \/ p = q
        /\ IsLetter(r, q) => p = <<>> \/ p = q
    <3>1. p = SubSeq(q, 1, n) /\ n \in 0..Len(q)
      BY <1>5
    <3> HIDE DEF p, q
    <3>2. ASSUME q = <<>> PROVE p = <<>>
      BY <3>1, <3>2, Lists
    <3>3. ASSUME NEW w, q = <<w>> PROVE p = <<>> \/ p = q
      <4>1. \A i \in 0..Len(<<w>>) : SubSeq(<<w>>, 1, i) \in {<<>>, <<w>>}
        BY Lists
      <4> QED BY <3>1, <3>3, <4>1
    <3>4. ASSUME NEW w, NEW k, q = <<w, k>> PROVE p = <<>> \/ p = <<w>> \/ p = q
      <4>1. \A i \in 0..Len(<<w, k>>) : SubSeq(<<w, k>>, 1, i) \in {<<>>, <<w>>, <<w, k>>}
        BY Lists
      <4> QED BY <3>1, <3>4, <4>1
    <3>5. ASSUME IsPost(r, q) PROVE p = <<>> \/ p = <<Word(r, "message")>> \/ p = q
      <4>1. PICK m : q = <<Word(r, "message"), Letter(r, m)>>
        BY <3>5, Posts
      <4> DEFINE w == Word(r, "message")
                 k == Letter(r, m)
      <4>2. q = <<w, k>>
        BY <4>1
      <4> HIDE DEF w, k
      <4>3. p = <<>> \/ p = <<w>> \/ p = q
        BY <3>4, <4>2
      <4> QED BY <4>3 DEF w
    <3>6. ASSUME IsLetter(r, q) PROVE p = <<>> \/ p = q
      <4>1. PICK m : q = <<Letter(r, m)>>
        BY <3>6, Posts
      <4> DEFINE k == Letter(r, m)
      <4>2. q = <<k>>
        BY <4>1
      <4> HIDE DEF k
      <4> QED BY <3>3, <4>2
    <3>7. ASSUME NEW l, q = <<Word(r, l)>> PROVE p = <<>> \/ p = q
      <4> DEFINE w == Word(r, l)
      <4>1. q = <<w>>
        BY <3>7
      <4> HIDE DEF w
      <4> QED BY <3>3, <4>1
    <3> QED BY <3>2, <3>5, <3>6, <3>7
  <2>3. \/ q = <<>>
        \/ Listens(o) /\ (q = <<Word(r, "message")>> \/ q = <<Word(r, Quiet(r))>> \/ IsPost(r, q))
        \/ at[o] = "body" /\ IsLetter(r, q)
    BY <1>0, <2>1 DEF InboxOK
  <2>4. Listens(o)' <=> Listens(o)
    BY <1>4 DEF Listens
  <2> HIDE DEF p, q
  <2>5. \/ p = <<>>
        \/ /\ Listens(o)'
           /\ p = <<Word(r, "message")>> \/ p = <<Word(r, Quiet(r))>> \/ IsPost(r, p)
        \/ at'[o] = "body" /\ IsLetter(r, p)
    BY <1>4, <2>2, <2>3, <2>4
  <2> QED BY <1>0, <2>5 DEF InboxOK, p
<1>10. ~Both'
  BY <1>6 DEF Both
<1>11. \A h \in Host : CommandOK(h)' /\ (Running(h)' => InboxOK(h)')
  BY <1>0, <1>6, <1>7, <1>8, <1>9
<1> QED BY <1>4, <1>5, <1>10, <1>11 DEF SyncInv

\* A server that gives up has counted the rounds its client counts, or one more.
LEMMA RoundsSync ==
  ASSUME DraftInv, SyncInv, NEW r \in Host, TooManyRounds(r)
  PROVE  SyncInv'
<1>0. /\ at[r] = "turn" \/ at[r] = "wait"
      /\ Running(r) /\ memory[r].round = MaxRounds /\ Leave(r, "rounds")
      /\ (r = Client \/ r = Server) /\ Host = {Client, Server} /\ Client # Server
      /\ MaxRounds \in Nat
  BY Hosts, RoundsAssumption DEF TooManyRounds, Calls
<1>1. /\ outcome' = [outcome EXCEPT ![r] = "rounds"] /\ at' = [at EXCEPT ![r] = "stopped"]
      /\ memory' = [memory EXCEPT ![r] = Fresh]
      /\ memory = [h \in Host |-> memory[h]]
      /\ at = [h \in Host |-> at[h]] /\ outcome = [h \in Host |-> outcome[h]]
  BY <1>0 DEF Leave, SyncInv, DraftInv, ExchangeOK
<1>2. Abandoned'
  <2>1. CASE r = Client
    <3>1. outcome'[Client] = "rounds"
      BY <1>0, <1>1, <2>1
    <3> QED BY <3>1 DEF Abandoned, Running
  <2>2. CASE r = Server
    <3>1. /\ outcome'[Client] = outcome[Client] /\ at'[Client] = at[Client]
          /\ memory'[Client] = memory[Client]
      BY <1>0, <1>1, <2>2
    <3>2. ASSUME Running(Client)
          PROVE  \/ at[Client] \in {"load", "turn"} /\ memory[Client].round = MaxRounds
                 \/ at[Client] \in {"reply", "body"} /\ memory[Client].round + 1 = MaxRounds
      <4>1. Together /\ CommandOK(Client) /\ CommandOK(Server)
        BY <1>0, <2>2, <3>2 DEF SyncInv, Both
      <4>2. at[Server] = "wait"
        BY <1>0, <2>2, <4>1 DEF CommandOK, Place
      <4>3. /\ memory[Client].round \in Nat
            /\ at[Client] \in {"data", "reply", "finish", "save"} =>
                 memory[Client].round < MaxRounds
        BY <1>0, <4>1 DEF CommandOK
      <4>4. Level => memory[Client].round = MaxRounds
        BY <1>0, <2>2 DEF Level
      <4>5. Ahead => memory[Client].round + 1 = MaxRounds
        BY <1>0, <2>2 DEF Ahead
      <4>6. CASE AtTurn
        BY <4>4, <4>6 DEF AtTurn
      <4>7. CASE Asking
        BY <1>0, <4>3, <4>4, <4>7 DEF Asking
      <4>8. CASE AtAnswer
        BY <4>2, <4>8 DEF AtAnswer
      <4>9. CASE Answering
        BY <4>2, <4>5, <4>9 DEF Answering
      <4>10. CASE Passing
        BY <4>5, <4>10 DEF Passing
      <4>11. CASE Ending
        BY <1>0, <4>2, <4>3, <4>4, <4>11 DEF Ending
      <4> QED BY <4>1, <4>6, <4>7, <4>8, <4>9, <4>10, <4>11 DEF Together
    <3> QED BY <3>1, <3>2 DEF Abandoned, Running
  <2> QED BY <1>0, <2>1, <2>2
<1> QED BY <1>0, <1>2, LeaveSync

\* A command saves, or fails.
LEMMA StopSync ==
  ASSUME DraftInv, SyncInv, NEW r \in Host, NEW how \in {"ok", "error"}, Leave(r, how)
  PROVE  SyncInv'
<1>1. /\ outcome' = [outcome EXCEPT ![r] = how] /\ at' = [at EXCEPT ![r] = "stopped"]
      /\ memory' = [memory EXCEPT ![r] = Fresh] /\ memory = [h \in Host |-> memory[h]]
      /\ at = [h \in Host |-> at[h]] /\ outcome = [h \in Host |-> outcome[h]]
      /\ Abandoned /\ Host = {Client, Server} /\ Client # Server
  BY Hosts DEF Leave, SyncInv, DraftInv, ExchangeOK
<1>2. Abandoned'
  <2>1. CASE r = Client
    BY <1>1, <2>1 DEF Abandoned, Running
  <2>2. CASE r = Server
    BY <1>1, <2>2 DEF Abandoned, Running
  <2> QED BY <1>1, <2>1, <2>2
<1> QED BY <1>2, LeaveSync

\* Both commands are started anew.
LEMMA SessionSync ==
  ASSUME SyncInv, NextSession
  PROVE  SyncInv'
<1>1. /\ at' = [r \in Host |-> "load"] /\ wire' = [r \in Host |-> <<>>] /\ ~acked'
      /\ outcome' = [r \in Host |-> "running"] /\ memory' = memory
      /\ Host = {Client, Server} /\ Client # Server /\ Client \in Host /\ Server \in Host
  BY Hosts DEF NextSession
<1>2. \A r \in Host : memory[r] = Fresh
  BY DEF NextSession, SyncInv, CommandOK
<1>3. /\ Fresh.machine = "client-turn" /\ Fresh.round = 0 /\ Fresh.outbox = {} /\ Fresh.doc = {}
      /\ Fresh.held = {} /\ ~Fresh.peer.responded
  BY SyncAssumption DEF Fresh, NewSession
<1>4. \A r \in Host : /\ at'[r] = "load" /\ wire'[r] = <<>>
                      /\ outcome'[r] = "running" /\ memory'[r] = Fresh
  BY <1>1, <1>2
<1>5. ASSUME NEW r \in Host PROVE CommandOK(r)' /\ InboxOK(r)' /\ ContentOK(r)'
  <2>1. "load" \in Place(r) /\ StateAt(r, "load") = "client-turn"
    BY DEF Place, StateAt
  <2>2. CommandOK(r)'
    BY <1>3, <1>4, <2>1, RoundsAssumption DEF CommandOK, Running
  <2>3. InboxOK(r)'
    BY <1>4, Hosts DEF InboxOK
  <2>4. ContentOK(r)'
    <3>1. Said(memory'[r].outbox, wire'[r]) = {}
      BY <1>3, <1>4, SaidFacts
    <3> QED BY <1>3, <1>4, <3>1 DEF ContentOK
  <2> QED BY <2>2, <2>3, <2>4
<1>6. Together'
  <2>1. AtTurn'
    BY <1>1, <1>3, <1>4 DEF AtTurn, Unsent, Level
  <2> QED BY <1>1, <2>1 DEF Together
<1>7. Abandoned'
  BY <1>1, <1>4 DEF Abandoned
<1> QED BY <1>1, <1>5, <1>6, <1>7 DEF SyncInv

\* What the loops do not touch leaves them where they are.
LEMMA RestSync == SyncInv /\ UNCHANGED exchangeVars => SyncInv'
BY DEF exchangeVars, SyncInv, CommandOK, InboxOK, ContentOK, Running, Listens, Both, Loaded,
       Level, Ahead, Equal, Unsent, AtTurn, Asking, AtAnswer, Answering, Passing, Ending,
       Together, Abandoned

\* Before the first session nothing runs.
LEMMA SyncInit == ExchangeInit => SyncInv
<1> SUFFICES ASSUME ExchangeInit PROVE SyncInv
  OBVIOUS
<1>1. /\ at = [r \in Host |-> "stopped"] /\ outcome = [r \in Host |-> "ok"]
      /\ \A r \in Host : at[r] = "stopped" /\ memory[r] = Fresh /\ outcome[r] = "ok"
      /\ Client \in Host
  BY Hosts DEF ExchangeInit
<1>2. Fresh.machine = "client-turn" /\ Fresh.round = 0 /\ Fresh.outbox = {}
  BY SyncAssumption DEF Fresh
<1>3. ASSUME NEW r \in Host PROVE CommandOK(r) /\ ~Running(r)
  <2>1. "stopped" \in Place(r) /\ StateAt(r, "stopped") = "client-turn"
    BY DEF Place, StateAt
  <2> QED BY <1>1, <1>2, <2>1, RoundsAssumption DEF CommandOK, Running
<1> QED BY <1>1, <1>3 DEF SyncInv, Both, Abandoned

\* Every step keeps the loops together.
LEMMA SyncStep == DraftInv /\ SyncInv /\ [ExchangeNext]_allVars => SyncInv'
<1> SUFFICES ASSUME DraftInv, SyncInv, [ExchangeNext]_allVars PROVE SyncInv'
  OBVIOUS
<1>1. CASE UNCHANGED allVars
  BY <1>1, RestSync DEF allVars
<1>2. CASE Edit /\ UNCHANGED exchangeVars
  BY <1>2, RestSync
<1>3. CASE NextSession
  BY <1>3, SessionSync
<1>4. ASSUME NEW r \in Host, Drive(r) PROVE SyncInv'
  <2>1. CASE LoadDraft(r)
    BY <2>1, LoadSync
  <2>2. CASE TooManyRounds(r)
    BY <2>2, RoundsSync
  <2>3. CASE SendSync(r)
    BY <2>3, PostSync
  <2>4. CASE ReceiveSync(r)
    BY <2>4, BodySync
  <2>5. CASE FinishSync(r)
    BY <2>5, FinishKeeps
  <2>6. CASE SaveSync(r)
    BY <2>6, StopSync DEF SaveSync
  <2>7. CASE ClientTurn
    BY <2>7, TurnSync
  <2>8. CASE ClientReply
    BY <2>8, ReplySync
  <2>9. CASE ServerWait
    BY <2>9, WaitSync
  <2>10. CASE ServerAnswer
    BY <2>10, AnswerSync
  <2> QED BY <1>4, <2>1, <2>2, <2>3, <2>4, <2>5, <2>6, <2>7, <2>8, <2>9, <2>10 DEF Drive
<1>5. ASSUME NEW r \in Host, Fail(r) PROVE SyncInv'
  BY <1>5, StopSync DEF Fail
<1> QED BY <1>1, <1>2, <1>3, <1>4, <1>5 DEF ExchangeNext

\* Where two commands that run together are, in every behaviour of the exchange, and
\* what they know of each other there.
THEOREM SyncInvariance == ExchangeSpec => []SyncInv
BY SyncInit, SyncStep, DraftInvariance, PTL DEF ExchangeSpec

\* The loops of draft_exchange.rs meet no frame their machines or their matches
\* refuse, and never wait for each other, for any drafts and number of rounds.
THEOREM LoopsTheorem == ExchangeSpec => []LoopsStayTogether
<1>1. SyncInv => LoopsInStep
  BY DEF SyncInv, CommandOK, LoopsInStep
<1>2. SyncInv => NoStandstill
  <2> SUFFICES ASSUME SyncInv, \A r \in Host : Running(r) /\ Waiting(r)
               PROVE  FALSE
    BY DEF NoStandstill
  <2>1. /\ Client \in Host /\ Server \in Host /\ Client # Server
        /\ OtherHost(Client) = Server /\ OtherHost(Server) = Client
    BY Hosts
  <2>2. Together /\ CommandOK(Client) /\ CommandOK(Server)
    BY <2>1 DEF SyncInv, Both
  <2>3. /\ \/ at[Client] \in {"reply", "body"} /\ wire[Server] = <<>>
           \/ at[Client] = "finish" /\ ~acked
        /\ \/ at[Server] \in {"wait", "body"} /\ wire[Client] = <<>>
           \/ at[Server] = "finish" /\ at[Client] # "finish"
    BY <2>1, <2>2 DEF Waiting, Incoming, CommandOK, Place
  <2>4. /\ \A o, l : <<Word(o, l)>> # <<>>
        /\ \A o : ~IsPost(o, <<>>) /\ ~IsLetter(o, <<>>)
    BY Apart
  <2> QED BY <2>2, <2>3, <2>4
          DEF Together, AtTurn, Asking, AtAnswer, Answering, Passing, Ending, Unsent
<1> QED BY <1>1, <1>2, SyncInvariance, PTL DEF LoopsStayTogether

\* A finish of the exchange that is acknowledged is one of both commands, with one
\* document that has the changes of both files; and their counters agree.
THEOREM CompletionTheorem == ExchangeSpec => []CompletionIsShared
<1>1. DraftInv /\ SyncInv => ConvergedWhenDone
  <2> SUFFICES ASSUME DraftInv, SyncInv, acked, \A r \in Host : Running(r), NEW r \in Host
               PROVE  memory[r].doc = memory[Client].loaded \cup memory[Server].loaded
    BY DEF ConvergedWhenDone
  <2>1. Client \in Host /\ Server \in Host /\ Host = {Client, Server}
    BY Hosts
  <2>2. Together /\ ContentOK(Client) /\ ContentOK(Server)
    BY <2>1 DEF SyncInv, Both
  <2>3. Equal
    BY <2>2 DEF Together, AtTurn, Asking, AtAnswer, Answering, Passing, Ending
  <2>4. \A h \in Host : memory[h].loaded \subseteq memory[h].doc
    BY DEF DraftInv, ExchangeOK, MemoryOK
  <2> QED BY <2>1, <2>2, <2>3, <2>4 DEF Equal, ContentOK, Loaded
<1>2. SyncInv => RoundsCountedAlike
  <2> SUFFICES ASSUME SyncInv, at[Client] \in {"finish", "save"} PROVE outcome[Server] # "rounds"
    BY DEF RoundsCountedAlike
  <2>1. Running(Client) /\ Abandoned
    BY Hosts DEF SyncInv, CommandOK
  <2> QED BY <2>1 DEF Abandoned
<1> QED BY <1>1, <1>2, SyncInvariance, DraftInvariance, PTL DEF CompletionIsShared

=============================================================================
