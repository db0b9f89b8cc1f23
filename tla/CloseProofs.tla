---------------------------- MODULE CloseProofs ----------------------------
(***************************************************************************)
(* Proofs about CloseHandshake: what a successful finish tells a role of   *)
(* its peer, over QUIC and over Iroh, whichever role speaks last, whatever *)
(* times out and wherever the network fails.                               *)
(*                                                                         *)
(* Two facts carry the argument.  A marker that is queued, has arrived or  *)
(* has been read was written by a role in its finish, so that role is      *)
(* complete.  And a finish fails only on a timeout of QUIC or after news   *)
(* of the connection's end, so a server that lets go of an Iroh connection *)
(* without closing it has a client that is gone or a network that is cut.  *)
(***************************************************************************)
EXTENDS CloseHandshake, TLAPS

-----------------------------------------------------------------------------
(***************************************************************************)
(* The inductive invariant.                                                *)
(***************************************************************************)
CloseTypeOK ==
  /\ link \in Link
  /\ cut \in BOOLEAN
  /\ complete \in [Role -> BOOLEAN]
  /\ step \in [Role -> 0..4]
  /\ queued \in [Role -> Seq({"frame", "marker"})]
  /\ arrived \in [Role -> Seq({"frame", "marker"})]
  /\ closed \in [Role -> {"no", "done", "failure", "dropped"}]
  /\ notice \in [Role -> {"no", "done", "failure", "lost"}]
  /\ result \in [Role -> {"running", "ok", "failed", "error"}]

\* How far finish has come, and what became of the connection.
StepOK(r) ==
  /\ result[r] = "running" <=> closed[r] = "no"
  /\ result[r] = "running" => step[r] < Len(Finish(r))
  /\ result[r] = "ok" => step[r] = Len(Finish(r))
  /\ closed[r] = "done" => result[r] = "ok"
  /\ step[r] > 0 => complete[r]

\* A stream begins with the last frame, if it is this role's, until the peer has it.
FrameOK(r) ==
  /\ ~complete[r] => queued[r] = <<>> /\ arrived[r] = <<>>
  /\ complete[r] => complete[link.last]
  /\ \A i \in 1..Len(queued[r]) : queued[r][i] = "frame" =>
       i = 1 /\ arrived[r] = <<>> /\ r = link.last /\ ~complete[Peer(r)]
  /\ \A i \in 1..Len(arrived[r]) : arrived[r][i] = "frame" =>
       /\ i = 1 /\ r = link.last /\ ~complete[Peer(r)]
       /\ \A j \in 1..Len(queued[r]) : queued[r][j] # "frame"

\* The client writes its marker first, the server after it has read one.
Wrote(r) == step[r] >= IF r = "server" THEN 2 ELSE 1

MarkerOK(r) ==
  /\ \A i \in 1..Len(queued[r]) : queued[r][i] = "marker" => Wrote(r)
  /\ \A i \in 1..Len(arrived[r]) : arrived[r][i] = "marker" => Wrote(r)

ReadOK ==
  /\ step["client"] >= 2 => Wrote("server")
  /\ step["server"] >= 1 => Wrote("client")

\* Nobody hears of an end of the connection that there was not, and the Iroh client
\* that still waits takes nothing but the server's close for it.
NoticeOK ==
  /\ \A r \in Role : notice[r] # "no" => cut \/ closed[Peer(r)] # "no"
  /\ link.kind = "iroh" /\ closed["server"] = "dropped" => notice["server"] # "no"
  /\ link.kind = "iroh" /\ closed["client"] = "no" /\ notice["client"] = "done" =>
       closed["server"] = "done"
  /\ link.kind = "iroh" /\ result["client"] = "ok" => closed["server"] = "done"
  /\ link.kind = "quic" /\ step["server"] >= 2 => result["server"] \in {"running", "ok"}

CloseInv ==
  /\ CloseTypeOK
  /\ \A r \in Role : StepOK(r) /\ FrameOK(r) /\ MarkerOK(r)
  /\ ReadOK
  /\ NoticeOK

-----------------------------------------------------------------------------
(***************************************************************************)
(* Roles, the steps of finish, and streams.                                *)
(***************************************************************************)
\* There are two roles, and each is the other's peer.
LEMMA PeerFacts ==
  /\ Peer("client") = "server" /\ Peer("server") = "client"
  /\ \A r \in Role : /\ Peer(r) \in Role /\ Peer(r) # r /\ Peer(Peer(r)) = r
                     /\ \A t \in Role : t = r \/ t = Peer(r)
<1>1. Peer("client") = "server" /\ Peer("server") = "client"
  BY DEF Peer, Role
<1> QED BY <1>1 DEF Role

\* finish, step by step.
LEMMA FinishFacts ==
  ASSUME link \in Link
  PROVE  /\ link.kind = "quic" =>
              /\ Len(Finish("client")) = 3 /\ Len(Finish("server")) = 3
              /\ Finish("client")[1] = "write" /\ Finish("client")[2] = "read"
              /\ Finish("client")[3] = "close"
              /\ Finish("server")[1] = "read" /\ Finish("server")[2] = "write"
              /\ Finish("server")[3] = "drain"
         /\ link.kind = "iroh" =>
              /\ Len(Finish("client")) = 4 /\ Len(Finish("server")) = 4
              /\ Finish("client")[1] = "write" /\ Finish("client")[2] = "read"
              /\ Finish("client")[3] = "write" /\ Finish("client")[4] = "await_closed"
              /\ Finish("server")[1] = "read" /\ Finish("server")[2] = "write"
              /\ Finish("server")[3] = "read" /\ Finish("server")[4] = "close"
         /\ link.kind = "quic" \/ link.kind = "iroh"
<1>1. CASE link.kind = "quic"
  <2>1. /\ Finish("client") = <<"write", "read", "close">>
        /\ Finish("server") = <<"read", "write", "drain">>
    BY <1>1 DEF Finish
  <2> QED BY <1>1, <2>1
<1>2. CASE link.kind = "iroh"
  <2>1. /\ Finish("client") = <<"write", "read", "write", "await_closed">>
        /\ Finish("server") = <<"read", "write", "read", "close">>
    BY <1>2 DEF Finish
  <2> QED BY <1>2, <2>1
<1> QED BY <1>1, <1>2 DEF Link

\* What a role may be doing, by how far it is.
LEMMA DoingFacts ==
  ASSUME CloseInv, NEW r \in Role, NEW what, Doing(r, what)
  PROVE  /\ result[r] = "running" /\ complete[r] /\ closed[r] = "no"
         /\ step[r] \in 0..3 /\ step[r] < Len(Finish(r))
         /\ Len(Finish(r)) = IF link.kind = "quic" THEN 3 ELSE 4
         /\ link.kind = "quic" /\ r = "server" /\ step[r] >= 2 => what = "drain"
         /\ what = "read" /\ r = "client" => step[r] = 1
         /\ what = "read" /\ r = "server" => step[r] = 0 \/ (step[r] = 2 /\ link.kind = "iroh")
         /\ what = "write" /\ r = "client" => step[r] = 0 \/ (step[r] = 2 /\ link.kind = "iroh")
         /\ what = "write" /\ r = "server" => step[r] = 1
         /\ what \in {"close", "drain", "await_closed"} => step[r] + 1 = Len(Finish(r))
         /\ what = "close" => r = IF link.kind = "quic" THEN "client" ELSE "server"
         /\ what = "drain" => link.kind = "quic" /\ r = "server"
         /\ what = "await_closed" => link.kind = "iroh" /\ r = "client"
<1>0. /\ link \in Link /\ step[r] \in 0..4 /\ StepOK(r) /\ (r = "client" \/ r = "server")
      /\ Finish(r)[step[r] + 1] = what /\ result[r] = "running" /\ complete[r]
  BY DEF CloseInv, CloseTypeOK, Doing, Running, Role
<1>1. closed[r] = "no" /\ step[r] < Len(Finish(r))
  BY <1>0 DEF StepOK
<1>2. CASE link.kind = "quic"
  <2>1. Len(Finish(r)) = 3 /\ (step[r] = 0 \/ step[r] = 1 \/ step[r] = 2)
    <3>1. Len(Finish(r)) = 3
      BY <1>0, <1>2, FinishFacts
    <3> QED BY <1>0, <1>1, <3>1
  <2>2. \/ r = "client" /\ step[r] = 0 /\ what = "write"
        \/ r = "client" /\ step[r] = 1 /\ what = "read"
        \/ r = "client" /\ step[r] = 2 /\ what = "close"
        \/ r = "server" /\ step[r] = 0 /\ what = "read"
        \/ r = "server" /\ step[r] = 1 /\ what = "write"
        \/ r = "server" /\ step[r] = 2 /\ what = "drain"
    BY <1>0, <1>2, <2>1, FinishFacts
  <2> QED BY <1>0, <1>1, <1>2, <2>1, <2>2
<1>3. CASE link.kind = "iroh"
  <2>1. Len(Finish(r)) = 4 /\ (step[r] = 0 \/ step[r] = 1 \/ step[r] = 2 \/ step[r] = 3)
    <3>1. Len(Finish(r)) = 4
      BY <1>0, <1>3, FinishFacts
    <3> QED BY <1>0, <1>1, <3>1
  <2>2. \/ r = "client" /\ step[r] = 0 /\ what = "write"
        \/ r = "client" /\ step[r] = 1 /\ what = "read"
        \/ r = "client" /\ step[r] = 2 /\ what = "write"
        \/ r = "client" /\ step[r] = 3 /\ what = "await_closed"
        \/ r = "server" /\ step[r] = 0 /\ what = "read"
        \/ r = "server" /\ step[r] = 1 /\ what = "write"
        \/ r = "server" /\ step[r] = 2 /\ what = "read"
        \/ r = "server" /\ step[r] = 3 /\ what = "close"
    BY <1>0, <1>3, <2>1, FinishFacts
  <2> QED BY <1>0, <1>1, <1>3, <2>1, <2>2
<1> QED BY <1>0, <1>2, <1>3, FinishFacts

\* Taking the head off, writing at the end.
LEMMA StreamFacts ==
  ASSUME NEW T, NEW q \in Seq(T)
  PROVE  /\ Len(q) \in Nat
         /\ q # <<>> =>
              /\ Tail(q) \in Seq(T) /\ Len(Tail(q)) = Len(q) - 1 /\ Len(q) > 0
              /\ \A i \in 1..Len(Tail(q)) : Tail(q)[i] = q[i + 1] /\ i + 1 \in 1..Len(q)
              /\ Head(q) = q[1] /\ Head(q) \in T /\ 1 \in 1..Len(q)
         /\ \A x \in T : /\ Append(q, x) \in Seq(T) /\ Len(Append(q, x)) = Len(q) + 1
                         /\ \A i \in 1..Len(q) : Append(q, x)[i] = q[i]
                         /\ Append(q, x)[Len(q) + 1] = x
                         /\ Append(q, x) # <<>>
OBVIOUS

-----------------------------------------------------------------------------
(***************************************************************************)
(* The invariant, one lemma for each thing a step can do.                  *)
(***************************************************************************)
\* Both machines one frame short of their end.
LEMMA CloseInitInv == CloseInit => CloseInv
<1> SUFFICES ASSUME CloseInit PROVE CloseInv
  OBVIOUS
<1>1. CloseTypeOK
  <2>1. link \in Link /\ cut \in BOOLEAN /\ complete \in [Role -> BOOLEAN]
    BY Zenon DEF CloseInit
  <2>2. step \in [Role -> 0..4]
    BY DEF CloseInit
  <2>3. /\ queued \in [Role -> Seq({"frame", "marker"})]
        /\ arrived \in [Role -> Seq({"frame", "marker"})]
    BY DEF CloseInit
  <2>4. /\ closed \in [Role -> {"no", "done", "failure", "dropped"}]
        /\ notice \in [Role -> {"no", "done", "failure", "lost"}]
        /\ result \in [Role -> {"running", "ok", "failed", "error"}]
    BY DEF CloseInit
  <2> QED BY <2>1, <2>2, <2>3, <2>4 DEF CloseTypeOK
<1>2. \A r \in Role : /\ Len(queued[r]) = 0 /\ Len(arrived[r]) = 0 /\ queued[r] = <<>>
                      /\ arrived[r] = <<>> /\ step[r] = 0 /\ notice[r] = "no"
                      /\ closed[r] = "no" /\ result[r] = "running" /\ ~complete[r]
  BY DEF CloseInit
<1>3. "client" \in Role /\ "server" \in Role /\ Len(Finish("client")) > 0 /\ Len(Finish("server")) > 0
  BY <1>1, FinishFacts DEF CloseTypeOK, Role
<1>4. \A r \in Role : StepOK(r)
  BY <1>2, <1>3 DEF StepOK, Role
<1>5. \A r \in Role : FrameOK(r) /\ MarkerOK(r)
  <2> TAKE r \in Role
  <2>1. 1..Len(queued[r]) = {} /\ 1..Len(arrived[r]) = {}
    BY <1>2
  <2> QED BY <1>2, <2>1 DEF FrameOK, MarkerOK
<1>6. ReadOK /\ NoticeOK
  BY <1>2, <1>3 DEF ReadOK, NoticeOK
<1> QED BY <1>1, <1>4, <1>5, <1>6 DEF CloseInv

\* A role writes x: its last frame, or a marker of its finish.
LEMMA WriteInv ==
  ASSUME CloseInv, NEW r \in Role, NEW x \in {"frame", "marker"},
         result[r] = "running",
         queued' = [queued EXCEPT ![r] = Append(@, x)],
         \/ /\ x = "frame" /\ r = link.last /\ ~complete[r]
            /\ complete' = [complete EXCEPT ![r] = TRUE] /\ step' = step
         \/ /\ x = "marker" /\ Doing(r, "write") /\ Advance(r) /\ complete' = complete,
         UNCHANGED <<link, cut, arrived, closed, notice, result>>
  PROVE  CloseInv'
<1> DEFINE p == Peer(r)
<1>0. /\ CloseTypeOK /\ p \in Role /\ p # r /\ Peer(p) = r
      /\ \A t \in Role : t = r \/ t = p
  BY PeerFacts DEF CloseInv
<1>1. /\ StepOK(r) /\ FrameOK(r) /\ MarkerOK(r) /\ StepOK(p) /\ FrameOK(p) /\ MarkerOK(p)
      /\ ReadOK /\ NoticeOK
  BY <1>0 DEF CloseInv
<1>2. Finish(r)' = Finish(r) /\ Finish(p)' = Finish(p)
  BY DEF Finish
<1>3. /\ queued[r] \in Seq({"frame", "marker"}) /\ Len(queued[r]) \in Nat
      /\ queued'[r] \in Seq({"frame", "marker"}) /\ Len(queued'[r]) = Len(queued[r]) + 1
      /\ \A i \in 1..Len(queued[r]) : queued'[r][i] = queued[r][i]
      /\ queued'[r][Len(queued[r]) + 1] = x
      /\ queued'[p] = queued[p]
  BY <1>0, StreamFacts DEF CloseTypeOK
<1>4. complete'[r] /\ complete'[p] = complete[p]
  BY <1>0, DoingFacts DEF CloseTypeOK
<1>5. /\ step'[p] = step[p] /\ step[r] \in 0..4
      /\ x = "frame" => step'[r] = step[r]
      /\ x = "marker" => /\ step'[r] = step[r] + 1 /\ step'[r] < Len(Finish(r)) /\ step'[r] \in 0..4
                         /\ Wrote(r)'
  <2>1. CASE x = "frame"
    BY <1>0, <2>1 DEF CloseTypeOK
  <2>2. CASE x = "marker"
    <3>1. Doing(r, "write") /\ Advance(r)
      BY <2>2
    <3>2. /\ step[r] \in 0..3
          /\ step[r] + 1 < Len(Finish(r))
          /\ IF r = "server" THEN step[r] = 1 ELSE step[r] \in {0, 2}
      BY <3>1, DoingFacts DEF Role
    <3>3. step'[r] = step[r] + 1 /\ step'[p] = step[p]
      BY <1>0, <3>1 DEF Advance, CloseTypeOK
    <3> QED BY <2>2, <3>2, <3>3 DEF Wrote
  <2> QED BY <2>1, <2>2
<1>6. /\ arrived' = arrived /\ closed' = closed /\ notice' = notice /\ result' = result
      /\ link' = link /\ cut' = cut
  OBVIOUS
<1>7. Wrote(p)' <=> Wrote(p)
  BY <1>5 DEF Wrote
<1>8. Wrote(r) => Wrote(r)'
  BY <1>5 DEF Wrote
<1> HIDE DEF p
<1>9. CloseTypeOK'
  <2>1. queued' \in [Role -> Seq({"frame", "marker"})]
    BY <1>0, <1>3 DEF CloseTypeOK
  <2>2. step' \in [Role -> 0..4]
    BY <1>0, <1>5 DEF CloseTypeOK, Advance
  <2>3. complete' \in [Role -> BOOLEAN]
    BY <1>0 DEF CloseTypeOK
  <2> QED BY <1>0, <2>1, <2>2, <2>3 DEF CloseTypeOK
<1>10. StepOK(r)' /\ StepOK(p)'
  BY <1>1, <1>2, <1>4, <1>5, <1>6 DEF StepOK
<1>11. FrameOK(r)'
  <2>1. CASE x = "frame"
    <3>1. queued[r] = <<>> /\ arrived[r] = <<>>
      BY <1>1, <2>1 DEF FrameOK, Doing
    <3>2. ~complete[p] /\ r = link.last
      BY <1>1, <2>1 DEF FrameOK
    <3>3. Len(queued[r]) = 0 /\ Len(arrived[r]) = 0
      BY <3>1
    <3>4. \A i \in 1..Len(queued'[r]) : i = 1
      BY <1>3, <3>3
    <3>5. 1..Len(arrived[r]) = {}
      BY <3>3
    <3> QED BY <1>4, <1>6, <3>1, <3>2, <3>4, <3>5 DEF FrameOK, p
  <2>2. CASE x = "marker"
    BY <1>1, <1>3, <1>4, <1>6, <2>2 DEF FrameOK, p
  <2> QED BY <2>1, <2>2
<1>12. FrameOK(p)'
  <2>1. p = link.last => x # "frame"
    BY <1>0
  <2>2. complete'[link.last] \/ (complete[p] => complete[link.last])
    BY <1>1 DEF FrameOK
  <2>3. complete[link.last] => complete'[link.last]
    BY <1>0, <1>4 DEF CloseTypeOK, Link
  <2>4. x = "frame" => \A i \in 1..Len(queued[p]) : queued[p][i] # "frame"
    BY <1>1, <2>1 DEF FrameOK
  <2>5. x = "frame" => \A i \in 1..Len(arrived[p]) : arrived[p][i] # "frame"
    BY <1>1, <2>1 DEF FrameOK
  <2>6. x = "marker" => complete' = complete
    OBVIOUS
  <2> QED BY <1>0, <1>1, <1>3, <1>4, <1>6, <2>2, <2>3, <2>4, <2>5, <2>6 DEF FrameOK
<1>13. MarkerOK(r)' /\ MarkerOK(p)'
  <2>1. \A i \in 1..Len(queued'[r]) : i \in 1..Len(queued[r]) \/ i = Len(queued[r]) + 1
    BY <1>3
  <2>2. MarkerOK(r)'
    BY <1>1, <1>3, <1>5, <1>6, <1>8, <2>1 DEF MarkerOK
  <2>3. MarkerOK(p)'
    BY <1>1, <1>3, <1>6, <1>7 DEF MarkerOK
  <2> QED BY <2>2, <2>3
<1>14. ReadOK'
  <2>1. r = "client" /\ x = "marker" /\ step'[r] >= 2 => step[r] >= 2
    <3>1. x = "marker" => Doing(r, "write")
      OBVIOUS
    <3>2. x = "marker" /\ r = "client" => step[r] = 0 \/ step[r] = 2
      BY <3>1, DoingFacts
    <3> QED BY <1>5, <3>2
  <2>2. r = "server" /\ x = "marker" => step[r] >= 1
    <3>1. x = "marker" => Doing(r, "write")
      OBVIOUS
    <3> QED BY <3>1, DoingFacts
  <2>3. (r = "client" /\ p = "server") \/ (r = "server" /\ p = "client")
    BY PeerFacts DEF p, Role
  <2> QED BY <1>1, <1>5, <1>7, <1>8, <2>1, <2>2, <2>3 DEF ReadOK
<1>15. NoticeOK'
  <2>1. link.kind = "quic" /\ step'["server"] >= 2 => result["server"] \in {"running", "ok"}
    <3>1. r = "server" \/ step'["server"] = step["server"]
      BY <1>0, <1>5, PeerFacts DEF Role
    <3> QED BY <1>1, <3>1 DEF NoticeOK
  <2> QED BY <1>1, <1>6, <2>1 DEF NoticeOK
<1> QED BY <1>0, <1>9, <1>10, <1>11, <1>12, <1>13, <1>14, <1>15 DEF CloseInv, p

\* A role takes what has arrived: its peer's last frame, or a marker.
LEMMA TakeInv ==
  ASSUME CloseInv, NEW r \in Role, result[r] = "running",
         arrived[Peer(r)] # <<>>,
         arrived' = [arrived EXCEPT ![Peer(r)] = Tail(@)],
         \/ /\ Head(arrived[Peer(r)]) = "frame" /\ r # link.last
            /\ complete' = [complete EXCEPT ![r] = TRUE] /\ step' = step
         \/ /\ Head(arrived[Peer(r)]) = "marker" /\ Doing(r, "read") /\ Advance(r)
            /\ complete' = complete,
         UNCHANGED <<link, cut, queued, closed, notice, result>>
  PROVE  CloseInv'
<1> DEFINE p == Peer(r)
<1>0. /\ CloseTypeOK /\ p \in Role /\ p # r /\ Peer(p) = r
      /\ \A t \in Role : t = r \/ t = p
  BY PeerFacts DEF CloseInv
<1>1. /\ StepOK(r) /\ FrameOK(r) /\ MarkerOK(r) /\ StepOK(p) /\ FrameOK(p) /\ MarkerOK(p)
      /\ ReadOK /\ NoticeOK
  BY <1>0 DEF CloseInv
<1>2. Finish(r)' = Finish(r) /\ Finish(p)' = Finish(p)
  BY DEF Finish
<1> DEFINE q == arrived[p]
           x == Head(q)
<1>3. /\ q \in Seq({"frame", "marker"}) /\ q # <<>> /\ Len(q) \in Nat
      /\ arrived'[p] = Tail(q) /\ Tail(q) \in Seq({"frame", "marker"})
      /\ Len(Tail(q)) = Len(q) - 1
      /\ \A i \in 1..Len(Tail(q)) : Tail(q)[i] = q[i + 1] /\ i + 1 \in 1..Len(q)
      /\ x = q[1] /\ 1 \in 1..Len(q)
      /\ arrived'[r] = arrived[r]
  BY <1>0, StreamFacts DEF CloseTypeOK
<1>a. x = "frame" \/ (x = "marker" /\ Doing(r, "read") /\ Advance(r))
  OBVIOUS
<1>4. complete'[r] /\ complete'[p] = complete[p] /\ complete[p]
  <2>1. complete'[r] /\ complete'[p] = complete[p]
    BY <1>0, DoingFacts DEF CloseTypeOK
  <2> QED BY <1>1, <1>3, <2>1 DEF FrameOK
<1>5. /\ step'[p] = step[p] /\ step[r] \in 0..4
      /\ x = "frame" => step'[r] = step[r]
      /\ x = "marker" => /\ step'[r] = step[r] + 1 /\ step'[r] < Len(Finish(r)) /\ step'[r] \in 0..4
                         /\ complete[r] /\ Wrote(p)
                         /\ (link.kind = "quic" /\ r = "server" => step'[r] < 2)
  <2>1. CASE x = "frame"
    BY <1>0, <2>1 DEF CloseTypeOK
  <2>2. CASE x = "marker"
    <3>1. Doing(r, "read") /\ Advance(r)
      BY <2>2
    <3>2. /\ step[r] \in 0..3 /\ complete[r]
          /\ step[r] + 1 < Len(Finish(r))
          /\ link.kind = "quic" /\ r = "server" => step[r] = 0
      <4>1. /\ step[r] \in 0..3 /\ complete[r] /\ (r = "client" \/ r = "server")
            /\ Len(Finish(r)) = IF link.kind = "quic" THEN 3 ELSE 4
            /\ r = "client" => step[r] = 1
            /\ r = "server" => step[r] = 0 \/ (step[r] = 2 /\ link.kind = "iroh")
        BY <3>1, DoingFacts DEF Role
      <4>2. CASE r = "client"
        BY <4>1, <4>2
      <4>3. CASE r = "server"
        BY <4>1, <4>3
      <4> QED BY <4>1, <4>2, <4>3
    <3>3. step'[r] = step[r] + 1 /\ step'[p] = step[p]
      BY <1>0, <3>1 DEF Advance, CloseTypeOK
    <3>4. Wrote(p)
      BY <1>1, <1>3, <2>2 DEF MarkerOK
    <3> QED BY <2>2, <3>2, <3>3, <3>4
  <2> QED BY <1>a, <2>1, <2>2
<1>6. /\ queued' = queued /\ closed' = closed /\ notice' = notice /\ result' = result
      /\ link' = link /\ cut' = cut
  OBVIOUS
<1>7. Wrote(p)' <=> Wrote(p)
  BY <1>5 DEF Wrote
<1>8. Wrote(r) => Wrote(r)'
  BY <1>5, <1>a DEF Wrote
\* There is no frame behind the one that is taken, and none before a marker.
<1>b. /\ \A i \in 1..Len(queued[p]) : queued[p][i] # "frame"
      /\ \A i \in 1..Len(Tail(q)) : Tail(q)[i] # "frame"
  <2>1. CASE x = "frame"
    <3>1. /\ \A j \in 1..Len(queued[p]) : queued[p][j] # "frame"
          /\ \A i \in 1..Len(q) : q[i] = "frame" => i = 1
      BY <1>1, <1>3, <2>1 DEF FrameOK
    <3>2. \A i \in 1..Len(Tail(q)) : i + 1 # 1
      BY <1>3
    <3> QED BY <1>3, <3>1, <3>2
  <2>2. CASE x = "marker"
    <3>1. complete[Peer(p)]
      BY <1>0, <1>5, <2>2
    <3> QED BY <1>1, <1>3, <3>1 DEF FrameOK
  <2> QED BY <1>a, <2>1, <2>2
<1>c. complete[link.last] /\ complete'[link.last]
  <2>1. complete[link.last]
    BY <1>1, <1>4 DEF FrameOK
  <2> QED BY <1>0, <1>4, <2>1 DEF CloseTypeOK, Link
<1> HIDE DEF p, q, x
<1>9. CloseTypeOK'
  <2>1. arrived' \in [Role -> Seq({"frame", "marker"})]
    BY <1>0, <1>3 DEF CloseTypeOK, p, q
  <2>2. step' \in [Role -> 0..4]
    BY <1>0, <1>5, <1>a DEF CloseTypeOK, Advance, x, q, p
  <2>3. complete' \in [Role -> BOOLEAN]
    BY <1>0 DEF CloseTypeOK
  <2> QED BY <1>0, <2>1, <2>2, <2>3 DEF CloseTypeOK
<1>10. StepOK(r)' /\ StepOK(p)'
  BY <1>1, <1>2, <1>4, <1>5, <1>6, <1>a DEF StepOK
<1>11. FrameOK(r)'
  BY <1>1, <1>3, <1>4, <1>6, <1>c DEF FrameOK, p
<1>12. FrameOK(p)'
  BY <1>0, <1>3, <1>4, <1>6, <1>b, <1>c DEF FrameOK
<1>13. MarkerOK(r)' /\ MarkerOK(p)'
  BY <1>1, <1>3, <1>6, <1>7, <1>8 DEF MarkerOK, q
<1>14. ReadOK'
  <2>1. (r = "client" /\ p = "server") \/ (r = "server" /\ p = "client")
    BY PeerFacts DEF p, Role
  <2> QED BY <1>1, <1>5, <1>7, <1>8, <1>a, <2>1 DEF ReadOK
<1>15. NoticeOK'
  <2>1. link.kind = "quic" /\ step'["server"] >= 2 => result["server"] \in {"running", "ok"}
    <3>1. r = "server" \/ step'["server"] = step["server"]
      BY <1>0, <1>5, PeerFacts DEF Role
    <3> QED BY <1>1, <3>1 DEF NoticeOK
  <2> QED BY <1>1, <1>6, <2>1 DEF NoticeOK
<1> QED BY <1>0, <1>9, <1>10, <1>11, <1>12, <1>13, <1>14, <1>15 DEF CloseInv, p

\* The ways a role lets go of its connection.
Parting(r, how, outcome) ==
  \/ outcome = "failed" /\ how = "failure" /\ ~complete[r] /\ step' = step
  \/ /\ outcome = "error" /\ how = "dropped" /\ step' = step
     /\ \E what \in {"read", "write", "await_closed"} : Doing(r, what)
     /\ link.kind = "iroh" /\ r = "server" => notice[r] # "no"
  \/ /\ outcome = "ok" /\ how \in {"done", "dropped"} /\ Advance(r)
     /\ \E what \in {"close", "drain", "await_closed"} : Doing(r, what)
     /\ link.kind = "iroh" => how = "done"
     /\ link.kind = "iroh" /\ r = "client" => notice[r] = "done"

\* A role lets go.
LEMMA LeaveInv ==
  ASSUME CloseInv, NEW r \in Role, NEW how, NEW outcome, result[r] = "running",
         Leave(r, how, outcome), Parting(r, how, outcome),
         UNCHANGED <<link, cut, complete, arrived, notice>>
  PROVE  CloseInv'
<1> DEFINE p == Peer(r)
<1>0. /\ CloseTypeOK /\ p \in Role /\ p # r /\ Peer(p) = r
      /\ \A t \in Role : t = r \/ t = p
  BY PeerFacts DEF CloseInv
<1>1. /\ StepOK(r) /\ FrameOK(r) /\ MarkerOK(r) /\ StepOK(p) /\ FrameOK(p) /\ MarkerOK(p)
      /\ ReadOK /\ NoticeOK
  BY <1>0 DEF CloseInv
<1>2. Finish(r)' = Finish(r) /\ Finish(p)' = Finish(p)
  BY DEF Finish
<1>3. /\ closed'[r] = how /\ closed'[p] = closed[p] /\ closed[r] = "no"
      /\ result'[r] = outcome /\ result'[p] = result[p]
      /\ queued'[r] = <<>> /\ queued'[p] = queued[p] /\ Len(queued'[r]) = 0
  BY <1>0, <1>1 DEF Leave, CloseTypeOK, StepOK
<1>4. /\ how \in {"done", "failure", "dropped"} /\ outcome \in {"ok", "failed", "error"}
      /\ how = "done" => outcome = "ok"
  BY DEF Parting
<1>5. /\ step'[p] = step[p] /\ step[r] \in 0..4 /\ step'[r] \in 0..4 /\ step'[r] >= step[r]
      /\ outcome = "ok" => step'[r] = Len(Finish(r)) /\ step[r] >= 2 /\ complete[r]
      /\ outcome # "ok" => step'[r] = step[r]
      /\ link.kind = "quic" /\ r = "server" /\ step'[r] >= 2 => outcome = "ok"
      /\ step' \in [Role -> 0..4]
  <2>0. step \in [Role -> 0..4] /\ step[r] \in 0..4
    BY <1>0 DEF CloseTypeOK
  <2>1. CASE outcome = "ok"
    <3>1. Advance(r) /\ \E what \in {"close", "drain", "await_closed"} : Doing(r, what)
      BY <2>1 DEF Parting
    <3>2. PICK what \in {"close", "drain", "await_closed"} : Doing(r, what)
      BY <3>1
    <3>3. step[r] + 1 = Len(Finish(r)) /\ complete[r] /\ step[r] \in 0..3 /\ step[r] >= 2
      <4>1. /\ step[r] + 1 = Len(Finish(r)) /\ complete[r] /\ step[r] \in 0..3
            /\ Len(Finish(r)) = IF link.kind = "quic" THEN 3 ELSE 4
        BY <3>2, DoingFacts
      <4> QED BY <4>1
    <3>4. step'[r] = step[r] + 1 /\ step'[p] = step[p] /\ step' \in [Role -> 0..4]
      BY <1>0, <2>0, <3>1, <3>3 DEF Advance
    <3> QED BY <2>0, <2>1, <3>3, <3>4
  <2>2. CASE outcome = "failed"
    <3>1. ~complete[r] /\ step' = step
      BY <2>2 DEF Parting
    <3>2. ~(step[r] >= 2)
      BY <1>1, <2>0, <3>1 DEF StepOK
    <3> QED BY <2>0, <2>2, <3>1, <3>2
  <2>3. CASE outcome = "error"
    <3>1. PICK what \in {"read", "write", "await_closed"} : Doing(r, what)
      BY <2>3 DEF Parting
    <3>2. step' = step
      BY <2>3 DEF Parting
    <3>3. link.kind = "quic" /\ r = "server" /\ step[r] >= 2 => what = "drain"
      BY <3>1, DoingFacts
    <3> QED BY <2>0, <2>3, <3>1, <3>2, <3>3
  <2> QED BY <1>4, <2>1, <2>2, <2>3
<1>6. /\ complete' = complete /\ arrived' = arrived /\ notice' = notice /\ link' = link /\ cut' = cut
  OBVIOUS
<1>7. (Wrote(p)' <=> Wrote(p)) /\ (Wrote(r) => Wrote(r)')
  BY <1>5 DEF Wrote
<1>8. (r = "client" /\ p = "server") \/ (r = "server" /\ p = "client")
  BY PeerFacts DEF Role
<1> HIDE DEF p
<1>9. CloseTypeOK'
  <2>1. queued' \in [Role -> Seq({"frame", "marker"})]
    BY <1>0 DEF CloseTypeOK, Leave
  <2>2. closed' \in [Role -> {"no", "done", "failure", "dropped"}]
    BY <1>0, <1>4 DEF CloseTypeOK, Leave
  <2>3. result' \in [Role -> {"running", "ok", "failed", "error"}]
    BY <1>0, <1>4 DEF CloseTypeOK, Leave
  <2> QED BY <1>0, <1>5, <2>1, <2>2, <2>3 DEF CloseTypeOK
<1>10. StepOK(r)' /\ StepOK(p)'
  <2>1. StepOK(r)'
    BY <1>1, <1>2, <1>3, <1>4, <1>5, <1>6 DEF StepOK
  <2>2. StepOK(p)'
    BY <1>1, <1>2, <1>3, <1>5, <1>6 DEF StepOK
  <2> QED BY <2>1, <2>2
<1>11. FrameOK(r)' /\ MarkerOK(r)'
  <2>1. 1..Len(queued'[r]) = {}
    BY <1>3
  <2> QED BY <1>1, <1>3, <1>6, <1>7, <2>1 DEF FrameOK, MarkerOK
<1>12. FrameOK(p)' /\ MarkerOK(p)'
  BY <1>1, <1>3, <1>6, <1>7 DEF FrameOK, MarkerOK
<1>14. ReadOK'
  BY <1>1, <1>5, <1>7, <1>8 DEF ReadOK
<1>15. NoticeOK'
  <2>1. \A t \in Role : notice'[t] # "no" => cut' \/ closed'[Peer(t)] # "no"
    <3>1. \A t \in Role : Peer(t) \in Role
      BY PeerFacts
    <3>2. \A t \in Role : closed[t] # "no" => closed'[t] # "no"
      BY <1>0, <1>3
    <3> QED BY <1>1, <1>6, <3>1, <3>2 DEF NoticeOK
  <2>2. link.kind = "iroh" /\ closed'["server"] = "dropped" => notice["server"] # "no"
    BY <1>1, <1>3, <1>4, <1>8 DEF NoticeOK, Parting
  <2>3. /\ link.kind = "iroh" /\ closed'["client"] = "no" /\ notice["client"] = "done" =>
             closed'["server"] = "done"
        /\ link.kind = "iroh" /\ result'["client"] = "ok" => closed'["server"] = "done"
    <3>1. CASE r = "client" /\ p = "server"
      BY <1>1, <1>3, <1>4, <3>1 DEF NoticeOK, Parting
    <3>2. CASE r = "server" /\ p = "client"
      BY <1>1, <1>3, <1>4, <3>2 DEF NoticeOK
    <3> QED BY <1>8, <3>1, <3>2
  <2>4. link.kind = "quic" /\ step'["server"] >= 2 => result'["server"] \in {"running", "ok"}
    BY <1>1, <1>3, <1>5, <1>8 DEF NoticeOK
  <2> QED BY <1>6, <2>1, <2>2, <2>3, <2>4 DEF NoticeOK
<1> QED BY <1>0, <1>9, <1>10, <1>11, <1>12, <1>14, <1>15 DEF CloseInv, p

\* The driver of a live endpoint delivers what was written first.
LEMMA DeliverInv ==
  ASSUME CloseInv, NEW r \in Role, Deliver(r)
  PROVE  CloseInv'
<1> USE DEF Deliver
<1> DEFINE p == Peer(r)
<1>0. /\ CloseTypeOK /\ p \in Role /\ p # r /\ Peer(p) = r
      /\ \A t \in Role : t = r \/ t = p
  BY PeerFacts DEF CloseInv
<1>1. /\ StepOK(r) /\ FrameOK(r) /\ MarkerOK(r) /\ StepOK(p) /\ FrameOK(p) /\ MarkerOK(p)
      /\ ReadOK /\ NoticeOK
  BY <1>0 DEF CloseInv
<1>2. Finish(r)' = Finish(r) /\ Finish(p)' = Finish(p)
  BY DEF Finish
<1> DEFINE q == queued[r]
           a == arrived[r]
           x == Head(q)
<1>3. /\ q \in Seq({"frame", "marker"}) /\ q # <<>> /\ Len(q) \in Nat
      /\ queued'[r] = Tail(q) /\ Tail(q) \in Seq({"frame", "marker"})
      /\ Len(Tail(q)) = Len(q) - 1
      /\ \A i \in 1..Len(Tail(q)) : Tail(q)[i] = q[i + 1] /\ i + 1 \in 1..Len(q)
      /\ x = q[1] /\ 1 \in 1..Len(q) /\ x \in {"frame", "marker"}
      /\ queued'[p] = queued[p]
  BY <1>0, StreamFacts DEF CloseTypeOK
<1>4. /\ a \in Seq({"frame", "marker"}) /\ Len(a) \in Nat
      /\ arrived'[r] = Append(a, x) /\ arrived'[p] = arrived[p]
  BY <1>0, StreamFacts DEF CloseTypeOK
<1>5. /\ arrived'[r] \in Seq({"frame", "marker"}) /\ Len(arrived'[r]) = Len(a) + 1
      /\ \A i \in 1..Len(a) : arrived'[r][i] = a[i]
      /\ arrived'[r][Len(a) + 1] = x
      /\ \A i \in 1..Len(arrived'[r]) : i \in 1..Len(a) \/ i = Len(a) + 1
  <2> HIDE DEF a, x
  <2>1. /\ Append(a, x) \in Seq({"frame", "marker"}) /\ Len(Append(a, x)) = Len(a) + 1
        /\ \A i \in 1..Len(a) : Append(a, x)[i] = a[i]
        /\ Append(a, x)[Len(a) + 1] = x
    BY <1>3, <1>4, StreamFacts
  <2>2. \A i \in 1..(Len(a) + 1) : i \in 1..Len(a) \/ i = Len(a) + 1
    BY <1>4
  <2> QED BY <1>4, <2>1, <2>2
<1>6. /\ closed' = closed /\ notice' = notice /\ result' = result /\ complete' = complete
      /\ link' = link /\ cut' = cut /\ step' = step
  OBVIOUS
<1>7. (Wrote(p)' <=> Wrote(p)) /\ (Wrote(r)' <=> Wrote(r))
  BY <1>6 DEF Wrote
<1>a. \A i \in 1..Len(Tail(q)) : i + 1 # 1
  BY <1>3
<1> HIDE DEF p, q, a, x
<1>8. CloseTypeOK'
  <2>1. /\ arrived' \in [Role -> Seq({"frame", "marker"})]
        /\ queued' \in [Role -> Seq({"frame", "marker"})]
    BY <1>0, <1>3, <1>5 DEF CloseTypeOK
  <2> QED BY <1>0, <1>6, <2>1 DEF CloseTypeOK
<1>9. StepOK(r)' /\ StepOK(p)'
  BY <1>1, <1>2, <1>6 DEF StepOK
<1>10. FrameOK(r)'
  <2>1. complete[r] /\ complete[link.last]
    BY <1>1, <1>3 DEF FrameOK, q
  <2>2. \A i \in 1..Len(Tail(q)) : Tail(q)[i] # "frame"
    BY <1>1, <1>3, <1>a DEF FrameOK, q
  <2>3. x = "frame" => Len(a) = 0 /\ r = link.last /\ ~complete[p]
    BY <1>1, <1>3, <1>4 DEF FrameOK, p, q, a
  <2>4. \A i \in 1..Len(arrived'[r]) : arrived'[r][i] = "frame" =>
          i = 1 /\ r = link.last /\ ~complete[p]
    BY <1>1, <1>5, <2>3 DEF FrameOK, p, a
  <2> QED BY <1>3, <1>6, <2>1, <2>2, <2>4 DEF FrameOK, p
<1>11. FrameOK(p)'
  <2> HIDE DEF Deliver
  <2> QED BY <1>0, <1>1, <1>3, <1>4, <1>6 DEF FrameOK
<1>12. MarkerOK(r)' /\ MarkerOK(p)'
  BY <1>1, <1>3, <1>4, <1>5, <1>7 DEF MarkerOK, q, a
<1>13. ReadOK' /\ NoticeOK'
  BY <1>1, <1>6 DEF ReadOK, NoticeOK, Wrote
<1> QED BY <1>0, <1>8, <1>9, <1>10, <1>11, <1>12, <1>13 DEF CloseInv, p

\* The network fails, or a role hears that the connection has ended.
LEMMA NewsInv ==
  ASSUME CloseInv, Cut \/ \E r \in Role : Notice(r)
  PROVE  CloseInv'
<1>0. CloseTypeOK /\ ReadOK /\ NoticeOK /\ \A t \in Role : StepOK(t) /\ FrameOK(t) /\ MarkerOK(t)
  BY DEF CloseInv
<1>1. UNCHANGED <<link, complete, step, queued, arrived, closed, result>>
  BY DEF Cut, Notice
<1>2. /\ \A t \in Role : Finish(t)' = Finish(t) /\ (Wrote(t)' <=> Wrote(t))
      /\ Wrote("client")' <=> Wrote("client")
      /\ Wrote("server")' <=> Wrote("server")
  BY <1>1 DEF Finish, Wrote
<1>3. \A t \in Role : StepOK(t)' /\ FrameOK(t)' /\ MarkerOK(t)'
  BY <1>0, <1>1, <1>2 DEF StepOK, FrameOK, MarkerOK
<1>4. ReadOK'
  BY <1>0, <1>1, <1>2 DEF ReadOK
<1>5. CASE Cut
  <2>1. notice' = notice /\ cut' = TRUE
    BY <1>5 DEF Cut
  <2>2. CloseTypeOK'
    <3>1. cut' \in BOOLEAN
      BY <2>1
    <3> QED BY <1>0, <1>1, <2>1, <3>1 DEF CloseTypeOK
  <2>3. NoticeOK'
    BY <1>0, <1>1, <2>1 DEF NoticeOK
  <2> QED BY <1>3, <1>4, <2>2, <2>3 DEF CloseInv
<1>6. ASSUME NEW r \in Role, Notice(r) PROVE CloseInv'
  <2>0. Peer(r) \in Role /\ Peer("client") = "server" /\ "server" \in Role /\ "client" \in Role
    BY PeerFacts DEF Role
  <2>1. PICK code \in Codes(closed[Peer(r)]) : notice' = [notice EXCEPT ![r] = code]
    BY <1>6 DEF Notice
  <2>2. cut' = cut /\ notice[r] = "no" /\ (cut \/ closed[Peer(r)] # "no")
    BY <1>6 DEF Notice
  <2>3. /\ code \in {"done", "failure", "lost"}
        /\ code = "done" => ~cut /\ closed[Peer(r)] \in {"done", "dropped"}
    BY <1>0, <2>0, <2>1, <2>2 DEF Codes, CloseTypeOK
  <2>4. notice'[r] = code /\ \A t \in Role : t # r => notice'[t] = notice[t]
    BY <1>0, <2>1 DEF CloseTypeOK
  <2>5. CloseTypeOK'
    <3>1. notice' \in [Role -> {"no", "done", "failure", "lost"}]
      BY <1>0, <2>1, <2>3 DEF CloseTypeOK
    <3> QED BY <1>0, <1>1, <2>2, <3>1 DEF CloseTypeOK
  <2>6. \A t \in Role : notice'[t] # "no" => cut' \/ closed'[Peer(t)] # "no"
    BY <1>0, <1>1, <2>2, <2>4 DEF NoticeOK
  <2>7. link.kind = "iroh" /\ closed["server"] = "dropped" => notice'["server"] # "no"
    BY <1>0, <2>0, <2>3, <2>4 DEF NoticeOK
  <2>8. link.kind = "iroh" /\ closed["client"] = "no" /\ notice'["client"] = "done" =>
          closed["server"] = "done"
    <3>1. CASE r = "client"
      <4>1. notice["server"] # "no" => cut \/ closed["client"] # "no"
        BY <1>0, <2>0, PeerFacts DEF NoticeOK
      <4> QED BY <1>0, <2>0, <2>3, <2>4, <3>1, <4>1 DEF NoticeOK
    <3>2. CASE r # "client"
      BY <1>0, <2>0, <2>4, <3>2 DEF NoticeOK
    <3> QED BY <3>1, <3>2
  <2>9. NoticeOK'
    BY <1>0, <1>1, <2>6, <2>7, <2>8 DEF NoticeOK
  <2> QED BY <1>3, <1>4, <2>5, <2>9 DEF CloseInv
<1> QED BY <1>5, <1>6

\* A complete role finds nothing but markers.
LEMMA OnlyMarkers ==
  ASSUME CloseInv, NEW r \in Role, complete[r], arrived[Peer(r)] # <<>>
  PROVE  Head(arrived[Peer(r)]) = "marker"
<1>1. Peer(r) \in Role /\ Peer(Peer(r)) = r
  BY PeerFacts
<1>2. arrived[Peer(r)] \in Seq({"frame", "marker"}) /\ FrameOK(Peer(r))
  BY <1>1 DEF CloseInv, CloseTypeOK
<1>3. /\ Head(arrived[Peer(r)]) = arrived[Peer(r)][1] /\ 1 \in 1..Len(arrived[Peer(r)])
      /\ Head(arrived[Peer(r)]) \in {"frame", "marker"}
  BY <1>2, StreamFacts
<1> QED BY <1>1, <1>2, <1>3 DEF FrameOK

\* Every step keeps the invariant.
LEMMA CloseStepInv == CloseInv /\ [CloseNext]_vars => CloseInv'
<1> SUFFICES ASSUME CloseInv, [CloseNext]_vars PROVE CloseInv'
  OBVIOUS
<1>1. CASE UNCHANGED vars
  <2>1. \A t \in Role : Finish(t)' = Finish(t)
    BY <1>1 DEF vars, Finish
  <2>2. CloseTypeOK' /\ ReadOK' /\ NoticeOK'
    BY <1>1 DEF vars, CloseInv, CloseTypeOK, ReadOK, NoticeOK, Wrote
  <2>3. \A t \in Role : StepOK(t)' /\ FrameOK(t)' /\ MarkerOK(t)'
    BY <1>1, <2>1 DEF vars, CloseInv, StepOK, FrameOK, MarkerOK, Wrote
  <2> QED BY <2>2, <2>3 DEF CloseInv
<1>2. ASSUME NEW r \in Role, SendLast(r) PROVE CloseInv'
  <2>1. "frame" \in {"frame", "marker"}
    OBVIOUS
  <2> QED BY <1>2, <2>1, WriteInv DEF SendLast, Running
<1>3. ASSUME NEW r \in Role, ReceiveLast(r) PROVE CloseInv'
  BY <1>3, TakeInv DEF ReceiveLast, Running
<1>4. ASSUME NEW r \in Role, Abort(r) PROVE CloseInv'
  <2>1. Parting(r, "failure", "failed")
    BY <1>4 DEF Abort, Parting
  <2> QED BY <1>4, <2>1, LeaveInv DEF Abort, Running
<1>5. ASSUME NEW r \in Role, NEW what \in {"read", "write", "await_closed"}, Doing(r, what),
             FinishFails(r), link.kind = "iroh" /\ r = "server" => notice[r] # "no"
      PROVE  CloseInv'
  <2>1. Parting(r, "dropped", "error")
    BY <1>5 DEF FinishFails, Parting
  <2> QED BY <1>5, <2>1, LeaveInv DEF FinishFails, Doing, Running
<1>6. ASSUME NEW r \in Role, WriteMarker(r) PROVE CloseInv'
  <2>1. CASE notice[r] = "no"
    <3>1. "marker" \in {"frame", "marker"}
      OBVIOUS
    <3> QED BY <1>6, <2>1, <3>1, WriteInv DEF WriteMarker, Doing, Running
  <2>2. CASE notice[r] # "no"
    BY <1>5, <1>6, <2>2 DEF WriteMarker
  <2> QED BY <2>1, <2>2
<1>7. ASSUME NEW r \in Role, ReadMarker(r) PROVE CloseInv'
  <2>1. Head(arrived[Peer(r)]) = "marker"
    BY <1>7, OnlyMarkers DEF ReadMarker, Doing
  <2> QED BY <1>7, <2>1, TakeInv DEF ReadMarker, Doing, Running
<1>8. ASSUME NEW r \in Role, ReadMarkerFails(r) PROVE CloseInv'
  <2>1. link.kind = "iroh" /\ r = "server" => notice[r] # "no"
    BY <1>8 DEF ReadMarkerFails
  <2> QED BY <1>5, <1>8, <2>1 DEF ReadMarkerFails
<1>9. ASSUME NEW r \in Role, NEW how \in {"done", "dropped"},
             NEW what \in {"close", "drain", "await_closed"}, Doing(r, what),
             Advance(r), Leave(r, how, "ok"),
             link.kind = "iroh" => how = "done",
             link.kind = "iroh" /\ r = "client" => notice[r] = "done",
             UNCHANGED <<link, cut, complete, arrived, notice>>
      PROVE  CloseInv'
  <2>1. Parting(r, how, "ok")
    BY <1>9 DEF Parting
  <2> QED BY <1>9, <2>1, LeaveInv DEF Doing, Running
<1>10. ASSUME NEW r \in Role, CloseConnection(r) PROVE CloseInv'
  <2>1. link.kind = "iroh" => r = "server"
    BY <1>10, DoingFacts DEF CloseConnection
  <2> QED BY <1>9, <1>10, <2>1 DEF CloseConnection
<1>11. ASSUME NEW r \in Role, Drain(r) PROVE CloseInv'
  <2>1. link.kind = "quic"
    BY <1>11, DoingFacts DEF Drain
  <2> QED BY <1>9, <1>11, <2>1 DEF Drain
<1>12. ASSUME NEW r \in Role, AwaitClosed(r) PROVE CloseInv'
  <2>1. CASE notice[r] = "done"
    BY <1>9, <1>12, <2>1 DEF AwaitClosed
  <2>2. CASE notice[r] # "done"
    BY <1>5, <1>12, <2>2 DEF AwaitClosed
  <2> QED BY <2>1, <2>2
<1> QED BY <1>1, <1>2, <1>3, <1>4, <1>6, <1>7, <1>8, <1>10, <1>11, <1>12,
           DeliverInv, NewsInv DEF CloseNext

-----------------------------------------------------------------------------
(***************************************************************************)
(* The theorems.                                                           *)
(***************************************************************************)
\* The closing exchange keeps the invariant.
THEOREM CloseInvariance == CloseSpec => []CloseInv
BY CloseInitInv, CloseStepInv, PTL DEF CloseSpec

\* A role whose finish returns Ok has a peer that completed the conversation: it has
\* read a marker, and a role writes markers in its finish only.
THEOREM OkTheorem == CloseSpec => []OkMeansPeerComplete
<1>1. CloseInv => OkMeansPeerComplete
  <2> SUFFICES ASSUME CloseInv, NEW r \in Role, result[r] = "ok" PROVE complete[Peer(r)]
    BY DEF OkMeansPeerComplete
  <2>0. /\ link \in Link /\ StepOK(r) /\ Peer(r) \in Role /\ StepOK(Peer(r)) /\ ReadOK
        /\ step[Peer(r)] \in 0..4
    BY PeerFacts DEF CloseInv, CloseTypeOK
  <2>1. step[r] >= 2
    BY <2>0, FinishFacts DEF StepOK, Role
  <2>2. step[Peer(r)] > 0
    <3>1. CASE r = "client" /\ Peer(r) = "server"
      BY <2>0, <2>1, <3>1 DEF ReadOK, Wrote
    <3>2. CASE r = "server" /\ Peer(r) = "client"
      <4>1. step["server"] >= 1 /\ step["server"] \in 0..4
        BY <2>1, <3>2 DEF CloseInv, CloseTypeOK
      <4> QED BY <2>0, <3>2, <4>1 DEF ReadOK, Wrote
    <3> QED BY <3>1, <3>2, PeerFacts DEF Role
  <2> QED BY <2>0, <2>2 DEF StepOK
<1> QED BY <1>1, CloseInvariance, PTL

\* When the client reports success the server has done so or has nothing left to
\* wait for.
THEOREM ClientOkTheorem == CloseSpec => []ClientOkMeansServerOk
<1>1. CloseInv => ClientOkMeansServerOk
  <2> SUFFICES ASSUME CloseInv, result["client"] = "ok"
               PROVE  \/ result["server"] = "ok"
                      \/ result["server"] = "running" /\ step["server"] + 1 = Len(Finish("server"))
    BY DEF ClientOkMeansServerOk
  <2>0. /\ link \in Link /\ StepOK("client") /\ StepOK("server") /\ ReadOK /\ NoticeOK
        /\ step["server"] \in 0..4
    BY DEF CloseInv, CloseTypeOK, Role
  <2>1. CASE link.kind = "iroh"
    BY <2>0, <2>1 DEF NoticeOK, StepOK
  <2>2. CASE link.kind = "quic"
    <3>1. Len(Finish("client")) = 3 /\ Len(Finish("server")) = 3
      BY <2>0, <2>2, FinishFacts
    <3>2. step["server"] >= 2
      BY <2>0, <3>1 DEF StepOK, ReadOK, Wrote
    <3>3. result["server"] \in {"running", "ok"}
      BY <2>0, <2>2, <3>2 DEF NoticeOK
    <3>4. result["server"] = "running" => step["server"] < 3
      BY <2>0, <3>1 DEF StepOK
    <3>5. step["server"] < 3 => step["server"] + 1 = 3
      BY <2>0, <3>2
    <3> QED BY <3>1, <3>3, <3>4, <3>5
  <2> QED BY <2>0, <2>1, <2>2, FinishFacts
<1> QED BY <1>1, CloseInvariance, PTL

=============================================================================
