---------------------------- MODULE MCWireCodec ----------------------------
(***************************************************************************)
(* Plan artifacts for TLC: two small conversations as compile writes them, *)
(* without their dictionary, with a dictionary or an endpoint that is not  *)
(* theirs, and with one endpoint of each.                                  *)
(***************************************************************************)
EXTENDS WireCodec, TLC

NoEdges == [f \in {} |-> ""]

Ask ==
  [roles |-> {"p", "q"}, initial |-> "ask",
   states |-> ("ask" :> SendState("p", "q", "m", "pick", "lost" :> "failed"))
           @@ ("pick" :> ChoiceState("q", "yes" :> "stop" @@ "no" :> "ask", NoEdges))
           @@ ("stop" :> CancelState("p", "q", "s", "end", NoEdges))
           @@ ("end" :> EndState) @@ ("failed" :> FailState("lost"))]

Tell ==
  [Ask EXCEPT !.states = @ @@ ("more" :> SendState("q", "p", "m", "end", NoEdges))]

\* One transition too many for the largest id.
Crowd ==
  [Tell EXCEPT !.states = @ @@ ("most" :> SendState("p", "q", "m", "end", NoEdges))]

\* The same state names the other way round.
Turned ==
  [Ask EXCEPT !.states["ask"] = SendState("q", "p", "m", "pick", NoEdges)]

Sign(endpoints, wire) ==
  [endpoints |-> endpoints, wire |-> wire,
   plan_identity |-> CalculateIdentity(endpoints, wire)]

Endpoints(c) == <<Project(c, "p"), Project(c, "q")>>

Written == UNION {Compile(c) : c \in {Ask, Tell, Crowd, Turned}}
Old == {Sign(a.endpoints, {}) : a \in Written} \cup {Sign(Endpoints(Crowd), {})}
Mixed == {Sign(<<Project(Ask, "p"), Project(Turned, "q")>>, {}),
          Sign(<<Project(Ask, "p"), Project(Tell, "q")>>, {}),
          Sign(<<Project(Ask, "p"), Project(Ask, "p")>>, {}),
          Sign(<<Project(Ask, "p")>>, {})}
Edited ==
  {[a EXCEPT !.wire = {}] : a \in Written}
    \cup UNION {{Sign(a.endpoints, {Tail(w)}) : w \in a.wire} : a \in Written}
    \cup UNION {{Sign(a.endpoints, {[w EXCEPT ![1] = w[2], ![2] = w[1]]})
                   : w \in a.wire} : a \in Written}
    \cup {Sign([a.endpoints EXCEPT ![1].initial = "gone"], {}) : a \in Written}
    \cup {Sign([a.endpoints EXCEPT ![1].states = Tail(@)], {}) : a \in Written}
    \cup {Sign([a.endpoints EXCEPT ![1].states = @ \o @], {}) : a \in Written}

Artifacts == Written \cup Old \cup Mixed \cup Edited

Names == {"ask", "pick", "stop", "end"}
Frames ==
  {DataFrame("p", "q", "m"), DataFrame("q", "p", "m"), DataFrame("p", "q", "n"),
   SelectFrame("q", "yes"), SelectFrame("q", "no"), SelectFrame("p", "yes"),
   SelectFrame("q", "may"), CancelFrame("p", "q", "s"), CancelFrame("q", "p", "s"),
   FaultFrame("p", "lost")}
=============================================================================
