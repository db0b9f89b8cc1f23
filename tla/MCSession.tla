----------------------------- MODULE MCSession -----------------------------
(***************************************************************************)
(* Sessions for TLC: the generate conversation of examples/, its failures  *)
(* cut down to two, extended so as to reach the corners of the runtime.    *)
(***************************************************************************)
EXTENDS Session, TLC

Timeout == "transport.timeout"

NoEdges == [f \in {} |-> ""]
BothEdges == Closed :> "transport-failed" @@ Timeout :> "transport-timeout"

\* examples/generate.colloqconv.json with the corners validate allows: a choice
\* with an edge to itself and one straight to a failure state, a state that
\* declares one of two failures and a state that declares none.
Stream ==
  [roles |-> {"client", "server"}, initial |-> "start",
   states |->
     ("start" :> SendState("client", "server", "prompt", "decide", NoEdges))
     @@ ("decide" :> ChoiceState("server",
           "beat" :> "decide" @@ "token" :> "emit-token" @@ "done" :> "end"
             @@ "fault" :> "transport-failed", BothEdges))
     @@ ("emit-token" :> SendState("server", "client", "token",
           "client-action", BothEdges))
     @@ ("client-action" :> ChoiceState("client",
           "continue" :> "decide" @@ "cancel" :> "cancel", BothEdges))
     @@ ("cancel" :> CancelState("client", "server", "generation", "end",
           Closed :> "transport-failed"))
     @@ ("end" :> EndState)
     @@ ("transport-failed" :> FailState(Closed))
     @@ ("transport-timeout" :> FailState(Timeout))]

=============================================================================
