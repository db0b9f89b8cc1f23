----------------------------- MODULE MCGenerate -----------------------------
(***************************************************************************)
(* The drivers for TLC, over the conversation they were written for.       *)
(* Every command line with at most two tokens and one fault.               *)
(***************************************************************************)
EXTENDS Generate, TLC

Timeout == "transport.timeout"
Uncertain == "transport.uncertain"

AllEdges == Closed :> "transport-failed" @@ Timeout :> "transport-timeout"
              @@ Uncertain :> "transport-uncertain"

\* examples/generate.colloqconv.json, with three of its five failures
Generation ==
  [roles |-> {Client, Server}, initial |-> "start",
   states |->
     ("start" :> SendState(Client, Server, "prompt", "decide", AllEdges))
     @@ ("decide" :> ChoiceState(Server,
           "token" :> "emit-token" @@ "done" :> "end", AllEdges))
     @@ ("emit-token" :> SendState(Server, Client, "token",
           "client-action", AllEdges))
     @@ ("client-action" :> ChoiceState(Client,
           "continue" :> "decide" @@ "cancel" :> "cancel", AllEdges))
     @@ ("cancel" :> CancelState(Client, Server, "generation", "end", AllEdges))
     @@ ("end" :> EndState)
     @@ ("transport-failed" :> FailState(Closed))
     @@ ("transport-timeout" :> FailState(Timeout))
     @@ ("transport-uncertain" :> FailState(Uncertain))]

MaxOccurrence == 8

FaultPlan(operations) ==
  [role : {Client, Server}, operation : operations, occurrence : 0..MaxOccurrence,
   failure : {Timeout}, peer_failure : {{}, {Uncertain}, {Timeout}}]

CommandLines(operations) ==
  [tokens : 0..2, cancel_after : {{}, {0}, {1}, {2}},
   fault : {{}} \cup {{plan} : plan \in FaultPlan(operations)}]

AllCommands == CommandLines({"send", "receive"})
=============================================================================
