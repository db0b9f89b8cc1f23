-------------------------- MODULE MCDraftExchange --------------------------
(***************************************************************************)
(* Draft sync for TLC: a draft with a field that has to be a string and an *)
(* object in its annotations, to which a field may be added; and the       *)
(* conversation of examples/.                                              *)
(***************************************************************************)
EXTENDS DraftExchange, TLC

\* examples/draft-sync.colloqconv.json
DraftSync ==
  [roles |-> {"client", "server"}, initial |-> "client-turn",
   states |->
     ("client-turn" :> ChoiceState("client",
        "message" :> "client-send" @@ "done" :> "end", NoEdges))
     @@ ("client-send" :> SendState("client", "server", "sync", "server-turn", NoEdges))
     @@ ("server-turn" :> ChoiceState("server",
           "message" :> "server-send" @@ "idle" :> "client-turn", NoEdges))
     @@ ("server-send" :> SendState("server", "client", "sync", "client-turn", NoEdges))
     @@ ("end" :> EndState)]

Created == "version" :> "0.1" @@ "review" :> "object" @@ "note" :> "none"

Parents == "version" :> {} @@ "review" :> {} @@ "note" :> {"review"}

Patches ==
  {[path |-> "version", value |-> "0.2"], [path |-> "note", value |-> "text"],
   [path |-> "review", value |-> "scalar"],
   [path |-> "nowhere", value |-> "0.2"], [path |-> "version", value |-> "composite"]}

\* A version is a string; an annotation is any value.
Valid ==
  {m \in UNION {[{"version", "review"} \cup x -> {"object", "scalar", "0.1", "0.2", "text"}] :
                 x \in SUBSET {"note"}} : m["version"] \in {"0.1", "0.2"}}
=============================================================================
