----------------------------- MODULE MCPreface -----------------------------
(***************************************************************************)
(* Handshakes for TLC: two plans, and every setup that differs in one or   *)
(* more of plan, codec, role, expected role and encoding.                  *)
(***************************************************************************)
EXTENDS Preface

Plans == {"p1", "p2"}

SetupsFor(wires, roles) ==
  {u \in [plan : Plans, codec : Plans, role : roles, peer_role : roles, wire : wires] :
     u.wire = "reference" => u.codec = u.plan}

ReferenceSetups == SetupsFor({"reference"}, {"client", "server"})
AllSetups == ReferenceSetups \cup SetupsFor({"compact"}, {"client", "server", "router"})
=============================================================================
