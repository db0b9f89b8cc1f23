---------------------------- MODULE MCValidation ----------------------------
(***************************************************************************)
(* Documents for TLC: every pair of states over a small vocabulary with    *)
(* known and unknown names, every header, and every graph of three states  *)
(* with two edges each; and for the documents accepted, bindings of their  *)
(* choices to criteria that fit and criteria that do not.                  *)
(***************************************************************************)
EXTENDS Jev, TLC

Edges == {[f \in {} |-> ""]} \cup {f :> t : f \in {"lost", "odd"}, t \in {"a", "b", "x"}}

Roles == {"p", "q", "r"}

Sends == {SendState(from, to, message, next, edges) :
            from \in {"p", "r"}, to \in {"p", "q"}, message \in {"m", "n"},
            next \in {"a", "b", "x"}, edges \in Edges}

ChoiceStates == {ChoiceState(chooser, branches, edges) :
                   chooser \in {"p", "r"},
                   branches \in [{"yes", "no"} -> {"a", "b", "x"}] \cup [{"yes"} -> {"b"}]
                                  \cup [{"yes", ""} -> {"b"}],
                   edges \in {[f \in {} |-> ""], "lost" :> "b"}}

Cancels == {CancelState("q", "p", scope, next, edges) :
              scope \in {"s", ""}, next \in {"a", "b"}, edges \in Edges}

Terminals == {EndState, FailState("lost"), FailState("odd")}

Header == [format : {TRUE}, roles : {<<"p", "q">>}, types : {<<[id |-> "m", kind |-> TRUE]>>},
           failures : {<<"lost">>}]

Headers == [format : BOOLEAN,
            roles : {<<"p", "q">>, <<"p", "p">>, <<"p">>, <<"p", "q", "r">>, <<"p", "">>},
            types : {<<>>, <<[id |-> "m", kind |-> TRUE]>>, <<[id |-> "m", kind |-> FALSE]>>,
                     <<[id |-> "m", kind |-> TRUE], [id |-> "m", kind |-> TRUE]>>},
            failures : {<<"lost">>, <<"lost", "lost">>, <<>>}]

Make(header, initial, states) ==
  [format |-> header.format, roles |-> header.roles, types |-> header.types,
   failures |-> header.failures, initial |-> initial, states |-> states]

At(id, body) == [id |-> id, body |-> body]

\* One state of every shape and one terminal or alike; ids may clash.
Pairs ==
  {Make(h, initial, <<At("a", g), At(id, t)>>) :
     h \in Header, initial \in {"a", "b", "x"}, g \in Sends \cup ChoiceStates \cup Cancels,
     id \in {"a", "b"}, t \in Terminals \cup {CHOOSE s \in Sends : s.next = "a"}}

Heads ==
  {Make(h, "a", <<At("a", SendState("p", "q", "m", "b", "lost" :> "c")),
                  At("b", EndState), At("c", FailState("lost"))>>) : h \in Headers}

\* Graphs of four states, with cycles, self-loops and parts out of reach.
Ids == {"a", "b", "c"}
Shape == {EndState} \cup {ChoiceState("p", branches, "lost" :> "f") :
                            branches \in [{"yes", "no"} -> Ids]}
Graphs ==
  {Make(h, "a", <<At("a", s[1]), At("b", s[2]), At("c", s[3]), At("f", FailState("lost"))>>) :
     h \in Header, s \in [1..3 -> Shape]}

(***************************************************************************)
(* Bindings: every way to bind two routing conversations over a small      *)
(* vocabulary, and one binding for every other document.                   *)
(***************************************************************************)
Route2 == ChoiceState("p", [l \in {"yes", "no"} |-> "b"], [f \in {} |-> ""])
Route3 == ChoiceState("q", "yes" :> "b" @@ "no" :> "a" @@ "maybe" :> "b", "lost" :> "f")

Routes ==
  {Make(h, "a", <<At("a", Route2), At("b", EndState)>>) : h \in Header}
    \cup {Make(h, "a", <<At("a", SendState("p", "q", "m", "c", [f \in {} |-> ""])),
                         At("c", Route3), At("b", EndState), At("f", FailState("lost"))>>) :
            h \in Header}

Labels == {"yes", "no", "maybe", "odd"}

Plain == [format : {TRUE}, this_conversation : {TRUE}, model : {TRUE}, state : {"a", "c", "z"},
          threshold : {{}, {-1}, {0}, {5}, {Unit}, {Unit + 1}},
          criteria : SUBSET Labels, escalate : Labels]

Marked == [format : BOOLEAN, this_conversation : BOOLEAN, model : BOOLEAN, state : {"a"},
           threshold : {{5}}, criteria : {{"yes", "no"}}, escalate : {"no"}]

Bindings(d) == IF d \in Routes THEN Plain \cup Marked ELSE {CHOOSE b \in Marked : b.format}

AllAnswers == [choice : Labels, confidence : {{}, {-1}, {0}, {4}, {5}, {Unit}, {Unit + 1}}]

AllDocuments == Pairs \cup Heads \cup Graphs \cup Routes
=============================================================================
