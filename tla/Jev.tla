-------------------------------- MODULE Jev --------------------------------
(***************************************************************************)
(* jev-decide: a choice state of a conversation is bound to an outside     *)
(* decider, which is asked over HTTP and whose answer becomes the label    *)
(* the chooser emits, the declared escalation branch, or a typed failure.  *)
(*                                                                         *)
(* bind validates the conversation first (Validation) and then the binding *)
(* against it; the client repeats a request the service was too busy for.  *)
(* A confidence or a threshold is {n}, n on a scale of 0 to Unit (also     *)
(* numbers outside it), or {} when it is not a finite number.              *)
(***************************************************************************)
EXTENDS Validation, Integers

CONSTANTS
  BindingFor(_),    \* the bindings to try on a document
  Answer            \* the Choice answers the service may give: [choice, confidence]

\* A number, or something else a floating-point number can be.
Number(x) == \A n \in x : n \in Int /\ x = {n}

ASSUME NumberAssumption ==
  /\ \A d \in Document : \A b \in BindingFor(d) : Number(b.threshold)
  /\ \A a \in Answer : Number(a.confidence)

Unit == 10
Backoff == <<250, 1000>>

VARIABLES
  binding,    \* the JevBinding, once it is read: at most one
  stage,      \* "bind", "asking", then "refused", "decided" or "failed"
  codes,      \* what bind reports
  attempt,    \* how often the request was repeated
  answered,   \* the answer that was parsed: at most one
  outcome     \* the label decided, or the failure id: at most one

jevVars == <<binding, stage, codes, attempt, answered, outcome>>
commandVars == <<vars, jevVars>>

JevInit ==
  /\ ValidationInit
  /\ binding = {} /\ stage = "bind" /\ codes = {} /\ attempt = 0
  /\ answered = {} /\ outcome = {}

-----------------------------------------------------------------------------
(***************************************************************************)
(* bind.                                                                   *)
(***************************************************************************)
InUnit(number) == \E n \in number : n \in 0..Unit

BranchesOf(d, b) == DOMAIN StateOf(d, b.state).branches

\* Mutated form: a criterion may name anything.
BranchCodesAnyCriterion(d, b) ==
  Code(\E branch \in BranchesOf(d, b) \ {b.escalate} : branch \notin b.criteria, "CLQJ009")
    \cup Code(b.escalate \notin BranchesOf(d, b), "CLQJ010")

\* Mutated form: a branch may be without a criterion.
BranchCodesUncovered(d, b) ==
  Code(\E option \in b.criteria : option \notin BranchesOf(d, b), "CLQJ008")
    \cup Code(b.escalate \notin BranchesOf(d, b), "CLQJ010")

\* The checks against the branches of the state.
BranchCodes(d, b) ==
  Code(\E option \in b.criteria : option \notin BranchesOf(d, b), "CLQJ008")
    \cup Code(\E branch \in BranchesOf(d, b) \ {b.escalate} : branch \notin b.criteria,
              "CLQJ009")
    \cup Code(b.escalate \notin BranchesOf(d, b), "CLQJ010")

BindCodes(d, b) ==
  Code(~b.format, "CLQJ001")
    \cup Code(~b.this_conversation, "CLQJ002")
    \cup Code(~b.model, "CLQJ003")
    \cup Code(~InUnit(b.threshold), "CLQJ004")
    \cup Code(Cardinality(b.criteria) < 2, "CLQJ005")
    \cup (IF ~Known(d, b.state) THEN {"CLQJ007"}
          ELSE IF StateOf(d, b.state).kind # "choice" THEN {"CLQJ006"}
          ELSE BranchCodes(d, b))

\* bind returns the error of validate, or its own, or the bound choice.
Bind(b) ==
  /\ stage = "bind" /\ phase = "done" /\ binding = {}
  /\ binding' = {b}
  /\ IF diagnostics # {} THEN stage' = "refused" /\ UNCHANGED codes
     ELSE /\ codes' = BindCodes(doc, b)
          /\ stage' = IF codes' = {} THEN "bound" ELSE "refused"
  /\ UNCHANGED <<vars, attempt, answered, outcome>>

-----------------------------------------------------------------------------
(***************************************************************************)
(* decide, with the live client.                                           *)
(***************************************************************************)
Fails(failure) ==
  /\ stage' = "failed"
  /\ outcome' = {[failure |-> failure]}
  /\ UNCHANGED <<vars, binding, codes, attempt>>

\* from_env: there is a key or there is none.
WithKey ==
  /\ stage = "bound"
  /\ stage' = "asking"
  /\ UNCHANGED <<vars, binding, codes, attempt, answered, outcome>>

WithoutKey ==
  /\ stage = "bound"
  /\ Fails("jev.unavailable")
  /\ UNCHANGED answered

\* The request cannot be made, or its time is up.
PostFails ==
  /\ stage = "asking"
  /\ Fails("jev.unavailable")
  /\ UNCHANGED answered

\* Mutated form: the attempts wrap around the list of back-offs.
BusyWrapping ==
  /\ stage = "asking" /\ attempt < Len(Backoff)
  /\ attempt' = (attempt + 1) % Len(Backoff)
  /\ UNCHANGED <<vars, binding, stage, codes, answered, outcome>>

\* 429 or 529: sleep and ask again, as long as there is a back-off left.
Busy ==
  /\ stage = "asking" /\ attempt < Len(Backoff)
  /\ attempt' = attempt + 1
  /\ UNCHANGED <<vars, binding, stage, codes, answered, outcome>>

\* Any other status outside 200..299, or busy once too often.
HttpError(busy) ==
  /\ stage = "asking"
  /\ busy => attempt >= Len(Backoff)
  /\ Fails("jev.unavailable")
  /\ UNCHANGED answered

\* A body that is no JSON, has no choice for the question, or not its shape.
UnusableBody ==
  /\ stage = "asking"
  /\ Fails("jev.invalid_answer")
  /\ UNCHANGED answered

Escalated(b, a) == \E c \in a.confidence, t \in b.threshold : c < t

\* What decide makes of an answer: {label}, or nothing when it is not a usable one.
Decide(b, a) ==
  Only(a.choice \in b.criteria /\ InUnit(a.confidence),
       IF Escalated(b, a) THEN b.escalate ELSE a.choice)

Answers(a) ==
  /\ stage = "asking"
  /\ answered' = {a}
  /\ \E b \in binding :
       \/ /\ Decide(b, a) = {}
          /\ Fails("jev.invalid_answer")
       \/ \E label \in Decide(b, a) :
            /\ stage' = "decided"
            /\ outcome' = {[label |-> label]}
            /\ UNCHANGED <<vars, binding, codes, attempt>>

Ask ==
  \/ WithKey \/ WithoutKey
  \/ PostFails \/ Busy \/ UnusableBody
  \/ \E busy \in BOOLEAN : HttpError(busy)
  \/ \E a \in Answer : Answers(a)

JevNext ==
  \/ ValidationNext /\ UNCHANGED jevVars
  \/ \E b \in BindingFor(doc) : Bind(b)
  \/ Ask

\* One thread that is never stuck: the agent's global timeout ends every request
\* and every sleep is a short one.
JevSpec == JevInit /\ [][JevNext]_commandVars /\ WF_commandVars(JevNext)

-----------------------------------------------------------------------------
(***************************************************************************)
(* Properties.                                                             *)
(***************************************************************************)
\* A label comes out only of a usable answer, and it is one emit_select takes at
\* the bound state: the projected machine of the chooser permits it there.  It is
\* the decider's own choice if the decider was sure enough and the escalation
\* branch if not; whatever else happens, however often the request was repeated,
\* there is a failure id and no label.
DecisionIsSanctioned ==
  stage \in {"decided", "failed"} =>
    \A b \in binding : \A o \in outcome :
      LET g == ConversationOf(doc).states[b.state]
          local == ProjectState(g, g.chooser)
          sure(a) == \E c \in a.confidence, t \in b.threshold : c >= t
      IN  IF stage = "decided"
            THEN /\ local.kind = "select" /\ o.label \in DOMAIN local.branches
                 /\ \E a \in answered :
                      /\ a.choice \in DOMAIN local.branches
                      /\ o.label = IF sure(a) THEN a.choice ELSE b.escalate
            ELSE \/ o.failure = "jev.unavailable" /\ answered = {}
                 \/ o.failure = "jev.invalid_answer"

\* Every branch of the bound state can come out of some answer, so that binding a
\* choice cuts nothing off a conversation validate has found within reach.  The
\* one way around CLQJ009 is an escalation branch that has no criterion and a
\* threshold of zero, which no confidence is below.
EveryBranchDecidable ==
  stage \notin {"bind", "refused"} =>
    \A b \in binding :
      \A branch \in DOMAIN ConversationOf(doc).states[b.state].branches :
        \/ \E a \in [choice : b.criteria, confidence : {{0}, {Unit}}] :
             Decide(b, a) = {branch}
        \/ branch = b.escalate /\ b.threshold = {0} /\ branch \notin b.criteria

\* jev-decide always comes to an end, through the search of validate on a graph
\* with cycles and through a service that stays busy.
CommandEnds == <>(stage \in {"refused", "decided", "failed"})

=============================================================================
