---------------------------- MODULE FaultReplay ----------------------------
(***************************************************************************)
(* One command line run twice.  The second run starts afresh (new machines,*)
(* a new memory pair, a new flag) when both workers of the first have      *)
(* joined, and the reports of the first are kept to compare.               *)
(***************************************************************************)
EXTENDS Generate

VARIABLE earlier   \* the reports of the first run, once there are any

replayVars == <<allVars, earlier>>

Reports == [r \in Role |-> ReportOf(r)]

ReplayInit == GenInit /\ earlier = {}

RunAgain ==
  /\ Finished /\ earlier = {}
  /\ earlier' = {Reports}
  /\ config' = config
  /\ machine' = [r \in Role |-> [current |-> Conv.initial, sequence |-> 0]]
  /\ pending' = [r \in Role |-> {}]
  /\ wire' = [r \in Role |-> <<>>]
  /\ trace' = [r \in Role |-> <<>>]
  /\ open' = [r \in Role |-> TRUE]
  /\ status' = [r \in Role |-> "running"]
  /\ at' = [r \in Role |-> "prompt"]
  /\ tokens' = [r \in Role |-> 0]
  /\ calls' = [r \in Role |-> [send |-> 0, receive |-> 0]]
  /\ fired' = FALSE
  /\ injecting' = [r \in Role |-> FALSE]

ReplayNext == RunAgain \/ (GenNext /\ UNCHANGED earlier)

ReplaySpec == ReplayInit /\ [][ReplayNext]_replayVars

\* Two threads of one process, both scheduled: each goes on as long as it can.
ReplayFairSpec == ReplaySpec /\ WF_replayVars(GenNext /\ UNCHANGED earlier)

-----------------------------------------------------------------------------
\* A fault plan makes the failure reproducible: run again, each endpoint ends
\* in the same state.  docs/runtime.md promises it of both operations.
SameOutcomeAgain ==
  Finished =>
    \A before \in earlier : \A r \in Role :
      before[r].final_state = machine[r].current

\* Run again, both reports are the same in every field when no receive is chosen
\* to fail: the position of both endpoints when a send fails is fixed by the
\* command line alone.
SameReportsAgain ==
  (Finished /\ \A plan \in config.fault : plan.operation = "send") =>
    \A before \in earlier : before = Reports

=============================================================================
