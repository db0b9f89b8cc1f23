--------------------------- MODULE CloseHandshake ---------------------------
(***************************************************************************)
(* The end of a successful session over QUIC and over Iroh: the last frame *)
(* of the conversation, then finish on both sides, then the connection.    *)
(*                                                                         *)
(* Writing only queues bytes on a stream; the endpoint driver puts them on *)
(* the wire while the endpoint lives, and an endpoint that is dropped or   *)
(* closed takes its queue with it.  Closing is noticed by the other side   *)
(* at some later point, with its code or as a lost connection.  What has   *)
(* arrived stays readable (quinn reads buffered data first).               *)
(***************************************************************************)
EXTENDS Naturals, Sequences

Role == {"client", "server"}

\* kind: the transport; last: the role that sends the conversation's last
\* frame; prompt: no call times out and the network holds.
Link == [kind : {"quic", "iroh"}, last : Role, prompt : BOOLEAN]

VARIABLES
  link,      \* which of these sessions this is
  cut,       \* whether the network has dropped the connection
  complete,  \* whether a role's machine has reached its end state
  step,      \* how many steps of finish a role has done
  queued,    \* what a role has written that is not on the wire
  arrived,   \* what has arrived from a role and is not read
  closed,    \* "no", or how a role closed its side: "done", "failure", "dropped"
  notice,    \* what a role knows of its peer's closing: "no", a code, "lost"
  result     \* what the driver's call returned

vars == <<link, cut, complete, step, queued, arrived, closed, notice, result>>

Peer(r) == CHOOSE p \in Role : p # r

\* Mutated form: the QUIC client closes without the server's marker.
FinishHasty(r) ==
  CASE link.kind = "quic" /\ r = "client" -> <<"write", "close">>
    [] link.kind = "quic" /\ r = "server" -> <<"read", "write", "drain">>
    [] link.kind = "iroh" /\ r = "client" -> <<"write", "read", "write", "await_closed">>
    [] link.kind = "iroh" /\ r = "server" -> <<"read", "write", "read", "close">>

\* finish, as the sequence of its waits and writes.
Finish(r) ==
  CASE link.kind = "quic" /\ r = "client" -> <<"write", "read", "close">>
    [] link.kind = "quic" /\ r = "server" -> <<"read", "write", "drain">>
    [] link.kind = "iroh" /\ r = "client" -> <<"write", "read", "write", "await_closed">>
    [] link.kind = "iroh" /\ r = "server" -> <<"read", "write", "read", "close">>

CloseInit ==
  /\ link \in Link
  /\ cut = FALSE
  /\ complete = [r \in Role |-> FALSE]
  /\ step = [r \in Role |-> 0]
  /\ queued = [r \in Role |-> <<>>]
  /\ arrived = [r \in Role |-> <<>>]
  /\ closed = [r \in Role |-> "no"]
  /\ notice = [r \in Role |-> "no"]
  /\ result = [r \in Role |-> "running"]

Running(r) == result[r] = "running"

-----------------------------------------------------------------------------
(***************************************************************************)
(* The last frame.  A role that fails before its machine is complete       *)
(* aborts: close with code one.                                            *)
(***************************************************************************)
SendLast(r) ==
  /\ Running(r) /\ r = link.last /\ ~complete[r] /\ notice[r] = "no"
  /\ queued' = [queued EXCEPT ![r] = Append(@, "frame")]
  /\ complete' = [complete EXCEPT ![r] = TRUE]
  /\ UNCHANGED <<link, cut, step, arrived, closed, notice, result>>

ReceiveLast(r) ==
  /\ Running(r) /\ r # link.last /\ ~complete[r]
  /\ arrived[Peer(r)] # <<>> /\ Head(arrived[Peer(r)]) = "frame"
  /\ arrived' = [arrived EXCEPT ![Peer(r)] = Tail(@)]
  /\ complete' = [complete EXCEPT ![r] = TRUE]
  /\ UNCHANGED <<link, cut, step, queued, closed, notice, result>>

\* Let go of the connection, the queue with it.
Leave(r, how, outcome) ==
  /\ closed' = [closed EXCEPT ![r] = how]
  /\ queued' = [queued EXCEPT ![r] = <<>>]
  /\ result' = [result EXCEPT ![r] = outcome]

Abort(r) ==
  /\ Running(r) /\ ~complete[r]
  /\ ~link.prompt \/ (notice[r] # "no" /\ arrived[Peer(r)] = <<>>)
  /\ Leave(r, "failure", "failed")
  /\ UNCHANGED <<link, cut, complete, step, arrived, notice>>

-----------------------------------------------------------------------------
(***************************************************************************)
(* finish.                                                                 *)
(***************************************************************************)
Doing(r, what) ==
  Running(r) /\ complete[r] /\ Finish(r)[step[r] + 1] = what

Advance(r) == step' = [step EXCEPT ![r] = @ + 1]

\* The error goes up to the caller, which drops the transport.
FinishFails(r) ==
  /\ Leave(r, "dropped", "error")
  /\ UNCHANGED <<link, cut, complete, step, arrived, notice>>

WriteMarker(r) ==
  /\ Doing(r, "write")
  /\ \/ /\ notice[r] = "no"
        /\ queued' = [queued EXCEPT ![r] = Append(@, "marker")]
        /\ Advance(r)
        /\ UNCHANGED <<link, cut, complete, arrived, closed, notice, result>>
     \/ notice[r] # "no" /\ FinishFails(r)

ReadMarker(r) ==
  /\ Doing(r, "read")
  /\ arrived[Peer(r)] # <<>>
  /\ \/ /\ Head(arrived[Peer(r)]) = "marker"
        /\ arrived' = [arrived EXCEPT ![Peer(r)] = Tail(@)]
        /\ Advance(r)
        /\ UNCHANGED <<link, cut, complete, queued, closed, notice, result>>
     \/ Head(arrived[Peer(r)]) # "marker" /\ FinishFails(r)

\* Mutated form: only a failure the peer reports ends the wait.
ReadMarkerFailsOnCode(r) ==
  /\ Doing(r, "read")
  /\ arrived[Peer(r)] = <<>> /\ notice[r] = "failure"
  /\ FinishFails(r)

\* await_close_marker gives up after its timeout (QUIC), and reading fails on a
\* connection that is gone.
ReadMarkerFails(r) ==
  /\ Doing(r, "read")
  /\ \/ arrived[Peer(r)] = <<>> /\ notice[r] # "no"
     \/ link.kind = "quic" /\ ~link.prompt
  /\ FinishFails(r)

\* The last step of the side that ends the connection.
CloseConnection(r) ==
  /\ Doing(r, "close")
  /\ Advance(r)
  /\ Leave(r, "done", "ok")
  /\ UNCHANGED <<link, cut, complete, arrived, notice>>

\* Mutated form: the server does not wait for its marker to leave.
DrainNot(r) ==
  /\ Doing(r, "drain")
  /\ Advance(r)
  /\ Leave(r, "dropped", "ok")
  /\ UNCHANGED <<link, cut, complete, arrived, notice>>

\* The server's wait for the acknowledgement of its marker: over when it is
\* delivered, when the connection is, or after CLOSE_DRAIN_TIMEOUT; no error
\* comes of it.
Drain(r) ==
  /\ Doing(r, "drain")
  /\ queued[r] = <<>> \/ notice[r] # "no" \/ ~link.prompt
  /\ Advance(r)
  /\ Leave(r, "dropped", "ok")
  /\ UNCHANGED <<link, cut, complete, arrived, notice>>

\* Mutated form: any end of the connection will do.
AwaitClosedAnyhow(r) ==
  /\ Doing(r, "await_closed")
  /\ notice[r] # "no"
  /\ Advance(r) /\ Leave(r, "done", "ok")
  /\ UNCHANGED <<link, cut, complete, arrived, notice>>

\* The Iroh client wants to see the server close with code zero.
AwaitClosed(r) ==
  /\ Doing(r, "await_closed")
  /\ notice[r] # "no"
  /\ \/ notice[r] = "done" /\ Advance(r) /\ Leave(r, "done", "ok")
        /\ UNCHANGED <<link, cut, complete, arrived, notice>>
     \/ notice[r] # "done" /\ FinishFails(r)

-----------------------------------------------------------------------------
(***************************************************************************)
(* The endpoint drivers and the network.                                   *)
(***************************************************************************)
Deliver(r) ==
  /\ queued[r] # <<>> /\ ~cut /\ closed[r] = "no" /\ closed[Peer(r)] = "no"
  /\ queued' = [queued EXCEPT ![r] = Tail(@)]
  /\ arrived' = [arrived EXCEPT ![r] = Append(@, Head(queued[r]))]
  /\ UNCHANGED <<link, cut, complete, step, closed, notice, result>>

Cut ==
  /\ ~link.prompt /\ ~cut
  /\ cut' = TRUE
  /\ UNCHANGED <<link, complete, step, queued, arrived, closed, notice, result>>

\* Dropping the last handle closes with code zero if the driver still gets to
\* send it; otherwise, and across a cut, the idle timeout tells.
Codes(how) ==
  IF cut THEN {"lost"} ELSE IF how = "dropped" THEN {"done", "lost"} ELSE {how}

Notice(r) ==
  /\ notice[r] = "no"
  /\ cut \/ closed[Peer(r)] # "no"
  /\ \E code \in Codes(closed[Peer(r)]) : notice' = [notice EXCEPT ![r] = code]
  /\ UNCHANGED <<link, cut, complete, step, queued, arrived, closed, result>>

CloseNext ==
  \/ Cut
  \/ \E r \in Role :
    \/ SendLast(r) \/ ReceiveLast(r) \/ Abort(r)
    \/ WriteMarker(r) \/ ReadMarker(r) \/ ReadMarkerFails(r)
    \/ CloseConnection(r) \/ Drain(r) \/ AwaitClosed(r)
    \/ Deliver(r) \/ Notice(r)

CloseSpec == CloseInit /\ [][CloseNext]_vars

\* Workers and drivers are scheduled, data written on a live connection
\* arrives, and closing is noticed at the latest by the idle timeout.  Nothing
\* is assumed of Abort and the timeouts except that a role whose peer is gone
\* does not wait for it.
CloseFairSpec ==
  /\ CloseSpec
  /\ \A r \in Role :
       /\ WF_vars(SendLast(r) \/ ReceiveLast(r) \/ WriteMarker(r) \/ ReadMarker(r)
                    \/ CloseConnection(r) \/ Drain(r) \/ AwaitClosed(r))
       /\ WF_vars(Deliver(r))
       /\ WF_vars(Notice(r))
       /\ WF_vars(notice[r] # "no" /\ (Abort(r) \/ ReadMarkerFails(r)))

-----------------------------------------------------------------------------
(***************************************************************************)
(* Properties.                                                             *)
(***************************************************************************)
\* A role whose finish returns Ok knows that its peer completed the
\* conversation: no report of success is made while the last frame may still be
\* lost.
OkMeansPeerComplete == \A r \in Role : result[r] = "ok" => complete[Peer(r)]

\* When the client's finish returns Ok, the server's has returned Ok or will:
\* reading the server's last sign of life means it has nothing left to wait for.
ClientOkMeansServerOk ==
  result["client"] = "ok" =>
    \/ result["server"] = "ok"
    \/ result["server"] = "running" /\ step["server"] + 1 = Len(Finish("server"))

\* On a prompt network both sides finish with success.
BothFinish == link.prompt ~> \A r \in Role : result[r] = "ok"

\* Whatever times out or fails, no call hangs.
NobodyHangs == <>(\A r \in Role : result[r] # "running")

=============================================================================
