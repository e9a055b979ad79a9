------------------------------ MODULE AsyncCall ------------------------------
(***************************************************************************)
(* What an asynchronous caller/worker bridge promises, without its threads *)
(* and without its intermediate queues: two first-in first-out channels    *)
(* and one outcome per call.  PureNetThread implements it; the two         *)
(* database connectors are written to the same pattern.                    *)
(***************************************************************************)
EXTENDS Integers, SequencesExt

CONSTANT ReqIDs          \* identifiers of the calls

VARIABLES
  outcome,               \* what became of each call
  reqs,                  \* requests the worker has not handled, oldest first
  resps                  \* responses the caller has not handled, oldest first

vars == <<outcome, reqs, resps>>

Waiting == {id \in ReqIDs : outcome[id] = "waiting"}

Init ==
  /\ outcome = [id \in ReqIDs |-> "unused"]
  /\ reqs = <<>>
  /\ resps = <<>>

\* The caller registers a call and sends its request.
Call(id) ==
  /\ outcome[id] = "unused"
  /\ outcome' = [outcome EXCEPT ![id] = "waiting"]
  /\ Len(reqs') = Len(reqs) + 1 /\ IsPrefix(reqs, reqs') /\ Last(reqs').id = id
  /\ UNCHANGED resps

\* The caller sends a request nobody waits for.
Cast ==
  /\ Len(reqs') = Len(reqs) + 1 /\ IsPrefix(reqs, reqs') /\ Last(reqs').id = 0
  /\ UNCHANGED <<outcome, resps>>

\* The worker handles the oldest request, and may respond at once.
Handle ==
  /\ reqs # <<>> /\ reqs' = Tail(reqs)
  /\ IsPrefix(resps, resps')
  /\ UNCHANGED outcome

\* The worker sends responses.
Respond ==
  /\ IsPrefix(resps, resps') /\ resps' # resps
  /\ UNCHANGED <<outcome, reqs>>

\* The caller takes the oldest response: it ends its call if that call waits.
Take ==
  /\ resps # <<>> /\ resps' = Tail(resps)
  /\ outcome' = IF Head(resps).id \in Waiting
                  THEN [outcome EXCEPT ![Head(resps).id] = "answered"]
                  ELSE outcome
  /\ UNCHANGED reqs

\* Some calls time out.
Expire ==
  /\ \E S \in (SUBSET Waiting) \ {{}} :
       outcome' = [id \in ReqIDs |-> IF id \in S THEN "timeout" ELSE outcome[id]]
  /\ UNCHANGED <<reqs, resps>>

\* The bridge is shut down: every waiting call is dropped, every request and
\* every response is discarded but those the caller has already taken.
Shutdown ==
  /\ outcome' = [id \in ReqIDs |-> IF id \in Waiting THEN "dropped" ELSE outcome[id]]
  /\ reqs' = <<>>
  /\ IsPrefix(resps', resps)

Next ==
  \/ \E id \in ReqIDs : Call(id)
  \/ Cast \/ Handle \/ Respond \/ Take \/ Expire \/ Shutdown

Spec == Init /\ [][Next]_vars
=============================================================================
