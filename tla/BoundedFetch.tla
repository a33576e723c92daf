---------------------------- MODULE BoundedFetch ----------------------------
(***************************************************************************)
(* What FetchIdentity expects of HTTPDoLimited: one answer per call, true  *)
(* to what upstream sent, never longer than the limit, and nothing of the  *)
(* host's left behind.  How the answer is fetched is HttpStream's concern. *)
(***************************************************************************)
EXTENDS Naturals

CONSTANTS Fetches, Statuses, Limits, Chunks

VARIABLES
  phase,   \* each call's progress: idle, running, returned
  limit,   \* maxBodyBytes
  holds,   \* the call owes the host the release of a stream
  sent,    \* what upstream has sent: a status, a number of bytes, the end
  answer   \* what the call returned

vars == <<phase, limit, holds, sent, answer>>

Nothing == [status |-> 0, size |-> 0, whole |-> FALSE]
NoAnswer == [status |-> 0, err |-> "none", size |-> 0]

Init ==
  /\ phase = [f \in Fetches |-> "idle"]
  /\ limit = [f \in Fetches |-> 0]
  /\ holds = [f \in Fetches |-> FALSE]
  /\ sent = [f \in Fetches |-> Nothing]
  /\ answer = [f \in Fetches |-> NoAnswer]

Start(f) ==
  /\ phase[f] # "running"
  /\ phase' = [phase EXCEPT ![f] = "running"]
  /\ \E max \in Limits : limit' = [limit EXCEPT ![f] = max]
  /\ sent' = [sent EXCEPT ![f] = Nothing]
  /\ answer' = [answer EXCEPT ![f] = NoAnswer]
  /\ UNCHANGED holds

\* Upstream answers with a status: from now on there is a stream to release.
Acquire(f) ==
  /\ phase[f] = "running" /\ ~holds[f]
  /\ \E status \in Statuses : sent' = [sent EXCEPT ![f].status = status]
  /\ holds' = [holds EXCEPT ![f] = TRUE]
  /\ UNCHANGED <<phase, limit, answer>>

Receive(f) ==
  /\ phase[f] = "running" /\ holds[f] /\ ~sent[f].whole
  /\ \E n \in Chunks, whole \in BOOLEAN :
       sent' = [sent EXCEPT ![f].size = @ + n, ![f].whole = whole]
  /\ UNCHANGED <<phase, limit, holds, answer>>

Release(f) ==
  /\ phase[f] = "running" /\ holds[f]
  /\ holds' = [holds EXCEPT ![f] = FALSE]
  /\ UNCHANGED <<phase, limit, sent, answer>>

\* A body is returned whole and within the limit or not at all; "too_large" is
\* said only of a response that is; a status is upstream's or, with an error, none.
Truthful(a, s, max) ==
  /\ a.err = "none" => s.whole /\ a.size = s.size /\ a.size <= max /\ a.status = s.status
  /\ a.err = "too_large" => s.size > max
  /\ a.err # "none" => a.size = 0

\* The call returns, and has released what it held.
Finish(f) ==
  /\ phase[f] = "running"
  /\ \E a \in [status: {0, sent[f].status}, err: {"none", "too_large", "transport"},
               size: {0, sent[f].size}] :
       /\ Truthful(a, sent[f], limit[f])
       /\ answer' = [answer EXCEPT ![f] = a]
  /\ phase' = [phase EXCEPT ![f] = "returned"]
  /\ holds' = [holds EXCEPT ![f] = FALSE]
  /\ UNCHANGED <<limit, sent>>

Next ==
  \E f \in Fetches : Start(f) \/ Acquire(f) \/ Receive(f) \/ Release(f) \/ Finish(f)

Spec == Init /\ [][Next]_vars
=============================================================================
