------------------------------ MODULE MCStatus ------------------------------
(* Instances of Status for TLC: one account, one file. *)
EXTENDS Status

CONSTANTS a1, u1, m1, t2

OneSegment == [m \in Metas |-> "s"]
TheName == FileName(a1, u1, m1)
OneName == {TheName}

StoredOnly == {[n \in OneName |-> Stored(a1, u1, m1, t2, FALSE)]}
RevalidateOnly == {[kind |-> "revalidate", token |-> NoToken, name |-> TheName]}

\* Once it has answered, a status request's rows stay what they are.
StatusRuns == at \notin {"done", "failed"}
=============================================================================
