----------------------------- MODULE HttpStream -----------------------------
(***************************************************************************)
(* Token validation over the host's HTTP stream: FetchIdentity of          *)
(* internal/pat and HTTPDoLimited of internal/hostrpc.                     *)
(*                                                                         *)
(* A fetch opens a stream, reads chunks up to a byte limit and closes the  *)
(* stream, each with a host callback of its own, under a context that      *)
(* expires after ValidationTimeout.  Opening and reading look at that      *)
(* context first; both closes run without it.  A callback already under    *)
(* way cannot be interrupted.                                              *)
(*                                                                         *)
(* The host (external) may fail any callback, before or after doing what   *)
(* it was asked, may omit the identifier, and may send empty chunks for as *)
(* long as it likes.  It gives no identifier out again that a fetch still  *)
(* holds.  A body is its length; the text upstream sends is the document.  *)
(***************************************************************************)
EXTENDS Whoami

CONSTANTS
  Fetches,   \* validations; each may be repeated for ever
  Streams,   \* the host's stream identifiers, as many as it can have open
  Free, Orphan, Stuck, NoStream,
  Requests,  \* what a validation may start from: token, base URL and limit
  Statuses,  \* the statuses upstream answers with
  Bodies,    \* the documents it answers with
  MaxChunk   \* bound: the longest chunk the host hands over

ASSUME HttpStreamConstants ==
  /\ NoStream \notin Streams
  /\ {Free, Orphan, Stuck} \cap Fetches = {}
  /\ Free # Orphan /\ Free # Stuck /\ Orphan # Stuck
  /\ Requests \subseteq [token: TokenTexts, url: BaseURLs, limit: Nat]
  /\ Statuses \subseteq Nat
  /\ Bodies \subseteq Documents /\ Bodies # {}
  /\ MaxChunk \in Nat

VARIABLES
  table,    \* the host's streams: Free, or the fetch one was handed to, or
            \* Orphan (opened, but the answer was lost), or Stuck (a close was
            \* asked for and the host failed to carry it out)
  pc,       \* where each fetch is
  expired,  \* validationCtx is done
  limit,    \* maxBodyBytes
  id,       \* streamID, once it is known
  status,   \* response.StatusCode
  body,     \* len(body)
  err,      \* the error to be returned
  kind,     \* FetchIdentity's result
  sent,     \* history: what upstream sent, and the document it was sending
  beat      \* history: changes with every chunk of a body that goes on, so that
            \* reading an empty one is a step

vars == <<table, pc, expired, limit, id, status, body, err, kind, sent, beat>>

Pcs == {"idle", "open", "read", "close", "deferred", "done"}

Holding(f) == pc[f] \in {"read", "close", "deferred"}
InFlight(f) == pc[f] \notin {"idle", "done"}

SomeBody == CHOOSE d \in Bodies : TRUE
Unsent == [status |-> 0, size |-> 0, whole |-> FALSE, document |-> SomeBody]

Init ==
  /\ table = [s \in Streams |-> Free]
  /\ pc = [f \in Fetches |-> "idle"]
  /\ expired = [f \in Fetches |-> FALSE]
  /\ limit = [f \in Fetches |-> 0]
  /\ id = [f \in Fetches |-> NoStream]
  /\ status = [f \in Fetches |-> 0]
  /\ body = [f \in Fetches |-> 0]
  /\ err = [f \in Fetches |-> "none"]
  /\ kind = [f \in Fetches |-> "none"]
  /\ sent = [f \in Fetches |-> Unsent]
  /\ beat = [f \in Fetches |-> FALSE]

-----------------------------------------------------------------------------
(* The end of a fetch.                                                     *)

\* Mutant: the bytes read so far are returned beside the error.
ReturnPartial(f, e) ==
  /\ pc' = [pc EXCEPT ![f] = "done"]
  /\ err' = [err EXCEPT ![f] = e]
  /\ kind' = [kind EXCEPT ![f] =
       FetchIdentity([status |-> status[f], err |-> e,
                      decodes |-> decodeIdentity(sent[f].document, body[f], limit[f])])]
  /\ UNCHANGED body

\* HTTPDoLimited returns status, e and, without an error, the body; FetchIdentity
\* classifies them.
Return(f, e) ==
  /\ pc' = [pc EXCEPT ![f] = "done"]
  /\ err' = [err EXCEPT ![f] = e]
  /\ body' = [body EXCEPT ![f] = IF e = "none" THEN @ ELSE 0]
  /\ kind' = [kind EXCEPT ![f] =
       FetchIdentity([status |-> status[f], err |-> e,
                      decodes |-> decodeIdentity(sent[f].document, body[f], limit[f])])]

\* An error inside the loop: the deferred close is still to come.
Abandon(f, e) ==
  /\ pc' = [pc EXCEPT ![f] = "deferred"]
  /\ err' = [err EXCEPT ![f] = e]

\* Mutant: invoke ignores its context.
CtxIgnored(f) == FALSE

CtxDone(f) == expired[f]

\* Mutant: the stream is closed under the fetch's own context.
CloseInContext(f) == ~expired[f]

\* closeHTTPStream is called with context.Background(): it always reaches the host.
CloseReachesHost(f) == TRUE

-----------------------------------------------------------------------------
(* The steps of a fetch.                                                   *)

\* Service.Validate, and the checks of FetchIdentity that come before the request.
Call(f) ==
  /\ ~InFlight(f)
  /\ \E r \in Requests :
       IF NormalizeToken(r.token) /\ ResolveWhoamiURL(r.url)
       THEN /\ pc' = [pc EXCEPT ![f] = "open"]
            /\ expired' = [expired EXCEPT ![f] = FALSE]
            /\ limit' = [limit EXCEPT ![f] = r.limit]
            /\ id' = [id EXCEPT ![f] = NoStream]
            /\ status' = [status EXCEPT ![f] = 0]
            /\ body' = [body EXCEPT ![f] = 0]
            /\ err' = [err EXCEPT ![f] = "none"]
            /\ kind' = [kind EXCEPT ![f] = "none"]
            /\ sent' = [sent EXCEPT ![f] = Unsent]
       ELSE /\ kind' = [kind EXCEPT ![f] = "invalid_input"]
            /\ UNCHANGED <<pc, expired, limit, id, status, body, err, sent>>
  /\ UNCHANGED <<table, beat>>

\* The host opens a stream under an identifier that its table does not have and no
\* fetch still holds: it may hand an identifier out again, but, it is assumed, only
\* to a plugin that has done with it.
Opens(s, as) ==
  /\ table[s] = Free /\ \A g \in Fetches : Holding(g) => id[g] # s
  /\ table' = [table EXCEPT ![s] = as]

\* No limit, an expired context, a failed callback, or no identifier: the response
\* is empty, its status included.
OpenFails(f) ==
  /\ pc[f] = "open"
  /\ Return(f, "transport")
  /\ \/ UNCHANGED table
     \/ /\ limit[f] > 0 /\ ~CtxDone(f)
        /\ \E s \in Streams : Opens(s, Orphan)
  /\ UNCHANGED <<expired, limit, id, status, sent, beat>>

Open(f) ==
  /\ pc[f] = "open" /\ limit[f] > 0 /\ ~CtxDone(f)
  /\ \E s \in Streams, code \in Statuses, d \in Bodies :
       /\ Opens(s, f)
       /\ id' = [id EXCEPT ![f] = s]
       /\ status' = [status EXCEPT ![f] = code]
       /\ sent' = [sent EXCEPT ![f].status = code, ![f].document = d]
  /\ pc' = [pc EXCEPT ![f] = "read"]
  /\ UNCHANGED <<expired, limit, body, err, kind, beat>>

\* An expired context, a failed callback, or an error the host reports in the chunk.
ReadFails(f) ==
  /\ pc[f] = "read"
  /\ Abandon(f, "transport")
  /\ beat' = [beat EXCEPT ![f] = FALSE]
  /\ UNCHANGED <<table, expired, limit, id, status, body, kind, sent>>

\* Mutant: each chunk is held against the whole limit.
OverflowsAlone(f, n) == n > limit[f]

Overflows(f, n) == n > limit[f] - body[f]

Read(f) ==
  /\ pc[f] = "read" /\ ~CtxDone(f)
  /\ \E n \in 0..MaxChunk, done \in BOOLEAN :
       /\ sent' = [sent EXCEPT ![f].size = @ + n, ![f].whole = done]
       /\ IF Overflows(f, n)
          THEN Abandon(f, "too_large") /\ UNCHANGED body
          ELSE /\ body' = [body EXCEPT ![f] = @ + n]
               /\ pc' = [pc EXCEPT ![f] = IF done THEN "close" ELSE "read"]
               /\ UNCHANGED err
  /\ beat' = [beat EXCEPT ![f] = pc'[f] = "read" /\ ~@]
  /\ UNCHANGED <<table, expired, limit, id, status, kind>>

\* The host closes the stream, or its answer says it did not: then it may have
\* closed it all the same.
HostCloses(f, answered) ==
  \/ /\ CloseReachesHost(f)
     /\ table' = [table EXCEPT ![id[f]] = Free]
  \/ /\ CloseReachesHost(f) /\ ~answered
     /\ table' = [table EXCEPT ![id[f]] = IF @ = Free THEN Free ELSE Stuck]
  \/ /\ ~CloseReachesHost(f) /\ ~answered
     /\ UNCHANGED table

Close(f) ==
  /\ pc[f] = "close"
  /\ \/ HostCloses(f, TRUE) /\ Return(f, "none")
     \/ HostCloses(f, FALSE) /\ Abandon(f, "transport") /\ UNCHANGED <<body, kind>>
  /\ UNCHANGED <<expired, limit, id, status, sent, beat>>

\* The deferred function's close, whose own error is dropped.
DeferredClose(f) ==
  /\ pc[f] = "deferred"
  /\ HostCloses(f, TRUE) \/ HostCloses(f, FALSE)
  /\ Return(f, err[f])
  /\ UNCHANGED <<expired, limit, id, status, sent, beat>>

\* ValidationTimeout passes.
Expire(f) ==
  /\ InFlight(f) /\ ~expired[f]
  /\ expired' = [expired EXCEPT ![f] = TRUE]
  /\ UNCHANGED <<table, pc, limit, id, status, body, err, kind, sent, beat>>

Step(f) ==
  \/ OpenFails(f) \/ Open(f) \/ ReadFails(f) \/ Read(f) \/ Close(f) \/ DeferredClose(f)

Next == \E f \in Fetches : Call(f) \/ Step(f) \/ Expire(f)

Spec == Init /\ [][Next]_vars

\* The goroutine runs, host callbacks return, and time passes.
Fairness == \A f \in Fetches : WF_vars(Step(f)) /\ WF_vars(Expire(f))

FairSpec == Spec /\ Fairness

-----------------------------------------------------------------------------
(* Properties.                                                             *)

\* The type invariant; a body never grows past its limit.
TypeOK ==
  /\ table \in [Streams -> Fetches \cup {Free, Orphan, Stuck}]
  /\ pc \in [Fetches -> Pcs]
  /\ expired \in [Fetches -> BOOLEAN]
  /\ limit \in [Fetches -> Nat]
  /\ id \in [Fetches -> Streams \cup {NoStream}]
  /\ status \in [Fetches -> Nat]
  /\ body \in [Fetches -> Nat] /\ \A f \in Fetches : body[f] <= limit[f]
  /\ err \in [Fetches -> Errors]
  /\ kind \in [Fetches -> FailureKinds \cup {"none", "valid", "invalid_input"}]
  /\ sent \in [Fetches -> [status: Nat, size: Nat, whole: BOOLEAN, document: Bodies]]
  /\ beat \in [Fetches -> BOOLEAN]

\* A stream whose identifier the plugin has learned is being read or closed by
\* exactly the fetch it was handed to, or a close of it has reached the host: on
\* success, an error, cancellation and overflow, however often validations are
\* repeated and however late their context expires.
StreamsAccountedFor ==
  \A s \in Streams, f \in Fetches : table[s] = f => Holding(f) /\ id[f] = s

\* FetchIdentity's verdict rests on what upstream really sent: a token counts as
\* rejected only after a 401 or 403, as valid only after a whole answer within
\* the limit that names an identity, and metadata as malformed only if it is
\* oversized or complete and unreadable.  A timeout, a lost chunk or a failed
\* close proves nothing about the token.
EvidenceIsReal ==
  \A f \in Fetches :
    LET s == sent[f]
        names == decodeIdentity(s.document, s.size, limit[f]) IN
    /\ kind[f] = "authentication_failed" => s.status \in {401, 403}
    /\ kind[f] = "valid" => IsSuccess(s.status) /\ s.whole /\ names
    /\ kind[f] = "malformed_response" =>
         /\ IsSuccess(s.status) \/ s.status = 0
         /\ s.size > limit[f] \/ (s.whole /\ ~names)

\* Every validation ends, also against a host that sends empty chunks for ever:
\* they never reach the byte limit, only the context stops them.
FetchReturns == \A f \in Fetches : pc[f] = "open" ~> pc[f] = "done"

-----------------------------------------------------------------------------
(* Refinement.                                                             *)

Phase ==
  [f \in Fetches |-> IF pc[f] = "idle" THEN "idle" ELSE IF pc[f] = "done" THEN "returned" ELSE "running"]
Holds == [f \in Fetches |-> \E s \in Streams : table[s] = f]
Sent ==
  [f \in Fetches |-> [status |-> sent[f].status, size |-> sent[f].size, whole |-> sent[f].whole]]
Answered ==
  [f \in Fetches |-> IF pc[f] = "done"
                     THEN [status |-> status[f], err |-> err[f], size |-> body[f]]
                     ELSE [status |-> 0, err |-> "none", size |-> 0]]

Contract ==
  INSTANCE BoundedFetch WITH
    Limits <- {r.limit : r \in Requests}, Chunks <- 0..MaxChunk,
    phase <- Phase, holds <- Holds, sent <- Sent, answer <- Answered

\* HTTPDoLimited implements BoundedFetch: one truthful answer per call, within
\* the limit, and no stream kept.
FetchIsBounded == Contract!Spec
=============================================================================
