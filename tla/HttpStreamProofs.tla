-------------------------- MODULE HttpStreamProofs --------------------------
(***************************************************************************)
(* Proofs about HttpStream, for any number of validations at once, any     *)
(* limits and chunks: its invariants, and that it implements BoundedFetch. *)
(***************************************************************************)
EXTENDS HttpStream, TLAPS

\* A fetch starts well typed.
LEMMA TypesInit == Init => TypeOK
BY HttpStreamConstants DEF Init, TypeOK, Pcs, Errors, Unsent, SomeBody, InFlight

\* The kinds FetchIdentity answers with.
LEMMA KindsOfFetch ==
  ASSUME NEW code \in Nat, NEW e \in Errors, NEW decodes \in BOOLEAN
  PROVE  FetchIdentity([status |-> code, err |-> e, decodes |-> decodes])
           \in FailureKinds \cup {"valid"}
BY DEF FetchIdentity, classifyStatus, FailureKinds, IsSuccess, Errors

\* Return ends a fetch with an answer of the right type.
LEMMA TypesReturn ==
  ASSUME TypeOK, NEW f \in Fetches, NEW e \in Errors, Return(f, e)
  PROVE  /\ pc' \in [Fetches -> Pcs]
         /\ err' \in [Fetches -> Errors]
         /\ body' \in [Fetches -> Nat] /\ \A g \in Fetches : body'[g] <= limit[g]
         /\ kind' \in [Fetches -> FailureKinds \cup {"none", "valid", "invalid_input"}]
<1>1. decodeIdentity(sent[f].document, body[f], limit[f]) \in BOOLEAN
  BY DEF decodeIdentity
<1>2. status[f] \in Nat
  BY DEF TypeOK
<1>3. FetchIdentity([status |-> status[f], err |-> e,
                     decodes |-> decodeIdentity(sent[f].document, body[f], limit[f])])
        \in FailureKinds \cup {"valid"}
  BY <1>1, <1>2, KindsOfFetch
<1>4. kind' \in [Fetches -> FailureKinds \cup {"none", "valid", "invalid_input"}]
  BY <1>3 DEF Return, TypeOK
<1>5. pc' \in [Fetches -> Pcs] /\ err' \in [Fetches -> Errors]
  BY DEF Return, TypeOK, Pcs
<1>6. body' \in [Fetches -> Nat] /\ \A g \in Fetches : body'[g] <= limit[g]
  BY DEF Return, TypeOK
<1> QED BY <1>4, <1>5, <1>6

\* What the host does to a stream keeps the table's type.
LEMMA TypesCloses ==
  ASSUME TypeOK, NEW f \in Fetches, NEW answered \in BOOLEAN, HostCloses(f, answered)
  PROVE  table' \in [Streams -> Fetches \cup {Free, Orphan, Stuck}]
BY DEF HostCloses, TypeOK

\* The record of what upstream sent, after another n bytes.
LEMMA SentMore ==
  ASSUME TypeOK, NEW f \in Fetches, NEW n \in Nat, NEW done \in BOOLEAN,
         sent' = [sent EXCEPT ![f].size = @ + n, ![f].whole = done]
  PROVE  /\ sent' \in [Fetches -> [status: Nat, size: Nat, whole: BOOLEAN, document: Bodies]]
         /\ sent'[f] = [status |-> sent[f].status, size |-> sent[f].size + n,
                        whole |-> done, document |-> sent[f].document]
         /\ \A g \in Fetches \ {f} : sent'[g] = sent[g]
<1>1. sent'[f] = [status |-> sent[f].status, size |-> sent[f].size + n,
                  whole |-> done, document |-> sent[f].document]
  BY DEF TypeOK
<1>2. \A g \in Fetches \ {f} : sent'[g] = sent[g]
  BY DEF TypeOK
<1>3. sent' = [sent EXCEPT ![f] = sent'[f]]
  BY <1>1, <1>2 DEF TypeOK
<1>4. sent'[f] \in [status: Nat, size: Nat, whole: BOOLEAN, document: Bodies]
  BY <1>1 DEF TypeOK
<1>5. sent' \in [Fetches -> [status: Nat, size: Nat, whole: BOOLEAN, document: Bodies]]
  BY <1>3, <1>4 DEF TypeOK
<1> QED BY <1>1, <1>2, <1>5

\* A fresh record is well typed.
LEMMA UnsentType == Unsent \in [status: Nat, size: Nat, whole: BOOLEAN, document: Bodies]
BY HttpStreamConstants DEF Unsent, SomeBody

\* Every step keeps the types and the byte limit.
LEMMA TypesStep ==
  ASSUME TypeOK, [Next]_vars
  PROVE  TypeOK'
<1>1. ASSUME NEW f \in Fetches, Call(f) PROVE TypeOK'
  <2>1. \A r \in Requests : r.limit \in Nat
    BY HttpStreamConstants
  <2>2. CASE UNCHANGED <<pc, expired, limit, id, status, body, err, sent>>
    BY <1>1, <2>2 DEF Call, TypeOK
  <2>3. ASSUME NEW r \in Requests,
               /\ pc' = [pc EXCEPT ![f] = "open"]
               /\ expired' = [expired EXCEPT ![f] = FALSE]
               /\ limit' = [limit EXCEPT ![f] = r.limit]
               /\ id' = [id EXCEPT ![f] = NoStream]
               /\ status' = [status EXCEPT ![f] = 0]
               /\ body' = [body EXCEPT ![f] = 0]
               /\ err' = [err EXCEPT ![f] = "none"]
               /\ kind' = [kind EXCEPT ![f] = "none"]
               /\ sent' = [sent EXCEPT ![f] = Unsent]
               /\ UNCHANGED <<table, beat>>
        PROVE  TypeOK'
    <3>1. r.limit \in Nat
      BY <2>1
    <3>2. body' \in [Fetches -> Nat] /\ \A g \in Fetches : body'[g] <= limit'[g]
      BY <2>3, <3>1 DEF TypeOK
    <3> QED BY <2>3, <3>1, <3>2, UnsentType DEF TypeOK, Pcs, Errors
  <2> QED BY <1>1, <2>2, <2>3 DEF Call
<1>2. ASSUME NEW f \in Fetches, OpenFails(f) PROVE TypeOK'
  <2>1. table' \in [Streams -> Fetches \cup {Free, Orphan, Stuck}]
    <3>1. table' = table \/ \E s \in Streams : table' = [table EXCEPT ![s] = Orphan]
      BY <1>2 DEF OpenFails, Opens
    <3> QED BY <3>1 DEF TypeOK
  <2>2. Return(f, "transport") /\ UNCHANGED <<expired, limit, id, status, sent, beat>>
    BY <1>2 DEF OpenFails
  <2>3. "transport" \in Errors
    BY DEF Errors
  <2>4. /\ pc' \in [Fetches -> Pcs] /\ err' \in [Fetches -> Errors]
        /\ body' \in [Fetches -> Nat] /\ \A g \in Fetches : body'[g] <= limit[g]
        /\ kind' \in [Fetches -> FailureKinds \cup {"none", "valid", "invalid_input"}]
    BY <2>2, <2>3, TypesReturn
  <2>5. /\ expired' = expired /\ limit' = limit /\ id' = id
        /\ status' = status /\ sent' = sent /\ beat' = beat
    BY <2>2
  <2> QED BY <2>1, <2>4, <2>5 DEF TypeOK
<1>3. ASSUME NEW f \in Fetches, Open(f) PROVE TypeOK'
  <2>1. PICK s \in Streams, code \in Statuses, d \in Bodies :
          /\ Opens(s, f)
          /\ id' = [id EXCEPT ![f] = s]
          /\ status' = [status EXCEPT ![f] = code]
          /\ sent' = [sent EXCEPT ![f].status = code, ![f].document = d]
    BY <1>3, Zenon DEF Open
  <2>2. code \in Nat
    BY HttpStreamConstants
  <2>3. sent' \in [Fetches -> [status: Nat, size: Nat, whole: BOOLEAN, document: Bodies]]
    <3> DEFINE SentRecord == [status: Nat, size: Nat, whole: BOOLEAN, document: Bodies]
               new == [sent[f] EXCEPT !.status = code, !.document = d]
    <3>1. sent \in [Fetches -> SentRecord] /\ sent[f] \in SentRecord
      BY DEF TypeOK
    <3>2. new \in SentRecord
      BY <2>2, <3>1
    <3>3. sent' = [sent EXCEPT ![f] = new]
      BY <2>1
    <3> HIDE DEF SentRecord, new
    <3>4. sent' \in [Fetches -> SentRecord]
      BY <3>1, <3>2, <3>3
    <3> QED BY <3>4 DEF SentRecord
  <2> QED BY <1>3, <2>1, <2>2, <2>3 DEF Open, Opens, TypeOK, Pcs
<1>4. ASSUME NEW f \in Fetches, ReadFails(f) PROVE TypeOK'
  BY <1>4 DEF ReadFails, Abandon, TypeOK, Pcs, Errors
<1>5. ASSUME NEW f \in Fetches, Read(f) PROVE TypeOK'
  <2>1. PICK n \in 0..MaxChunk, done \in BOOLEAN :
          /\ sent' = [sent EXCEPT ![f].size = @ + n, ![f].whole = done]
          /\ IF Overflows(f, n)
             THEN Abandon(f, "too_large") /\ UNCHANGED body
             ELSE /\ body' = [body EXCEPT ![f] = @ + n]
                  /\ pc' = [pc EXCEPT ![f] = IF done THEN "close" ELSE "read"]
                  /\ UNCHANGED err
    BY <1>5 DEF Read
  <2>2. n \in Nat
    BY HttpStreamConstants
  <2>3. sent' \in [Fetches -> [status: Nat, size: Nat, whole: BOOLEAN, document: Bodies]]
    BY <2>1, <2>2, SentMore
  <2>4. beat' \in [Fetches -> BOOLEAN]
    BY <1>5 DEF Read, TypeOK
  <2>0. UNCHANGED <<table, expired, limit, id, status, kind>>
    BY <1>5 DEF Read
  <2>5. CASE Overflows(f, n)
    BY <2>0, <2>1, <2>3, <2>4, <2>5 DEF Abandon, TypeOK, Pcs, Errors
  <2>6. CASE ~Overflows(f, n)
    <3>1. body'[f] <= limit[f] /\ body' = [body EXCEPT ![f] = @ + n]
      BY <2>1, <2>2, <2>6 DEF Overflows, TypeOK
    <3>2. body' \in [Fetches -> Nat] /\ \A g \in Fetches : body'[g] <= limit[g]
      BY <2>2, <3>1 DEF TypeOK
    <3>3. pc' \in [Fetches -> Pcs] /\ UNCHANGED err
      BY <2>1, <2>6 DEF TypeOK, Pcs
    <3> QED BY <2>0, <2>3, <2>4, <3>2, <3>3 DEF TypeOK
  <2> QED BY <2>5, <2>6
<1>6. ASSUME NEW f \in Fetches, Close(f) PROVE TypeOK'
  <2>1. CASE HostCloses(f, TRUE) /\ Return(f, "none")
    BY <1>6, <2>1, TypesReturn, TypesCloses DEF Close, TypeOK, Errors
  <2>2. CASE HostCloses(f, FALSE) /\ Abandon(f, "transport") /\ UNCHANGED <<body, kind>>
    BY <1>6, <2>2, TypesCloses DEF Close, Abandon, TypeOK, Pcs, Errors
  <2> QED BY <1>6, <2>1, <2>2 DEF Close
<1>7. ASSUME NEW f \in Fetches, DeferredClose(f) PROVE TypeOK'
  <2>1. err[f] \in Errors
    BY DEF TypeOK
  <2> QED BY <1>7, <2>1, TypesReturn, TypesCloses DEF DeferredClose, TypeOK
<1>8. ASSUME NEW f \in Fetches, Expire(f) PROVE TypeOK'
  BY <1>8 DEF Expire, TypeOK
<1>9. CASE UNCHANGED vars
  BY <1>9 DEF vars, TypeOK
<1> QED
  BY <1>1, <1>2, <1>3, <1>4, <1>5, <1>6, <1>7, <1>8, <1>9 DEF Next, Step

\* A validation's state is well typed, and no body ever outgrows MaxWhoamiBodyBytes,
\* however many chunks the host sends and whatever their sizes.
THEOREM StreamTypesAlwaysOK == Spec => []TypeOK
BY TypesInit, TypesStep, PTL DEF Spec

-----------------------------------------------------------------------------
(* The host's streams.                                                     *)

\* A fetch between opening and returning knows its identifier, shares it with no
\* other, and until its first close the stream is its own.
StreamInv ==
  /\ StreamsAccountedFor
  /\ \A f \in Fetches : Holding(f) => id[f] \in Streams
  /\ \A f, g \in Fetches : Holding(f) /\ Holding(g) /\ id[f] = id[g] => f = g
  /\ \A f \in Fetches : pc[f] \in {"read", "close"} => table[id[f]] = f

\* After a close the stream is nobody's, and no other has changed.
LEMMA ClosesOne ==
  ASSUME TypeOK, NEW f \in Fetches, id[f] \in Streams,
         HostCloses(f, TRUE) \/ HostCloses(f, FALSE)
  PROVE  /\ table'[id[f]] \notin Fetches
         /\ \A s \in Streams \ {id[f]} : table'[s] = table[s]
BY HttpStreamConstants DEF HostCloses, CloseReachesHost, TypeOK

\* A fetch that moves on leaves the others where they are.
LEMMA MovesOne ==
  ASSUME NEW f \in Fetches, NEW to, pc \in [Fetches -> Pcs],
         pc' = [pc EXCEPT ![f] = to]
  PROVE  pc'[f] = to /\ \A g \in Fetches \ {f} : pc'[g] = pc[g]
OBVIOUS

\* Every step keeps StreamInv.
LEMMA StreamStep ==
  ASSUME TypeOK, StreamInv, [Next]_vars
  PROVE  StreamInv'
<1> USE DEF StreamInv, StreamsAccountedFor, Holding
<1>1. ASSUME NEW f \in Fetches, Call(f) PROVE StreamInv'
  <2>1. /\ ~Holding(f) /\ UNCHANGED table
        /\ \A g \in Fetches \ {f} : pc'[g] = pc[g] /\ id'[g] = id[g]
        /\ pc'[f] \in {"idle", "done", "open"}
    BY <1>1 DEF Call, InFlight, TypeOK, Pcs
  <2> QED BY <2>1
<1>2. ASSUME NEW f \in Fetches, OpenFails(f) PROVE StreamInv'
  <2>1. /\ pc[f] = "open" /\ pc'[f] = "done" /\ UNCHANGED id
        /\ \A g \in Fetches \ {f} : pc'[g] = pc[g]
    BY <1>2 DEF OpenFails, Return, TypeOK
  <2>2. \A s \in Streams, g \in Fetches : table'[s] = g <=> table[s] = g
    BY <1>2, HttpStreamConstants DEF OpenFails, Opens, TypeOK
  <2> QED BY <2>1, <2>2
<1>3. ASSUME NEW f \in Fetches, Open(f) PROVE StreamInv'
  <2>1. PICK s \in Streams : Opens(s, f) /\ id' = [id EXCEPT ![f] = s]
    BY <1>3 DEF Open
  <2>2. /\ pc[f] = "open" /\ pc'[f] = "read"
        /\ \A g \in Fetches \ {f} : pc'[g] = pc[g] /\ id'[g] = id[g]
        /\ id'[f] = s
    BY <1>3, <2>1 DEF Open, TypeOK
  <2>3. /\ table[s] \notin Fetches /\ table'[s] = f
        /\ \A t \in Streams \ {s} : table'[t] = table[t]
        /\ \A g \in Fetches : Holding(g) => id[g] # s
    BY <2>1, HttpStreamConstants DEF Opens, TypeOK
  <2> QED BY <2>2, <2>3
<1>4. ASSUME NEW f \in Fetches, ReadFails(f) \/ Read(f) PROVE StreamInv'
  <2>1. /\ pc[f] = "read" /\ pc'[f] \in {"read", "close", "deferred"}
        /\ UNCHANGED <<table, id>>
        /\ \A g \in Fetches \ {f} : pc'[g] = pc[g]
    <3>1. CASE ReadFails(f)
      BY <3>1 DEF ReadFails, Abandon, TypeOK
    <3>2. CASE Read(f)
      <4>1. pc[f] = "read" /\ UNCHANGED <<table, id>>
        BY <3>2 DEF Read
      <4>2. PICK to \in {"read", "close", "deferred"} : pc' = [pc EXCEPT ![f] = to]
        BY <3>2 DEF Read, Abandon
      <4>3. pc \in [Fetches -> Pcs]
        BY DEF TypeOK
      <4>4. pc'[f] = to /\ \A g \in Fetches \ {f} : pc'[g] = pc[g]
        BY ONLY <4>2, <4>3, MovesOne, f \in Fetches
      <4> QED BY <4>1, <4>4
    <3> QED BY <1>4, <3>1, <3>2
  <2> QED BY <2>1
<1>5. ASSUME NEW f \in Fetches, Close(f) \/ DeferredClose(f) PROVE StreamInv'
  <2>1. /\ pc[f] \in {"close", "deferred"} /\ pc'[f] \in {"done", "deferred"}
        /\ UNCHANGED id
        /\ \A g \in Fetches \ {f} : pc'[g] = pc[g]
        /\ HostCloses(f, TRUE) \/ HostCloses(f, FALSE)
    <3>1. CASE Close(f)
      <4>1. /\ pc[f] = "close" /\ UNCHANGED id
            /\ HostCloses(f, TRUE) \/ HostCloses(f, FALSE)
        BY <3>1 DEF Close
      <4>2. PICK to \in {"done", "deferred"} : pc' = [pc EXCEPT ![f] = to]
        BY <3>1 DEF Close, Abandon, Return
      <4>3. pc \in [Fetches -> Pcs]
        BY DEF TypeOK
      <4>4. pc'[f] = to /\ \A g \in Fetches \ {f} : pc'[g] = pc[g]
        BY ONLY <4>2, <4>3, MovesOne, f \in Fetches
      <4> QED BY <4>1, <4>4
    <3>2. CASE DeferredClose(f)
      BY <3>2 DEF DeferredClose, Return, TypeOK
    <3> QED BY <1>5, <3>1, <3>2
  <2>2. id[f] \in Streams
    BY <2>1
  <2>3. /\ table'[id[f]] \notin Fetches
        /\ \A s \in Streams \ {id[f]} : table'[s] = table[s]
    BY <2>1, <2>2, ClosesOne
  <2> QED BY <2>1, <2>2, <2>3
<1>6. ASSUME NEW f \in Fetches, Expire(f) PROVE StreamInv'
  BY <1>6 DEF Expire
<1>7. CASE UNCHANGED vars
  BY <1>7 DEF vars
<1> QED
  BY <1>1, <1>2, <1>3, <1>4, <1>5, <1>6, <1>7 DEF Next, Step

\* The initial state has no stream and no fetch.
LEMMA StreamInit == Init => StreamInv
BY HttpStreamConstants DEF Init, StreamInv, StreamsAccountedFor, Holding

\* HTTPDoLimited leaves no stream behind that it was told of: on every way out a
\* close of exactly that stream has reached the host.
THEOREM StreamsAlwaysAccountedFor == Spec => []StreamsAccountedFor
<1>1. Init => TypeOK /\ StreamInv
  BY TypesInit, StreamInit
<1>2. TypeOK /\ StreamInv /\ [Next]_vars => (TypeOK /\ StreamInv)'
  BY TypesStep, StreamStep
<1>3. StreamInv => StreamsAccountedFor
  BY DEF StreamInv
<1> QED BY <1>1, <1>2, <1>3, PTL DEF Spec

-----------------------------------------------------------------------------
(* The verdict.                                                            *)

\* What a fetch has kept of what upstream sent, at each of its positions.
Kept(f) ==
  /\ InFlight(f) => kind[f] = "none"
  /\ pc[f] = "open" => sent[f] = Unsent /\ status[f] = 0 /\ body[f] = 0
  /\ Holding(f) => status[f] = sent[f].status
  /\ pc[f] = "read" => body[f] = sent[f].size /\ ~sent[f].whole
  /\ pc[f] = "close" => body[f] = sent[f].size /\ sent[f].whole
  /\ pc[f] = "deferred" => /\ err[f] # "none"
                           /\ err[f] = "too_large" => sent[f].size > limit[f]

Real(f) ==
  LET names == decodeIdentity(sent[f].document, sent[f].size, limit[f]) IN
  /\ kind[f] = "authentication_failed" => sent[f].status \in {401, 403}
  /\ kind[f] = "valid" => IsSuccess(sent[f].status) /\ sent[f].whole /\ names
  /\ kind[f] = "malformed_response" =>
       /\ IsSuccess(sent[f].status) \/ sent[f].status = 0
       /\ sent[f].size > limit[f] \/ (sent[f].whole /\ ~names)

VerdictInv == \A f \in Fetches : Kept(f) /\ Real(f)

\* What FetchIdentity may conclude.
LEMMA VerdictOfFetch ==
  ASSUME NEW code \in Nat, NEW e \in Errors, NEW decodes \in BOOLEAN
  PROVE  LET verdict == FetchIdentity([status |-> code, err |-> e, decodes |-> decodes]) IN
         /\ verdict = "authentication_failed" => code \in {401, 403}
         /\ verdict = "valid" => IsSuccess(code) /\ e = "none" /\ decodes
         /\ verdict = "malformed_response" =>
              /\ IsSuccess(code) \/ code = 0
              /\ e = "too_large" \/ (e = "none" /\ ~decodes)
BY DEF FetchIdentity, classifyStatus, IsSuccess, Errors

\* A fetch that ends with what it kept ends with a verdict upstream gave grounds for.
LEMMA RealReturn ==
  ASSUME TypeOK, NEW f \in Fetches, NEW e \in Errors, Return(f, e),
         UNCHANGED <<sent, limit>>,
         status[f] = sent[f].status,
         e = "none" => body[f] = sent[f].size /\ sent[f].whole,
         e = "too_large" => sent[f].size > limit[f]
  PROVE  Kept(f)' /\ Real(f)'
<1> DEFINE decodes == decodeIdentity(sent[f].document, body[f], limit[f])
           verdict == FetchIdentity([status |-> status[f], err |-> e, decodes |-> decodes])
<1>1. kind'[f] = verdict /\ pc'[f] = "done"
  BY DEF Return, TypeOK
<1>2. decodes \in BOOLEAN /\ status[f] \in Nat
  BY DEF decodeIdentity, TypeOK
<1>3. /\ verdict = "authentication_failed" => status[f] \in {401, 403}
      /\ verdict = "valid" => IsSuccess(status[f]) /\ e = "none" /\ decodes
      /\ verdict = "malformed_response" =>
           /\ IsSuccess(status[f]) \/ status[f] = 0
           /\ e = "too_large" \/ (e = "none" /\ ~decodes)
  <2> HIDE DEF decodes
  <2> QED BY <1>2, VerdictOfFetch
<1>4. e = "none" => decodes = decodeIdentity(sent[f].document, sent[f].size, limit[f])
  OBVIOUS
<1> HIDE DEF decodes, verdict
<1>5. Real(f)'
  BY <1>1, <1>3, <1>4 DEF Real
<1>6. Kept(f)'
  BY <1>1 DEF Kept, Holding, InFlight
<1> QED BY <1>5, <1>6

\* A fetch whose state does not change keeps what it has.
LEMMA VerdictUntouched ==
  ASSUME NEW g \in Fetches, Kept(g), Real(g),
         /\ pc'[g] = pc[g] /\ kind'[g] = kind[g] /\ sent'[g] = sent[g] /\ status'[g] = status[g]
         /\ body'[g] = body[g] /\ err'[g] = err[g] /\ limit'[g] = limit[g]
  PROVE  Kept(g)' /\ Real(g)'
BY DEF Kept, Real, Holding, InFlight

\* Every step keeps VerdictInv.
LEMMA VerdictStep ==
  ASSUME TypeOK, VerdictInv, [Next]_vars
  PROVE  VerdictInv'
<1> DEFINE Untouched(g) ==
      /\ pc'[g] = pc[g] /\ kind'[g] = kind[g] /\ sent'[g] = sent[g] /\ status'[g] = status[g]
      /\ body'[g] = body[g] /\ err'[g] = err[g] /\ limit'[g] = limit[g]
<1>0. ASSUME NEW f \in Fetches, Kept(f)' /\ Real(f)', \A g \in Fetches \ {f} : Untouched(g)
      PROVE  VerdictInv'
  BY <1>0, VerdictUntouched DEF VerdictInv
<1>1. ASSUME NEW f \in Fetches, Call(f) PROVE VerdictInv'
  <2>1. \A g \in Fetches \ {f} : Untouched(g)
    BY <1>1 DEF Call, TypeOK
  <2>2. \/ pc'[f] = "open" /\ kind'[f] = "none" /\ sent'[f] = Unsent /\ status'[f] = 0 /\ body'[f] = 0
        \/ /\ kind'[f] = "invalid_input" /\ ~InFlight(f)
           /\ UNCHANGED <<pc, sent, status, body, err, limit>>
    BY <1>1 DEF Call, TypeOK
  <2>3. Kept(f)' /\ Real(f)'
    BY <2>2 DEF Kept, Real, InFlight, Holding
  <2> QED BY <1>0, <2>1, <2>3
<1>2. ASSUME NEW f \in Fetches, OpenFails(f) PROVE VerdictInv'
  <2>1. \A g \in Fetches \ {f} : Untouched(g)
    BY <1>2 DEF OpenFails, Return, TypeOK
  <2>2. status[f] = sent[f].status
    BY <1>2 DEF OpenFails, VerdictInv, Kept, Unsent
  <2>3. Kept(f)' /\ Real(f)'
    BY <1>2, <2>2, RealReturn DEF OpenFails, Errors
  <2> QED BY <1>0, <2>1, <2>3
<1>3. ASSUME NEW f \in Fetches, Open(f) PROVE VerdictInv'
  <2>1. PICK code \in Statuses, d \in Bodies :
          /\ status' = [status EXCEPT ![f] = code]
          /\ sent' = [sent EXCEPT ![f].status = code, ![f].document = d]
    BY <1>3, Zenon DEF Open
  <2>2. /\ sent'[f].status = code /\ sent'[f].size = sent[f].size /\ sent'[f].whole = sent[f].whole
        /\ \A g \in Fetches \ {f} : sent'[g] = sent[g]
    BY <2>1 DEF TypeOK
  <2>3. /\ pc[f] = "open" /\ pc'[f] = "read" /\ status'[f] = code
        /\ UNCHANGED <<limit, body, err, kind>>
    BY <1>3, <2>1 DEF Open, TypeOK
  <2>4. \A g \in Fetches \ {f} : Untouched(g)
    BY <1>3, <2>1, <2>2 DEF Open, TypeOK
  <2>5. kind[f] = "none" /\ sent[f].size = 0 /\ ~sent[f].whole /\ body[f] = 0
    BY <2>3 DEF VerdictInv, Kept, InFlight, Unsent
  <2>6. Kept(f)' /\ Real(f)'
    BY <2>2, <2>3, <2>5 DEF Kept, Real, InFlight, Holding
  <2> QED BY <1>0, <2>4, <2>6
<1>4. ASSUME NEW f \in Fetches, ReadFails(f) PROVE VerdictInv'
  <2>1. \A g \in Fetches \ {f} : Untouched(g)
    BY <1>4 DEF ReadFails, Abandon, TypeOK
  <2>2. /\ pc[f] = "read" /\ pc'[f] = "deferred" /\ err'[f] = "transport"
        /\ UNCHANGED <<limit, status, body, kind, sent>>
    BY <1>4 DEF ReadFails, Abandon, TypeOK
  <2>3. Kept(f)' /\ Real(f)'
    BY <2>2 DEF VerdictInv, Kept, Real, InFlight, Holding
  <2> QED BY <1>0, <2>1, <2>3
<1>5. ASSUME NEW f \in Fetches, Read(f) PROVE VerdictInv'
  <2>1. PICK n \in 0..MaxChunk, done \in BOOLEAN :
          /\ sent' = [sent EXCEPT ![f].size = @ + n, ![f].whole = done]
          /\ IF Overflows(f, n)
             THEN Abandon(f, "too_large") /\ UNCHANGED body
             ELSE /\ body' = [body EXCEPT ![f] = @ + n]
                  /\ pc' = [pc EXCEPT ![f] = IF done THEN "close" ELSE "read"]
                  /\ UNCHANGED err
    BY <1>5 DEF Read
  <2>2. n \in Nat
    BY HttpStreamConstants
  <2>3. /\ sent'[f].status = sent[f].status /\ sent'[f].size = sent[f].size + n
        /\ sent'[f].whole = done /\ \A g \in Fetches \ {f} : sent'[g] = sent[g]
    <3>1. /\ sent'[f] = [status |-> sent[f].status, size |-> sent[f].size + n,
                         whole |-> done, document |-> sent[f].document]
          /\ \A g \in Fetches \ {f} : sent'[g] = sent[g]
      BY <2>1, <2>2, SentMore
    <3> QED BY <3>1
  <2>4. pc[f] = "read" /\ UNCHANGED <<limit, status, kind>>
    BY <1>5 DEF Read
  <2>5. kind[f] = "none" /\ status[f] = sent[f].status /\ body[f] = sent[f].size
    BY <2>4 DEF VerdictInv, Kept, InFlight, Holding
  <2>6. CASE Overflows(f, n)
    <3>1. pc'[f] = "deferred" /\ err'[f] = "too_large" /\ \A g \in Fetches \ {f} : Untouched(g)
      BY <2>1, <2>3, <2>4, <2>6 DEF Abandon, TypeOK
    <3>2. sent'[f].size > limit[f]
      BY <2>2, <2>3, <2>5, <2>6 DEF Overflows, TypeOK
    <3>3. Kept(f)' /\ Real(f)'
      BY <2>3, <2>4, <2>5, <3>1, <3>2 DEF Kept, Real, InFlight, Holding
    <3> QED BY <1>0, <3>1, <3>3
  <2>7. CASE ~Overflows(f, n)
    <3>1. /\ pc'[f] = (IF done THEN "close" ELSE "read") /\ body'[f] = sent'[f].size
          /\ \A g \in Fetches \ {f} : Untouched(g)
      BY <2>1, <2>3, <2>4, <2>5, <2>7 DEF TypeOK
    <3>2. Kept(f)' /\ Real(f)'
      BY <2>3, <2>4, <2>5, <3>1 DEF Kept, Real, InFlight, Holding
    <3> QED BY <1>0, <3>1, <3>2
  <2> QED BY <2>6, <2>7
<1>6. ASSUME NEW f \in Fetches, Close(f) PROVE VerdictInv'
  <2>1. /\ pc[f] = "close" /\ UNCHANGED <<limit, status, sent>>
        /\ status[f] = sent[f].status /\ body[f] = sent[f].size /\ sent[f].whole
        /\ kind[f] = "none"
    BY <1>6 DEF Close, VerdictInv, Kept, Holding, InFlight
  <2>2. CASE Return(f, "none")
    <3>1. \A g \in Fetches \ {f} : Untouched(g)
      BY <2>1, <2>2 DEF Return, TypeOK
    <3>2. Kept(f)' /\ Real(f)'
      BY <2>1, <2>2, RealReturn DEF Errors
    <3> QED BY <1>0, <3>1, <3>2
  <2>3. CASE Abandon(f, "transport") /\ UNCHANGED <<body, kind>>
    <3>1. \A g \in Fetches \ {f} : Untouched(g)
      BY <2>1, <2>3 DEF Abandon, TypeOK
    <3>2. pc'[f] = "deferred" /\ err'[f] = "transport"
      BY <2>3 DEF Abandon, TypeOK
    <3>3. Kept(f)' /\ Real(f)'
      BY <2>1, <2>3, <3>2 DEF Kept, Real, InFlight, Holding
    <3> QED BY <1>0, <3>1, <3>3
  <2> QED BY <1>6, <2>2, <2>3 DEF Close
<1>7. ASSUME NEW f \in Fetches, DeferredClose(f) PROVE VerdictInv'
  <2>1. /\ status[f] = sent[f].status /\ UNCHANGED <<limit, status, sent>> /\ Return(f, err[f])
        /\ err[f] # "none"
        /\ err[f] = "too_large" => sent[f].size > limit[f]
    BY <1>7 DEF DeferredClose, VerdictInv, Kept, Holding
  <2>2. \A g \in Fetches \ {f} : Untouched(g)
    BY <2>1 DEF Return, TypeOK
  <2>3. err[f] \in Errors
    BY DEF TypeOK
  <2>4. Kept(f)' /\ Real(f)'
    BY <2>1, <2>3, RealReturn
  <2> QED BY <1>0, <2>2, <2>4
<1>8. CASE UNCHANGED <<pc, kind, sent, status, body, err, limit>>
  BY <1>8, VerdictUntouched DEF VerdictInv
<1>9. (\E f \in Fetches : Expire(f)) \/ UNCHANGED vars
        => UNCHANGED <<pc, kind, sent, status, body, err, limit>>
  BY DEF Expire, vars
<1> QED
  BY <1>1, <1>2, <1>3, <1>4, <1>5, <1>6, <1>7, <1>8, <1>9 DEF Next, Step

\* Nothing has been concluded at the start.
LEMMA VerdictInit == Init => VerdictInv
BY DEF Init, VerdictInv, Kept, Real, InFlight, Holding

\* A verdict on a token always rests on what upstream sent: no timeout, lost chunk
\* or failed close of the host makes a token count as rejected, valid or malformed.
THEOREM EvidenceAlwaysReal == Spec => []EvidenceIsReal
<1>1. Init => TypeOK /\ VerdictInv
  BY TypesInit, VerdictInit
<1>2. TypeOK /\ VerdictInv /\ [Next]_vars => (TypeOK /\ VerdictInv)'
  BY TypesStep, VerdictStep
<1>3. VerdictInv => EvidenceIsReal
  BY DEF VerdictInv, Real, EvidenceIsReal
<1> QED BY <1>1, <1>2, <1>3, PTL DEF Spec

-----------------------------------------------------------------------------
(* Refinement: every step of a fetch is one of BoundedFetch, or stutters.  *)

\* The initial states correspond.
LEMMA RefinesInit == Init => Contract!Init
BY HttpStreamConstants
   DEF Init, Unsent, Phase, Holds, Sent, Answered,
       Contract!Init, Contract!Nothing, Contract!NoAnswer

\* A function that changes at one place only.
LEMMA ChangesAt ==
  ASSUME NEW S, NEW F, NEW G, NEW a \in S,
         F = [x \in S |-> F[x]], G = [x \in S |-> G[x]],
         \A x \in S \ {a} : G[x] = F[x]
  PROVE  G = [F EXCEPT ![a] = G[a]]
OBVIOUS

\* How the mapped state changes when only f's part of the state does.
LEMMA MappedElsewhere ==
  ASSUME NEW f \in Fetches,
         \A g \in Fetches \ {f} :
           /\ pc'[g] = pc[g] /\ sent'[g] = sent[g]
           /\ pc[g] = "done" => status'[g] = status[g] /\ err'[g] = err[g] /\ body'[g] = body[g]
           /\ \A s \in Streams : table'[s] = g <=> table[s] = g
  PROVE  /\ Phase' = [Phase EXCEPT ![f] = Phase'[f]]
         /\ Holds' = [Holds EXCEPT ![f] = Holds'[f]]
         /\ Sent' = [Sent EXCEPT ![f] = Sent'[f]]
         /\ Answered' = [Answered EXCEPT ![f] = Answered'[f]]
<1>1. \A g \in Fetches \ {f} : Phase'[g] = Phase[g]
  BY DEF Phase
<1>2. \A g \in Fetches \ {f} : Holds'[g] = Holds[g]
  BY DEF Holds
<1>3. \A g \in Fetches \ {f} : Sent'[g] = Sent[g]
  BY DEF Sent
<1>4. \A g \in Fetches \ {f} : Answered'[g] = Answered[g]
  BY DEF Answered
<1>5. Phase' = [Phase EXCEPT ![f] = Phase'[f]]
  <2>1. Phase = [x \in Fetches |-> Phase[x]] /\ Phase' = [x \in Fetches |-> Phase'[x]]
    BY DEF Phase
  <2> HIDE DEF Phase
  <2> QED BY <1>1, <2>1, ChangesAt
<1>6. Holds' = [Holds EXCEPT ![f] = Holds'[f]]
  <2>1. Holds = [x \in Fetches |-> Holds[x]] /\ Holds' = [x \in Fetches |-> Holds'[x]]
    BY DEF Holds
  <2> HIDE DEF Holds
  <2> QED BY <1>2, <2>1, ChangesAt
<1>7. Sent' = [Sent EXCEPT ![f] = Sent'[f]]
  <2>1. Sent = [x \in Fetches |-> Sent[x]] /\ Sent' = [x \in Fetches |-> Sent'[x]]
    BY DEF Sent
  <2> HIDE DEF Sent
  <2> QED BY <1>3, <2>1, ChangesAt
<1>8. Answered' = [Answered EXCEPT ![f] = Answered'[f]]
  <2>1. Answered = [x \in Fetches |-> Answered[x]] /\ Answered' = [x \in Fetches |-> Answered'[x]]
    BY DEF Answered
  <2> HIDE DEF Answered
  <2> QED BY <1>4, <2>1, ChangesAt
<1> QED BY <1>5, <1>6, <1>7, <1>8

\* A fetch that returns finishes in BoundedFetch, with a truthful answer.
LEMMA RefinesFinish ==
  ASSUME TypeOK, NEW f \in Fetches, NEW e \in Errors,
         InFlight(f), Return(f, e), UNCHANGED <<limit, status, sent>>,
         status[f] \in {0, sent[f].status},
         e = "none" => body[f] = sent[f].size /\ sent[f].whole /\ status[f] = sent[f].status,
         e = "too_large" => sent[f].size > limit[f],
         \A s \in Streams : table'[s] # f,
         \A g \in Fetches \ {f}, s \in Streams : table'[s] = g <=> table[s] = g
  PROVE  Contract!Finish(f)
<1> DEFINE a == [status |-> status[f], err |-> e, size |-> IF e = "none" THEN body[f] ELSE 0]
<1>1. /\ pc'[f] = "done" /\ err'[f] = e /\ body'[f] = a.size
      /\ \A g \in Fetches \ {f} : pc'[g] = pc[g] /\ err'[g] = err[g] /\ body'[g] = body[g]
  BY DEF Return, TypeOK
<1>2. /\ Phase' = [Phase EXCEPT ![f] = Phase'[f]]
      /\ Holds' = [Holds EXCEPT ![f] = Holds'[f]]
      /\ Sent' = [Sent EXCEPT ![f] = Sent'[f]]
      /\ Answered' = [Answered EXCEPT ![f] = Answered'[f]]
  BY <1>1, MappedElsewhere
<1>3. Phase[f] = "running" /\ Phase'[f] = "returned"
  BY <1>1 DEF Phase, InFlight
<1>4. Holds'[f] = FALSE
  BY DEF Holds
<1>5. Answered'[f] = a
  BY <1>1 DEF Answered
<1>6. UNCHANGED Sent
  BY DEF Sent
<1>7. Sent[f] = [status |-> sent[f].status, size |-> sent[f].size, whole |-> sent[f].whole]
  BY DEF Sent
<1>8. /\ sent[f].size \in Nat /\ body[f] \in Nat /\ limit[f] \in Nat /\ body[f] <= limit[f]
      /\ sent[f].whole \in BOOLEAN
  BY DEF TypeOK
<1>9. a \in [status: {0, Sent[f].status}, err: {"none", "too_large", "transport"},
            size: {0, Sent[f].size}]
  BY <1>7, <1>8 DEF Errors
<1>10. Contract!Truthful(a, Sent[f], limit[f])
  BY <1>7, <1>8 DEF Contract!Truthful
<1> HIDE DEF a
<1> QED
  BY <1>2, <1>3, <1>4, <1>5, <1>6, <1>9, <1>10 DEF Contract!Finish

\* Every step of a fetch is a step of its contract.
LEMMA RefinesStep ==
  ASSUME TypeOK, StreamInv, VerdictInv, [Next]_vars
  PROVE  [Contract!Next]_(Contract!vars)
<1> USE DEF Contract!vars
<1>1. ASSUME NEW f \in Fetches, Call(f) PROVE [Contract!Next]_(Contract!vars)
  <2>1. CASE UNCHANGED <<pc, expired, limit, id, status, body, err, sent>>
    BY <1>1, <2>1 DEF Call, Phase, Holds, Sent, Answered
  <2>2. ASSUME NEW r \in Requests,
               /\ pc' = [pc EXCEPT ![f] = "open"]
               /\ limit' = [limit EXCEPT ![f] = r.limit]
               /\ status' = [status EXCEPT ![f] = 0]
               /\ body' = [body EXCEPT ![f] = 0]
               /\ err' = [err EXCEPT ![f] = "none"]
               /\ sent' = [sent EXCEPT ![f] = Unsent]
               /\ UNCHANGED table
        PROVE  Contract!Start(f)
    <3>1. /\ pc'[f] = "open" /\ sent'[f] = Unsent
          /\ \A g \in Fetches \ {f} :
               /\ pc'[g] = pc[g] /\ sent'[g] = sent[g]
               /\ status'[g] = status[g] /\ err'[g] = err[g] /\ body'[g] = body[g]
      BY <2>2 DEF TypeOK
    <3>2. /\ Phase' = [Phase EXCEPT ![f] = Phase'[f]]
          /\ Sent' = [Sent EXCEPT ![f] = Sent'[f]]
          /\ Answered' = [Answered EXCEPT ![f] = Answered'[f]]
      BY <2>2, <3>1, MappedElsewhere
    <3>3. Phase[f] # "running" /\ Phase'[f] = "running"
      BY <1>1, <3>1 DEF Phase, Call, InFlight
    <3>4. Sent'[f] = Contract!Nothing
      <4>1. Sent'[f] = [status |-> sent'[f].status, size |-> sent'[f].size, whole |-> sent'[f].whole]
        BY DEF Sent
      <4>2. sent'[f].status = 0 /\ sent'[f].size = 0 /\ sent'[f].whole = FALSE
        BY <3>1 DEF Unsent
      <4> QED BY <4>1, <4>2 DEF Contract!Nothing
    <3>5. Answered'[f] = Contract!NoAnswer
      BY <3>1 DEF Answered, Contract!NoAnswer
    <3>6. UNCHANGED Holds
      BY <2>2 DEF Holds
    <3> QED BY <2>2, <3>2, <3>3, <3>4, <3>5, <3>6 DEF Contract!Start
  <2> QED BY <1>1, <2>1, <2>2 DEF Call, Contract!Next
<1>2. ASSUME NEW f \in Fetches, OpenFails(f) PROVE Contract!Finish(f)
  <2>1. pc[f] = "open" /\ Return(f, "transport") /\ UNCHANGED <<limit, status, sent>>
    BY <1>2 DEF OpenFails
  <2>2. \A s \in Streams, g \in Fetches : table'[s] = g <=> table[s] = g
    BY <1>2, HttpStreamConstants DEF OpenFails, Opens, TypeOK
  <2>3. \A s \in Streams : table[s] # f
    BY <2>1 DEF StreamInv, StreamsAccountedFor, Holding
  <2>4. status[f] = 0
    BY <2>1 DEF VerdictInv, Kept
  <2> QED BY <2>1, <2>2, <2>3, <2>4, RefinesFinish DEF Errors, InFlight
<1>3. ASSUME NEW f \in Fetches, Open(f) PROVE Contract!Acquire(f)
  <2>1. PICK s \in Streams, code \in Statuses, d \in Bodies :
          /\ Opens(s, f)
          /\ id' = [id EXCEPT ![f] = s]
          /\ status' = [status EXCEPT ![f] = code]
          /\ sent' = [sent EXCEPT ![f].status = code, ![f].document = d]
    BY <1>3, Zenon DEF Open
  <2>2. /\ sent'[f].status = code /\ sent'[f].size = sent[f].size /\ sent'[f].whole = sent[f].whole
        /\ \A g \in Fetches \ {f} : sent'[g] = sent[g]
    BY <2>1 DEF TypeOK
  <2>3. /\ pc[f] = "open" /\ pc'[f] = "read" /\ UNCHANGED <<limit, body, err>>
        /\ \A g \in Fetches \ {f} : pc'[g] = pc[g] /\ status'[g] = status[g]
    BY <1>3 DEF Open, TypeOK
  <2>4. /\ \A t \in Streams, g \in Fetches \ {f} : table'[t] = g <=> table[t] = g
        /\ table'[s] = f
    BY <2>1, HttpStreamConstants DEF Opens, TypeOK
  <2>5. /\ Phase' = [Phase EXCEPT ![f] = Phase'[f]]
        /\ Holds' = [Holds EXCEPT ![f] = Holds'[f]]
        /\ Sent' = [Sent EXCEPT ![f] = Sent'[f]]
        /\ Answered' = [Answered EXCEPT ![f] = Answered'[f]]
    BY <2>2, <2>3, <2>4, MappedElsewhere
  <2>6. Phase[f] = "running" /\ Phase'[f] = Phase[f] /\ Answered'[f] = Answered[f]
    BY <2>3 DEF Phase, Answered
  <2>7. ~Holds[f] /\ Holds'[f] = TRUE
    BY <2>3, <2>4 DEF Holds, StreamInv, StreamsAccountedFor, Holding
  <2>8. Sent' = [Sent EXCEPT ![f].status = code]
    <3>1. Sent'[f] = [Sent[f] EXCEPT !.status = code]
      BY <2>2 DEF Sent
    <3> QED BY <2>5, <3>1
  <2>9. UNCHANGED <<Phase, Answered>>
    <3>1. Phase = [Phase EXCEPT ![f] = Phase[f]] /\ Answered = [Answered EXCEPT ![f] = Answered[f]]
      BY DEF Phase, Answered
    <3> QED BY <2>5, <2>6, <3>1
  <2> QED BY <2>3, <2>5, <2>6, <2>7, <2>8, <2>9 DEF Contract!Acquire
<1>4. ASSUME NEW f \in Fetches, ReadFails(f) PROVE UNCHANGED Contract!vars
  <2>1. /\ pc[f] = "read" /\ pc'[f] = "deferred" /\ UNCHANGED <<table, limit, sent>>
        /\ \A g \in Fetches \ {f} : /\ pc'[g] = pc[g] /\ err'[g] = err[g]
                                    /\ status'[g] = status[g] /\ body'[g] = body[g]
    BY <1>4 DEF ReadFails, Abandon, TypeOK
  <2>2. UNCHANGED <<Holds, Sent>>
    BY <2>1 DEF Holds, Sent
  <2>3. UNCHANGED Phase
    BY <2>1 DEF Phase
  <2>4. UNCHANGED Answered
    BY <2>1 DEF Answered
  <2> QED BY <2>1, <2>2, <2>3, <2>4
<1>5. ASSUME NEW f \in Fetches, Read(f) PROVE Contract!Receive(f)
  <2>1. PICK n \in 0..MaxChunk, done \in BOOLEAN :
          /\ sent' = [sent EXCEPT ![f].size = @ + n, ![f].whole = done]
          /\ IF Overflows(f, n)
             THEN Abandon(f, "too_large") /\ UNCHANGED body
             ELSE /\ body' = [body EXCEPT ![f] = @ + n]
                  /\ pc' = [pc EXCEPT ![f] = IF done THEN "close" ELSE "read"]
                  /\ UNCHANGED err
    BY <1>5 DEF Read
  <2>2. n \in Nat
    BY HttpStreamConstants
  <2>3. /\ sent'[f] = [status |-> sent[f].status, size |-> sent[f].size + n,
                       whole |-> done, document |-> sent[f].document]
        /\ \A g \in Fetches \ {f} : sent'[g] = sent[g]
    BY <2>1, <2>2, SentMore
  <2>4. pc[f] = "read" /\ UNCHANGED <<limit, status, table>>
    BY <1>5 DEF Read
  <2>5. /\ pc'[f] \in {"read", "close", "deferred"}
        /\ \A g \in Fetches \ {f} : pc'[g] = pc[g] /\ err'[g] = err[g] /\ body'[g] = body[g]
    BY <2>1 DEF Abandon, TypeOK
  <2>6. Sent' = [Sent EXCEPT ![f] = Sent'[f]]
    BY <2>3, <2>4, <2>5, MappedElsewhere
  <2>7. UNCHANGED <<Phase, Holds, Answered>>
    <3>1. UNCHANGED Phase
      BY <2>4, <2>5 DEF Phase
    <3>2. UNCHANGED Holds
      BY <2>4 DEF Holds
    <3>3. UNCHANGED Answered
      BY <2>4, <2>5 DEF Answered
    <3> QED BY <3>1, <3>2, <3>3
  <2>8. Phase[f] = "running" /\ Holds[f] /\ ~Sent[f].whole
    BY <2>4 DEF Phase, Holds, Sent, StreamInv, VerdictInv, Kept, Holding
  <2>9. Sent' = [Sent EXCEPT ![f].size = @ + n, ![f].whole = done]
    <3>1. Sent'[f] = [status |-> Sent[f].status, size |-> Sent[f].size + n, whole |-> done]
      BY <2>3 DEF Sent
    <3>2. Sent[f] = [status |-> Sent[f].status, size |-> Sent[f].size, whole |-> Sent[f].whole]
      BY DEF Sent
    <3>3. Sent \in [Fetches -> [status: Nat, size: Nat, whole: BOOLEAN]]
      BY DEF Sent, TypeOK
    <3> QED BY <2>6, <3>1, <3>2, <3>3
  <2> QED BY <2>4, <2>7, <2>8, <2>9 DEF Contract!Receive
<1>6. ASSUME NEW f \in Fetches, Close(f) PROVE Contract!Finish(f) \/ Contract!Release(f)
  <2>1. /\ pc[f] = "close" /\ UNCHANGED <<limit, status, sent>>
        /\ id[f] \in Streams /\ table[id[f]] = f
        /\ status[f] = sent[f].status /\ body[f] = sent[f].size /\ sent[f].whole
    BY <1>6 DEF Close, StreamInv, VerdictInv, Kept, Holding
  <2>2. /\ table'[id[f]] \notin Fetches
        /\ \A s \in Streams \ {id[f]} : table'[s] = table[s]
    BY <1>6, <2>1, ClosesOne DEF Close
  <2>3. /\ \A s \in Streams : table'[s] # f
        /\ \A g \in Fetches \ {f}, s \in Streams : table'[s] = g <=> table[s] = g
    BY <2>1, <2>2 DEF StreamInv, StreamsAccountedFor
  <2>4. CASE Return(f, "none")
    BY <2>1, <2>3, <2>4, RefinesFinish DEF Errors, InFlight
  <2>5. CASE Abandon(f, "transport") /\ UNCHANGED <<body, kind>>
    <3>1. /\ pc'[f] = "deferred" /\ UNCHANGED body
          /\ \A g \in Fetches \ {f} : pc'[g] = pc[g] /\ err'[g] = err[g]
      BY <2>5 DEF Abandon, TypeOK
    <3>2. Holds' = [Holds EXCEPT ![f] = Holds'[f]]
      BY <2>1, <2>3, <3>1, MappedElsewhere
    <3>3. Holds[f] /\ Holds'[f] = FALSE
      BY <2>1, <2>3 DEF Holds
    <3>4. UNCHANGED <<Phase, Answered>>
      BY <2>1, <3>1 DEF Phase, Answered
    <3>5. UNCHANGED Sent /\ Phase[f] = "running"
      BY <2>1 DEF Sent, Phase
    <3> QED BY <2>1, <3>2, <3>3, <3>4, <3>5 DEF Contract!Release
  <2> QED BY <1>6, <2>4, <2>5 DEF Close
<1>7. ASSUME NEW f \in Fetches, DeferredClose(f) PROVE Contract!Finish(f)
  <2>1. /\ pc[f] = "deferred" /\ UNCHANGED <<limit, status, sent>> /\ Return(f, err[f])
        /\ id[f] \in Streams /\ status[f] = sent[f].status
        /\ err[f] # "none"
        /\ err[f] = "too_large" => sent[f].size > limit[f]
    BY <1>7 DEF DeferredClose, StreamInv, VerdictInv, Kept, Holding
  <2>2. /\ table'[id[f]] \notin Fetches
        /\ \A s \in Streams \ {id[f]} : table'[s] = table[s]
    BY <1>7, <2>1, ClosesOne DEF DeferredClose
  <2>3. /\ \A s \in Streams : table'[s] # f
        /\ \A g \in Fetches \ {f}, s \in Streams : table'[s] = g <=> table[s] = g
    BY <2>1, <2>2 DEF StreamInv, StreamsAccountedFor, Holding
  <2>4. err[f] \in Errors
    BY DEF TypeOK
  <2> QED BY <2>1, <2>3, <2>4, RefinesFinish DEF InFlight
<1>8. (\E f \in Fetches : Expire(f)) \/ UNCHANGED vars
        => UNCHANGED <<table, pc, limit, status, sent, err, body>>
  BY DEF Expire, vars
<1>9. CASE UNCHANGED <<table, pc, limit, status, sent, err, body>>
  BY <1>9 DEF Phase, Holds, Sent, Answered
<1> QED
  BY <1>1, <1>2, <1>3, <1>4, <1>5, <1>6, <1>7, <1>8, <1>9 DEF Next, Step, Contract!Next

\* HTTPDoLimited implements its contract, for any number of validations, limits,
\* chunks and failures of the host: one truthful answer per call, never longer
\* than the limit, and no stream kept.
THEOREM FetchAlwaysBounded == Spec => FetchIsBounded
<1>1. Init => TypeOK /\ StreamInv /\ VerdictInv
  BY TypesInit, StreamInit, VerdictInit
<1>2. TypeOK /\ StreamInv /\ VerdictInv /\ [Next]_vars => (TypeOK /\ StreamInv /\ VerdictInv)'
  BY TypesStep, StreamStep, VerdictStep
<1>3. TypeOK /\ StreamInv /\ VerdictInv /\ [Next]_vars => [Contract!Next]_(Contract!vars)
  BY RefinesStep
<1> QED
  BY <1>1, <1>2, <1>3, RefinesInit, PTL DEF Spec, FetchIsBounded, Contract!Spec
=============================================================================
