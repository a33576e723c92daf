-------------------------- MODULE PatServiceProofs --------------------------
(***************************************************************************)
(* Proofs about PatService: its type invariant, where the documents the    *)
(* plugin wrote can be, and what the Auth API had said when they were      *)
(* written.                                                                *)
(*                                                                         *)
(* A document carries the stamp of the mutation that wrote it.  Host,      *)
(* watcher and refresh copy documents about, a crash keeps some of them,   *)
(* and a refresh brings old ones back; none of that makes a document the   *)
(* mutation had not written itself, nor moves one to another file.  So     *)
(* wherever a stamped document is found it is that mutation's staging      *)
(* document or, once its barrier was passed, its final one, and what the   *)
(* mutation knew is still in its locals.                                   *)
(***************************************************************************)
EXTENDS PatService, TLAPS

-----------------------------------------------------------------------------
(* Types of documents and runtime records.                                 *)

\* Every document the plugin builds is one the directory can hold: what
\* NewCredential, ApplyIdentity, Disable and failClosedHostPayload return.
LEMMA ContentTypes ==
  /\ Absent \in Contents
  /\ \A token \in Tokens, i \in Identities, t \in Stamps :
       NewCredential(token, i, t) \in Contents
  /\ \A c \in Contents, i \in Identities, t \in Stamps :
       ApplyIdentity(c, i, t) \in Contents
  /\ \A c \in Contents, s \in {"invalid", "account_mismatch"}, t \in Stamps :
       Disable(c, s, t) \in Contents
  /\ \A c \in Contents : failClosedHostPayload(c) \in Contents
<1> USE CredentialConstants
<1>1. AnyMeta \in Metas
  BY DEF AnyMeta
<1>2. Absent \in Contents
  BY <1>1 DEF Absent, Opaque, Contents, Kinds
<1>3. ASSUME NEW token \in Tokens, NEW i \in Identities, NEW t \in Stamps
      PROVE  NewCredential(token, i, t) \in Contents
  BY DEF NewCredential, Identities, Contents, Kinds
<1>4. ASSUME NEW c \in Contents, NEW i \in Identities, NEW t \in Stamps
      PROVE  ApplyIdentity(c, i, t) \in Contents
  BY DEF ApplyIdentity, Identities, Contents
<1>5. ASSUME NEW c \in Contents, NEW s \in {"invalid", "account_mismatch"},
             NEW t \in Stamps
      PROVE  Disable(c, s, t) \in Contents
  BY DEF Disable, Contents
<1>6. ASSUME NEW c \in Contents PROVE failClosedHostPayload(c) \in Contents
  BY DEF failClosedHostPayload, Contents
<1> QED BY <1>2, <1>3, <1>4, <1>5, <1>6

\* ParseAuth, RefreshAuth and the host's own reading of a document give a
\* runtime view.
LEMMA ViewTypes ==
  ASSUME NEW n, NEW c \in Contents, NEW named \in BOOLEAN
  PROVE  /\ ParseAuth(named, n, c) \in Views
         /\ RefreshAuth(n, c) \in Views
         /\ NativeView(c) \in Views
         /\ disabledAuthData \in Views
<1>1. AuthData(c) \in Views /\ disabledAuthData \in Views /\ NativeView(c) \in Views
  BY DEF AuthData, disabledAuthData, NativeView, Views, Contents
<1>2. ParseAuth(named, n, c) \in Views /\ ParseAuth(FALSE, n, c) \in Views
  BY <1>1 DEF ParseAuth
<1> QED BY <1>1, <1>2 DEF RefreshAuth

\* The record the watcher registers for a document is a runtime record.
LEMMA AuthTypes ==
  ASSUME NEW n, NEW c \in Contents, NEW t \in Nat
  PROVE  Registered(n, c, t) \in Auths /\ Unregistered \in Auths
<1>1. Unregistered \in Auths
  BY ContentTypes, ViewTypes DEF Unregistered, Auths
<1>2. ParseAuth(TRUE, n, c) \in Views /\ NativeView(c) \in Views
  BY ViewTypes
<1> QED BY <1>1, <1>2 DEF Registered, Auths

-----------------------------------------------------------------------------
(* The type invariant.                                                     *)

\* The host's own steps keep the directory and the auth manager well typed.
LEMMA HostTypes ==
  ASSUME HostTypeOK,
         \/ \E n \in Names : Background(n) \/ OperatorDelete(n) \/ OperatorWrite(n)
         \/ \E n \in Names, c \in Contents, t \in Nat : AuthSave(n, c) \/ ReplaceFile(n, c, t)
         \/ Tick \/ Restart \/ UNCHANGED hostVars
  PROVE  HostTypeOK'
<1> USE AuthHostConstants DEF HostTypeOK
<1>w. ASSUME NEW n \in Names, NEW c \in Contents, NEW t \in Nat, WriteFile(n, c, t)
      PROVE  /\ file' \in [Names -> [mod: Nat, content: Contents]]
             /\ event' \in [Names -> Events]
  BY <1>w DEF WriteFile, Events
<1>j. NoEvent \in Events /\ NoJob \in Jobs
  BY ContentTypes DEF NoEvent, NoJob, Events, Jobs
<1>1. ASSUME NEW n \in Names, WatchRead(n) PROVE HostTypeOK'
  BY <1>1, <1>j DEF WatchRead, Events, Jobs
<1>2. ASSUME NEW n \in Names, WatchSkip(n) PROVE HostTypeOK'
  BY <1>2, <1>j DEF WatchSkip
<1>3. ASSUME NEW n \in Names, WatchApply(n) PROVE HostTypeOK'
  <2>1. Registered(n, watch[n].content, now) \in Auths
    BY AuthTypes DEF Jobs
  <2> QED BY <1>3, <1>j, <2>1 DEF WatchApply
<1>4. ASSUME NEW n \in Names, RefreshStart(n) PROVE HostTypeOK'
  <2>1. auth[n].storage \in Contents
    BY DEF Auths
  <2>2. [on |-> TRUE, due |-> now + RefreshLag, content |-> auth[n].storage] \in Jobs
    BY <2>1 DEF Jobs
  <2>3. used' \in [refresh: Nat, operator: Nat, crash: Nat]
    BY <1>4 DEF RefreshStart
  <2> QED BY <1>4, <2>2, <2>3 DEF RefreshStart
<1>5. ASSUME NEW n \in Names, RefreshApply(n) PROVE HostTypeOK'
  <2>1. refresh[n].content \in Contents
    BY DEF Jobs
  <2>2. RefreshAuth(n, refresh[n].content) \in Views
    BY <2>1, ViewTypes
  <2>3. refresh' \in [Names -> Jobs] /\ UNCHANGED <<now, watch, seen, used>>
    BY <1>5, <1>j DEF RefreshApply
  <2>4. CASE auth[n].reg
    <3>1. WriteFile(n, refresh[n].content, now)
      BY <1>5, <2>4 DEF RefreshApply
    <3>2. [reg |-> TRUE, updated |-> now, storage |-> refresh[n].content,
           view |-> RefreshAuth(n, refresh[n].content)] \in Auths
      BY <2>1, <2>2 DEF Auths
    <3>3. auth' \in [Names -> Auths]
      BY <1>5, <2>4, <3>2 DEF RefreshApply
    <3> QED BY <3>1, <3>3, <2>1, <2>3, <1>w
  <2>5. CASE ~auth[n].reg
    BY <1>5, <2>5, <2>3 DEF RefreshApply
  <2> QED BY <2>4, <2>5
<1>6. ASSUME NEW n \in Names, OperatorDelete(n) PROVE HostTypeOK'
  <2>1. Absent \in Contents /\ Unregistered \in Auths
    BY ContentTypes, AuthTypes
  <2>2. WriteFile(n, Absent, now)
    BY <1>6 DEF OperatorDelete
  <2>3. /\ auth' \in [Names -> Auths]
        /\ used' \in [refresh: Nat, operator: Nat, crash: Nat]
        /\ UNCHANGED <<now, watch, refresh, seen>>
    BY <1>6, <2>1 DEF OperatorDelete
  <2> QED BY <2>1, <2>2, <2>3, <1>w
<1>7. ASSUME NEW n \in Names, OperatorWrite(n) PROVE HostTypeOK'
  <2>1. PICK c \in OperatorContents : WriteFile(n, c, now)
    BY <1>7 DEF OperatorWrite
  <2>2. c \in Contents
    BY <2>1
  <2>3. /\ used' \in [refresh: Nat, operator: Nat, crash: Nat]
        /\ UNCHANGED <<now, auth, watch, refresh, seen>>
    BY <1>7 DEF OperatorWrite
  <2> QED BY <2>1, <2>2, <2>3, <1>w
<1>8. ASSUME NEW n \in Names, NEW c \in Contents, AuthSave(n, c) PROVE HostTypeOK'
  <2>1. WriteFile(n, c, now) /\ UNCHANGED <<now, watch, refresh, seen, used>>
    BY <1>8 DEF AuthSave
  <2>2. NativeView(c) \in Views
    BY ViewTypes
  <2>3. auth' \in [Names -> Auths]
    BY <1>8, <2>2 DEF AuthSave, Auths
  <2> QED BY <2>1, <2>3, <1>w
<1>9. ASSUME NEW n \in Names, NEW c \in Contents, NEW t \in Nat, ReplaceFile(n, c, t)
      PROVE  HostTypeOK'
  BY <1>9, <1>w DEF ReplaceFile
<1>10. CASE Tick
  BY <1>10 DEF Tick
<1>11. CASE Restart
  <2>1. \A n \in Names : Registered(n, file[n].content, now) \in Auths
    BY AuthTypes
  <2> QED BY <1>11, <1>j, <2>1 DEF Restart
<1>12. CASE UNCHANGED hostVars
  BY <1>12 DEF hostVars
<1> QED
  BY <1>1, <1>2, <1>3, <1>4, <1>5, <1>6, <1>7, <1>8, <1>9, <1>10, <1>11, <1>12
     DEF Background, DueWork

\* The directory CPA loads at start-up gives a well typed host.
LEMMA HostInitTypes == HostInit => HostTypeOK
<1> SUFFICES ASSUME HostInit PROVE HostTypeOK
  OBVIOUS
<1> USE AuthHostConstants
<1>1. PICK dir \in InitDirs : file = [n \in Names |-> [mod |-> 0, content |-> dir[n]]]
  BY DEF HostInit
<1>2. file \in [Names -> [mod: Nat, content: Contents]]
  BY <1>1
<1>3. \A n \in Names : Registered(n, file[n].content, 0) \in Auths
  BY <1>2, AuthTypes
<1>4. NoEvent \in Events /\ NoJob \in Jobs
  BY ContentTypes DEF NoEvent, NoJob, Events, Jobs
<1> QED BY <1>2, <1>3, <1>4 DEF HostInit, HostTypeOK

-----------------------------------------------------------------------------
(* What a request's locals satisfy at each point of the handler.  TypeOK   *)
(* alone is not inductive: the file a request rewrites must be one of      *)
(* Names, which rests on what resolveFileName checked.                     *)

Waiting == {"stat", "read", "runtime", "confirm", "confirmRead", "confirmRuntime",
            "check", "write", "rename", "sleep", "timer"}

\* The request has a complete credential and a file named after its principal.
Bound(r) ==
  /\ target[r] \in Names
  /\ Validate(cred[r])
  /\ IsOwnedFileForPrincipal(target[r], cred[r].account, cred[r].user)

LocalOK(r) ==
  /\ pc[r] # "done" => result[r] = "none"
  /\ pc[r] = "lock" => input[r] \in Inputs /\ input[r].kind # "malformed"
  /\ pc[r] = "get" => input[r].name \in Names
  /\ pc[r] = "inspect" =>
       /\ Validate(cred[r])
       /\ \A n \in scan[r].same :
            IsOwnedFileForPrincipal(n, cred[r].account, cred[r].user)
  /\ pc[r] \in Waiting \/ result[r] \in Saved => Bound(r)

LocalsOK == \A r \in Requests : LocalOK(r)

\* A step of request r leaves the other requests' locals alone.
Alone(r) ==
  \A q \in Requests \ {r} :
    /\ pc'[q] = pc[q] /\ result'[q] = result[q] /\ input'[q] = input[q]
    /\ cred'[q] = cred[q] /\ scan'[q] = scan[q] /\ target'[q] = target[q]

\* A step of one request keeps what holds of the locals of the others.
LEMMA OthersOK ==
  ASSUME LocalsOK, NEW r \in Requests, Alone(r), LocalOK(r)'
  PROVE  LocalsOK'
BY DEF LocalsOK, LocalOK, Alone, Bound, Validate

\* What FetchIdentity, and the history variable, make of a reply is of the
\* declared kinds.
LEMMA ReplyTypes ==
  ASSUME NEW reply \in Replies
  PROVE  /\ FetchIdentity(reply) \in FailureKinds \cup {"valid"}
         /\ Verdict(reply) \in Verdicts
         /\ reply.identity \in Identities
<1>1. classifyStatus(reply.status) \in FailureKinds
  BY DEF classifyStatus, FailureKinds
<1>2. FetchIdentity(reply) \in FailureKinds \cup {"valid"}
  BY <1>1 DEF FetchIdentity, FailureKinds
<1>3. reply.identity \in Identities
  BY DEF Replies
<1>4. Silence \in Verdicts
  BY <1>3 DEF Silence, Verdicts
<1>5. Verdict(reply) \in Verdicts
  BY <1>3, <1>4 DEF Verdict, Verdicts
<1> QED BY <1>2, <1>3, <1>5

\* The initial values of a request's locals are well typed.
LEMMA LocalConstants ==
  NoScan \in Scans /\ NoWait \in Waits /\ Silence \in Verdicts /\ Absent \in Contents
<1>1. Identities # {}
  <2>1. PICK a \in Accounts, u \in Users, m \in Metas : TRUE
    BY CredentialConstants
  <2>2. [account |-> a, user |-> u, meta |-> m] \in Identities
    BY DEF Identities
  <2> QED BY <2>2
<1>2. Silence \in Verdicts
  <2>1. (CHOOSE i \in Identities : TRUE) \in Identities
    BY <1>1
  <2> QED BY <2>1 DEF Silence, Verdicts
<1> QED BY <1>2, ContentTypes DEF NoScan, Scans, NoWait, Waits

\* Every step of the handler that answers does so through Return, every other
\* through Goto.
LEMMA GotoTypes ==
  ASSUME TypeOK, NEW r \in Requests, NEW label \in Pcs, Goto(r, label)
  PROVE  /\ mutex' \in Requests \cup {Free}
         /\ pc' \in [Requests -> Pcs] /\ pc'[r] = label
         /\ result' \in [Requests -> Results] /\ result'[r] = result[r]
         /\ \A q \in Requests \ {r} : pc'[q] = pc[q] /\ result'[q] = result[q]
BY DEF TypeOK, Goto

\* Returning a response keeps control well typed.
LEMMA ReturnTypes ==
  ASSUME TypeOK, NEW r \in Requests, NEW res \in Results, Return(r, res)
  PROVE  /\ mutex' \in Requests \cup {Free}
         /\ pc' \in [Requests -> Pcs] /\ pc'[r] = "done"
         /\ result' \in [Requests -> Results] /\ result'[r] = res
         /\ \A q \in Requests \ {r} : pc'[q] = pc[q] /\ result'[q] = result[q]
BY DEF TypeOK, Return, Pcs

\* resolveFileName returns.
Forget(r) == scan' = [scan EXCEPT ![r] = NoScan]

\* Dropping the locals of resolveFileName keeps them well typed.
LEMMA ForgetTypes ==
  ASSUME TypeOK, NEW r \in Requests, scan' = scan \/ Forget(r)
  PROVE  /\ scan' \in [Requests -> Scans]
         /\ \A q \in Requests \ {r} : scan'[q] = scan[q]
BY LocalConstants DEF TypeOK, Forget

\* A request that fails: whatever it leaves behind, it no longer claims anything.
LEMMA FailOK ==
  ASSUME TypeOK, LocalsOK, NEW r \in Requests, NEW res \in Results \ Saved,
         Return(r, res), HostTypeOK', UNCHANGED <<input, cred>>,
         scan' = scan \/ Forget(r),
         target' \in [Requests -> Names \cup {NoName}],
         \A q \in Requests \ {r} : target'[q] = target[q],
         wait' \in [Requests -> Waits],
         heard' \in [Requests -> Verdicts],
         touched' \in [Requests -> BOOLEAN]
  PROVE  TypeOK' /\ LocalsOK'
<1>1. TypeOK'
  BY ReturnTypes, ForgetTypes DEF TypeOK
<1>2. LocalOK(r)' /\ Alone(r)
  BY ReturnTypes, ForgetTypes DEF LocalOK, Alone, Waiting
<1> QED BY <1>1, <1>2, OthersOK

\* A request that goes on with the same credential and file.
LEMMA GoOK ==
  ASSUME TypeOK, LocalsOK, NEW r \in Requests, NEW label \in Waiting,
         Goto(r, label), pc[r] \in Waiting, HostTypeOK',
         UNCHANGED <<input, cred, scan, target, heard>>,
         wait' \in [Requests -> Waits],
         touched' \in [Requests -> BOOLEAN]
  PROVE  TypeOK' /\ LocalsOK'
<1>0. label \in Pcs /\ label \notin {"done", "lock", "get", "inspect"}
  BY DEF Waiting, Pcs
<1>1. TypeOK'
  BY <1>0, GotoTypes DEF TypeOK
<1>2. LocalOK(r)' /\ Alone(r)
  BY <1>0, GotoTypes DEF LocalsOK, LocalOK, Alone, Waiting, Bound, Validate
<1> QED BY <1>1, <1>2, OthersOK

-----------------------------------------------------------------------------
(* One lemma per step of the handler.                                      *)

\* Decoding the request body.
LEMMA ArriveOK ==
  ASSUME TypeOK, LocalsOK, NEW r \in Requests, Arrive(r)
  PROVE  TypeOK' /\ LocalsOK'
<1>1. PICK i \in Inputs :
        /\ input' = [input EXCEPT ![r] = i]
        /\ IF i.kind = "malformed"
           THEN /\ pc' = [pc EXCEPT ![r] = "done"]
                /\ result' = [result EXCEPT ![r] = "invalid_request"]
                /\ UNCHANGED mutex
           ELSE Goto(r, "lock")
  BY DEF Arrive
<1>2. pc[r] = "idle" /\ UNCHANGED <<hostVars, cred, scan, target, wait, ghostVars>>
  BY DEF Arrive
<1>3. HostTypeOK'
  BY <1>2, HostTypes DEF TypeOK
<1>4. TypeOK'
  BY <1>1, <1>2, <1>3 DEF TypeOK, ghostVars, Goto, Pcs, Results
<1>5. LocalOK(r)'
  BY <1>1, <1>2 DEF TypeOK, LocalsOK, LocalOK, Goto, Waiting, Saved
<1>6. Alone(r)
  BY <1>1, <1>2 DEF TypeOK, Alone, Goto
<1> QED BY <1>4, <1>5, <1>6, OthersOK

\* Taking mutationMu.
LEMMA LockOK ==
  ASSUME TypeOK, LocalsOK, NEW r \in Requests, Lock(r)
  PROVE  TypeOK' /\ LocalsOK'
<1> USE DEF Lock
<1>1. HostTypeOK'
  BY HostTypes DEF TypeOK
<1>2. TypeOK'
  BY <1>1 DEF TypeOK, localVars, ghostVars, Pcs
<1>3. LocalOK(r)'
  <2>1. input[r] \in Inputs /\ input[r].kind # "malformed"
    BY DEF LocalsOK, LocalOK
  <2>2. input[r].kind # "import" => input[r].name \in Names
    BY <2>1, PatServiceConstants
  <2> QED BY <2>1, <2>2 DEF TypeOK, LocalsOK, LocalOK, Waiting, Saved, localVars
<1>4. Alone(r)
  BY DEF TypeOK, Alone, localVars
<1> QED BY <1>2, <1>3, <1>4, OthersOK

\* Service.Import up to the save: the credential it builds is valid.
LEMMA ImportOK ==
  ASSUME TypeOK, LocalsOK, NEW r \in Requests, Import(r)
  PROVE  TypeOK' /\ LocalsOK'
<1>1. pc[r] = "import" /\ UNCHANGED <<hostVars, input, scan, target, wait, touched>>
  BY DEF Import
<1>2. HostTypeOK'
  BY <1>1, HostTypes DEF TypeOK
<1>3. result[r] = "none"
  BY <1>1 DEF LocalsOK, LocalOK
<1>4. CASE UnusableBaseURL(r)
  <2>1. Return(r, "invalid_input") /\ UNCHANGED <<cred, heard>>
    BY <1>4 DEF UnusableBaseURL
  <2>2. "invalid_input" \in Results \ Saved
    BY DEF Results, Saved
  <2> QED BY <1>1, <1>2, <2>1, <2>2, FailOK DEF TypeOK
<1>5. CASE input[r].token \in Tokens /\ ~UnusableBaseURL(r)
  <2>1. PICK reply \in Replies :
          /\ heard' = [heard EXCEPT ![r] = Verdict(reply)]
          /\ IF FetchIdentity(reply) # "valid"
             THEN Return(r, FetchIdentity(reply)) /\ UNCHANGED cred
             ELSE /\ cred' = [cred EXCEPT ![r] =
                                NewCredential(input[r].token, reply.identity, r)]
                  /\ Goto(r, "list")
    BY <1>5 DEF Import
  <2>2. heard' \in [Requests -> Verdicts]
    BY <2>1, ReplyTypes DEF TypeOK
  <2>3. CASE FetchIdentity(reply) # "valid"
    <3>1. FetchIdentity(reply) \in Results \ Saved
      BY <2>3, ReplyTypes DEF Results, Saved, FailureKinds
    <3> QED BY <1>1, <1>2, <2>1, <2>2, <2>3, <3>1, FailOK DEF TypeOK
  <2>4. CASE FetchIdentity(reply) = "valid"
    <3>1. NewCredential(input[r].token, reply.identity, r) \in Contents
      BY <1>5, ReplyTypes, ContentTypes, PatServiceConstants
    <3>2. "list" \in Pcs /\ "list" \notin Waiting
      BY DEF Pcs, Waiting
    <3>3. TypeOK'
      BY <1>1, <1>2, <2>1, <2>2, <2>4, <3>1, <3>2, GotoTypes DEF TypeOK
    <3>4. LocalOK(r)' /\ Alone(r)
      BY <1>1, <1>3, <2>1, <2>4, <3>2, GotoTypes DEF TypeOK, LocalOK, Alone, Saved
    <3> QED BY <3>3, <3>4, OthersOK
  <2> QED BY <2>3, <2>4
<1>6. input[r].token \notin Tokens => UnusableBaseURL(r)
  BY DEF Import, UnusableBaseURL
<1> QED BY <1>4, <1>5, <1>6

\* handleRevalidate's checks: the credential that goes on is valid.
LEMMA GetSavedOK ==
  ASSUME TypeOK, LocalsOK, NEW r \in Requests, GetSaved(r)
  PROVE  TypeOK' /\ LocalsOK'
<1> DEFINE n == input[r].name
           c == file[n].content
<1>1. pc[r] = "get" /\ UNCHANGED <<hostVars, input, scan, target, wait, ghostVars>>
  BY DEF GetSaved
<1>2. HostTypeOK'
  BY <1>1, HostTypes DEF TypeOK
<1>3. result[r] = "none" /\ n \in Names
  BY <1>1 DEF LocalsOK, LocalOK
<1>4. c \in Contents
  BY <1>3 DEF TypeOK, HostTypeOK
<1>5. ASSUME NEW res \in Results \ Saved, Return(r, res), UNCHANGED cred
      PROVE  TypeOK' /\ LocalsOK'
  BY <1>1, <1>2, <1>5, FailOK DEF TypeOK, ghostVars
<1>6. CASE cred' = [cred EXCEPT ![r] = c] /\ Goto(r, "validate")
  <2>1. "validate" \in Pcs \ Waiting
    BY DEF Pcs, Waiting
  <2>2. TypeOK'
    BY <1>1, <1>2, <1>4, <1>6, <2>1, GotoTypes DEF TypeOK, ghostVars
  <2>3. LocalOK(r)' /\ Alone(r)
    BY <1>1, <1>3, <1>6, <2>1, GotoTypes DEF TypeOK, LocalOK, Alone, Saved
  <2> QED BY <2>2, <2>3, OthersOK
<1>7. SavedCredentialRefused(n, c) # "none" => SavedCredentialRefused(n, c) \in Results \ Saved
  BY DEF SavedCredentialRefused, Results, Saved
<1>8. "credential_not_found" \in Results \ Saved
  BY DEF Results, Saved
<1> QED BY <1>5, <1>6, <1>7, <1>8 DEF GetSaved

\* Service.Revalidate: disabling or refreshing a valid credential keeps it valid.
LEMMA RevalidateOK ==
  ASSUME TypeOK, LocalsOK, NEW r \in Requests, Revalidate(r)
  PROVE  TypeOK' /\ LocalsOK'
<1>1. pc[r] = "validate" /\ UNCHANGED <<hostVars, input, scan, target, wait, touched>>
  BY DEF Revalidate
<1>2. HostTypeOK'
  BY <1>1, HostTypes DEF TypeOK
<1>3. result[r] = "none"
  BY <1>1 DEF LocalsOK, LocalOK
<1>8. CASE UnusableBaseURL(r)
  <2>1. Return(r, "invalid_input") /\ UNCHANGED <<cred, heard>>
    BY <1>8 DEF UnusableBaseURL
  <2>2. "invalid_input" \in Results \ Saved
    BY DEF Results, Saved
  <2> QED BY <1>1, <1>2, <2>1, <2>2, FailOK DEF TypeOK
<1> SUFFICES ASSUME ~UnusableBaseURL(r) PROVE TypeOK' /\ LocalsOK'
  BY <1>8
<1>4. PICK reply \in Replies :
        /\ heard' = [heard EXCEPT ![r] = Verdict(reply)]
        /\ IF FetchIdentity(reply) \in {"valid", "authentication_failed"}
           THEN /\ cred' = [cred EXCEPT ![r] = Revalidated(cred[r], reply, r)]
                /\ Goto(r, "list")
           ELSE Return(r, FetchIdentity(reply)) /\ UNCHANGED cred
  BY DEF Revalidate
<1>5. heard' \in [Requests -> Verdicts]
  BY <1>4, ReplyTypes DEF TypeOK
<1>6. CASE FetchIdentity(reply) \in {"valid", "authentication_failed"}
  <2>1. /\ Disable(cred[r], "invalid", r) \in Contents
        /\ Disable(cred[r], "account_mismatch", r) \in Contents
        /\ ApplyIdentity(cred[r], reply.identity, r) \in Contents
    BY ReplyTypes, ContentTypes, PatServiceConstants DEF TypeOK
  <2>2. Revalidated(cred[r], reply, r) \in Contents
    BY <2>1 DEF Revalidated
  <2>3. "list" \in Pcs \ Waiting
    BY DEF Pcs, Waiting
  <2>4. TypeOK'
    BY <1>1, <1>2, <1>4, <1>5, <1>6, <2>2, <2>3, GotoTypes DEF TypeOK
  <2>5. LocalOK(r)' /\ Alone(r)
    BY <1>1, <1>3, <1>4, <1>6, <2>3, GotoTypes DEF TypeOK, LocalOK, Alone, Saved
  <2> QED BY <2>4, <2>5, OthersOK
<1>7. CASE FetchIdentity(reply) \notin {"valid", "authentication_failed"}
  <2>1. FetchIdentity(reply) \in Results \ Saved
    BY <1>7, ReplyTypes DEF Results, Saved, FailureKinds
  <2> QED BY <1>1, <1>2, <1>4, <1>5, <1>7, <2>1, FailOK DEF TypeOK
<1> QED BY <1>6, <1>7

\* The listing of resolveFileName.
LEMMA ListOK ==
  ASSUME TypeOK, LocalsOK, NEW r \in Requests, List(r)
  PROVE  TypeOK' /\ LocalsOK'
<1>1. pc[r] = "list" /\ UNCHANGED <<hostVars, input, cred, target, wait, ghostVars>>
  BY DEF List
<1>2. HostTypeOK'
  BY <1>1, HostTypes DEF TypeOK
<1>3. CASE Return(r, "persistence_failed") /\ UNCHANGED scan
  <2>1. "persistence_failed" \in Results \ Saved
    BY DEF Results, Saved
  <2> QED BY <1>1, <1>2, <1>3, <2>1, FailOK DEF TypeOK, ghostVars
<1>4. CASE ~(Return(r, "persistence_failed") /\ UNCHANGED scan)
  <2> DEFINE listed == {n \in Names : auth[n].reg}
             new == [listed |-> listed,
                     todo |-> {n \in listed : Candidate(n, cred[r])},
                     occupied |-> \E n \in listed : EqualFold(n, canonicalName(cred[r])),
                     same |-> {}]
  <2>1. Validate(cred[r]) /\ scan' = [scan EXCEPT ![r] = new] /\ Goto(r, "inspect")
    BY <1>4 DEF List
  <2>2. new \in Scans
    BY DEF Scans
  <2>3. "inspect" \in Pcs \ Waiting /\ result[r] = "none"
    BY <1>1 DEF Pcs, Waiting, LocalsOK, LocalOK
  <2> HIDE DEF new
  <2>4. TypeOK'
    BY <1>1, <1>2, <2>1, <2>2, <2>3, GotoTypes DEF TypeOK, ghostVars
  <2>5. scan'[r].same = {}
    BY <2>1 DEF TypeOK, new
  <2>6. LocalOK(r)' /\ Alone(r)
    BY <1>1, <2>1, <2>3, <2>5, GotoTypes DEF TypeOK, LocalOK, Alone, Saved, Validate
  <2> QED BY <2>4, <2>6, OthersOK
<1> QED BY <1>3, <1>4

\* What the loop of resolveFileName takes for the principal's own file carries
\* the principal's hash in its name.
LEMMA SameIsOwned ==
  ASSUME NEW n, NEW d, NEW c, Examine(n, d, c) = "same"
  PROVE  IsOwnedFileForPrincipal(n, c.account, c.user)
<1>1. /\ samePrincipal(d, c) /\ IsOwnedFile(n)
      /\ IsOwnedFile(n) => IsOwnedFileForPrincipal(n, d.account, d.user)
  BY DEF Examine
<1> QED BY <1>1 DEF samePrincipal, IsOwnedFileForPrincipal

\* One round of resolveFileName's loop: a file it accepts carries the
\* principal's hash.
LEMMA InspectOK ==
  ASSUME TypeOK, LocalsOK, NEW r \in Requests, Inspect(r)
  PROVE  TypeOK' /\ LocalsOK'
<1>1. pc[r] = "inspect" /\ UNCHANGED <<hostVars, input, cred, target, wait, ghostVars>>
  BY DEF Inspect
<1>2. HostTypeOK'
  BY <1>1, HostTypes DEF TypeOK
<1>3. CASE Return(r, "persistence_failed") /\ Forget(r)
  <2>1. "persistence_failed" \in Results \ Saved
    BY DEF Results, Saved
  <2> QED BY <1>1, <1>2, <1>3, <2>1, FailOK DEF TypeOK, ghostVars
<1>4. CASE ~(Return(r, "persistence_failed") /\ Forget(r))
  <2> DEFINE found(n) == Examine(n, file[n].content, cred[r])
             same(n) == IF found(n) = "same" THEN scan[r].same \cup {n} ELSE scan[r].same
             new(n) == [scan[r] EXCEPT !.todo = @ \ {n}, !.same = same(n)]
  <2>1. scan[r] \in Scans
    BY DEF TypeOK
  <2>2. PICK n \in scan[r].todo : scan' = [scan EXCEPT ![r] = new(n)] /\ Goto(r, "inspect")
    BY <1>4, <2>1 DEF Inspect, Forget, Scans, TypeOK
  <2>3. n \in Names /\ new(n) \in Scans /\ new(n).same = same(n)
    BY <2>1, <2>2 DEF Scans
  <2>4. /\ Validate(cred[r])
        /\ \A m \in same(n) : IsOwnedFileForPrincipal(m, cred[r].account, cred[r].user)
    BY <1>1, SameIsOwned DEF LocalsOK, LocalOK
  <2>5. "inspect" \in Pcs \ Waiting /\ result[r] = "none"
    BY <1>1 DEF Pcs, Waiting, LocalsOK, LocalOK
  <2> HIDE DEF new, same
  <2>6. TypeOK'
    BY <1>1, <1>2, <2>2, <2>3, <2>5, GotoTypes DEF TypeOK, ghostVars
  <2>7. scan'[r].same = same(n)
    BY <2>2, <2>3 DEF TypeOK
  <2>8. LocalOK(r)' /\ Alone(r)
    BY <1>1, <2>2, <2>4, <2>5, <2>7, GotoTypes DEF TypeOK, LocalOK, Alone, Saved, Validate
  <2> QED BY <2>6, <2>8, OthersOK
<1> QED BY <1>3, <1>4

\* resolveFileName returns only names of the credential's principal.
LEMMA ResolvedOwned ==
  ASSUME TypeOK, LocalsOK, NEW r \in Requests, pc[r] = "inspect", NEW n \in Resolved(r)
  PROVE  n \in Names /\ IsOwnedFileForPrincipal(n, cred[r].account, cred[r].user)
<1>1. scan[r].same \subseteq Names /\ cred[r] \in Contents
  BY DEF TypeOK, Scans
<1>2. /\ Validate(cred[r])
      /\ \A m \in scan[r].same : IsOwnedFileForPrincipal(m, cred[r].account, cred[r].user)
  BY DEF LocalsOK, LocalOK
<1>3. CASE n \in scan[r].same
  BY <1>1, <1>2, <1>3
<1>4. CASE n = canonicalName(cred[r])
  <2>1. cred[r].account \in Accounts /\ cred[r].user \in Users /\ cred[r].meta \in Metas
    BY <1>1, <1>2 DEF Validate, Contents
  <2>2. n = FileName(cred[r].account, cred[r].user, cred[r].meta)
    BY <1>4 DEF canonicalName
  <2> QED BY <1>2, <2>1, <2>2, PatServiceConstants
          DEF FileName, IsOwnedFileForPrincipal, Validate
<1> QED BY <1>3, <1>4 DEF Resolved

\* The history of foreign writes is well typed.
LEMMA TouchTypes ==
  ASSUME TypeOK, NEW n, NEW r, TouchBy(n, r)
  PROVE  touched' \in [Requests -> BOOLEAN]
BY Zenon DEF TypeOK, TouchBy

\* Entering awaitWatcherState.
LEMMA BeginWaitTypes ==
  ASSUME TypeOK, NEW r \in Requests, NEW phase \in {"stage", "final"}, BeginWait(r, phase)
  PROVE  wait' \in [Requests -> Waits]
<1>1. [NoWait EXCEPT !.phase = phase, !.deadline = now + Timeout] \in Waits
  <2>1. now + Timeout \in Nat
    BY PatServiceConstants DEF TypeOK, HostTypeOK
  <2> QED BY <2>1, LocalConstants DEF Waits
<1> QED BY <1>1 DEF BeginWait, TypeOK

\* host.auth.save writes the resolved name, which is one of Names and the
\* principal's.
LEMMA SaveOK ==
  ASSUME TypeOK, LocalsOK, NEW r \in Requests, Save(r)
  PROVE  TypeOK' /\ LocalsOK'
<1>1. pc[r] = "inspect" /\ Forget(r) /\ UNCHANGED <<input, cred, heard>>
  BY DEF Save, Forget
<1>2. "persistence_failed" \in Results \ Saved
  BY DEF Results, Saved
<1>3. CASE Return(r, "persistence_failed") /\ UNCHANGED <<hostVars, target, wait, touched>>
  <2>1. HostTypeOK'
    BY <1>3, HostTypes DEF TypeOK
  <2> QED BY <1>1, <1>2, <1>3, <2>1, FailOK DEF TypeOK
<1>4. ASSUME NEW n \in Resolved(r), AuthSave(n, Staging(r)),
             target' = [target EXCEPT ![r] = n], TouchBy(n, r),
             \/ Return(r, "persistence_failed") /\ UNCHANGED wait
             \/ BeginWait(r, "stage")
      PROVE  TypeOK' /\ LocalsOK'
  <2>1. n \in Names /\ IsOwnedFileForPrincipal(n, cred[r].account, cred[r].user)
    BY <1>1, ResolvedOwned
  <2>2. Staging(r) \in Contents
    BY ContentTypes DEF Staging, TypeOK
  <2>3. HostTypeOK'
    BY <1>4, <2>1, <2>2, HostTypes DEF TypeOK
  <2>4. /\ target' \in [Requests -> Names \cup {NoName}] /\ target'[r] = n
        /\ \A q \in Requests \ {r} : target'[q] = target[q]
    BY <1>4, <2>1 DEF TypeOK
  <2>5. touched' \in [Requests -> BOOLEAN] /\ heard' \in [Requests -> Verdicts]
    BY <1>1, <1>4, TouchTypes DEF TypeOK
  <2>6. CASE Return(r, "persistence_failed") /\ UNCHANGED wait
    <3>1. wait' \in [Requests -> Waits]
      BY <2>6 DEF TypeOK
    <3> QED BY <1>1, <1>2, <2>3, <2>4, <2>5, <2>6, <3>1, FailOK
  <2>7. CASE BeginWait(r, "stage")
    <3>1. Goto(r, "stat") /\ wait' \in [Requests -> Waits]
      BY <2>7, BeginWaitTypes DEF BeginWait
    <3>2. "stat" \in Pcs /\ Validate(cred[r]) /\ result[r] = "none"
      BY <1>1 DEF Pcs, LocalsOK, LocalOK
    <3>3. TypeOK'
      BY <1>1, <2>3, <2>4, <2>5, <3>1, <3>2, GotoTypes, ForgetTypes DEF TypeOK
    <3>4. Bound(r)'
      BY <1>1, <2>1, <2>4, <3>2 DEF Bound, Validate
    <3>5. LocalOK(r)' /\ Alone(r)
      BY <1>1, <2>4, <3>1, <3>2, <3>4, GotoTypes, ForgetTypes DEF LocalOK, Alone
    <3> QED BY <3>3, <3>5, OthersOK
  <2> QED BY <1>4, <2>6, <2>7
<1> QED BY <1>3, <1>4 DEF Save

\* Resetting stableSince and stableModTime.
LEMMA DisarmTypes ==
  ASSUME TypeOK, NEW r \in Requests, Disarm(r)
  PROVE  wait' \in [Requests -> Waits] /\ Goto(r, "sleep")
<1>1. ASSUME NEW w \in Waits PROVE Disarmed(w) \in Waits
  BY DEF Disarmed, Waits
<1> QED BY <1>1 DEF Disarm, TypeOK

\* The steps of the settling loop.
LEMMA LoopOK ==
  ASSUME TypeOK, LocalsOK, NEW r \in Requests,
         \/ AwaitStat(r) \/ AwaitRead(r) \/ AwaitRuntime(r)
         \/ ConfirmStat(r) \/ ConfirmRead(r) \/ ConfirmRuntime(r)
         \/ RewriteCheck(r) \/ WriteTemporary(r) \/ RewriteRename(r) \/ EndPoll(r) \/ Wake(r)
  PROVE  TypeOK' /\ LocalsOK'
<1> DEFINE WaitOK == wait' \in [Requests -> Waits]
<1>1. "persistence_failed" \in Results \ Saved
  BY DEF Results, Saved
<1>2. pc[r] \in Waiting /\ UNCHANGED <<input, cred, scan, target, heard>>
  BY DEF AwaitStat, AwaitRead, AwaitRuntime, ConfirmStat, ConfirmRead, ConfirmRuntime,
         RewriteCheck, WriteTemporary, RewriteRename, EndPoll, Wake, Waiting, localVars, ghostVars
<1>3. Bound(r) /\ wait[r] \in Waits /\ result[r] = "none"
  BY <1>2 DEF LocalsOK, LocalOK, TypeOK, Waiting
<1>4. ASSUME Return(r, "persistence_failed"), HostTypeOK', WaitOK,
             touched' \in [Requests -> BOOLEAN]
      PROVE  TypeOK' /\ LocalsOK'
  BY <1>1, <1>2, <1>4, FailOK DEF TypeOK
<1>5. ASSUME NEW label \in Waiting, Goto(r, label), HostTypeOK', WaitOK,
             touched' \in [Requests -> BOOLEAN]
      PROVE  TypeOK' /\ LocalsOK'
  BY <1>2, <1>5, GoOK
<1>6. ASSUME UNCHANGED hostVars PROVE HostTypeOK'
  BY <1>6, HostTypes DEF TypeOK
<1>7. file[target[r]].mod \in Nat /\ now \in Nat
  BY <1>3 DEF TypeOK, HostTypeOK, Bound
<1>8. ASSUME NEW label \in Waiting, Stat(r, label), UNCHANGED hostVars,
             touched' \in [Requests -> BOOLEAN]
      PROVE  TypeOK' /\ LocalsOK'
  <2>1. wait' \in [Requests -> Waits]
    <3>1. [wait[r] EXCEPT !.mod = file[target[r]].mod] \in Waits
      BY <1>3, <1>7 DEF Waits
    <3>2. wait' = wait \/ wait' = [wait EXCEPT ![r] = [wait[r] EXCEPT !.mod = file[target[r]].mod]]
      BY <1>8 DEF Stat, TypeOK
    <3> QED BY <3>1, <3>2 DEF TypeOK
  <2> QED BY <1>4, <1>5, <1>6, <1>8, <2>1 DEF Stat
<1>9. UNCHANGED touched => touched' \in [Requests -> BOOLEAN]
  BY DEF TypeOK
<1>10. CASE AwaitStat(r)
  <2>1. Stat(r, "read") /\ UNCHANGED <<hostVars, touched>> /\ "read" \in Waiting
    BY <1>10 DEF AwaitStat, ghostVars, Waiting
  <2> QED BY <1>8, <1>9, <2>1
<1>11. CASE AwaitRead(r)
  <2>1. /\ UNCHANGED <<hostVars, touched, wait>> /\ "check" \in Waiting /\ "runtime" \in Waiting
        /\ \/ Return(r, "persistence_failed") \/ Goto(r, "check") \/ Goto(r, "runtime")
    BY <1>11 DEF AwaitRead, localVars, ghostVars, Waiting
  <2>2. WaitOK
    BY <2>1 DEF TypeOK
  <2> QED BY <1>4, <1>5, <1>6, <1>9, <2>1, <2>2
<1>12. CASE AwaitRuntime(r)
  <2>1. UNCHANGED <<hostVars, touched>>
        /\ "sleep" \in Waiting /\ "confirm" \in Waiting
    BY <1>12 DEF AwaitRuntime, ghostVars, Waiting
  <2>2. CASE Goto(r, "sleep") /\ UNCHANGED wait
    <3>1. WaitOK
      BY <2>2 DEF TypeOK
    <3> QED BY <1>5, <1>6, <1>9, <2>1, <2>2, <3>1
  <2>3. CASE Disarm(r)
    BY <1>5, <1>6, <1>9, <2>1, <2>3, DisarmTypes
  <2>4. CASE /\ wait' = [wait EXCEPT ![r] = Armed(@)]
             /\ Goto(r, "confirm") \/ Goto(r, "sleep")
    <3>1. Armed(wait[r]) \in Waits
      BY <1>3, <1>7 DEF Armed, Waits
    <3>2. WaitOK
      BY <2>4, <3>1 DEF TypeOK
    <3> QED BY <1>5, <1>6, <1>9, <2>1, <2>4, <3>2
  <2> QED BY <1>12, <2>2, <2>3, <2>4 DEF AwaitRuntime
<1>13. CASE ConfirmStat(r)
  <2>1. Stat(r, "confirmRead") /\ UNCHANGED hostVars /\ Look(r) /\ "confirmRead" \in Waiting
    BY <1>13 DEF ConfirmStat, Waiting
  <2>2. touched' \in [Requests -> BOOLEAN]
    BY <2>1 DEF Look, TypeOK
  <2> QED BY <1>8, <2>1, <2>2
<1>14. CASE ConfirmRead(r)
  <2> DEFINE ready == wait[r].phase = "stage" \/ file[target[r]].content = Desired(r)
  <2>1. UNCHANGED <<hostVars, touched>> /\ "confirmRuntime" \in Waiting
    BY <1>14 DEF ConfirmRead, ghostVars, Waiting
  <2>2. [wait[r] EXCEPT !.content = ready] \in Waits
    BY <1>3 DEF Waits
  <2>3. \/ Return(r, "persistence_failed") /\ UNCHANGED wait
        \/ /\ wait' = [wait EXCEPT ![r] = [wait[r] EXCEPT !.content = ready]]
           /\ Goto(r, "confirmRuntime")
    BY <1>14 DEF ConfirmRead, TypeOK
  <2> HIDE DEF ready
  <2>4. WaitOK
    BY <2>2, <2>3 DEF TypeOK
  <2> QED BY <1>4, <1>5, <1>6, <1>9, <2>1, <2>3, <2>4
<1>15. CASE ConfirmRuntime(r)
  <2>1. UNCHANGED <<hostVars, touched>> /\ "sleep" \in Waiting /\ "check" \in Waiting
    BY <1>15 DEF ConfirmRuntime, ghostVars, Waiting
  <2>2. CASE Disarm(r)
    BY <1>5, <1>6, <1>9, <2>1, <2>2, DisarmTypes
  <2>3. CASE Goto(r, "check") /\ UNCHANGED wait
    <3>1. WaitOK
      BY <2>3 DEF TypeOK
    <3> QED BY <1>5, <1>6, <1>9, <2>1, <2>3, <3>1
  <2>4. CASE Return(r, cred[r].state) /\ UNCHANGED wait
    <3>1. cred[r].state \in Results
      BY DEF TypeOK, Contents, Results, Saved
    <3>2. TypeOK'
      BY <1>2, <1>6, <2>1, <2>4, <3>1, ReturnTypes DEF TypeOK
    <3>3. LocalOK(r)' /\ Alone(r)
      BY <1>2, <1>3, <2>4, <3>1, ReturnTypes DEF LocalOK, Alone, Bound, Validate
    <3> QED BY <3>2, <3>3, OthersOK
  <2> QED BY <1>15, <2>2, <2>3, <2>4 DEF ConfirmRuntime
<1>16. CASE RewriteCheck(r)
  <2>1. /\ UNCHANGED <<hostVars, touched, wait>> /\ "write" \in Waiting
        /\ \/ Return(r, "persistence_failed") \/ Goto(r, "write")
    BY <1>16 DEF RewriteCheck, localVars, ghostVars, Waiting
  <2>2. WaitOK
    BY <2>1 DEF TypeOK
  <2> QED BY <1>4, <1>5, <1>6, <1>9, <2>1, <2>2
<1>20. CASE WriteTemporary(r)
  <2>1. UNCHANGED <<hostVars, touched>> /\ "rename" \in Waiting
    BY <1>20 DEF WriteTemporary, ghostVars, Waiting
  <2>2. [wait[r] EXCEPT !.temp = now] \in Waits
    BY <1>3, <1>7 DEF Waits
  <2>3. \/ Return(r, "persistence_failed") /\ UNCHANGED wait
        \/ /\ wait' = [wait EXCEPT ![r] = [wait[r] EXCEPT !.temp = now]]
           /\ Goto(r, "rename")
    BY <1>20 DEF WriteTemporary, TypeOK
  <2>4. WaitOK
    BY <2>2, <2>3 DEF TypeOK
  <2> QED BY <1>4, <1>5, <1>6, <1>9, <2>1, <2>3, <2>4
<1>17. CASE RewriteRename(r)
  <2>1. CASE Return(r, "persistence_failed") /\ UNCHANGED <<hostVars, wait, touched>>
    <3>1. WaitOK
      BY <2>1 DEF TypeOK
    <3> QED BY <1>4, <1>6, <1>9, <2>1, <3>1
  <2>2. CASE /\ ReplaceFile(target[r], Desired(r), wait[r].temp) /\ TouchBy(target[r], r)
             /\ BeginWait(r, "final") \/ Disarm(r)
    <3>1. HostTypeOK'
      BY <1>3, <2>2, HostTypes DEF TypeOK, Desired, Bound, Waits
    <3>2. touched' \in [Requests -> BOOLEAN]
      BY <2>2, TouchTypes
    <3>3. /\ WaitOK /\ "stat" \in Waiting /\ "sleep" \in Waiting
          /\ Goto(r, "stat") \/ Goto(r, "sleep")
      BY <2>2, BeginWaitTypes, DisarmTypes DEF BeginWait, Waiting
    <3> QED BY <1>5, <3>1, <3>2, <3>3
  <2> QED BY <1>17, <2>1, <2>2 DEF RewriteRename
<1>18. CASE EndPoll(r)
  <2>1. UNCHANGED <<hostVars, touched>> /\ "timer" \in Waiting
    BY <1>18 DEF EndPoll, ghostVars, Waiting
  <2>2. [wait[r] EXCEPT !.wake = now + PollInterval] \in Waits
    BY <1>3, <1>7, PatServiceConstants DEF Waits
  <2>3. \/ Return(r, "persistence_failed") /\ UNCHANGED wait
        \/ /\ wait' = [wait EXCEPT ![r] = [wait[r] EXCEPT !.wake = now + PollInterval]]
           /\ Goto(r, "timer")
    BY <1>18 DEF EndPoll, TypeOK
  <2>4. WaitOK
    BY <2>2, <2>3 DEF TypeOK
  <2> QED BY <1>4, <1>5, <1>6, <1>9, <2>1, <2>3, <2>4
<1>19. CASE Wake(r)
  <2>1. UNCHANGED <<hostVars, touched, wait>> /\ "stat" \in Waiting /\ Goto(r, "stat")
    BY <1>19 DEF Wake, localVars, ghostVars, Waiting
  <2>2. WaitOK
    BY <2>1 DEF TypeOK
  <2> QED BY <1>5, <1>6, <1>9, <2>1, <2>2
<1> QED BY <1>10, <1>11, <1>12, <1>13, <1>14, <1>15, <1>16, <1>17, <1>18, <1>19,
       <1>20

\* The host's steps leave every request where it is; a crash ends those under way.
LEMMA HostStepsOK ==
  ASSUME TypeOK, LocalsOK,
         (\E n \in Names : Operator(n) \/ HostWork(n)) \/ Clock \/ Crash \/ UNCHANGED vars
  PROVE  TypeOK' /\ LocalsOK'
<1>1. ASSUME HostTypeOK', UNCHANGED <<ctlVars, localVars, heard>>,
             touched' \in [Requests -> BOOLEAN]
      PROVE  TypeOK' /\ LocalsOK'
  <2>1. TypeOK'
    BY <1>1 DEF TypeOK, ctlVars, localVars
  <2>2. LocalsOK'
    BY <1>1 DEF LocalsOK, LocalOK, Bound, Validate, ctlVars, localVars
  <2> QED BY <2>1, <2>2
<1>2. UNCHANGED touched => touched' \in [Requests -> BOOLEAN]
  BY DEF TypeOK
<1>3. ASSUME NEW n \in Names, Operator(n) PROVE TypeOK' /\ LocalsOK'
  <2>1. HostTypeOK'
    BY <1>3, HostTypes DEF TypeOK, Operator
  <2>2. touched' \in [Requests -> BOOLEAN]
    BY <1>3, TouchTypes DEF Operator
  <2> QED BY <1>1, <1>3, <2>1, <2>2 DEF Operator
<1>4. ASSUME NEW n \in Names, HostWork(n) PROVE TypeOK' /\ LocalsOK'
  <2>1. HostTypeOK'
    BY <1>4, HostTypes DEF TypeOK, HostWork
  <2> QED BY <1>1, <1>2, <1>4, <2>1 DEF HostWork, ghostVars
<1>5. CASE Clock
  <2>1. HostTypeOK'
    BY <1>5, HostTypes DEF TypeOK, Clock
  <2> QED BY <1>1, <1>2, <1>5, <2>1 DEF Clock, ghostVars
<1>6. CASE Crash
  <2>1. HostTypeOK'
    BY <1>6, HostTypes DEF TypeOK, Crash
  <2>2. /\ pc' = [r \in Requests |-> IF InFlight(r) THEN "done" ELSE pc[r]]
        /\ result' = [r \in Requests |-> IF InFlight(r) THEN "crashed" ELSE result[r]]
        /\ mutex' = Free
        /\ UNCHANGED <<localVars, ghostVars>>
    BY <1>6 DEF Crash
  <2>3. TypeOK'
    BY <2>1, <2>2 DEF TypeOK, localVars, ghostVars, Pcs, Results
  <2>4. LocalsOK'
    BY <2>2 DEF LocalsOK, LocalOK, Bound, Validate, localVars, InFlight, Waiting, Saved
  <2> QED BY <2>3, <2>4
<1>7. CASE UNCHANGED vars
  <2>1. HostTypeOK'
    BY <1>7, HostTypes DEF TypeOK, vars
  <2> QED BY <1>1, <1>2, <1>7, <2>1 DEF vars, ghostVars
<1> QED BY <1>3, <1>4, <1>5, <1>6, <1>7

\* The initial state satisfies the inductive type invariant.
LEMMA InitOK == Init => TypeOK /\ LocalsOK
<1> SUFFICES ASSUME Init PROVE TypeOK /\ LocalsOK
  OBVIOUS
<1>1. HostTypeOK
  BY HostInitTypes DEF Init
<1>2. TypeOK
  BY <1>1, LocalConstants DEF Init, TypeOK, Pcs, Results
<1>3. LocalsOK
  BY DEF Init, LocalsOK, LocalOK, Waiting, Saved
<1> QED BY <1>2, <1>3

\* Every step keeps the inductive type invariant: one case per action.
LEMMA NextOK == TypeOK /\ LocalsOK /\ [Next]_vars => TypeOK' /\ LocalsOK'
<1> SUFFICES ASSUME TypeOK, LocalsOK, [Next]_vars PROVE TypeOK' /\ LocalsOK'
  OBVIOUS
<1>1. ASSUME NEW r \in Requests, Arrive(r) \/ Step(r) PROVE TypeOK' /\ LocalsOK'
  BY <1>1, ArriveOK, LockOK, ImportOK, GetSavedOK, RevalidateOK, ListOK, InspectOK,
     SaveOK, LoopOK DEF Step
<1> QED BY <1>1, HostStepsOK DEF Next

\* Whatever the constants, no interleaving of requests, host work, operator and
\* crashes takes the state out of its types: no step writes a file the plugin did
\* not resolve, no record gets a field of another shape.
THEOREM TypesAlwaysOK == Spec => []TypeOK
<1>1. Init => TypeOK /\ LocalsOK
  BY InitOK
<1>2. TypeOK /\ LocalsOK /\ [Next]_vars => TypeOK' /\ LocalsOK'
  BY NextOK
<1> QED BY <1>1, <1>2, PTL DEF Spec

-----------------------------------------------------------------------------
(* What a step of a request does to the host and to the other requests.    *)

\* A step that does not write file n, unless as the host's background work.
LeavesAlone(n) ==
  \/ \E m \in Names : Background(m)
  \/ \E m \in Names \ {n} : OperatorDelete(m) \/ OperatorWrite(m)
  \/ \E m \in Names \ {n}, d \in Contents, t \in Nat : AuthSave(m, d) \/ ReplaceFile(m, d, t)
  \/ Tick \/ Restart \/ UNCHANGED hostVars

\* The steps before the credential is staged.
Early(r) ==
  \/ Arrive(r) \/ Lock(r) \/ Import(r) \/ GetSaved(r) \/ Revalidate(r) \/ List(r) \/ Inspect(r)

\* The steps before awaitWatcherState establish nothing about settling and
\* disturb nothing of it.
LEMMA EarlySteps ==
  ASSUME TypeOK, LocalsOK, NEW r \in Requests, Early(r)
  PROVE  /\ pc'[r] \notin Waiting /\ result'[r] \notin Saved
         /\ UNCHANGED <<hostVars, wait, target, touched>>
<1> DEFINE Done == pc'[r] \notin Waiting /\ result'[r] \notin Saved
<1>1. ASSUME NEW res \in Results \ Saved, Return(r, res) PROVE Done
  BY <1>1, ReturnTypes DEF Waiting
<1>2. ASSUME NEW label \in Pcs \ Waiting, Goto(r, label), pc[r] # "done" PROVE Done
  BY <1>2, GotoTypes DEF LocalsOK, LocalOK, Saved
<1>3. {"persistence_failed", "invalid_request", "invalid_input", "credential_not_found",
       "credential_malformed"} \subseteq Results \ Saved
  BY DEF Results, Saved
<1>4. {"lock", "list", "validate", "inspect"} \subseteq Pcs \ Waiting
  BY DEF Pcs, Waiting
<1>5. FailureKinds \subseteq Results \ Saved
  BY DEF Results, Saved, FailureKinds
<1> HIDE DEF Done
<1>6. CASE Arrive(r)
  <2>1. Goto(r, "lock") => Done
    BY <1>2, <1>4, <1>6 DEF Arrive
  <2>2. pc'[r] = "done" /\ result'[r] = "invalid_request" => Done
    BY <1>3 DEF Done, Waiting
  <2>3. \/ Goto(r, "lock")
        \/ pc'[r] = "done" /\ result'[r] = "invalid_request"
    BY <1>6 DEF Arrive, TypeOK
  <2> QED BY <1>6, <2>1, <2>2, <2>3 DEF Arrive, Done, ghostVars
<1>7. CASE Lock(r)
  BY <1>7 DEF Lock, TypeOK, LocalsOK, LocalOK, Waiting, Saved, localVars, ghostVars
<1>8. CASE Import(r)
  <2>1. CASE Return(r, "invalid_input")
    BY <1>1, <1>3, <1>8, <2>1 DEF Import, UnusableBaseURL, Done
  <2>2. CASE \E reply \in Replies : FetchIdentity(reply) # "valid" /\ Return(r, FetchIdentity(reply))
    <3>1. PICK reply \in Replies : FetchIdentity(reply) # "valid" /\ Return(r, FetchIdentity(reply))
      BY <2>2
    <3>2. FetchIdentity(reply) \in Results \ Saved
      BY <1>5, <3>1, ReplyTypes
    <3> QED BY <1>1, <1>8, <3>1, <3>2 DEF Import, Done
  <2>3. CASE Goto(r, "list")
    BY <1>2, <1>4, <1>8, <2>3 DEF Import, Done
  <2> QED BY <1>8, <2>1, <2>2, <2>3 DEF Import, UnusableBaseURL
<1>9. CASE GetSaved(r)
  <2> DEFINE res == SavedCredentialRefused(input[r].name, file[input[r].name].content)
  <2>1. res # "none" => res \in Results \ Saved
    BY <1>3 DEF SavedCredentialRefused
  <2>2. \/ Return(r, "credential_not_found")
        \/ res # "none" /\ Return(r, res)
        \/ Goto(r, "validate")
    BY <1>9 DEF GetSaved
  <2> HIDE DEF res
  <2>3. Done
    BY <1>1, <1>2, <1>3, <1>4, <1>9, <2>1, <2>2 DEF GetSaved
  <2> QED BY <1>9, <2>3 DEF GetSaved, Done, ghostVars
<1>10. CASE Revalidate(r)
  <2>1. CASE Goto(r, "list")
    BY <1>2, <1>4, <1>10, <2>1 DEF Revalidate, Done
  <2>2. CASE \E reply \in Replies : FetchIdentity(reply) # "valid" /\ Return(r, FetchIdentity(reply))
    <3>1. PICK reply \in Replies : FetchIdentity(reply) # "valid" /\ Return(r, FetchIdentity(reply))
      BY <2>2
    <3>2. FetchIdentity(reply) \in Results \ Saved
      BY <1>5, <3>1, ReplyTypes
    <3> QED BY <1>1, <1>10, <3>1, <3>2 DEF Revalidate, Done
  <2>3. CASE Return(r, "invalid_input")
    BY <1>1, <1>3, <1>10, <2>3 DEF Revalidate, Done
  <2> QED BY <1>10, <2>1, <2>2, <2>3 DEF Revalidate, UnusableBaseURL
<1>11. CASE List(r) \/ Inspect(r)
  <2>1. Return(r, "persistence_failed") \/ Goto(r, "inspect")
    BY <1>11 DEF List, Inspect
  <2>2. Done
    BY <1>1, <1>2, <1>3, <1>4, <1>11, <2>1 DEF List, Inspect
  <2> QED BY <1>11, <2>2 DEF List, Inspect, Done, ghostVars
<1> QED BY <1>6, <1>7, <1>8, <1>9, <1>10, <1>11 DEF Early

\* The staging document carries the credential's stamp and principal.
LEMMA StagingFields ==
  ASSUME NEW c \in Contents
  PROVE  LET s == failClosedHostPayload(c) IN
         /\ s \in Contents /\ s.at = c.at /\ s.token = NoToken /\ s.disabled
         /\ s.kind = c.kind /\ s.account = c.account /\ s.user = c.user
<1>1. failClosedHostPayload(c) \in Contents
  BY ContentTypes
<1> QED BY <1>1 DEF failClosedHostPayload, Contents

\* What a step of request r does to the host and to the other requests.
LEMMA RequestFrame ==
  ASSUME TypeOK, LocalsOK, NEW r \in Requests, Arrive(r) \/ Step(r)
  PROVE  /\ \/ UNCHANGED hostVars
            \/ \E n \in Names, c \in Contents :
                 \/ AuthSave(n, c) /\ c.disabled /\ ~Validate(c)
                 \/ ReplaceFile(n, c, wait[r].temp)
         /\ now' = now
         /\ \A q \in Requests \ {r} :
              /\ pc'[q] = pc[q] /\ result'[q] = result[q] /\ wait'[q] = wait[q]
              /\ cred'[q] = cred[q] /\ target'[q] = target[q]
              /\ ~touched'[q] => ~touched[q] /\ LeavesAlone(target[q])
<1> DEFINE Host == \/ UNCHANGED hostVars
                   \/ \E n \in Names, c \in Contents :
                        \/ AuthSave(n, c) /\ c.disabled /\ ~Validate(c)
                        \/ ReplaceFile(n, c, wait[r].temp)
           Touch(q) == ~touched'[q] => ~touched[q] /\ LeavesAlone(target[q])
<1>1. ASSUME NEW q \in Requests \ {r}
      PROVE  /\ pc'[q] = pc[q] /\ result'[q] = result[q]
             /\ cred'[q] = cred[q] /\ target'[q] = target[q]
  <2>1. pc'[q] = pc[q] /\ result'[q] = result[q]
    <3>1. ASSUME NEW label, Goto(r, label) PROVE pc'[q] = pc[q] /\ result'[q] = result[q]
      BY <1>1, <3>1 DEF Goto, TypeOK
    <3>2. ASSUME NEW res, Return(r, res) PROVE pc'[q] = pc[q] /\ result'[q] = result[q]
      BY <1>1, <3>2 DEF Return, TypeOK
    <3>3. CASE Arrive(r) \/ Lock(r)
      BY <1>1, <3>1, <3>3 DEF Arrive, Lock, TypeOK
    <3>4. CASE \/ Import(r) \/ GetSaved(r) \/ Revalidate(r) \/ List(r) \/ Inspect(r)
               \/ Save(r)
      BY <3>1, <3>2, <3>4 DEF Import, GetSaved, Revalidate, UnusableBaseURL, List, Inspect,
         Save, BeginWait
    <3>5. CASE \/ AwaitStat(r) \/ AwaitRead(r) \/ AwaitRuntime(r)
               \/ ConfirmStat(r) \/ ConfirmRead(r) \/ ConfirmRuntime(r)
               \/ RewriteCheck(r) \/ WriteTemporary(r) \/ RewriteRename(r) \/ EndPoll(r) \/ Wake(r)
      BY <3>1, <3>2, <3>5 DEF AwaitStat, Stat, AwaitRead, AwaitRuntime, ConfirmStat,
         ConfirmRead, ConfirmRuntime, RewriteCheck, WriteTemporary, RewriteRename, EndPoll, Wake,
         BeginWait, Disarm
    <3> QED BY <3>3, <3>4, <3>5 DEF Step
  <2>2. cred'[q] = cred[q]
    BY <1>1 DEF TypeOK, Step, Arrive, Lock, Import, GetSaved, Revalidate,
       UnusableBaseURL, List, Inspect, Save, AwaitStat, AwaitRead, AwaitRuntime, ConfirmStat, ConfirmRead, ConfirmRuntime,
       RewriteCheck, WriteTemporary, RewriteRename, EndPoll, Wake, localVars
  <2>3. target'[q] = target[q]
    BY <1>1 DEF TypeOK, Step, Arrive, Lock, Import, GetSaved, Revalidate,
       UnusableBaseURL, List, Inspect, Save, AwaitStat, AwaitRead, AwaitRuntime, ConfirmStat, ConfirmRead, ConfirmRuntime,
       RewriteCheck, WriteTemporary, RewriteRename, EndPoll, Wake, localVars
  <2> QED BY <2>1, <2>2, <2>3
<1>2. ASSUME NEW q \in Requests \ {r} PROVE wait'[q] = wait[q]
  BY <1>2 DEF TypeOK, Step, Arrive, Lock, Import, GetSaved, Revalidate,
     UnusableBaseURL, List, Inspect, Save, AwaitStat, Stat, AwaitRead, AwaitRuntime, ConfirmStat, ConfirmRead, ConfirmRuntime,
     RewriteCheck, WriteTemporary, RewriteRename, EndPoll, Wake, BeginWait, Disarm, localVars
<1>3. ASSUME UNCHANGED hostVars, \A q \in Requests \ {r} : touched'[q] = touched[q]
      PROVE  Host /\ now' = now /\ \A q \in Requests \ {r} : Touch(q)
  BY <1>3 DEF LeavesAlone, hostVars
<1>t. wait[r].temp \in Nat
  BY DEF TypeOK, Waits
<1>4. ASSUME NEW n \in Names, NEW c \in Contents, TouchBy(n, r),
             \/ AuthSave(n, c) /\ c.disabled /\ ~Validate(c)
             \/ ReplaceFile(n, c, wait[r].temp)
      PROVE  Host /\ now' = now /\ \A q \in Requests \ {r} : Touch(q)
  <2>1. Host /\ now' = now
    BY <1>4 DEF AuthSave, ReplaceFile
  <2>2. ASSUME NEW q \in Requests \ {r}, ~touched'[q]
        PROVE  ~touched[q] /\ LeavesAlone(target[q])
    <3>1. ~touched[q] /\ target[q] # n
      BY <1>4, <2>2 DEF TouchBy
    <3> QED BY <1>4, <1>t, <3>1 DEF LeavesAlone
  <2> QED BY <2>1, <2>2
<1>5. Host /\ now' = now /\ \A q \in Requests \ {r} : Touch(q)
  <2>1. CASE Early(r)
    BY <1>3, <2>1, EarlySteps
  <2>2. CASE Save(r)
    <3>1. CASE UNCHANGED <<hostVars, touched>>
      BY <1>3, <3>1
    <3>2. CASE \E n \in Resolved(r) : AuthSave(n, Staging(r)) /\ TouchBy(n, r)
      <4>1. PICK n \in Resolved(r) : AuthSave(n, Staging(r)) /\ TouchBy(n, r)
        BY <3>2
      <4>2. n \in Names /\ cred[r] \in Contents
        BY <2>2, <4>1, ResolvedOwned DEF Save, TypeOK
      <4>3. /\ Staging(r) \in Contents /\ Staging(r).disabled
            /\ ~Validate(Staging(r))
        BY <4>2, StagingFields, CredentialConstants DEF Staging, Validate
      <4> QED BY <1>4, <4>1, <4>2, <4>3
    <3> QED BY <2>2, <3>1, <3>2 DEF Save
  <2>3. CASE RewriteRename(r)
    <3>1. CASE UNCHANGED <<hostVars, touched>>
      BY <1>3, <3>1
    <3>2. CASE ReplaceFile(target[r], Desired(r), wait[r].temp) /\ TouchBy(target[r], r)
      <4>1. target[r] \in Names /\ Desired(r) \in Contents
        BY <2>3 DEF RewriteRename, LocalsOK, LocalOK, Waiting, Bound, Desired, TypeOK
      <4> QED BY <1>4, <3>2, <4>1
    <3> QED BY <2>3, <3>1, <3>2 DEF RewriteRename
  <2>4. CASE \/ AwaitStat(r) \/ AwaitRead(r) \/ AwaitRuntime(r)
             \/ ConfirmStat(r) \/ ConfirmRead(r) \/ ConfirmRuntime(r)
             \/ RewriteCheck(r) \/ WriteTemporary(r) \/ EndPoll(r) \/ Wake(r)
    <3>1. UNCHANGED hostVars /\ (UNCHANGED touched \/ Look(r))
      BY <2>4 DEF AwaitStat, AwaitRead, AwaitRuntime, ConfirmStat, ConfirmRead,
         ConfirmRuntime, RewriteCheck, WriteTemporary, EndPoll, Wake, ghostVars
    <3>2. \A q \in Requests \ {r} : touched'[q] = touched[q]
      BY <3>1 DEF Look, TypeOK
    <3> QED BY <1>3, <3>1, <3>2
  <2> QED BY <2>1, <2>2, <2>3, <2>4 DEF Step, Early
<1> QED BY <1>1, <1>2, <1>5

\* A record registered for a document stores that document, and depends on the
\* time only through updated.
LEMMA RegisteredFacts ==
  ASSUME NEW n, NEW c, NEW t
  PROVE  /\ Registered(n, c, t) = Registered(n, c, Registered(n, c, t).updated)
         /\ Registered(n, c, t).reg => Registered(n, c, t).storage = c
BY DEF Registered, Unregistered

-----------------------------------------------------------------------------
(* Where documents are.                                                    *)

\* The documents that the file, the record, the watcher and the refresh of name
\* n hold.
Docs(n) == {file[n].content, auth[n].storage, watch[n].content, refresh[n].content}

\* Document d, found under name n, is one that its mutation wrote there.
Placed(n, d) ==
  d.at # NoStamp =>
    /\ target[d.at] = n
    /\ \/ d = Staging(d.at)
       \/ d = cred[d.at] /\ wait[d.at].phase = "final"

\* A record never enables what its stored JSON disables.
Obeys(n) == auth[n].storage.disabled => auth[n].view.disabled

\* The credential says what the Auth API said.
Evidence(r) ==
  IF cred[r].disabled
  THEN \/ heard[r].said = "unauthorized"
       \/ heard[r].said = "identity" /\ ~samePrincipal(heard[r].identity, cred[r])
  ELSE heard[r].said = "identity" /\ samePrincipal(heard[r].identity, cred[r])

Backed(r) == cred[r].at = r /\ Evidence(r)

\* What a request's credential and file name rest on, at each point of the
\* handler and ever after.
Origin(r) ==
  /\ pc[r] \notin Waiting \cup {"done"} => target[r] = NoName
  /\ pc[r] \in {"list", "inspect"} => Backed(r)
  /\ pc[r] = "inspect" => \A n \in scan[r].same : isSafeAuthFileName(n)
  /\ pc[r] \in Waiting => wait[r].phase \in {"stage", "final"}
  /\ target[r] # NoName => Bound(r) /\ Backed(r) /\ isSafeAuthFileName(target[r])

ProvenanceInv ==
  /\ TypeOK /\ LocalsOK
  /\ \A r \in Requests : Origin(r)
  /\ \A n \in Names : Obeys(n) /\ \A d \in Docs(n) : Placed(n, d)

-----------------------------------------------------------------------------
(* Part 1: the host only copies documents.                                 *)

\* host.auth.save and the plugin's rename bring one document to one name.
LEMMA WriteDocs ==
  ASSUME HostTypeOK, NEW m \in Names, NEW c, NEW t, AuthSave(m, c) \/ ReplaceFile(m, c, t),
         NEW n \in Names, NEW d \in Docs(n)'
  PROVE  d \in Docs(n) \/ (n = m /\ d = c)
<1>1. file'[n].content = file[n].content \/ (n = m /\ file'[n].content = c)
  BY DEF AuthSave, ReplaceFile, WriteFile, HostTypeOK
<1>2. auth'[n].storage = auth[n].storage \/ (n = m /\ auth'[n].storage = c)
  BY DEF AuthSave, ReplaceFile, HostTypeOK
<1>3. UNCHANGED <<watch, refresh>>
  BY DEF AuthSave, ReplaceFile
<1> QED BY <1>1, <1>2, <1>3 DEF Docs

\* The record the watcher registers stores the document it read, or nothing.
LEMMA RegisteredStorage ==
  ASSUME NEW n, NEW c, NEW t
  PROVE  Registered(n, c, t).storage \in {c, Absent}
BY DEF Registered, Unregistered

\* The watcher, a refresh and a restart move documents about under one name.
LEMMA HostDocs ==
  ASSUME HostTypeOK,
         (\E m \in Names : Background(m)) \/ Tick \/ Restart \/ UNCHANGED hostVars,
         NEW n \in Names, NEW d \in Docs(n)'
  PROVE  d \in Docs(n) \cup {Absent}
<1> DEFINE Old == Docs(n) \cup {Absent}
<1> USE DEF HostTypeOK
<1>1. ASSUME NEW m \in Names, NEW c, NEW t, WriteFile(m, c, t)
      PROVE  file'[n].content \in {file[n].content} \/ (n = m /\ file'[n].content = c)
  BY <1>1 DEF WriteFile
<1>2. ASSUME NEW m \in Names, WatchRead(m) PROVE d \in Old
  <2>1. watch'[n].content \in {watch[n].content, file[n].content}
    BY <1>2 DEF WatchRead
  <2> QED BY <1>2, <2>1 DEF WatchRead, Docs
<1>3. ASSUME NEW m \in Names, WatchSkip(m) PROVE d \in Old
  BY <1>3 DEF WatchSkip, Docs
<1>4. ASSUME NEW m \in Names, WatchApply(m) PROVE d \in Old
  <2>1. auth'[n] \in {auth[n], Registered(n, watch[n].content, now)}
    BY <1>4 DEF WatchApply
  <2>2. auth'[n].storage \in {auth[n].storage, watch[n].content, Absent}
    BY <2>1, RegisteredStorage
  <2>3. watch'[n].content \in {watch[n].content, Absent}
    BY <1>4 DEF WatchApply, NoJob
  <2> QED BY <1>4, <2>2, <2>3 DEF WatchApply, Docs
<1>5. ASSUME NEW m \in Names, RefreshStart(m) PROVE d \in Old
  <2>1. refresh'[n].content \in {refresh[n].content, auth[n].storage}
    BY <1>5 DEF RefreshStart
  <2> QED BY <1>5, <2>1 DEF RefreshStart, Docs
<1>6. ASSUME NEW m \in Names, RefreshApply(m) PROVE d \in Old
  <2>1. refresh'[n].content \in {refresh[n].content, Absent} /\ UNCHANGED watch
    BY <1>6 DEF RefreshApply, NoJob
  <2>2. file'[n].content \in {file[n].content, refresh[n].content}
    BY <1>1, <1>6 DEF RefreshApply
  <2>3. auth'[n].storage \in {auth[n].storage, refresh[n].content}
    BY <1>6 DEF RefreshApply
  <2> QED BY <2>1, <2>2, <2>3 DEF Docs
<1>7. CASE Tick
  BY <1>7 DEF Tick, Docs
<1>8. CASE Restart
  <2>1. /\ auth'[n] = Registered(n, file[n].content, now) /\ UNCHANGED file
        /\ watch'[n] = NoJob /\ refresh'[n] = NoJob
    BY <1>8 DEF Restart
  <2>2. auth'[n].storage \in {file[n].content, Absent}
    BY <2>1, RegisteredStorage
  <2> QED BY <2>1, <2>2 DEF Docs, NoJob
<1>9. CASE UNCHANGED hostVars
  BY <1>9 DEF hostVars, Docs
<1> QED
  BY <1>2, <1>3, <1>4, <1>5, <1>6, <1>7, <1>8, <1>9 DEF Background, DueWork

\* An operator brings foreign documents.
LEMMA OperatorDocs ==
  ASSUME HostTypeOK, NEW m \in Names, OperatorDelete(m) \/ OperatorWrite(m),
         NEW n \in Names, NEW d \in Docs(n)'
  PROVE  d \in Docs(n) \cup OperatorContents \cup {Absent}
<1> USE DEF HostTypeOK
<1>1. ASSUME NEW c, NEW t, WriteFile(m, c, t)
      PROVE  file'[n].content \in {file[n].content, c}
  BY <1>1 DEF WriteFile
<1>2. CASE OperatorDelete(m)
  <2>1. file'[n].content \in {file[n].content, Absent}
    BY <1>1, <1>2 DEF OperatorDelete
  <2>2. auth'[n].storage \in {auth[n].storage, Absent}
    BY <1>2 DEF OperatorDelete, Unregistered
  <2> QED BY <1>2, <2>1, <2>2 DEF OperatorDelete, Docs
<1>3. CASE OperatorWrite(m)
  <2>1. file'[n].content \in {file[n].content} \cup OperatorContents
    BY <1>1, <1>3 DEF OperatorWrite
  <2> QED BY <1>3, <2>1 DEF OperatorWrite, Docs
<1> QED BY <1>2, <1>3

\* Every reading of a document the host or the plugin has respects its disabled
\* flag.
LEMMA ReadingObeys ==
  ASSUME NEW n, NEW c \in Contents, NEW t, c.disabled
  PROVE  /\ NativeView(c).disabled
         /\ ParseAuth(TRUE, n, c).disabled
         /\ RefreshAuth(n, c).disabled
<1>1. NativeView(c).disabled /\ AuthData(c).disabled /\ disabledAuthData.disabled
  BY DEF NativeView, AuthData, disabledAuthData
<1>2. \A named : ParseAuth(named, n, c).disabled
  BY <1>1 DEF ParseAuth
<1> QED BY <1>1, <1>2 DEF RefreshAuth

\* Every record the host makes respects the flag of the document it stores.
LEMMA RegisteredObeys ==
  ASSUME NEW n, NEW c \in Contents, NEW t
  PROVE  Registered(n, c, t).storage.disabled => Registered(n, c, t).view.disabled
<1>1. Unregistered.view.disabled
  BY DEF Unregistered, disabledAuthData
<1>2. c.disabled => NativeView(c).disabled /\ ParseAuth(TRUE, n, c).disabled
  BY ReadingObeys
<1> QED BY <1>1, <1>2 DEF Registered

\* No step of the host enables what a stored document disables: the generic
\* upsert of host.auth.save, the watcher, a refresh and a restart included.
LEMMA HostObeys ==
  ASSUME HostTypeOK, NEW n \in Names, Obeys(n),
         \/ \E m \in Names : Background(m) \/ OperatorDelete(m) \/ OperatorWrite(m)
         \/ \E m \in Names, c \in Contents, t \in Nat : AuthSave(m, c) \/ ReplaceFile(m, c, t)
         \/ Tick \/ Restart \/ UNCHANGED hostVars
  PROVE  Obeys(n)'
<1>1. ASSUME auth'[n] = auth[n] PROVE Obeys(n)'
  BY <1>1 DEF Obeys
<1>2. ASSUME NEW c \in Contents, NEW t, auth'[n] = Registered(n, c, t) PROVE Obeys(n)'
  BY <1>2, RegisteredObeys DEF Obeys
<1>3. ASSUME NEW c \in Contents, auth'[n].storage = c,
             auth'[n].view \in {NativeView(c), RefreshAuth(n, c)}
      PROVE  Obeys(n)'
  BY <1>3, ReadingObeys DEF Obeys
<1> USE DEF HostTypeOK
<1>4. ASSUME NEW m \in Names, WatchApply(m) PROVE Obeys(n)'
  <2>1. auth'[n] = auth[n] \/ auth'[n] = Registered(n, watch[n].content, now)
    BY <1>4 DEF WatchApply
  <2>2. watch[n].content \in Contents
    BY DEF Jobs
  <2> QED BY <1>1, <1>2, <2>1, <2>2
<1>5. ASSUME NEW m \in Names, RefreshApply(m) PROVE Obeys(n)'
  <2>1. \/ auth'[n] = auth[n]
        \/ /\ auth'[n].storage = refresh[n].content
           /\ auth'[n].view = RefreshAuth(n, refresh[n].content)
    BY <1>5 DEF RefreshApply
  <2>2. refresh[n].content \in Contents
    BY DEF Jobs
  <2> QED BY <1>1, <1>3, <2>1, <2>2
<1>6. ASSUME NEW m \in Names, OperatorDelete(m) PROVE Obeys(n)'
  <2>1. auth'[n] = auth[n] \/ auth'[n] = Unregistered
    BY <1>6 DEF OperatorDelete
  <2>2. Unregistered.view.disabled
    BY DEF Unregistered, disabledAuthData
  <2> QED BY <1>1, <2>1, <2>2 DEF Obeys
<1>7. ASSUME NEW m \in Names, NEW c \in Contents, AuthSave(m, c) PROVE Obeys(n)'
  <2>1. \/ auth'[n] = auth[n]
        \/ auth'[n].storage = c /\ auth'[n].view = NativeView(c)
    BY <1>7 DEF AuthSave
  <2> QED BY <1>1, <1>3, <2>1
<1>8. CASE Restart
  <2>1. auth'[n] = Registered(n, file[n].content, now) /\ file[n].content \in Contents
    BY <1>8 DEF Restart
  <2> QED BY <1>2, <2>1
<1>9. CASE \/ \E m \in Names : \/ WatchRead(m) \/ WatchSkip(m) \/ RefreshStart(m)
                               \/ OperatorWrite(m)
           \/ \E m \in Names, c \in Contents, t \in Nat : ReplaceFile(m, c, t)
           \/ Tick \/ UNCHANGED hostVars
  <2>1. UNCHANGED auth
    BY <1>9 DEF WatchRead, WatchSkip, RefreshStart, OperatorWrite, ReplaceFile, Tick, hostVars
  <2> QED BY <1>1, <2>1
<1> QED BY <1>4, <1>5, <1>6, <1>7, <1>8, <1>9 DEF Background, DueWork

-----------------------------------------------------------------------------
(* Part 2: what a request's locals rest on.                                *)

\* The credential that FetchIdentity's verdict lets a mutation save says what the
\* Auth API said: a 401 or 403 with a transport error beside it included.
LEMMA VerdictBacks ==
  ASSUME NEW reply \in Replies
  PROVE  /\ FetchIdentity(reply) = "valid" =>
              Verdict(reply) = [said |-> "identity", identity |-> reply.identity]
         /\ FetchIdentity(reply) = "authentication_failed" =>
              Verdict(reply).said = "unauthorized"
<1>1. reply.status \in Nat
  BY CredentialConstants DEF Replies
<1>2. IsSuccess(reply.status) => reply.status \notin {401, 403}
  BY <1>1 DEF IsSuccess
<1>3. ASSUME FetchIdentity(reply) = "valid"
      PROVE  IsSuccess(reply.status) /\ reply.err = "none" /\ reply.decodes
  <2>1. classifyStatus(reply.status) # "valid"
    BY <1>1 DEF classifyStatus
  <2> QED BY <1>3, <2>1, Zenon DEF FetchIdentity
<1>4. ASSUME FetchIdentity(reply) = "authentication_failed"
      PROVE  reply.status \in {401, 403}
  BY <1>1, <1>4 DEF FetchIdentity, classifyStatus
<1>5. [Silence EXCEPT !.said = "unauthorized"].said = "unauthorized"
  BY DEF Silence
<1>6. FetchIdentity(reply) = "valid" =>
        Verdict(reply) = [said |-> "identity", identity |-> reply.identity]
  BY <1>2, <1>3 DEF Verdict
<1>7. FetchIdentity(reply) = "authentication_failed" =>
        Verdict(reply).said = "unauthorized"
  <2> DEFINE refusal == [Silence EXCEPT !.said = "unauthorized"]
  <2>1. reply.status \in {401, 403} => Verdict(reply) = refusal
    <3> HIDE DEF refusal
    <3> QED BY <1>2 DEF Verdict, refusal
  <2> QED BY <1>4, <1>5, <2>1
<1> QED BY <1>6, <1>7

\* The credential an import builds from an accepted reply.
LEMMA ImportBacked ==
  ASSUME TypeOK, NEW r \in Requests, NEW reply \in Replies, NEW token,
         FetchIdentity(reply) = "valid",
         heard' = [heard EXCEPT ![r] = Verdict(reply)],
         cred' = [cred EXCEPT ![r] = NewCredential(token, reply.identity, r)]
  PROVE  Backed(r)'
<1>1. heard'[r].said = "identity" /\ heard'[r].identity = reply.identity
  BY VerdictBacks DEF TypeOK
<1>2. cred'[r] = NewCredential(token, reply.identity, r)
  BY DEF TypeOK
<1>3. reply.identity.account \in Accounts /\ reply.identity.user \in Users
  BY ReplyTypes DEF Identities
<1>4. samePrincipal(heard'[r].identity, cred'[r]) /\ ~cred'[r].disabled /\ cred'[r].at = r
  BY <1>1, <1>2, <1>3, CredentialConstants DEF samePrincipal, NewCredential
<1> QED BY <1>1, <1>4 DEF Backed, Evidence

\* Disable switches the credential off and stamps it.
LEMMA DisableFields ==
  ASSUME NEW c \in Contents, NEW s, NEW r
  PROVE  LET d == Disable(c, s, r) IN
         d.at = r /\ d.disabled /\ d.account = c.account /\ d.user = c.user
BY DEF Disable, Contents

\* ApplyIdentity switches it on, stamps it and takes the user over.
LEMMA ApplyFields ==
  ASSUME NEW c \in Contents, NEW i, NEW r
  PROVE  LET d == ApplyIdentity(c, i, r) IN
         d.at = r /\ ~d.disabled /\ d.account = c.account /\ d.user = i.user
BY DEF ApplyIdentity, Contents

\* The credential a revalidation goes on with.
LEMMA RevalidateBacked ==
  ASSUME TypeOK, NEW r \in Requests, NEW reply \in Replies,
         FetchIdentity(reply) \in {"valid", "authentication_failed"},
         heard' = [heard EXCEPT ![r] = Verdict(reply)],
         cred' = [cred EXCEPT ![r] = Revalidated(cred[r], reply, r)]
  PROVE  Backed(r)'
<1>1. heard'[r] = Verdict(reply) /\ cred'[r] = Revalidated(cred[r], reply, r)
      /\ cred[r] \in Contents
  BY DEF TypeOK
<1>2. CASE FetchIdentity(reply) = "authentication_failed"
  <2>1. cred'[r] = Disable(cred[r], "invalid", r) /\ heard'[r].said = "unauthorized"
    BY <1>1, <1>2, VerdictBacks DEF Revalidated
  <2>2. cred'[r].at = r /\ cred'[r].disabled
    BY <1>1, <2>1, DisableFields
  <2> QED BY <2>1, <2>2 DEF Backed, Evidence
<1>3. CASE FetchIdentity(reply) = "valid"
  <2>1. heard'[r].said = "identity" /\ heard'[r].identity = reply.identity
    BY <1>1, <1>3, VerdictBacks
  <2>2. reply.identity.account \in Accounts /\ reply.identity.user \in Users
    BY ReplyTypes DEF Identities
  <2>3. CASE ~samePrincipal(reply.identity, cred[r])
    <3>1. cred'[r] = Disable(cred[r], "account_mismatch", r)
      BY <1>1, <1>3, <2>3 DEF Revalidated
    <3>2. /\ cred'[r].at = r /\ cred'[r].disabled
          /\ cred'[r].account = cred[r].account /\ cred'[r].user = cred[r].user
      BY <1>1, <3>1, DisableFields
    <3>3. ~samePrincipal(heard'[r].identity, cred'[r])
      BY <2>1, <2>3, <3>2 DEF samePrincipal
    <3> QED BY <2>1, <3>2, <3>3 DEF Backed, Evidence
  <2>4. CASE samePrincipal(reply.identity, cred[r])
    <3>1. cred'[r] = ApplyIdentity(cred[r], reply.identity, r)
      BY <1>1, <1>3, <2>4 DEF Revalidated
    <3>2. /\ cred'[r].at = r /\ ~cred'[r].disabled
          /\ cred'[r].account = cred[r].account /\ cred'[r].user = reply.identity.user
      BY <1>1, <3>1, ApplyFields
    <3>3. samePrincipal(heard'[r].identity, cred'[r])
      BY <2>1, <2>4, <3>2 DEF samePrincipal
    <3> QED BY <2>1, <3>2, <3>3 DEF Backed, Evidence
  <2> QED BY <2>3, <2>4
<1> QED BY <1>2, <1>3

\* The steps of the settling loop.
Loop(r) ==
  \/ AwaitStat(r) \/ AwaitRead(r) \/ AwaitRuntime(r)
  \/ ConfirmStat(r) \/ ConfirmRead(r) \/ ConfirmRuntime(r)
  \/ RewriteCheck(r) \/ WriteTemporary(r) \/ RewriteRename(r) \/ EndPoll(r) \/ Wake(r)

\* A request's step says nothing about what another heard or scanned.
LEMMA OthersKeep ==
  ASSUME TypeOK, NEW r \in Requests, Arrive(r) \/ Step(r), NEW q \in Requests \ {r}
  PROVE  heard'[q] = heard[q] /\ scan'[q] = scan[q] /\ input'[q] = input[q]
<1>1. CASE Arrive(r) \/ Lock(r)
  BY <1>1 DEF Arrive, Lock, TypeOK, localVars, ghostVars
<1>2. CASE Import(r) \/ Revalidate(r)
  BY <1>2 DEF Import, Revalidate, UnusableBaseURL, TypeOK
<1>3. CASE GetSaved(r)
  BY <1>3 DEF GetSaved, ghostVars
<1>4. CASE List(r)
  BY <1>4 DEF List, TypeOK, ghostVars
<1>5. CASE Inspect(r)
  <2>1. \E s : scan' = [scan EXCEPT ![r] = s]
    BY <1>5 DEF Inspect, Forget
  <2> QED BY <1>5, <2>1 DEF Inspect, TypeOK, ghostVars
<1>6. CASE Save(r)
  BY <1>6 DEF Save, Forget, TypeOK
<1>7. CASE Loop(r)
  BY <1>7 DEF Loop, AwaitStat, AwaitRead, AwaitRuntime, ConfirmStat, ConfirmRead,
     ConfirmRuntime, RewriteCheck, WriteTemporary, RewriteRename, EndPoll, Wake, localVars, ghostVars
<1> QED BY <1>1, <1>2, <1>3, <1>4, <1>5, <1>6, <1>7 DEF Step, Loop

\* The settling loop keeps credential and file name, and goes from the staging
\* phase to the final one only with the rename that writes the final document.
LEMMA LoopKeeps ==
  ASSUME TypeOK, NEW r \in Requests, Loop(r)
  PROVE  /\ pc[r] \in Waiting /\ pc'[r] \in Waiting \cup {"done"}
         /\ UNCHANGED <<cred, target, heard, scan, input>>
         /\ \/ wait'[r].phase = wait[r].phase
            \/ RewriteRename(r) /\ wait[r].phase = "stage" /\ wait'[r].phase = "final"
<1> DEFINE Moves == pc'[r] \in Waiting \cup {"done"}
           Phase == wait'[r].phase = wait[r].phase
<1>1. /\ pc[r] \in Waiting
      /\ UNCHANGED <<cred, target, heard, scan, input>>
  BY DEF Loop, AwaitStat, AwaitRead, AwaitRuntime, ConfirmStat, ConfirmRead, ConfirmRuntime,
         RewriteCheck, WriteTemporary, RewriteRename, EndPoll, Wake, Waiting, localVars, ghostVars
<1>2. ASSUME NEW label \in Waiting, Goto(r, label) PROVE Moves
  BY <1>2 DEF Goto, TypeOK
<1>3. ASSUME NEW res, Return(r, res) PROVE Moves
  BY <1>3 DEF Return, TypeOK
<1>4. wait[r] \in Waits /\ wait \in [Requests -> Waits]
  BY DEF TypeOK
<1>5. UNCHANGED wait => Phase
  OBVIOUS
<1>6. ASSUME NEW label \in Waiting, Stat(r, label) PROVE Moves /\ Phase
  <2>1. Moves
    BY <1>2, <1>3, <1>6 DEF Stat
  <2>2. Phase
    BY <1>4, <1>5, <1>6 DEF Stat, Waits
  <2> QED BY <2>1, <2>2
<1>7. ASSUME Disarm(r) PROVE Moves /\ Phase
  <2>1. "sleep" \in Waiting
    BY DEF Waiting
  <2>2. Moves
    BY <1>2, <1>7, <2>1 DEF Disarm
  <2>3. wait'[r] = Disarmed(wait[r])
    BY <1>4, <1>7 DEF Disarm
  <2>4. Disarmed(wait[r]).phase = wait[r].phase
    BY <1>4 DEF Disarmed, Waits
  <2> QED BY <2>2, <2>3, <2>4
<1> HIDE DEF Moves
<1>8. CASE AwaitStat(r) \/ ConfirmStat(r)
  <2>1. Stat(r, "read") \/ Stat(r, "confirmRead")
    BY <1>8 DEF AwaitStat, ConfirmStat
  <2>2. {"read", "confirmRead"} \subseteq Waiting
    BY DEF Waiting
  <2> QED BY <1>1, <1>6, <2>1, <2>2 DEF Moves
<1>9. CASE AwaitRead(r) \/ RewriteCheck(r) \/ Wake(r)
  <2>1. /\ UNCHANGED wait
        /\ \/ Return(r, "persistence_failed")
           \/ \E label \in {"check", "runtime", "write", "stat"} : Goto(r, label)
    BY <1>9 DEF AwaitRead, RewriteCheck, Wake, localVars
  <2>2. {"check", "runtime", "write", "stat"} \subseteq Waiting
    BY DEF Waiting
  <2> QED BY <1>1, <1>2, <1>3, <2>1, <2>2 DEF Moves
<1>10. CASE AwaitRuntime(r)
  <2>1. {"sleep", "confirm"} \subseteq Waiting
    BY DEF Waiting
  <2>2. CASE Disarm(r)
    BY <1>1, <1>7, <2>2 DEF Moves
  <2>3. CASE Goto(r, "sleep") /\ UNCHANGED wait
    BY <1>1, <1>2, <2>1, <2>3 DEF Moves
  <2>4. CASE wait' = [wait EXCEPT ![r] = Armed(@)] /\ \E label \in {"sleep", "confirm"} : Goto(r, label)
    <3>1. Armed(wait[r]).phase = wait[r].phase
      BY <1>4 DEF Armed, Waits
    <3>2. wait'[r] = Armed(wait[r])
      BY <1>4, <2>4
    <3> QED BY <1>1, <1>2, <2>1, <2>4, <3>1, <3>2 DEF Moves
  <2> QED BY <1>10, <2>2, <2>3, <2>4 DEF AwaitRuntime
<1>11. CASE ConfirmRead(r)
  <2>1. "confirmRuntime" \in Waiting
    BY DEF Waiting
  <2>2. Moves
    BY <1>2, <1>3, <1>11, <2>1 DEF ConfirmRead
  <2>3. UNCHANGED wait \/ \E b : wait' = [wait EXCEPT ![r].content = b]
    BY <1>11 DEF ConfirmRead
  <2>4. Phase
    BY <1>4, <2>3 DEF Waits
  <2> QED BY <1>1, <2>2, <2>4 DEF Moves
<1>12. CASE ConfirmRuntime(r)
  <2>1. "check" \in Waiting
    BY DEF Waiting
  <2>2. CASE Disarm(r)
    BY <1>1, <1>7, <2>2 DEF Moves
  <2>3. CASE (Goto(r, "check") \/ Return(r, cred[r].state)) /\ UNCHANGED wait
    BY <1>1, <1>2, <1>3, <2>1, <2>3 DEF Moves
  <2> QED BY <1>12, <2>2, <2>3 DEF ConfirmRuntime
<1>13. CASE RewriteRename(r)
  <2>1. CASE Return(r, "persistence_failed") /\ UNCHANGED wait
    BY <1>1, <1>3, <2>1 DEF Moves
  <2>2. CASE wait[r].phase = "stage" /\ BeginWait(r, "final")
    <3>1. "stat" \in Waiting
      BY DEF Waiting
    <3>2. Moves
      BY <1>2, <2>2, <3>1 DEF BeginWait
    <3>3. wait'[r] = [NoWait EXCEPT !.phase = "final", !.deadline = now + Timeout]
      BY <1>4, <2>2 DEF BeginWait
    <3>4. wait'[r].phase = "final"
      BY <3>3 DEF NoWait
    <3> QED BY <1>1, <1>13, <2>2, <3>2, <3>4 DEF Moves
  <2>3. CASE Disarm(r)
    BY <1>1, <1>7, <2>3 DEF Moves
  <2> QED BY <1>13, <2>1, <2>2, <2>3 DEF RewriteRename
<1>14. CASE EndPoll(r)
  <2>1. "timer" \in Waiting
    BY DEF Waiting
  <2>2. Moves
    BY <1>2, <1>3, <1>14, <2>1 DEF EndPoll
  <2>3. UNCHANGED wait \/ \E t : wait' = [wait EXCEPT ![r].wake = t]
    BY <1>14 DEF EndPoll
  <2>4. Phase
    BY <1>4, <2>3 DEF Waits
  <2> QED BY <1>1, <2>2, <2>4 DEF Moves
<1>15. CASE WriteTemporary(r)
  <2>1. "rename" \in Waiting
    BY DEF Waiting
  <2>2. Moves
    BY <1>2, <1>3, <1>15, <2>1 DEF WriteTemporary
  <2>3. UNCHANGED wait \/ wait' = [wait EXCEPT ![r].temp = now]
    BY <1>15 DEF WriteTemporary
  <2>4. Phase
    BY <1>4, <2>3 DEF Waits
  <2> QED BY <1>1, <2>2, <2>4 DEF Moves
<1> QED BY <1>8, <1>9, <1>10, <1>11, <1>12, <1>13, <1>14, <1>15 DEF Loop

\* Once a file name is chosen, the mutation's credential and what it heard are
\* settled for good, and so is the final phase.
Fixed(q) ==
  target[q] # NoName =>
    /\ target'[q] = target[q] /\ cred'[q] = cred[q] /\ heard'[q] = heard[q]
    /\ wait[q].phase = "final" => wait'[q].phase = "final"

\* The steps up to resolveFileName.
LEMMA EarlyOrigin ==
  ASSUME TypeOK, LocalsOK, NEW r \in Requests, Origin(r), Early(r)
  PROVE  Origin(r)' /\ Fixed(r)
<1>1. target'[r] = target[r] /\ target[r] = NoName /\ pc'[r] \notin Waiting
  BY EarlySteps DEF Early, Arrive, Lock, Import, GetSaved, Revalidate, List, Inspect,
     Origin, Waiting
<1>2. Fixed(r)
  BY <1>1 DEF Fixed
<1>3. pc'[r] \notin {"list", "inspect"} => Origin(r)'
  BY <1>1 DEF Origin
<1>4. ASSUME NEW label, Goto(r, label) PROVE pc'[r] = label
  BY <1>4 DEF Goto, TypeOK
<1>5. ASSUME NEW res, Return(r, res) PROVE pc'[r] = "done"
  BY <1>5 DEF Return, TypeOK
<1>6. CASE Arrive(r) \/ Lock(r) \/ GetSaved(r)
  <2>1. CASE Arrive(r)
    BY <1>2, <1>3, <1>4, <2>1 DEF Arrive, TypeOK
  <2>2. CASE Lock(r)
    BY <1>2, <1>3, <2>2 DEF Lock, TypeOK
  <2>3. CASE GetSaved(r)
    BY <1>2, <1>3, <1>4, <1>5, <2>3 DEF GetSaved
  <2> QED BY <1>2, <1>6, <2>1, <2>2, <2>3
<1>7. CASE Import(r)
  <2>1. CASE \E res : Return(r, res)
    BY <1>2, <1>3, <1>5, <2>1
  <2>2. CASE \E reply \in Replies :
               /\ FetchIdentity(reply) = "valid"
               /\ heard' = [heard EXCEPT ![r] = Verdict(reply)]
               /\ cred' = [cred EXCEPT ![r] = NewCredential(input[r].token, reply.identity, r)]
               /\ Goto(r, "list")
    <3>1. Backed(r)' /\ pc'[r] = "list"
      BY <1>4, <2>2, ImportBacked
    <3> QED BY <1>1, <1>2, <3>1 DEF Origin
  <2> QED BY <1>7, <2>1, <2>2, Zenon DEF Import, UnusableBaseURL
<1>8. CASE Revalidate(r)
  <2>1. CASE \E res : Return(r, res)
    BY <1>2, <1>3, <1>5, <2>1
  <2>2. CASE \E reply \in Replies :
               /\ FetchIdentity(reply) \in {"valid", "authentication_failed"}
               /\ heard' = [heard EXCEPT ![r] = Verdict(reply)]
               /\ cred' = [cred EXCEPT ![r] = Revalidated(cred[r], reply, r)]
               /\ Goto(r, "list")
    <3>1. Backed(r)' /\ pc'[r] = "list"
      BY <1>4, <2>2, RevalidateBacked
    <3> QED BY <1>1, <1>2, <3>1 DEF Origin
  <2> QED BY <1>8, <2>1, <2>2, Zenon DEF Revalidate, UnusableBaseURL
<1>9. CASE List(r) \/ Inspect(r)
  <2>1. pc[r] \in {"list", "inspect"} /\ UNCHANGED <<cred, heard>>
    BY <1>9 DEF List, Inspect, ghostVars
  <2>2. Backed(r)'
    BY <2>1 DEF Origin, Backed, Evidence, samePrincipal
  <2>3. CASE List(r)
    <3>1. CASE \E res : Return(r, res)
      BY <1>2, <1>3, <1>5, <3>1
    <3>2. CASE Goto(r, "inspect") /\ scan'[r].same = {}
      BY <1>1, <1>2, <1>4, <2>2, <3>2 DEF Origin
    <3> QED BY <2>3, <3>1, <3>2 DEF List, TypeOK
  <2>4. CASE Inspect(r)
    <3>1. CASE \E res : Return(r, res)
      BY <1>2, <1>3, <1>5, <3>1
    <3>2. CASE ~\E res : Return(r, res)
      <4> DEFINE found(n) == Examine(n, file[n].content, cred[r])
      <4>1. scan[r] \in Scans
        BY DEF TypeOK
      <4>2. PICK n \in scan[r].todo :
              /\ scan' = [scan EXCEPT ![r].todo = @ \ {n},
                                      ![r].same = IF found(n) = "same" THEN @ \cup {n} ELSE @]
              /\ Goto(r, "inspect")
        BY <2>4, <3>2 DEF Inspect
      <4>3. scan'[r].same = IF found(n) = "same" THEN scan[r].same \cup {n} ELSE scan[r].same
        BY <4>1, <4>2 DEF TypeOK, Scans
      <4>4. found(n) = "same" => isSafeAuthFileName(n)
        BY DEF Examine
      <4>5. \A m \in scan[r].same : isSafeAuthFileName(m)
        BY <2>4 DEF Inspect, Origin
      <4> HIDE DEF found
      <4>6. \A m \in scan'[r].same : isSafeAuthFileName(m)
        BY <4>3, <4>4, <4>5
      <4> QED BY <1>1, <1>2, <1>4, <2>2, <4>2, <4>6 DEF Origin
    <3> QED BY <3>1, <3>2
  <2> QED BY <1>9, <2>3, <2>4
<1> QED BY <1>6, <1>7, <1>8, <1>9 DEF Early

\* resolveFileName returns names isSafeAuthFileName accepts.
LEMMA ResolvedSafe ==
  ASSUME TypeOK, LocalsOK, NEW r \in Requests, Origin(r), pc[r] = "inspect",
         NEW n \in Resolved(r)
  PROVE  isSafeAuthFileName(n)
<1>1. CASE n \in scan[r].same
  BY <1>1 DEF Origin
<1>2. CASE n = canonicalName(cred[r])
  <2>1. cred[r] \in Contents /\ Validate(cred[r])
    BY DEF TypeOK, LocalsOK, LocalOK
  <2>2. cred[r].account \in Accounts /\ cred[r].user \in Users /\ cred[r].meta \in Metas
    BY <2>1 DEF Validate, Contents
  <2> QED BY <1>2, <2>2, PatServiceConstants DEF canonicalName, isSafeAuthFileName
<1> QED BY <1>1, <1>2 DEF Resolved

\* host.auth.save chooses the file.
LEMMA SaveOrigin ==
  ASSUME TypeOK, LocalsOK, NEW r \in Requests, Origin(r), Save(r)
  PROVE  Origin(r)' /\ Fixed(r)
<1>1. /\ pc[r] = "inspect" /\ target[r] = NoName /\ Backed(r)
      /\ UNCHANGED <<cred, heard>>
  BY DEF Save, Origin, Waiting
<1>2. Fixed(r)
  BY <1>1 DEF Fixed
<1>3. Backed(r)'
  BY <1>1 DEF Backed, Evidence, samePrincipal
<1>4. ASSUME Return(r, "persistence_failed") PROVE pc'[r] = "done"
  BY <1>4 DEF Return, TypeOK
<1>5. CASE Return(r, "persistence_failed") /\ UNCHANGED target
  BY <1>1, <1>2, <1>4, <1>5 DEF Origin, Waiting
<1>6. ASSUME NEW n \in Resolved(r), target' = [target EXCEPT ![r] = n],
             \/ Return(r, "persistence_failed")
             \/ BeginWait(r, "stage")
      PROVE  Origin(r)'
  <2>1. target'[r] = n
    BY <1>6 DEF TypeOK
  <2>2. n \in Names /\ IsOwnedFileForPrincipal(n, cred[r].account, cred[r].user)
    BY <1>1, ResolvedOwned
  <2>3. Validate(cred[r])
    BY <1>1 DEF LocalsOK, LocalOK
  <2>4. Bound(r)' /\ isSafeAuthFileName(target'[r])
    BY <1>1, <2>1, <2>2, <2>3, ResolvedSafe DEF Bound, Validate
  <2>5. CASE Return(r, "persistence_failed")
    BY <1>3, <1>4, <2>4, <2>5 DEF Origin, Waiting
  <2>6. CASE BeginWait(r, "stage")
    <3>1. pc'[r] = "stat"
      BY <2>6 DEF BeginWait, Goto, TypeOK
    <3>2. wait'[r] = [NoWait EXCEPT !.phase = "stage", !.deadline = now + Timeout]
      BY <2>6 DEF BeginWait, TypeOK
    <3>3. wait'[r].phase = "stage"
      BY <3>2 DEF NoWait
    <3> QED BY <1>3, <2>4, <3>1, <3>3 DEF Origin, Waiting
  <2> QED BY <1>6, <2>5, <2>6
<1> QED BY <1>2, <1>5, <1>6 DEF Save

\* The settling loop.
LEMMA LoopOrigin ==
  ASSUME TypeOK, LocalsOK, NEW r \in Requests, Origin(r), Loop(r)
  PROVE  Origin(r)' /\ Fixed(r)
<1>1. /\ pc[r] \in Waiting /\ pc'[r] \in Waiting \cup {"done"}
      /\ UNCHANGED <<cred, target, heard>>
      /\ \/ wait'[r].phase = wait[r].phase
         \/ wait[r].phase = "stage" /\ wait'[r].phase = "final"
  BY LoopKeeps
<1>2. Fixed(r)
  BY <1>1 DEF Fixed
<1>3. (target[r] # NoName => Bound(r) /\ Backed(r) /\ isSafeAuthFileName(target[r]))'
  BY <1>1 DEF Origin, Bound, Validate, Backed, Evidence, samePrincipal
<1>4. wait'[r].phase \in {"stage", "final"}
  BY <1>1 DEF Origin
<1> QED BY <1>1, <1>2, <1>3, <1>4 DEF Origin, Waiting

-----------------------------------------------------------------------------
(* Part 3: every step keeps the invariant.                                 *)

\* A document that was in place stays in place while the locals of its mutation
\* are fixed.
LEMMA PlacedStays ==
  ASSUME TypeOK, NEW n \in Names, NEW d \in Contents, Placed(n, d),
         \A q \in Requests : Fixed(q)
  PROVE  Placed(n, d)'
<1> SUFFICES ASSUME d.at # NoStamp PROVE Placed(n, d)'
  BY DEF Placed
<1> DEFINE q == d.at
<1>1. q \in Requests
  BY PatServiceConstants DEF Contents
<1>2. target[q] = n /\ target[q] # NoName
  BY PatServiceConstants DEF Placed
<1>3. /\ target'[q] = n /\ cred'[q] = cred[q]
      /\ wait[q].phase = "final" => wait'[q].phase = "final"
  BY <1>1, <1>2 DEF Fixed
<1>4. Staging(q)' = Staging(q)
  BY <1>3 DEF Staging
<1> QED BY <1>2, <1>3, <1>4 DEF Placed

\* Every document under a name is a document.
LEMMA DocTypes ==
  ASSUME HostTypeOK, NEW n \in Names
  PROVE  Docs(n) \subseteq Contents
BY DEF HostTypeOK, Docs, Auths, Jobs

\* What a request's step does to requests, documents and records.
LEMMA RequestProvenance ==
  ASSUME ProvenanceInv, NEW r \in Requests, Arrive(r) \/ Step(r)
  PROVE  /\ \A q \in Requests : Origin(q)' /\ Fixed(q)
         /\ \A n \in Names : Obeys(n)' /\ \A d \in Docs(n)' : Placed(n, d)'
<1>1. TypeOK /\ LocalsOK /\ HostTypeOK
  BY DEF ProvenanceInv, TypeOK
<1>2. Origin(r)' /\ Fixed(r)
  <2>1. Early(r) \/ Save(r) \/ Loop(r)
    BY DEF Step, Early, Loop
  <2> QED BY <1>1, <2>1, EarlyOrigin, SaveOrigin, LoopOrigin DEF ProvenanceInv
<1>3. ASSUME NEW q \in Requests \ {r} PROVE Origin(q)' /\ Fixed(q)
  <2>1. /\ pc'[q] = pc[q] /\ cred'[q] = cred[q] /\ target'[q] = target[q]
        /\ wait'[q] = wait[q]
    BY <1>1, RequestFrame
  <2>2. heard'[q] = heard[q] /\ scan'[q] = scan[q]
    BY <1>1, OthersKeep
  <2>3. Fixed(q)
    BY <2>1, <2>2 DEF Fixed
  <2>4. Bound(q) => Bound(q)'
    BY <2>1 DEF Bound, Validate
  <2>5. Backed(q) => Backed(q)'
    BY <2>1, <2>2 DEF Backed, Evidence, samePrincipal
  <2>6. Origin(q)
    BY DEF ProvenanceInv
  <2>7. Origin(q)'
    BY <2>1, <2>2, <2>4, <2>5, <2>6 DEF Origin
  <2> QED BY <2>3, <2>7
<1>4. \A q \in Requests : Origin(q)' /\ Fixed(q)
  BY <1>2, <1>3
<1>5. ASSUME NEW n \in Names, NEW d \in Docs(n) PROVE Placed(n, d)'
  <2>1. d \in Contents /\ Placed(n, d)
    BY <1>1, <1>5, DocTypes DEF ProvenanceInv
  <2> QED BY <1>1, <1>4, <2>1, PlacedStays
<1>6. ASSUME NEW n \in Names PROVE Obeys(n)'
  <2>1. wait[r].temp \in Nat
    BY <1>1 DEF TypeOK, Waits
  <2> QED BY <1>1, <1>6, <2>1, RequestFrame, HostObeys DEF ProvenanceInv
<1>7. ASSUME NEW m \in Names, NEW c, NEW t,
             AuthSave(m, c) \/ ReplaceFile(m, c, t), Placed(m, c)',
             NEW n \in Names, NEW d \in Docs(n)'
      PROVE  Placed(n, d)'
  <2>1. d \in Docs(n) \/ (n = m /\ d = c)
    BY <1>1, <1>7, WriteDocs
  <2> QED BY <1>5, <1>7, <2>1
<1>8. ASSUME UNCHANGED hostVars, NEW n \in Names, NEW d \in Docs(n)'
      PROVE  Placed(n, d)'
  <2>1. Docs(n)' = Docs(n)
    BY <1>8 DEF hostVars, Docs
  <2> QED BY <1>5, <1>8, <2>1
<1>9. cred[r] \in Contents
  BY <1>1 DEF TypeOK
<1>10. ASSUME NEW n \in Names, NEW d \in Docs(n)' PROVE Placed(n, d)'
  <2>1. CASE UNCHANGED hostVars
    BY <1>8, <1>10, <2>1
  <2>2. CASE Save(r) /\ ~UNCHANGED hostVars
    <3>1. PICK m \in Resolved(r) :
            AuthSave(m, Staging(r)) /\ target' = [target EXCEPT ![r] = m]
      BY <2>2 DEF Save
    <3>2. pc[r] = "inspect" /\ UNCHANGED cred
      BY <2>2 DEF Save
    <3>3. m \in Names /\ target'[r] = m
      BY <1>1, <3>1, <3>2, ResolvedOwned DEF TypeOK
    <3>4. Staging(r).at = r /\ Staging(r)' = Staging(r)
      BY <1>9, <3>2, StagingFields DEF Staging, ProvenanceInv, Origin, Backed
    <3>5. PICK c : c = Staging(r)
      OBVIOUS
    <3>6. Placed(m, c)'
      BY <3>3, <3>4, <3>5 DEF Placed
    <3> QED BY <1>7, <1>10, <3>1, <3>3, <3>5, <3>6
  <2>3. CASE RewriteRename(r) /\ ~UNCHANGED hostVars
    <3>1. /\ ReplaceFile(target[r], cred[r], wait[r].temp) /\ pc[r] = "rename"
          /\ wait[r].phase # "stage" \/ BeginWait(r, "final")
      BY <2>3 DEF RewriteRename, Desired
    <3>2. target[r] \in Names /\ target[r] # NoName
      BY <1>1, <3>1, PatServiceConstants DEF LocalsOK, LocalOK, Waiting, Bound
    <3>3. cred[r].at = r /\ wait[r].phase \in {"stage", "final"}
      BY <3>1, <3>2 DEF ProvenanceInv, Origin, Backed, Waiting
    <3>4. wait'[r].phase = "final"
      <4>1. CASE wait[r].phase = "stage"
        <5>1. wait'[r] = [NoWait EXCEPT !.phase = "final", !.deadline = now + Timeout]
          BY <1>1, <3>1, <4>1 DEF BeginWait, TypeOK
        <5> QED BY <5>1 DEF NoWait
      <4>2. CASE wait[r].phase = "final"
        BY <1>2, <3>2, <4>2 DEF Fixed
      <4> QED BY <3>3, <4>1, <4>2
    <3>5. target'[r] = target[r] /\ cred'[r] = cred[r]
      BY <1>2, <3>2 DEF Fixed
    <3>6. PICK m \in Names, c \in Contents : m = target[r] /\ c = cred[r]
      BY <1>9, <3>2
    <3>7. Placed(m, c)'
      BY <3>3, <3>4, <3>5, <3>6 DEF Placed
    <3> QED BY <1>7, <1>10, <3>1, <3>6, <3>7
  <2>4. CASE Early(r) \/ (Loop(r) /\ ~RewriteRename(r))
    <3>1. UNCHANGED hostVars
      BY <1>1, <2>4, EarlySteps DEF Loop, AwaitStat, AwaitRead, AwaitRuntime, ConfirmStat,
         ConfirmRead, ConfirmRuntime, RewriteCheck, WriteTemporary, EndPoll, Wake
    <3> QED BY <1>8, <1>10, <3>1
  <2> QED BY <2>1, <2>2, <2>3, <2>4 DEF Step, Early, Loop
<1> QED BY <1>4, <1>6, <1>10

\* What the host's steps, the operator's and a crash do.
LEMMA HostProvenance ==
  ASSUME ProvenanceInv,
         (\E n \in Names : Operator(n) \/ HostWork(n)) \/ Clock \/ Crash \/ UNCHANGED vars
  PROVE  /\ \A q \in Requests : Origin(q)'
         /\ \A n \in Names : Obeys(n)' /\ \A d \in Docs(n)' : Placed(n, d)'
<1>1. TypeOK /\ HostTypeOK /\ UNCHANGED <<localVars, heard>>
  BY DEF ProvenanceInv, TypeOK, Operator, HostWork, Clock, Crash, vars, ghostVars
<1>2. \/ \E m \in Names : Background(m) \/ OperatorDelete(m) \/ OperatorWrite(m)
      \/ Tick \/ Restart \/ UNCHANGED hostVars
  BY DEF Operator, HostWork, Clock, Crash, vars
<1>3. \A q \in Requests : pc'[q] = pc[q] \/ pc'[q] = "done"
  BY DEF Operator, HostWork, Clock, Crash, vars, ctlVars
<1>4. ASSUME NEW q \in Requests PROVE Origin(q)' /\ Fixed(q)
  <2>1. Origin(q) /\ UNCHANGED <<cred, target, wait, scan, heard>>
    BY <1>1 DEF ProvenanceInv, localVars
  <2>2. Fixed(q)
    BY <2>1 DEF Fixed
  <2>3. (Bound(q) => Bound(q)') /\ (Backed(q) => Backed(q)')
    BY <2>1 DEF Bound, Validate, Backed, Evidence, samePrincipal
  <2>4. pc'[q] = pc[q] \/ pc'[q] = "done"
    BY <1>3
  <2>5. Origin(q)'
    BY <2>1, <2>3, <2>4 DEF Origin, Waiting
  <2> QED BY <2>2, <2>5
<1>5. ASSUME NEW n \in Names PROVE Obeys(n)'
  BY <1>1, <1>2, HostObeys DEF ProvenanceInv
<1>6. ASSUME NEW n \in Names, NEW d \in Docs(n)' PROVE Placed(n, d)'
  <2>1. d \in Docs(n) \cup OperatorContents \cup {Absent}
    BY <1>1, <1>2, <1>6, HostDocs, OperatorDocs
  <2>2. CASE d \in Docs(n)
    <3>1. d \in Contents /\ Placed(n, d)
      BY <1>1, <2>2, DocTypes DEF ProvenanceInv
    <3> QED BY <1>1, <1>4, <3>1, PlacedStays
  <2>3. CASE d \in OperatorContents \cup {Absent}
    <3>1. d.at = NoStamp
      BY <2>3, ForeignDocuments DEF Absent, Opaque
    <3> QED BY <3>1 DEF Placed
  <2> QED BY <2>1, <2>2, <2>3
<1> QED BY <1>4, <1>5, <1>6

\* ProvenanceInv is inductive.
LEMMA ProvenanceStep == ProvenanceInv /\ [Next]_vars => ProvenanceInv'
<1> SUFFICES ASSUME ProvenanceInv, [Next]_vars PROVE ProvenanceInv'
  OBVIOUS
<1>1. TypeOK' /\ LocalsOK'
  BY NextOK DEF ProvenanceInv
<1>2. CASE \E r \in Requests : Arrive(r) \/ Step(r)
  BY <1>1, <1>2, RequestProvenance DEF ProvenanceInv
<1>3. CASE (\E n \in Names : Operator(n) \/ HostWork(n)) \/ Clock \/ Crash \/ UNCHANGED vars
  BY <1>1, <1>3, HostProvenance DEF ProvenanceInv
<1> QED BY <1>2, <1>3 DEF Next

\* Nothing the directory starts with carries a stamp.
LEMMA ProvenanceInit == Init => ProvenanceInv
<1> SUFFICES ASSUME Init PROVE ProvenanceInv
  OBVIOUS
<1>1. TypeOK /\ LocalsOK
  BY InitOK
<1>2. ASSUME NEW r \in Requests PROVE Origin(r)
  BY DEF Init, Origin, Waiting
<1>3. ASSUME NEW n \in Names PROVE Obeys(n) /\ \A d \in Docs(n) : Placed(n, d)
  <2>1. PICK dir \in InitDirs : file = [m \in Names |-> [mod |-> 0, content |-> dir[m]]]
    BY DEF Init, HostInit
  <2>2. file[n].content = dir[n] /\ file[n].content \in Contents
    BY <1>1, <2>1 DEF TypeOK, HostTypeOK
  <2>3. auth[n] = Registered(n, file[n].content, 0) /\ watch[n] = NoJob /\ refresh[n] = NoJob
    BY DEF Init, HostInit
  <2>4. Obeys(n)
    BY <2>2, <2>3, RegisteredObeys DEF Obeys
  <2>5. ASSUME NEW d \in Docs(n) PROVE Placed(n, d)
    <3>1. d \in {dir[n], Absent}
      BY <2>2, <2>3, <2>5, RegisteredStorage DEF Docs, NoJob
    <3>2. d.at = NoStamp
      BY <3>1, ForeignDocuments DEF Absent, Opaque
    <3> QED BY <3>2 DEF Placed
  <2> QED BY <2>4, <2>5
<1> QED BY <1>1, <1>2, <1>3 DEF ProvenanceInv

-----------------------------------------------------------------------------
(* What it gives.                                                          *)

\* The mutation that wrote a stamped document chose the name it is found under,
\* for a complete credential that says what the Auth API said.
LEMMA StampedIsBacked ==
  ASSUME ProvenanceInv, NEW n \in Names, NEW d \in Docs(n), d.at # NoStamp
  PROVE  /\ d.at \in Requests /\ d \in Contents
         /\ target[d.at] = n /\ Bound(d.at) /\ Backed(d.at) /\ isSafeAuthFileName(n)
         /\ \/ d = Staging(d.at)
            \/ d = cred[d.at] /\ wait[d.at].phase = "final"
<1>1. d \in Contents
  BY DocTypes DEF ProvenanceInv, TypeOK
<1>2. d.at \in Requests
  BY <1>1, PatServiceConstants DEF Contents
<1>3. /\ target[d.at] = n
      /\ \/ d = Staging(d.at)
         \/ d = cred[d.at] /\ wait[d.at].phase = "final"
  BY DEF ProvenanceInv, Placed
<1>4. target[d.at] # NoName
  BY <1>3, PatServiceConstants
<1> QED BY <1>1, <1>2, <1>3, <1>4 DEF ProvenanceInv, Origin

\* The runtime never carries an active record a mutation produced unless the Auth
\* API had confirmed exactly that principal to that mutation and the staging
\* barrier was passed: at no point of a save, after no crash and no stale refresh.
THEOREM ActiveAlwaysConfirmed == Spec => []ActiveOnlyIfConfirmed
<1>1. ProvenanceInv => ActiveOnlyIfConfirmed
  <2> SUFFICES ASSUME ProvenanceInv, NEW n \in Names, NEW r \in Requests,
                      auth[n].reg, ~auth[n].view.disabled, auth[n].storage.at = r
               PROVE  /\ heard[r].said = "identity"
                      /\ samePrincipal(heard[r].identity, auth[n].storage)
                      /\ wait[r].phase = "final"
    BY DEF ActiveOnlyIfConfirmed
  <2>1. PICK d \in Docs(n) : d = auth[n].storage
    BY DEF Docs
  <2>2. d.at = r /\ d.at # NoStamp
    BY <2>1, CredentialConstants, PatServiceConstants
  <2>3. ~d.disabled
    BY <2>1 DEF ProvenanceInv, Obeys
  <2>4. Backed(r) /\ (d = Staging(r) \/ (d = cred[r] /\ wait[r].phase = "final"))
    BY <2>2, StampedIsBacked
  <2>5. Staging(r).disabled
    BY StagingFields DEF Staging, ProvenanceInv, TypeOK
  <2>6. d = cred[r] /\ wait[r].phase = "final"
    BY <2>3, <2>4, <2>5
  <2>7. heard[r].said = "identity" /\ samePrincipal(heard[r].identity, d)
    BY <2>3, <2>4, <2>6 DEF Backed, Evidence
  <2> QED BY <2>1, <2>6, <2>7
<1> QED BY <1>1, ProvenanceInit, ProvenanceStep, PTL DEF Spec

\* A stored PAT is switched off only by a mutation that was told 401/403 or
\* another principal: no network failure, 429 or 5xx, and no half-done save,
\* leaves a disabled token behind.
THEOREM DisabledAlwaysOnEvidence == Spec => []DisabledOnlyOnEvidence
<1>1. ProvenanceInv => DisabledOnlyOnEvidence
  <2> SUFFICES ASSUME ProvenanceInv, NEW n \in Names, NEW r \in Requests,
                      file[n].content.at = r, file[n].content.disabled,
                      file[n].content.token # NoToken
               PROVE  \/ heard[r].said = "unauthorized"
                      \/ /\ heard[r].said = "identity"
                         /\ ~samePrincipal(heard[r].identity, file[n].content)
    BY DEF DisabledOnlyOnEvidence
  <2>1. PICK d \in Docs(n) : d = file[n].content
    BY DEF Docs
  <2>2. d.at = r /\ d.at # NoStamp
    BY <2>1, CredentialConstants, PatServiceConstants
  <2>3. Backed(r) /\ (d = Staging(r) \/ d = cred[r])
    BY <2>2, StampedIsBacked
  <2>4. Staging(r).token = NoToken
    BY StagingFields DEF Staging, ProvenanceInv, TypeOK
  <2>5. d = cred[r]
    BY <2>1, <2>3, <2>4
  <2> QED BY <2>1, <2>3, <2>5 DEF Backed, Evidence
<1> QED BY <1>1, ProvenanceInit, ProvenanceStep, PTL DEF Spec

\* Whatever a mutation leaves on disk, however it ended, resolveFileName takes for
\* the file of that principal: no failed save, crash or stale refresh wedges an
\* account.
THEOREM MutationsNeverWedge == Spec => []NeverWedged
<1>1. ProvenanceInv => NeverWedged
  <2> SUFFICES ASSUME ProvenanceInv, NEW n \in Names, file[n].content.at # NoStamp
               PROVE  Examine(n, file[n].content, file[n].content) = "same"
    BY DEF NeverWedged
  <2>1. PICK d \in Docs(n) : d = file[n].content
    BY DEF Docs
  <2>2. PICK r \in Requests : /\ target[r] = n /\ Bound(r) /\ isSafeAuthFileName(n)
                              /\ d = Staging(r) \/ d = cred[r]
    BY <2>1, StampedIsBacked
  <2>3. d.kind = "pat" /\ d.account = cred[r].account /\ d.user = cred[r].user
    BY <2>2, StagingFields DEF Staging, ProvenanceInv, TypeOK, Bound, Validate
  <2>4. /\ Owned(d) /\ ~DecodeFails(d) /\ samePrincipal(d, d) /\ IsOwnedFile(n)
        /\ IsOwnedFileForPrincipal(n, d.account, d.user)
    BY <2>2, <2>3 DEF Owned, DecodeFails, samePrincipal, IsOwnedFile, Bound,
       IsOwnedFileForPrincipal
  <2>5. Examine(n, d, d) = "same"
    BY <2>2, <2>4 DEF Examine
  <2> QED BY <2>1, <2>5
<1> QED BY <1>1, ProvenanceInit, ProvenanceStep, PTL DEF Spec
=============================================================================
