----------------------------- MODULE PatService -----------------------------
(***************************************************************************)
(* Credential mutations: the import and revalidation handlers of           *)
(* internal/management and the Service of internal/pat that carries them   *)
(* out against the host of AuthHost.                                       *)
(*                                                                         *)
(* A request takes the handler's mutation mutex, validates a token with    *)
(* the Codex Auth API, resolves the file it may write, saves a bearer-free *)
(* staging document through the host, waits until the host shows it,       *)
(* replaces the file by the final document, and waits until file and       *)
(* runtime agree on it through a settling window.  Every host callback and *)
(* every file operation is a step of its own; the host works in between.   *)
(***************************************************************************)
EXTENDS AuthHost

CONSTANTS
  Requests,      \* management requests, each served once
  Inputs,        \* the bodies requests may carry
  StableWindow,  \* watcherSyncConfig.stableWindow
  Timeout,       \* watcherSyncConfig.timeout
  PollInterval,  \* watcherSyncConfig.pollInterval
  InstantSteps,  \* a bound: time passes only while a request sleeps
  Free,          \* the mutex has no holder
  NoName

ASSUME PatServiceConstants ==
  /\ Stamps = Requests
  /\ Inputs \subseteq [kind: {"import", "revalidate", "malformed"},
                       token: Tokens \cup {NoToken}, name: Names \cup {NoName}]
  /\ \A i \in Inputs : i.kind = "revalidate" => i.name \in Names
  /\ \A account \in Accounts, user \in Users, meta \in Metas :
       FileName(account, user, meta) \in Names \ UnsafeNames
  /\ StableWindow \in Nat /\ Timeout \in Nat /\ PollInterval \in Nat \ {0}
  /\ InstantSteps \in BOOLEAN
  /\ Free \notin Requests /\ NoName \notin Names

VARIABLES
  mutex,    \* Handler.mutationMu's holder
  pc,       \* where each request is
  input,    \* the request body
  cred,     \* the credential being saved
  scan,     \* resolveFileName's files, those left to open, canonicalOccupied, samePrincipalFiles
  target,   \* the file name the save resolved to
  wait,     \* awaitWatcherState's locals
  result,   \* the response, by kind
  heard,    \* history: what the Codex Auth API said about the request's token
  touched   \* history: someone else wrote the request's file since its last confirming Lstat

ctlVars == <<mutex, pc, result>>
localVars == <<input, cred, scan, target, wait>>
ghostVars == <<heard, touched>>
vars == <<hostVars, ctlVars, localVars, ghostVars>>

Pcs == {"idle", "lock", "import", "get", "validate", "list", "inspect", "stat",
        "read", "runtime", "confirm", "confirmRead", "confirmRuntime", "check",
        "write", "rename", "sleep", "timer", "done"}

\* The outcomes whose credential was saved.
Saved == {"valid", "invalid", "account_mismatch"}

Results == Saved \cup FailureKinds \cup
  {"none", "invalid_request", "invalid_input", "credential_not_found",
   "credential_malformed", "persistence_failed", "crashed"}

Scans == [listed: SUBSET Names, todo: SUBSET Names, occupied: BOOLEAN, same: SUBSET Names]

\* mod: the modification time last read; armed, since, stable: stableSince and
\* stableModTime, armed when they are set; content: contentReady; temp: when
\* replaceFile0600 wrote its temporary file.
Waits == [phase: {"none", "stage", "final"}, mod: Nat, armed: BOOLEAN, since: Nat,
          stable: Nat, content: BOOLEAN, deadline: Nat, wake: Nat, temp: Nat]

Verdicts == [said: {"nothing", "unauthorized", "identity"}, identity: Identities]

NoScan == [listed |-> {}, todo |-> {}, occupied |-> FALSE, same |-> {}]
NoWait == [phase |-> "none", mod |-> 0, armed |-> FALSE, since |-> 0, stable |-> 0,
           content |-> FALSE, deadline |-> 0, wake |-> 0, temp |-> 0]
Silence == [said |-> "nothing", identity |-> CHOOSE i \in Identities : TRUE]
NoInput == [kind |-> "malformed", token |-> NoToken, name |-> NoName]

Init ==
  /\ HostInit
  /\ mutex = Free
  /\ pc = [r \in Requests |-> "idle"]
  /\ input = [r \in Requests |-> NoInput]
  /\ cred = [r \in Requests |-> Absent]
  /\ scan = [r \in Requests |-> NoScan]
  /\ target = [r \in Requests |-> NoName]
  /\ wait = [r \in Requests |-> NoWait]
  /\ result = [r \in Requests |-> "none"]
  /\ heard = [r \in Requests |-> Silence]
  /\ touched = [r \in Requests |-> FALSE]

-----------------------------------------------------------------------------
(* Control.                                                                *)

Goto(r, label) ==
  pc' = [pc EXCEPT ![r] = label] /\ UNCHANGED <<mutex, result>>

\* Mutant: only the successful path unlocks.
ReturnLocked(r, res) ==
  /\ pc' = [pc EXCEPT ![r] = "done"]
  /\ result' = [result EXCEPT ![r] = res]
  /\ mutex' = IF res \in Saved THEN Free ELSE mutex

\* Return a response and release the mutex (the deferred Unlock).
Return(r, res) ==
  /\ pc' = [pc EXCEPT ![r] = "done"]
  /\ result' = [result EXCEPT ![r] = res]
  /\ mutex' = Free

\* A write of file n by anyone but request r counts against every request that
\* chose n.
TouchBy(n, r) ==
  touched' = [q \in Requests |->
                touched[q] \/ (q # r /\ target[q] = n)]

Look(r) == touched' = [touched EXCEPT ![r] = FALSE]

-----------------------------------------------------------------------------
(* The handlers up to validation.                                          *)

\* decodeStrictBody (and a blank auth_index) answer before the mutex is taken.
Arrive(r) ==
  /\ pc[r] = "idle"
  /\ \E i \in Inputs :
       /\ input' = [input EXCEPT ![r] = i]
       /\ IF i.kind = "malformed"
          THEN /\ pc' = [pc EXCEPT ![r] = "done"]
               /\ result' = [result EXCEPT ![r] = "invalid_request"]
               /\ UNCHANGED mutex
          ELSE Goto(r, "lock")
  /\ UNCHANGED <<hostVars, cred, scan, target, wait, ghostVars>>

Lock(r) ==
  /\ pc[r] = "lock" /\ mutex = Free
  /\ mutex' = r
  /\ pc' = [pc EXCEPT ![r] = IF input[r].kind = "import" THEN "import" ELSE "get"]
  /\ UNCHANGED <<hostVars, result, localVars, ghostVars>>

\* What the reply establishes about the token, whatever the code makes of it.
Verdict(reply) ==
  CASE reply.status \in {401, 403} -> [Silence EXCEPT !.said = "unauthorized"]
    [] IsSuccess(reply.status) /\ reply.err = "none" /\ reply.decodes
         -> [said |-> "identity", identity |-> reply.identity]
    [] OTHER -> Silence

\* FetchIdentity's first failure: it sends no request.
UnusableBaseURL(r) == Return(r, "invalid_input") /\ UNCHANGED <<cred, heard>>

Import(r) ==
  /\ pc[r] = "import"
  /\ IF input[r].token \notin Tokens
     THEN Return(r, "invalid_input") /\ UNCHANGED <<cred, heard>>
     ELSE \/ UnusableBaseURL(r)
          \/ \E reply \in Replies :
               /\ heard' = [heard EXCEPT ![r] = Verdict(reply)]
               /\ IF FetchIdentity(reply) # "valid"
                  THEN Return(r, FetchIdentity(reply)) /\ UNCHANGED cred
                  ELSE /\ cred' = [cred EXCEPT ![r] =
                                     NewCredential(input[r].token, reply.identity, r)]
                       /\ Goto(r, "list")
  /\ UNCHANGED <<hostVars, input, scan, target, wait, touched>>

\* The part of handleRevalidate before the service: which files qualify.
SavedCredentialRefused(n, c) ==
  CASE ~Owned(c) \/ ~IsOwnedFile(n) -> "credential_not_found"
    [] Owned(c) /\ IsOwnedFile(n) /\ DecodeFails(c) -> "credential_malformed"
    [] Owned(c) /\ IsOwnedFile(n) /\ ~DecodeFails(c)
         /\ ~IsOwnedFileForPrincipal(n, c.account, c.user) -> "credential_malformed"
    [] OTHER -> IF Validate(c) THEN "none" ELSE "invalid_input"

GetSaved(r) ==
  LET n == input[r].name  c == file[n].content IN
  /\ pc[r] = "get"
  /\ \/ Return(r, "credential_not_found") /\ UNCHANGED cred
     \/ /\ auth[n].reg /\ Present(n)
        /\ IF SavedCredentialRefused(n, c) # "none"
           THEN Return(r, SavedCredentialRefused(n, c)) /\ UNCHANGED cred
           ELSE cred' = [cred EXCEPT ![r] = c] /\ Goto(r, "validate")
  /\ UNCHANGED <<hostVars, input, scan, target, wait, ghostVars>>

\* The credential a revalidation saves, given the validation's outcome.
Revalidated(c, reply, r) ==
  CASE FetchIdentity(reply) = "authentication_failed" -> Disable(c, "invalid", r)
    [] FetchIdentity(reply) = "valid" /\ ~samePrincipal(reply.identity, c)
         -> Disable(c, "account_mismatch", r)
    [] OTHER -> ApplyIdentity(c, reply.identity, r)

Revalidate(r) ==
  /\ pc[r] = "validate"
  /\ \/ UnusableBaseURL(r)
     \/ \E reply \in Replies :
          /\ heard' = [heard EXCEPT ![r] = Verdict(reply)]
          /\ IF FetchIdentity(reply) \in {"valid", "authentication_failed"}
             THEN /\ cred' = [cred EXCEPT ![r] = Revalidated(cred[r], reply, r)]
                  /\ Goto(r, "list")
             ELSE Return(r, FetchIdentity(reply)) /\ UNCHANGED cred
  /\ UNCHANGED <<hostVars, input, scan, target, wait, touched>>

-----------------------------------------------------------------------------
(* resolveFileName.                                                        *)

\* Mutant: account and user swapped.
swappedName(c) == FileName(c.user, c.account, c.meta)

canonicalName(c) == FileName(c.account, c.user, c.meta)

Provider(n) == IF auth[n].storage.kind = "alien" THEN "other" ELSE "codex"

Candidate(n, c) ==
  Provider(n) = "codex" \/ IsOwnedFile(n) \/ EqualFold(n, canonicalName(c))

\* What the loop body concludes about file n holding d, for credential c.
Examine(n, d, c) ==
  LET decoded == Owned(d) /\ ~DecodeFails(d) IN
  CASE ~isSafeAuthFileName(n) -> "reject"
    [] isSafeAuthFileName(n) /\ decoded /\ IsOwnedFile(n)
         /\ ~IsOwnedFileForPrincipal(n, d.account, d.user) -> "reject"
    [] isSafeAuthFileName(n) /\ decoded /\ samePrincipal(d, c)
         /\ (IsOwnedFile(n) => IsOwnedFileForPrincipal(n, d.account, d.user))
           -> IF IsOwnedFile(n) THEN "same" ELSE "skip"
    [] OTHER ->
         IF IsOwnedFile(n)
            /\ \/ Owned(d) /\ (DecodeFails(d) \/ d.account = NoId \/ d.user = NoId)
               \/ (Owned(d) \/ DecodeFails(d))
                  /\ n.hash = principalHash(c.account, c.user)
         THEN "reject" ELSE "skip"

\* host.auth.list, and the two facts taken from an entry before it is opened.
List(r) ==
  /\ pc[r] = "list"
  /\ \/ Return(r, "persistence_failed") /\ UNCHANGED scan
     \/ LET listed == {n \in Names : auth[n].reg} IN
        /\ Validate(cred[r])
        /\ scan' = [scan EXCEPT ![r] =
             [listed |-> listed,
              todo |-> {n \in listed : Candidate(n, cred[r])},
              occupied |-> \E n \in listed : EqualFold(n, canonicalName(cred[r])),
              same |-> {}]]
        /\ Goto(r, "inspect")
  /\ UNCHANGED <<hostVars, input, cred, target, wait, ghostVars>>

\* One candidate: host.auth.get and the loop body.
Inspect(r) ==
  /\ pc[r] = "inspect"
  /\ \E n \in scan[r].todo :
       \/ Return(r, "persistence_failed") /\ scan' = [scan EXCEPT ![r] = NoScan]
       \/ LET found == Examine(n, file[n].content, cred[r]) IN
          /\ auth[n].reg /\ Present(n)
          /\ IF \/ found = "reject"
                \/ found = "same" /\ \E m \in scan[r].same : m # n /\ EqualFold(m, n)
             THEN Return(r, "persistence_failed") /\ scan' = [scan EXCEPT ![r] = NoScan]
             ELSE /\ scan' = [scan EXCEPT ![r].todo = @ \ {n},
                                          ![r].same = IF found = "same" THEN @ \cup {n} ELSE @]
                  /\ Goto(r, "inspect")
  /\ UNCHANGED <<hostVars, input, cred, target, wait, ghostVars>>

\* Mutant: canonicalOccupied is not consulted.
ResolvedOverwriting(r) ==
  IF input[r].kind = "revalidate"
  THEN {n \in scan[r].same : EqualFold(n, input[r].name)}
  ELSE IF scan[r].same # {}
       THEN {n \in scan[r].same : scan[r].same = {n}}
       ELSE {canonicalName(cred[r])}

\* Mutant: an import always takes the canonical name.
ResolvedCanonical(r) ==
  IF input[r].kind = "revalidate"
  THEN {n \in scan[r].same : EqualFold(n, input[r].name)}
  ELSE {n \in {canonicalName(cred[r])} : ~scan[r].occupied}

\* The names the loop leaves the save free to write: at most one of them is used.
Resolved(r) ==
  LET preferred == input[r].name IN
  IF input[r].kind = "revalidate"
  THEN {n \in scan[r].same : EqualFold(n, preferred)}
  ELSE IF scan[r].same # {}
       THEN {n \in scan[r].same : scan[r].same = {n}}
       ELSE {n \in {canonicalName(cred[r])} : ~scan[r].occupied}

-----------------------------------------------------------------------------
(* Staging and the settling loop.                                          *)

Desired(r) == cred[r]
Staging(r) == failClosedHostPayload(cred[r])

BeginWait(r, phase) ==
  /\ wait' = [wait EXCEPT ![r] = [NoWait EXCEPT !.phase = phase, !.deadline = now + Timeout]]
  /\ Goto(r, "stat")

\* stableSince and stableModTime go back to zero.
Disarmed(w) == [w EXCEPT !.armed = FALSE, !.since = 0, !.stable = 0]

Disarm(r) == wait' = [wait EXCEPT ![r] = Disarmed(@)] /\ Goto(r, "sleep")

\* host.auth.save of the staging document; its answer may be lost or name
\* another file although the document was written.
Save(r) ==
  /\ pc[r] = "inspect" /\ scan[r].todo = {}
  /\ \/ Return(r, "persistence_failed") /\ UNCHANGED <<hostVars, target, wait, touched>>
     \/ \E n \in Resolved(r) :
          /\ AuthSave(n, Staging(r))
          /\ target' = [target EXCEPT ![r] = n]
          /\ TouchBy(n, r)
          /\ \/ Return(r, "persistence_failed") /\ UNCHANGED wait
             \/ BeginWait(r, "stage")
  /\ scan' = [scan EXCEPT ![r] = NoScan]
  /\ UNCHANGED <<input, cred, heard>>

\* readSecuredCredential: Lstat, and later ReadFile.
Stat(r, label) ==
  \/ Return(r, "persistence_failed") /\ UNCHANGED wait
  \/ /\ Present(target[r])
     /\ wait' = [wait EXCEPT ![r].mod = file[target[r]].mod]
     /\ Goto(r, label)

\* Top of the loop: read the file; a final document that changed is repaired.
AwaitStat(r) ==
  /\ pc[r] = "stat"
  /\ Stat(r, "read")
  /\ UNCHANGED <<hostVars, input, cred, scan, target, ghostVars>>

AwaitRead(r) ==
  /\ pc[r] = "read"
  /\ \/ Return(r, "persistence_failed")
     \/ /\ Present(target[r])
        /\ Goto(r, IF wait[r].phase = "final" /\ file[target[r]].content # Desired(r)
                   THEN "check" ELSE "runtime")
  /\ UNCHANGED <<hostVars, localVars, ghostVars>>

\* awaitWatcherStage's and awaitWatcherPersistence's condition.
runtimeReady(r, mod) ==
  LET a == auth[target[r]] IN
  /\ a.view.disabled = (wait[r].phase = "stage" \/ cred[r].disabled)
  /\ a.updated >= mod

Armed(w) ==
  IF w.armed /\ w.stable = w.mod THEN w
  ELSE [w EXCEPT !.armed = TRUE, !.since = now, !.stable = w.mod]

\* Mutant: the runtime is believed as soon as it is ready.
ElapsedAtOnce(since) == now >= since

Elapsed(since) == now >= since + StableWindow

\* host.auth.list for the index, then host.auth.get_runtime.  A missing index
\* leaves stableSince alone; a failed or unready runtime resets it.
AwaitRuntime(r) ==
  /\ pc[r] = "runtime"
  /\ \/ Goto(r, "sleep") /\ UNCHANGED wait
     \/ Disarm(r)
     \/ /\ auth[target[r]].reg
        /\ runtimeReady(r, wait[r].mod)
        /\ wait' = [wait EXCEPT ![r] = Armed(@)]
        /\ Goto(r, IF Elapsed(Armed(wait[r]).since) THEN "confirm" ELSE "sleep")
  /\ UNCHANGED <<hostVars, input, cred, scan, target, ghostVars>>

ConfirmStat(r) ==
  /\ pc[r] = "confirm"
  /\ Stat(r, "confirmRead")
  /\ Look(r)
  /\ UNCHANGED <<hostVars, input, cred, scan, target, heard>>

ConfirmRead(r) ==
  /\ pc[r] = "confirmRead"
  /\ \/ Return(r, "persistence_failed") /\ UNCHANGED wait
     \/ /\ Present(target[r])
        /\ wait' = [wait EXCEPT ![r].content = \/ wait[r].phase = "stage"
                                               \/ file[target[r]].content = Desired(r)]
        /\ Goto(r, "confirmRuntime")
  /\ UNCHANGED <<hostVars, input, cred, scan, target, ghostVars>>

Confirmed(r) ==
  /\ auth[target[r]].reg
  /\ wait[r].stable = wait[r].mod
  /\ wait[r].content
  /\ runtimeReady(r, wait[r].mod)

ConfirmRuntime(r) ==
  /\ pc[r] = "confirmRuntime"
  /\ \/ Disarm(r)
     \/ /\ Confirmed(r)
        /\ IF wait[r].phase = "stage" THEN Goto(r, "check") ELSE Return(r, cred[r].state)
        /\ UNCHANGED wait
  /\ UNCHANGED <<hostVars, input, cred, scan, target, ghostVars>>

\* rewriteSecuredCredential up to its Lstat.
RewriteCheck(r) ==
  /\ pc[r] = "check"
  /\ IF Present(target[r]) THEN Goto(r, "write") ELSE Return(r, "persistence_failed")
  /\ UNCHANGED <<hostVars, localVars, ghostVars>>

\* replaceFile0600 up to its rename: the write gives the temporary file its
\* modification time; chmod, sync and close follow.
WriteTemporary(r) ==
  /\ pc[r] = "write"
  /\ \/ Return(r, "persistence_failed") /\ UNCHANGED wait
     \/ /\ wait' = [wait EXCEPT ![r].temp = now]
        /\ Goto(r, "rename")
  /\ UNCHANGED <<hostVars, input, cred, scan, target, ghostVars>>

\* The rename.  It recreates a file deleted since the check.  The first rewrite
\* starts the final wait, a repair goes on with it.
RewriteRename(r) ==
  /\ pc[r] = "rename"
  /\ \/ Return(r, "persistence_failed") /\ UNCHANGED <<hostVars, wait, touched>>
     \/ /\ ReplaceFile(target[r], Desired(r), wait[r].temp)
        /\ TouchBy(target[r], r)
        /\ IF wait[r].phase = "stage" THEN BeginWait(r, "final") ELSE Disarm(r)
  /\ UNCHANGED <<input, cred, scan, target, heard>>

\* Bottom of the loop: the deadline, then the poll timer.
EndPoll(r) ==
  /\ pc[r] = "sleep"
  /\ IF now > wait[r].deadline
     THEN Return(r, "persistence_failed") /\ UNCHANGED wait
     ELSE /\ wait' = [wait EXCEPT ![r].wake = now + PollInterval]
          /\ Goto(r, "timer")
  /\ UNCHANGED <<hostVars, input, cred, scan, target, ghostVars>>

Wake(r) ==
  /\ pc[r] = "timer" /\ now >= wait[r].wake
  /\ Goto(r, "stat")
  /\ UNCHANGED <<hostVars, localVars, ghostVars>>

-----------------------------------------------------------------------------
(* The host's steps, and a crash of the process that holds both.           *)

Operator(n) ==
  /\ OperatorDelete(n) \/ OperatorWrite(n)
  /\ TouchBy(n, Free)
  /\ UNCHANGED <<ctlVars, localVars, heard>>

HostWork(n) == Background(n) /\ UNCHANGED <<ctlVars, localVars, ghostVars>>

Clock ==
  /\ InstantSteps => \E r \in Requests : pc[r] = "timer" /\ now < wait[r].wake
  /\ Tick
  /\ UNCHANGED <<ctlVars, localVars, ghostVars>>

InFlight(r) == pc[r] \notin {"idle", "done"}

Crash ==
  /\ Restart
  /\ pc' = [r \in Requests |-> IF InFlight(r) THEN "done" ELSE pc[r]]
  /\ result' = [r \in Requests |-> IF InFlight(r) THEN "crashed" ELSE result[r]]
  /\ mutex' = Free
  /\ UNCHANGED <<localVars, ghostVars>>

Step(r) ==
  \/ Lock(r) \/ Import(r) \/ GetSaved(r) \/ Revalidate(r)
  \/ List(r) \/ Inspect(r) \/ Save(r)
  \/ AwaitStat(r) \/ AwaitRead(r) \/ AwaitRuntime(r)
  \/ ConfirmStat(r) \/ ConfirmRead(r) \/ ConfirmRuntime(r)
  \/ RewriteCheck(r) \/ WriteTemporary(r) \/ RewriteRename(r) \/ EndPoll(r) \/ Wake(r)

Next ==
  \/ \E r \in Requests : Arrive(r) \/ Step(r)
  \/ \E n \in Names : Operator(n) \/ HostWork(n)
  \/ Clock
  \/ Crash

Spec == Init /\ [][Next]_vars

\* The handler's goroutine runs, host callbacks return, and time passes; the
\* host does its own work before it is due.
Fairness ==
  /\ \A r \in Requests : WF_vars(Step(r))
  /\ WF_vars(Clock)
  /\ \A n \in Names :
       WF_vars(DueWork(n) /\ UNCHANGED <<ctlVars, localVars, ghostVars>>)

FairSpec == Spec /\ Fairness

-----------------------------------------------------------------------------
(* Properties.                                                             *)

\* The type invariant of the mutations and of the host.
TypeOK ==
  /\ HostTypeOK
  /\ mutex \in Requests \cup {Free}
  /\ pc \in [Requests -> Pcs]
  /\ input \in [Requests -> Inputs \cup {NoInput}]
  /\ cred \in [Requests -> Contents]
  /\ scan \in [Requests -> Scans]
  /\ target \in [Requests -> Names \cup {NoName}]
  /\ wait \in [Requests -> Waits]
  /\ result \in [Requests -> Results]
  /\ heard \in [Requests -> Verdicts]
  /\ touched \in [Requests -> BOOLEAN]

\* File n, its runtime record and all background work on it agree on document c.
Settled(n, c) ==
  /\ file[n].content = c
  /\ auth[n].reg /\ auth[n].storage = c /\ auth[n].view = ParseAuth(TRUE, n, c)
  /\ watch[n].on => watch[n].content = c
  /\ refresh[n].on => refresh[n].content = c

\* A document a runtime record can serve.
Live(d) == Validate(d) /\ ~d.disabled

\* Nothing under file n can be served: not the runtime record, not what the file,
\* the watcher or a refresh may still turn it into.
SwitchedOff(n) ==
  /\ auth[n].reg /\ auth[n].view.disabled
  /\ ~Live(file[n].content) /\ ~Live(auth[n].storage)
  /\ watch[n].on => ~Live(watch[n].content)
  /\ refresh[n].on => ~Live(refresh[n].content)

\* When a mutation has answered success (saveCredential returned nil), the
\* stored file and the runtime hold exactly the credential it reports, and no
\* older version is still on its way: this stays so until an operator or
\* another mutation writes the file again.  One case is weaker.  The credential
\* is one the Auth API just refused, and the host skipped its repair as an
\* unchanged rewrite (service.go:453-456 says CPA does): an older disabled
\* document may be left in the runtime and come back to the file, but the account
\* is off for good, whatever the host still has in hand.  (On a skipping host no
\* operator may drop files into the directory: the watcher remembers theirs.)
SuccessIsSettled ==
  \A r \in Requests :
    result[r] \in Saved /\ ~touched[r] =>
      \/ Settled(target[r], cred[r])
      \/ SkipUnchanged /\ cred[r].disabled /\ SwitchedOff(target[r])

\* The runtime never carries an active record that a mutation produced unless
\* the Auth API had confirmed exactly that principal to that mutation and the
\* staging barrier was passed: host.auth.save's generic upsert, a crash in the
\* middle of a save and a stale refresh included.
ActiveOnlyIfConfirmed ==
  \A n \in Names, r \in Requests :
    auth[n].reg /\ ~auth[n].view.disabled /\ auth[n].storage.at = r
      => /\ heard[r].said = "identity"
         /\ samePrincipal(heard[r].identity, auth[n].storage)
         /\ wait[r].phase = "final"

\* A stored PAT is switched off only on authoritative evidence: the mutation
\* that disabled it was told 401/403, or another principal.  Network failures,
\* 429 and 5xx leave the last valid file alone.
DisabledOnlyOnEvidence ==
  \A n \in Names, r \in Requests :
    LET c == file[n].content IN
    c.at = r /\ c.disabled /\ c.token # NoToken
      => \/ heard[r].said = "unauthorized"
         \/ heard[r].said = "identity" /\ ~samePrincipal(heard[r].identity, c)

\* A save replaces a file the host had listed only if it holds a decodable PAT
\* record of the same principal, under the plugin's file name grammar: never a
\* native, third-party, damaged or other user's file.  (In a directory nobody
\* else writes between the listing and the save; the host offers no way to close
\* that window.)
NoClobber ==
  [][\A r \in Requests :
       LET n == target'[r] IN
       pc[r] = "inspect" /\ n # target[r] /\ n \in scan[r].listed /\ Present(n)
         => /\ file[n].content.kind = "pat"
            /\ samePrincipal(file[n].content, cred[r])
            /\ IsOwnedFileForPrincipal(n, cred[r].account, cred[r].user)]_vars

OwnedBy(n, c) == Owned(c) /\ IsOwnedFileForPrincipal(n, c.account, c.user)

\* Two files of the plugin never hold the same principal: replacing an account
\* whose email or plan changed reuses its file instead of adding one, also after
\* a save that failed or a crash half way.
OneFilePerPrincipal ==
  \A m, n \in Names :
    OwnedBy(m, file[m].content) /\ OwnedBy(n, file[n].content)
      /\ samePrincipal(file[m].content, file[n].content)
      => m = n

\* Whatever a mutation leaves on disk, however it ended, the next import for that
\* principal accepts as the file to replace: no failure wedges an account.  (A
\* revalidation does not do: it refuses a staging document, which has no bearer.)
NeverWedged ==
  \A n \in Names :
    LET c == file[n].content IN
    c.at # NoStamp => Examine(n, c, c) = "same"

\* failClosedHostPayload's comment: "CPA cannot skip the final watcher update as
\* an unchanged rewrite".  While a save waits for its final document, the watcher
\* never ignores that document as unchanged with an older one in the runtime.
FinalUpdateNotSkipped ==
  [][\A r \in Requests, n \in Names :
       wait[r].phase = "final" /\ InFlight(r) /\ target[r] = n
         /\ file[n].content = cred[r] /\ WatchSkip(n)
         => auth[n].storage = cred[r]]_vars

\* Every accepted mutation answers and gives the mutex back.
MutationsReturn ==
  \A r \in Requests : pc[r] = "lock" ~> pc[r] = "done"
=============================================================================
