# codex-pat: TLA+ specification

codex-pat is a native plugin of CLIProxyAPI (CPA, "the host"). It lets an
operator import a Codex personal access token (PAT), keeps it as a JSON file in
CPA's auth directory, and tells CPA how to turn such a file into a runtime
credential. This directory holds TLA+ models of the plugin, TLC instances of
them, and TLAPS proofs. Paths below are relative to `src/`.

## 1. Inventory

| Component | State | Operations | Interacts with |
|---|---|---|---|
| Mutation handlers (`internal/management/handler.go`) and `Service` (`internal/pat/service.go`) | the mutation mutex; locals of one running mutation | import, revalidate; resolve name, stage, wait, rewrite, wait, repair | every host callback, the file system, the Auth API |
| Credential record and parser (`internal/pat/credential.go`, `parser.go`) | none (pure) | decode, validate, marshal; `ParseAuth`, `RefreshAuth`, called by CPA | CPA's watcher and refresh |
| Token validation (`internal/pat/whoami.go`) | none | `FetchIdentity`, `classifyStatus` | HTTP through the host |
| CPA host (external) | auth directory, auth manager, watcher, token store | `host.auth.list/get/get_runtime/save`; watcher, background refresh, restart | calls and is called by the plugin |
| Native boundary (`cmd/codex-pat`) | `hostState.api`, `application.dispatcher` | init, call, callback, shutdown | CPA's threads |
| Status handler (`handler.go:107-279`) | none; takes no lock | list, then file and runtime of each account | host callbacks, beside running mutations |
| Host RPC client (`internal/hostrpc`) | one stream per request | open, read until done or over the limit, close | host callbacks |
| Dispatcher, registration (`internal/plugin`) | none | method switch, schema range check | boundary, handlers |
| Browser console (`internal/management/assets/app.js`) | key, account list, poll timer | load, import, revalidate, delete, poll | management routes |
| Static resources, load smoke tool, release scripts | none at run time | | |

What makes the system hard:

* **Two writers of one file.** CPA's watcher and token store work on their own
  schedule, and may apply or persist a version of a credential that is older
  than the one the plugin has just written. The plugin answers with a
  staging document, two settling loops, and repair.
* **Nothing is conditional.** The host offers list, get and save, no
  compare-and-set. Everything the plugin knows is stale when it uses it.
* **Every step may fail**, a save whose answer is lost included, and the process
  may die between staging and the final write.
* **Threads.** CPA calls, calls back and shuts down concurrently; the dispatcher
  is built lazily; the host's function table is freed after shutdown.
* **Evidence.** A 401 may disable a credential, a network error may not.
* **Unlocked readers.** The status handler reads list, file and runtime of each
  account at three moments, beside a running mutation.
* **Streams.** A validation reads its answer chunk by chunk through callbacks that may
  fail before or after they took effect, and may be cancelled between any two.
* **Overlapping handlers.** In the console several handlers wait at their awaits at
  once and share one timer and two buttons.

What makes each component correct:

* mutations: success means settled; a failure never activates, loses or wedges
  an account; no foreign file is overwritten; one file per principal; every
  request answers;
* record and parser: active only if confirmed, disabled only on evidence,
  undecodable files of the plugin fail closed;
* boundary: no use of a freed table, shutdown and calls return, mutations are
  serialized;
* status: a row never reports ready for what is not, and shows every earlier success;
* RPC client: every stream is closed, a body is whole and bounded or not returned, a validation ends;
* file names: what `FileName` writes, `parseOwnedFile` recognises;
* console: one timer, no dead button, a pending account is polled until it is not pending.

## 2. Modules

| Module | Models |
|---|---|
| `Whoami` | `NormalizeToken`, `ResolveWhoamiURL`, `decodeIdentity`, `classifyStatus`, `FetchIdentity`'s verdict |
| `Credential` | the rest of the pure part of `internal/pat` |
| `AuthHost` | CPA's auth directory, manager, watcher, refresh, operator, restart (external) |
| `PatService` | import and revalidate, composed with `AuthHost` |
| `PatServiceProofs` | theorems about `PatService`: types, where a mutation's documents can be, and what they rest on |
| `OwnershipProofs` | which files a save may replace |
| `SettleProofs` | what a success means |
| `MCPatService` | instances for TLC |
| `Status`, `StatusProofs`, `MCStatus` | the status handler, composed with `PatService` and so with `AuthHost`; its theorems; instance |
| `BoundedFetch` | what `FetchIdentity` expects of `HTTPDoLimited` (abstract) |
| `HttpStream`, `HttpStreamProofs`, `MCHttpStream` | `HTTPDoLimited` under `FetchIdentity`, its theorems and refinement, its instance |
| `FileNames`, `FileNamesProofs`, `MCFileNames` | `sanitizeFileSegment`, `FileName`, `parseOwnedFile`, their theorems, instance |
| `Console`, `ConsoleProofs`, `MCConsole` | the management page, its theorems, its instances |
| `PluginAbi`, `PluginAbiProofs`, `MCPluginAbi` | the native boundary and the dispatcher, their theorems, their instances |

`Credential` and `HttpStream` both extend `Whoami`: a mutation takes a validation's result in one step,
`HttpStream` shows how it comes about and that it can be relied on.

### Whoami

A token, a base URL and a JSON document are records of the facts the code tests (blank, too long, prefixed;
parses, has a host; decodes, which fields are texts). `classifyStatus` and the classification of host errors are kept case by case.

### Credential

A JSON document is a record of what the code derives from it: whether it is
marked codex/pat and decodes (`kind`), account, user, display metadata, token,
`disabled`, `validation_state`, one flag (`sound`) for the remaining conditions
of `Validate`, and `at`, which stands for `validated_at` and names the mutation that set
it. A file name is what `parseOwnedFile` and `EqualFold` tell apart: whether it is in the
plugin's grammar, its principal hash, its readable suffix, its spelling. The hash
is taken to be free of collisions; `Segment`, the suffix metadata sanitises to,
need not be injective. Whitespace trimming, headers, priority, notes, proxy and
base URLs are left out: no condition of the code here branches on them beyond `sound`.

### AuthHost

`file` is the directory, with modification times; `auth` the runtime records. A
write notifies the watcher (`event`); `WatchRead` takes the document, `WatchApply`
later registers what the plugin's `ParseAuth` makes of it. `RefreshStart` copies a
record's stored JSON, `RefreshApply` later writes record *and file* back through
`RefreshAuth`: this is the stale overwrite the code defends against
(`.trellis/spec/backend/cpa-native-plugin-contract.md:236`). `host.auth.save` writes the
file and registers a generic record at once (`service.go:453`). Two switches keep
what the source leaves open about CPA as parameters: `SkipUnchanged`
(the watcher drops a file whose hash it saw last) and `RegistersBroken`
(undecodable JSON reaches the plugin's parser). Work is done within
`WatchLag`/`RefreshLag`: `Tick` does not pass a due time.

### PatService

One action per host callback or file operation, `pc` naming the next:

| Action | Code |
|---|---|
| `Arrive`, `Lock` | `decodeStrictBody`, blank index; `mutationMu.Lock` |
| `Import` | `NormalizeToken`, `FetchIdentity` (an unusable base URL included), `NewCredential` |
| `GetSaved`, `Revalidate` | `handleRevalidate`'s checks; `Service.Revalidate` |
| `List`, `Inspect` | `resolveFileName`: `host.auth.list`, then `host.auth.get` and the loop body for one candidate |
| `Save` | the choice of the name, `failClosedHostPayload`, `host.auth.save` |
| `AwaitStat`, `AwaitRead`, `AwaitRuntime` | top of `awaitWatcherState`: `Lstat`, `ReadFile`, runtime record |
| `ConfirmStat`, `ConfirmRead`, `ConfirmRuntime` | the confirmation after the window |
| `RewriteCheck`, `WriteTemporary`, `RewriteRename` | `rewriteSecuredCredential` up to its `Lstat`, then `replaceFile0600`: temporary file, rename; first rewrite and repair |
| `EndPoll`, `Wake` | the deadline and the timer |

Any callback or file operation may fail, and the failure branch is the code's. Simplifications:

* the list for the index, `get_runtime` and `time.Now` in `AwaitRuntime` are one step
  (a failure of either is a disjunct of its own, so what each leads to is kept);
* the candidates are opened in any order, not the list's;
* the context is `context.Background()` (`internal/plugin/dispatcher.go:76`), so the wait
  loops' `ctx.Done()` branch cannot be taken;
* `heard` and `touched` are history variables: what the Auth API said, and whether an
  operator or another mutation wrote the file since the last confirming `Lstat`.

The modification time of a rewritten file is when its temporary file was written (`permissions_unix.go:24`), not when it
was renamed: a record the host updates in between is not older than the file that replaces it. `host.auth.save` is the host's
and writes in one step.

### PluginAbi

`hostState` is held for reading through a whole callback, so readers are explicit and
a waiting writer (`storing`, `clearing`) stops new ones, as Go's `RWMutex` does.
The sections under `application`'s lock only read or assign a pointer and are
single steps. A dispatcher is a number; its handler's `mutationMu` is `held`
together with `disp`. The host may call while it is shutting the plugin down and may load
it again with a new table after freeing the old one. What a call needs (nothing, callbacks, or
the mutex as well) is what `Dispatch` and `Handle` make of its method and route.

### Status

`ListStatuses`, `StatusForFile` and `StatusRuntime` are the three callbacks of `handleStatus`, each with
its failure; `JudgeRow` reads the clock after the last of them has returned (`handler.go:246`) and decides. `RowOf` is
`statusForFile`'s decision up to the runtime, `RuntimeReadiness` the rest of it. Between any two of these steps any action of
`PatService` and `AuthHost` may happen, and time may pass. `earlier` and `basis` are history: which mutations had answered success when
the request began; and for each row which mutations had renamed their credential into place when its file was read, and the
runtime's record when it was asked for.

### HttpStream and BoundedFetch

| Action | Code |
|---|---|
| `Call` | `Service.Validate`, `NormalizeToken`, `ResolveWhoamiURL` |
| `OpenFails`, `Open` | the callback that opens the stream (`MethodHostHTTPDoStream`), and the checks of limit and identifier |
| `ReadFails`, `Read` | one round of the loop: the callback, the chunk's error, the limit |
| `Close`, `DeferredClose` | the close after the loop; the deferred one |
| `Expire` | `ValidationTimeout` |

The host's stream table is external. A callback that fails may have opened or closed a stream all the same (`Orphan`,
`Stuck`). The host may hand an identifier out again, but not while a fetch still holds it (`Opens`): that is assumed of the host. `BoundedFetch` has five steps for a call (start, acquire, receive, release, finish) and says
what an answer may be (`Truthful`). The refinement mapping forgets where in the loop a fetch is: `Phase` is idle, running or
returned, `Holds` whether the host's table has a stream of the fetch, `Sent` what upstream sent,
`Answered` what was returned.

### FileNames

The loop of `sanitizeFileSegment` is the state machine, a step per character; the text is chosen as it is
read, so that every text is covered. `Trim`, `FileName` and `parseOwnedFile` are operators. `Reference` says in one piece
what the loop should compute. Prefix and extension are constant and left out; case is folded before the grammar applies.

### Console

A handler is atomic up to its next `await`; a call in `calls` is a handler at one. Every click, answer and
timer is an action, and each handler's `catch` and `finally` are in the step its answer triggers. The server
is one account with a version number. Notices, rendering, the confirmation dialog and the disabled flags of the row buttons are
left out; the form's and the refresh button's flags are modelled.

## 3. Runs

| Run | Properties | Instance | Result |
|---|---|---|---|
| `settle` | `SuccessIsSettled` | 1 request, 1 file, all reply classes, hash skipping, both lags 1, window 3, 2 refreshes, time 8 | holds |
| `resolve` | `NoClobber`, `OneFilePerPrincipal`, `NeverWedged` | 2 requests, 2 users of one account, 2 metadata, 6 names (one in mixed case, one foreign), 13 starting directories, 1 crash | hold |
| `evidence` | `TypeOK`, `ActiveOnlyIfConfirmed`, `DisabledOnlyOnEvidence` | 2 requests, 2 users, host work arbitrarily late, hash skipping, 1 refresh, 1 crash | hold |
| `live` | `MutationsReturn` | 2 requests on one file, hash skipping, operator deletes or replaces it once | holds |
| `skip` | `FinalUpdateNotSkipped` | as `settle`, 1 refresh | violated, see 3.1 |
| `status` | `ReadyWasServed`, `ShowsEarlierSuccess` | a status request beside a revalidation (confirmed or refused), one file, hash skipping, watcher lag 1, refresh lag 0, window and timeout 2, ready delay 1, 2 refreshes, time 5 | hold |
| `stream` | `TypeOK`, `StreamsAccountedFor`, `EvidenceIsReal`, `FetchIsBounded`, `FetchReturns` | 2 validations repeated for ever, 2 streams, chunks of 0 or 1, limits 0 and 1, statuses 200 and 403, a good and a bad document | hold |
| `names` | `TypeOK`, `NameIsOwned`, `SegmentIsReference` | a character of each class, texts up to 6, limits 4 and 2, hash of 2 | hold |
| `console` | `OneTimer`, `ButtonsAreReleased`, `PendingIsPolled`, `PendingEnds` | 2 handlers waiting at once, 5 user actions, 1 failed request | hold |
| `console_stale` | `ImportIsAwaited` | 2 handlers, 4 user actions, no failure | violated, see 3.1 |
| `abi` | `TypeOK`, `TableInUseIsAlive`, `SerializedWhileLoaded`, `ShutdownReturns`, `CallsReturn` | 2 threads that may call for ever, 2 loads, 2 callbacks a call | hold |
| `abi_serial` | `MutationsSerialized` | 2 threads, 1 load | violated, see 3.1 |

Bounds, and why they are enough for the questions asked:

* `settle`: the watcher skips unchanged hashes, as `service.go:453-456` says CPA's does. A window of 3 against lags of 1 and 1 is the
  tightest the theorem of section 4 allows; on a host that re-reads everything a window of 2 violates the property in this
  instance, on the skipping host a window of 1 does. Two refreshes are the least with which one can restore the staging
  document after the final write and another can pick that up again. Time 8 covers
  staging, its window, the final wait, a repair and a second window. The theorem
  removes all of these bounds, and covers the host that skips nothing as well.
* `resolve`: time plays no part in which file is chosen, so the windows are 0 and the
  lags too. Two requests are needed for the second to meet what the first left; the
  starting directories hold, one at a time, every kind of file the loop body distinguishes.
* `evidence`: with lags beyond the horizon and time standing still every order of host work
  and plugin steps is possible, so nothing rests on the settling window.
* `live`: with window and timeout 0 the loops still poll; the clock runs while a request sleeps (`InstantSteps`), and
  time 6 is more than two requests of two waits each can use up. The operator writes once, so a final document is repaired at most
  once: a file that somebody overwrites for ever is not exercised, although the deadline (`EndPoll`) does not depend on how often the loop repairs.
* `status`: the window exceeds the lags by one, and no operator writes, since the properties are about what the plugin's own steps leave. One
  revalidation starts from a stored credential and writes the file twice (staging, final), so a reader can be overtaken twice: list, file and
  runtime record may be of three versions, and a row may be read from the stored credential and its runtime from the one that replaced it
  (the second case of `ReadyWasServed`). Upstream answers 200 or 401, so that an earlier success may be a refusal. The refreshes are what brings
  older documents back. States after the answer are not explored further (`StatusRuns`): its rows no longer change. More than one mutation,
  a slower refresh and longer times are left to the theorems.
* `stream`: with a limit of 1 the body fits, is one over, or is spread over empty chunks; a second validation is needed to
  hand an identifier on. The theorems of section 4 remove the bounds for everything but `FetchReturns`.
* `names`: the limits are exceeded with and without a pending separator, and the last character that fits may be of each class.
  All three properties are proved without bounds.
* `console`: two handlers are the least that overlap; five actions are enough for key, import, refresh,
  row and key again. The three invariants are proved without bounds.
* `abi`: two threads are two first calls, or a mutation under way and a late call; the theorems cover any number.

`ClockRunsWithRequests` stops the clock when no request is under way; nothing depends on
absolute time. Deadlock is not checked: requests, clock, loads, user actions and texts are finite, so every
bounded instance stops. In `stream`, where validations are repeated for ever, it is.

**Fairness.** `PatService`: a handler's goroutine is scheduled and host callbacks return
(weak fairness of `Step(r)`), time passes, and the host does work that is due. Arrivals, operator,
crash and the start of a refresh are not fair. `PluginAbi`: weak fairness of each thread's next step and of the
host's load and shutdown calls; strong fairness of the mutex, since Go's `sync.Mutex` hands a lock
to a waiter that has waited a millisecond. No fairness on new calls, on shutting down, or on freeing the table. `HttpStream`: the goroutine runs and callbacks
return (weak fairness of each fetch's next step), and `ValidationTimeout` passes; the host need not ever end a body. `Console`: timers fire,
the change event of an edited field comes, requests are answered, answers are handled, and the watcher
makes an account ready. No fairness on the user.

### 3.1 Where the code and its documents differ

* **`skip`.** The comment on `failClosedHostPayload` (`internal/pat/service.go:455`) says the staging
  document makes the hashes differ, "so CPA cannot skip the final watcher update as an unchanged
  rewrite". That is so for the first final write. The repair (`service.go:223`) writes the
  same bytes again: the watcher reads the final document; a refresh that began
  from staging persists staging; the plugin repairs the file before the watcher
  reads that; the watcher finds the hash it remembers and drops the notification. The
  runtime keeps the staging record, with the final credential on disk. What follows depends on the credential:
  * An enabled one times out as `persistence_failed`, since the staging record is disabled.
  * A disabled one (upstream said 401, or named another principal) may answer success: the staging record is disabled as well, and
    `runtimeReady` compares nothing else but times. The runtime then still has the staging document, and the next refresh
    puts it back into the file, which loses the bearer and the reason for the disabling. `SuccessIsSettled` has this case in its
    statement: the account stays off, whatever the host still has in hand (`SwitchedOff`), but the file need not stay as reported.
* **`abi_serial`.** The contract (`cpa-native-plugin-contract.md:392`) says "mutations are
  serialized". `shutdownPlugin` drops the dispatcher while a mutation runs on it; a call that
  arrives before `clearHostAPI` has the write lock builds a second dispatcher, whose
  mutex is another one. Within one load and before its shutdown the sentence holds
  (`SerializedWhileLoaded`, proved).
* **`console_stale`.** After an import the page says "Credential imported. Waiting for CPA readiness."
  (`internal/management/assets/app.js:243`). `loadAccounts` (`app.js:218`) renders whichever answer arrives. When a list asked
  for before the import is delivered after the import handler's own, the page goes back to it, `schedulePendingPoll` clears
  the timer since that list has nothing pending, and the connected page never shows the account until the user reloads.

Not a difference, but worth knowing: a poll that fails arms no further timer. The page then
says "Unavailable", and polling resumes with the next successful load; `PendingIsPolled` therefore speaks of a connected page.

## 4. Proofs

`PatServiceProofs`:

* `TypesAlwaysOK`: `Spec => []TypeOK`. `TypeOK` is not inductive: the file a request rewrites
  must be one of `Names`, which rests on what `resolveFileName` checked. `LocalsOK` adds what the locals satisfy at
  each `pc`: a scan accepts only files with the principal's hash, and from `Save` on a request has a valid
  credential and a file named after its principal (`Bound`).
* `ActiveAlwaysConfirmed`, `DisabledAlwaysOnEvidence`, `MutationsNeverWedge`: `Spec => []` of `ActiveOnlyIfConfirmed`,
  `DisabledOnlyOnEvidence`, `NeverWedged`, with no hypothesis on the host (any lags, hash skipping, an operator, refreshes, crashes).
  The three speak of files and records, but the host copies documents
  between file, record, watcher and refresh, and any copy may come back. `ProvenanceInv` therefore speaks of all four places (`Docs`): a document
  with a mutation's stamp is under the name that mutation chose, and is its staging document or, after the barrier, its final one
  (`Placed`); a record never enables what its stored JSON disables (`Obeys`); and a mutation's locals still say what the
  document rests on (`Origin`). `HostDocs` and `WriteDocs` show that the host only copies. `NeverWedged` says what an import finds; a
  revalidation refuses a staging document, which has no bearer to validate.

`OwnershipProofs` (under `Undisturbed`: no operator writes the directory; see section 5):

* `SavesNeverClobber` (an action property) and `OneFileAlways` (also under `OneFileAtStart`: no principal has two files to begin
  with). A save rests on an inspection made several callbacks earlier. `OwnershipInv` says why it is still true: a request
  past `Lock` holds the mutex (`Exclusive`); record, watcher and refresh of one of the plugin's files know only
  documents of its principal, of another listed file only what it holds, and of an unlisted one nothing (`Followed`); so the
  list and the verdicts of the scan stay right (`Scanned`), and the file a request waits for stays its own (`Holds`).
  For the second theorem: a save to a name that was not listed happens only when no listed file was the principal's, and every file of
  the plugin is listed.

`SettleProofs` (under `Calm`: `WatchLag + RefreshLag < StableWindow`; and, if the host skips unchanged rewrites, `Undisturbed`):

* `SuccessAlwaysSettled`: `Spec => []SuccessIsSettled`. The property speaks of work the plugin cannot see, so the invariant must bound
  that work. The argument has four parts:
  1. `HostCalm`: where nothing is pending, the record is the file's or a notification was skipped (`InSync`); pending watcher work is due within
     `WatchLag` (`Timely`); a record is the plugin's reading of its JSON (`Reads`). `Recently`: what was under way when the window began is
     over when it ends, a refresh that carries another document than the file's by `WatchLag + RefreshLag` after it.
  2. `OldIsQuiet`: a file unwritten for a whole window is quiet (record, watcher and refresh all hold its content) or, on a host that skips,
     parted (file and record differ and no news is on its way). `QuietKept` and `PartedKept` say which host work changes that: none, but for a refresh that
     puts the record's document back into a parted file.
  3. `Window`, `Confirming`: the confirming `Lstat`, read and runtime read come a whole window after the time they vouch for, so they meet such a file,
     holding the final document. On a host that skips nothing that is the property, and `runtimeReady` plays no part in it.
  4. On a host that skips, `runtimeReady` is what tells a quiet file from a parted one, and for that a disabled flag has to be enough. `LiveInv` says why it is
     for an enabled credential: under each name at most one document that may be served (valid, not disabled) is anywhere in file, record, watcher and
     refresh (`Single`). The staging barrier is never passed over a parted file (`Level`: the staging bytes differ from what the watcher saw before, and
     are never written twice), so it leaves nothing that can be served (`BarrierClears`), and from then on only the final document can (`Cleared`). An
     active record is therefore that document's (`SuccessServes`). For a disabled credential the barrier's result is all there is: nothing can be served (`Kept`).

  On a host that skips nothing a window of 2 in the `settle` instance, equal to the two lags, violates the property: there the bound is tight. Without the second case in its statement the property fails on a host that skips (see `skip` in 3.1); with an operator on such a host it
  fails too: TLC finds an enabled document dropped in just before the rename, which a refresh of its record brings back over the final one; the repair
  is skipped, and the record is active as the credential's would be.

`StatusProofs` (under the same hypotheses, `ReadyAlwaysServed` without an operator on any host):

* `EarlierSuccessAlwaysShown`: `StatusSpec => []ShowsEarlierSuccess`. `EarlierInv` carries `SettleInv` and `LiveInv` along the reads of the
  handler: until someone else writes it, what the request has of an earlier success's name, entry, row or runtime record, shows that credential and
  whether it is disabled (`Faithful`); of a refused one on a host that skips, only that it is disabled.
* `ReadyAlwaysServed`: `StatusSpec => []ReadyWasServed`. `ReadyInv` adds to `LiveInv` what the handler has read. When a row becomes pending, its
  document is the only one under its name that may be served, or came after it (`Replaced`): every mutation that has already renamed its credential into
  place does nothing more than wait (`Begun`), and can only write the same credential again; whatever else turns up later is what a later
  mutation renames there, once its barrier has cleared the name. So a record that is on, whenever it is read, is the row's credential
  or such a later one (`Truthful`), and stays so however late the clock is read afterwards (`Asked`, `Served`). Neither the ready delay nor the
  comparison of times is used: on such a host the disabled flag of the runtime record is enough.

`HttpStreamProofs` (any number of fetches and streams, any limits, statuses and chunk sizes):

* `StreamTypesAlwaysOK`: types, and `body <= limit`, which needs no strengthening since the limit is tested before a chunk is added.
* `StreamsAlwaysAccountedFor`: `StreamInv` adds that a fetch at work on a stream has a real identifier, that the stream is its own or
  already closed, and that no two fetches at work have the same one. That is what makes a close release exactly the stream it is meant for.
* `EvidenceAlwaysReal`: `VerdictInv` carries through the loop that `body` is what upstream sent, that `status` is upstream's,
  that a body is whole when the loop ends and oversized when the error says so.
* `FetchAlwaysBounded`: `Spec => Contract!Spec`. Initial states correspond (`RefinesInit`); `Call` is a start or stutters, `Open` acquires,
  `Read` receives, a failed read and the timeout stutter, `Close` and `DeferredClose` release or finish (`RefinesStep`, from the two
  invariants). `MappedElsewhere` says a step of one fetch leaves the others' images alone.

`FileNamesProofs` (any alphabet, hash length, limits, and texts of any length):

* `NameTypesAlwaysOK` and `NameAlwaysOwned`. `SegmentInv` adds to the types that a finished segment is empty or within its limit and
  alphanumeric at both ends; `TrimIsSegment` proves that of `Trim` (least and greatest members exist by well-foundedness), and
  `TailShape` and `TailIsParsed` that any two such segments, whichever is empty, make a name the parser accepts.
  The limit of the readable part is met exactly when both segments are full.
* `SegmentAlwaysReference`: `Spec => []SegmentIsReference`. The collapse inside `Reference` is a recursive function, and the library's
  induction theorems are out of reach (they take an operator); instead its equation is shown to have a solution for every length
  (`CollapseExists`) and two solutions to agree as far as their texts do (`CollapsesAgree`), each from the least place where it would
  fail. `WholeGrows` is then its recursion on a text one character longer, and `LoopInv` relates it to the loop: the builder is
  the collapsed text, a separator is pending exactly where the collapse would write one, and after a break the builder has what fits, but
  for a separator at the very end, which trimming would drop (`TrimDropsDash`).

`ConsoleProofs` (any number of handlers, user actions and failures):

* `AlwaysOneTimer`, `ButtonsAlwaysReleased`, `PendingAlwaysPolled`: together with the types the three are inductive (`PageInv`).

`PluginAbiProofs`:

* `AbiTypesAlwaysOK`: `Spec => []TypeOK`.
* `TableAlwaysAlive`: `Spec => []TableInUseIsAlive`. The inductive `TableInv` says that the stored table is the current
  load's and alive, and that it is the one every reader has; the writer that clears it waits for the readers.
* `LoadAlwaysSerialized`: `Spec => []SerializedWhileLoaded`. `SerialInv`: while a load lasts, every call of it that
  reached a handler has the current dispatcher, so its mutexes are one mutex; a mutex has one holder.

Assumptions: the named `ASSUME`s of the modules. They give types to the
constants, keep the distinguished values out of the sets, say that canonical names are names of the directory and safe ones
(`FileName` writes a fixed prefix, hex digits and what `sanitizeFileSegment` lets through, which `isSafeAuthFileName` accepts), and
that a document not written by a mutation carries no mutation's stamp (`ForeignDocuments`: a stamp stands for the mutation that set
`validated_at`, so this only names what is foreign). TLC evaluates them in every run.
The hypotheses of single theorems (`Calm`, `Undisturbed`, `OneFileAtStart`) hold in the instance whose
property the theorem states: `settle` and `status` are calm, `settle`, `resolve` and `status` have no operator, and each starting directory of `resolve`
has one file per principal.

Every safety invariant and action property of a passing run is proved. Only model-checked: `MutationsReturn`, `ShutdownReturns`, `CallsReturn`,
`FetchReturns` and `PendingEnds`, since liveness under fairness is beyond the prover.

## 5. Limits

* The host is a model of what the plugin relies on. A CPA slower than its lags is covered by
  `evidence`, not by `settle`.
* `NoClobber` speaks of files the host listed. A file another process creates after the listing is
  overwritten; so is an undecodable file CPA does not register (the contract lists both as limits of ABI v1).
* `OneFilePerPrincipal` is checked and proved without an operator. When an operator deletes a file, a stale watcher unregisters a record that is
  being saved and the save's answer is lost, a second file can arise; the host offers the plugin no way to see it.
* Modification times are exact readings of one clock, those of a temporary file included. A file system with coarser times is outside the models.
* On a host that skips unchanged rewrites, `SuccessIsSettled` lets an older disabled document come back to the file of a credential that was just
  refused, and is claimed only where no operator writes the directory.
* Calls the host makes into the plugin from inside a callback are not modelled in `PluginAbi`.
* `ReadyWasServed` is checked and proved on a host within its lags to whose directory nobody else writes; on a slower one a row may be called ready from a
  runtime record that is about to change, as any answer of a host without locks may. It says that the record the runtime gave was true when it was given; by the
  time the clock is read (`handler.go:246`) the record may have aged, and a mutation may have replaced it. `watcherReadySettleDelay` does not
  prevent that: it is measured when the row is judged, not when the record is read.
* `StreamsAccountedFor` assumes that the host does not hand out an identifier a fetch still holds (`HttpStream.Opens`). On a host that did, a close repeated after
  a failed answer (`client.go:91-96`) would reach a stream of another validation.
* A stream the host opened without the plugin learning its identifier (`Orphan`) cannot be closed by it.
* Not modelled: the schema version check and the envelopes of registration and dispatch (no state), `HTTPDo` and `Log` (no caller in the plugin),
  static resources, the JSON and wording of answers, the smoke tool and the release scripts (no part of the running system); of the
  Windows replacement only its outcome. What an operator's deletion between `Lstat` and rename should mean
  (`credential.go:526`), and whether CPA refreshes a record disabled for its name (`parser.go:41`), the repository does not say;
  both steps are modelled, no property is stated.

## 6. Plan

Done: every component of section 1 with run-time state, their runs, and the theorems of section 4.

Next, in this order:

1. `AtomicStore`: one credential per principal, replaced or left by each mutation in one step, and `PatService` shown to
   implement it on a calm host, from `SettleInv`, `ProvenanceInv` and `OwnershipInv`.
2. Mutual exclusion of mutations as a theorem of its own (`Exclusive` is part of `OwnershipInv`).
3. `PluginAbi`: calls nested in callbacks.
