------------------------------- MODULE Status -------------------------------
(***************************************************************************)
(* The status handler of internal/management beside the mutations of       *)
(* PatService.                                                             *)
(*                                                                         *)
(* handleStatus takes no lock.  It lists the host's auth entries, and then *)
(* asks for each one's file and runtime record with callbacks of their     *)
(* own, while a mutation, the watcher and a refresh go on.  Each callback  *)
(* is a step, and so is the reading of the clock after the last one.       *)
(***************************************************************************)
EXTENDS PatService

CONSTANT ReadyDelay  \* watcherReadySettleDelay

ASSUME StatusConstants == ReadyDelay \in Nat

VARIABLES
  at,       \* where the status request is
  entry,    \* the list's entries, as they were then
  rest,     \* the entries not yet looked at
  row,      \* the answer's row for each name
  runtime,  \* the runtime entry just received
  earlier,  \* history: the mutations that had answered success when it began
  basis     \* history: what each row was made from, see Bases

statusVars == <<at, entry, rest, row, runtime, earlier, basis>>
allVars == <<vars, statusVars>>

\* readiness "none": no row.  document: the credential the row is made from.
Readinesses == {"none", "disabled", "unavailable", "pending", "ready"}
Rows == [readiness: Readinesses, document: Contents]
NoRow == [readiness |-> "none", document |-> Absent]
Entries == [mod: Nat, disabled: BOOLEAN, unavailable: BOOLEAN]
NoEntry == [mod |-> 0, disabled |-> FALSE, unavailable |-> FALSE]
Runtimes == [disabled: BOOLEAN, unavailable: BOOLEAN, updated: Nat]
NoRuntime == [disabled |-> TRUE, unavailable |-> TRUE, updated |-> 0]

\* before: the mutations that had renamed their credential into place when the
\* row's file was read; record: the runtime's record when it was asked.
Bases == [before: SUBSET Requests, record: Auths]
NoBasis == [before |-> {}, record |-> Unregistered]

StatusInit ==
  /\ Init
  /\ at = "idle"
  /\ entry = [n \in Names |-> NoEntry]
  /\ rest = {}
  /\ row = [n \in Names |-> NoRow]
  /\ runtime = NoRuntime
  /\ earlier = {}
  /\ basis = [n \in Names |-> NoBasis]

-----------------------------------------------------------------------------

\* host.auth.list.  The two conditions on an entry alone (its provider, its index)
\* are applied at once; the host decides what is unavailable.
ListStatuses ==
  /\ at = "idle"
  /\ \/ at' = "failed" /\ UNCHANGED <<entry, rest>>
     \/ /\ at' = "get"
        /\ rest' = {n \in Names : auth[n].reg /\ Provider(n) = "codex"}
        /\ \E off \in SUBSET Names :
             entry' = [n \in Names |-> [mod |-> file[n].mod, disabled |-> auth[n].view.disabled,
                                        unavailable |-> n \in off]]
  /\ earlier' = {r \in Requests : result[r] \in Saved}
  /\ UNCHANGED <<row, runtime, basis>>

\* Mutant: an unavailable account counts as disabled.
offOrUnavailable(c, e) == c.disabled \/ e.disabled \/ e.unavailable

\* The stored credential's flag or the listed record's.
switchedOff(c, e) == c.disabled \/ e.disabled

\* The row that a file's content settles by itself.
RowOf(n, c, e) ==
  CASE ~IsOwnedFile(n) \/ (~Owned(c) /\ ~DecodeFails(c)) -> NoRow
    [] IsOwnedFile(n) /\ ((~Owned(c) /\ DecodeFails(c)) \/ (Owned(c) /\ ~Validate(c)))
         -> [readiness |-> "disabled", document |-> Absent]
    [] IsOwnedFile(n) /\ Owned(c) /\ Validate(c)
         /\ ~IsOwnedFileForPrincipal(n, c.account, c.user) -> NoRow
    [] OTHER -> [readiness |-> IF switchedOff(c, e) THEN "disabled"
                               ELSE IF e.unavailable THEN "unavailable" ELSE "pending",
                 document |-> c]

Renamed == {r \in Requests : wait[r].phase = "final"}

\* host.auth.get: a failure, or a file that has gone, leaves no row.  Only a row
\* still pending asks for the runtime.
StatusForFile(n) ==
  /\ at = "get" /\ n \in rest
  /\ \/ /\ row' = [row EXCEPT ![n] = NoRow]
        /\ rest' = rest \ {n} /\ UNCHANGED at
     \/ /\ auth[n].reg /\ Present(n)
        /\ row' = [row EXCEPT ![n] = RowOf(n, file[n].content, entry[n])]
        /\ IF row'[n].readiness = "pending"
           THEN at' = "runtime" /\ UNCHANGED rest
           ELSE rest' = rest \ {n} /\ UNCHANGED at
  /\ basis' = [basis EXCEPT ![n].before = Renamed]
  /\ UNCHANGED <<entry, runtime, earlier>>

\* host.auth.get_runtime: when it fails the row stays pending.
StatusRuntime(n) ==
  /\ at = "runtime" /\ n \in rest /\ row[n].readiness = "pending"
  /\ \/ /\ rest' = rest \ {n} /\ at' = "get"
        /\ UNCHANGED <<runtime, basis>>
     \/ /\ auth[n].reg
        /\ \E unavailable \in BOOLEAN :
             runtime' = [disabled |-> auth[n].view.disabled, unavailable |-> unavailable,
                         updated |-> auth[n].updated]
        /\ basis' = [basis EXCEPT ![n].record = auth[n]]
        /\ at' = "judge" /\ UNCHANGED rest
  /\ UNCHANGED <<entry, row, earlier>>

\* mod is the list's, updated the runtime's.
watcherUpdateSettled(mod, updated) ==
  updated >= mod /\ now >= updated + ReadyDelay

\* Mutant: the runtime's disabled flag is not consulted.
ReadinessByTime(n) ==
  CASE runtime.unavailable -> "unavailable"
    [] ~runtime.unavailable /\ watcherUpdateSettled(entry[n].mod, runtime.updated) -> "ready"
    [] OTHER -> "pending"

\* What the runtime entry makes of a row still pending.
RuntimeReadiness(n) ==
  CASE runtime.disabled -> "disabled"
    [] ~runtime.disabled /\ runtime.unavailable -> "unavailable"
    [] ~runtime.disabled /\ ~runtime.unavailable
         /\ watcherUpdateSettled(entry[n].mod, runtime.updated) -> "ready"
    [] OTHER -> "pending"

\* The clock is read after the callback has returned, however late.
JudgeRow(n) ==
  /\ at = "judge" /\ n \in rest /\ row[n].readiness = "pending"
  /\ row' = [row EXCEPT ![n].readiness = RuntimeReadiness(n)]
  /\ rest' = rest \ {n} /\ at' = "get"
  /\ UNCHANGED <<entry, runtime, earlier, basis>>

Answer ==
  /\ at = "get" /\ rest = {}
  /\ at' = "done"
  /\ UNCHANGED <<entry, rest, row, runtime, earlier, basis>>

StatusStep ==
  \/ ListStatuses
  \/ \E n \in Names : StatusForFile(n) \/ StatusRuntime(n) \/ JudgeRow(n)
  \/ Answer

StatusNext ==
  \/ Next /\ UNCHANGED statusVars
  \/ StatusStep /\ UNCHANGED vars

StatusSpec == StatusInit /\ [][StatusNext]_allVars

-----------------------------------------------------------------------------
(* Properties.                                                             *)

\* A row that says "ready" is true of the record the runtime gave, although list,
\* file, runtime and clock are read apart and mutations, the watcher or a refresh
\* come in between: that record was active, and it used exactly the credential the
\* row shows, or one of the same principal that a mutation renamed into place only
\* after the row's file had been read.  Never a staging or an older record that is
\* still to be replaced.
ReadyWasServed ==
  \A n \in Names : row[n].readiness = "ready" =>
    LET shown == row[n].document
        serving == basis[n].record.storage IN
    /\ basis[n].record.view = AuthData(serving) /\ ~serving.disabled
    /\ \/ serving = shown
       \/ serving.at \in Requests \ basis[n].before /\ samePrincipal(serving, shown)

\* A status request that begins after a mutation has answered success shows that
\* mutation's credential, and shows it as disabled exactly if it is, until someone
\* else writes the file.  On a host that skips unchanged rewrites a refused
\* credential's row may show an older disabled document.
ShowsEarlierSuccess ==
  \A r \in earlier :
    LET shown == row[target[r]] IN
    ~touched[r] /\ shown.readiness # "none"
      => /\ shown.readiness = "disabled" <=> cred[r].disabled
         /\ shown.document = cred[r] \/ (SkipUnchanged /\ cred[r].disabled)
=============================================================================
