---------------------------- MODULE StatusProofs ----------------------------
(***************************************************************************)
(* Proofs about Status: what the rows of an answer are worth, although     *)
(* list, files and runtime records are read one after the other.           *)
(***************************************************************************)
EXTENDS Status, SettleProofs

-----------------------------------------------------------------------------
(* Types, and the steps of a status request.                               *)

StatusTypeOK ==
  /\ at \in {"idle", "get", "runtime", "judge", "done", "failed"}
  /\ entry \in [Names -> Entries]
  /\ rest \subseteq Names
  /\ row \in [Names -> Rows]
  /\ runtime \in Runtimes
  /\ earlier \subseteq Requests
  /\ basis \in [Names -> Bases]

\* At most the row that is being asked about is pending among those left.
OnePending ==
  /\ at = "idle" => row = [n \in Names |-> NoRow]
  /\ at = "get" => \A n \in rest : row[n].readiness # "pending"
  /\ at \in {"runtime", "judge"} =>
       \A m, n \in rest : row[m].readiness = "pending" /\ row[n].readiness = "pending" => m = n

\* What a file settles by itself is a row, and shows the file's credential.
LEMMA RowTypes ==
  ASSUME NEW n, NEW c \in Contents, NEW e \in Entries
  PROVE  RowOf(n, c, e) \in Rows
<1>1. Absent \in Contents
  BY LocalConstants
<1>2. NoRow \in Rows
  BY <1>1 DEF NoRow, Rows, Readinesses
<1>3. [readiness |-> "disabled", document |-> Absent] \in Rows
  BY <1>1 DEF Rows, Readinesses
<1>4. ASSUME NEW x \in Readinesses PROVE [readiness |-> x, document |-> c] \in Rows
  BY <1>4 DEF Rows
<1>5. (IF switchedOff(c, e) THEN "disabled" ELSE IF e.unavailable THEN "unavailable" ELSE "pending")
        \in Readinesses
  BY DEF Readinesses
<1> QED BY <1>2, <1>3, <1>4, <1>5 DEF RowOf

\* A file of the plugin gets a row of its own, disabled if the list says so; a
\* complete credential there is shown, disabled also if it says so itself.
LEMMA OwnRow ==
  ASSUME NEW n, NEW c, NEW e, Own(n, c)
  PROVE  /\ RowOf(n, c, e).readiness # "none"
         /\ e.disabled => RowOf(n, c, e).readiness = "disabled"
         /\ Validate(c) => /\ RowOf(n, c, e).document = c
                           /\ RowOf(n, c, e).readiness = "disabled" <=> switchedOff(c, e)
<1>1. c.kind = "pat" /\ IsOwnedFile(n)
  BY DEF Own, IsOwnedFileForPrincipal, IsOwnedFile
<1>2. Owned(c) /\ ~DecodeFails(c)
  BY <1>1 DEF Owned, DecodeFails
<1>3. CASE Validate(c)
  BY <1>1, <1>2, <1>3 DEF RowOf, switchedOff, Own
<1>4. CASE ~Validate(c)
  BY <1>1, <1>2, <1>4 DEF RowOf
<1> QED BY <1>3, <1>4

\* Only a file's own principal's active credential gets a row that waits for the
\* runtime.
LEMMA PendingRow ==
  ASSUME NEW n, NEW c, NEW e, RowOf(n, c, e).readiness = "pending"
  PROVE  /\ RowOf(n, c, e).document = c
         /\ Live(c) /\ Own(n, c) /\ ~e.disabled
<1>1. /\ IsOwnedFile(n) /\ Owned(c) /\ Validate(c)
      /\ IsOwnedFileForPrincipal(n, c.account, c.user)
  BY DEF RowOf, NoRow
<1>2. Own(n, c)
  BY <1>1 DEF Validate, Own
<1> QED BY <1>1, <1>2, OwnRow DEF Live, switchedOff

\* A file alone settles no row as ready.
LEMMA RowNotReady ==
  ASSUME NEW n, NEW c, NEW e
  PROVE  RowOf(n, c, e).readiness # "ready" /\ NoRow.readiness # "ready"
BY DEF RowOf, NoRow

LEMMA StatusInitTypes == StatusInit => StatusTypeOK /\ OnePending
<1> SUFFICES ASSUME StatusInit PROVE StatusTypeOK /\ OnePending
  OBVIOUS
<1>1. NoEntry \in Entries /\ NoRuntime \in Runtimes
  BY DEF NoEntry, Entries, NoRuntime, Runtimes
<1>2. NoRow \in Rows
  BY LocalConstants DEF NoRow, Rows, Readinesses
<1>3. NoBasis \in Bases
  <2>1. Unregistered \in Auths
    BY ViewTypes, LocalConstants DEF Unregistered, Auths
  <2> QED BY <2>1 DEF NoBasis, Bases
<1> QED BY <1>1, <1>2, <1>3 DEF StatusInit, StatusTypeOK, OnePending

\* What each step does to a row.
LEMMA RowStep ==
  ASSUME TypeOK, StatusTypeOK, NEW m \in Names, NEW n \in Names
  PROVE  /\ StatusForFile(m) =>
              IF n = m THEN row'[n] = NoRow \/ row'[n] = RowOf(n, file[n].content, entry[n])
              ELSE row'[n] = row[n] /\ basis'[n] = basis[n]
         /\ JudgeRow(m) =>
              IF n = m
              THEN row'[n].readiness = RuntimeReadiness(n) /\ row'[n].document = row[n].document
              ELSE row'[n] = row[n]
<1>1. /\ file \in [Names -> [mod: Nat, content: Contents]] /\ row \in [Names -> Rows]
      /\ basis \in [Names -> Bases]
  BY DEF TypeOK, HostTypeOK, StatusTypeOK
<1>2. ASSUME StatusForFile(m)
      PROVE  IF n = m THEN row'[n] = NoRow \/ row'[n] = RowOf(n, file[n].content, entry[n])
             ELSE row'[n] = row[n] /\ basis'[n] = basis[n]
  BY <1>1, <1>2 DEF StatusForFile
<1>3. ASSUME JudgeRow(m)
      PROVE  IF n = m
             THEN row'[n].readiness = RuntimeReadiness(n) /\ row'[n].document = row[n].document
             ELSE row'[n] = row[n]
  <2>1. PICK x : x = RuntimeReadiness(m)
    OBVIOUS
  <2>2. row' = [row EXCEPT ![m].readiness = x] /\ row[n] \in Rows
    BY <1>1, <1>3, <2>1 DEF JudgeRow
  <2> QED BY <1>1, <2>1, <2>2 DEF Rows
<1> QED BY <1>2, <1>3

LEMMA StatusTypes ==
  ASSUME TypeOK, StatusTypeOK, StatusStep
  PROVE  StatusTypeOK'
<1>1. /\ file \in [Names -> [mod: Nat, content: Contents]]
      /\ auth \in [Names -> Auths]
  BY DEF TypeOK, HostTypeOK
<1>2. CASE ListStatuses
  <2>1. CASE UNCHANGED <<entry, rest>>
    BY <1>2, <2>1 DEF ListStatuses, StatusTypeOK
  <2>2. CASE ~UNCHANGED <<entry, rest>>
    <3>1. PICK off \in SUBSET Names :
            entry' = [n \in Names |-> [mod |-> file[n].mod, disabled |-> auth[n].view.disabled,
                                       unavailable |-> n \in off]]
      BY <1>2, <2>2 DEF ListStatuses
    <3>2. ASSUME NEW n \in Names
          PROVE  [mod |-> file[n].mod, disabled |-> auth[n].view.disabled,
                  unavailable |-> n \in off] \in Entries
      <4>1. file[n].mod \in Nat /\ auth[n].view.disabled \in BOOLEAN
        BY <1>1 DEF Auths, Views
      <4>2. (n \in off) \in BOOLEAN
        OBVIOUS
      <4>3. ASSUME NEW x \in Nat, NEW b \in BOOLEAN, NEW u \in BOOLEAN
            PROVE  [mod |-> x, disabled |-> b, unavailable |-> u] \in Entries
        BY DEF Entries
      <4> QED BY ONLY <4>1, <4>2, <4>3
    <3>3. entry' \in [Names -> Entries]
      BY <3>1, <3>2
    <3> QED BY <1>2, <2>2, <3>3 DEF ListStatuses, StatusTypeOK
  <2> QED BY <2>1, <2>2
<1>3. ASSUME NEW n \in Names, StatusForFile(n) PROVE StatusTypeOK'
  <2>1. NoRow \in Rows
    BY LocalConstants DEF NoRow, Rows, Readinesses
  <2>2. RowOf(n, file[n].content, entry[n]) \in Rows
    BY <1>1, RowTypes DEF StatusTypeOK
  <2>3. row' \in [Names -> Rows]
    BY <1>3, <2>1, <2>2 DEF StatusForFile, StatusTypeOK
  <2>4. basis' \in [Names -> Bases]
    <3>1. Renamed \in SUBSET Requests
      BY DEF Renamed
    <3>2. PICK B \in SUBSET Requests : B = Renamed
      BY <3>1
    <3> QED BY <1>3, <3>2 DEF StatusForFile, StatusTypeOK, Bases
  <2> QED BY <1>3, <2>3, <2>4 DEF StatusForFile, StatusTypeOK
<1>4. ASSUME NEW n \in Names, StatusRuntime(n) PROVE StatusTypeOK'
  <2>1. runtime' \in Runtimes
    <3>1. auth[n].view.disabled \in BOOLEAN /\ auth[n].updated \in Nat
      BY <1>1 DEF Auths, Views
    <3>2. ASSUME NEW b \in BOOLEAN, NEW u \in BOOLEAN, NEW x \in Nat
          PROVE  [disabled |-> b, unavailable |-> u, updated |-> x] \in Runtimes
      BY DEF Runtimes
    <3> QED BY <1>4, <3>1, <3>2 DEF StatusRuntime, StatusTypeOK
  <2>2. basis' \in [Names -> Bases]
    BY <1>1, <1>4 DEF StatusRuntime, StatusTypeOK, Bases
  <2> QED BY <1>4, <2>1, <2>2 DEF StatusRuntime, StatusTypeOK
<1>5. ASSUME NEW n \in Names, JudgeRow(n) PROVE StatusTypeOK'
  <2>1. ASSUME NEW x \in Readinesses PROVE [row EXCEPT ![n].readiness = x] \in [Names -> Rows]
    BY DEF StatusTypeOK, Rows
  <2>2. RuntimeReadiness(n) \in Readinesses
    BY DEF RuntimeReadiness, Readinesses
  <2>3. row' \in [Names -> Rows]
    BY <1>5, <2>1, <2>2 DEF JudgeRow
  <2> QED BY <1>5, <2>3 DEF JudgeRow, StatusTypeOK
<1>6. CASE Answer
  BY <1>6 DEF Answer, StatusTypeOK
<1> QED BY <1>2, <1>3, <1>4, <1>5, <1>6 DEF StatusStep

LEMMA OnePendingStep ==
  ASSUME TypeOK, StatusTypeOK, OnePending, StatusStep
  PROVE  OnePending'
<1>1. CASE ListStatuses
  <2>1. \A n \in Names : row'[n].readiness # "pending"
    BY <1>1 DEF ListStatuses, OnePending, NoRow
  <2> QED BY <1>1, <2>1, StatusTypes DEF ListStatuses, OnePending, StatusTypeOK
<1>2. ASSUME NEW m \in Names, StatusForFile(m) PROVE OnePending'
  <2>1. \A n \in Names \ {m} : row'[n] = row[n]
    BY <1>2, RowStep
  <2>2. /\ at = "get" /\ m \in rest
        /\ \/ at' = "get" /\ rest' = rest \ {m}
           \/ at' = "runtime" /\ rest' = rest
    BY <1>2 DEF StatusForFile
  <2> QED BY <2>1, <2>2 DEF OnePending, StatusTypeOK
<1>3. ASSUME NEW m \in Names, StatusRuntime(m) PROVE OnePending'
  <2>1. /\ at = "runtime" /\ m \in rest /\ row[m].readiness = "pending" /\ row' = row
        /\ \/ at' = "get" /\ rest' = rest \ {m}
           \/ at' = "judge" /\ rest' = rest
    BY <1>3 DEF StatusRuntime
  <2> QED BY <2>1 DEF OnePending, StatusTypeOK
<1>4. ASSUME NEW m \in Names, JudgeRow(m) PROVE OnePending'
  <2>1. \A n \in Names \ {m} : row'[n] = row[n]
    BY <1>4, RowStep
  <2>2. at = "judge" /\ m \in rest /\ row[m].readiness = "pending" /\ at' = "get" /\ rest' = rest \ {m}
    BY <1>4 DEF JudgeRow
  <2> QED BY <2>1, <2>2 DEF OnePending, StatusTypeOK
<1>5. CASE Answer
  BY <1>5 DEF Answer, OnePending
<1> QED BY <1>1, <1>2, <1>3, <1>4, <1>5 DEF StatusStep

-----------------------------------------------------------------------------
(* ShowsEarlierSuccess.                                                    *)

\* What the request has of name n shows credential c, and c is in force.
Faithful(n, c) ==
  /\ at \in {"get", "runtime", "judge"} => entry[n].disabled = c.disabled
  /\ at = "judge" /\ n \in rest /\ row[n].readiness = "pending" => ~runtime.disabled
  /\ row[n].readiness # "none" =>
       /\ row[n].readiness = "disabled" <=> c.disabled
       /\ row[n].document = c \/ (SkipUnchanged /\ c.disabled)

Shown(r) == ~touched[r] => Faithful(target[r], cred[r])

EarlierInv ==
  /\ SettleInv /\ (SkipUnchanged => LiveInv)
  /\ StatusTypeOK /\ OnePending
  /\ at = "idle" => earlier = {}
  /\ \A r \in earlier : result[r] \in Saved /\ Shown(r)

\* What a status request reads of a success nobody has overwritten.
LEMMA SuccessFacts ==
  ASSUME SettleInv, SkipUnchanged => LiveInv, NEW r \in Requests, result[r] \in Saved, ~touched[r],
         NEW n, n = target[r], NEW c, c = cred[r]
  PROVE  /\ n \in Names /\ c \in Contents /\ Own(n, c) /\ Validate(c)
         /\ auth[n].view.disabled = c.disabled
         /\ Own(n, file[n].content)
         /\ file[n].content = c \/ (SkipUnchanged /\ c.disabled)
<1>1. Fits(n, c) /\ n \in Names /\ c \in Contents
  BY BoundFits DEF SettleInv, LocalsOK, LocalOK, TypeOK
<1>2. c.disabled \in BOOLEAN /\ auth[n].view.disabled \in BOOLEAN
  BY <1>1 DEF SettleInv, TypeOK, HostTypeOK, Auths, Views, Contents
<1>3. ASSUME Settled(n, c) PROVE auth[n].view.disabled = c.disabled /\ file[n].content = c
  <2>1. auth[n].view = AuthData(c)
    BY <1>1, <1>3, FitParsed, Zenon DEF Settled
  <2>2. AuthData(c).disabled = c.disabled
    BY DEF AuthData
  <2>3. file[n].content = c
    BY <1>3, Zenon DEF Settled
  <2> QED BY <2>1, <2>2, <2>3
<1>4. CASE ~SkipUnchanged
  BY <1>1, <1>3, <1>4, FoundIsSettled DEF Fits
<1>5. CASE SkipUnchanged /\ ~c.disabled
  BY <1>1, <1>3, <1>5, KeptIsSettled DEF Fits
<1>6. CASE SkipUnchanged /\ c.disabled
  <2>1. SwitchedOff(n) /\ Kept(n, c)
    BY <1>6, KeptIsSettled DEF LiveInv, Finished
  <2>2. auth[n].view.disabled /\ Own(n, file[n].content)
    BY <2>1 DEF SwitchedOff, Kept
  <2> QED BY <1>1, <1>2, <1>6, <2>2 DEF Fits
<1> QED BY <1>4, <1>5, <1>6

\* A success is not taken back, its file and credential stay, and a touch is
\* never forgotten: the request's own steps are over.
LEMMA SuccessStays ==
  ASSUME TypeOK, LocalsOK, [Next]_vars, NEW q \in Requests, result[q] \in Saved
  PROVE  /\ result'[q] = result[q] /\ target'[q] = target[q] /\ cred'[q] = cred[q]
         /\ ~touched'[q] => ~touched[q]
<1>1. pc[q] = "done"
  BY DEF LocalsOK, LocalOK, Saved
<1>2. ASSUME NEW r \in Requests, Arrive(r) \/ Step(r)
      PROVE  /\ result'[q] = result[q] /\ target'[q] = target[q] /\ cred'[q] = cred[q]
             /\ ~touched'[q] => ~touched[q]
  <2>1. pc[r] # "done"
    BY <1>2 DEF Arrive, Step, Lock, Import, GetSaved, Revalidate, List, Inspect, Save,
       AwaitStat, AwaitRead, AwaitRuntime, ConfirmStat, ConfirmRead, ConfirmRuntime,
       RewriteCheck, WriteTemporary, RewriteRename, EndPoll, Wake
  <2>2. q \in Requests \ {r}
    BY <1>1, <2>1
  <2> QED BY <1>2, <2>2, RequestFrame
<1>3. ASSUME NEW n \in Names, Operator(n)
      PROVE  /\ UNCHANGED <<ctlVars, localVars>>
             /\ ~touched'[q] => ~touched[q]
  BY <1>3 DEF Operator, TouchBy
<1>4. ASSUME NEW n \in Names, HostWork(n)
      PROVE  UNCHANGED <<ctlVars, localVars, touched>>
  BY <1>4 DEF HostWork, ghostVars
<1>5. CASE Clock
  BY <1>5 DEF Clock, ctlVars, localVars, ghostVars
<1>6. CASE Crash
  BY <1>1, <1>6 DEF Crash, InFlight, localVars, ghostVars
<1>7. CASE UNCHANGED vars
  BY <1>7 DEF vars, ctlVars, localVars, ghostVars
<1> QED BY <1>2, <1>3, <1>4, <1>5, <1>6, <1>7 DEF Next, ctlVars, localVars

LEMMA EarlierInit == StatusInit => EarlierInv
<1> SUFFICES ASSUME StatusInit PROVE EarlierInv
  OBVIOUS
<1>1. SettleInv /\ LiveInv
  BY SettleInit, LiveInit DEF StatusInit
<1> QED BY <1>1, StatusInitTypes DEF StatusInit, EarlierInv

\* The three steps of a row.
LEMMA FileShows ==
  ASSUME TypeOK, StatusTypeOK, NEW m \in Names, StatusForFile(m), NEW n \in Names, NEW c,
         Own(n, c), Validate(c), Own(n, file[n].content),
         file[n].content = c \/ (SkipUnchanged /\ c.disabled), Faithful(n, c)
  PROVE  Faithful(n, c)'
<1>1. /\ at = "get" /\ at' \in {"get", "runtime"} /\ entry' = entry
  BY DEF StatusForFile
<1>2. entry[n].disabled = c.disabled
  BY <1>1 DEF Faithful
<1>3. PICK d, e : d = file[n].content /\ e = entry[n]
  OBVIOUS
<1>4. CASE row'[n] = row[n] \/ row'[n] = NoRow
  BY <1>1, <1>2, <1>4 DEF Faithful, NoRow
<1>5. CASE row'[n] = RowOf(n, d, e)
  <2>1. CASE d = c
    <3>1. row'[n].document = c /\ (row'[n].readiness = "disabled" <=> switchedOff(c, e))
      BY <1>5, <2>1, OwnRow
    <3> QED BY <1>1, <1>2, <1>3, <3>1 DEF Faithful, switchedOff
  <2>2. CASE d # c
    <3>1. SkipUnchanged /\ c.disabled
      BY <1>3, <2>2
    <3>2. e.disabled /\ Own(n, d)
      BY <1>2, <1>3, <3>1
    <3>3. RowOf(n, d, e).readiness = "disabled"
      BY ONLY <3>2, OwnRow
    <3> QED BY <1>1, <1>2, <1>5, <3>1, <3>3 DEF Faithful
  <2> QED BY <2>1, <2>2
<1> QED BY <1>3, <1>4, <1>5, RowStep

LEMMA RuntimeShows ==
  ASSUME TypeOK, StatusTypeOK, OnePending, NEW m \in Names, StatusRuntime(m), NEW n \in Names,
         NEW c, auth[n].view.disabled = c.disabled, Faithful(n, c)
  PROVE  Faithful(n, c)'
<1>1. /\ at = "runtime" /\ at' \in {"get", "judge"} /\ UNCHANGED <<entry, row>>
      /\ m \in rest /\ row[m].readiness = "pending"
  BY DEF StatusRuntime
<1>2. ASSUME at' = "judge", n \in rest', row[n].readiness = "pending" PROVE ~runtime'.disabled
  <2>1. rest' = rest /\ runtime'.disabled = auth[m].view.disabled
    BY <1>2 DEF StatusRuntime
  <2>2. m = n
    BY <1>1, <1>2, <2>1 DEF OnePending
  <2>3. ~c.disabled
    BY <1>2 DEF Faithful
  <2> QED BY <2>1, <2>2, <2>3
<1> QED BY <1>1, <1>2 DEF Faithful

LEMMA JudgeShows ==
  ASSUME TypeOK, StatusTypeOK, NEW m \in Names, JudgeRow(m), NEW n \in Names,
         NEW c, Faithful(n, c)
  PROVE  Faithful(n, c)'
<1>1. /\ at = "judge" /\ at' = "get" /\ entry' = entry /\ m \in rest
      /\ row[m].readiness = "pending"
  BY DEF JudgeRow
<1>2. CASE n # m
  <2>1. row'[n] = row[n]
    BY <1>2, RowStep
  <2> QED BY <1>1, <2>1 DEF Faithful
<1>3. CASE n = m
  <2>1. row'[n].readiness = RuntimeReadiness(n) /\ row'[n].document = row[n].document
    BY <1>3, RowStep
  <2>2. ~runtime.disabled
    BY <1>1, <1>3 DEF Faithful
  <2>3. RuntimeReadiness(n) # "disabled"
    BY <2>2 DEF RuntimeReadiness
  <2>4. ~c.disabled /\ row[n].document = c
    BY <1>1, <1>3 DEF Faithful
  <2> QED BY <1>1, <2>1, <2>3, <2>4 DEF Faithful
<1> QED BY <1>2, <1>3

\* Each step of the status request.
LEMMA StatusStepShows ==
  ASSUME EarlierInv, StatusStep, UNCHANGED vars
  PROVE  \A r \in earlier' : result[r] \in Saved /\ Shown(r)'
<1>1. /\ SettleInv /\ (SkipUnchanged => LiveInv) /\ StatusTypeOK /\ OnePending /\ TypeOK
      /\ target' = target /\ cred' = cred /\ touched' = touched
  BY DEF EarlierInv, SettleInv, vars, ctlVars, localVars, ghostVars
<1>2. CASE ListStatuses
  <2> SUFFICES ASSUME NEW r \in earlier', ~touched[r]
               PROVE  result[r] \in Saved /\ Shown(r)'
    BY <1>1, <1>2 DEF ListStatuses, Shown
  <2>1. r \in Requests /\ result[r] \in Saved
    BY <1>2 DEF ListStatuses
  <2>2. PICK n, c : n = target[r] /\ c = cred[r]
    OBVIOUS
  <2>3. n \in Names /\ auth[n].view.disabled = c.disabled
    BY <1>1, <2>1, <2>2, SuccessFacts
  <2>4. row'[n].readiness = "none"
    BY <1>2, <2>3 DEF ListStatuses, OnePending, EarlierInv, NoRow
  <2>5. at' = "get" => entry'[n].disabled = c.disabled
    BY <1>2, <2>3 DEF ListStatuses
  <2>6. at' \in {"get", "failed"}
    BY <1>2 DEF ListStatuses
  <2>7. Faithful(n, c)'
    BY <2>4, <2>5, <2>6 DEF Faithful
  <2> QED BY <1>1, <2>1, <2>2, <2>7 DEF Shown, Faithful
<1>3. ASSUME \E m \in Names : StatusForFile(m) \/ StatusRuntime(m) \/ JudgeRow(m)
      PROVE  \A r \in earlier' : result[r] \in Saved /\ Shown(r)'
  <2>1. UNCHANGED earlier
    BY <1>3 DEF StatusForFile, StatusRuntime, JudgeRow
  <2> SUFFICES ASSUME NEW r \in earlier, ~touched[r]
               PROVE  Shown(r)'
    BY <1>1, <2>1 DEF Shown, EarlierInv
  <2>2. r \in Requests /\ result[r] \in Saved /\ Shown(r)
    BY DEF EarlierInv, StatusTypeOK
  <2>3. PICK n, c : n = target[r] /\ c = cred[r]
    OBVIOUS
  <2>4. /\ n \in Names /\ Own(n, c) /\ Validate(c) /\ Own(n, file[n].content)
        /\ auth[n].view.disabled = c.disabled
        /\ file[n].content = c \/ (SkipUnchanged /\ c.disabled)
    BY <1>1, <2>2, <2>3, SuccessFacts
  <2>5. Faithful(n, c)
    BY <2>2, <2>3 DEF Shown
  <2>6. Faithful(n, c)'
    BY <1>1, <1>3, <2>4, <2>5, FileShows, RuntimeShows, JudgeShows
  <2> QED BY <1>1, <2>3, <2>6 DEF Shown, Faithful
<1>4. CASE Answer
  BY <1>1, <1>4 DEF Answer, EarlierInv, Shown, Faithful
<1> QED BY <1>2, <1>3, <1>4 DEF StatusStep

LEMMA EarlierStep ==
  ASSUME Calm, SkipUnchanged => Undisturbed, EarlierInv, [StatusNext]_allVars
  PROVE  EarlierInv'
<1>1. SettleInv /\ (SkipUnchanged => LiveInv) /\ StatusTypeOK /\ OnePending /\ TypeOK /\ LocalsOK
  BY DEF EarlierInv, SettleInv
<1>2. [Next]_vars
  BY DEF StatusNext, allVars
<1>3. SettleInv' /\ (SkipUnchanged => LiveInv')
  BY <1>1, <1>2, SettleStep, LiveStep
<1>4. ASSUME [Next]_vars, UNCHANGED statusVars
      PROVE  EarlierInv'
  <2>1. ASSUME NEW r \in earlier PROVE (result[r] \in Saved /\ Shown(r))'
    <3>1. r \in Requests /\ result[r] \in Saved /\ Shown(r)
      BY DEF EarlierInv, StatusTypeOK
    <3>2. /\ result'[r] = result[r] /\ target'[r] = target[r] /\ cred'[r] = cred[r]
          /\ ~touched'[r] => ~touched[r]
      BY <1>1, <1>4, <3>1, SuccessStays
    <3>3. PICK n, c : n = target[r] /\ c = cred[r]
      OBVIOUS
    <3>4. Faithful(n, c) => Faithful(n, c)'
      BY <1>4 DEF Faithful, statusVars
    <3> QED BY <3>1, <3>2, <3>3, <3>4 DEF Shown, Faithful
  <2>2. StatusTypeOK' /\ OnePending'
    BY <1>1, <1>4 DEF StatusTypeOK, OnePending, statusVars
  <2> QED BY <1>3, <1>4, <2>1, <2>2 DEF EarlierInv, statusVars
<1>5. CASE StatusStep /\ UNCHANGED vars
  <2>1. StatusTypeOK' /\ OnePending'
    BY <1>1, <1>5, StatusTypes, OnePendingStep
  <2>2. result' = result
    BY <1>5 DEF vars, ctlVars
  <2>3. at' # "idle"
    BY <1>5 DEF StatusStep, ListStatuses, StatusForFile, StatusRuntime, JudgeRow, Answer
  <2>4. \A r \in earlier' : result[r] \in Saved /\ Shown(r)'
    BY <1>5, StatusStepShows
  <2> QED BY <1>3, <2>1, <2>2, <2>3, <2>4 DEF EarlierInv
<1>6. CASE UNCHANGED allVars
  BY <1>2, <1>4, <1>6 DEF allVars
<1> QED BY <1>2, <1>4, <1>5, <1>6 DEF StatusNext

\* Beside any number of mutations, refreshes, crashes and (where the host skips
\* nothing) operators: a status request that begins after a mutation has answered
\* success shows its credential, disabled exactly if it is, until someone else
\* writes the file.  Of a refused credential on a host that skips unchanged rewrites
\* it shows a disabled row.
THEOREM EarlierSuccessAlwaysShown ==
  ASSUME Calm, SkipUnchanged => Undisturbed
  PROVE  StatusSpec => []ShowsEarlierSuccess
<1>1. StatusInit => EarlierInv
  BY EarlierInit
<1>2. EarlierInv /\ [StatusNext]_allVars => EarlierInv'
  BY EarlierStep
<1>3. EarlierInv => ShowsEarlierSuccess
  <2> SUFFICES ASSUME EarlierInv, NEW r \in earlier, ~touched[r], row[target[r]].readiness # "none"
               PROVE  /\ row[target[r]].readiness = "disabled" <=> cred[r].disabled
                      /\ row[target[r]].document = cred[r] \/ (SkipUnchanged /\ cred[r].disabled)
    BY Zenon DEF ShowsEarlierSuccess
  <2>1. Faithful(target[r], cred[r])
    BY DEF EarlierInv, Shown
  <2> QED BY <2>1, Zenon DEF Faithful
<1> QED BY <1>1, <1>2, <1>3, PTL DEF StatusSpec

-----------------------------------------------------------------------------
(* ReadyWasServed rests on what PatService does with the documents that    *)
(* may be served.  When a row's file has been read, all that can be served *)
(* under its name is what the file holds; whatever comes later is what a   *)
(* mutation renames into place, once its staging barrier has cleared the   *)
(* name of everything else.                                                *)

\* A mutation whose final document is in place does nothing but wait for it.
Begun(r) == wait[r].phase = "final" => pc[r] \in Waiting \cup {"done"}

\* What can be served under name n is c, or came after the mutations of B, whose
\* renames will bring nothing else there than c.
Replaced(n, c, B) ==
  /\ \A d \in Docs(n) : Live(d) => d = c \/ d.at \in Requests \ B
  /\ \A r \in B : /\ pc[r] \in Waiting \cup {"done"}
                  /\ pc[r] \in Waiting /\ target[r] = n => cred[r] = c

\* What holds of a row that waits for the runtime, and of the runtime's record if
\* it is on.
Awaited(n, c, B) == Live(c) /\ Own(n, c) /\ Own(n, file[n].content) /\ Replaced(n, c, B)

Truthful(c, B, a) ==
  /\ a.view = AuthData(a.storage) /\ ~a.storage.disabled
  /\ \/ a.storage = c
     \/ a.storage.at \in Requests \ B /\ samePrincipal(a.storage, c)

Asked(n) ==
  at \in {"runtime", "judge"} /\ n \in rest /\ row[n].readiness = "pending" =>
    /\ Awaited(n, row[n].document, basis[n].before)
    /\ at = "judge" /\ ~runtime.disabled
         => Truthful(row[n].document, basis[n].before, basis[n].record)

Served(n) ==
  row[n].readiness = "ready" => Truthful(row[n].document, basis[n].before, basis[n].record)

ReadyInv ==
  /\ StatusTypeOK /\ OnePending /\ LiveInv
  /\ \A r \in Requests : Begun(r)
  /\ \A n \in Names : Asked(n) /\ Served(n)

\* An answer does not change once it is given, and the loop is left only for one.
LEMMA DoneStays ==
  ASSUME TypeOK, LocalsOK, [Next]_vars, NEW q \in Requests
  PROVE  /\ pc[q] = "done" => pc'[q] = "done"
         /\ pc[q] \in Waiting => /\ pc'[q] \in Waiting \cup {"done"}
                                 /\ target'[q] = target[q] /\ cred'[q] = cred[q]
         /\ Begun(q) => Begun(q)'
<1>1. CASE \E r \in Requests : Arrive(r) \/ Step(r)
  <2>1. PICK r \in Requests : Arrive(r) \/ Step(r)
    BY <1>1
  <2>2. CASE r # q
    <3>1. pc'[q] = pc[q] /\ wait'[q] = wait[q] /\ target'[q] = target[q] /\ cred'[q] = cred[q]
      BY <2>1, <2>2, RequestFrame
    <3> QED BY <3>1 DEF Begun
  <2>3. CASE Early(r) /\ r = q
    <3>1. pc[r] \notin Waiting \cup {"done"}
      BY <2>3 DEF Early, Arrive, Lock, Import, GetSaved, Revalidate, List, Inspect, Waiting
    <3>2. wait' = wait
      BY <2>3, EarlySteps
    <3> QED BY <2>3, <3>1, <3>2 DEF Begun
  <2>4. CASE Save(r) /\ r = q
    <3>1. pc[r] = "inspect"
      BY <2>4 DEF Save
    <3>2. wait' = wait \/ wait'[r] = [NoWait EXCEPT !.phase = "stage", !.deadline = now + Timeout]
      BY <2>4 DEF Save, BeginWait, TypeOK
    <3>3. wait'[r] = wait[r] \/ wait'[r].phase = "stage"
      BY <3>2 DEF NoWait
    <3> QED BY <2>4, <3>1, <3>3 DEF Begun, Waiting
  <2>5. CASE Loop(r) /\ r = q
    <3>1. pc[r] \in Waiting /\ pc'[r] \in Waiting \cup {"done"} /\ UNCHANGED <<cred, target>>
      BY <2>5, LoopKeeps
    <3> QED BY <2>5, <3>1 DEF Begun, Waiting
  <2> QED BY <2>1, <2>2, <2>3, <2>4, <2>5 DEF Step, Early, Loop
<1>2. CASE (\E m \in Names : Operator(m) \/ HostWork(m)) \/ Clock \/ Crash \/ UNCHANGED vars
  <2>1. UNCHANGED localVars
    BY <1>2 DEF Operator, HostWork, Clock, Crash, vars
  <2>2. pc'[q] = pc[q] \/ pc'[q] = "done"
    BY <1>2 DEF Operator, HostWork, Clock, Crash, vars, ctlVars
  <2> QED BY <2>1, <2>2 DEF Begun, localVars
<1> QED BY <1>1, <1>2 DEF Next

\* The plugin's files stay the plugin's.
LEMMA FileStaysOwn ==
  ASSUME Undisturbed, LiveInv, [Next]_vars, NEW n \in Names, Own(n, file[n].content)
  PROVE  Own(n, file'[n].content)
<1>1. OwnershipInv
  BY DEF LiveInv
<1>2. CASE \E r \in Requests : Arrive(r) \/ Step(r)
  BY <1>1, <1>2, RequestFollows
<1>3. CASE (\E m \in Names : Operator(m) \/ HostWork(m)) \/ Clock \/ Crash \/ UNCHANGED vars
  BY <1>1, <1>3, HostStays DEF Stays
<1> QED BY <1>2, <1>3 DEF Next

\* The host copies documents, and a rename brings one of a mutation that came
\* later, or the row's own.
LEMMA ReplacedStays ==
  ASSUME Undisturbed, LiveInv, [Next]_vars, NEW n \in Names, NEW c, NEW B \in SUBSET Requests,
         Replaced(n, c, B)
  PROVE  Replaced(n, c, B)'
<1>1. TypeOK /\ LocalsOK /\ HostTypeOK /\ ProvenanceInv
  BY DEF LiveInv, SettleInv, TypeOK
<1>2. \A r \in B : /\ pc'[r] \in Waiting \cup {"done"}
                   /\ pc'[r] \in Waiting /\ target'[r] = n => cred'[r] = c
  BY <1>1, DoneStays DEF Replaced, Waiting
<1> SUFFICES ASSUME NEW d \in Docs(n)', Live(d) PROVE d = c \/ d.at \in Requests \ B
  BY <1>2 DEF Replaced
<1>3. d \in Docs(n) => d = c \/ d.at \in Requests \ B
  BY DEF Replaced
<1>4. CASE \E r \in Requests : Arrive(r) \/ Step(r)
  <2>1. PICK r \in Requests : Arrive(r) \/ Step(r)
    BY <1>4
  <2>2. CASE UNCHANGED hostVars
    BY <1>1, <1>3, <2>2, AbsentIsDead, HostDocs
  <2>3. ASSUME NEW m \in Names, AuthSave(m, Staging(r)) PROVE d = c \/ d.at \in Requests \ B
    <3>1. PICK s : s = Staging(r)
      OBVIOUS
    <3>2. d \in Docs(n) \/ d = s
      BY <1>1, <2>3, <3>1, WriteDocs
    <3> QED BY <1>1, <1>3, <3>1, <3>2, StagingIsDead
  <2>4. CASE pc[r] = "rename" /\ target[r] \in Names /\ ReplaceFile(target[r], cred[r], wait[r].temp)
    <3>1. PICK m \in Names, e \in Contents, t \in Nat : m = target[r] /\ e = cred[r] /\ t = wait[r].temp
      BY <1>1, <2>4 DEF TypeOK, Waits
    <3>2. d \in Docs(n) \/ (n = m /\ d = e)
      BY <1>1, <2>4, <3>1, WriteDocs
    <3>3. CASE r \in B
      BY <1>3, <2>4, <3>1, <3>2, <3>3 DEF Replaced, Waiting
    <3>4. CASE r \notin B
      <4>1. cred[r].at = r
        BY <1>1, <2>4, PatServiceConstants DEF ProvenanceInv, Origin, Backed
      <4> QED BY <1>3, <3>1, <3>2, <3>4, <4>1
    <3> QED BY <3>3, <3>4
  <2> QED BY <1>1, <2>1, <2>2, <2>3, <2>4, RequestDocs
<1>5. CASE (\E m \in Names : Operator(m) \/ HostWork(m)) \/ Clock \/ Crash \/ UNCHANGED vars
  <2>1. \A m \in Names : ~Operator(m)
    BY <1>1, NoOperator
  <2>2. (\E m \in Names : Background(m)) \/ Tick \/ Restart \/ UNCHANGED hostVars
    BY <1>5, <2>1 DEF HostWork, Clock, Crash, vars
  <2> QED BY <1>1, <1>3, <2>2, AbsentIsDead, HostDocs
<1> QED BY <1>4, <1>5 DEF Next

\* A file whose row is to wait: what may be served there is what it holds.
LEMMA FileAwaits ==
  ASSUME LiveInv, \A r \in Requests : Begun(r), NEW n \in Names, NEW c, c = file[n].content,
         Live(c), Own(n, c)
  PROVE  Awaited(n, c, Renamed)
<1>1. PICK s \in Contents : Sole(n, s)
  BY DEF LiveInv, Single
<1>2. c = s
  BY <1>1 DEF Sole, Docs
<1>3. ASSUME NEW r \in Renamed
      PROVE  /\ pc[r] \in Waiting \cup {"done"}
             /\ pc[r] \in Waiting /\ target[r] = n => cred[r] = c
  <2>1. r \in Requests /\ wait[r].phase = "final"
    BY DEF Renamed
  <2>2. ASSUME pc[r] \in Waiting, target[r] = n PROVE cred[r] = c
    <3>1. Sole(target[r], cred[r])
      BY <2>1, <2>2 DEF LiveInv, Cleared
    <3> QED BY <2>2, <3>1 DEF Sole, Docs
  <2> QED BY <2>1, <2>2 DEF Begun
<1>4. Replaced(n, c, Renamed)
  BY <1>1, <1>2, <1>3 DEF Replaced, Sole
<1> QED BY <1>4 DEF Awaited

\* A record that is on when the runtime is asked.
LEMMA RuntimeTells ==
  ASSUME LiveInv, NEW n \in Names, NEW c, NEW B, Awaited(n, c, B), ~auth[n].view.disabled
  PROVE  Truthful(c, B, auth[n])
<1>1. Followed(n) /\ Reads(n) /\ Own(n, file[n].content)
  BY DEF LiveInv, OwnershipInv, SettleInv, HostCalm, Awaited
<1>2. PICK s \in Docs(n) : s = auth[n].storage
  BY DEF Docs
<1>3. Own(n, s) /\ Live(s) /\ auth[n].view = AuthData(s)
  BY <1>1, <1>2, OnServes
<1>4. s = c \/ s.at \in Requests \ B
  BY <1>3 DEF Awaited, Replaced
<1>5. samePrincipal(s, c)
  BY <1>3, PrincipalByName DEF Awaited, Own, OwnedBy, Owned
<1> QED BY <1>2, <1>3, <1>4, <1>5 DEF Truthful, Live

\* The three steps of a row.
LEMMA FileAsks ==
  ASSUME ReadyInv, UNCHANGED vars, NEW m \in Names, StatusForFile(m), NEW n \in Names
  PROVE  Asked(n)' /\ Served(n)'
<1>1. /\ LiveInv /\ TypeOK /\ StatusTypeOK /\ OnePending /\ Served(n)
      /\ at = "get" /\ at' \in {"get", "runtime"} /\ rest' \subseteq rest
      /\ UNCHANGED <<file, auth, watch, refresh, pc, target, cred>>
  BY DEF ReadyInv, LiveInv, SettleInv, StatusForFile, vars, hostVars, ctlVars, localVars
<1>2. CASE n # m
  <2>1. row'[n] = row[n] /\ basis'[n] = basis[n]
    BY <1>1, <1>2, RowStep
  <2>2. n \in rest' => row'[n].readiness # "pending"
    BY <1>1, <2>1 DEF OnePending
  <2> QED BY <1>1, <2>1, <2>2 DEF Asked, Served
<1>3. CASE n = m
  <2>1. PICK c, e : c = file[n].content /\ e = entry[n]
    OBVIOUS
  <2>2. row'[n] = NoRow \/ row'[n] = RowOf(n, c, e)
    BY <1>1, <1>3, <2>1, RowStep
  <2>3. Served(n)'
    BY <2>2, RowNotReady DEF Served
  <2>4. ASSUME row'[n].readiness = "pending"
        PROVE  Awaited(n, row[n].document, basis[n].before)'
    <3>1. row'[n] = RowOf(n, c, e)
      BY <2>2, <2>4 DEF NoRow
    <3>2. row'[n].document = c /\ Live(c) /\ Own(n, c)
      BY <2>4, <3>1, PendingRow
    <3>3. PICK B : B = Renamed
      OBVIOUS
    <3>4. Awaited(n, c, B)
      BY <1>1, <2>1, <3>2, <3>3, FileAwaits DEF ReadyInv
    <3>5. basis'[n].before = B
      BY <1>1, <1>3, <3>3 DEF StatusForFile, StatusTypeOK, Bases
    <3>6. Awaited(n, c, B)'
      BY <1>1, <3>4 DEF Awaited, Replaced, Docs
    <3> QED BY <3>2, <3>5, <3>6 DEF Awaited, Replaced
  <2> QED BY <1>1, <2>3, <2>4 DEF Asked, Awaited, Replaced
<1> QED BY <1>2, <1>3

LEMMA RuntimeAsks ==
  ASSUME ReadyInv, UNCHANGED vars, NEW m \in Names, StatusRuntime(m), NEW n \in Names
  PROVE  Asked(n)' /\ Served(n)'
<1>1. /\ LiveInv /\ TypeOK /\ StatusTypeOK /\ OnePending /\ Served(n) /\ Asked(n)
      /\ UNCHANGED <<file, auth, watch, refresh, pc, target, cred, row>>
      /\ at = "runtime" /\ m \in rest /\ row[m].readiness = "pending"
  BY DEF ReadyInv, LiveInv, SettleInv, StatusRuntime, vars, hostVars, ctlVars, localVars
<1>2. n # m => basis'[n] = basis[n]
  BY <1>1 DEF StatusRuntime, StatusTypeOK
<1>3. Served(n)'
  BY <1>1, <1>2 DEF Served
<1>4. CASE at' = "get"
  BY <1>3, <1>4 DEF Asked
<1>5. CASE at' # "get"
  <2> SUFFICES ASSUME n \in rest', row'[n].readiness = "pending", at' = "judge"
               PROVE  /\ Awaited(n, row[n].document, basis[n].before)'
                      /\ ~runtime'.disabled
                           => Truthful(row'[n].document, basis'[n].before, basis'[n].record)
    <3>1. at' = "judge"
      BY <1>5 DEF StatusRuntime
    <3> QED BY <1>3, <3>1 DEF Asked, Awaited, Replaced
  <2>1. rest' = rest /\ runtime'.disabled = auth[m].view.disabled
        /\ basis' = [basis EXCEPT ![m].record = auth[m]]
    BY <1>5 DEF StatusRuntime
  <2>2. n = m
    BY <1>1, <2>1 DEF OnePending
  <2>3. PICK c, B : c = row[n].document /\ B = basis[n].before
    OBVIOUS
  <2>4. row'[n].document = c /\ basis'[n].before = B /\ basis'[n].record = auth[n]
    BY <1>1, <2>1, <2>2, <2>3 DEF StatusTypeOK, Bases
  <2>5. Awaited(n, c, B)
    BY <1>1, <2>1, <2>3 DEF Asked
  <2>6. Awaited(n, c, B)'
    BY <1>1, <2>5 DEF Awaited, Replaced, Docs
  <2>7. ~runtime'.disabled => Truthful(c, B, auth[n])
    BY <1>1, <2>1, <2>2, <2>5, RuntimeTells
  <2> QED BY <2>4, <2>6, <2>7 DEF Awaited, Replaced
<1> QED BY <1>4, <1>5

LEMMA JudgeAsks ==
  ASSUME ReadyInv, UNCHANGED vars, NEW m \in Names, JudgeRow(m), NEW n \in Names
  PROVE  Asked(n)' /\ Served(n)'
<1>1. /\ TypeOK /\ StatusTypeOK /\ Served(n) /\ Asked(n)
      /\ at = "judge" /\ at' = "get" /\ m \in rest /\ row[m].readiness = "pending"
      /\ basis' = basis
  BY DEF ReadyInv, LiveInv, SettleInv, JudgeRow
<1>2. Asked(n)'
  BY <1>1 DEF Asked
<1>3. CASE n # m
  <2>1. row'[n] = row[n]
    BY <1>1, <1>3, RowStep
  <2> QED BY <1>1, <1>2, <2>1 DEF Served
<1>4. CASE n = m
  <2> SUFFICES ASSUME row'[n].readiness = "ready"
               PROVE  Truthful(row'[n].document, basis[n].before, basis[n].record)
    BY <1>1, <1>2 DEF Served
  <2>1. row'[n].document = row[n].document /\ RuntimeReadiness(n) = "ready"
    BY <1>1, <1>4, RowStep
  <2>2. ~runtime.disabled
    BY <2>1 DEF RuntimeReadiness
  <2> QED BY <1>1, <1>4, <2>1, <2>2 DEF Asked
<1> QED BY <1>3, <1>4

\* The invariant of the whole.
LEMMA ReadyStep ==
  ASSUME Calm, Undisturbed, ReadyInv, [StatusNext]_allVars
  PROVE  ReadyInv'
<1>1. LiveInv /\ StatusTypeOK /\ OnePending /\ TypeOK /\ LocalsOK
  BY DEF ReadyInv, LiveInv, SettleInv
<1>2. [Next]_vars
  BY DEF StatusNext, allVars
<1>3. LiveInv' /\ \A r \in Requests : Begun(r)'
  BY <1>1, <1>2, LiveStep, DoneStays DEF ReadyInv
<1>4. ASSUME UNCHANGED statusVars PROVE ReadyInv'
  <2>1. StatusTypeOK' /\ OnePending'
    BY <1>1, <1>4 DEF StatusTypeOK, OnePending, statusVars
  <2>2. ASSUME NEW n \in Names PROVE Asked(n)' /\ Served(n)'
    <3>1. Asked(n) /\ Served(n) /\ basis[n] \in Bases
      BY <1>1 DEF ReadyInv, StatusTypeOK
    <3>2. PICK c, B : c = row[n].document /\ B = basis[n].before
      OBVIOUS
    <3>3. B \in SUBSET Requests
      BY <3>1, <3>2 DEF Bases
    <3>4. Awaited(n, c, B) => Awaited(n, c, B)'
      BY <1>1, <1>2, <3>3, FileStaysOwn, ReplacedStays DEF Awaited
    <3>5. Served(n)'
      BY <1>4, <3>1 DEF Served, statusVars
    <3>6. Asked(n)'
      BY <1>4, <3>1, <3>2, <3>4 DEF Asked, Awaited, Replaced, statusVars
    <3> QED BY <3>5, <3>6
  <2> QED BY <1>3, <2>1, <2>2 DEF ReadyInv
<1>5. CASE StatusStep /\ UNCHANGED vars
  <2>1. StatusTypeOK' /\ OnePending'
    BY <1>1, <1>5, StatusTypes, OnePendingStep
  <2>2. ASSUME NEW n \in Names PROVE Asked(n)' /\ Served(n)'
    <3>1. CASE ListStatuses
      <4>1. row'[n].readiness = "none"
        BY <1>1, <3>1 DEF ListStatuses, OnePending, NoRow
      <4> QED BY <4>1 DEF Asked, Served
    <3>2. CASE Answer
      <4>1. at' = "done" /\ UNCHANGED <<row, basis>> /\ Served(n)
        BY <3>2 DEF Answer, ReadyInv
      <4> QED BY <4>1 DEF Asked, Served
    <3> QED BY <1>5, <3>1, <3>2, FileAsks, RuntimeAsks, JudgeAsks DEF StatusStep
  <2> QED BY <1>3, <2>1, <2>2 DEF ReadyInv
<1> QED BY <1>4, <1>5 DEF StatusNext, allVars

\* A status request has shown nothing before it lists, and no request has a file.
LEMMA ReadyInit == StatusInit => ReadyInv
<1> SUFFICES ASSUME StatusInit PROVE ReadyInv
  OBVIOUS
<1>1. LiveInv /\ StatusTypeOK /\ OnePending
  BY LiveInit, StatusInitTypes DEF StatusInit
<1>2. \A r \in Requests : Begun(r)
  BY DEF StatusInit, Init, Begun, NoWait
<1>3. \A n \in Names : Asked(n) /\ Served(n)
  BY DEF StatusInit, Asked, Served, NoRow
<1> QED BY <1>1, <1>2, <1>3 DEF ReadyInv

\* Beside any number of mutations, refreshes and crashes, and whenever the clock is
\* read: a row says "ready" only when the runtime had been found with an active
\* record, and that record used exactly the row's credential, or one of the same
\* principal that a mutation renamed into place after the row's file was read.
\* watcherReadySettleDelay plays no part in it: what keeps a staging or an older
\* record from passing is that it is disabled, or gone.
THEOREM ReadyAlwaysServed ==
  ASSUME Calm, Undisturbed
  PROVE  StatusSpec => []ReadyWasServed
<1>1. StatusInit => ReadyInv
  BY ReadyInit
<1>2. ReadyInv /\ [StatusNext]_allVars => ReadyInv'
  BY ReadyStep
<1>3. ReadyInv => ReadyWasServed
  BY DEF ReadyInv, Served, Truthful, ReadyWasServed
<1> QED BY <1>1, <1>2, <1>3, PTL DEF StatusSpec
=============================================================================
