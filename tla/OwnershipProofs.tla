---------------------------- MODULE OwnershipProofs ----------------------------
(***************************************************************************)
(* Proofs about PatService: which files a save may replace.                *)
(*                                                                         *)
(* resolveFileName lists the host's records and opens their files one by   *)
(* one; the save comes later.  What it found is still true then because    *)
(* the mutation mutex keeps other saves out, because the host's own work   *)
(* never turns a file of the plugin into anything else, nor one it does    *)
(* not know into one it lists, and because nobody else writes the          *)
(* directory (Undisturbed).  The host may die, refresh and lag as it       *)
(* likes.                                                                  *)
(***************************************************************************)
EXTENDS PatServiceProofs

\* No operator deletes or drops in a file.
Undisturbed == MaxOperator = 0

\* A PAT record that decodes, under the name of its own principal.
Own(n, d) == d.kind = "pat" /\ IsOwnedFileForPrincipal(n, d.account, d.user)

\* The host makes a record of the document.
Listable(n, d) == Registered(n, d, 0).reg

\* What record, watcher and refresh know of a file: of one of the plugin's own
\* only documents of the same principal, of another only what it holds, and
\* nothing at all of one that is not listed.
Followed(n) ==
  LET c == file[n].content IN
  IF Own(n, c)
  THEN /\ auth[n].reg /\ Own(n, auth[n].storage)
       /\ watch[n].on => Own(n, watch[n].content)
       /\ refresh[n].on => Own(n, refresh[n].content)
  ELSE IF Listable(n, c)
  THEN /\ auth[n].reg /\ auth[n].storage = c
       /\ watch[n].on => watch[n].content = c
       /\ refresh[n].on => refresh[n].content = c
  ELSE ~auth[n].reg /\ ~event[n].on /\ ~watch[n].on /\ ~refresh[n].on

\* The request holds mutationMu.
Critical == Pcs \ {"idle", "lock", "done"}

Exclusive == \A r \in Requests : pc[r] \in Critical => mutex = r

\* What the loop of resolveFileName has found out still holds.
Scanned(r) ==
  pc[r] = "inspect" =>
    /\ \A n \in Names : auth[n].reg => n \in scan[r].listed
    /\ scan[r].occupied <=> \E n \in scan[r].listed : EqualFold(n, canonicalName(cred[r]))
    /\ \A n \in scan[r].same : Own(n, file[n].content)
    /\ \A n \in scan[r].listed \ scan[r].todo :
         OwnedBy(n, file[n].content) /\ n.hash = principalHash(cred[r].account, cred[r].user)
           => n \in scan[r].same

\* The file a request waits for is the plugin's.
Holds(r) == pc[r] \in Waiting => Own(target[r], file[target[r]].content)

OwnershipInv ==
  /\ TypeOK /\ LocalsOK /\ Exclusive
  /\ \A r \in Requests : Scanned(r) /\ Holds(r)
  /\ \A n \in Names : Followed(n)

-----------------------------------------------------------------------------
(* Part 1: the host.                                                       *)

\* A file of the plugin stays one, any other keeps its document.
Stays(n) ==
  IF Own(n, file[n].content)
  THEN Own(n, file'[n].content)
  ELSE file'[n].content = file[n].content

\* Whether the host lists a document does not depend on the time; it lists the
\* plugin's own.
LEMMA ListableFacts ==
  ASSUME NEW n, NEW c, NEW t
  PROVE  /\ Registered(n, c, t).reg <=> Listable(n, c)
         /\ Listable(n, c) => Registered(n, c, t).storage = c
         /\ Own(n, c) => Listable(n, c)
<1>1. Own(n, c) => Listable(n, c)
  BY DEF Own, Listable, Registered
<1>2. Registered(n, c, t).reg <=> Listable(n, c)
  BY DEF Listable, Registered, Unregistered
<1>3. Registered(n, c, t).reg => Registered(n, c, t).storage = c
  BY RegisteredFacts
<1> QED BY <1>1, <1>2, <1>3

\* The host's own work, late or not, and a restart.
LEMMA HostFollows ==
  ASSUME HostTypeOK, NEW n \in Names, Followed(n),
         (\E m \in Names : Background(m)) \/ Tick \/ Restart \/ UNCHANGED hostVars
  PROVE  Followed(n)' /\ Stays(n)
<1> DEFINE c == file[n].content
<1> USE DEF HostTypeOK
<1>1. ASSUME file'[n] = file[n], auth'[n] = auth[n], watch'[n] = watch[n],
             event'[n] = event[n] \/ ~event'[n].on \/ Own(n, c) \/ Listable(n, c),
             refresh'[n] = refresh[n]
      PROVE  Followed(n)' /\ Stays(n)
  BY <1>1 DEF Followed, Stays
<1>2. ASSUME NEW m \in Names \ {n}, Background(m) PROVE Followed(n)' /\ Stays(n)
  <2>1. file'[n] = file[n] /\ auth'[n] = auth[n] /\ event'[n] = event[n]
    BY <1>2 DEF Background, DueWork, WatchRead, WatchSkip, WatchApply, RefreshStart,
       RefreshApply, WriteFile
  <2>2. watch'[n] = watch[n] /\ refresh'[n] = refresh[n]
    BY <1>2 DEF Background, DueWork, WatchRead, WatchSkip, WatchApply, RefreshStart,
       RefreshApply
  <2> QED BY <1>1, <2>1, <2>2
<1>3. ASSUME WatchRead(n) PROVE Followed(n)' /\ Stays(n)
  <2>1. /\ UNCHANGED <<file, auth, refresh>> /\ event[n].on
        /\ watch'[n].content = c
    BY <1>3 DEF WatchRead
  <2> QED BY <2>1 DEF Followed, Stays
<1>4. ASSUME WatchSkip(n) PROVE Followed(n)' /\ Stays(n)
  <2>1. UNCHANGED <<file, auth, watch, refresh>> /\ ~event'[n].on
    BY <1>4 DEF WatchSkip, NoEvent
  <2> QED BY <1>1, <2>1
<1>5. ASSUME WatchApply(n) PROVE Followed(n)' /\ Stays(n)
  <2>1. /\ UNCHANGED <<file, event, refresh>> /\ ~watch'[n].on /\ watch[n].on
        /\ auth'[n] = Registered(n, watch[n].content, now)
    BY <1>5 DEF WatchApply, NoJob
  <2>2. /\ auth'[n].reg <=> Listable(n, watch[n].content)
        /\ Listable(n, watch[n].content) => auth'[n].storage = watch[n].content
        /\ Own(n, watch[n].content) => Listable(n, watch[n].content)
    BY <2>1, ListableFacts
  <2> QED BY <2>1, <2>2 DEF Followed, Stays
<1>6. ASSUME RefreshStart(n) PROVE Followed(n)' /\ Stays(n)
  <2>1. /\ UNCHANGED <<file, auth, event, watch>> /\ auth[n].reg
        /\ refresh'[n].content = auth[n].storage
    BY <1>6 DEF RefreshStart
  <2> QED BY <2>1 DEF Followed, Stays
<1>7. ASSUME RefreshApply(n) PROVE Followed(n)' /\ Stays(n)
  <2>1. UNCHANGED watch /\ ~refresh'[n].on /\ refresh[n].on
    BY <1>7 DEF RefreshApply, NoJob
  <2>2. auth[n].reg
    BY <2>1 DEF Followed
  <2>3. /\ file'[n].content = refresh[n].content
        /\ auth'[n].reg /\ auth'[n].storage = refresh[n].content
    BY <1>7, <2>2 DEF RefreshApply, WriteFile
  <2> QED BY <2>1, <2>3 DEF Followed, Stays
<1>8. CASE Tick \/ UNCHANGED hostVars
  BY <1>1, <1>8 DEF Tick, hostVars
<1>9. CASE Restart
  <2>1. /\ UNCHANGED file /\ ~watch'[n].on /\ ~event'[n].on /\ ~refresh'[n].on
        /\ auth'[n] = Registered(n, c, now)
    BY <1>9 DEF Restart, NoJob, NoEvent
  <2>2. /\ auth'[n].reg <=> Listable(n, c)
        /\ Listable(n, c) => auth'[n].storage = c
        /\ Own(n, c) => Listable(n, c)
    BY <2>1, ListableFacts
  <2> QED BY <2>1, <2>2 DEF Followed, Stays
<1> QED BY <1>2, <1>3, <1>4, <1>5, <1>6, <1>7, <1>8, <1>9 DEF Background, DueWork

\* A save into a file of the plugin, or of a name the host does not list, and a
\* rename over a file of the plugin.
LEMMA WriteFollows ==
  ASSUME HostTypeOK, NEW m \in Names, NEW c, NEW t, Own(m, c),
         \/ AuthSave(m, c) /\ (Own(m, file[m].content) \/ ~auth[m].reg)
         \/ ReplaceFile(m, c, t) /\ Own(m, file[m].content),
         NEW n \in Names, Followed(n)
  PROVE  Followed(n)' /\ (IF n = m THEN file'[n].content = c ELSE file'[n] = file[n])
<1> USE DEF HostTypeOK
<1>1. UNCHANGED <<watch, refresh>>
  BY DEF AuthSave, ReplaceFile
<1>2. CASE n # m
  <2>1. file'[n] = file[n] /\ auth'[n] = auth[n] /\ event'[n] = event[n]
    BY <1>2 DEF AuthSave, ReplaceFile, WriteFile
  <2> QED BY <1>1, <1>2, <2>1 DEF Followed
<1>3. CASE n = m
  <2>1. file'[n].content = c
    BY <1>3 DEF AuthSave, ReplaceFile, WriteFile
  <2>2. auth'[n].reg /\ Own(n, auth'[n].storage)
    <3>1. CASE AuthSave(m, c)
      BY <1>3, <3>1 DEF AuthSave
    <3>2. CASE ReplaceFile(m, c, t) /\ Own(m, file[m].content)
      BY <1>3, <3>2 DEF ReplaceFile, Followed
    <3> QED BY <3>1, <3>2
  <2>3. /\ watch[n].on => Own(n, watch[n].content)
        /\ refresh[n].on => Own(n, refresh[n].content)
    BY <1>3 DEF Followed
  <2> QED BY <1>1, <1>3, <2>1, <2>2, <2>3 DEF Followed
<1> QED BY <1>2, <1>3

-----------------------------------------------------------------------------
(* Part 2: the mutation mutex.                                             *)

\* Every step of the handler after Lock is taken under the mutex and either goes
\* on under it or answers and releases it.
LEMMA CriticalStep ==
  ASSUME NEW r \in Requests, Step(r), ~Lock(r)
  PROVE  pc[r] \in Critical /\ ((\E label : Goto(r, label)) \/ (\E res : Return(r, res)))
<1>1. pc[r] \in Critical
  BY DEF Step, Import, GetSaved, Revalidate, List, Inspect, Save, AwaitStat, AwaitRead,
         AwaitRuntime, ConfirmStat, ConfirmRead, ConfirmRuntime, RewriteCheck,
         WriteTemporary, RewriteRename, EndPoll, Wake, Critical, Pcs
<1>2. CASE \/ Import(r) \/ GetSaved(r) \/ Revalidate(r) \/ List(r) \/ Inspect(r) \/ Save(r)
  BY <1>1, <1>2 DEF Import, GetSaved, Revalidate, UnusableBaseURL, List, Inspect, Save,
     BeginWait
<1>3. CASE Loop(r)
  BY <1>1, <1>3 DEF Loop, AwaitStat, Stat, AwaitRead, AwaitRuntime, ConfirmStat,
     ConfirmRead, ConfirmRuntime, RewriteCheck, WriteTemporary, RewriteRename, EndPoll, Wake,
     BeginWait, Disarm
<1> QED BY <1>2, <1>3 DEF Step, Loop

\* No two mutations are ever between Lock and their answer.
LEMMA ExclusiveStep ==
  ASSUME TypeOK, LocalsOK, Exclusive, NEW r \in Requests, Arrive(r) \/ Step(r)
  PROVE  /\ Exclusive'
         /\ \A q \in Requests \ {r} :
              pc[q] \in Critical => pc[r] \notin Critical /\ UNCHANGED hostVars
<1>1. \A q \in Requests \ {r} : pc'[q] = pc[q]
  BY RequestFrame
<1>2. CASE Arrive(r)
  <2>1. UNCHANGED <<mutex, hostVars>> /\ pc'[r] \notin Critical /\ pc[r] \notin Critical
    BY <1>2 DEF Arrive, Goto, TypeOK, Critical
  <2> QED BY <1>1, <2>1 DEF Exclusive
<1>3. CASE Lock(r)
  <2>1. mutex = Free /\ mutex' = r
    BY <1>3 DEF Lock
  <2>2. \A q \in Requests : pc[q] \notin Critical
    BY <2>1, PatServiceConstants DEF Exclusive
  <2> QED BY <1>1, <2>1, <2>2 DEF Exclusive
<1>4. CASE Step(r) /\ ~Lock(r)
  <2>1. pc[r] \in Critical /\ mutex = r
    BY <1>4, CriticalStep DEF Exclusive
  <2>2. \A q \in Requests \ {r} : pc[q] \notin Critical
    BY <2>1 DEF Exclusive
  <2>3. mutex' = r \/ pc'[r] = "done"
    BY <1>4, <2>1, CriticalStep DEF Goto, Return, TypeOK
  <2> QED BY <1>1, <2>2, <2>3 DEF Exclusive, Critical
<1> QED BY <1>2, <1>3, <1>4

-----------------------------------------------------------------------------
(* Part 3: what the loop of resolveFileName finds out.                     *)

\* The loop accepts a file only if it is the plugin's own.
LEMMA SameIsOwn ==
  ASSUME NEW n, NEW d, NEW c, Examine(n, d, c) = "same"
  PROVE  Own(n, d)
<1>1. /\ Owned(d) /\ ~DecodeFails(d) /\ IsOwnedFile(n)
      /\ IsOwnedFile(n) => IsOwnedFileForPrincipal(n, d.account, d.user)
  BY DEF Examine
<1> QED BY <1>1 DEF Own, Owned, DecodeFails

\* It does not pass over a file of the principal, damaged ones included.
LEMMA PrincipalIsSeen ==
  ASSUME NEW n, NEW d, NEW c, OwnedBy(n, d), n.hash = principalHash(c.account, c.user)
  PROVE  Examine(n, d, c) \in {"same", "reject"}
<1>1. Owned(d) /\ IsOwnedFile(n) /\ IsOwnedFileForPrincipal(n, d.account, d.user)
  BY DEF OwnedBy, IsOwnedFileForPrincipal, IsOwnedFile
<1>2. samePrincipal(d, c)
  BY <1>1 DEF samePrincipal, IsOwnedFileForPrincipal, principalHash
<1>3. CASE DecodeFails(d)
  BY <1>1, <1>3 DEF Examine
<1>4. CASE ~DecodeFails(d)
  BY <1>1, <1>2, <1>4 DEF Examine
<1> QED BY <1>3, <1>4

\* host.auth.list.
LEMMA ListScanned ==
  ASSUME TypeOK, NEW r \in Requests, List(r)
  PROVE  Scanned(r)'
<1>1. UNCHANGED <<hostVars, cred>>
  BY DEF List
<1>2. CASE Return(r, "persistence_failed")
  <2>1. pc'[r] = "done"
    BY <1>2 DEF Return, TypeOK
  <2> QED BY <2>1 DEF Scanned
<1>3. CASE ~Return(r, "persistence_failed")
  <2> DEFINE listed == {n \in Names : auth[n].reg}
  <2>1. scan'[r] = [listed |-> listed,
                    todo |-> {n \in listed : Candidate(n, cred[r])},
                    occupied |-> \E n \in listed : EqualFold(n, canonicalName(cred[r])),
                    same |-> {}]
    BY <1>3 DEF List, TypeOK
  <2>2. ASSUME NEW n \in listed, OwnedBy(n, file[n].content) PROVE Candidate(n, cred[r])
    BY <2>2 DEF OwnedBy, IsOwnedFileForPrincipal, IsOwnedFile, Candidate
  <2>3. /\ scan'[r].listed = listed
        /\ scan'[r].todo = {n \in listed : Candidate(n, cred[r])}
        /\ scan'[r].same = {}
    BY <2>1
  <2>4. scan'[r].occupied <=> \E n \in listed : EqualFold(n, canonicalName(cred[r]))
    <3> DEFINE taken == \E n \in listed : EqualFold(n, canonicalName(cred[r]))
    <3>1. taken \in BOOLEAN
      OBVIOUS
    <3>2. scan'[r] = [listed |-> listed, todo |-> {n \in listed : Candidate(n, cred[r])},
                      occupied |-> taken, same |-> {}]
      BY <2>1, Zenon
    <3> HIDE DEF taken
    <3>3. scan'[r].occupied = taken
      BY <3>2
    <3> QED BY <3>1, <3>3, Zenon DEF taken
  <2>5. file' = file /\ auth' = auth /\ cred' = cred
    BY <1>1 DEF hostVars
  <2>6. \A n \in scan'[r].listed \ scan'[r].todo : ~OwnedBy(n, file'[n].content)
    BY <2>2, <2>3, <2>5
  <2>7. scan'[r].occupied <=>
          \E n \in scan'[r].listed : EqualFold(n, canonicalName(cred'[r]))
    BY <2>3, <2>4, <2>5
  <2>8. \A n \in Names : auth'[n].reg => n \in scan'[r].listed
    BY <2>3, <2>5
  <2> QED BY <2>3, <2>6, <2>7, <2>8 DEF Scanned
<1> QED BY <1>2, <1>3

\* One round of the loop.
LEMMA InspectScanned ==
  ASSUME TypeOK, NEW r \in Requests, Scanned(r), Inspect(r)
  PROVE  Scanned(r)'
<1>1. UNCHANGED <<hostVars, cred>> /\ pc[r] = "inspect"
  BY DEF Inspect
<1>2. CASE \E res : Return(r, res)
  <2>1. pc'[r] = "done"
    BY <1>2 DEF Return, TypeOK
  <2> QED BY <2>1 DEF Scanned
<1>3. CASE ~\E res : Return(r, res)
  <2> DEFINE found(n) == Examine(n, file[n].content, cred[r])
  <2>1. scan[r] \in Scans
    BY DEF TypeOK
  <2>2. PICK m \in scan[r].todo :
          /\ found(m) # "reject"
          /\ scan' = [scan EXCEPT ![r].todo = @ \ {m},
                                  ![r].same = IF found(m) = "same" THEN @ \cup {m} ELSE @]
    BY <1>3 DEF Inspect
  <2>3. /\ scan'[r].listed = scan[r].listed
        /\ scan'[r].todo = scan[r].todo \ {m}
        /\ scan'[r].same = IF found(m) = "same" THEN scan[r].same \cup {m} ELSE scan[r].same
    BY <2>1, <2>2 DEF TypeOK, Scans
  <2>4. scan'[r].occupied <=> scan[r].occupied
    BY <2>1, <2>2 DEF TypeOK, Scans
  <2>5. found(m) = "same" => Own(m, file[m].content)
    BY SameIsOwn
  <2>6. OwnedBy(m, file[m].content)
          /\ m.hash = principalHash(cred[r].account, cred[r].user) => found(m) = "same"
    BY <2>2, PrincipalIsSeen
  <2> HIDE DEF found
  <2>7. file' = file /\ auth' = auth /\ cred' = cred
    BY <1>1 DEF hostVars
  <2>8. \A n \in scan'[r].same : Own(n, file'[n].content)
    BY <1>1, <2>3, <2>5, <2>7 DEF Scanned
  <2>9. \A n \in scan'[r].listed \ scan'[r].todo :
          OwnedBy(n, file'[n].content)
            /\ n.hash = principalHash(cred'[r].account, cred'[r].user) => n \in scan'[r].same
    BY <1>1, <2>3, <2>6, <2>7 DEF Scanned
  <2>10. \A n \in Names : auth'[n].reg => n \in scan'[r].listed
    BY <1>1, <2>3, <2>7 DEF Scanned
  <2>11. scan'[r].occupied <=>
           \E n \in scan'[r].listed : EqualFold(n, canonicalName(cred'[r]))
    BY <1>1, <2>3, <2>4, <2>7 DEF Scanned
  <2> QED BY <2>8, <2>9, <2>10, <2>11 DEF Scanned
<1> QED BY <1>2, <1>3

\* When the loop is over: the name to write is the plugin's already, or one the
\* host has no record of and beside which no file holds the principal.
LEMMA ResolvedFree ==
  ASSUME OwnershipInv, NEW r \in Requests, pc[r] = "inspect", NEW n \in Resolved(r)
  PROVE  \/ Own(n, file[n].content)
         \/ /\ n \notin scan[r].listed /\ ~auth[n].reg
            /\ scan[r].same = {}
<1>1. n \in Names
  BY ResolvedOwned DEF OwnershipInv
<1>2. Scanned(r)
  BY DEF OwnershipInv
<1>3. CASE n \in scan[r].same
  BY <1>2, <1>3 DEF Scanned
<1>4. CASE n = canonicalName(cred[r]) /\ ~scan[r].occupied /\ scan[r].same = {}
  <2>1. EqualFold(n, canonicalName(cred[r]))
    BY <1>4 DEF EqualFold
  <2>2. n \notin scan[r].listed
    BY <1>2, <1>4, <2>1 DEF Scanned
  <2> QED BY <1>1, <1>2, <1>4, <2>2 DEF Scanned
<1> QED BY <1>3, <1>4 DEF Resolved

-----------------------------------------------------------------------------
(* Part 4: every step keeps the invariant.                                 *)

\* What a mutation writes is the plugin's own document, under its own name.
LEMMA WritesOwn ==
  ASSUME TypeOK, NEW r \in Requests, NEW n, Validate(cred[r]),
         IsOwnedFileForPrincipal(n, cred[r].account, cred[r].user)
  PROVE  /\ Own(n, Staging(r)) /\ Own(n, Desired(r))
         /\ Staging(r) \in Contents /\ Desired(r) \in Contents
<1>1. cred[r] \in Contents
  BY DEF TypeOK
<1> QED BY <1>1, StagingFields DEF Own, Staging, Desired, Validate

\* A request's step writes nothing, or a document of its own over a file of the
\* plugin or over one the host does not list.
LEMMA RequestWrites ==
  ASSUME OwnershipInv, NEW r \in Requests, Arrive(r) \/ Step(r)
  PROVE  \/ UNCHANGED hostVars
         \/ \E m \in Names, c \in Contents :
              /\ Own(m, c)
              /\ \/ Save(r) /\ m \in Resolved(r) /\ target'[r] = m /\ AuthSave(m, c)
                 \/ /\ RewriteRename(r) /\ m = target[r]
                    /\ ReplaceFile(m, c, wait[r].temp)
<1>1. TypeOK /\ LocalsOK
  BY DEF OwnershipInv
<1>2. CASE Save(r) /\ ~UNCHANGED hostVars
  <2>1. pc[r] = "inspect"
    BY <1>2 DEF Save
  <2>2. PICK m \in Resolved(r) :
          AuthSave(m, Staging(r)) /\ target' = [target EXCEPT ![r] = m]
    BY <1>2 DEF Save
  <2>3. /\ m \in Names /\ Validate(cred[r])
        /\ IsOwnedFileForPrincipal(m, cred[r].account, cred[r].user)
    BY <1>1, <2>1, ResolvedOwned DEF LocalsOK, LocalOK
  <2>4. target'[r] = m
    BY <1>1, <2>2 DEF TypeOK
  <2>5. Own(m, Staging(r)) /\ Staging(r) \in Contents
    BY <1>1, <2>3, WritesOwn
  <2> QED BY <1>2, <2>2, <2>3, <2>4, <2>5
<1>3. CASE RewriteRename(r) /\ ~UNCHANGED hostVars
  <2>1. ReplaceFile(target[r], Desired(r), wait[r].temp) /\ pc[r] = "rename"
    BY <1>3 DEF RewriteRename
  <2>2. Bound(r)
    BY <1>1, <2>1 DEF LocalsOK, LocalOK, Waiting
  <2>3. target[r] \in Names /\ Own(target[r], Desired(r)) /\ Desired(r) \in Contents
    BY <1>1, <2>2, WritesOwn DEF Bound
  <2> QED BY <1>3, <2>1, <2>3
<1>4. CASE Early(r) \/ (Loop(r) /\ ~RewriteRename(r))
  <2>1. UNCHANGED hostVars
    BY <1>1, <1>4, EarlySteps DEF Loop, AwaitStat, AwaitRead, AwaitRuntime, ConfirmStat,
       ConfirmRead, ConfirmRuntime, RewriteCheck, WriteTemporary, EndPoll, Wake
  <2> QED BY <2>1
<1> QED BY <1>2, <1>3, <1>4 DEF Step, Early, Loop

\* What a request's step does to the files.
LEMMA RequestFollows ==
  ASSUME OwnershipInv, NEW r \in Requests, Arrive(r) \/ Step(r), NEW n \in Names
  PROVE  /\ Followed(n)'
         /\ Own(n, file[n].content) => Own(n, file'[n].content)
         /\ \/ file'[n].content = file[n].content
            \/ Own(n, file[n].content) /\ Own(n, file'[n].content)
            \/ /\ Save(r) /\ n \in Resolved(r) /\ Own(n, file'[n].content)
               /\ n \notin scan[r].listed /\ scan[r].same = {}
<1>1. TypeOK /\ LocalsOK /\ HostTypeOK /\ Followed(n)
  BY DEF OwnershipInv, TypeOK
<1>2. CASE UNCHANGED hostVars
  BY <1>1, <1>2, HostFollows DEF hostVars
<1>3. ASSUME NEW m \in Names, NEW c, Own(m, c),
             \/ Save(r) /\ m \in Resolved(r) /\ AuthSave(m, c)
             \/ RewriteRename(r) /\ m = target[r] /\ ReplaceFile(m, c, wait[r].temp)
      PROVE  /\ Followed(n)'
             /\ Own(n, file[n].content) => Own(n, file'[n].content)
             /\ \/ file'[n].content = file[n].content
                \/ Own(n, file[n].content) /\ Own(n, file'[n].content)
                \/ /\ Save(r) /\ n \in Resolved(r) /\ Own(n, file'[n].content)
                   /\ n \notin scan[r].listed /\ scan[r].same = {}
  <2>1. Save(r) /\ m \in Resolved(r) =>
          \/ Own(m, file[m].content)
          \/ m \notin scan[r].listed /\ ~auth[m].reg /\ scan[r].same = {}
    BY ResolvedFree DEF Save
  <2>2. RewriteRename(r) /\ m = target[r] => Own(m, file[m].content)
    BY DEF OwnershipInv, Holds, RewriteRename, Waiting
  <2>3. Followed(n)' /\ (IF n = m THEN file'[n].content = c ELSE file'[n] = file[n])
    BY <1>1, <1>3, <2>1, <2>2, WriteFollows
  <2> QED BY <1>3, <2>1, <2>2, <2>3
<1> QED BY <1>2, <1>3, RequestWrites

\* A step that keeps the files in place keeps what a scan has found out.
LEMMA ScannedStays ==
  ASSUME NEW q \in Requests, Scanned(q), scan[q].same \subseteq Names, scan[q].listed \subseteq Names,
         pc'[q] = "inspect" => pc[q] = "inspect",
         scan'[q] = scan[q], cred'[q] = cred[q],
         \A n \in Names : Stays(n) /\ (auth'[n].reg <=> auth[n].reg)
  PROVE  Scanned(q)'
<1> SUFFICES ASSUME pc'[q] = "inspect" PROVE Scanned(q)'
  BY DEF Scanned
<1>1. ASSUME NEW n \in scan[q].same PROVE Own(n, file'[n].content)
  BY <1>1 DEF Scanned, Stays
<1>2. ASSUME NEW n \in Names, OwnedBy(n, file'[n].content) PROVE OwnedBy(n, file[n].content)
  BY <1>2 DEF Stays, Own, OwnedBy, Owned
<1>3. canonicalName(cred[q])' = canonicalName(cred[q])
  BY DEF canonicalName
<1>4. (\A n \in Names : auth[n].reg => n \in scan[q].listed)'
  BY DEF Scanned
<1>5. (scan[q].occupied <=> \E n \in scan[q].listed : EqualFold(n, canonicalName(cred[q])))'
  BY <1>3 DEF Scanned
<1>6. (\A n \in scan[q].listed \ scan[q].todo :
         OwnedBy(n, file[n].content) /\ n.hash = principalHash(cred[q].account, cred[q].user)
           => n \in scan[q].same)'
  BY <1>2 DEF Scanned
<1> QED BY <1>1, <1>4, <1>5, <1>6 DEF Scanned

\* A request's step keeps the invariant.
LEMMA RequestOwnership ==
  ASSUME OwnershipInv, NEW r \in Requests, Arrive(r) \/ Step(r)
  PROVE  /\ Exclusive'
         /\ \A q \in Requests : Scanned(q)' /\ Holds(q)'
         /\ \A n \in Names : Followed(n)'
<1>1. TypeOK /\ LocalsOK /\ Exclusive
  BY DEF OwnershipInv
<1>2. Exclusive' /\ \A n \in Names : Followed(n)'
  BY <1>1, ExclusiveStep, RequestFollows
<1>3. ASSUME NEW q \in Requests \ {r} PROVE Scanned(q)' /\ Holds(q)'
  <2>1. pc'[q] = pc[q] /\ cred'[q] = cred[q] /\ target'[q] = target[q] /\ scan'[q] = scan[q]
    BY <1>1, RequestFrame, OthersKeep
  <2>2. CASE pc[q] \in Critical
    <3>1. file' = file /\ auth' = auth
      BY <1>1, <2>2, ExclusiveStep DEF hostVars
    <3>2. Holds(q)'
      BY <2>1, <3>1 DEF OwnershipInv, Holds
    <3>3. scan[q].same \subseteq Names /\ scan[q].listed \subseteq Names
      BY <1>1 DEF TypeOK, Scans
    <3>4. \A n \in Names : Stays(n) /\ (auth'[n].reg <=> auth[n].reg)
      BY <3>1 DEF Stays
    <3>5. Scanned(q)
      BY DEF OwnershipInv
    <3>6. Scanned(q)'
      BY <2>1, <3>3, <3>4, <3>5, ScannedStays
    <3> QED BY <3>2, <3>6
  <2>3. CASE pc[q] \notin Critical
    BY <2>1, <2>3 DEF Scanned, Holds, Critical, Pcs, Waiting
  <2> QED BY <2>2, <2>3
<1>4. Scanned(r)'
  <2>1. CASE List(r)
    BY <1>1, <2>1, ListScanned
  <2>2. CASE Inspect(r)
    BY <1>1, <2>2, InspectScanned DEF OwnershipInv
  <2>3. CASE Arrive(r) \/ Lock(r) \/ Import(r) \/ GetSaved(r) \/ Revalidate(r) \/ Save(r)
    <3>1. pc'[r] # "inspect"
      BY <1>1, <2>3 DEF Arrive, Lock, Import, GetSaved, Revalidate, UnusableBaseURL, Save,
         BeginWait, Goto,
         Return, TypeOK
    <3> QED BY <3>1 DEF Scanned
  <2>4. CASE Loop(r)
    <3>1. pc'[r] # "inspect"
      BY <1>1, <2>4, LoopKeeps DEF Waiting
    <3> QED BY <3>1 DEF Scanned
  <2> QED BY <2>1, <2>2, <2>3, <2>4 DEF Step, Loop
<1>5. Holds(r)'
  <2>1. CASE Early(r)
    BY <1>1, <2>1, EarlySteps DEF Holds
  <2>2. CASE Save(r)
    <3>1. CASE Return(r, "persistence_failed")
      BY <1>1, <3>1 DEF Return, TypeOK, Holds, Waiting
    <3>2. CASE \E n \in Resolved(r) :
                 AuthSave(n, Staging(r)) /\ target' = [target EXCEPT ![r] = n]
      <4>1. PICK n \in Resolved(r) :
              AuthSave(n, Staging(r)) /\ target' = [target EXCEPT ![r] = n]
        BY <3>2
      <4>2. pc[r] = "inspect"
        BY <2>2 DEF Save
      <4>3. /\ n \in Names /\ Validate(cred[r]) /\ target'[r] = n
            /\ IsOwnedFileForPrincipal(n, cred[r].account, cred[r].user)
        BY <1>1, <4>1, <4>2, ResolvedOwned DEF LocalsOK, LocalOK, TypeOK
      <4>4. Own(n, Staging(r)) /\ file'[n].content = Staging(r)
        BY <1>1, <4>1, <4>3, WritesOwn DEF AuthSave, WriteFile, TypeOK, HostTypeOK
      <4> QED BY <4>3, <4>4 DEF Holds
    <3> QED BY <2>2, <3>1, <3>2 DEF Save
  <2>3. CASE Loop(r)
    <3>1. pc[r] \in Waiting /\ target'[r] = target[r]
      BY <1>1, <2>3, LoopKeeps
    <3>2. target[r] \in Names /\ Own(target[r], file[target[r]].content)
      BY <3>1 DEF OwnershipInv, LocalsOK, LocalOK, Bound, Holds
    <3>3. Own(target[r], file'[target[r]].content)
      BY <3>2, RequestFollows
    <3> QED BY <3>1, <3>3 DEF Holds
  <2> QED BY <2>1, <2>2, <2>3 DEF Step, Early, Loop
<1> QED BY <1>2, <1>3, <1>4, <1>5

\* Nobody but the host and the mutations writes the directory.
LEMMA NoOperator ==
  ASSUME Undisturbed, TypeOK, NEW n \in Names
  PROVE  ~Operator(n)
<1>1. used.operator \in Nat
  BY DEF TypeOK, HostTypeOK
<1> QED BY <1>1 DEF Undisturbed, Operator, OperatorDelete, OperatorWrite

\* What the host's steps and a crash do to the files.
LEMMA HostStays ==
  ASSUME Undisturbed, OwnershipInv,
         (\E n \in Names : Operator(n) \/ HostWork(n)) \/ Clock \/ Crash \/ UNCHANGED vars,
         NEW n \in Names
  PROVE  Followed(n)' /\ Stays(n) /\ (auth'[n].reg <=> auth[n].reg)
<1>1. TypeOK /\ HostTypeOK /\ Followed(n)
  BY DEF OwnershipInv, TypeOK
<1>2. (\E m \in Names : Background(m)) \/ Tick \/ Restart \/ UNCHANGED hostVars
  BY <1>1, NoOperator DEF HostWork, Clock, Crash, vars
<1>3. Followed(n)' /\ Stays(n)
  BY <1>1, <1>2, HostFollows
<1>4. auth'[n].reg <=> auth[n].reg
  BY <1>1, <1>3 DEF Followed, Stays
<1> QED BY <1>3, <1>4

\* The host's steps and a crash keep the invariant.
LEMMA HostOwnership ==
  ASSUME Undisturbed, OwnershipInv,
         (\E n \in Names : Operator(n) \/ HostWork(n)) \/ Clock \/ Crash \/ UNCHANGED vars
  PROVE  /\ Exclusive'
         /\ \A q \in Requests : Scanned(q)' /\ Holds(q)'
         /\ \A n \in Names : Followed(n)'
<1>1. TypeOK /\ LocalsOK /\ UNCHANGED localVars
  BY DEF OwnershipInv, Operator, HostWork, Clock, Crash, vars
<1>2. \A n \in Names : Followed(n)' /\ Stays(n) /\ (auth'[n].reg <=> auth[n].reg)
  BY HostStays
<1>3. \/ UNCHANGED <<pc, mutex>>
      \/ \A q \in Requests : pc'[q] \in {"idle", "done"}
  BY DEF Operator, HostWork, Clock, Crash, vars, ctlVars, InFlight
<1>4. Exclusive'
  BY <1>3 DEF OwnershipInv, Exclusive, Critical
<1>5. ASSUME NEW q \in Requests PROVE Scanned(q)'
  <2>1. /\ Scanned(q) /\ scan[q].same \subseteq Names /\ scan[q].listed \subseteq Names
        /\ scan'[q] = scan[q] /\ cred'[q] = cred[q]
        /\ pc'[q] = "inspect" => pc[q] = "inspect"
    BY <1>1, <1>3 DEF OwnershipInv, TypeOK, Scans, localVars
  <2> QED BY <1>2, <2>1, ScannedStays
<1>6. ASSUME NEW q \in Requests PROVE Holds(q)'
  <2>1. CASE pc'[q] \in Waiting
    <3>1. pc[q] \in Waiting /\ target'[q] = target[q]
      BY <1>1, <1>3, <2>1 DEF Waiting, localVars
    <3>2. target[q] \in Names /\ Own(target[q], file[target[q]].content)
      BY <3>1 DEF OwnershipInv, LocalsOK, LocalOK, Bound, Holds
    <3>3. Own(target[q], file'[target[q]].content)
      BY <1>2, <3>2 DEF Stays
    <3> QED BY <3>1, <3>3 DEF Holds
  <2>2. CASE pc'[q] \notin Waiting
    BY <2>2 DEF Holds
  <2> QED BY <2>1, <2>2
<1> QED BY <1>2, <1>4, <1>5, <1>6

\* OwnershipInv is inductive.
LEMMA OwnershipStep ==
  ASSUME Undisturbed
  PROVE  OwnershipInv /\ [Next]_vars => OwnershipInv'
<1> SUFFICES ASSUME OwnershipInv, [Next]_vars PROVE OwnershipInv'
  OBVIOUS
<1>1. TypeOK' /\ LocalsOK'
  BY NextOK DEF OwnershipInv
<1>2. CASE \E r \in Requests : Arrive(r) \/ Step(r)
  BY <1>1, <1>2, RequestOwnership DEF OwnershipInv
<1>3. CASE (\E n \in Names : Operator(n) \/ HostWork(n)) \/ Clock \/ Crash \/ UNCHANGED vars
  BY <1>1, <1>3, HostOwnership DEF OwnershipInv
<1> QED BY <1>2, <1>3 DEF Next

\* The host starts from what the directory holds.
LEMMA OwnershipInit == Init => OwnershipInv
<1> SUFFICES ASSUME Init PROVE OwnershipInv
  OBVIOUS
<1>1. TypeOK /\ LocalsOK
  BY InitOK
<1>2. Exclusive /\ \A r \in Requests : Scanned(r) /\ Holds(r)
  BY DEF Init, Exclusive, Critical, Scanned, Holds, Waiting
<1>3. ASSUME NEW n \in Names PROVE Followed(n)
  <2>1. /\ auth[n] = Registered(n, file[n].content, 0)
        /\ ~event[n].on /\ ~watch[n].on /\ ~refresh[n].on
    BY DEF Init, HostInit, NoEvent, NoJob
  <2> QED BY <2>1, ListableFacts DEF Followed
<1> QED BY <1>1, <1>2, <1>3 DEF OwnershipInv

-----------------------------------------------------------------------------
(* What it gives.                                                          *)

\* A save replaces a file the host had listed only if it holds a decodable PAT
\* record of the same principal under the plugin's grammar, although the file was
\* inspected earlier than it is written and the host goes on refreshing, loading
\* and crashing in between.
THEOREM SavesNeverClobber ==
  ASSUME Undisturbed
  PROVE  Spec => NoClobber
<1> DEFINE Spares(r) ==
      LET n == target'[r] IN
      pc[r] = "inspect" /\ n # target[r] /\ n \in scan[r].listed /\ Present(n)
        => /\ file[n].content.kind = "pat"
           /\ samePrincipal(file[n].content, cred[r])
           /\ IsOwnedFileForPrincipal(n, cred[r].account, cred[r].user)
<1>1. ASSUME OwnershipInv, Next PROVE \A r \in Requests : Spares(r)
  <2> SUFFICES ASSUME NEW r \in Requests, NEW n, n = target'[r], pc[r] = "inspect",
                      n # target[r], n \in scan[r].listed
               PROVE  /\ file[n].content.kind = "pat"
                      /\ samePrincipal(file[n].content, cred[r])
                      /\ IsOwnedFileForPrincipal(n, cred[r].account, cred[r].user)
    OBVIOUS
  <2>1. TypeOK /\ LocalsOK
    BY <1>1 DEF OwnershipInv
  <2>2. Save(r)
    <3>1. ASSUME NEW q \in Requests \ {r}, Arrive(q) \/ Step(q) PROVE FALSE
      BY <2>1, <3>1, RequestFrame
    <3>2. ASSUME (\E m \in Names : Operator(m) \/ HostWork(m)) \/ Clock \/ Crash PROVE FALSE
      BY <3>2 DEF Operator, HostWork, Clock, Crash, localVars
    <3>3. Arrive(r) \/ Step(r)
      BY <1>1, <3>1, <3>2 DEF Next
    <3>4. ~Early(r)
      BY <2>1, EarlySteps
    <3>5. ~Loop(r)
      BY <2>1, LoopKeeps
    <3> QED BY <3>3, <3>4, <3>5 DEF Step, Early, Loop
  <2>3. n \in Resolved(r)
    BY <2>1, <2>2 DEF Save, TypeOK
  <2>4. Own(n, file[n].content)
    BY <1>1, <2>3, ResolvedFree
  <2>5. IsOwnedFileForPrincipal(n, cred[r].account, cred[r].user)
    BY <2>1, <2>3, ResolvedOwned
  <2> QED BY <2>4, <2>5 DEF Own, IsOwnedFileForPrincipal, samePrincipal, principalHash
<1>2. ASSUME OwnershipInv, [Next]_vars PROVE [\A r \in Requests : Spares(r)]_vars
  BY <1>1, <1>2
<1> QED BY <1>2, OwnershipInit, OwnershipStep, PTL DEF Spec, NoClobber

\* Files of the plugin hold the same principal exactly if their names carry the
\* same hash.
LEMMA PrincipalByName ==
  ASSUME NEW m, NEW n, NEW d, NEW e, OwnedBy(m, d), OwnedBy(n, e)
  PROVE  samePrincipal(d, e) <=> m.hash = n.hash
<1>1. /\ m.hash = <<d.account, d.user>> /\ n.hash = <<e.account, e.user>>
      /\ d.account # NoId /\ d.user # NoId
  BY DEF OwnedBy, IsOwnedFileForPrincipal, principalHash
<1> QED BY <1>1 DEF samePrincipal

\* The directory holds a principal at most once when the system starts.
OneFileAtStart ==
  \A dir \in InitDirs : \A m, n \in Names :
    OwnedBy(m, dir[m]) /\ OwnedBy(n, dir[n]) /\ samePrincipal(dir[m], dir[n]) => m = n

\* Two files of the plugin never hold the same principal: no interleaving of
\* imports and revalidations, no half-done save, crash or late refresh makes a
\* second one.
THEOREM OneFileAlways ==
  ASSUME Undisturbed, OneFileAtStart
  PROVE  Spec => []OneFilePerPrincipal
<1> DEFINE Inv == OwnershipInv /\ OneFilePerPrincipal
<1>1. ASSUME OneFilePerPrincipal,
             \A n \in Names : OwnedBy(n, file'[n].content) => OwnedBy(n, file[n].content)
      PROVE  OneFilePerPrincipal'
  <2> SUFFICES ASSUME NEW m \in Names, NEW n \in Names, OwnedBy(m, file'[m].content),
                      OwnedBy(n, file'[n].content),
                      samePrincipal(file'[m].content, file'[n].content)
               PROVE  m = n
    BY DEF OneFilePerPrincipal
  <2>1. OwnedBy(m, file[m].content) /\ OwnedBy(n, file[n].content)
    BY <1>1
  <2>2. samePrincipal(file[m].content, file[n].content)
    <3>1. m.hash = n.hash
      BY PrincipalByName
    <3> QED BY <2>1, <3>1, PrincipalByName
  <2> QED BY <1>1, <2>1, <2>2 DEF OneFilePerPrincipal
<1>2. ASSUME Inv, NEW r \in Requests, Arrive(r) \/ Step(r) PROVE OneFilePerPrincipal'
  <2>1. CASE \E n \in Names : /\ Save(r) /\ n \in Resolved(r) /\ Own(n, file'[n].content)
                              /\ n \notin scan[r].listed /\ scan[r].same = {}
    <3>1. PICK n \in Names : /\ Save(r) /\ n \in Resolved(r) /\ Own(n, file'[n].content)
                             /\ n \notin scan[r].listed /\ scan[r].same = {}
      BY <2>1
    <3>2. pc[r] = "inspect" /\ scan[r].todo = {} /\ Scanned(r)
      BY <1>2, <3>1 DEF Save, OwnershipInv
    <3>3. n.hash = principalHash(cred[r].account, cred[r].user)
      BY <1>2, <3>1, <3>2, ResolvedOwned DEF OwnershipInv, IsOwnedFileForPrincipal
    <3>4. ASSUME NEW m \in Names, m.hash = n.hash PROVE ~OwnedBy(m, file[m].content)
      <4>1. ASSUME OwnedBy(m, file[m].content) PROVE auth[m].reg
        <5>1. Followed(m)
          BY <1>2 DEF OwnershipInv
        <5>2. file[m].content.kind \in {"pat", "patbad"}
          BY <4>1 DEF OwnedBy, Owned
        <5>3. Listable(m, file[m].content)
          BY <5>2 DEF Listable, Registered
        <5> QED BY <5>1, <5>3 DEF Followed
      <4>2. ASSUME OwnedBy(m, file[m].content) PROVE m \in scan[r].listed \ scan[r].todo
        BY <3>2, <4>1, <4>2 DEF Scanned
      <4> QED BY <3>1, <3>2, <3>3, <3>4, <4>2 DEF Scanned
    <3>5. ASSUME NEW m \in Names, m # n, OwnedBy(m, file'[m].content)
          PROVE  OwnedBy(m, file[m].content)
      <4>1. \/ file'[m].content = file[m].content
            \/ Own(m, file[m].content)
            \/ m \in Resolved(r) /\ m \notin scan[r].listed
        BY <1>2, RequestFollows
      <4>2. m \in Resolved(r) /\ m \notin scan[r].listed => m = n
        <5>1. ASSUME NEW k \in Resolved(r) PROVE k = canonicalName(cred[r])
          BY <3>1, <5>1 DEF Resolved
        <5> QED BY <3>1, <5>1
      <4> QED BY <3>5, <4>1, <4>2 DEF Own, OwnedBy, Owned
    <3>6. ASSUME NEW m \in Names, NEW k \in Names, OwnedBy(m, file'[m].content),
                 OwnedBy(k, file'[k].content),
                 samePrincipal(file'[m].content, file'[k].content)
          PROVE  m = k
      <4>1. m.hash = k.hash
        BY <3>6, PrincipalByName
      <4>2. m = n \/ k = n => m = k
        BY <3>4, <3>5, <3>6, <4>1
      <4>3. CASE m # n /\ k # n
        <5>1. OwnedBy(m, file[m].content) /\ OwnedBy(k, file[k].content)
          BY <3>5, <3>6, <4>3
        <5>2. samePrincipal(file[m].content, file[k].content)
          BY <4>1, <5>1, PrincipalByName
        <5> QED BY <1>2, <5>1, <5>2 DEF OneFilePerPrincipal
      <4> QED BY <4>2, <4>3
    <3> QED BY <3>6 DEF OneFilePerPrincipal
  <2>2. CASE ~\E n \in Names : /\ Save(r) /\ n \in Resolved(r) /\ Own(n, file'[n].content)
                               /\ n \notin scan[r].listed /\ scan[r].same = {}
    <3>1. ASSUME NEW n \in Names, OwnedBy(n, file'[n].content)
          PROVE  OwnedBy(n, file[n].content)
      <4>1. file'[n].content = file[n].content \/ Own(n, file[n].content)
        BY <1>2, <2>2, RequestFollows
      <4> QED BY <3>1, <4>1 DEF Own, OwnedBy, Owned
    <3> QED BY <1>1, <1>2, <3>1
  <2> QED BY <2>1, <2>2
<1>3. ASSUME Inv,
             (\E n \in Names : Operator(n) \/ HostWork(n)) \/ Clock \/ Crash \/ UNCHANGED vars
      PROVE  OneFilePerPrincipal'
  <2>1. ASSUME NEW n \in Names, OwnedBy(n, file'[n].content)
        PROVE  OwnedBy(n, file[n].content)
    BY <1>3, <2>1, HostStays DEF Stays, Own, OwnedBy, Owned
  <2> QED BY <1>1, <1>3, <2>1
<1>4. Inv /\ [Next]_vars => Inv'
  BY <1>2, <1>3, OwnershipStep DEF Next
<1>5. Init => Inv
  <2> SUFFICES ASSUME Init PROVE OneFilePerPrincipal
    BY OwnershipInit
  <2>1. PICK dir \in InitDirs : file = [n \in Names |-> [mod |-> 0, content |-> dir[n]]]
    BY DEF Init, HostInit
  <2>2. \A n \in Names : file[n].content = dir[n]
    BY <2>1
  <2> QED BY <2>2 DEF OneFileAtStart, OneFilePerPrincipal
<1> QED BY <1>4, <1>5, PTL DEF Spec
=============================================================================
