------------------------------ MODULE AuthHost ------------------------------
(***************************************************************************)
(* CPA's side of credential persistence, as far as the plugin depends on   *)
(* it (external: modelled from the callbacks internal/pat and              *)
(* internal/management make and from what they say about CPA).             *)
(*                                                                         *)
(* CPA keeps an auth directory and an auth manager.  host.auth.save writes *)
(* a file and registers a generic runtime record at once; a watcher reads  *)
(* changed files and replaces the record by what the plugin's ParseAuth    *)
(* makes of them; a background refresh takes the record's stored JSON      *)
(* through RefreshAuth and persists it again, possibly over a newer file.  *)
(* An operator may delete or drop in files at any time.                    *)
(*                                                                         *)
(* Time is discrete.  A file's mod and a record's updated are readings of  *)
(* the clock, and several events may share one.                            *)
(***************************************************************************)
EXTENDS Credential

CONSTANTS
  Names,            \* the file names of the instance
  InitDirs,         \* the auth directories the system may start from
  OperatorContents, \* the documents an operator may drop into the directory
  WatchLag,         \* the watcher applies a change within this time
  RefreshLag,       \* a refresh is persisted within this time of its start
  SkipUnchanged,    \* the watcher ignores a file whose hash it saw last
  RegistersBroken,  \* undecodable JSON reaches the plugin's parser
  MaxTime, MaxRefresh, MaxOperator, MaxCrash  \* bounds

ASSUME AuthHostConstants ==
  /\ Names \subseteq FileNames
  /\ InitDirs \subseteq [Names -> Contents]
  /\ OperatorContents \subseteq Contents
  /\ WatchLag \in Nat /\ RefreshLag \in Nat
  /\ SkipUnchanged \in BOOLEAN /\ RegistersBroken \in BOOLEAN
  /\ MaxTime \in Nat /\ MaxRefresh \in Nat /\ MaxOperator \in Nat /\ MaxCrash \in Nat

\* A stamp names the mutation that set validated_at: what was in the directory
\* before, or comes from elsewhere, carries none.
ASSUME ForeignDocuments ==
  /\ \A dir \in InitDirs, n \in Names : dir[n].at = NoStamp
  /\ \A c \in OperatorContents : c.at = NoStamp

VARIABLES
  now,      \* the clock
  file,     \* the auth directory: name -> modification time and document
  auth,     \* the auth manager: name -> runtime record
  event,    \* changes the watcher has been notified of and not yet read
  watch,    \* documents the watcher has read and not yet applied
  refresh,  \* refreshes under way, with the stored JSON they started from
  seen,     \* the document whose hash the watcher remembers
  used      \* how much of each bound is used up

hostVars == <<now, file, auth, event, watch, refresh, seen, used>>

Auths == [reg: BOOLEAN, updated: Nat, view: Views, storage: Contents]
Events == [on: BOOLEAN, due: Nat]
Jobs == [on: BOOLEAN, due: Nat, content: Contents]

HostTypeOK ==
  /\ now \in Nat
  /\ file \in [Names -> [mod: Nat, content: Contents]]
  /\ auth \in [Names -> Auths]
  /\ event \in [Names -> Events]
  /\ watch \in [Names -> Jobs]
  /\ refresh \in [Names -> Jobs]
  /\ seen \in [Names -> Contents]
  /\ used \in [refresh: Nat, operator: Nat, crash: Nat]

NoEvent == [on |-> FALSE, due |-> 0]
NoJob == [on |-> FALSE, due |-> 0, content |-> Absent]
Unregistered == [reg |-> FALSE, updated |-> 0, view |-> disabledAuthData, storage |-> Absent]

Present(n) == file[n].content.kind # "absent"

\* The record the watcher registers for document c in file n at time t: the
\* plugin's if it handles the document, else a native one.
Registered(n, c, t) ==
  IF c.kind = "absent" \/ (c.kind = "broken" /\ ~(RegistersBroken /\ Handled(TRUE, n, c)))
  THEN Unregistered
  ELSE [reg |-> TRUE, updated |-> t, storage |-> c,
        view |-> IF Handled(TRUE, n, c) THEN ParseAuth(TRUE, n, c) ELSE NativeView(c)]

HostInit ==
  /\ now = 0
  /\ \E dir \in InitDirs : file = [n \in Names |-> [mod |-> 0, content |-> dir[n]]]
  /\ auth = [n \in Names |-> Registered(n, file[n].content, 0)]
  /\ event = [n \in Names |-> NoEvent]
  /\ watch = [n \in Names |-> NoJob]
  /\ refresh = [n \in Names |-> NoJob]
  /\ seen = [n \in Names |-> file[n].content]
  /\ used = [refresh |-> 0, operator |-> 0, crash |-> 0]

\* Every write of the directory notifies the watcher; a pending notification
\* keeps its time.  mod is when the document was written, not when it came here.
WriteFile(n, c, mod) ==
  /\ file' = [file EXCEPT ![n] = [mod |-> mod, content |-> c]]
  /\ event' = [event EXCEPT ![n] =
                 IF @.on THEN @ ELSE [on |-> TRUE, due |-> now + WatchLag]]

-----------------------------------------------------------------------------
(* Host callbacks that change state.                                       *)

\* host.auth.save: the file, and a generic record straight from the JSON.
AuthSave(n, c) ==
  /\ WriteFile(n, c, now)
  /\ auth' = [auth EXCEPT ![n] = [reg |-> TRUE, updated |-> now,
                                  view |-> NativeView(c), storage |-> c]]
  /\ UNCHANGED <<now, watch, refresh, seen, used>>

\* The plugin's own rename into the auth directory: the file keeps the time at
\* which the temporary file was written.
ReplaceFile(n, c, mod) ==
  /\ WriteFile(n, c, mod)
  /\ UNCHANGED <<now, auth, watch, refresh, seen, used>>

-----------------------------------------------------------------------------
(* Background work of the host.                                            *)

WatchRead(n) ==
  /\ event[n].on /\ ~watch[n].on
  /\ ~(SkipUnchanged /\ file[n].content = seen[n])
  /\ event' = [event EXCEPT ![n] = NoEvent]
  /\ watch' = [watch EXCEPT ![n] = [on |-> TRUE, due |-> event[n].due,
                                    content |-> file[n].content]]
  /\ seen' = [seen EXCEPT ![n] = file[n].content]
  /\ UNCHANGED <<now, file, auth, refresh, used>>

\* The file hashes to what was read last: "an unchanged rewrite".
WatchSkip(n) ==
  /\ event[n].on /\ ~watch[n].on
  /\ SkipUnchanged /\ file[n].content = seen[n]
  /\ event' = [event EXCEPT ![n] = NoEvent]
  /\ UNCHANGED <<now, file, auth, watch, refresh, seen, used>>

WatchApply(n) ==
  /\ watch[n].on
  /\ auth' = [auth EXCEPT ![n] = Registered(n, watch[n].content, now)]
  /\ watch' = [watch EXCEPT ![n] = NoJob]
  /\ UNCHANGED <<now, file, event, refresh, seen, used>>

RefreshStart(n) ==
  /\ used.refresh < MaxRefresh
  /\ auth[n].reg /\ ~refresh[n].on
  /\ refresh' = [refresh EXCEPT ![n] = [on |-> TRUE, due |-> now + RefreshLag,
                                        content |-> auth[n].storage]]
  /\ used' = [used EXCEPT !.refresh = @ + 1]
  /\ UNCHANGED <<now, file, auth, event, watch, seen>>

\* The record and the file go back to the JSON the refresh started from; a
\* record removed meanwhile is not brought back.
RefreshApply(n) ==
  /\ refresh[n].on
  /\ refresh' = [refresh EXCEPT ![n] = NoJob]
  /\ IF auth[n].reg
     THEN /\ auth' = [auth EXCEPT ![n] =
                        [reg |-> TRUE, updated |-> now, storage |-> refresh[n].content,
                         view |-> RefreshAuth(n, refresh[n].content)]]
          /\ WriteFile(n, refresh[n].content, now)
     ELSE UNCHANGED <<auth, file, event>>
  /\ UNCHANGED <<now, watch, seen, used>>

\* The native delete route: file and record together.
OperatorDelete(n) ==
  /\ used.operator < MaxOperator
  /\ Present(n)
  /\ WriteFile(n, Absent, now)
  /\ auth' = [auth EXCEPT ![n] = Unregistered]
  /\ used' = [used EXCEPT !.operator = @ + 1]
  /\ UNCHANGED <<now, watch, refresh, seen>>

OperatorWrite(n) ==
  /\ used.operator < MaxOperator
  /\ \E c \in OperatorContents : c # file[n].content /\ WriteFile(n, c, now)
  /\ used' = [used EXCEPT !.operator = @ + 1]
  /\ UNCHANGED <<now, auth, watch, refresh, seen>>

\* CPA dies and starts again: the directory survives, and is loaded before the
\* first request is served.
Restart ==
  /\ used.crash < MaxCrash
  /\ auth' = [n \in Names |-> Registered(n, file[n].content, now)]
  /\ event' = [n \in Names |-> NoEvent]
  /\ watch' = [n \in Names |-> NoJob]
  /\ refresh' = [n \in Names |-> NoJob]
  /\ seen' = [n \in Names |-> file[n].content]
  /\ used' = [used EXCEPT !.crash = @ + 1]
  /\ UNCHANGED <<now, file>>

\* Time passes, but not beyond the moment the host's work is due.
Tick ==
  /\ now < MaxTime
  /\ \A n \in Names : /\ event[n].on => now < event[n].due
                      /\ watch[n].on => now < watch[n].due
                      /\ refresh[n].on => now < refresh[n].due
  /\ now' = now + 1
  /\ UNCHANGED <<file, auth, event, watch, refresh, seen, used>>

\* What the host must do before it is due, and all it does unasked.
DueWork(n) == WatchRead(n) \/ WatchSkip(n) \/ WatchApply(n) \/ RefreshApply(n)
Background(n) == DueWork(n) \/ RefreshStart(n)
=============================================================================
