----------------------------- MODULE SettleProofs -----------------------------
(***************************************************************************)
(* Proofs about PatService: what a success means (SuccessIsSettled).       *)
(*                                                                         *)
(* The plugin cannot see the host's pending work; it waits for a window in *)
(* which the file does not change.  The argument has four parts:           *)
(*   1. the host's pending work is bounded in time (HostCalm), and what a  *)
(*      window began with is over when it ends (Recent);                   *)
(*   2. so a file unchanged for StableWindow is quiet (record, watcher and *)
(*      refresh all hold what it holds) or, on a host that skips unchanged *)
(*      rewrites, parted: file and record differ and nothing is under way  *)
(*      that would bring them together (OldIsQuiet); only the host's next  *)
(*      refresh changes that (QuietKept, PartedKept);                      *)
(*   3. the confirming Lstat and read of awaitWatcherState find the final  *)
(*      document in such a file (Confirming); on a host that skips nothing *)
(*      this is the property;                                              *)
(*   4. on a host that skips, the staging barrier is never passed over a   *)
(*      parted file (Level), so that it leaves nothing under the name that *)
(*      can be served besides the credential (Sole): an active record then *)
(*      serves the credential itself, a disabled one leaves nothing at all.*)
(***************************************************************************)
EXTENDS OwnershipProofs

\* The window outlasts the host's lags: what watcherSyncStableWindow has to meet.
Calm == WatchLag + RefreshLag < StableWindow

-----------------------------------------------------------------------------
(* Part 1: the host's pending work.                                        *)

\* Where neither a notification nor a read is pending, the record is the file's,
\* unless a notification was skipped.
InSync(n) ==
  /\ ~event[n].on /\ ~watch[n].on =>
       SkipUnchanged \/ auth[n] = Registered(n, file[n].content, auth[n].updated)
  /\ ~event[n].on /\ watch[n].on => watch[n].content = file[n].content
  /\ watch[n].on => watch[n].content = seen[n]

Timely(n) ==
  /\ file[n].mod <= now
  /\ event[n].on => now <= event[n].due /\ event[n].due <= now + WatchLag
  /\ watch[n].on => now <= watch[n].due /\ watch[n].due <= now + WatchLag
  /\ refresh[n].on => now <= refresh[n].due /\ refresh[n].due <= now + RefreshLag

\* The view serves document d exactly as d says.
Tells(d, view) == IF Validate(d) THEN view = AuthData(d) ELSE view.disabled

\* The record tells the truth about its document.
Reads(n) == Own(n, auth[n].storage) => Tells(auth[n].storage, auth[n].view)

HostCalm == \A n \in Names : InSync(n) /\ Timely(n) /\ Reads(n)

\* What the host does by itself, and all that happens to it.
HostAlone == (\E m \in Names : Background(m)) \/ Tick \/ Restart \/ UNCHANGED hostVars

HostMoves ==
  \/ HostAlone
  \/ \E m \in Names : OperatorDelete(m) \/ OperatorWrite(m)
  \/ \E m \in Names, c \in Contents : AuthSave(m, c) /\ c.disabled /\ ~Validate(c)
  \/ \E m \in Names, c \in Contents, t \in Nat : t <= now /\ ReplaceFile(m, c, t)

\* The plugin reads its own documents the same with and without the file's name,
\* as a refresh does.
LEMMA OwnParsed ==
  ASSUME NEW n, NEW d, Own(n, d)
  PROVE  /\ Handled(TRUE, n, d) /\ RefreshAuth(n, d) = ParseAuth(TRUE, n, d)
         /\ Tells(d, ParseAuth(TRUE, n, d))
<1>1. d.kind = "pat" /\ Owned(d) /\ ~DecodeFails(d) /\ Handled(TRUE, n, d) /\ Handled(FALSE, n, d)
  BY DEF Own, Owned, DecodeFails, Handled
<1>2. CASE Validate(d)
  <2>1. ParseAuth(TRUE, n, d) = AuthData(d) /\ ParseAuth(FALSE, n, d) = AuthData(d)
    BY <1>1, <1>2 DEF ParseAuth, Own
  <2> QED BY <1>1, <1>2, <2>1 DEF RefreshAuth, Tells
<1>3. CASE ~Validate(d)
  <2>1. ParseAuth(TRUE, n, d) = disabledAuthData /\ ParseAuth(FALSE, n, d) = disabledAuthData
    BY <1>3 DEF ParseAuth
  <2>2. disabledAuthData.disabled
    BY DEF disabledAuthData
  <2> QED BY <1>1, <1>3, <2>1, <2>2 DEF RefreshAuth, Tells
<1> QED BY <1>2, <1>3

\* The record the watcher makes of such a document.
LEMMA OwnRegistered ==
  ASSUME NEW n, NEW d, NEW t, Own(n, d)
  PROVE  /\ Registered(n, d, t).reg /\ Registered(n, d, t).storage = d
         /\ Registered(n, d, t).view = ParseAuth(TRUE, n, d)
BY OwnParsed DEF Registered, Own

\* So watcher and refresh alike make a truthful record of it.
LEMMA OwnReading ==
  ASSUME NEW n, NEW d, Own(n, d)
  PROVE  /\ Tells(d, RefreshAuth(n, d))
         /\ \A t : Tells(d, Registered(n, d, t).view)
<1>1. RefreshAuth(n, d) = ParseAuth(TRUE, n, d) /\ Tells(d, ParseAuth(TRUE, n, d))
  BY OwnParsed, Zenon
<1>2. ASSUME NEW t PROVE Registered(n, d, t).view = ParseAuth(TRUE, n, d)
  BY OwnRegistered, Zenon
<1> QED BY <1>1, <1>2, Zenon

\* Every step keeps the record truthful.
LEMMA HostReads ==
  ASSUME HostTypeOK, HostMoves, NEW n \in Names, Reads(n)
  PROVE  Reads(n)'
<1> USE DEF HostTypeOK
<1>1. ASSUME auth'[n] = auth[n] PROVE Reads(n)'
  BY <1>1 DEF Reads
<1>2. ~Own(n, Absent)
  BY DEF Own, Absent, Opaque
<1>3. ASSUME NEW d, NEW t, auth'[n] = Registered(n, d, t) PROVE Reads(n)'
  <2> SUFFICES ASSUME Own(n, auth'[n].storage) PROVE Tells(auth'[n].storage, auth'[n].view)
    BY DEF Reads
  <2>1. auth'[n].storage = d
    BY <1>2, <1>3, RegisteredStorage
  <2> QED BY <1>3, <2>1, OwnReading
<1>4. ASSUME NEW m \in Names, WatchApply(m) PROVE Reads(n)'
  <2>1. auth'[n] = auth[n] \/ auth'[n] = Registered(n, watch[n].content, now)
    BY <1>4 DEF WatchApply
  <2> QED BY <1>1, <1>3, <2>1
<1>5. ASSUME NEW m \in Names, RefreshApply(m) PROVE Reads(n)'
  <2>1. \/ auth'[n] = auth[n]
        \/ /\ auth'[n].storage = refresh[n].content
           /\ auth'[n].view = RefreshAuth(n, refresh[n].content)
    BY <1>5 DEF RefreshApply
  <2>2. CASE /\ auth'[n].storage = refresh[n].content
             /\ auth'[n].view = RefreshAuth(n, refresh[n].content)
    BY <2>2, OwnReading DEF Reads
  <2> QED BY <1>1, <2>1, <2>2
<1>6. ASSUME NEW m \in Names, NEW c, AuthSave(m, c), ~Validate(c), c.disabled PROVE Reads(n)'
  <2>1. auth'[n] = auth[n] \/ (auth'[n].storage = c /\ auth'[n].view = NativeView(c))
    BY <1>6 DEF AuthSave
  <2>2. Tells(c, NativeView(c))
    BY <1>6 DEF Tells, NativeView
  <2> QED BY <1>1, <2>1, <2>2 DEF Reads
<1>7. CASE Restart
  <2>1. auth'[n] = Registered(n, file[n].content, now)
    BY <1>7 DEF Restart
  <2> QED BY <1>3, <2>1
<1>8. ASSUME NEW m \in Names, OperatorDelete(m) PROVE Reads(n)'
  <2>1. auth'[n] = auth[n] \/ auth'[n].storage = Absent
    BY <1>8 DEF OperatorDelete, Unregistered
  <2> QED BY <1>1, <1>2, <2>1 DEF Reads
<1>9. CASE \/ \E m \in Names : WatchRead(m) \/ WatchSkip(m) \/ RefreshStart(m) \/ OperatorWrite(m)
           \/ \E m \in Names, c \in Contents, t \in Nat : ReplaceFile(m, c, t)
           \/ Tick \/ UNCHANGED hostVars
  <2>1. UNCHANGED auth
    BY <1>9 DEF WatchRead, WatchSkip, RefreshStart, OperatorWrite, ReplaceFile, Tick, hostVars
  <2> QED BY <1>1, <2>1
<1> QED BY <1>4, <1>5, <1>6, <1>7, <1>8, <1>9 DEF HostMoves, HostAlone, Background, DueWork

\* A step at other names leaves a name's pending work alone.
LEMMA HostElsewhere ==
  ASSUME HostTypeOK, NEW m \in Names, NEW n \in Names \ {m},
         \/ Background(m) \/ OperatorDelete(m) \/ OperatorWrite(m)
         \/ \E c, t : AuthSave(m, c) \/ ReplaceFile(m, c, t)
  PROVE  /\ file'[n] = file[n] /\ auth'[n] = auth[n] /\ event'[n] = event[n]
         /\ watch'[n] = watch[n] /\ refresh'[n] = refresh[n] /\ seen'[n] = seen[n]
         /\ now' = now
<1> USE DEF HostTypeOK
<1>1. CASE \/ WatchRead(m) \/ WatchSkip(m) \/ WatchApply(m) \/ RefreshStart(m)
  BY <1>1 DEF WatchRead, WatchSkip, WatchApply, RefreshStart
<1>2. CASE \/ RefreshApply(m) \/ OperatorDelete(m) \/ OperatorWrite(m)
           \/ \E c, t : AuthSave(m, c) \/ ReplaceFile(m, c, t)
  <2>1. file'[n] = file[n] /\ event'[n] = event[n] /\ auth'[n] = auth[n]
    BY <1>2 DEF RefreshApply, OperatorDelete, OperatorWrite, AuthSave, ReplaceFile, WriteFile
  <2>2. watch'[n] = watch[n] /\ refresh'[n] = refresh[n] /\ seen'[n] = seen[n] /\ now' = now
    BY <1>2 DEF RefreshApply, OperatorDelete, OperatorWrite, AuthSave, ReplaceFile
  <2> QED BY <2>1, <2>2
<1> QED BY <1>1, <1>2 DEF Background, DueWork

\* A write is news for the watcher, whoever wrote it and whatever it did besides.
LEMMA WriteTells ==
  ASSUME HostTypeOK, NEW m \in Names, NEW c, NEW t, WriteFile(m, c, t)
  PROVE  /\ file'[m].mod = t /\ file'[m].content = c /\ event'[m].on
         /\ event'[m].due = IF event[m].on THEN event[m].due ELSE now + WatchLag
BY DEF WriteFile, HostTypeOK, Events

\* Every step of the host, and every write of the plugin, keeps the host's pending
\* work within its bounds.
LEMMA HostStepCalm ==
  ASSUME HostTypeOK, HostCalm, HostMoves
  PROVE  HostCalm'
<1> USE AuthHostConstants
<1> DEFINE Good(n) == InSync(n) /\ Timely(n)
<1>1. ASSUME NEW n \in Names
      PROVE  /\ file[n].mod \in Nat /\ now \in Nat /\ event[n].due \in Nat
             /\ watch[n].due \in Nat /\ refresh[n].due \in Nat
             /\ Good(n)
  BY DEF HostTypeOK, Events, Jobs, HostCalm
<1> SUFFICES ASSUME NEW n \in Names PROVE Good(n)'
  BY HostReads DEF HostCalm
<1>2. ASSUME file'[n] = file[n], auth'[n] = auth[n], event'[n] = event[n], watch'[n] = watch[n],
             refresh'[n] = refresh[n], seen'[n] = seen[n], now' = now
      PROVE  Good(n)'
  BY <1>1, <1>2 DEF InSync, Timely
<1>3. ASSUME NEW c, NEW t \in Nat, t <= now, WriteFile(n, c, t), UNCHANGED <<now, watch, seen>>,
             refresh'[n] = refresh[n] \/ ~refresh'[n].on
      PROVE  Good(n)'
  <2>1. /\ file'[n].mod = t /\ event'[n].on
        /\ event'[n].due = IF event[n].on THEN event[n].due ELSE now + WatchLag
    BY <1>3, WriteTells
  <2>2. InSync(n)'
    BY <1>1, <1>3, <2>1 DEF InSync
  <2>3. Timely(n)'
    BY <1>1, <1>3, <2>1 DEF Timely
  <2> QED BY <2>2, <2>3
<1>4. ASSUME WatchRead(n) PROVE Good(n)'
  <2>1. /\ event[n].on /\ ~event'[n].on
        /\ watch'[n].on /\ watch'[n].due = event[n].due /\ watch'[n].content = file[n].content
        /\ seen'[n] = file[n].content
        /\ UNCHANGED <<now, file, auth, refresh>>
    BY <1>4 DEF WatchRead, HostTypeOK, NoEvent
  <2> QED BY <1>1, <2>1 DEF InSync, Timely
<1>5. ASSUME WatchSkip(n) PROVE Good(n)'
  <2>1. /\ SkipUnchanged /\ ~watch[n].on /\ ~event'[n].on
        /\ UNCHANGED <<now, file, auth, refresh, watch, seen>>
    BY <1>5 DEF WatchSkip, HostTypeOK, NoEvent
  <2> QED BY <1>1, <2>1 DEF InSync, Timely
<1>6. ASSUME WatchApply(n) PROVE Good(n)'
  <2>1. /\ watch[n].on /\ ~watch'[n].on
        /\ auth'[n] = Registered(n, watch[n].content, now)
        /\ UNCHANGED <<now, file, event, refresh, seen>>
    BY <1>6 DEF WatchApply, HostTypeOK, NoJob
  <2>2. InSync(n)'
    BY <1>1, <2>1, RegisteredFacts DEF InSync
  <2>3. Timely(n)'
    BY <1>1, <2>1 DEF Timely
  <2> QED BY <2>2, <2>3
<1>7. ASSUME RefreshStart(n) PROVE Good(n)'
  <2>1. /\ refresh'[n].on /\ refresh'[n].due = now + RefreshLag
        /\ UNCHANGED <<now, file, auth, event, watch, seen>>
    BY <1>7 DEF RefreshStart, HostTypeOK
  <2> QED BY <1>1, <2>1 DEF InSync, Timely
<1>8. ASSUME RefreshApply(n) PROVE Good(n)'
  <2>1. ~refresh'[n].on /\ UNCHANGED <<now, watch, seen>>
    BY <1>8 DEF RefreshApply, HostTypeOK, NoJob
  <2>2. \/ WriteFile(n, refresh[n].content, now)
        \/ UNCHANGED <<auth, file, event>>
    BY <1>8 DEF RefreshApply
  <2>3. CASE UNCHANGED <<auth, file, event>>
    BY <1>1, <2>1, <2>3 DEF InSync, Timely
  <2> QED BY <1>1, <1>3, <2>1, <2>2, <2>3
<1>9. ASSUME OperatorDelete(n) \/ OperatorWrite(n) PROVE Good(n)'
  <2>1. (\E c : WriteFile(n, c, now)) /\ UNCHANGED <<now, watch, seen, refresh>>
    BY <1>9 DEF OperatorDelete, OperatorWrite
  <2> QED BY <1>1, <1>3, <2>1
<1>10. ASSUME NEW c, NEW t \in Nat, t <= now, AuthSave(n, c) \/ ReplaceFile(n, c, t)
       PROVE  Good(n)'
  <2>1. (WriteFile(n, c, now) \/ WriteFile(n, c, t)) /\ UNCHANGED <<now, watch, seen, refresh>>
    BY <1>10 DEF AuthSave, ReplaceFile
  <2> QED BY <1>1, <1>3, <1>10, <2>1
<1>11. CASE Tick
  <2>1. /\ now' = now + 1 /\ UNCHANGED <<file, auth, event, watch, refresh, seen>>
        /\ event[n].on => now < event[n].due
        /\ watch[n].on => now < watch[n].due
        /\ refresh[n].on => now < refresh[n].due
    BY <1>11 DEF Tick
  <2> QED BY <1>1, <2>1 DEF InSync, Timely
<1>12. CASE Restart
  <2>1. /\ auth'[n] = Registered(n, file[n].content, now)
        /\ ~event'[n].on /\ ~watch'[n].on /\ ~refresh'[n].on
        /\ UNCHANGED <<now, file>>
    BY <1>12 DEF Restart, NoEvent, NoJob
  <2>2. InSync(n)'
    BY <2>1, RegisteredFacts DEF InSync
  <2> QED BY <1>1, <2>1, <2>2 DEF Timely
<1>13. CASE UNCHANGED hostVars
  BY <1>2, <1>13 DEF hostVars
<1>14. ASSUME NEW m \in Names, m # n, NEW c, NEW t,
              \/ Background(m) \/ OperatorDelete(m) \/ OperatorWrite(m)
              \/ AuthSave(m, c) \/ ReplaceFile(m, c, t)
       PROVE  Good(n)'
  BY <1>2, <1>14, HostElsewhere
<1> HIDE DEF Good
<1>15. CASE HostAlone
  BY <1>4, <1>5, <1>6, <1>7, <1>8, <1>11, <1>12, <1>13, <1>14, <1>15
     DEF HostAlone, Background, DueWork
<1>16. CASE \E m \in Names : OperatorDelete(m) \/ OperatorWrite(m)
  BY <1>9, <1>14, <1>16
<1>17. CASE \/ \E m \in Names, c \in Contents : AuthSave(m, c)
            \/ \E m \in Names, c \in Contents, t \in Nat : t <= now /\ ReplaceFile(m, c, t)
  <2>1. 0 \in Nat /\ 0 <= now
    BY <1>1
  <2> QED BY <1>10, <1>14, <1>17, <2>1
<1> QED BY <1>15, <1>16, <1>17 DEF HostMoves

\* At start-up no work of the host is pending.
LEMMA HostInitCalm == HostInit => HostCalm
<1> SUFFICES ASSUME HostInit, NEW n \in Names PROVE InSync(n) /\ Timely(n) /\ Reads(n)
  BY DEF HostCalm
<1>1. HostTypeOK
  BY HostInitTypes
<1>2. PICK c, t : c = file[n].content /\ t = 0
  OBVIOUS
<1>3. /\ auth[n] = Registered(n, c, t) /\ file[n].mod = 0 /\ now = 0
      /\ ~event[n].on /\ ~watch[n].on /\ ~refresh[n].on
  BY <1>2 DEF HostInit, NoEvent, NoJob
<1>4. InSync(n)
  BY <1>2, <1>3, RegisteredFacts DEF InSync
<1>5. Reads(n)
  <2>1. ~Own(n, Absent)
    BY DEF Own, Absent, Opaque
  <2>2. Own(n, auth[n].storage) => auth[n].storage = c
    BY <1>3, <2>1, RegisteredStorage
  <2> QED BY <1>3, <2>2, OwnReading DEF Reads
<1> QED BY <1>3, <1>4, <1>5 DEF Timely

\* A refresh of a record that no news of the file will replace: the rewrite that
\* would have replaced it was skipped.
Apart(n) ==
  /\ SkipUnchanged /\ ~event[n].on /\ ~watch[n].on
  /\ auth[n].reg /\ refresh[n].content = auth[n].storage

\* The work pending on file n began before time s or soon after.
Recent(n, s) ==
  /\ event[n].on => event[n].due <= s + WatchLag
  /\ watch[n].on => watch[n].due <= s + WatchLag
  /\ refresh[n].on => \/ refresh[n].content = file[n].content \/ Apart(n)
                      \/ refresh[n].due <= s + WatchLag + RefreshLag

\* Now is recent.
LEMMA RecentNow ==
  ASSUME HostTypeOK, HostCalm, NEW n \in Names
  PROVE  Recent(n, now)
<1>1. Timely(n) /\ now \in Nat /\ refresh[n].due \in Nat
  BY DEF HostCalm, HostTypeOK, Jobs
<1> QED BY <1>1, AuthHostConstants DEF Recent, Timely

\* Work that is recent stays so until the file is written: a refresh starts from
\* the file's document, while news of it is pending, or apart.
LEMMA RecentKept ==
  ASSUME HostTypeOK, HostCalm, NEW n \in Names, NEW s \in Nat, Recent(n, s),
         HostAlone \/ \E m \in Names : OperatorDelete(m) \/ OperatorWrite(m)
  PROVE  Recent(n, s)' \/ (file'[n].mod = now /\ now' = now)
<1> USE AuthHostConstants
<1> DEFINE Good == Recent(n, s)' \/ (file'[n].mod = now /\ now' = now)
<1>1. /\ now \in Nat /\ event[n].due \in Nat /\ watch[n].due \in Nat /\ refresh[n].due \in Nat
      /\ InSync(n) /\ Timely(n)
  BY DEF HostTypeOK, Events, Jobs, HostCalm
<1>2. ASSUME file'[n] = file[n], auth'[n] = auth[n], event'[n] = event[n], watch'[n] = watch[n],
             refresh'[n] = refresh[n]
      PROVE  Good
  BY <1>2 DEF Recent, Apart
<1>3. ASSUME NEW c, WriteFile(n, c, now), UNCHANGED now PROVE Good
  BY <1>3, WriteTells
<1>4. ASSUME WatchRead(n) PROVE Good
  <2>1. /\ event[n].on /\ ~event'[n].on /\ watch'[n].on /\ watch'[n].due = event[n].due
        /\ UNCHANGED <<file, auth, refresh>>
    BY <1>4 DEF WatchRead, HostTypeOK, NoEvent
  <2> QED BY <1>1, <2>1 DEF Recent, Apart
<1>5. ASSUME WatchSkip(n) PROVE Good
  <2>1. event[n].on /\ ~event'[n].on /\ ~watch[n].on /\ UNCHANGED <<file, auth, refresh, watch>>
    BY <1>5 DEF WatchSkip, HostTypeOK, NoEvent
  <2> QED BY <1>1, <2>1 DEF Recent, Apart
<1>6. ASSUME WatchApply(n) PROVE Good
  <2>1. watch[n].on /\ ~watch'[n].on /\ UNCHANGED <<file, event, refresh>>
    BY <1>6 DEF WatchApply, HostTypeOK, NoJob
  <2> QED BY <1>1, <2>1 DEF Recent, Apart
<1>7. ASSUME RefreshStart(n) PROVE Good
  <2>1. /\ auth[n].reg
        /\ refresh'[n].on /\ refresh'[n].due = now + RefreshLag
        /\ refresh'[n].content = auth[n].storage
        /\ UNCHANGED <<now, file, auth, event, watch>>
    BY <1>7 DEF RefreshStart, HostTypeOK
  <2>2. CASE event[n].on \/ watch[n].on
    BY <1>1, <2>1, <2>2 DEF Recent, Timely
  <2>3. CASE ~event[n].on /\ ~watch[n].on /\ SkipUnchanged
    BY <1>1, <2>1, <2>3 DEF Recent, Apart
  <2>4. CASE ~event[n].on /\ ~watch[n].on /\ ~SkipUnchanged
    <3>1. auth[n].storage = file[n].content
      BY <1>1, <2>1, <2>4, RegisteredFacts DEF InSync
    <3> QED BY <1>1, <2>1, <2>4, <3>1 DEF Recent
  <2> QED BY <2>2, <2>3, <2>4
<1>8. ASSUME RefreshApply(n) PROVE Good
  <2>1. ~refresh'[n].on /\ UNCHANGED <<now, watch>>
    BY <1>8 DEF RefreshApply, HostTypeOK, NoJob
  <2>2. \/ WriteFile(n, refresh[n].content, now)
        \/ UNCHANGED <<auth, file, event>>
    BY <1>8 DEF RefreshApply
  <2>3. CASE UNCHANGED <<auth, file, event>>
    BY <1>1, <2>1, <2>3 DEF Recent
  <2> QED BY <1>3, <2>1, <2>2, <2>3
<1>9. ASSUME OperatorDelete(n) \/ OperatorWrite(n) PROVE Good
  BY <1>3, <1>9 DEF OperatorDelete, OperatorWrite
<1>10. CASE Tick \/ UNCHANGED hostVars
  BY <1>2, <1>10 DEF Tick, hostVars
<1>11. CASE Restart
  <2>1. ~event'[n].on /\ ~watch'[n].on /\ ~refresh'[n].on
    BY <1>11 DEF Restart, NoEvent, NoJob
  <2> QED BY <2>1 DEF Recent
<1>12. ASSUME NEW m \in Names, m # n, Background(m) \/ OperatorDelete(m) \/ OperatorWrite(m)
       PROVE  Good
  BY <1>2, <1>12, HostElsewhere
<1> HIDE DEF Good
<1>13. ASSUME NEW m \in Names, Background(m) PROVE Good
  <2>1. CASE m = n
    BY <1>4, <1>5, <1>6, <1>7, <1>8, <1>13, <2>1 DEF Background, DueWork
  <2> QED BY <1>12, <1>13, <2>1
<1>14. ASSUME NEW m \in Names, OperatorDelete(m) \/ OperatorWrite(m) PROVE Good
  <2>1. CASE m = n
    BY <1>9, <1>14, <2>1
  <2> QED BY <1>12, <1>14, <2>1
<1> QED BY <1>10, <1>11, <1>13, <1>14, Zenon DEF HostAlone, Good

-----------------------------------------------------------------------------
(* Part 2: quiet and parted files.                                         *)

\* Record, watcher and refresh of file n all hold what the file holds; if that
\* is c, the record is the plugin's active or disabled reading of c.
Quiet(n, c) ==
  /\ auth[n].reg => auth[n].storage = file[n].content
  /\ watch[n].on => watch[n].content = file[n].content
  /\ refresh[n].on => refresh[n].content = file[n].content
  /\ file[n].content = c => auth[n].reg /\ auth[n].view = AuthData(c)

\* File and record differ, and no news is on its way.
Parted(n) ==
  /\ SkipUnchanged /\ ~event[n].on /\ ~watch[n].on
  /\ auth[n].reg => auth[n].storage # file[n].content
  /\ auth[n].reg /\ refresh[n].on => refresh[n].content \in {file[n].content, auth[n].storage}

\* A complete credential in a file named after its principal.
Fits(n, c) == Own(n, c) /\ Validate(c)

\* The plugin's parser takes it as it is.
LEMMA FitParsed ==
  ASSUME NEW n, NEW c, Fits(n, c)
  PROVE  ParseAuth(TRUE, n, c) = AuthData(c)
<1>1. Tells(c, ParseAuth(TRUE, n, c)) /\ Validate(c)
  BY OwnParsed, Zenon DEF Fits
<1> QED BY <1>1, Zenon DEF Tells

\* So do refresh and watcher.
LEMMA FitReading ==
  ASSUME NEW n, NEW c, NEW t, Fits(n, c)
  PROVE  /\ RefreshAuth(n, c) = AuthData(c)
         /\ Registered(n, c, t).reg /\ Registered(n, c, t).view = AuthData(c)
<1>1. ParseAuth(TRUE, n, c) = AuthData(c)
  BY FitParsed, Zenon
<1>2. RefreshAuth(n, c) = ParseAuth(TRUE, n, c)
  BY OwnParsed, Zenon DEF Fits
<1>3. Registered(n, c, t).reg /\ Registered(n, c, t).view = ParseAuth(TRUE, n, c)
  BY OwnRegistered, Zenon DEF Fits
<1> QED BY <1>1, <1>2, <1>3, Zenon

\* A quiet file that holds the credential is what SuccessIsSettled asks for.
LEMMA QuietIsSettled ==
  ASSUME NEW n, NEW c, Fits(n, c)
  PROVE  Settled(n, c) <=> Quiet(n, c) /\ file[n].content = c
<1>1. ParseAuth(TRUE, n, c) = AuthData(c)
  BY FitParsed, Zenon
<1> QED BY <1>1 DEF Settled, Quiet

\* Part 2a: a file without news for a whole window is quiet or parted.
LEMMA OldIsQuiet ==
  ASSUME HostTypeOK, HostCalm, Calm, NEW n \in Names, NEW c, Fits(n, c),
         NEW s \in Nat, Recent(n, s), s + StableWindow <= now
  PROVE  Quiet(n, c) \/ Parted(n)
<1> USE AuthHostConstants, PatServiceConstants
<1>1. /\ now \in Nat /\ event[n].due \in Nat
      /\ watch[n].due \in Nat /\ refresh[n].due \in Nat
      /\ InSync(n) /\ Timely(n) /\ Reads(n)
  BY DEF HostTypeOK, Events, Jobs, HostCalm
<1>2. ~event[n].on /\ ~watch[n].on
  BY <1>1 DEF Timely, Recent, Calm
<1>3. refresh[n].on => refresh[n].content = file[n].content \/ Apart(n)
  BY <1>1 DEF Timely, Recent, Calm
<1>4. PICK f, t : f = file[n].content /\ t = auth[n].updated
  OBVIOUS
<1>5. CASE auth[n] = Registered(n, f, t)
  <2>1. auth[n].reg => auth[n].storage = f
    BY <1>5, RegisteredFacts
  <2>2. refresh[n].on => refresh[n].content = f
    BY <1>3, <1>4, <2>1 DEF Apart
  <2>3. f = c => auth[n].reg /\ auth[n].view = AuthData(c)
    BY <1>5, FitReading
  <2> QED BY <1>2, <1>4, <2>1, <2>2, <2>3 DEF Quiet
<1>6. CASE SkipUnchanged /\ auth[n].reg /\ auth[n].storage = f
  <2>1. refresh[n].on => refresh[n].content = f
    BY <1>3, <1>4, <1>6 DEF Apart
  <2>2. f = c => auth[n].view = AuthData(c)
    BY <1>1, <1>6 DEF Reads, Tells, Fits
  <2> QED BY <1>2, <1>4, <1>6, <2>1, <2>2 DEF Quiet
<1>7. CASE SkipUnchanged /\ (auth[n].reg => auth[n].storage # f)
  BY <1>2, <1>3, <1>4, <1>7 DEF Parted, Apart
<1> QED BY <1>1, <1>2, <1>4, <1>5, <1>6, <1>7 DEF InSync

\* Part 2b: a quiet file stays so, and keeps its content, until it is written by
\* someone other than the host's own background work.
LEMMA QuietKept ==
  ASSUME HostTypeOK, NEW n \in Names, NEW c, Fits(n, c), Quiet(n, c), LeavesAlone(n)
  PROVE  Quiet(n, c)' /\ file'[n].content = file[n].content
<1> DEFINE Good == Quiet(n, c)' /\ file'[n].content = file[n].content
<1>1. ASSUME file'[n] = file[n], auth'[n] = auth[n], watch'[n] = watch[n],
             refresh'[n] = refresh[n]
      PROVE  Good
  BY <1>1 DEF Quiet
<1>2. ASSUME NEW m \in Names \ {n},
             \/ Background(m) \/ OperatorDelete(m) \/ OperatorWrite(m)
             \/ \E d, t : AuthSave(m, d) \/ ReplaceFile(m, d, t)
      PROVE  Good
  BY <1>1, <1>2, HostElsewhere
<1>3. ASSUME WatchRead(n) PROVE Good
  BY <1>3 DEF WatchRead, HostTypeOK, Quiet
<1>4. ASSUME WatchSkip(n) PROVE Good
  BY <1>1, <1>4 DEF WatchSkip
<1>5. PICK f : f = file[n].content
  OBVIOUS
<1>6. ASSUME UNCHANGED file, NEW t, auth'[n] = Registered(n, f, t), ~watch'[n].on,
             refresh'[n] = refresh[n] \/ ~refresh'[n].on
      PROVE  Good
  <2>1. auth'[n].reg => auth'[n].storage = f
    BY <1>6, RegisteredFacts
  <2>2. f = c => auth'[n].reg /\ auth'[n].view = AuthData(c)
    BY <1>6, FitReading
  <2> QED BY <1>5, <1>6, <2>1, <2>2 DEF Quiet
<1>7. ASSUME WatchApply(n) PROVE Good
  <2>1. /\ auth'[n] = Registered(n, f, now) /\ ~watch'[n].on /\ UNCHANGED <<file, refresh>>
    BY <1>5, <1>7 DEF WatchApply, HostTypeOK, NoJob, Quiet
  <2> QED BY <1>6, <2>1
<1>8. ASSUME RefreshStart(n) PROVE Good
  BY <1>8 DEF RefreshStart, HostTypeOK, Quiet
<1>9. ASSUME RefreshApply(n) PROVE Good
  <2>1. refresh[n].content = f /\ ~refresh'[n].on /\ UNCHANGED watch
    BY <1>5, <1>9 DEF RefreshApply, HostTypeOK, NoJob, Quiet
  <2>2. CASE auth[n].reg
    <3>1. /\ auth'[n].reg /\ auth'[n].storage = f /\ auth'[n].view = RefreshAuth(n, f)
          /\ file'[n].content = f
      BY <1>9, <2>1, <2>2 DEF RefreshApply, WriteFile, HostTypeOK
    <3>2. f = c => auth'[n].view = AuthData(c)
      BY <3>1, FitReading
    <3> QED BY <1>5, <2>1, <3>1, <3>2 DEF Quiet
  <2>3. CASE ~auth[n].reg
    BY <1>9, <2>1, <2>3 DEF RefreshApply, Quiet
  <2> QED BY <2>2, <2>3
<1>10. CASE Tick \/ UNCHANGED hostVars
  BY <1>1, <1>10 DEF Tick, hostVars
<1>11. CASE Restart
  BY <1>5, <1>6, <1>11 DEF Restart, NoJob
<1> HIDE DEF Good
<1>12. ASSUME NEW m \in Names, Background(m) PROVE Good
  <2>1. CASE m = n
    BY <1>3, <1>4, <1>7, <1>8, <1>9, <1>12, <2>1 DEF Background, DueWork
  <2> QED BY <1>2, <1>12, <2>1
<1> QED BY <1>2, <1>10, <1>11, <1>12, Zenon DEF LeavesAlone, Good

\* Part 2c: a parted file keeps its content, unless a refresh or a restart brings
\* record and file together.
LEMMA PartedKept ==
  ASSUME HostTypeOK, NEW n \in Names, NEW c, Fits(n, c), Parted(n), LeavesAlone(n)
  PROVE  Quiet(n, c)' \/ (Parted(n)' /\ file'[n].content = file[n].content)
<1> DEFINE Good == Quiet(n, c)' \/ (Parted(n)' /\ file'[n].content = file[n].content)
<1>1. ASSUME file'[n] = file[n], auth'[n] = auth[n], watch'[n] = watch[n],
             event'[n] = event[n], refresh'[n] = refresh[n]
      PROVE  Good
  BY <1>1 DEF Parted
<1>2. ASSUME NEW m \in Names \ {n},
             \/ Background(m) \/ OperatorDelete(m) \/ OperatorWrite(m)
             \/ \E d, t : AuthSave(m, d) \/ ReplaceFile(m, d, t)
      PROVE  Good
  BY <1>1, <1>2, HostElsewhere
<1>3. ~(WatchRead(n) \/ WatchSkip(n) \/ WatchApply(n))
  BY DEF WatchRead, WatchSkip, WatchApply, Parted
<1>4. ASSUME RefreshStart(n) PROVE Good
  <2>1. /\ UNCHANGED <<file, auth, event, watch>>
        /\ refresh'[n].content = auth[n].storage
    BY <1>4 DEF RefreshStart, HostTypeOK
  <2> QED BY <2>1 DEF Parted
<1>5. ASSUME RefreshApply(n) PROVE Good
  <2>1. refresh[n].on /\ ~refresh'[n].on /\ UNCHANGED watch
    BY <1>5 DEF RefreshApply, HostTypeOK, NoJob
  <2>2. CASE auth[n].reg
    <3>1. PICK f : f = refresh[n].content
      OBVIOUS
    <3>2. /\ auth'[n].reg /\ auth'[n].storage = f /\ auth'[n].view = RefreshAuth(n, f)
          /\ file'[n].content = f
      BY <1>5, <2>2, <3>1 DEF RefreshApply, WriteFile, HostTypeOK
    <3>3. f = c => auth'[n].view = AuthData(c)
      BY <3>2, FitReading
    <3> QED BY <2>1, <3>2, <3>3 DEF Quiet, Parted
  <2>3. CASE ~auth[n].reg
    BY <1>5, <2>1, <2>3 DEF RefreshApply, Parted
  <2> QED BY <2>2, <2>3
<1>6. CASE Tick \/ UNCHANGED hostVars
  BY <1>1, <1>6 DEF Tick, hostVars
<1>7. CASE Restart
  <2>1. PICK f : f = file[n].content
    OBVIOUS
  <2>2. /\ auth'[n] = Registered(n, f, now) /\ UNCHANGED file
        /\ ~watch'[n].on /\ ~refresh'[n].on
    BY <1>7, <2>1 DEF Restart, NoJob
  <2>3. auth'[n].reg => auth'[n].storage = f
    BY <2>2, RegisteredFacts
  <2>4. f = c => auth'[n].reg /\ auth'[n].view = AuthData(c)
    BY <2>2, FitReading
  <2> QED BY <2>1, <2>2, <2>3, <2>4 DEF Quiet
<1> HIDE DEF Good
<1>8. ASSUME NEW m \in Names, Background(m) PROVE Good
  <2>1. CASE m = n
    BY <1>3, <1>4, <1>5, <1>8, <2>1 DEF Background, DueWork
  <2> QED BY <1>2, <1>8, <2>1
<1> QED BY <1>2, <1>6, <1>7, <1>8, Zenon DEF LeavesAlone, Good

-----------------------------------------------------------------------------
(* Part 3: what a request has confirmed.                                   *)

\* The times a request has read are past; the window it confirms is over.
Window(r) ==
  /\ wait[r].mod <= now /\ wait[r].temp <= now
  /\ wait[r].armed => wait[r].stable <= wait[r].since /\ wait[r].since <= now
  /\ pc[r] \in {"confirm", "confirmRead", "confirmRuntime"} =>
       wait[r].armed /\ wait[r].since + StableWindow <= now

\* What the window began with, while the file has the time it began with.
Recently(r) ==
  pc[r] \in Waiting /\ wait[r].armed /\ file[target[r]].mod = wait[r].stable
    => Recent(target[r], wait[r].since)

\* The file holds the final document, or the host, which skips unchanged rewrites,
\* has since put back the record's.
Agreed(n, c) ==
  \/ Quiet(n, c) /\ (file[n].content = c \/ SkipUnchanged)
  \/ Parted(n) /\ file[n].content = c

\* The confirming read found the final document, at the time the window began with.
Found(r) ==
  \/ result[r] \in Saved
  \/ /\ pc[r] = "confirmRuntime" /\ wait[r].phase # "stage"
     /\ wait[r].content /\ wait[r].mod = wait[r].stable

\* What the confirming Lstat, and then the confirming read, have established.
Confirming(r) ==
  ~touched[r] =>
    /\ pc[r] \in {"confirmRead", "confirmRuntime"} /\ wait[r].mod = wait[r].stable
         => Quiet(target[r], cred[r]) \/ Parted(target[r])
    /\ Found(r) => Agreed(target[r], cred[r])

SettleInv ==
  /\ TypeOK /\ LocalsOK /\ Exclusive /\ HostCalm
  /\ \A r \in Requests : Window(r) /\ Recently(r) /\ Confirming(r)

\* A request in the loop has a file, and its credential fits it.
LEMMA BoundFits ==
  ASSUME NEW r, Bound(r)
  PROVE  target[r] \in Names /\ Fits(target[r], cred[r])
<1>1. cred[r].kind = "pat"
  BY DEF Bound, Validate
<1> QED BY <1>1 DEF Bound, Fits, Own

\* A quiet or parted file stays so.
LEMMA CalmKept ==
  ASSUME HostTypeOK, NEW n \in Names, NEW c, Fits(n, c), LeavesAlone(n)
  PROVE  /\ Quiet(n, c) \/ Parted(n) => Quiet(n, c)' \/ Parted(n)'
         /\ Agreed(n, c) => Agreed(n, c)'
<1>1. Quiet(n, c) => Quiet(n, c)' /\ file'[n].content = file[n].content
  BY QuietKept
<1>2. Parted(n) => Quiet(n, c)' \/ (Parted(n)' /\ file'[n].content = file[n].content)
  BY PartedKept
<1>3. Parted(n) => SkipUnchanged
  BY DEF Parted
<1> QED BY <1>1, <1>2, <1>3 DEF Agreed

\* A step that writes no file of request q, or touches it, keeps what q has
\* confirmed.
LEMMA ConfirmingKept ==
  ASSUME TypeOK, LocalsOK, NEW q \in Requests, Confirming(q),
         pc'[q] = pc[q] \/ pc'[q] \notin Waiting, result'[q] \in Saved => result[q] \in Saved,
         wait'[q] = wait[q], cred'[q] = cred[q], target'[q] = target[q],
         ~touched'[q] => ~touched[q] /\ LeavesAlone(target[q])
  PROVE  Confirming(q)'
<1> SUFFICES ASSUME ~touched'[q], \/ pc'[q] \in {"confirmRead", "confirmRuntime"}
                                  \/ result'[q] \in Saved
             PROVE  Confirming(q)'
  BY DEF Confirming, Found
<1>1. pc[q] \in Waiting \/ result[q] \in Saved
  BY DEF Waiting
<1>2. Bound(q)
  BY <1>1 DEF LocalsOK, LocalOK
<1>3. PICK n, c : n = target[q] /\ c = cred[q]
  OBVIOUS
<1>4. n \in Names /\ Fits(n, c) /\ HostTypeOK /\ LeavesAlone(n)
  BY <1>2, <1>3, BoundFits DEF TypeOK
<1>5. /\ Quiet(n, c) \/ Parted(n) => Quiet(n, c)' \/ Parted(n)'
      /\ Agreed(n, c) => Agreed(n, c)'
  BY <1>4, CalmKept
<1>6. pc'[q] \in {"confirmRead", "confirmRuntime"} => pc'[q] = pc[q]
  BY DEF Waiting
<1>7. /\ Quiet(n, c)' \/ Parted(n)' => Quiet(target[q], cred[q])' \/ Parted(target[q])'
      /\ Agreed(n, c)' => Agreed(target[q], cred[q])'
  BY <1>3 DEF Agreed, Quiet, Parted
<1>8. /\ Quiet(target[q], cred[q]) \/ Parted(target[q]) => Quiet(n, c) \/ Parted(n)
      /\ Agreed(target[q], cred[q]) => Agreed(n, c)
  BY <1>3
<1>9. ASSUME pc'[q] \in {"confirmRead", "confirmRuntime"}, wait'[q].mod = wait'[q].stable
      PROVE  Quiet(target[q], cred[q])' \/ Parted(target[q])'
  <2>1. Quiet(target[q], cred[q]) \/ Parted(target[q])
    BY <1>6, <1>9 DEF Confirming
  <2> QED BY <1>5, <1>7, <1>8, <2>1, Zenon
<1>10. ASSUME Found(q)' PROVE Agreed(target[q], cred[q])'
  <2>1. Found(q)
    BY <1>6, <1>10 DEF Found
  <2>2. Agreed(target[q], cred[q])
    BY <2>1, Zenon DEF Confirming
  <2> QED BY <1>5, <1>7, <1>8, <2>2, Zenon
<1> QED BY <1>9, <1>10, Zenon DEF Confirming

\* A step that does not write the request's file under its eyes keeps its window.
LEMMA RecentlyKept ==
  ASSUME HostTypeOK, HostCalm, HostCalm', HostTypeOK',
         NEW q \in Requests, Window(q), Recently(q), wait[q] \in Waits,
         pc'[q] = pc[q] \/ pc'[q] \notin Waiting,
         wait'[q] = wait[q], target'[q] = target[q], pc[q] \in Waiting => target[q] \in Names,
         pc[q] \in Waiting =>
           HostAlone \/ \E m \in Names : OperatorDelete(m) \/ OperatorWrite(m)
  PROVE  Recently(q)'
<1> SUFFICES ASSUME pc'[q] \in Waiting, wait'[q].armed, file'[target'[q]].mod = wait'[q].stable
             PROVE  Recent(target[q], wait[q].since)'
  BY DEF Recently
<1>1. PICK n, s, t : n = target[q] /\ s = wait[q].since /\ t = wait[q].stable
  OBVIOUS
<1>0. Recent(n, s)' => Recent(target[q], wait[q].since)'
  BY <1>1 DEF Recent, Apart
<1>2. /\ n \in Names /\ s \in Nat /\ t \in Nat /\ now \in Nat /\ pc[q] \in Waiting
      /\ t <= s /\ s <= now /\ wait[q].armed /\ file'[n].mod = t
      /\ HostAlone \/ \E m \in Names : OperatorDelete(m) \/ OperatorWrite(m)
  BY <1>1 DEF Window, Waits, HostTypeOK
<1>3. CASE Recent(n, s)
  <2>1. Recent(n, s)' \/ (file'[n].mod = now /\ now' = now)
    BY <1>2, <1>3, RecentKept
  <2>2. CASE file'[n].mod = now /\ now' = now
    <3>1. s = now' /\ Timely(n)'
      BY <1>2, <2>2 DEF HostCalm
    <3>2. refresh'[n].due \in Nat
      BY <1>2 DEF HostTypeOK, Jobs
    <3>3. Recent(n, s)'
      BY <1>2, <2>2, <3>1, <3>2, AuthHostConstants DEF Recent, Timely
    <3> QED BY <1>0, <3>3
  <2> QED BY <1>0, <2>1, <2>2
\* The file had another time before: it was written just now.
<1>4. CASE ~Recent(n, s)
  <2>1. file[n].mod # t
    BY <1>1, <1>2, <1>4 DEF Recently
  <2>2. file'[n].mod = now /\ now' = now
    <3>1. \/ UNCHANGED file
          \/ \E m \in Names : \E c : WriteFile(m, c, now) /\ UNCHANGED now
      BY <1>2 DEF HostAlone, Background, DueWork, WatchRead, WatchSkip, WatchApply,
         RefreshStart, RefreshApply, Tick, Restart, OperatorDelete, OperatorWrite, hostVars
    <3> QED BY <1>2, <2>1, <3>1 DEF WriteFile, HostTypeOK
  <2>3. s = now' /\ Timely(n)' /\ refresh'[n].due \in Nat
    BY <1>2, <2>2 DEF HostCalm, HostTypeOK, Jobs
  <2>4. Recent(n, s)'
    BY <1>2, <2>2, <2>3, AuthHostConstants DEF Recent, Timely
  <2> QED BY <1>0, <2>4
<1> QED BY <1>3, <1>4

\* What the acting request's own step does to its window and its confirmation.
LEMMA OwnStep ==
  ASSUME SettleInv, Calm, NEW r \in Requests, Arrive(r) \/ Step(r)
  PROVE  Window(r)' /\ Recently(r)' /\ Confirming(r)'
<1> USE PatServiceConstants
<1> DEFINE Outside == /\ pc'[r] \notin {"confirm", "confirmRead", "confirmRuntime"}
                      /\ result'[r] \notin Saved
           Same == /\ wait'[r].armed = wait[r].armed /\ wait'[r].stable = wait[r].stable
                   /\ wait'[r].since = wait[r].since
           Good == Window(r)' /\ Recently(r)' /\ Confirming(r)'
<1>0. PICK n, c : n = target[r] /\ c = cred[r]
  OBVIOUS
<1>1. /\ TypeOK /\ LocalsOK /\ HostCalm /\ HostTypeOK
      /\ Window(r) /\ Recently(r) /\ Confirming(r)
      /\ wait \in [Requests -> Waits] /\ wait[r] \in Waits /\ now \in Nat
  BY DEF SettleInv, TypeOK, HostTypeOK
<1>2. now' = now
  BY <1>1, RequestFrame
<1>3. ASSUME Outside PROVE Confirming(r)'
  BY <1>3 DEF Confirming, Found
<1>4. ASSUME ~wait'[r].armed \/ pc'[r] \notin Waiting PROVE Recently(r)'
  BY <1>4 DEF Recently
<1>5. ASSUME Same, pc[r] \in Waiting, UNCHANGED <<hostVars, target>> PROVE Recently(r)'
  <2>1. file[n].mod = wait[r].stable /\ wait[r].armed => Recent(n, wait[r].since)
    BY <1>0, <1>1, <1>5 DEF Recently
  <2> QED BY <1>0, <1>5, <2>1 DEF Recently, Recent, Apart, hostVars
<1>6. "persistence_failed" \in Results \ Saved
  BY DEF Results, Saved
<1>7. ASSUME Return(r, "persistence_failed"), UNCHANGED wait PROVE Good
  <2>1. Outside /\ pc'[r] = "done" /\ "done" \notin Waiting
    BY <1>1, <1>6, <1>7, ReturnTypes DEF Waiting
  <2>2. Window(r)'
    BY <1>1, <1>2, <1>7, <2>1 DEF Window
  <2> QED BY <1>3, <1>4, <2>1, <2>2
<1>8. ASSUME NEW label \in Pcs \ {"confirm", "confirmRead", "confirmRuntime"},
             Goto(r, label), pc[r] # "done"
      PROVE  Outside
  BY <1>1, <1>8, GotoTypes DEF LocalsOK, LocalOK, Saved
<1>9. {"stat", "read", "runtime", "sleep", "timer", "check", "write", "rename"}
        \subseteq Pcs \ {"confirm", "confirmRead", "confirmRuntime"}
  BY DEF Pcs
<1>10. ASSUME Disarm(r), pc[r] # "done" PROVE Good
  <2>1. wait'[r] = Disarmed(wait[r]) /\ Goto(r, "sleep")
    BY <1>1, <1>10 DEF Disarm
  <2>2. wait'[r].mod = wait[r].mod /\ wait'[r].temp = wait[r].temp /\ ~wait'[r].armed
    BY <1>1, <2>1 DEF Disarmed, Waits
  <2>3. Outside
    BY <1>8, <1>9, <1>10, <2>1
  <2>4. Window(r)'
    BY <1>1, <1>2, <2>2, <2>3 DEF Window
  <2> QED BY <1>3, <1>4, <2>2, <2>3, <2>4
<1>11. ASSUME NEW phase, BeginWait(r, phase), pc[r] # "done" PROVE Good
  <2>1. /\ wait'[r] = [NoWait EXCEPT !.phase = phase, !.deadline = now + Timeout]
        /\ Goto(r, "stat")
    BY <1>1, <1>11 DEF BeginWait
  <2>2. wait'[r].mod = 0 /\ wait'[r].temp = 0 /\ ~wait'[r].armed
    BY <2>1 DEF NoWait
  <2>3. Outside
    BY <1>8, <1>9, <1>11, <2>1
  <2>4. Window(r)'
    BY <1>1, <1>2, <2>2, <2>3 DEF Window
  <2> QED BY <1>3, <1>4, <2>2, <2>3, <2>4
<1> HIDE DEF Outside
<1>12. CASE Early(r)
  <2>1. Outside /\ wait'[r] = wait[r] /\ pc'[r] \notin Waiting
    BY <1>1, <1>12, EarlySteps DEF Outside, Waiting
  <2>2. Window(r)'
    BY <1>1, <1>2, <2>1 DEF Window, Outside
  <2> QED BY <1>3, <1>4, <2>1, <2>2
<1>13. CASE Save(r)
  <2>1. \/ Return(r, "persistence_failed") /\ UNCHANGED wait
        \/ BeginWait(r, "stage")
    BY <1>13 DEF Save
  <2>2. pc[r] # "done"
    BY <1>13 DEF Save
  <2> QED BY <1>7, <1>11, <2>1, <2>2
<1>14. ASSUME Loop(r)
       PROVE  /\ pc[r] \in Waiting /\ pc[r] # "done" /\ result[r] = "none"
              /\ UNCHANGED <<cred, target>> /\ n \in Names /\ Fits(n, c)
              /\ file[n].mod \in Nat /\ file[n].mod <= now
  <2>1. pc[r] \in Waiting /\ UNCHANGED <<cred, target>>
    BY <1>1, <1>14, LoopKeeps
  <2>2. Bound(r) /\ pc[r] # "done" /\ result[r] = "none"
    BY <1>1, <2>1 DEF LocalsOK, LocalOK, Waiting
  <2>3. n \in Names /\ Fits(n, c)
    BY <1>0, <2>2, BoundFits
  <2> QED BY <1>1, <2>1, <2>2, <2>3 DEF HostTypeOK, HostCalm, Timely
\* A step outside the confirmation that keeps the window.
<1>15. ASSUME Loop(r), UNCHANGED hostVars, Same, wait'[r].mod <= now, wait'[r].temp <= now,
              NEW label \in {"stat", "read", "runtime", "sleep", "timer", "check", "write",
                             "rename"}, Goto(r, label)
       PROVE  Good
  <2>1. Outside
    BY <1>8, <1>9, <1>14, <1>15
  <2>2. Window(r)'
    BY <1>1, <1>2, <1>15, <2>1 DEF Window, Outside
  <2> QED BY <1>3, <1>5, <1>14, <1>15, <2>1, <2>2
<1>16. CASE AwaitStat(r)
  <2>0. Loop(r) /\ Stat(r, "read") /\ UNCHANGED hostVars
    BY <1>16 DEF AwaitStat, Loop
  <2>1. CASE wait' = [wait EXCEPT ![r].mod = file[n].mod] /\ Goto(r, "read")
    <3>1. wait'[r] = [wait[r] EXCEPT !.mod = file[n].mod]
      BY <1>1, <2>1
    <3>2. /\ wait'[r].mod = file[n].mod /\ wait'[r].temp = wait[r].temp /\ Same
      BY <1>1, <3>1 DEF Waits
    <3> QED BY <1>1, <1>14, <1>15, <2>0, <2>1, <3>2 DEF Window
  <2> QED BY <1>0, <1>7, <2>0, <2>1 DEF Stat
<1>17. CASE AwaitRead(r) \/ RewriteCheck(r) \/ Wake(r)
  <2>0. Loop(r) /\ UNCHANGED hostVars /\ UNCHANGED wait
    BY <1>17 DEF AwaitRead, RewriteCheck, Wake, Loop, localVars
  <2>1. Same /\ wait'[r].mod <= now /\ wait'[r].temp <= now
    BY <1>1, <2>0 DEF Window
  <2>2. \/ Return(r, "persistence_failed")
        \/ \E label \in {"check", "runtime", "write", "stat"} : Goto(r, label)
    BY <1>17 DEF AwaitRead, RewriteCheck, Wake
  <2> QED BY <1>7, <1>15, <2>0, <2>1, <2>2
<1>18. CASE WriteTemporary(r)
  <2>0. Loop(r) /\ UNCHANGED hostVars
    BY <1>18 DEF WriteTemporary, Loop
  <2>1. CASE wait' = [wait EXCEPT ![r].temp = now] /\ Goto(r, "rename")
    <3>1. wait'[r] = [wait[r] EXCEPT !.temp = now]
      BY <1>1, <2>1
    <3>2. /\ wait'[r].mod = wait[r].mod /\ wait'[r].temp = now /\ Same
      BY <1>1, <3>1 DEF Waits
    <3> QED BY <1>1, <1>15, <2>0, <2>1, <3>2 DEF Window
  <2> QED BY <1>7, <1>18, <2>1 DEF WriteTemporary
<1>19. CASE RewriteRename(r)
  <2>1. Loop(r)
    BY <1>19 DEF Loop
  <2>2. \/ Return(r, "persistence_failed") /\ UNCHANGED wait
        \/ BeginWait(r, "final") \/ Disarm(r)
    BY <1>19 DEF RewriteRename
  <2> QED BY <1>7, <1>10, <1>11, <1>14, <2>1, <2>2
<1>20. CASE EndPoll(r)
  <2>0. Loop(r) /\ UNCHANGED hostVars
    BY <1>20 DEF EndPoll, Loop
  <2>1. CASE wait' = [wait EXCEPT ![r].wake = now + PollInterval] /\ Goto(r, "timer")
    <3>1. wait'[r] = [wait[r] EXCEPT !.wake = now + PollInterval]
      BY <1>1, <2>1
    <3>2. wait'[r].mod = wait[r].mod /\ wait'[r].temp = wait[r].temp /\ Same
      BY <1>1, <3>1 DEF Waits
    <3> QED BY <1>1, <1>15, <2>0, <2>1, <3>2 DEF Window
  <2> QED BY <1>7, <1>20, <2>1 DEF EndPoll
\* The window starts now, or started when the same time was read before.
<1>21. CASE AwaitRuntime(r)
  <2>0. Loop(r) /\ UNCHANGED hostVars
    BY <1>21 DEF AwaitRuntime, Loop
  <2>1. CASE Goto(r, "sleep") /\ UNCHANGED wait
    <3>1. Same /\ wait'[r].mod <= now /\ wait'[r].temp <= now
      BY <1>1, <2>1 DEF Window
    <3> QED BY <1>15, <2>0, <2>1, <3>1
  <2>2. CASE Disarm(r)
    BY <1>10, <1>14, <2>0, <2>2
  <2>3. CASE /\ wait' = [wait EXCEPT ![r] = Armed(@)]
             /\ Goto(r, IF Elapsed(Armed(wait[r]).since) THEN "confirm" ELSE "sleep")
    <3> DEFINE w == Armed(wait[r])
    <3>1. wait'[r] = w
      BY <1>1, <2>3
    <3>2. /\ w.armed /\ w.mod = wait[r].mod /\ w.temp = wait[r].temp
          /\ w.stable <= w.since /\ w.since <= now /\ w.since \in Nat
      BY <1>1 DEF Armed, Waits, Window
    <3>3. \/ wait[r].armed /\ w = wait[r]
          \/ w.since = now
      BY <1>1 DEF Armed, Waits
    <3>4. "confirm" \in Pcs /\ "sleep" \in Pcs
      BY DEF Pcs
    <3>5. /\ pc'[r] = IF Elapsed(w.since) THEN "confirm" ELSE "sleep"
          /\ result'[r] = "none"
      BY <1>1, <1>14, <2>0, <2>3, <3>4, GotoTypes
    <3> HIDE DEF w
    <3>6. Window(r)'
      BY <1>1, <1>2, <3>1, <3>2, <3>5 DEF Window, Elapsed
    <3>7. Confirming(r)'
      BY <3>5 DEF Confirming, Found, Saved
    <3>8. Recently(r)'
      <4>1. CASE wait[r].armed /\ w = wait[r]
        BY <1>5, <1>14, <2>0, <3>1, <4>1
      <4>2. CASE w.since = now
        <5>1. Recent(n, w.since)
          BY <1>1, <1>14, <2>0, <4>2, RecentNow
        <5> QED BY <1>0, <1>14, <2>0, <3>1, <5>1 DEF Recently, Recent, Apart, hostVars
      <4> QED BY <3>3, <4>1, <4>2
    <3> QED BY <3>6, <3>7, <3>8
  <2> QED BY <1>21, <2>1, <2>2, <2>3 DEF AwaitRuntime
\* The file the confirming Lstat finds unchanged is older than the host's lags.
<1>22. CASE ConfirmStat(r)
  <2>0. Loop(r) /\ Stat(r, "confirmRead") /\ UNCHANGED hostVars /\ pc[r] = "confirm"
    BY <1>22 DEF ConfirmStat, Loop
  <2>1. CASE wait' = [wait EXCEPT ![r].mod = file[n].mod] /\ Goto(r, "confirmRead")
    <3>1. wait'[r] = [wait[r] EXCEPT !.mod = file[n].mod]
      BY <1>1, <2>1
    <3>2. /\ wait'[r].mod = file[n].mod /\ wait'[r].temp = wait[r].temp /\ Same
      BY <1>1, <3>1 DEF Waits
    <3>3. pc'[r] = "confirmRead" /\ result'[r] = "none"
      BY <1>1, <1>14, <2>0, <2>1, GotoTypes DEF Pcs
    <3>4. /\ wait[r].armed /\ wait[r].since \in Nat
          /\ wait[r].since + StableWindow <= now
      BY <1>1, <2>0 DEF Window, Waits
    <3>5. Window(r)'
      BY <1>1, <1>2, <1>14, <2>0, <3>2, <3>4 DEF Window
    <3>6. file[n].mod = wait[r].stable => Quiet(n, c) \/ Parted(n)
      <4>1. file[n].mod = wait[r].stable => Recent(n, wait[r].since)
        BY <1>0, <1>1, <1>14, <2>0, <3>4 DEF Recently
      <4> QED BY <1>1, <1>14, <2>0, <3>4, <4>1, OldIsQuiet
    <3>7. Quiet(n, c) \/ Parted(n) => Quiet(target[r], cred[r])' \/ Parted(target[r])'
      BY <1>0, <1>14, <2>0 DEF Quiet, Parted, hostVars
    <3>8. Confirming(r)'
      BY <3>2, <3>3, <3>6, <3>7 DEF Confirming, Found, Saved
    <3> QED BY <1>5, <1>14, <2>0, <3>2, <3>5, <3>8
  <2> QED BY <1>0, <1>7, <2>0, <2>1 DEF Stat
<1>23. CASE ConfirmRead(r)
  <2> DEFINE ready == wait[r].phase = "stage" \/ file[n].content = Desired(r)
  <2>0. Loop(r) /\ UNCHANGED <<hostVars, touched>> /\ pc[r] = "confirmRead"
    BY <1>23 DEF ConfirmRead, Loop, ghostVars
  <2>1. CASE wait' = [wait EXCEPT ![r].content = ready] /\ Goto(r, "confirmRuntime")
    <3>1. wait'[r] = [wait[r] EXCEPT !.content = ready]
      BY <1>1, <2>1
    <3>2. /\ wait'[r].mod = wait[r].mod /\ wait'[r].temp = wait[r].temp /\ Same
          /\ wait'[r].content = ready /\ wait'[r].phase = wait[r].phase
      BY <1>1, <3>1 DEF Waits
    <3>3. pc'[r] = "confirmRuntime" /\ result'[r] = "none"
      BY <1>1, <1>14, <2>0, <2>1, GotoTypes DEF Pcs
    <3>4. Window(r)'
      BY <1>1, <1>2, <2>0, <3>2 DEF Window
    <3>5. /\ Quiet(n, c) \/ Parted(n) => Quiet(target[r], cred[r])' \/ Parted(target[r])'
          /\ Agreed(n, c) => Agreed(target[r], cred[r])'
      BY <1>0, <1>14, <2>0 DEF Agreed, Quiet, Parted, hostVars
    <3>6. ~touched[r] /\ wait[r].mod = wait[r].stable => Quiet(n, c) \/ Parted(n)
      BY <1>0, <1>1, <2>0 DEF Confirming
    <3>7. wait'[r].phase # "stage" /\ wait'[r].content => file[n].content = c
      BY <1>0, <3>2 DEF Desired
    <3>8. Confirming(r)'
      <4>1. Found(r)' => file[n].content = c /\ wait[r].mod = wait[r].stable
        BY <3>2, <3>3, <3>7 DEF Found, Saved
      <4>2. Found(r)' /\ ~touched'[r] => Agreed(target[r], cred[r])'
        BY <2>0, <3>5, <3>6, <4>1 DEF Agreed
      <4>3. ~touched'[r] /\ wait'[r].mod = wait'[r].stable
              => Quiet(target[r], cred[r])' \/ Parted(target[r])'
        BY <2>0, <3>2, <3>5, <3>6
      <4> QED BY <4>2, <4>3, Zenon DEF Confirming
    <3> QED BY <1>5, <1>14, <2>0, <3>2, <3>4, <3>8
  <2> QED BY <1>0, <1>7, <1>23, <2>1 DEF ConfirmRead
<1>24. CASE ConfirmRuntime(r)
  <2>0. Loop(r) /\ UNCHANGED <<hostVars, touched>> /\ pc[r] = "confirmRuntime"
    BY <1>24 DEF ConfirmRuntime, Loop, ghostVars
  <2>1. CASE Disarm(r)
    BY <1>10, <1>14, <2>0, <2>1
  <2>2. CASE Goto(r, "check") /\ UNCHANGED wait
    <3>1. Same /\ wait'[r].mod <= now /\ wait'[r].temp <= now
      BY <1>1, <2>2 DEF Window
    <3> QED BY <1>15, <2>0, <2>2, <3>1
  <2>3. CASE Confirmed(r) /\ wait[r].phase # "stage" /\ Return(r, cred[r].state) /\ UNCHANGED wait
    <3>1. Found(r)
      BY <2>0, <2>3 DEF Confirmed, Found
    <3>2. ~touched[r] => Agreed(n, c)
      BY <1>0, <1>1, <3>1, Zenon DEF Confirming
    <3>3. Agreed(n, c) => Agreed(target[r], cred[r])'
      BY <1>0, <1>14, <2>0 DEF Agreed, Quiet, Parted, hostVars
    <3>4. pc'[r] = "done" /\ "done" \notin Waiting
      BY <1>1, <2>3 DEF Return, TypeOK, Waiting
    <3>5. Confirming(r)'
      BY <2>0, <3>2, <3>3, <3>4 DEF Confirming
    <3>6. Window(r)'
      BY <1>1, <1>2, <2>3, <3>4 DEF Window
    <3> QED BY <1>4, <3>4, <3>5, <3>6
  <2> QED BY <1>24, <2>1, <2>2, <2>3 DEF ConfirmRuntime
<1> QED
  BY <1>12, <1>13, <1>16, <1>17, <1>18, <1>19, <1>20, <1>21, <1>22, <1>23, <1>24, Zenon
     DEF Step, Early

\* The initial state satisfies the settling invariant.
LEMMA SettleInit == Init => SettleInv
<1> SUFFICES ASSUME Init PROVE SettleInv
  OBVIOUS
<1>1. TypeOK /\ LocalsOK /\ HostCalm
  BY InitOK, HostInitCalm DEF Init
<1>2. Exclusive
  BY DEF Init, Exclusive, Critical
<1>3. ASSUME NEW r \in Requests PROVE Window(r) /\ Recently(r) /\ Confirming(r)
  <2>1. now = 0 /\ pc[r] = "idle" /\ wait[r] = NoWait /\ result[r] = "none"
    BY DEF Init, HostInit
  <2> QED BY <2>1 DEF Window, Recently, Confirming, Found, NoWait, Saved, Waiting
<1> QED BY <1>1, <1>2, <1>3 DEF SettleInv

\* What the steps of host and operator do to the requests.
LEMMA HostFrame ==
  ASSUME TypeOK, LocalsOK,
         (\E m \in Names : Operator(m) \/ HostWork(m)) \/ Clock \/ Crash \/ UNCHANGED vars
  PROVE  /\ HostAlone \/ \E m \in Names : OperatorDelete(m) \/ OperatorWrite(m)
         /\ now' = now \/ now' = now + 1
         /\ UNCHANGED localVars
         /\ UNCHANGED ctlVars \/ (Crash /\ mutex' = Free)
         /\ \A q \in Requests :
              /\ pc'[q] = pc[q] \/ pc'[q] = "done"
              /\ result'[q] \in Saved => result[q] \in Saved
              /\ ~touched'[q] => ~touched[q] /\ LeavesAlone(target[q])
<1> DEFINE Calls == \A q \in Requests :
                      /\ pc'[q] = pc[q] \/ pc'[q] = "done"
                      /\ result'[q] \in Saved => result[q] \in Saved
           Touch == \A q \in Requests : ~touched'[q] => ~touched[q] /\ LeavesAlone(target[q])
           Time == now' = now \/ now' = now + 1
<1>1. UNCHANGED ctlVars => Calls
  BY DEF ctlVars
<1>2. ASSUME NEW m \in Names, Operator(m)
      PROVE  (OperatorDelete(m) \/ OperatorWrite(m)) /\ Time /\ UNCHANGED <<ctlVars, localVars>> /\ Touch
  <2>1. /\ OperatorDelete(m) \/ OperatorWrite(m)
        /\ TouchBy(m, Free) /\ UNCHANGED <<ctlVars, localVars>>
    BY <1>2 DEF Operator
  <2>2. ASSUME NEW q \in Requests, ~touched'[q] PROVE ~touched[q] /\ LeavesAlone(target[q])
    <3>1. ~touched[q] /\ target[q] # m
      BY <2>1, <2>2, PatServiceConstants DEF TouchBy
    <3> QED BY <2>1, <3>1 DEF LeavesAlone
  <2> QED BY <2>1, <2>2 DEF OperatorDelete, OperatorWrite
<1>3. ASSUME HostAlone, UNCHANGED touched PROVE Touch /\ Time
  <2>1. \A n : LeavesAlone(n)
    BY <1>3 DEF HostAlone, LeavesAlone
  <2>2. Time
    BY <1>3 DEF HostAlone, Background, DueWork, WatchRead, WatchSkip, WatchApply,
       RefreshStart, RefreshApply, Tick, Restart, hostVars
  <2> QED BY <1>3, <2>1, <2>2
<1>4. CASE (\E m \in Names : HostWork(m)) \/ Clock \/ UNCHANGED vars
  <2>1. HostAlone /\ UNCHANGED <<ctlVars, localVars, touched>>
    BY <1>4 DEF HostWork, Clock, vars, HostAlone, ghostVars
  <2> QED BY <1>1, <1>3, <2>1
<1>5. CASE Crash
  <2>1. HostAlone /\ UNCHANGED <<localVars, touched>> /\ mutex' = Free
    BY <1>5 DEF Crash, HostAlone, ghostVars
  <2>2. Calls
    BY <1>5 DEF Crash, Saved
  <2> QED BY <1>3, <1>5, <2>1, <2>2
<1> QED BY <1>1, <1>2, <1>4, <1>5

\* Every step keeps the settling invariant.
LEMMA SettleStep ==
  ASSUME SettleInv, Calm, [Next]_vars
  PROVE  SettleInv'
<1>1. /\ TypeOK /\ LocalsOK /\ Exclusive /\ HostCalm /\ HostTypeOK /\ now \in Nat
      /\ TypeOK' /\ LocalsOK' /\ HostTypeOK'
  BY NextOK DEF SettleInv, TypeOK, HostTypeOK
<1>2. CASE \E r \in Requests : Arrive(r) \/ Step(r)
  <2>1. PICK r \in Requests : Arrive(r) \/ Step(r)
    BY <1>2
  <2>2. HostMoves
    <3>1. wait[r].temp \in Nat /\ wait[r].temp <= now
      BY <1>1 DEF SettleInv, Window, TypeOK, Waits
    <3> QED BY <1>1, <2>1, <3>1, RequestFrame DEF HostMoves, HostAlone
  <2>3. HostCalm' /\ Exclusive'
    BY <1>1, <2>1, <2>2, HostStepCalm, ExclusiveStep
  <2>4. ASSUME NEW q \in Requests, q # r PROVE Window(q)' /\ Recently(q)' /\ Confirming(q)'
    <3>1. /\ now' = now
          /\ pc'[q] = pc[q] /\ result'[q] = result[q] /\ wait'[q] = wait[q]
          /\ cred'[q] = cred[q] /\ target'[q] = target[q]
          /\ ~touched'[q] => ~touched[q] /\ LeavesAlone(target[q])
          /\ Window(q) /\ Recently(q) /\ Confirming(q) /\ wait[q] \in Waits
      BY <1>1, <2>1, <2>4, RequestFrame DEF SettleInv, TypeOK
    <3>2. pc[q] \in Waiting => target[q] \in Names /\ HostAlone
      <4>1. pc[q] \in Waiting => pc[q] \in Critical /\ target[q] \in Names
        BY <1>1 DEF Waiting, Critical, Pcs, LocalsOK, LocalOK, Bound
      <4>2. pc[q] \in Critical => UNCHANGED hostVars
        BY <1>1, <2>1, <2>4, ExclusiveStep
      <4> QED BY <4>1, <4>2 DEF HostAlone
    <3>3. Window(q)'
      BY <3>1 DEF Window
    <3>4. Recently(q)'
      BY <1>1, <2>3, <3>1, <3>2, RecentlyKept
    <3>5. Confirming(q)'
      BY <1>1, <3>1, ConfirmingKept
    <3> QED BY <3>3, <3>4, <3>5
  <2>5. Window(r)' /\ Recently(r)' /\ Confirming(r)'
    BY <2>1, OwnStep
  <2> QED BY <1>1, <2>3, <2>4, <2>5 DEF SettleInv
\* The host's steps: only an operator's write disturbs a quiet file, and it counts
\* as a touch.
<1>3. CASE (\E m \in Names : Operator(m) \/ HostWork(m)) \/ Clock \/ Crash \/ UNCHANGED vars
  <2>1. /\ HostAlone \/ \E m \in Names : OperatorDelete(m) \/ OperatorWrite(m)
        /\ now' = now \/ now' = now + 1
        /\ UNCHANGED localVars
        /\ UNCHANGED ctlVars \/ (Crash /\ mutex' = Free)
    BY <1>1, <1>3, HostFrame
  <2>2. HostCalm'
    BY <1>1, <2>1, HostStepCalm DEF HostMoves
  <2>3. Exclusive'
    BY <1>1, <2>1 DEF Exclusive, Crash, InFlight, ctlVars, Critical
  <2>4. ASSUME NEW q \in Requests PROVE Window(q)' /\ Recently(q)' /\ Confirming(q)'
    <3>1. /\ pc'[q] = pc[q] \/ pc'[q] = "done"
          /\ result'[q] \in Saved => result[q] \in Saved
          /\ ~touched'[q] => ~touched[q] /\ LeavesAlone(target[q])
      BY <1>1, <1>3, HostFrame
    <3>2. /\ wait'[q] = wait[q] /\ cred'[q] = cred[q] /\ target'[q] = target[q]
          /\ Window(q) /\ Recently(q) /\ Confirming(q)
          /\ wait[q] \in Waits /\ StableWindow \in Nat /\ "done" \notin Waiting
      BY <1>1, <2>1, PatServiceConstants DEF SettleInv, TypeOK, localVars, Waiting
    <3>3. Window(q)'
      BY <1>1, <2>1, <3>1, <3>2 DEF Window, Waits
    <3>4. pc[q] \in Waiting => target[q] \in Names
      BY <1>1 DEF LocalsOK, LocalOK, Bound
    <3>5. Recently(q)'
      BY <1>1, <2>1, <2>2, <3>1, <3>2, <3>4, RecentlyKept
    <3>6. Confirming(q)'
      BY <1>1, <3>1, <3>2, ConfirmingKept
    <3> QED BY <3>3, <3>5, <3>6
  <2> QED BY <1>1, <2>2, <2>3, <2>4 DEF SettleInv
<1> QED BY <1>2, <1>3 DEF Next

-----------------------------------------------------------------------------
(* Part 4: on a host that skips unchanged rewrites.  Under one name there is *)
(* never more than one document that can be served: a mutation brings its  *)
(* own only when the staging barrier has shown that record, watcher and    *)
(* refreshes have let go of the one before, and from then on the host can  *)
(* only copy it.  (Nobody but the plugin and the host writes the directory.) *)

\* What can be served under name n is c.
Sole(n, c) == \A d \in Docs(n) : Live(d) => d = c

\* Where no work is under way none has left a document.
Idle(n) ==
  /\ ~watch[n].on => watch[n].content = Absent
  /\ ~refresh[n].on => refresh[n].content = Absent

Single(n) == Idle(n) /\ \E c \in Contents : Sole(n, c)

\* Record and file agree, or will without another write.
Level(n) ==
  \/ auth[n].storage = file[n].content \/ ~auth[n].reg
  \/ watch[n].on \/ (event[n].on /\ file[n].content # seen[n])

\* While the staging barrier is up the file is level, ...
Staged(r) == pc[r] \in Waiting /\ wait[r].phase = "stage" => Level(target[r])

\* ... once it is passed nothing older can be served, ...
Cleared(r) ==
  pc[r] \in {"check", "write", "rename"} \/ (pc[r] \in Waiting /\ wait[r].phase = "final")
    => Sole(target[r], cred[r])

Untouched(r) == pc[r] # "done" => ~touched[r]

\* Nothing under name n can be served but c; if c can, it is all there is.
Kept(n, c) ==
  /\ Sole(n, c) /\ Own(n, file[n].content)
  /\ Live(c) => Quiet(n, c) /\ file[n].content = c

\* ... and so it stays when the mutation has succeeded.
Finished(r) == result[r] \in Saved /\ ~touched[r] => Kept(target[r], cred[r])

LiveInv ==
  /\ SettleInv /\ ProvenanceInv /\ OwnershipInv
  /\ \A n \in Names : Single(n)
  /\ \A r \in Requests : Staged(r) /\ Cleared(r) /\ Untouched(r) /\ Finished(r)

\* No document can be served that is not there.
LEMMA AbsentIsDead == ~Live(Absent)
BY DEF Live, Validate, Absent, Opaque

\* The host's own work leaves at most one document that may be served.
LEMMA HostSole ==
  ASSUME HostTypeOK, HostAlone, NEW n \in Names, NEW c, Sole(n, c)
  PROVE  Sole(n, c)'
<1> SUFFICES ASSUME NEW d \in Docs(n)', Live(d) PROVE d = c
  BY DEF Sole
<1>1. d \in Docs(n) \cup {Absent}
  BY HostDocs DEF HostAlone
<1> QED BY <1>1, AbsentIsDead DEF Sole

\* So does a write of a document that may not be served, or is that one.
LEMMA WriteSole ==
  ASSUME HostTypeOK, NEW m \in Names, NEW e, NEW t, AuthSave(m, e) \/ ReplaceFile(m, e, t),
         NEW n \in Names, NEW c, Sole(n, c), n = m /\ Live(e) => e = c
  PROVE  Sole(n, c)'
<1> SUFFICES ASSUME NEW d \in Docs(n)', Live(d) PROVE d = c
  BY DEF Sole
<1>1. d \in Docs(n) \/ (n = m /\ d = e)
  BY WriteDocs
<1> QED BY <1>1 DEF Sole

\* Work that ends leaves nothing.
LEMMA HostIdle ==
  ASSUME HostTypeOK, NEW n \in Names, Idle(n),
         HostAlone \/ \E m \in Names : \E c, t : AuthSave(m, c) \/ ReplaceFile(m, c, t)
  PROVE  Idle(n)'
<1> USE DEF HostTypeOK
<1>1. CASE \/ (\E m \in Names : WatchSkip(m)) \/ Tick \/ UNCHANGED hostVars
           \/ \E m \in Names : \E c, t : AuthSave(m, c) \/ ReplaceFile(m, c, t)
  <2>1. UNCHANGED <<watch, refresh>>
    BY <1>1 DEF WatchSkip, Tick, hostVars, AuthSave, ReplaceFile
  <2> QED BY <2>1 DEF Idle
<1>2. CASE \E m \in Names : WatchRead(m) \/ WatchApply(m)
  <2>1. watch'[n] = watch[n] \/ watch'[n].on \/ watch'[n] = NoJob
    BY <1>2 DEF WatchRead, WatchApply
  <2> QED BY <1>2, <2>1 DEF Idle, NoJob, WatchRead, WatchApply
<1>3. CASE \E m \in Names : RefreshStart(m) \/ RefreshApply(m)
  <2>1. refresh'[n] = refresh[n] \/ refresh'[n].on \/ refresh'[n] = NoJob
    BY <1>3 DEF RefreshStart, RefreshApply
  <2> QED BY <1>3, <2>1 DEF Idle, NoJob, RefreshStart, RefreshApply
<1>4. CASE Restart
  BY <1>4 DEF Restart, Idle, NoJob
<1> QED BY <1>1, <1>2, <1>3, <1>4 DEF HostAlone, Background, DueWork

\* The watcher brings a level file and its record together.
LEMMA HostLevel ==
  ASSUME HostTypeOK, HostAlone, NEW n \in Names, InSync(n), Level(n)
  PROVE  Level(n)'
<1> DEFINE Good == Level(n)'
<1>1. ASSUME file'[n] = file[n], auth'[n] = auth[n], watch'[n] = watch[n],
             event'[n] = event[n], seen'[n] = seen[n]
      PROVE  Good
  BY <1>1 DEF Level
<1>2. PICK f : f = file[n].content
  OBVIOUS
<1>3. ASSUME NEW t, auth'[n] = Registered(n, f, t), UNCHANGED file PROVE Good
  <2>1. auth'[n].reg => auth'[n].storage = f
    BY <1>3, RegisteredFacts
  <2> QED BY <1>2, <1>3, <2>1 DEF Level
<1>4. ASSUME WatchRead(n) PROVE Good
  BY <1>4 DEF WatchRead, HostTypeOK, Level
<1>5. ASSUME WatchSkip(n) PROVE Good
  <2>1. /\ ~watch[n].on /\ file[n].content = seen[n] /\ UNCHANGED <<file, auth, watch, seen>>
    BY <1>5 DEF WatchSkip
  <2> QED BY <2>1 DEF Level
<1>6. ASSUME WatchApply(n) PROVE Good
  <2>1. /\ watch[n].on /\ watch[n].content = seen[n]
        /\ ~event[n].on => watch[n].content = f
        /\ auth'[n] = Registered(n, watch[n].content, now)
        /\ UNCHANGED <<file, event, seen>>
    BY <1>2, <1>6 DEF WatchApply, HostTypeOK, InSync
  <2>2. CASE watch[n].content = f
    BY <1>3, <2>1, <2>2
  <2>3. CASE watch[n].content # f
    BY <1>2, <2>1, <2>3 DEF Level
  <2> QED BY <2>2, <2>3
<1>7. ASSUME RefreshStart(n) PROVE Good
  BY <1>1, <1>7 DEF RefreshStart
<1>8. ASSUME RefreshApply(n) PROVE Good
  <2>1. CASE auth[n].reg
    BY <1>8, <2>1 DEF RefreshApply, WriteFile, HostTypeOK, Level
  <2>2. CASE ~auth[n].reg
    BY <1>8, <2>2 DEF RefreshApply, Level
  <2> QED BY <2>1, <2>2
<1>9. CASE Tick \/ UNCHANGED hostVars
  BY <1>1, <1>9 DEF Tick, hostVars
<1>10. CASE Restart
  BY <1>2, <1>3, <1>10 DEF Restart
<1>11. ASSUME NEW m \in Names, Background(m) PROVE Good
  <2>1. CASE m = n
    BY <1>4, <1>5, <1>6, <1>7, <1>8, <1>11, <2>1 DEF Background, DueWork
  <2>2. CASE m # n
    BY <1>1, <1>11, <2>2, HostElsewhere
  <2> QED BY <2>1, <2>2
<1> HIDE DEF Good
<1> QED BY <1>9, <1>10, <1>11, Zenon DEF HostAlone, Good

\* A level file whose record is registered is not parted.
LEMMA LevelIsWhole ==
  ASSUME NEW n, Level(n), auth[n].reg
  PROVE  ~Parted(n)
BY DEF Level, Parted

\* The staging document may not be served.
LEMMA StagingIsDead ==
  ASSUME TypeOK, NEW r \in Requests
  PROVE  Staging(r) \in Contents /\ Staging(r).disabled /\ ~Live(Staging(r))
<1>1. cred[r] \in Contents
  BY DEF TypeOK
<1> QED BY <1>1, StagingFields DEF Staging, Live

\* A request's step writes its staging document when it saves, its final one when
\* it renames, and nothing else.
LEMMA RequestDocs ==
  ASSUME TypeOK, LocalsOK, NEW r \in Requests, Arrive(r) \/ Step(r)
  PROVE  \/ UNCHANGED hostVars
         \/ /\ Save(r) /\ pc[r] = "inspect"
            /\ \E m \in Names : AuthSave(m, Staging(r)) /\ target'[r] = m
         \/ /\ RewriteRename(r) /\ pc[r] = "rename" /\ target[r] \in Names
            /\ ReplaceFile(target[r], cred[r], wait[r].temp)
<1>1. CASE Save(r)
  <2>1. /\ pc[r] = "inspect"
        /\ \/ UNCHANGED hostVars
           \/ \E m \in Resolved(r) : AuthSave(m, Staging(r)) /\ target'[r] = m
    BY <1>1 DEF Save, TypeOK
  <2>2. Resolved(r) \subseteq Names
    BY <2>1, ResolvedOwned DEF LocalsOK, LocalOK
  <2> QED BY <1>1, <2>1, <2>2
<1>2. CASE RewriteRename(r)
  <2>1. /\ pc[r] = "rename"
        /\ UNCHANGED hostVars \/ ReplaceFile(target[r], cred[r], wait[r].temp)
    BY <1>2 DEF RewriteRename, Desired
  <2>2. target[r] \in Names
    BY <2>1 DEF LocalsOK, LocalOK, Waiting, Bound
  <2> QED BY <1>2, <2>1, <2>2
<1>3. CASE Early(r) \/ (Loop(r) /\ ~RewriteRename(r))
  BY <1>3, EarlySteps DEF Loop, AwaitStat, AwaitRead, AwaitRuntime, ConfirmStat,
     ConfirmRead, ConfirmRuntime, RewriteCheck, WriteTemporary, EndPoll, Wake
<1> QED BY <1>1, <1>2, <1>3 DEF Step, Early, Loop


\* A record that is on serves a document that may be served.
LEMMA OnServes ==
  ASSUME NEW n, Followed(n), Reads(n), Own(n, file[n].content)
  PROVE  /\ auth[n].reg /\ Own(n, auth[n].storage)
         /\ ~auth[n].view.disabled <=> Live(auth[n].storage)
         /\ Live(auth[n].storage) => auth[n].view = AuthData(auth[n].storage)
<1>1. auth[n].reg /\ Own(n, auth[n].storage)
  BY DEF Followed
<1>2. Tells(auth[n].storage, auth[n].view)
  BY <1>1 DEF Reads
<1>3. AuthData(auth[n].storage).disabled = auth[n].storage.disabled
  BY DEF AuthData
<1> QED BY <1>1, <1>2, <1>3 DEF Tells, Live

\* When the staging barrier is passed, record, watcher and refresh hold what the
\* file holds, and the record is switched off: so nothing there may be served.
LEMMA BarrierClears ==
  ASSUME LiveInv, NEW r \in Requests, pc[r] = "confirmRuntime", Confirmed(r),
         wait[r].phase = "stage", ~touched[r]
  PROVE  Sole(target[r], cred[r])
<1>1. /\ SettleInv /\ OwnershipInv /\ pc[r] \in Waiting /\ Staged(r) /\ Confirming(r)
  BY DEF LiveInv, SettleInv, Waiting
<1>2. PICK n, c : n = target[r] /\ c = cred[r]
  OBVIOUS
<1>3. n \in Names /\ Own(n, file[n].content) /\ Followed(n) /\ Reads(n) /\ Idle(n)
  BY <1>1, <1>2 DEF OwnershipInv, LocalsOK, LocalOK, Bound, Holds, LiveInv, SettleInv, HostCalm, Single
<1>4. auth[n].reg /\ auth[n].view.disabled /\ wait[r].mod = wait[r].stable
  BY <1>2 DEF Confirmed, runtimeReady
<1>5. Quiet(n, c) \/ Parted(n)
  BY <1>1, <1>2, <1>4 DEF Confirming
<1>6. Quiet(n, c)
  BY <1>1, <1>2, <1>4, <1>5, LevelIsWhole DEF Staged
<1>7. /\ auth[n].storage = file[n].content
      /\ watch[n].on => watch[n].content = file[n].content
      /\ refresh[n].on => refresh[n].content = file[n].content
  BY <1>4, <1>6 DEF Quiet
<1>8. ~Live(file[n].content)
  BY <1>3, <1>4, <1>7, OnServes
<1>9. ASSUME NEW d \in Docs(n) PROVE ~Live(d)
  BY <1>3, <1>7, <1>8, AbsentIsDead DEF Docs, Idle
<1> QED BY <1>2, <1>9 DEF Sole

\* When the final document is confirmed, an active record serves it.
LEMMA SuccessServes ==
  ASSUME LiveInv, NEW r \in Requests, pc[r] = "confirmRuntime", Confirmed(r),
         wait[r].phase # "stage", ~touched[r]
  PROVE  Kept(target[r], cred[r])
<1>1. /\ SettleInv /\ OwnershipInv /\ pc[r] \in Waiting /\ Confirming(r) /\ Cleared(r) /\ Origin(r)
  BY DEF LiveInv, SettleInv, Waiting, ProvenanceInv
<1>2. PICK n, c : n = target[r] /\ c = cred[r]
  OBVIOUS
<1>3. n \in Names /\ Own(n, file[n].content) /\ Followed(n) /\ Reads(n) /\ Validate(c)
  BY <1>1, <1>2 DEF OwnershipInv, LocalsOK, LocalOK, Bound, Holds, LiveInv, SettleInv, HostCalm
<1>4. Sole(n, c)
  BY <1>1, <1>2 DEF Cleared, Origin
<1>5. Agreed(n, c)
  <2>1. Found(r)
    BY DEF Confirmed, Found
  <2> QED BY <1>1, <1>2, <2>1 DEF Confirming
<1>6. ASSUME Live(c) PROVE Quiet(n, c) /\ file[n].content = c
  <2>1. ~cred[r].disabled
    BY <1>2, <1>6 DEF Live
  <2>2. ~auth[n].view.disabled
    BY <1>2, <2>1 DEF Confirmed, runtimeReady
  <2>3. auth[n].reg /\ Live(auth[n].storage)
    BY <1>3, <2>2, OnServes
  <2>4. auth[n].storage = c
    BY <1>4, <2>3 DEF Sole, Docs
  <2> QED BY <1>5, <2>3, <2>4 DEF Agreed, Quiet, Parted
<1> QED BY <1>2, <1>3, <1>4, <1>6 DEF Kept

\* What is kept stays, whoever else is at work.
LEMMA KeptKept ==
  ASSUME HostTypeOK, NEW n \in Names, NEW c, Fits(n, c), Followed(n), Kept(n, c), LeavesAlone(n)
  PROVE  Kept(n, c)'
<1>1. Live(c) => Quiet(n, c)' /\ file'[n].content = c
  BY QuietKept DEF Kept
<1>2. Sole(n, c)' /\ Own(n, file'[n].content)
  <2>1. CASE HostAlone
    <3>1. Sole(n, c)'
      BY <2>1, HostSole DEF Kept
    <3>2. Stays(n)
      BY <2>1, HostFollows DEF HostAlone
    <3> QED BY <3>1, <3>2 DEF Stays, Kept
  <2>2. ASSUME NEW m \in Names \ {n},
               \/ Background(m) \/ OperatorDelete(m) \/ OperatorWrite(m)
               \/ \E d, t : AuthSave(m, d) \/ ReplaceFile(m, d, t)
        PROVE  Sole(n, c)' /\ Own(n, file'[n].content)
    <3>1. file'[n] = file[n] /\ auth'[n] = auth[n] /\ watch'[n] = watch[n] /\ refresh'[n] = refresh[n]
      BY <2>2, HostElsewhere
    <3> QED BY <3>1 DEF Kept, Sole, Docs
  <2> QED BY <2>1, <2>2 DEF LeavesAlone, HostAlone
<1> QED BY <1>1, <1>2 DEF Kept

\* A request answers success only where its final document is confirmed.
LEMMA SavedOnly ==
  ASSUME TypeOK, LocalsOK, NEW r \in Requests, Arrive(r) \/ Step(r), result'[r] \in Saved
  PROVE  /\ pc[r] = "confirmRuntime" /\ Confirmed(r) /\ wait[r].phase # "stage"
         /\ UNCHANGED <<hostVars, touched, target, cred>>
<1>1. ASSUME NEW res, Return(r, res), res \notin Saved PROVE FALSE
  BY <1>1 DEF Return, TypeOK
<1>2. ASSUME NEW label, Goto(r, label), pc[r] # "done" PROVE FALSE
  BY <1>2 DEF Goto, LocalsOK, LocalOK, Saved
<1>3. "persistence_failed" \notin Saved
  BY DEF Saved
<1>4. CASE Early(r)
  BY <1>4, EarlySteps
<1>5. CASE Save(r)
  BY <1>1, <1>2, <1>3, <1>5 DEF Save, BeginWait
<1>6. CASE Loop(r)
  <2>1. pc[r] # "done"
    BY <1>6, LoopKeeps DEF Waiting
  <2>2. CASE ConfirmRuntime(r)
    <3>1. ~Disarm(r) /\ ~Goto(r, "check")
      BY <1>2, <2>1 DEF Disarm
    <3> QED BY <2>2, <3>1 DEF ConfirmRuntime, ghostVars
  <2>3. CASE AwaitStat(r) \/ ConfirmStat(r) \/ ConfirmRead(r)
    BY <1>1, <1>2, <1>3, <2>1, <2>3 DEF AwaitStat, ConfirmStat, Stat, ConfirmRead
  <2>4. CASE AwaitRead(r) \/ AwaitRuntime(r)
    BY <1>1, <1>2, <1>3, <2>1, <2>4 DEF AwaitRead, AwaitRuntime, Disarm
  <2>5. CASE RewriteCheck(r) \/ WriteTemporary(r) \/ RewriteRename(r)
    BY <1>1, <1>2, <1>3, <2>1, <2>5 DEF RewriteCheck, WriteTemporary, RewriteRename, BeginWait, Disarm
  <2>6. CASE EndPoll(r) \/ Wake(r)
    BY <1>1, <1>2, <1>3, <2>1, <2>6 DEF EndPoll, Wake
  <2> QED BY <1>6, <2>2, <2>3, <2>4, <2>5, <2>6 DEF Loop
<1> QED BY <1>4, <1>5, <1>6 DEF Step, Early, Loop

\* What a request's step does to the documents under each name.
LEMMA RequestSole ==
  ASSUME LiveInv, NEW r \in Requests, Arrive(r) \/ Step(r), NEW n \in Names
  PROVE  Single(n)'
<1>1. /\ TypeOK /\ LocalsOK /\ HostTypeOK /\ Idle(n)
  BY DEF LiveInv, SettleInv, TypeOK, Single
<1>2. PICK c \in Contents : Sole(n, c)
  BY DEF LiveInv, Single
<1>3. CASE UNCHANGED hostVars
  <2>1. HostAlone
    BY <1>3 DEF HostAlone
  <2> QED BY <1>1, <1>2, <2>1, HostSole, HostIdle DEF Single
<1>4. ASSUME NEW m \in Names, AuthSave(m, Staging(r)) PROVE Single(n)'
  <2>1. PICK s : s = Staging(r)
    OBVIOUS
  <2>2. AuthSave(m, s) /\ ~Live(s)
    BY <1>1, <1>4, <2>1, StagingIsDead
  <2>3. Sole(n, c)'
    BY <1>1, <1>2, <2>2, WriteSole
  <2> QED BY <1>1, <2>2, <2>3, HostIdle DEF Single
<1>5. ASSUME pc[r] = "rename", target[r] \in Names, ReplaceFile(target[r], cred[r], wait[r].temp)
      PROVE  Single(n)'
  <2>1. PICK m \in Names, e \in Contents, t \in Nat : m = target[r] /\ e = cred[r] /\ t = wait[r].temp
    BY <1>1, <1>5 DEF TypeOK, Waits
  <2>2. ReplaceFile(m, e, t) /\ Sole(m, e)
    BY <1>5, <2>1 DEF LiveInv, Cleared
  <2>3. Idle(n)'
    BY <1>1, <2>2, HostIdle
  <2>4. Sole(n, e)' \/ Sole(n, c)'
    BY <1>1, <1>2, <2>2, WriteSole
  <2> QED BY <2>1, <2>3, <2>4 DEF Single
<1> QED BY <1>1, <1>3, <1>4, <1>5, RequestDocs

\* Only a save or a rename of another mutation, of the same file, touches.
LEMMA TouchedBy ==
  ASSUME TypeOK, LocalsOK, NEW r \in Requests, Arrive(r) \/ Step(r),
         NEW q \in Requests, touched'[q], ~touched[q]
  PROVE  q # r /\ pc[r] \in {"inspect", "rename"} /\ target[q] \in Names
<1>1. ASSUME NEW n \in Names, TouchBy(n, r) PROVE q # r /\ target[q] \in Names
  <2>1. touched'[q] = (touched[q] \/ (q # r /\ target[q] = n))
    BY <1>1, Zenon DEF TouchBy
  <2> QED BY <1>1, <2>1
<1>2. CASE Save(r)
  <2>1. pc[r] = "inspect" /\ (UNCHANGED touched \/ \E n \in Resolved(r) : TouchBy(n, r))
    BY <1>2 DEF Save
  <2>2. Resolved(r) \subseteq Names
    BY <2>1, ResolvedOwned DEF LocalsOK, LocalOK
  <2> QED BY <1>1, <2>1, <2>2
<1>3. CASE RewriteRename(r)
  <2>1. pc[r] = "rename" /\ (UNCHANGED touched \/ TouchBy(target[r], r))
    BY <1>3 DEF RewriteRename
  <2>2. target[r] \in Names
    BY <2>1 DEF LocalsOK, LocalOK, Waiting, Bound
  <2> QED BY <1>1, <2>1, <2>2
<1>4. CASE ConfirmStat(r)
  <2>1. touched' = [touched EXCEPT ![r] = FALSE] /\ touched \in [Requests -> BOOLEAN]
    BY <1>4 DEF ConfirmStat, Look, TypeOK
  <2>2. touched'[q] = IF q = r THEN FALSE ELSE touched[q]
    BY <2>1, Zenon
  <2> QED BY <2>2
<1>5. CASE Early(r) \/ (Loop(r) /\ ~RewriteRename(r) /\ ~ConfirmStat(r))
  <2>1. UNCHANGED touched
    BY <1>5, EarlySteps DEF Loop, AwaitStat, AwaitRead, AwaitRuntime,
       ConfirmRead, ConfirmRuntime, RewriteCheck, WriteTemporary, EndPoll, Wake, ghostVars
  <2> QED BY <2>1
<1> QED BY <1>2, <1>3, <1>4, <1>5 DEF Step, Early, Loop

\* A request's step keeps what the others have reached.
LEMMA OthersStayLive ==
  ASSUME LiveInv, NEW r \in Requests, Arrive(r) \/ Step(r), NEW q \in Requests, q # r
  PROVE  Staged(q)' /\ Cleared(q)' /\ Untouched(q)' /\ Finished(q)'
<1>1. /\ TypeOK /\ LocalsOK /\ HostTypeOK /\ Exclusive /\ Origin(q) /\ HostCalm
      /\ Staged(q) /\ Cleared(q) /\ Untouched(q) /\ Finished(q)
  BY DEF LiveInv, SettleInv, TypeOK, OwnershipInv, ProvenanceInv
<1>2. /\ pc'[q] = pc[q] /\ result'[q] = result[q] /\ wait'[q] = wait[q]
      /\ cred'[q] = cred[q] /\ target'[q] = target[q]
      /\ ~touched'[q] => ~touched[q] /\ LeavesAlone(target[q])
  BY <1>1, RequestFrame
<1>3. pc[q] \in Critical => pc[r] \notin Critical /\ UNCHANGED hostVars
  BY <1>1, ExclusiveStep
<1>4. PICK n, c : n = target[q] /\ c = cred[q]
  OBVIOUS
<1>5. pc[q] \in Waiting \/ result[q] \in Saved => n \in Names /\ Fits(n, c)
  BY <1>1, <1>4, BoundFits DEF LocalsOK, LocalOK
<1>6. pc[q] \in {"check", "write", "rename"} => pc[q] \in Waiting
  BY DEF Waiting
<1>7. pc[q] \in Waiting => pc[q] \in Critical
  BY DEF Waiting, Critical, Pcs
<1>8. Staged(q)'
  <2> SUFFICES ASSUME pc[q] \in Waiting, wait[q].phase = "stage" PROVE Level(target[q])'
    BY <1>2 DEF Staged
  <2>1. Level(n) /\ UNCHANGED hostVars
    BY <1>1, <1>3, <1>4, <1>7 DEF Staged
  <2> QED BY <1>2, <1>4, <2>1 DEF Level, hostVars
<1>9. Cleared(q)'
  <2> SUFFICES ASSUME \/ pc[q] \in {"check", "write", "rename"}
                      \/ pc[q] \in Waiting /\ wait[q].phase = "final"
               PROVE  Sole(target[q], cred[q])'
    BY <1>2 DEF Cleared
  <2>1. Sole(n, c) /\ UNCHANGED hostVars
    BY <1>1, <1>3, <1>4, <1>6, <1>7 DEF Cleared
  <2> QED BY <1>2, <1>4, <2>1 DEF Sole, Docs, hostVars
<1>10. Untouched(q)'
  <2> SUFFICES ASSUME pc[q] # "done", touched'[q], ~touched[q] PROVE FALSE
    BY <1>1, <1>2 DEF Untouched
  <2>1. pc[r] \in {"inspect", "rename"} /\ target[q] \in Names
    BY <1>1, TouchedBy
  <2>2. pc[r] \in Critical
    BY <2>1 DEF Critical, Pcs
  <2>3. pc[q] \in Waiting
    BY <1>1, <2>1, PatServiceConstants DEF Origin
  <2> QED BY <1>3, <1>7, <2>2, <2>3
<1>11. Finished(q)'
  <2> SUFFICES ASSUME result[q] \in Saved, ~touched'[q] PROVE Kept(target[q], cred[q])'
    BY <1>2 DEF Finished
  <2>1. n \in Names /\ Fits(n, c) /\ Kept(n, c) /\ LeavesAlone(n) /\ Followed(n)
    BY <1>1, <1>2, <1>4, <1>5 DEF Finished, LiveInv, OwnershipInv
  <2>2. Kept(n, c)'
    BY <1>1, <2>1, KeptKept
  <2> QED BY <1>2, <1>4, <2>2 DEF Kept, Sole, Docs, Quiet
<1> QED BY <1>8, <1>9, <1>10, <1>11

\* A request's own step: its save makes the file level, it reaches the rewrite
\* through the barrier, or from a final phase it was in before.
LEMMA OwnStepLive ==
  ASSUME LiveInv, NEW r \in Requests, Arrive(r) \/ Step(r)
  PROVE  Staged(r)' /\ Cleared(r)' /\ Untouched(r)' /\ Finished(r)'
<1>1. /\ TypeOK /\ LocalsOK /\ HostTypeOK
      /\ Staged(r) /\ Cleared(r) /\ Untouched(r) /\ Finished(r)
      /\ pc \in [Requests -> Pcs] /\ wait \in [Requests -> Waits]
  BY DEF LiveInv, SettleInv, TypeOK
<1>2. Untouched(r)'
  <2>1. pc[r] # "done"
    BY DEF Arrive, Step, Lock, Import, GetSaved, Revalidate, List, Inspect, Save,
       AwaitStat, AwaitRead, AwaitRuntime, ConfirmStat, ConfirmRead, ConfirmRuntime,
       RewriteCheck, WriteTemporary, RewriteRename, EndPoll, Wake
  <2>2. touched'[r] => touched[r]
    BY <1>1, TouchedBy
  <2> QED BY <1>1, <2>1, <2>2 DEF Untouched
<1>3. Finished(r)'
  <2> SUFFICES ASSUME result'[r] \in Saved, ~touched'[r] PROVE Kept(target[r], cred[r])'
    BY DEF Finished
  <2>1. /\ pc[r] = "confirmRuntime" /\ Confirmed(r) /\ wait[r].phase # "stage"
        /\ UNCHANGED <<hostVars, touched, target, cred>>
    BY <1>1, SavedOnly
  <2>2. Kept(target[r], cred[r])
    BY <2>1, SuccessServes
  <2> QED BY <2>1, <2>2 DEF Kept, Sole, Docs, Quiet, hostVars
<1> SUFFICES Staged(r)' /\ Cleared(r)'
  BY <1>2, <1>3
<1> DEFINE Good == Staged(r)' /\ Cleared(r)'
<1>4. PICK n, c : n = target[r] /\ c = cred[r]
  OBVIOUS
<1>5. ASSUME target'[r] = n, cred'[r] = c, wait'[r].phase # "stage",
             Sole(n, c)' \/ (Sole(n, c) /\ UNCHANGED hostVars)
      PROVE  Good
  <2>1. Sole(n, c)'
    BY <1>5 DEF Sole, Docs, hostVars
  <2>2. Sole(target[r], cred[r])'
    BY <1>5, <2>1 DEF Sole, Docs
  <2> QED BY <1>5, <2>2 DEF Staged, Cleared
<1>6. ASSUME pc'[r] \notin Waiting PROVE Good
  BY <1>6 DEF Staged, Cleared, Waiting
<1>7. CASE Early(r)
  BY <1>1, <1>6, <1>7, EarlySteps
<1>8. CASE Save(r)
  <2>1. ASSUME NEW res, Return(r, res) PROVE pc'[r] \notin Waiting
    BY <1>1, <2>1 DEF Return, Waiting
  <2>2. ASSUME NEW m \in Resolved(r), AuthSave(m, Staging(r)), target'[r] = m, BeginWait(r, "stage")
        PROVE  Good
    <3>1. /\ wait'[r] = [NoWait EXCEPT !.phase = "stage", !.deadline = now + Timeout]
          /\ pc'[r] = "stat"
      BY <1>1, <2>2 DEF BeginWait, Goto
    <3>2. wait'[r].phase = "stage"
      BY <3>1 DEF NoWait
    <3>3. m \in Names
      <4>1. pc[r] = "inspect"
        BY <1>8 DEF Save
      <4> QED BY <1>1, <2>2, <4>1, ResolvedOwned DEF LocalsOK, LocalOK
    <3>4. auth'[m].storage = file'[m].content
      BY <1>1, <2>2, <3>3 DEF AuthSave, WriteFile, HostTypeOK
    <3> QED BY <2>2, <3>1, <3>2, <3>4 DEF Staged, Cleared, Level
  <2>3. target \in [Requests -> Names \cup {NoName}]
    BY <1>1 DEF TypeOK
  <2> HIDE DEF Good
  <2>4. CASE \E res : Return(r, res)
    BY <1>6, <2>1, <2>4 DEF Good
  <2>5. CASE ~\E res : Return(r, res)
    <3>1. PICK m \in Resolved(r) :
            /\ AuthSave(m, Staging(r)) /\ target' = [target EXCEPT ![r] = m]
            /\ BeginWait(r, "stage")
      BY <1>8, <2>5 DEF Save
    <3>2. target'[r] = m
      BY <2>3, <3>1
    <3> QED BY <2>2, <3>1, <3>2 DEF Good
  <2> QED BY <2>4, <2>5
<1>9. CASE Loop(r)
  <2>1. /\ pc[r] \in Waiting /\ target'[r] = n /\ cred'[r] = c
        /\ \/ wait'[r].phase = wait[r].phase
           \/ RewriteRename(r) /\ wait[r].phase = "stage" /\ wait'[r].phase = "final"
    BY <1>1, <1>4, <1>9, LoopKeeps
  <2>2. n \in Names /\ wait[r].phase \in {"stage", "final"}
    BY <1>4, <2>1 DEF LiveInv, ProvenanceInv, Origin, LocalsOK, LocalOK, Bound
  <2>3. CASE RewriteRename(r)
    <3>1. pc[r] = "rename"
      BY <2>3 DEF RewriteRename
    <3>2. Sole(n, c)
      BY <1>1, <1>4, <3>1 DEF Cleared
    <3>3. CASE Return(r, "persistence_failed")
      BY <1>1, <1>6, <3>3 DEF Return, Waiting
    <3>4. CASE ~Return(r, "persistence_failed")
      <4>1. PICK t : t = wait[r].temp
        OBVIOUS
      <4>2. ReplaceFile(n, c, t) /\ (IF wait[r].phase = "stage" THEN BeginWait(r, "final") ELSE Disarm(r))
        BY <1>4, <2>3, <3>4, <4>1 DEF RewriteRename, Desired
      <4>3. Sole(n, c)'
        BY <1>1, <2>2, <3>2, <4>2, WriteSole
      <4>4. wait'[r].phase = "final"
        <5>1. CASE wait[r].phase = "stage"
          <6>1. wait'[r] = [NoWait EXCEPT !.phase = "final", !.deadline = now + Timeout]
            BY <1>1, <4>2, <5>1 DEF BeginWait
          <6> QED BY <6>1 DEF NoWait
        <5>2. CASE wait[r].phase # "stage"
          BY <2>1, <2>2, <5>2
        <5> QED BY <5>1, <5>2
      <4> QED BY <1>5, <2>1, <4>3, <4>4
    <3> QED BY <3>3, <3>4
  <2>4. CASE ~RewriteRename(r)
    <3>1. UNCHANGED hostVars
      BY <1>9, <2>4 DEF Loop, AwaitStat, AwaitRead, AwaitRuntime, ConfirmStat, ConfirmRead,
         ConfirmRuntime, RewriteCheck, WriteTemporary, EndPoll, Wake
    <3>2. Staged(r)'
      <4>1. pc'[r] \in Waiting /\ wait'[r].phase = "stage" => Level(n)
        BY <1>1, <1>4, <2>1, <2>4 DEF Staged
      <4>2. Level(n) => Level(target[r])'
        BY <2>1, <3>1 DEF Level, hostVars
      <4> QED BY <4>1, <4>2 DEF Staged
    <3>3. Sole(n, c) => Sole(target[r], cred[r])'
      BY <2>1, <3>1 DEF Sole, Docs, hostVars
    <3>4. CASE Sole(n, c)
      BY <3>2, <3>3, <3>4 DEF Cleared
    <3>5. CASE ~Sole(n, c)
      <4>1. pc[r] \notin {"check", "write", "rename"} /\ wait[r].phase = "stage"
        BY <1>1, <1>4, <2>1, <2>2, <3>5 DEF Cleared
      <4>2. wait'[r].phase = "stage"
        BY <2>1, <2>4, <4>1
      <4> DEFINE Safe == pc'[r] \notin {"check", "write", "rename"}
      <4>3. ASSUME NEW res, Return(r, res) PROVE Safe
        BY <1>1, <4>3 DEF Return
      <4>4. ASSUME NEW label, Goto(r, label),
                   label \in {"stat", "read", "runtime", "confirm", "confirmRead",
                             "confirmRuntime", "sleep", "timer"}
            PROVE  Safe
        BY <1>1, <4>4 DEF Goto
      <4> SUFFICES Safe
        BY <3>2, <4>2 DEF Cleared
      <4> HIDE DEF Safe
      <4>5. CASE ConfirmRuntime(r)
        <5>1. CASE Confirmed(r)
          <6>1. pc[r] = "confirmRuntime" /\ ~touched[r]
            BY <1>1, <4>5 DEF ConfirmRuntime, Untouched
          <6>2. Sole(target[r], cred[r])
            BY <4>1, <5>1, <6>1, BarrierClears
          <6> QED BY <1>4, <3>5, <6>2
        <5>2. CASE ~Confirmed(r)
          BY <4>4, <4>5, <5>2 DEF ConfirmRuntime, Disarm
        <5> QED BY <5>1, <5>2
      <4>6. CASE AwaitRead(r)
        BY <4>1, <4>3, <4>4, <4>6 DEF AwaitRead
      <4>7. CASE RewriteCheck(r) \/ WriteTemporary(r)
        BY <4>1, <4>7 DEF RewriteCheck, WriteTemporary, Safe
      <4>8. CASE \/ AwaitStat(r) \/ AwaitRuntime(r) \/ ConfirmStat(r) \/ ConfirmRead(r)
                 \/ EndPoll(r) \/ Wake(r)
        BY <4>3, <4>4, <4>8 DEF AwaitStat, Stat, AwaitRuntime, Disarm, ConfirmStat,
           ConfirmRead, EndPoll, Wake
      <4> QED BY <1>9, <2>4, <4>5, <4>6, <4>7, <4>8 DEF Loop
    <3> QED BY <3>4, <3>5
  <2> QED BY <2>3, <2>4
<1> QED BY <1>7, <1>8, <1>9 DEF Step, Early, Loop

\* The host's steps and a crash keep the invariant.
LEMMA HostStepLive ==
  ASSUME Undisturbed, LiveInv,
         (\E m \in Names : Operator(m) \/ HostWork(m)) \/ Clock \/ Crash \/ UNCHANGED vars
  PROVE  /\ HostAlone
         /\ \A n \in Names : Single(n)'
         /\ \A q \in Requests : Staged(q)' /\ Cleared(q)' /\ Untouched(q)' /\ Finished(q)'
<1>1. /\ TypeOK /\ LocalsOK /\ HostTypeOK /\ HostCalm
  BY DEF LiveInv, SettleInv, TypeOK
<1>2. \A m \in Names : ~Operator(m)
  BY <1>1, NoOperator
<1>3. HostAlone /\ UNCHANGED <<localVars, touched>>
  BY <1>2 DEF HostAlone, HostWork, Clock, Crash, vars, ghostVars
<1>4. ASSUME NEW n \in Names PROVE Single(n)'
  <2>1. PICK c \in Contents : Sole(n, c)
    BY DEF LiveInv, Single
  <2>2. Idle(n)
    BY DEF LiveInv, Single
  <2> QED BY <1>1, <1>3, <2>1, <2>2, HostSole, HostIdle DEF Single
<1>5. ASSUME NEW q \in Requests PROVE Staged(q)' /\ Cleared(q)' /\ Untouched(q)' /\ Finished(q)'
  <2>1. /\ pc'[q] = pc[q] \/ pc'[q] = "done"
        /\ result'[q] \in Saved => result[q] \in Saved
        /\ ~touched'[q] => ~touched[q] /\ LeavesAlone(target[q])
    BY <1>1, HostFrame
  <2>2. /\ target'[q] = target[q] /\ cred'[q] = cred[q] /\ wait'[q] = wait[q] /\ touched' = touched
        /\ Staged(q) /\ Cleared(q) /\ Untouched(q) /\ Finished(q)
    BY <1>3 DEF LiveInv, localVars
  <2>3. Untouched(q)'
    BY <2>1, <2>2, Zenon DEF Untouched
  <2>4. PICK n, c : n = target[q] /\ c = cred[q]
    OBVIOUS
  <2>5. pc[q] \in Waiting \/ result[q] \in Saved => n \in Names /\ Fits(n, c)
    BY <1>1, <2>4, BoundFits DEF LocalsOK, LocalOK
  <2>6. pc[q] \in {"check", "write", "rename"} => pc[q] \in Waiting
    BY DEF Waiting
  <2>7. pc'[q] \in Waiting => pc'[q] = pc[q]
    BY <2>1 DEF Waiting
  <2>8. Staged(q)'
    <3> SUFFICES ASSUME pc'[q] \in Waiting, wait'[q].phase = "stage" PROVE Level(target[q])'
      BY DEF Staged
    <3>1. n \in Names /\ Level(n) /\ InSync(n)
      BY <1>1, <2>2, <2>4, <2>5, <2>7 DEF Staged, HostCalm
    <3>2. Level(n)'
      BY <1>1, <1>3, <3>1, HostLevel
    <3> QED BY <2>2, <2>4, <3>2 DEF Level
  <2>9. Cleared(q)'
    <3> SUFFICES ASSUME \/ pc'[q] \in {"check", "write", "rename"}
                        \/ pc'[q] \in Waiting /\ wait'[q].phase = "final"
                 PROVE  Sole(target[q], cred[q])'
      BY DEF Cleared
    <3>1. pc'[q] \in Waiting
      BY DEF Waiting
    <3>2. n \in Names /\ Sole(n, c)
      BY <2>2, <2>4, <2>5, <2>7, <3>1 DEF Cleared
    <3>3. Sole(n, c)'
      BY <1>1, <1>3, <3>2, HostSole
    <3> QED BY <2>2, <2>4, <3>3 DEF Sole, Docs
  <2>10. Finished(q)'
    <3> SUFFICES ASSUME result'[q] \in Saved, ~touched'[q] PROVE Kept(target[q], cred[q])'
      BY DEF Finished
    <3>1. n \in Names /\ Fits(n, c) /\ Kept(n, c) /\ LeavesAlone(n) /\ Followed(n)
      BY <2>1, <2>2, <2>4, <2>5 DEF Finished, LiveInv, OwnershipInv
    <3>2. Kept(n, c)'
      BY <1>1, <3>1, KeptKept
    <3> QED BY <2>2, <2>4, <3>2 DEF Kept, Sole, Docs, Quiet
  <2> QED BY <2>3, <2>8, <2>9, <2>10
<1> QED BY <1>3, <1>4, <1>5

\* LiveInv is inductive.
LEMMA LiveStep ==
  ASSUME Calm, Undisturbed, LiveInv, [Next]_vars
  PROVE  LiveInv'
<1>1. SettleInv' /\ ProvenanceInv' /\ OwnershipInv'
  BY SettleStep, ProvenanceStep, OwnershipStep DEF LiveInv
<1>2. CASE \E r \in Requests : Arrive(r) \/ Step(r)
  <2>1. PICK r \in Requests : Arrive(r) \/ Step(r)
    BY <1>2
  <2>2. \A q \in Requests : Staged(q)' /\ Cleared(q)' /\ Untouched(q)' /\ Finished(q)'
    BY <2>1, OwnStepLive, OthersStayLive
  <2>3. \A n \in Names : Single(n)'
    BY <2>1, RequestSole
  <2> QED BY <1>1, <2>2, <2>3 DEF LiveInv
<1>3. CASE (\E n \in Names : Operator(n) \/ HostWork(n)) \/ Clock \/ Crash \/ UNCHANGED vars
  BY <1>1, <1>3, HostStepLive DEF LiveInv
<1> QED BY <1>2, <1>3 DEF Next

\* The host starts with what the directory holds, and nothing under way.
LEMMA LiveInit == Init => LiveInv
<1> SUFFICES ASSUME Init PROVE LiveInv
  OBVIOUS
<1>1. SettleInv /\ ProvenanceInv /\ OwnershipInv /\ HostTypeOK
  BY SettleInit, ProvenanceInit, OwnershipInit, HostInitTypes DEF Init
<1>2. ASSUME NEW n \in Names PROVE Single(n)
  <2>1. PICK c \in Contents : c = file[n].content
    BY <1>1 DEF HostTypeOK
  <2>2. auth[n] = Registered(n, c, 0) /\ watch[n] = NoJob /\ refresh[n] = NoJob
    BY <2>1 DEF Init, HostInit
  <2>3. auth[n].storage \in {c, Absent}
    BY <2>2, RegisteredStorage
  <2> QED BY <2>1, <2>2, <2>3, AbsentIsDead DEF Single, Idle, Sole, Docs, NoJob
<1>3. ASSUME NEW r \in Requests PROVE Staged(r) /\ Cleared(r) /\ Untouched(r) /\ Finished(r)
  <2>1. pc[r] = "idle" /\ result[r] = "none" /\ ~touched[r]
    BY DEF Init
  <2> QED BY <2>1 DEF Staged, Cleared, Untouched, Finished, Waiting, Saved
<1> QED BY <1>1, <1>2, <1>3 DEF LiveInv

-----------------------------------------------------------------------------
(* SuccessIsSettled.                                                       *)

\* What a success means on a host that skips nothing.
LEMMA FoundIsSettled ==
  ASSUME SettleInv, ~SkipUnchanged, NEW r \in Requests, result[r] \in Saved, ~touched[r]
  PROVE  Settled(target[r], cred[r])
<1>1. Fits(target[r], cred[r])
  BY BoundFits DEF SettleInv, LocalsOK, LocalOK
<1>2. Agreed(target[r], cred[r])
  BY DEF SettleInv, Confirming, Found
<1>3. Quiet(target[r], cred[r]) /\ file[target[r]].content = cred[r]
  BY <1>2 DEF Agreed, Parted
<1> QED BY <1>1, <1>3, QuietIsSettled

\* What a success means on a host nobody else writes to.
LEMMA KeptIsSettled ==
  ASSUME LiveInv, NEW r \in Requests, result[r] \in Saved, ~touched[r]
  PROVE  /\ ~cred[r].disabled => Settled(target[r], cred[r])
         /\ cred[r].disabled => SwitchedOff(target[r])
<1>1. PICK n, c : n = target[r] /\ c = cred[r]
  OBVIOUS
<1>2. n \in Names /\ Fits(n, c) /\ Kept(n, c) /\ Followed(n) /\ Reads(n)
  BY <1>1, BoundFits DEF LiveInv, SettleInv, LocalsOK, LocalOK, Finished, OwnershipInv, HostCalm
<1>3. ASSUME ~c.disabled PROVE Settled(n, c)
  <2>1. Live(c)
    BY <1>2, <1>3 DEF Live, Fits
  <2> QED BY <1>2, <2>1, QuietIsSettled DEF Kept
<1>4. ASSUME c.disabled PROVE SwitchedOff(n)
  <2>1. ASSUME NEW d \in Docs(n) PROVE ~Live(d)
    BY <1>2, <1>4, <2>1 DEF Kept, Sole, Live
  <2>2. ~Live(auth[n].storage)
    BY <2>1 DEF Docs
  <2>3. auth[n].reg /\ (~auth[n].view.disabled <=> Live(auth[n].storage))
    BY <1>2, OnServes DEF Kept
  <2>4. auth[n].view.disabled
    BY <2>2, <2>3
  <2> QED BY <2>1, <2>3, <2>4 DEF SwitchedOff, Docs
<1> QED BY <1>1, <1>3, <1>4

\* Once a mutation has answered success, file, record, watcher and refresh hold
\* the credential it reports, whatever refreshes, lost answers and crashes lie in
\* between, and stay so until the file is written again; on a host that skips
\* unchanged rewrites an account it switched off may hold an older document
\* instead, none of which can be served.  For any number of requests, names and
\* accounts, any lags the window outlasts and any bounds.  (A host that skips is
\* taken to be the only one besides the plugin that writes its directory.)
THEOREM SuccessAlwaysSettled ==
  ASSUME Calm, SkipUnchanged => Undisturbed
  PROVE  Spec => []SuccessIsSettled
<1>1. CASE ~SkipUnchanged
  <2>1. Init => SettleInv
    BY SettleInit
  <2>2. SettleInv /\ [Next]_vars => SettleInv'
    BY SettleStep
  <2>3. SettleInv => SuccessIsSettled
    BY <1>1, FoundIsSettled DEF SuccessIsSettled
  <2> QED BY <2>1, <2>2, <2>3, PTL DEF Spec
<1>2. CASE SkipUnchanged
  <2>1. Init => LiveInv
    BY LiveInit
  <2>2. LiveInv /\ [Next]_vars => LiveInv'
    BY <1>2, LiveStep
  <2>3. LiveInv => SuccessIsSettled
    <3> SUFFICES ASSUME LiveInv, NEW r \in Requests, result[r] \in Saved, ~touched[r]
                 PROVE  Settled(target[r], cred[r]) \/ (cred[r].disabled /\ SwitchedOff(target[r]))
      BY <1>2 DEF SuccessIsSettled
    <3>1. cred[r].disabled \/ ~cred[r].disabled
      OBVIOUS
    <3> QED BY <3>1, KeptIsSettled, Zenon
  <2> QED BY <2>1, <2>2, <2>3, PTL DEF Spec
<1> QED BY <1>1, <1>2
=============================================================================
