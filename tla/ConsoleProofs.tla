--------------------------- MODULE ConsoleProofs ---------------------------
(***************************************************************************)
(* Theorems about Console, for any number of handlers waiting at once, of  *)
(* user actions and of failures.                                           *)
(***************************************************************************)
EXTENDS Console, TLAPS

\* What the proofs need of the variables' types.
Shape ==
  /\ timers \in Nat
  /\ pollTimer \in BOOLEAN /\ refreshOff \in BOOLEAN /\ importOff \in BOOLEAN
  /\ calls \in [Slots -> Calls]
  /\ key \in Keys
  /\ shown \in Lists /\ server \in Lists

\* A slot found free is a slot, and free.
LEMMA FreeSlotIsFree ==
  ASSUME HasRoom PROVE FreeSlot \in Slots /\ Free(FreeSlot)
BY DEF HasRoom, FreeSlot

\* What loadAccounts, run in slot i, does to buttons and handlers.
LEMMA LoadEffect ==
  ASSUME Shape, NEW i \in Slots, NEW by \in Handlers, LoadAccounts(i, by)
  PROVE  /\ refreshOff' \in BOOLEAN /\ calls' \in [Slots -> Calls]
         /\ \A j \in Slots \ {i} : calls'[j] = calls[j]
         /\ \/ connection' = "Locked" /\ ~refreshOff' /\ calls'[i] = Idle
            \/ /\ connection' = connection /\ refreshOff'
               /\ calls'[i].waits = "list" /\ calls'[i].by = by
<1>1. Idle \in Calls
  BY DEF Idle, Calls, Keys, NoList, Lists, Handlers
<1>3. Asking("list", by) \in Calls
  <2>1. NoList \in Lists
    BY DEF NoList, Lists
  <2> QED BY <2>1 DEF Asking, Shape, Calls
<1>4. CASE key = "none"
  BY <1>1, <1>4 DEF LoadAccounts, Shape
<1>5. CASE key # "none"
  <2>1. calls' = [calls EXCEPT ![i] = Asking("list", by)] /\ refreshOff' = TRUE /\ UNCHANGED connection
    BY <1>5 DEF LoadAccounts
  <2>2. Asking("list", by).waits = "list" /\ Asking("list", by).by = by
    BY DEF Asking
  <2> QED BY <1>3, <2>1, <2>2 DEF Shape
<1> QED BY <1>4, <1>5

\* A call that asks for a mutation is one.
LEMMA AskingMutation ==
  ASSUME Shape, NEW by \in Handlers
  PROVE  /\ Asking("mutation", by) \in Calls
         /\ Asking("mutation", by).waits = "mutation" /\ Asking("mutation", by).by = by
<1>1. NoList \in Lists
  BY DEF NoList, Lists
<1>2. Asking("mutation", by) \in Calls
  BY <1>1 DEF Asking, Shape, Calls
<1>3. Asking("mutation", by).waits = "mutation" /\ Asking("mutation", by).by = by
  BY DEF Asking
<1> QED BY <1>2, <1>3

\* An answer changes neither what a handler waits for nor which handler it is.
LEMMA AnswerEffect ==
  ASSUME Shape, NEW i \in Slots, NEW a \in {"ok", "error"}, Answer(i, a)
  PROVE  /\ calls' \in [Slots -> Calls]
         /\ \A j \in Slots : calls'[j].waits = calls[j].waits /\ calls'[j].by = calls[j].by
<1> DEFINE b == IF calls[i].key = "wrong" THEN "401" ELSE a
           l == IF calls[i].waits = "list" THEN server ELSE calls[i].list
<1>1. calls[i] \in Calls /\ l \in Lists /\ b \in {"", "ok", "401", "error"}
  BY DEF Shape, Calls
<1>0. calls' = [calls EXCEPT ![i] = [calls[i] EXCEPT !.answer = b, !.list = l]]
  BY DEF Answer, Shape, Calls
<1> HIDE DEF b, l
<1>2. /\ calls'[i] = [calls[i] EXCEPT !.answer = b, !.list = l]
      /\ \A j \in Slots \ {i} : calls'[j] = calls[j]
  BY <1>0 DEF Shape
<1>3. [calls[i] EXCEPT !.answer = b, !.list = l] \in Calls
  BY <1>1 DEF Calls
<1>4. /\ [calls[i] EXCEPT !.answer = b, !.list = l].waits = calls[i].waits
      /\ [calls[i] EXCEPT !.answer = b, !.list = l].by = calls[i].by
  BY <1>1 DEF Calls
<1>5. calls' \in [Slots -> Calls]
  BY <1>0, <1>3 DEF Shape
<1> QED BY <1>2, <1>4, <1>5

\* The three invariants together; none needs more than the types to be inductive.
PageInv == Shape /\ OneTimer /\ ButtonsAreReleased /\ PendingIsPolled

\* The page is loaded: nothing runs, nothing is disabled.
LEMMA PageInit == Init => PageInv
<1>1. NoList \in Lists /\ [NoList EXCEPT !.account = "ready"] \in Lists
  BY DEF NoList, Lists
<1>2. Idle \in Calls
  BY <1>1 DEF Idle, Calls, Keys, Handlers
<1>3. ASSUME Init PROVE Shape
  <2>1. timers \in Nat /\ key \in Keys /\ shown \in Lists /\ server \in Lists
    BY <1>1, <1>3 DEF Init, Keys
  <2>2. calls \in [Slots -> Calls]
    BY <1>2, <1>3 DEF Init
  <2>3. pollTimer \in BOOLEAN /\ refreshOff \in BOOLEAN /\ importOff \in BOOLEAN
    BY <1>3, Zenon DEF Init
  <2> QED BY <2>1, <2>2, <2>3 DEF Shape
<1>4. Init => OneTimer /\ ButtonsAreReleased /\ PendingIsPolled
  BY DEF Init, OneTimer, ButtonsAreReleased, PendingIsPolled
<1> QED BY <1>3, <1>4 DEF PageInv

\* No step of the user, the page or the server breaks one of them.
LEMMA PageStepKeeps ==
  ASSUME PageInv, [Next]_vars PROVE PageInv'
<1> USE DEF PageInv
<1>1. CASE EditKey
  BY <1>1 DEF EditKey, pageVars, Shape, OneTimer, ButtonsAreReleased, PendingIsPolled, Loading
<1>2. CASE ChangeKey
  <2>1. PICK i \in Slots : Free(i) /\ LoadAccounts(i, "refresh")
    BY <1>2, FreeSlotIsFree DEF ChangeKey
  <2>2. UNCHANGED <<key, shown, importOff, server>> /\ ClearTimeout
    BY <1>2 DEF ChangeKey
  <2>3. refreshOff' \in BOOLEAN /\ calls' \in [Slots -> Calls]
    BY <2>1, LoadEffect DEF Handlers
  <2>4. timers' \in Nat
    BY <2>2 DEF ClearTimeout, OneTimer, Shape
  <2>5. pollTimer' \in BOOLEAN
    BY <2>2, Zenon DEF ClearTimeout
  <2>6. Shape'
    BY <2>2, <2>3, <2>4, <2>5 DEF Shape
  <2>7. OneTimer'
    BY <2>1, <2>2, LoadEffect DEF OneTimer, ClearTimeout, Shape
  <2>8. ButtonsAreReleased'
    BY <2>1, <2>2, LoadEffect DEF ButtonsAreReleased, Free, Loading, Handlers, Idle, Shape
  <2>9. PendingIsPolled'
    BY <2>1, <2>2, LoadEffect DEF PendingIsPolled, Free, Loading, Handlers
  <2> QED BY <2>6, <2>7, <2>8, <2>9
<1>3. CASE ClickRefresh
  <2>1. PICK i \in Slots : Free(i) /\ LoadAccounts(i, "refresh")
    BY <1>3, FreeSlotIsFree DEF ClickRefresh
  <2>2. UNCHANGED <<keyVars, shown, timers, pollTimer, importOff, server>>
    BY <1>3 DEF ClickRefresh
  <2> QED
    BY <2>1, <2>2, LoadEffect
       DEF Free, keyVars, Shape, OneTimer, ButtonsAreReleased, PendingIsPolled, Loading, Handlers, Idle
<1>4. CASE Submit
  <2>1. PICK i \in Slots : Free(i) /\ calls' = [calls EXCEPT ![i] = Asking("mutation", "import")]
    BY <1>4, FreeSlotIsFree DEF Submit
  <2>2. importOff' = TRUE /\ UNCHANGED <<keyVars, connection, shown, timers, pollTimer, refreshOff, server>>
    BY <1>4 DEF Submit
  <2>3. "import" \in Handlers
    BY DEF Handlers
  <2> QED
    BY <2>1, <2>2, <2>3, AskingMutation
       DEF Free, keyVars, Shape, OneTimer, ButtonsAreReleased, PendingIsPolled, Loading
<1>5. ASSUME NEW by \in {"revalidate", "delete"}, ClickRow(by) PROVE PageInv'
  <2>0. by \in Handlers /\ by # "import"
    BY DEF Handlers
  <2>1. PICK i \in Slots :
          /\ Free(i)
          /\ \/ /\ calls' = [calls EXCEPT ![i] = Asking("mutation", by)]
                /\ UNCHANGED <<connection, refreshOff>>
             \/ LoadAccounts(i, by)
    BY <1>5, FreeSlotIsFree DEF ClickRow
  <2>2. UNCHANGED <<keyVars, shown, timers, pollTimer, importOff, server>>
    BY <1>5 DEF ClickRow
  <2>3. CASE LoadAccounts(i, by)
    BY <2>0, <2>1, <2>2, <2>3, LoadEffect
       DEF Free, keyVars, Shape, OneTimer, ButtonsAreReleased, PendingIsPolled, Loading, Idle
  <2>4. CASE calls' = [calls EXCEPT ![i] = Asking("mutation", by)] /\ UNCHANGED <<connection, refreshOff>>
    BY <2>0, <2>1, <2>2, <2>4, AskingMutation
       DEF Free, keyVars, Shape, OneTimer, ButtonsAreReleased, PendingIsPolled, Loading
  <2> QED BY <2>1, <2>3, <2>4
<1>6. CASE TimerFires
  <2>1. PICK i \in Slots : Free(i) /\ LoadAccounts(i, "poll")
    BY <1>6, FreeSlotIsFree DEF TimerFires
  <2>2. /\ timers > 0 /\ timers' = timers - 1 /\ pollTimer' = FALSE
        /\ UNCHANGED <<keyVars, shown, importOff, server>>
    BY <1>6 DEF TimerFires
  <2>3. refreshOff' \in BOOLEAN /\ calls' \in [Slots -> Calls]
    BY <2>1, LoadEffect DEF Handlers
  <2>4. timers' \in Nat
    BY <2>2 DEF Shape
  <2>5. pollTimer' \in BOOLEAN
    BY <2>2, Zenon
  <2>6. Shape'
    BY <2>2, <2>3, <2>4, <2>5 DEF Shape, keyVars
  <2>7. OneTimer'
    BY <2>1, <2>2, LoadEffect DEF OneTimer, Shape
  <2>8. ButtonsAreReleased'
    BY <2>1, <2>2, LoadEffect DEF ButtonsAreReleased, Free, Loading, Handlers, Idle, Shape
  <2>9. PendingIsPolled'
    BY <2>1, <2>2, LoadEffect DEF PendingIsPolled, Free, Loading, Handlers
  <2> QED BY <2>6, <2>7, <2>8, <2>9
<1>7. CASE BecomesReady
  <2>1. server' \in Lists
    BY <1>7 DEF BecomesReady, Shape, Lists
  <2> QED
    BY <1>7, <2>1
       DEF BecomesReady, keyVars, pageVars, Shape, OneTimer, ButtonsAreReleased, PendingIsPolled, Loading
<1>8. ASSUME NEW i \in Slots, MutationAnswered(i) PROVE PageInv'
  <2>0. calls[i].by \in Handlers /\ calls[i].waits = "mutation"
    BY <1>8 DEF MutationAnswered, Shape, Calls
  <2>1. /\ importOff' = (importOff /\ (calls[i].by # "import" \/ calls'[i].waits = "list"))
        /\ UNCHANGED <<keyVars, shown, timers, pollTimer, server>>
    BY <1>8 DEF MutationAnswered
  <2>2. CASE LoadAccounts(i, calls[i].by)
    <3>6. Shape'
      BY <2>0, <2>1, <2>2, LoadEffect DEF Shape, keyVars
    <3>7. OneTimer'
      BY <2>0, <2>1, <2>2, LoadEffect DEF OneTimer
    <3>1. /\ \A j \in Slots \ {i} : calls'[j] = calls[j]
          /\ refreshOff' => calls'[i].waits = "list"
          /\ calls'[i].waits = "list" => calls'[i].by = calls[i].by
          /\ calls'[i].waits \in {"list", "nothing"}
      <4>1. Idle.waits = "nothing"
        BY DEF Idle
      <4> QED BY <2>0, <2>2, <4>1, LoadEffect
    <3>2. refreshOff' => Loading'
      BY <3>1 DEF Loading
    <3>3. importOff' => \E j \in Slots : calls'[j].waits # "nothing" /\ calls'[j].by = "import"
      <4>1. CASE calls[i].by # "import"
        BY <2>1, <3>1, <4>1 DEF ButtonsAreReleased
      <4>2. CASE calls[i].by = "import"
        BY <2>1, <3>1, <4>2 DEF ButtonsAreReleased
      <4> QED BY <4>1, <4>2
    <3>8. ButtonsAreReleased'
      BY <3>2, <3>3 DEF ButtonsAreReleased
    <3>9. PendingIsPolled'
      BY <2>0, <2>1, <2>2, LoadEffect DEF PendingIsPolled, keyVars, Loading
    <3> QED BY <3>6, <3>7, <3>8, <3>9
  <2>3. CASE calls' = [calls EXCEPT ![i] = Idle] /\ UNCHANGED <<connection, refreshOff>>
    <3>1. Idle \in Calls /\ Idle.waits = "nothing"
      BY DEF Idle, Calls, Keys, NoList, Lists, Handlers
    <3> QED
      BY <2>0, <2>1, <2>3, <3>1
         DEF keyVars, Shape, OneTimer, ButtonsAreReleased, PendingIsPolled, Loading
  <2> QED BY <1>8, <2>2, <2>3 DEF MutationAnswered
<1>9. ASSUME NEW i \in Slots, ListAnswered(i) PROVE PageInv'
  <2>1. Idle \in Calls /\ Idle.waits = "nothing"
    BY DEF Idle, Calls, Keys, NoList, Lists, Handlers
  <2>2. /\ calls[i].waits = "list" /\ calls' = [calls EXCEPT ![i] = Idle] /\ ~refreshOff'
        /\ refreshOff' \in BOOLEAN /\ importOff' = (importOff /\ calls[i].by # "import")
        /\ UNCHANGED <<keyVars, server>>
    BY <1>9 DEF ListAnswered, Released
  <2>3. calls[i].list \in Lists
    BY DEF Shape, Calls
  <2>4. CASE calls[i].answer = "ok"
    <3>1. /\ shown' = calls[i].list /\ connection' = "Connected"
          /\ schedulePendingPoll(calls[i].list.account)
      BY <1>9, <2>4 DEF ListAnswered, Rendered
    <3>6. Shape'
      BY <2>1, <2>2, <2>3, <3>1 DEF Shape, schedulePendingPoll, OneTimer, keyVars
    <3>7. OneTimer'
      <4>1. pollTimer' <=> calls[i].list.account = "pending"
        BY <3>1, Zenon DEF schedulePendingPoll
      <4>2. (IF pollTimer THEN timers - 1 ELSE timers) = 0
        BY DEF OneTimer, Shape
      <4>3. timers' = 0 + (IF calls[i].list.account = "pending" THEN 1 ELSE 0)
        BY <3>1, <4>2, Zenon DEF schedulePendingPoll
      <4>4. timers' = IF calls[i].list.account = "pending" THEN 1 ELSE 0
        BY <4>3
      <4> QED BY <4>1, <4>4 DEF OneTimer
    <3>8. ButtonsAreReleased'
      BY <2>1, <2>2, <2>3, <3>1 DEF ButtonsAreReleased, Loading, Shape
    <3>9. PendingIsPolled'
      BY <2>1, <2>2, <2>3, <3>1 DEF PendingIsPolled, schedulePendingPoll, OneTimer, Shape
    <3> QED BY <3>6, <3>7, <3>8, <3>9
  <2>5. CASE calls[i].answer # "ok"
    <3>1. connection' # "Connected" /\ UNCHANGED <<shown, timers, pollTimer>>
      BY <1>9, <2>5 DEF ListAnswered
    <3> QED
      BY <2>1, <2>2, <3>1
         DEF keyVars, Shape, OneTimer, ButtonsAreReleased, PendingIsPolled, Loading
  <2> QED BY <2>4, <2>5
<1>10. ASSUME NEW i \in Slots, Serve(i) \/ ServeFails(i) PROVE PageInv'
  <2>1. PICK a \in {"ok", "error"} : Answer(i, a)
    BY <1>10 DEF Serve, ServeFails
  <2>2. UNCHANGED <<keyVars, pageVars>> /\ server' \in {server, Changed(calls[i].by)}
    BY <1>10 DEF Serve, ServeFails
  <2>3. server' \in Lists
    BY <2>2 DEF Changed, Shape, Lists
  <2> QED
    BY <2>1, <2>2, <2>3, AnswerEffect
       DEF keyVars, pageVars, Shape, OneTimer, ButtonsAreReleased, PendingIsPolled, Loading
<1>11. CASE UNCHANGED vars
  BY <1>11 DEF vars, keyVars, pageVars, Shape, OneTimer, ButtonsAreReleased, PendingIsPolled, Loading
<1> QED
  BY <1>1, <1>2, <1>3, <1>4, <1>5, <1>6, <1>7, <1>8, <1>9, <1>10, <1>11 DEF Next, PageStep

\* schedulePendingPoll keeps one chain of polls, however many handlers are at an
\* await and in whatever order their answers arrive.
THEOREM AlwaysOneTimer == Spec => []OneTimer
BY PageInit, PageStepKeeps, PTL DEF Spec, PageInv

\* Refresh and import are never left disabled by a handler that has ended.
THEOREM ButtonsAlwaysReleased == Spec => []ButtonsAreReleased
BY PageInit, PageStepKeeps, PTL DEF Spec, PageInv

\* A connected page that shows a pending account always has a reload ahead.
THEOREM PendingAlwaysPolled == Spec => []PendingIsPolled
BY PageInit, PageStepKeeps, PTL DEF Spec, PageInv
=============================================================================
