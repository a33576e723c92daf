------------------------------ MODULE Console ------------------------------
(***************************************************************************)
(* The management page, internal/management/assets/app.js.                 *)
(*                                                                         *)
(* The page's code runs to its next await without interruption; between    *)
(* two steps the user clicks, timers fire and answers arrive, in any       *)
(* order.  A call is a handler waiting at an await: for the answer to a    *)
(* mutation it sent, or for the account list.  The handler of a mutation   *)
(* goes on to load the list, and so stays one call.                        *)
(*                                                                         *)
(* The server (external) is one account: absent, pending or ready.  A      *)
(* mutation leaves it pending, and the watcher makes it ready some time    *)
(* later.  Notices and the disabled flags of the row buttons are left out. *)
(***************************************************************************)
EXTENDS Naturals

CONSTANTS
  MaxCalls,     \* bound: handlers waiting at the same time
  MaxActions,   \* bound: what the user does
  MaxFailures   \* bound: answers that fail

ASSUME ConsoleConstants ==
  MaxCalls \in Nat \ {0} /\ MaxActions \in Nat /\ MaxFailures \in Nat

VARIABLES
  key,        \* the management key field: empty, right or wrong
  changed,    \* it was edited, and its change event is still to come
  connection, \* the connection state shown
  shown,      \* the account list shown, by version and readiness
  timers,     \* poll timers that will fire
  pollTimer,  \* the last one is among them
  refreshOff, importOff,  \* the two buttons' disabled flags
  calls,      \* the handlers at an await
  server,     \* the account as CPA has it
  used        \* how much of the bounds is used up

keyVars == <<key, changed>>
pageVars == <<connection, shown, timers, pollTimer, refreshOff, importOff>>
vars == <<keyVars, pageVars, calls, server, used>>

Keys == {"none", "right", "wrong"}
Lists == [version: Nat, account: {"absent", "pending", "ready"}]
NoList == [version |-> 0, account |-> "absent"]

\* waits: what for; answer: "" until there is one; list: the list it brings; by:
\* the handler that loads it.
Handlers == {"refresh", "poll", "import", "revalidate", "delete"}
Mutations == {"import", "revalidate", "delete"}
Calls == [waits: {"nothing", "mutation", "list"}, answer: {"", "ok", "401", "error"},
          key: Keys, list: Lists, by: Handlers]
Idle == [waits |-> "nothing", answer |-> "", key |-> "none", list |-> NoList, by |-> "poll"]

Slots == 1..MaxCalls
Free(i) == calls[i].waits = "nothing"
HasRoom == \E i \in Slots : Free(i)
FreeSlot == CHOOSE i \in Slots : Free(i)
Loading == \E i \in Slots : calls[i].waits = "list"

Init ==
  /\ key = "none" /\ changed = FALSE
  /\ connection = "Locked"
  /\ shown = NoList
  /\ timers = 0 /\ pollTimer = FALSE
  /\ refreshOff = FALSE /\ importOff = FALSE
  /\ calls = [i \in Slots |-> Idle]
  /\ server \in {NoList, [NoList EXCEPT !.account = "ready"]}
  /\ used = [actions |-> 0, failures |-> 0]

-----------------------------------------------------------------------------
(* Pieces of the handlers.                                                 *)

Asking(waits, by) == [waits |-> waits, answer |-> "", key |-> key, list |-> NoList, by |-> by]

\* loadAccounts up to its await, run by the handler in slot i.
LoadAccounts(i, by) ==
  IF key = "none"
  THEN /\ connection' = "Locked"
       /\ refreshOff' = FALSE
       /\ calls' = [calls EXCEPT ![i] = Idle]
  ELSE /\ refreshOff' = TRUE
       /\ calls' = [calls EXCEPT ![i] = Asking("list", by)]
       /\ UNCHANGED connection

ClearTimeout ==
  /\ timers' = IF pollTimer THEN timers - 1 ELSE timers
  /\ pollTimer' = FALSE

\* Mutants: an old timer is left running; the poll is armed only from an empty list.
ScheduleUncleared(account) ==
  IF account = "pending" THEN timers' = timers + 1 /\ pollTimer' = TRUE
  ELSE UNCHANGED <<timers, pollTimer>>
ScheduleOnce(account) ==
  IF account = "pending" /\ shown.account = "absent"
  THEN timers' = 1 /\ pollTimer' = TRUE
  ELSE ClearTimeout

\* clearTimeout, and a new timer if a row is pending.
schedulePendingPoll(account) ==
  /\ timers' = (IF pollTimer THEN timers - 1 ELSE timers)
               + (IF account = "pending" THEN 1 ELSE 0)
  /\ pollTimer' = (account = "pending")

Act ==
  /\ used.actions < MaxActions
  /\ used' = [used EXCEPT !.actions = @ + 1]

-----------------------------------------------------------------------------
(* The user.                                                               *)

EditKey ==
  /\ Act
  /\ \E k \in Keys \ {key} : key' = k
  /\ changed' = TRUE
  /\ UNCHANGED <<pageVars, calls, server>>

\* The change event: the field has lost the focus.
ChangeKey ==
  /\ changed /\ HasRoom
  /\ changed' = FALSE
  /\ ClearTimeout
  /\ LoadAccounts(FreeSlot, "refresh")
  /\ UNCHANGED <<key, shown, importOff, server, used>>

ClickRefresh ==
  /\ Act /\ ~changed /\ ~refreshOff /\ HasRoom
  /\ LoadAccounts(FreeSlot, "refresh")
  /\ UNCHANGED <<keyVars, shown, timers, pollTimer, importOff, server>>

\* Without a key, apiRequest throws before anything is sent.
Submit ==
  /\ Act /\ ~changed /\ ~importOff /\ HasRoom /\ key # "none"
  /\ importOff' = TRUE
  /\ calls' = [calls EXCEPT ![FreeSlot] = Asking("mutation", "import")]
  /\ UNCHANGED <<keyVars, connection, shown, timers, pollTimer, refreshOff, server>>

\* A row's buttons.  Rendering makes new ones, so a row may be clicked again while
\* an earlier click is at work.  Without a key, revalidation's catch loads.
ClickRow(by) ==
  /\ Act /\ ~changed /\ shown.account # "absent" /\ HasRoom
  /\ IF key # "none"
     THEN /\ calls' = [calls EXCEPT ![FreeSlot] = Asking("mutation", by)]
          /\ UNCHANGED <<connection, refreshOff>>
     ELSE /\ by = "revalidate"
          /\ LoadAccounts(FreeSlot, by)
  /\ UNCHANGED <<keyVars, shown, timers, pollTimer, importOff, server>>

-----------------------------------------------------------------------------
(* The page.                                                               *)

TimerFires ==
  /\ timers > 0 /\ HasRoom
  /\ timers' = timers - 1
  /\ pollTimer' = FALSE
  /\ LoadAccounts(FreeSlot, "poll")
  /\ UNCHANGED <<keyVars, shown, importOff, server, used>>

\* Whether the handler goes on to load the list when its mutation is answered.
LoadsAfter(by, answer) == answer = "ok" \/ by = "revalidate"

MutationAnswered(i) ==
  /\ calls[i].waits = "mutation" /\ calls[i].answer # ""
  /\ IF LoadsAfter(calls[i].by, calls[i].answer)
     THEN LoadAccounts(i, calls[i].by)
     ELSE calls' = [calls EXCEPT ![i] = Idle] /\ UNCHANGED <<connection, refreshOff>>
  /\ importOff' = (importOff /\ (calls[i].by # "import" \/ calls'[i].waits = "list"))
  /\ UNCHANGED <<keyVars, shown, timers, pollTimer, server, used>>

\* Mutant: the button is enabled again only when the load succeeds.
ReleasedOnSuccess(answer) == answer = "ok"

\* The finally block of loadAccounts.
Released(answer) == TRUE

\* Mutant: a poll's list is not rendered.
RenderedByHand(c) == IF c.by = "poll" THEN shown ELSE c.list

\* The rows renderAccounts leaves on the page.
Rendered(c) == c.list

\* The end of loadAccounts: render and schedule, or the catch block, which arms no
\* timer; then the finally blocks, the import handler's own included.
ListAnswered(i) ==
  LET c == calls[i] IN
  /\ c.waits = "list" /\ c.answer # ""
  /\ IF c.answer = "ok"
     THEN /\ shown' = Rendered(c)
          /\ connection' = "Connected"
          /\ schedulePendingPoll(Rendered(c).account)
     ELSE /\ connection' = IF c.answer = "401" THEN "Locked" ELSE "Unavailable"
          /\ UNCHANGED <<shown, timers, pollTimer>>
  /\ refreshOff' = (refreshOff /\ ~Released(c.answer))
  /\ importOff' = (importOff /\ c.by # "import")
  /\ calls' = [calls EXCEPT ![i] = Idle]
  /\ UNCHANGED <<keyVars, server, used>>

-----------------------------------------------------------------------------
(* The server.                                                             *)

\* A wrong key is refused before anything else.
Answer(i, answer) ==
  calls' = [calls EXCEPT ![i].answer = IF calls[i].key = "wrong" THEN "401" ELSE answer,
                         ![i].list = IF calls[i].waits = "list" THEN server ELSE @]

Changed(by) ==
  [version |-> server.version + 1, account |-> IF by = "delete" THEN "absent" ELSE "pending"]

Serve(i) ==
  /\ calls[i].waits # "nothing" /\ calls[i].answer = ""
  /\ Answer(i, "ok")
  /\ server' = IF calls[i].waits = "mutation" /\ calls[i].key = "right"
               THEN Changed(calls[i].by) ELSE server
  /\ UNCHANGED <<keyVars, pageVars, used>>

\* The request fails, or its answer is lost.
ServeFails(i) ==
  /\ calls[i].waits # "nothing" /\ calls[i].answer = ""
  /\ used.failures < MaxFailures
  /\ used' = [used EXCEPT !.failures = @ + 1]
  /\ Answer(i, "error")
  /\ \/ UNCHANGED server
     \/ /\ calls[i].waits = "mutation" /\ calls[i].key = "right"
        /\ server' = Changed(calls[i].by)
  /\ UNCHANGED <<keyVars, pageVars>>

BecomesReady ==
  /\ server.account = "pending"
  /\ server' = [server EXCEPT !.account = "ready"]
  /\ UNCHANGED <<keyVars, pageVars, calls, used>>

PageStep(i) == MutationAnswered(i) \/ ListAnswered(i)

Next ==
  \/ EditKey \/ ChangeKey \/ ClickRefresh \/ Submit
  \/ ClickRow("revalidate") \/ ClickRow("delete")
  \/ TimerFires \/ BecomesReady
  \/ \E i \in Slots : PageStep(i) \/ Serve(i) \/ ServeFails(i)

Spec == Init /\ [][Next]_vars

\* Timers fire, requests are answered, answers are handled, and the watcher works.
Fairness ==
  /\ WF_vars(TimerFires) /\ WF_vars(BecomesReady) /\ WF_vars(ChangeKey)
  /\ \A i \in Slots : WF_vars(PageStep(i)) /\ WF_vars(Serve(i))

FairSpec == Spec /\ Fairness

-----------------------------------------------------------------------------
(* Properties.                                                             *)

\* At most one poll timer runs, however clicks, polls and late answers overlap:
\* schedulePendingPoll never starts a second chain of polls.
OneTimer == timers <= 1 /\ (pollTimer <=> timers = 1)

\* A disabled button belongs to a handler at work: no answer, refusal or missing
\* key leaves the page unable to refresh or to import.
ButtonsAreReleased ==
  /\ refreshOff => Loading
  /\ importOff => \E i \in Slots : calls[i].waits # "nothing" /\ calls[i].by = "import"

\* While the page is connected and shows a pending account, something will bring
\* a newer list: a timer, a load under way, or a changed key about to be noticed.
PendingIsPolled ==
  connection = "Connected" /\ shown.account = "pending" => timers > 0 \/ Loading \/ changed

\* A pending account is not shown for ever on a connected page.
PendingEnds ==
  connection = "Connected" /\ shown.account = "pending"
    ~> connection # "Connected" \/ shown.account # "pending"

\* The notice after an import, "Credential imported. Waiting for CPA readiness.":
\* a page that stays connected comes to show the account as the server has it.
ImportIsAwaited ==
  <>[](connection = "Connected") => <>[](shown = server)
=============================================================================
