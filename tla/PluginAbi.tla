------------------------------ MODULE PluginAbi ------------------------------
(***************************************************************************)
(* The native boundary of cmd/codex-pat: the host table hostState keeps,   *)
(* the lazily built dispatcher, and calls, callbacks and shutdown that run *)
(* on the host's threads at the same time.                                 *)
(*                                                                         *)
(* The sections under application's lock only read or assign a pointer:    *)
(* each is one step.  hostState's read lock is held through a whole host   *)
(* callback, so its readers are explicit; Go's RWMutex admits no new       *)
(* reader once a writer waits.                                             *)
(*                                                                         *)
(* The host (external) loads the plugin with a table of its own, may call  *)
(* it from several threads, may shut it down while calls are under way,    *)
(* frees the table when shutdown has returned, and may load it again.      *)
(***************************************************************************)
EXTENDS Naturals

CONSTANTS
  Calls,         \* host threads that call the plugin, one call at a time
  MaxLoads,      \* bound: how often the host loads the plugin
  MaxCallbacks,  \* bound: callbacks one handler makes
  None           \* no table, no dispatcher

ASSUME PluginAbiConstants ==
  /\ MaxLoads \in Nat \ {0} /\ MaxCallbacks \in Nat \ {0}
  /\ None \notin Nat

VARIABLES
  life,        \* the host's view of the plugin
  load,        \* how often it was loaded; also names the table
  alive,       \* the tables the host has not freed
  api,         \* hostState.api
  dispatcher,  \* application.dispatcher, by number
  made,        \* dispatchers built so far
  pc, kind, disp, held, table, left,  \* each call's position and locals
  began        \* history: the load a call belongs to

lifeVars == <<life, load, alive, api>>
appVars == <<dispatcher, made>>
callVars == <<pc, kind, disp, held, table, left, began>>
vars == <<lifeVars, appVars, callVars>>

Lives == {"unloaded", "storing", "loaded", "closing", "clearing", "cleared"}
Pcs == {"idle", "read", "init", "reread", "lock", "handle", "host", "call", "free"}

\* local: what needs no callback.
Kinds == {"local", "status", "mutation"}

\* What CPA may call, as the dispatcher and the management handler tell calls
\* apart: the request's JSON is valid, and for management.handle the route and
\* whether the route's own body passes decodeStrictBody.
Methods == {"plugin.register", "plugin.reconfigure", "auth.identifier", "auth.parse",
            "auth.login.start", "auth.login.poll", "auth.refresh",
            "management.register", "management.handle", "unknown"}
Routes == {"import", "status", "revalidate", "resource", "unknown"}
Requests == [method: Methods, valid: BOOLEAN, route: Routes, body: BOOLEAN]

\* Handler.Handle.
Handle(r) ==
  CASE r.route \in {"import", "revalidate"} /\ r.body -> "mutation"
    [] r.route = "status" -> "status"
    [] OTHER -> "local"

\* Dispatch: only management.handle reaches beyond the plugin.
Dispatch(r) == IF r.method = "management.handle" /\ r.valid THEN Handle(r) ELSE "local"

Dispatched == {Dispatch(r) : r \in Requests}

Init ==
  /\ life = "unloaded" /\ load = 0 /\ alive = {} /\ api = None
  /\ dispatcher = None /\ made = 0
  /\ pc = [c \in Calls |-> "idle"]
  /\ kind = [c \in Calls |-> "local"]
  /\ disp = [c \in Calls |-> None]
  /\ held = [c \in Calls |-> FALSE]
  /\ table = [c \in Calls |-> None]
  /\ left = [c \in Calls |-> 0]
  /\ began = [c \in Calls |-> 0]

-----------------------------------------------------------------------------
(* hostState's lock.                                                       *)

\* A call holds the read lock from choosing the table to freeing the buffer.
Reading(c) == pc[c] \in {"call", "free"}

\* Mutant: the lock is released before the response buffer is freed.
NoneCalling == \A c \in Calls : pc[c] # "call"

NoReaders == \A c \in Calls : ~Reading(c)

\* Mutant: readers overtake a waiting writer.
WriterIgnored == FALSE

WriterWaits == life \in {"storing", "clearing"}

-----------------------------------------------------------------------------
(* Load and shutdown.                                                      *)

\* cliproxy_plugin_init with a compatible table; an incompatible one changes
\* nothing.
PluginInit ==
  /\ life = "unloaded" /\ load < MaxLoads
  /\ life' = "storing" /\ load' = load + 1 /\ alive' = alive \cup {load'}
  /\ UNCHANGED <<api, appVars, callVars>>

storeHostAPI ==
  /\ life = "storing" /\ NoReaders
  /\ api' = load /\ life' = "loaded"
  /\ UNCHANGED <<load, alive, appVars, callVars>>

\* cliproxyPluginShutdown: shutdownPlugin, then clearHostAPI's Lock and body.
shutdownPlugin ==
  /\ life = "loaded"
  /\ dispatcher' = None /\ life' = "closing"
  /\ UNCHANGED <<load, alive, api, made, callVars>>

RequestClear ==
  /\ life = "closing" /\ life' = "clearing"
  /\ UNCHANGED <<load, alive, api, appVars, callVars>>

clearHostAPI ==
  /\ life = "clearing" /\ NoReaders
  /\ api' = None /\ life' = "cleared"
  /\ UNCHANGED <<load, alive, appVars, callVars>>

\* The host frees its table once shutdown has returned (external).
FreeTable ==
  /\ life = "cleared"
  /\ alive' = alive \ {load} /\ life' = "unloaded"
  /\ UNCHANGED <<load, api, appVars, callVars>>

-----------------------------------------------------------------------------
(* dispatchPlugin.                                                         *)

Goto(c, label) == pc' = [pc EXCEPT ![c] = label]

\* The host calls the plugin while it is loaded, also during its shutdown.
Begin(c) ==
  /\ pc[c] = "idle" /\ life \in {"loaded", "closing", "clearing"}
  /\ \E k \in Dispatched : kind' = [kind EXCEPT ![c] = k]
  /\ began' = [began EXCEPT ![c] = load]
  /\ left' = [left EXCEPT ![c] = MaxCallbacks]
  /\ Goto(c, "read")
  /\ UNCHANGED <<lifeVars, appVars, disp, held, table>>

\* Mutant: the second nil check is missing.
TakeUnchecked(c, otherwise) ==
  IF dispatcher = None /\ otherwise = "init"
  THEN Goto(c, otherwise) /\ UNCHANGED disp
  ELSE /\ disp' = [disp EXCEPT ![c] = dispatcher]
       /\ Goto(c, IF kind[c] = "mutation" THEN "lock" ELSE "handle")

\* Take the current dispatcher, or go on to `otherwise` without one.
Take(c, otherwise) ==
  IF dispatcher = None
  THEN Goto(c, otherwise) /\ UNCHANGED disp
  ELSE /\ disp' = [disp EXCEPT ![c] = dispatcher]
       /\ Goto(c, IF kind[c] = "mutation" THEN "lock" ELSE "handle")

ReadDispatcher(c) ==
  /\ pc[c] = "read" /\ Take(c, "init")
  /\ UNCHANGED <<lifeVars, appVars, kind, held, table, left, began>>

\* Mutant: the dispatcher is built without looking again under the lock.
initializeUnchecked(c) ==
  /\ pc[c] = "init"
  /\ dispatcher' = made + 1 /\ made' = made + 1
  /\ Goto(c, "reread")
  /\ UNCHANGED <<lifeVars, kind, disp, held, table, left, began>>

initializePlugin(c) ==
  /\ pc[c] = "init"
  /\ IF dispatcher = None
     THEN dispatcher' = made + 1 /\ made' = made + 1
     ELSE UNCHANGED appVars
  /\ Goto(c, "reread")
  /\ UNCHANGED <<lifeVars, kind, disp, held, table, left, began>>

\* A shutdown since leaves nothing to dispatch to: plugin_unavailable.
Reread(c) ==
  /\ pc[c] = "reread" /\ Take(c, "idle")
  /\ UNCHANGED <<lifeVars, appVars, kind, held, table, left, began>>

-----------------------------------------------------------------------------
(* The handler: its dispatcher's mutationMu, and host callbacks.           *)

LockMutation(c) ==
  /\ pc[c] = "lock"
  /\ \A d \in Calls : held[d] => disp[d] # disp[c]
  /\ held' = [held EXCEPT ![c] = TRUE]
  /\ Goto(c, "handle")
  /\ UNCHANGED <<lifeVars, appVars, kind, disp, table, left, began>>

NeedHost(c) ==
  /\ pc[c] = "handle" /\ kind[c] # "local" /\ left[c] > 0
  /\ left' = [left EXCEPT ![c] = @ - 1]
  /\ Goto(c, "host")
  /\ UNCHANGED <<lifeVars, appVars, kind, disp, held, table, began>>

\* rawHostCall: lock, choose the table; without one the callback fails.
HostLock(c) ==
  /\ pc[c] = "host" /\ ~WriterWaits
  /\ table' = [table EXCEPT ![c] = api]
  /\ Goto(c, IF api = None THEN "handle" ELSE "call")
  /\ UNCHANGED <<lifeVars, appVars, kind, disp, held, left, began>>

\* host.call has returned; its response buffer is the host's.
HostReturns(c) ==
  /\ pc[c] = "call" /\ Goto(c, "free")
  /\ UNCHANGED <<lifeVars, appVars, kind, disp, held, table, left, began>>

\* The response is copied, the buffer freed through the same table, the lock
\* released.
HostUnlock(c) ==
  /\ pc[c] = "free"
  /\ table' = [table EXCEPT ![c] = None]
  /\ Goto(c, "handle")
  /\ UNCHANGED <<lifeVars, appVars, kind, disp, held, left, began>>

\* Mutant: no deferred Unlock.
FinishLocked(c) ==
  /\ pc[c] = "handle"
  /\ Goto(c, "idle")
  /\ UNCHANGED <<lifeVars, appVars, kind, disp, held, table, left, began>>

\* The handler answers, or panics and is recovered: both run the deferred
\* Unlock.
Finish(c) ==
  /\ pc[c] = "handle"
  /\ held' = [held EXCEPT ![c] = FALSE]
  /\ disp' = [disp EXCEPT ![c] = None]
  /\ Goto(c, "idle")
  /\ UNCHANGED <<lifeVars, appVars, kind, table, left, began>>

-----------------------------------------------------------------------------
\* What the plugin's own code does next on call c's thread.
Work(c) ==
  \/ ReadDispatcher(c) \/ initializePlugin(c) \/ Reread(c) \/ LockMutation(c)
  \/ NeedHost(c) \/ HostLock(c) \/ HostReturns(c) \/ HostUnlock(c) \/ Finish(c)

Lifecycle ==
  PluginInit \/ storeHostAPI \/ shutdownPlugin \/ RequestClear \/ clearHostAPI \/ FreeTable

Next == Lifecycle \/ \E c \in Calls : Begin(c) \/ Work(c)

Spec == Init /\ [][Next]_vars

\* Threads run and host callbacks return.  A mutex that is free again and again is
\* granted: Go's sync.Mutex does not starve a waiter.
Fairness ==
  /\ \A c \in Calls : WF_vars(Work(c)) /\ SF_vars(LockMutation(c))
  /\ WF_vars(storeHostAPI) /\ WF_vars(RequestClear) /\ WF_vars(clearHostAPI)

FairSpec == Spec /\ Fairness

-----------------------------------------------------------------------------
(* Properties.                                                             *)

\* The type invariant of the boundary; a call that reached a handler did so
\* through a dispatcher, never through nil.
TypeOK ==
  /\ life \in Lives /\ load \in Nat /\ alive \subseteq Nat /\ api \in Nat \cup {None}
  /\ dispatcher \in Nat \cup {None} /\ made \in Nat
  /\ pc \in [Calls -> Pcs] /\ kind \in [Calls -> Kinds]
  /\ disp \in [Calls -> Nat \cup {None}] /\ held \in [Calls -> BOOLEAN]
  /\ table \in [Calls -> Nat \cup {None}] /\ left \in [Calls -> Nat]
  /\ began \in [Calls -> Nat]
  /\ \A c \in Calls : pc[c] \in {"lock", "handle", "host", "call", "free"} => disp[c] \in Nat

\* From choosing the host table until its response buffer is freed through it, a
\* callback works on a table the host has not freed: shutdown cannot return in
\* between, however calls, shutdown and reload interleave.
TableInUseIsAlive == \A c \in Calls : Reading(c) => table[c] \in alive

\* The calls of one load never run two mutations at once while it lasts,
\* although the dispatcher, and with it the mutex, is built by whichever first
\* calls get there together, and a late call of an earlier load may have left one.
SerializedWhileLoaded ==
  \A c, d \in Calls :
    life = "loaded" /\ held[c] /\ held[d] /\ began[c] = load /\ began[d] = load
      => c = d

\* The contract's "mutations are serialized", of the whole process.
MutationsSerialized ==
  \A c, d \in Calls : held[c] /\ held[d] => c = d

\* A shutdown returns although calls keep coming.
ShutdownReturns == life = "closing" ~> life = "cleared"

\* No call waits forever: not for a mutation mutex, nor behind a waiting writer.
CallsReturn == \A c \in Calls : pc[c] = "read" ~> pc[c] = "idle"
=============================================================================
