-------------------------- MODULE PluginAbiProofs ---------------------------
(***************************************************************************)
(* Proofs about PluginAbi: a callback's table is alive, and the mutations  *)
(* of one load are serialized, for any number of host threads and loads.   *)
(***************************************************************************)
EXTENDS PluginAbi, TLAPS

Handling == {"lock", "handle", "host", "call", "free"}

\* The boundary starts well typed, with no dispatcher and no table.
LEMMA TypesInit == Init => TypeOK
BY PluginAbiConstants DEF Init, TypeOK, Lives, Pcs, Kinds

\* Every step keeps the types, and no call handles a request without a dispatcher.
LEMMA TypesStep ==
  ASSUME TypeOK, [Next]_vars
  PROVE  TypeOK'
<1> USE PluginAbiConstants DEF TypeOK, lifeVars, appVars, callVars
<1>1. CASE Lifecycle
  <2>1. CASE PluginInit
    BY <2>1 DEF PluginInit, Lives
  <2>2. CASE storeHostAPI
    BY <2>2 DEF storeHostAPI, Lives
  <2>3. CASE shutdownPlugin
    BY <2>3 DEF shutdownPlugin, Lives
  <2>4. CASE RequestClear \/ clearHostAPI
    BY <2>4 DEF RequestClear, clearHostAPI, Lives
  <2>5. CASE FreeTable
    BY <2>5 DEF FreeTable, Lives
  <2> QED BY <1>1, <2>1, <2>2, <2>3, <2>4, <2>5 DEF Lifecycle
<1>2. ASSUME NEW c \in Calls, Begin(c) PROVE TypeOK'
  <2>1. Dispatched \subseteq Kinds
    BY DEF Dispatched, Dispatch, Handle, Kinds
  <2> QED BY <1>2, <2>1 DEF Begin, Goto, Pcs
<1>3. ASSUME NEW c \in Calls, ReadDispatcher(c) PROVE TypeOK'
  BY <1>3 DEF ReadDispatcher, Take, Goto, Pcs
<1>4. ASSUME NEW c \in Calls, initializePlugin(c) PROVE TypeOK'
  BY <1>4 DEF initializePlugin, Goto, Pcs
<1>5. ASSUME NEW c \in Calls, Reread(c) PROVE TypeOK'
  BY <1>5 DEF Reread, Take, Goto, Pcs
<1>6. ASSUME NEW c \in Calls, LockMutation(c) PROVE TypeOK'
  BY <1>6 DEF LockMutation, Goto, Pcs
<1>7. ASSUME NEW c \in Calls, NeedHost(c) PROVE TypeOK'
  BY <1>7 DEF NeedHost, Goto, Pcs
<1>8. ASSUME NEW c \in Calls, HostLock(c) PROVE TypeOK'
  BY <1>8 DEF HostLock, Goto, Pcs
<1>9. ASSUME NEW c \in Calls, HostReturns(c) PROVE TypeOK'
  BY <1>9 DEF HostReturns, Goto, Pcs
<1>10. ASSUME NEW c \in Calls, HostUnlock(c) PROVE TypeOK'
  BY <1>10 DEF HostUnlock, Goto, Pcs
<1>11. ASSUME NEW c \in Calls, Finish(c) PROVE TypeOK'
  BY <1>11 DEF Finish, Goto, Pcs
<1>12. CASE UNCHANGED vars
  BY <1>12 DEF vars
<1> QED
  BY <1>1, <1>2, <1>3, <1>4, <1>5, <1>6, <1>7, <1>8, <1>9, <1>10, <1>11, <1>12
     DEF Next, Work

\* No call reaches a handler, its mutex or a callback without a dispatcher, on any
\* number of threads and however often the plugin is loaded and shut down.
THEOREM AbiTypesAlwaysOK == Spec => []TypeOK
BY TypesInit, TypesStep, PTL DEF Spec

-----------------------------------------------------------------------------
(* The host table.                                                         *)

\* The stored table is the current load's, alive, and the one every reader has.
TableInv ==
  /\ life # "unloaded" => load \in alive
  /\ api # None => api = load /\ life \in {"loaded", "closing", "clearing"}
  /\ \A c \in Calls : Reading(c) => table[c] = api /\ api # None

\* Every step of calls, callbacks, load and shutdown keeps TableInv.
LEMMA TableStep ==
  ASSUME TypeOK, TableInv, [Next]_vars
  PROVE  TableInv'
<1> USE PluginAbiConstants DEF TypeOK, TableInv, Reading, lifeVars, appVars, callVars
<1>1. CASE PluginInit
  BY <1>1 DEF PluginInit
<1>2. CASE storeHostAPI
  BY <1>2 DEF storeHostAPI, NoReaders
<1>3. CASE shutdownPlugin \/ RequestClear
  BY <1>3 DEF shutdownPlugin, RequestClear
<1>4. CASE clearHostAPI
  BY <1>4 DEF clearHostAPI, NoReaders
<1>5. CASE FreeTable
  BY <1>5 DEF FreeTable
<1>6. ASSUME NEW c \in Calls,
             \/ Begin(c) \/ ReadDispatcher(c) \/ initializePlugin(c) \/ Reread(c)
             \/ LockMutation(c) \/ NeedHost(c) \/ Finish(c)
      PROVE  TableInv'
  <2>1. /\ UNCHANGED <<life, load, alive, api, table>>
        /\ pc'[c] \notin {"call", "free"}
        /\ \A d \in Calls \ {c} : pc'[d] = pc[d]
    BY <1>6 DEF Begin, ReadDispatcher, initializePlugin, Reread, Take, LockMutation,
       NeedHost, Finish, Goto
  <2> QED BY <2>1
<1>7. ASSUME NEW c \in Calls, HostLock(c) PROVE TableInv'
  BY <1>7 DEF HostLock, Goto
<1>8. ASSUME NEW c \in Calls, HostReturns(c) PROVE TableInv'
  BY <1>8 DEF HostReturns, Goto
<1>9. ASSUME NEW c \in Calls, HostUnlock(c) PROVE TableInv'
  BY <1>9 DEF HostUnlock, Goto
<1>10. CASE UNCHANGED vars
  BY <1>10 DEF vars
<1> QED
  BY <1>1, <1>2, <1>3, <1>4, <1>5, <1>6, <1>7, <1>8, <1>9, <1>10
     DEF Next, Lifecycle, Work

\* rawHostCall never works on a table the host has freed: shutdown's write lock
\* waits for every callback, its copy and its buffer.
THEOREM TableAlwaysAlive == Spec => []TableInUseIsAlive
<1>1. Init => TypeOK /\ TableInv
  BY TypesInit DEF Init, TableInv, Reading
<1>2. TypeOK /\ TableInv /\ [Next]_vars => (TypeOK /\ TableInv)'
  BY TypesStep, TableStep
<1>3. TypeOK /\ TableInv => TableInUseIsAlive
  BY DEF TableInv, TableInUseIsAlive
<1> QED BY <1>1, <1>2, <1>3, PTL DEF Spec

-----------------------------------------------------------------------------
(* Mutations of one load.                                                  *)

SerialInv ==
  /\ \A c \in Calls : began[c] <= load
  /\ life = "storing" => \A c \in Calls : began[c] # load
  /\ \A c \in Calls : held[c] => pc[c] \in Handling \ {"lock"}
  /\ \A c, d \in Calls : held[c] /\ held[d] /\ disp[c] = disp[d] => c = d
  /\ \A c \in Calls :
       life = "loaded" /\ began[c] = load /\ pc[c] \in Handling => disp[c] = dispatcher

\* Every step keeps SerialInv.
LEMMA SerialStep ==
  ASSUME TypeOK, SerialInv, [Next]_vars
  PROVE  SerialInv'
<1> USE PluginAbiConstants DEF TypeOK, SerialInv, Handling, lifeVars, appVars, callVars
<1>1. CASE PluginInit
  BY <1>1 DEF PluginInit
<1>2. CASE storeHostAPI
  BY <1>2 DEF storeHostAPI
<1>3. CASE shutdownPlugin \/ RequestClear \/ clearHostAPI \/ FreeTable
  BY <1>3 DEF shutdownPlugin, RequestClear, clearHostAPI, FreeTable
<1>4. ASSUME NEW c \in Calls, Begin(c) PROVE SerialInv'
  BY <1>4 DEF Begin, Goto
<1>5. ASSUME NEW c \in Calls, ReadDispatcher(c) \/ Reread(c) PROVE SerialInv'
  <2>1. /\ ~held[c] /\ UNCHANGED <<life, load, dispatcher, held, began>>
        /\ \A d \in Calls \ {c} : pc'[d] = pc[d] /\ disp'[d] = disp[d]
        /\ pc'[c] \in Handling => disp'[c] = dispatcher
    BY <1>5 DEF ReadDispatcher, Reread, Take, Goto
  <2> QED BY <2>1
<1>6. ASSUME NEW c \in Calls, initializePlugin(c) PROVE SerialInv'
  <2>1. /\ pc[c] = "init" /\ pc'[c] = "reread" /\ UNCHANGED <<life, load, held, disp, began>>
        /\ dispatcher # None => dispatcher' = dispatcher
        /\ \A d \in Calls \ {c} : pc'[d] = pc[d]
    BY <1>6 DEF initializePlugin, Goto
  <2>2. \A d \in Calls : pc[d] \in Handling => disp[d] # None
    OBVIOUS
  <2> QED BY <2>1, <2>2
<1>7. ASSUME NEW c \in Calls, LockMutation(c) PROVE SerialInv'
  BY <1>7 DEF LockMutation, Goto
<1>8. ASSUME NEW c \in Calls,
             NeedHost(c) \/ HostLock(c) \/ HostReturns(c) \/ HostUnlock(c)
      PROVE  SerialInv'
  <2>1. /\ UNCHANGED <<life, load, dispatcher, held, disp, began>>
        /\ pc[c] \in Handling \ {"lock"} /\ pc'[c] \in Handling \ {"lock"}
        /\ \A d \in Calls \ {c} : pc'[d] = pc[d]
    BY <1>8 DEF NeedHost, HostLock, HostReturns, HostUnlock, Goto
  <2> QED BY <2>1
<1>9. ASSUME NEW c \in Calls, Finish(c) PROVE SerialInv'
  <2>1. /\ UNCHANGED <<life, load, dispatcher, began>>
        /\ ~held'[c] /\ pc'[c] = "idle"
        /\ \A d \in Calls \ {c} : pc'[d] = pc[d] /\ held'[d] = held[d] /\ disp'[d] = disp[d]
    BY <1>9 DEF Finish, Goto
  <2> QED BY <2>1
<1>10. CASE UNCHANGED vars
  BY <1>10 DEF vars
<1> QED
  BY <1>1, <1>2, <1>3, <1>4, <1>5, <1>6, <1>7, <1>8, <1>9, <1>10
     DEF Next, Lifecycle, Work

\* The lazily built dispatcher is unique while a load lasts, so its mutation mutex
\* excludes every pair of that load's import and revalidation handlers.
THEOREM LoadAlwaysSerialized == Spec => []SerializedWhileLoaded
<1>1. Init => TypeOK /\ SerialInv
  BY TypesInit DEF Init, SerialInv, Handling
<1>2. TypeOK /\ SerialInv /\ [Next]_vars => (TypeOK /\ SerialInv)'
  BY TypesStep, SerialStep
<1>3. TypeOK /\ SerialInv => SerializedWhileLoaded
  BY DEF SerialInv, SerializedWhileLoaded, Handling
<1> QED BY <1>1, <1>2, <1>3, PTL DEF Spec
=============================================================================
