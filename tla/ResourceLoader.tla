---------------------------- MODULE ResourceLoader ----------------------------
(***************************************************************************)
(* Asynchronous resource loading, src/Engine/Resources: ResourceManager,   *)
(* its AsyncResourceLoader and the flags of Resource.  A load is a task on *)
(* the pool that runs initAsync(); the main thread collects finished ones  *)
(* in update(), runs init() on them, and is the only one to request loads, *)
(* to reload and to destroy.  Worker and main thread meet in the resource: *)
(* its bInterrupted flag and its contents.                                 *)
(*                                                                         *)
(* A run of main-thread statements that touches nothing a worker writes is *)
(* one step.  The pool is any number of workers taking loads in any order. *)
(*                                                                         *)
(* waitForResource() carries out a deferred reload: it requests a load of  *)
(* the resource its caller is about to release, and perhaps to delete.     *)
(* What the code does to such a resource afterwards is undefined; the      *)
(* history variable overtaken says which resources that has happened to.   *)
(***************************************************************************)
EXTENDS Naturals, Sequences, FiniteSets, SequencesExt

CONSTANTS
  Resources,       (* the Resource objects, each created at most once      *)
  MaxLoads,        (* bound on the number of asynchronous loads            *)
  Batch            (* iLoadsPerUpdate; a low-latency update processes one  *)

ASSUME LoaderAssumption ==
  /\ IsFiniteSet(Resources) /\ Resources # {}
  /\ MaxLoads \in Nat /\ Batch \in Nat \ {0}

Loads == 1 .. MaxLoads

VARIABLES
  status,             \* "new", "live", "doomed" (to be deleted), "kept"
                      \* (destroyed without being deleted) or "freed"
  data,               \* contents: "empty", "partial", "raw" (bAsyncReady), "ready" (bReady)
  bInterrupted,       \* the resources whose flag is set
  managed,            \* vResources
  requested,          \* how many loads were requested
  target,             \* the resource of each load
  phase,              \* of each load: "none", "queued", "entered", "loading", "done"
  m_inFlight,         \* the loads not yet collected, in insertion order
  pendingReloads,     \* resources to reload when their load completes
  asyncDestroyQueue,  \* resources to destroy when their load completes
  bShuttingDown,
  pc,                 \* where the main thread is
  readyResources,     \* local to update(): the resources it collected
  index,              \* local to update(): next entry of m_inFlight, and then
                      \* of asyncDestroyQueue, to look at
  amount,             \* local to update(): amountToProcess, and then how many
                      \* more resources it may destroy
  awaited,            \* local to waitForResource(): the load it waits for
  after,              \* what the caller of waitForResource() does next
  overtaken           \* history: resources that waitForResource() requested
                      \* a load of for a caller that then releases them

vars == <<status, data, bInterrupted, managed, requested, target, phase,
          m_inFlight, pendingReloads, asyncDestroyQueue, bShuttingDown, pc,
          readyResources, index, amount, awaited, after, overtaken>>

object == <<status, data, bInterrupted>>
load == <<requested, target, phase>>
queues == <<m_inFlight, pendingReloads, asyncDestroyQueue>>
locals == <<readyResources, index, amount, awaited, after, overtaken>>

Init ==
  /\ status = [r \in Resources |-> "new"]
  /\ data = [r \in Resources |-> "empty"]
  /\ bInterrupted = {} /\ managed = {}
  /\ requested = 0
  /\ target = [j \in Loads |-> CHOOSE r \in Resources : TRUE]
  /\ phase = [j \in Loads |-> "none"]
  /\ m_inFlight = <<>> /\ pendingReloads = {} /\ asyncDestroyQueue = <<>>
  /\ bShuttingDown = FALSE
  /\ pc = "idle"
  /\ readyResources = <<>> /\ index = 1 /\ amount = 1 /\ awaited = 0
  /\ after = "none" /\ overtaken = {}

isLoadingResource(r) == \E j \in ToSet(m_inFlight) : target[j] = r
PositionOf(r) == CHOOSE i \in DOMAIN m_inFlight : target[m_inFlight[i]] = r
Unfinished(j) == phase[j] \in {"queued", "entered", "loading"}

-----------------------------------------------------------------------------
(* The pool task of requestAsyncLoad: test bInterrupted, then loadAsync(), *)
(* which clears it and runs initAsync().  initAsync may fail or give up.   *)

CheckInterrupted(j) ==
  /\ phase[j] = "queued"
  /\ phase' = [phase EXCEPT ![j] = IF target[j] \in bInterrupted THEN "done"
                                   ELSE "entered"]
  /\ UNCHANGED <<object, managed, requested, target, queues, bShuttingDown,
                 pc, locals>>

LoadAsync(j) ==
  /\ phase[j] = "entered"
  /\ phase' = [phase EXCEPT ![j] = "loading"]
  /\ bInterrupted' = bInterrupted \ {target[j]}
  /\ data' = [data EXCEPT ![target[j]] = "partial"]
  /\ UNCHANGED <<status, managed, requested, target, queues, bShuttingDown,
                 pc, locals>>

InitAsyncReturns(j) ==
  /\ phase[j] = "loading"
  /\ phase' = [phase EXCEPT ![j] = "done"]
  /\ \E result \in {"raw", "empty"} : data' = [data EXCEPT ![target[j]] = result]
  /\ UNCHANGED <<status, bInterrupted, managed, requested, target, queues,
                 bShuttingDown, pc, locals>>

WorkerStep(j) == CheckInterrupted(j) \/ LoadAsync(j) \/ InitAsyncReturns(j)

-----------------------------------------------------------------------------
(* The bound on loads, with one left for every deferred reload.            *)
WithinBound == requested + Cardinality(pendingReloads) < MaxLoads

(* requestAsyncLoad appends to inFlight; it does nothing while shutting    *)
(* down.                                                                   *)
Request(r, inFlight) ==
  IF bShuttingDown
  THEN UNCHANGED load /\ m_inFlight' = inFlight
  ELSE /\ requested' = requested + 1
       /\ target' = [target EXCEPT ![requested + 1] = r]
       /\ phase' = [phase EXCEPT ![requested + 1] = "queued"]
       /\ m_inFlight' = Append(inFlight, requested + 1)

(* loadResource(): a new resource, loaded on the spot or by the pool.      *)
LoadResource(r) ==
  /\ pc = "idle" /\ status[r] = "new"
  /\ status' = [status EXCEPT ![r] = "live"]
  /\ managed' \in {managed, managed \cup {r}}
  /\ \/ WithinBound /\ Request(r, m_inFlight) /\ UNCHANGED data
     \/ /\ \E result \in {"ready", "empty"} : data' = [data EXCEPT ![r] = result]
        /\ UNCHANGED <<load, m_inFlight>>
  /\ UNCHANGED <<bInterrupted, pendingReloads, asyncDestroyQueue,
                 bShuttingDown, pc, locals>>

(* reloadResources(async): defer while the resource is loading.            *)
(* Bug: a resource that is loading is loaded again at once.                *)
ReloadAsyncAtOnce(r) ==
  /\ pc = "idle" /\ status[r] = "live" /\ WithinBound
  /\ data' = [data EXCEPT ![r] = "empty"]
  /\ bInterrupted' = bInterrupted \ {r}
  /\ Request(r, m_inFlight)
  /\ UNCHANGED <<status, pendingReloads, managed, asyncDestroyQueue,
                 bShuttingDown, pc, locals>>

ReloadAsync(r) ==
  /\ pc = "idle" /\ status[r] = "live" /\ WithinBound
  /\ \/ /\ isLoadingResource(r)
        /\ pendingReloads' = pendingReloads \cup {r}
        /\ UNCHANGED <<object, load, m_inFlight>>
     \/ /\ ~isLoadingResource(r)
        /\ data' = [data EXCEPT ![r] = "empty"]
        /\ bInterrupted' = bInterrupted \ {r}
        /\ Request(r, m_inFlight)
        /\ UNCHANGED <<status, pendingReloads>>
  /\ UNCHANGED <<managed, asyncDestroyQueue, bShuttingDown, pc, locals>>

(* waitForResource() takes the load out of m_inFlight and blocks on it.    *)
WaitFor(r, next) ==
  /\ awaited' = m_inFlight[PositionOf(r)]
  /\ m_inFlight' = RemoveAt(m_inFlight, PositionOf(r))
  /\ after' = next
  /\ pc' = "wait"
  /\ UNCHANGED <<readyResources, index, amount, overtaken>>

(* ResourceManager::waitForResource() only waits; when the resource is not *)
(* loading it returns at once.                                             *)
WaitForResource(r) ==
  /\ pc = "idle" /\ status[r] = "live" /\ isLoadingResource(r)
  /\ WaitFor(r, "nothing")
  /\ UNCHANGED <<object, managed, load, pendingReloads, asyncDestroyQueue,
                 bShuttingDown>>

(* The other callers interrupt the load first.                             *)
Blocks(r, next) ==
  /\ isLoadingResource(r)
  /\ bInterrupted' = bInterrupted \cup {r}
  /\ WaitFor(r, next)
  /\ UNCHANGED <<data, load, pendingReloads, asyncDestroyQueue>>

(* reloadResources(sync): release(), loadAsync() and load() on this thread.*)
ReloadSync(r) ==
  /\ pc = "idle" /\ status[r] = "live"
  /\ \/ Blocks(r, "reload") /\ UNCHANGED status
     \/ /\ ~isLoadingResource(r)
        /\ \E result \in {"ready", "empty"} : data' = [data EXCEPT ![r] = result]
        /\ bInterrupted' = bInterrupted \ {r}
        /\ UNCHANGED <<status, load, queues, pc, locals>>
  /\ UNCHANGED <<managed, bShuttingDown>>

-----------------------------------------------------------------------------
(* destroyResource(): fate is "freed", or "kept" with RDF_NODELETE, which  *)
(* blocks as RDF_FORCE_BLOCKING does.                                      *)
ReleaseNow(r, fate) ==
  /\ data' = [data EXCEPT ![r] = "empty"]
  /\ bInterrupted' = bInterrupted \ {r}
  /\ status' = [status EXCEPT ![r] = fate]

(* Bug: the deferred reload is forgotten.                                  *)
DestroyLaterKeepsReload(r) ==
  /\ isLoadingResource(r)
  /\ bInterrupted' = bInterrupted \cup {r}
  /\ status' = [status EXCEPT ![r] = "doomed"]
  /\ asyncDestroyQueue' = Append(asyncDestroyQueue, r)
  /\ UNCHANGED <<data, load, m_inFlight, pendingReloads, pc, locals>>

DestroyLater(r) ==
  /\ isLoadingResource(r)
  /\ bInterrupted' = bInterrupted \cup {r}
  /\ status' = [status EXCEPT ![r] = "doomed"]
  /\ pendingReloads' = pendingReloads \ {r}
  /\ asyncDestroyQueue' = Append(asyncDestroyQueue, r)
  /\ UNCHANGED <<data, load, m_inFlight, pc, locals>>

DestroyNow(r, fate) ==
  \/ /\ Blocks(r, fate)
     /\ status' = [status EXCEPT ![r] = IF fate = "kept" THEN "kept" ELSE "doomed"]
  \/ /\ ~isLoadingResource(r)
     /\ ReleaseNow(r, fate)
     /\ UNCHANGED <<load, queues, pc, locals>>

Destroy(r) ==
  /\ pc = "idle" /\ status[r] = "live"
  /\ \/ DestroyLater(r)
     \/ DestroyNow(r, "freed")
     \/ DestroyNow(r, "kept")
  /\ managed' = managed \ {r}
  /\ UNCHANGED bShuttingDown

-----------------------------------------------------------------------------
(* init() makes a resource ready if its asynchronous part succeeded.       *)
Initialised(r) == IF data[r] = "raw" THEN "ready" ELSE data[r]

(* The rest of waitForResource(), and then of its caller.                  *)
(* Bug: the future is not waited for.                                      *)
WaitEndsAtOnce ==
  LET r == target[awaited] IN
  /\ pc = "wait"
  /\ pc' = "afterWait"
  /\ data' = [data EXCEPT ![r] = IF r \in bInterrupted THEN @ ELSE Initialised(r)]
  /\ UNCHANGED <<status, bInterrupted, managed, load, queues, bShuttingDown, locals>>

WaitEnds ==
  LET r == target[awaited] IN
  /\ pc = "wait" /\ phase[awaited] = "done"
  /\ pc' = "afterWait"
  /\ IF r \in pendingReloads
     THEN /\ pendingReloads' = pendingReloads \ {r}
          /\ data' = [data EXCEPT ![r] = "empty"]
          /\ bInterrupted' = bInterrupted \ {r}
          /\ Request(r, m_inFlight)
          /\ overtaken' = overtaken \cup (IF after = "nothing" THEN {} ELSE {r})
     ELSE /\ data' = [data EXCEPT ![r] = IF r \in bInterrupted THEN @ ELSE Initialised(r)]
          /\ UNCHANGED <<bInterrupted, pendingReloads, load, m_inFlight, overtaken>>
  /\ UNCHANGED <<status, managed, asyncDestroyQueue, bShuttingDown, readyResources,
                 index, amount, awaited, after>>

(* Bug: the entry is not cleared.                                          *)
AfterWaitKeepsEntry ==
  LET r == target[awaited] IN
  /\ pc = "afterWait" /\ pc' = "idle"
  /\ ReleaseNow(r, "freed")
  /\ UNCHANGED <<managed, load, queues, bShuttingDown, locals>>

AfterWait ==
  LET r == target[awaited] IN
  /\ pc = "afterWait"
  /\ pc' = IF after = "close" THEN "closing" ELSE "idle"
  /\ \/ after = "nothing" /\ UNCHANGED object
     \/ /\ after \notin {"nothing", "reload"}
        /\ ReleaseNow(r, IF after = "kept" THEN "kept" ELSE "freed")
     \/ /\ after = "reload"
        /\ \E result \in {"ready", "empty"} : data' = [data EXCEPT ![r] = result]
        /\ bInterrupted' = bInterrupted \ {r}
        /\ UNCHANGED status
  /\ awaited' = 0 /\ after' = "none"
  /\ UNCHANGED <<managed, load, queues, bShuttingDown, readyResources, index,
                 amount, overtaken>>

-----------------------------------------------------------------------------
(* update(), once per frame: collect, then init, then deferred reloads,    *)
(* then deferred destroys, each at most amountToProcess.                   *)

StartUpdate ==
  /\ pc = "idle"
  /\ amount' \in {1, Batch}
  /\ index' = 1 /\ readyResources' = <<>>
  /\ pc' = "collect"
  /\ UNCHANGED <<object, managed, load, queues, bShuttingDown, awaited, after, overtaken>>

Collecting == index <= Len(m_inFlight) /\ Len(readyResources) < amount

CollectEntry ==
  /\ pc = "collect" /\ Collecting
  /\ LET j == m_inFlight[index] IN
       IF phase[j] = "done"
       THEN /\ m_inFlight' = RemoveAt(m_inFlight, index)
            /\ readyResources' = IF target[j] \in bInterrupted THEN readyResources
                                 ELSE Append(readyResources, target[j])
            /\ UNCHANGED index
       ELSE index' = index + 1 /\ UNCHANGED <<m_inFlight, readyResources>>
  /\ UNCHANGED <<object, managed, load, pendingReloads, asyncDestroyQueue,
                 bShuttingDown, pc, amount, awaited, after, overtaken>>

InitCollected ==
  /\ pc = "collect" /\ ~Collecting
  /\ data' = [r \in Resources |->
                IF r \in ToSet(readyResources) THEN Initialised(r) ELSE data[r]]
  /\ pc' = "reload"
  /\ UNCHANGED <<status, bInterrupted, managed, load, queues, bShuttingDown,
                 locals>>

ReloadCollected ==
  LET r == Head(readyResources) IN
  /\ pc = "reload" /\ readyResources # <<>>
  /\ readyResources' = Tail(readyResources)
  /\ IF r \in pendingReloads
     THEN /\ pendingReloads' = pendingReloads \ {r}
          /\ data' = [data EXCEPT ![r] = "empty"]
          /\ bInterrupted' = bInterrupted \ {r}
          /\ Request(r, m_inFlight)
     ELSE UNCHANGED <<data, bInterrupted, pendingReloads, load, m_inFlight>>
  /\ UNCHANGED <<status, managed, asyncDestroyQueue, bShuttingDown, pc,
                 index, amount, awaited, after, overtaken>>

ReloadsEnd ==
  /\ pc = "reload" /\ readyResources = <<>>
  /\ pc' = "destroy" /\ index' = 1
  /\ UNCHANGED <<object, managed, load, queues, bShuttingDown, readyResources,
                 amount, awaited, after, overtaken>>

Release(rs) ==
  /\ data' = [r \in Resources |-> IF r \in rs THEN "empty" ELSE data[r]]
  /\ status' = [r \in Resources |-> IF r \in rs THEN "freed" ELSE status[r]]
  /\ bInterrupted' = bInterrupted \ rs

(* Bug: off by one.                                                        *)
DestroyingFewer == index <= Len(asyncDestroyQueue) /\ amount > 1

Destroying == index <= Len(asyncDestroyQueue) /\ amount > 0

(* Bug: a load in flight is not waited for.                                *)
DestroyEntryAtOnce ==
  /\ pc = "destroy" /\ Destroying
  /\ Release({asyncDestroyQueue[index]})
  /\ asyncDestroyQueue' = RemoveAt(asyncDestroyQueue, index)
  /\ amount' = amount - 1
  /\ UNCHANGED <<managed, load, m_inFlight, pendingReloads, bShuttingDown, pc,
                 readyResources, index, awaited, after, overtaken>>

(* The code collects the entries and then deletes them: the same, since no *)
(* worker is left on what it collects.                                     *)
DestroyEntry ==
  /\ pc = "destroy" /\ Destroying
  /\ LET r == asyncDestroyQueue[index] IN
       IF isLoadingResource(r)
       THEN index' = index + 1 /\ UNCHANGED <<object, asyncDestroyQueue, amount>>
       ELSE /\ Release({r})
            /\ asyncDestroyQueue' = RemoveAt(asyncDestroyQueue, index)
            /\ amount' = amount - 1
            /\ UNCHANGED index
  /\ UNCHANGED <<managed, load, m_inFlight, pendingReloads, bShuttingDown, pc,
                 readyResources, awaited, after, overtaken>>

EndUpdate ==
  /\ pc = "destroy" /\ ~Destroying
  /\ pc' = "idle" /\ index' = 1 /\ amount' = 1
  /\ UNCHANGED <<object, managed, load, queues, bShuttingDown, readyResources,
                 awaited, after, overtaken>>

-----------------------------------------------------------------------------
(* ~ResourceManager(): destroy every managed resource, blocking, then shut *)
(* the loader down: interrupt, wait for all loads, clear, destroy the rest.*)

StartClose ==
  /\ pc = "idle"
  /\ pc' = "closing"
  /\ UNCHANGED <<object, managed, load, queues, bShuttingDown, locals>>

CloseManaged(r) ==
  /\ pc = "closing" /\ r \in managed
  /\ managed' = managed \ {r}
  /\ \/ Blocks(r, "close") /\ status' = [status EXCEPT ![r] = "doomed"]
     \/ /\ ~isLoadingResource(r)
        /\ ReleaseNow(r, "freed")
        /\ UNCHANGED <<load, queues, pc, locals>>
  /\ UNCHANGED bShuttingDown

ShutdownLoader ==
  /\ pc = "closing" /\ managed = {}
  /\ bShuttingDown' = TRUE
  /\ bInterrupted' = bInterrupted \cup {target[j] : j \in ToSet(m_inFlight)}
  /\ pc' = "drain"
  /\ UNCHANGED <<status, data, managed, load, queues, locals>>

(* Bug: the deferred destroys are dropped.                                 *)
ShutdownEndsDropping ==
  /\ pc = "drain" /\ \A j \in ToSet(m_inFlight) : phase[j] = "done"
  /\ m_inFlight' = <<>> /\ pendingReloads' = {} /\ asyncDestroyQueue' = <<>>
  /\ pc' = "closed"
  /\ UNCHANGED <<object, managed, load, bShuttingDown, locals>>

ShutdownEnds ==
  /\ pc = "drain" /\ \A j \in ToSet(m_inFlight) : phase[j] = "done"
  /\ m_inFlight' = <<>> /\ pendingReloads' = {} /\ asyncDestroyQueue' = <<>>
  /\ Release(ToSet(asyncDestroyQueue))
  /\ pc' = "closed"
  /\ UNCHANGED <<managed, load, bShuttingDown, locals>>

-----------------------------------------------------------------------------
UpdateStep ==
  \/ StartUpdate \/ CollectEntry \/ InitCollected \/ ReloadCollected
  \/ ReloadsEnd \/ DestroyEntry \/ EndUpdate
WaitStep == WaitEnds \/ AfterWait
CloseStep == (\E r \in Resources : CloseManaged(r)) \/ ShutdownLoader \/ ShutdownEnds

Next ==
  \/ \E j \in Loads : WorkerStep(j)
  \/ \E r \in Resources : LoadResource(r) \/ ReloadAsync(r) \/ ReloadSync(r) \/ Destroy(r)
                           \/ WaitForResource(r)
  \/ UpdateStep \/ WaitStep \/ StartClose \/ CloseStep

Spec == Init /\ [][Next]_vars

(* The pool runs every load, and the engine calls update() every frame.    *)
Fairness ==
  /\ \A j \in Loads : WF_vars(WorkerStep(j))
  /\ WF_vars(UpdateStep \/ WaitStep \/ CloseStep)
  /\ SF_vars(StartUpdate)
FairSpec == Spec /\ Fairness

-----------------------------------------------------------------------------
(* Types, and that the bookkeeping of loads is dense.                      *)
TypeOK ==
  /\ status \in [Resources -> {"new", "live", "doomed", "kept", "freed"}]
  /\ data \in [Resources -> {"empty", "partial", "raw", "ready"}]
  /\ bInterrupted \subseteq Resources /\ managed \subseteq Resources
  /\ requested \in 0 .. MaxLoads
  /\ target \in [Loads -> Resources]
  /\ phase \in [Loads -> {"none", "queued", "entered", "loading", "done"}]
  /\ \A j \in Loads : (phase[j] = "none") <=> j > requested
  /\ m_inFlight \in Seq(Loads) /\ asyncDestroyQueue \in Seq(Resources)
  /\ pendingReloads \subseteq Resources
  /\ bShuttingDown \in BOOLEAN
  /\ pc \in {"idle", "collect", "reload", "destroy", "wait", "afterWait", "closing", "drain", "closed"}
  /\ readyResources \in Seq(Resources)
  /\ index \in Nat \ {0} /\ amount \in 0 .. Batch
  /\ awaited \in Loads \cup {0}
  /\ (awaited \in Loads) <=> pc \in {"wait", "afterWait"}
  /\ after \in {"none", "nothing", "reload", "freed", "kept", "close"}
  /\ overtaken \subseteq Resources

(* No dangling pointer: whatever the loader or a pool task still refers to *)
(* has not been deleted, but for what waitForResource() requested while    *)
(* its caller was destroying it.                                           *)
Referenced ==
  {target[j] : j \in {i \in Loads : Unfinished(i)} \cup ToSet(m_inFlight)}
    \cup pendingReloads \cup ToSet(asyncDestroyQueue) \cup ToSet(readyResources)
    \cup managed
NoUseAfterFree ==
  \A r \in Referenced : status[r] \in {"new", "freed"} => r \in overtaken

(* A resource is loaded by one task at a time, and the loader knows it:    *)
(* update() or waitForResource() will collect it.                          *)
OneLoadAtATime ==
  \A i, j \in Loads : Unfinished(i) =>
    /\ i \in ToSet(m_inFlight) \cup {awaited}
    /\ Unfinished(j) /\ target[i] = target[j] => i = j

(* While initAsync() runs on a resource, the main thread leaves it alone,  *)
(* unless waitForResource() had it loaded behind its caller's back.        *)
LoadingUndisturbed ==
  [][\A r \in Resources \ overtaken : data[r] = "partial" /\ data'[r] # "partial" =>
       \E j \in Loads : target[j] = r /\ phase[j] = "loading" /\ phase'[j] = "done"]_vars

(* "destroy cancels any pending reload": a destroyed resource is not       *)
(* requested again, whenever its load ends, unless by waitForResource().   *)
DestroyCancelsReload ==
  [][requested' > requested =>
       \/ status[target'[requested']] \notin {"doomed", "freed"}
       \/ target'[requested'] \in overtaken']_vars

(* Every destroy that had to wait for a load is carried out, whatever else *)
(* the program requests in the meantime.                                   *)
DoomedIsFreed == \A r \in Resources : status[r] = "doomed" ~> status[r] = "freed"

(* A deferred reload is carried out, or overtaken by a destroy.            *)
DeferredReloadHappens == \A r \in Resources : r \in pendingReloads ~> r \notin pendingReloads

(* Closing leaves no load running and nothing that was handed over for     *)
(* destruction.                                                            *)
ClosedIsQuiet ==
  pc = "closed" => /\ \A j \in Loads : ~Unfinished(j)
                   /\ \A r \in Resources : status[r] # "doomed"
=============================================================================
