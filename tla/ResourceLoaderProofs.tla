------------------------- MODULE ResourceLoaderProofs -------------------------
(***************************************************************************)
(* Proofs about ResourceLoader, for any number of resources and loads.     *)
(*                                                                         *)
(* LoadsInv is about the loads: those that are not finished are the ones   *)
(* in m_inFlight and the awaited one, and no two are of one resource.      *)
(* ObjectsInv is about what the loader still refers to: it has not been    *)
(* deleted, unless waitForResource() requested its load for a caller that  *)
(* was about to release it (overtaken).                                    *)
(***************************************************************************)
EXTENDS ResourceLoader, FiniteSetTheorems, TLAPS

Waiting == pc \in {"wait", "afterWait"}

(* The loads not yet collected: of different resources, that exist.        *)
InFlightOK ==
  /\ \A i, k \in DOMAIN m_inFlight : target[m_inFlight[i]] = target[m_inFlight[k]] => i = k
  /\ \A i \in DOMAIN m_inFlight :
       m_inFlight[i] <= requested /\ status[target[m_inFlight[i]]] # "new"
  /\ pc = "wait" => \A i \in DOMAIN m_inFlight : target[m_inFlight[i]] # target[awaited]
  /\ \A j \in Loads : Unfinished(j) =>
       \/ \E i \in DOMAIN m_inFlight : m_inFlight[i] = j
       \/ pc = "wait" /\ awaited = j
  /\ Waiting => awaited <= requested /\ status[target[awaited]] # "new"

(* What update() has collected is not loading until it is reloaded.        *)
ReadyOK ==
  /\ \A i, k \in DOMAIN readyResources : readyResources[i] = readyResources[k] => i = k
  /\ \A i \in DOMAIN readyResources :
       ~isLoadingResource(readyResources[i]) /\ status[readyResources[i]] # "new"
  /\ pc \notin {"collect", "reload"} => readyResources = <<>>

(* What is to be destroyed later is in the queue, or the call that waits   *)
(* for its load destroys it.                                               *)
DoomedOK ==
  /\ \A r \in Resources : status[r] = "doomed" =>
       \/ \E i \in DOMAIN asyncDestroyQueue : asyncDestroyQueue[i] = r
       \/ Waiting /\ r = target[awaited]
  /\ Waiting /\ after \in {"nothing", "reload"} => status[target[awaited]] # "doomed"
  /\ pc = "closed" => m_inFlight = <<>> /\ asyncDestroyQueue = <<>>

Bounded == requested + Cardinality(pendingReloads) <= MaxLoads

LoadsInv == TypeOK /\ InFlightOK /\ ReadyOK /\ DoomedOK /\ Bounded

(* A deferred reload waits for a load that is awaited, or that will be     *)
(* collected, of a resource that nobody has destroyed or interrupted.      *)
PendingOK ==
  \A r \in pendingReloads :
    \/ pc = "wait" /\ r = target[awaited]
    \/ /\ status[r] = "live"
       /\ pc \in {"drain", "closed"} \/ r \notin bInterrupted
       /\ isLoadingResource(r) \/ \E i \in DOMAIN readyResources : readyResources[i] = r

InterruptedOK ==
  \A r \in bInterrupted :
    \/ status[r] = "doomed" \/ pc \in {"drain", "closed"}
    \/ Waiting /\ after # "nothing" /\ r = target[awaited]

QueueOK ==
  /\ \A i, k \in DOMAIN asyncDestroyQueue : asyncDestroyQueue[i] = asyncDestroyQueue[k] => i = k
  /\ \A i \in DOMAIN asyncDestroyQueue : status[asyncDestroyQueue[i]] = "doomed"

(* The resource whose load is awaited is in none of the loader's lists,    *)
(* until waitForResource() requests it again.                              *)
AwaitedOK ==
  Waiting =>
    /\ status[target[awaited]] \in {"live", "doomed", "kept"}
    /\ after # "none"
    /\ after \in {"nothing", "reload"} => status[target[awaited]] = "live"
    /\ after \notin {"nothing", "reload"} => target[awaited] \notin managed
    /\ \A i \in DOMAIN asyncDestroyQueue : asyncDestroyQueue[i] # target[awaited]
    /\ pc = "afterWait" =>
         /\ target[awaited] \notin pendingReloads
         /\ isLoadingResource(target[awaited]) => after = "nothing" \/ target[awaited] \in overtaken

ExistsOK ==
  /\ \A i \in DOMAIN m_inFlight :
       status[target[m_inFlight[i]]] \in {"live", "doomed"} \/ target[m_inFlight[i]] \in overtaken
  /\ \A i \in DOMAIN readyResources :
       status[readyResources[i]] \in {"live", "doomed"} \/ readyResources[i] \in overtaken
  /\ \A r \in managed : status[r] = "live"

(* Contents that are being written belong to a load that is writing them.  *)
PartialOK ==
  \A r \in Resources : data[r] = "partial" => \E j \in Loads : target[j] = r /\ phase[j] = "loading"

ObjectsInv == PendingOK /\ InterruptedOK /\ QueueOK /\ AwaitedOK /\ ExistsOK /\ PartialOK

-----------------------------------------------------------------------------
(* The lists of the loader.                                                *)
LEMMA RemoveAtFacts ==
  ASSUME NEW S, NEW s \in Seq(S), NEW i \in DOMAIN s
  PROVE  /\ RemoveAt(s, i) \in Seq(S) /\ Len(RemoveAt(s, i)) = Len(s) - 1
         /\ DOMAIN RemoveAt(s, i) = 1 .. Len(s) - 1
         /\ \A k \in 1 .. Len(s) - 1 : RemoveAt(s, i)[k] = IF k < i THEN s[k] ELSE s[k + 1]
<1> DEFINE a == SubSeq(s, 1, i - 1)
           b == SubSeq(s, i + 1, Len(s))
<1>1. a \in Seq(S) /\ Len(a) = i - 1 /\ \A k \in 1 .. i - 1 : a[k] = s[k]
  OBVIOUS
<1>2. b \in Seq(S) /\ Len(b) = Len(s) - i /\ \A k \in 1 .. Len(s) - i : b[k] = s[k + i]
  OBVIOUS
<1>3. RemoveAt(s, i) = a \o b
  BY DEF RemoveAt
<1> HIDE DEF a, b
<1>4. a \o b \in Seq(S) /\ Len(a \o b) = Len(s) - 1
  BY <1>1, <1>2
<1>5. ASSUME NEW k \in 1 .. Len(s) - 1 PROVE (a \o b)[k] = IF k < i THEN s[k] ELSE s[k + 1]
  <2>1. CASE k < i
    BY <1>1, <1>2, <2>1
  <2>2. CASE ~(k < i)
    <3>1. k - Len(a) \in 1 .. Len(s) - i /\ (k - Len(a)) + i = k + 1
      BY <1>1, <2>2
    <3>2. (a \o b)[k] = b[k - Len(a)]
      BY <1>1, <1>2, <2>2
    <3>3. QED
      BY <1>2, <2>2, <3>1, <3>2
  <2>3. QED
    BY <2>1, <2>2
<1>6. DOMAIN (a \o b) = 1 .. Len(s) - 1
  BY <1>4
<1>7. QED
  BY <1>3, <1>4, <1>5, <1>6

LEMMA AppendFacts ==
  ASSUME NEW S, NEW s \in Seq(S), NEW x \in S
  PROVE  /\ Append(s, x) \in Seq(S) /\ Len(s) \in Nat /\ DOMAIN s = 1 .. Len(s)
         /\ DOMAIN Append(s, x) = 1 .. Len(s) + 1
         /\ Append(s, x)[Len(s) + 1] = x
         /\ \A i \in 1 .. Len(s) : Append(s, x)[i] = s[i] /\ s[i] \in S
  OBVIOUS

(* Removing an entry keeps the others apart and forgets no other.          *)
LEMMA RemoveAtKeeps ==
  ASSUME NEW S, NEW s \in Seq(S), NEW i \in DOMAIN s
  PROVE  /\ \A k \in DOMAIN RemoveAt(s, i) : \E m \in DOMAIN s : m # i /\ RemoveAt(s, i)[k] = s[m]
         /\ \A m \in DOMAIN s : m # i => \E k \in DOMAIN RemoveAt(s, i) : RemoveAt(s, i)[k] = s[m]
<1>1. /\ DOMAIN RemoveAt(s, i) = 1 .. Len(s) - 1
      /\ \A k \in 1 .. Len(s) - 1 : RemoveAt(s, i)[k] = IF k < i THEN s[k] ELSE s[k + 1]
  BY RemoveAtFacts
<1>2. ASSUME NEW k \in DOMAIN RemoveAt(s, i)
      PROVE  \E m \in DOMAIN s : m # i /\ RemoveAt(s, i)[k] = s[m]
  <2> DEFINE m == IF k < i THEN k ELSE k + 1
  <2>1. m \in DOMAIN s /\ m # i /\ RemoveAt(s, i)[k] = s[m]
    BY <1>1, <1>2
  <2>2. QED
    BY <2>1
<1>3. ASSUME NEW m \in DOMAIN s, m # i
      PROVE  \E k \in DOMAIN RemoveAt(s, i) : RemoveAt(s, i)[k] = s[m]
  <2> DEFINE k == IF m < i THEN m ELSE m - 1
  <2>1. k \in DOMAIN RemoveAt(s, i) /\ RemoveAt(s, i)[k] = s[m]
    BY <1>1, <1>3
  <2>2. QED
    BY <2>1
<1>4. QED
  BY <1>2, <1>3

LEMMA RemoveAtApart ==
  ASSUME NEW S, NEW s \in Seq(S), NEW i \in DOMAIN s, NEW f,
         \A k, m \in DOMAIN s : f[s[k]] = f[s[m]] => k = m
  PROVE  \A k, m \in DOMAIN RemoveAt(s, i) : f[RemoveAt(s, i)[k]] = f[RemoveAt(s, i)[m]] => k = m
<1>1. /\ DOMAIN RemoveAt(s, i) = 1 .. Len(s) - 1
      /\ \A k \in 1 .. Len(s) - 1 : RemoveAt(s, i)[k] = IF k < i THEN s[k] ELSE s[k + 1]
  BY RemoveAtFacts
<1> SUFFICES ASSUME NEW k \in 1 .. Len(s) - 1, NEW m \in 1 .. Len(s) - 1,
                    f[RemoveAt(s, i)[k]] = f[RemoveAt(s, i)[m]]
             PROVE  k = m
  BY <1>1
<1> DEFINE kk == IF k < i THEN k ELSE k + 1
           mm == IF m < i THEN m ELSE m + 1
<1>2. kk \in DOMAIN s /\ mm \in DOMAIN s /\ RemoveAt(s, i)[k] = s[kk] /\ RemoveAt(s, i)[m] = s[mm]
  BY <1>1
<1>3. kk = mm
  BY <1>2
<1>4. QED
  BY <1>3

LEMMA IsLoading == \A r : isLoadingResource(r) <=> \E i \in DOMAIN m_inFlight : target[m_inFlight[i]] = r
  BY DEF isLoadingResource, ToSet

LEMMA Positioned ==
  ASSUME NEW r, isLoadingResource(r)
  PROVE  PositionOf(r) \in DOMAIN m_inFlight /\ target[m_inFlight[PositionOf(r)]] = r
<1>1. \E i \in DOMAIN m_inFlight : target[m_inFlight[i]] = r
  BY IsLoading
<1>2. QED
  BY <1>1 DEF PositionOf

LEMMA PendingFinite == ASSUME TypeOK PROVE IsFiniteSet(pendingReloads) /\ Cardinality(pendingReloads) \in Nat
  BY LoaderAssumption, FS_Subset, FS_CardinalityType DEF TypeOK

-----------------------------------------------------------------------------
LEMMA LoadsInit == Init => LoadsInv
<1> SUFFICES ASSUME Init PROVE LoadsInv
  OBVIOUS
<1>1. (CHOOSE r \in Resources : TRUE) \in Resources
  BY LoaderAssumption
<1>2. TypeOK
  <2>1. /\ status \in [Resources -> {"new", "live", "doomed", "kept", "freed"}]
        /\ data \in [Resources -> {"empty", "partial", "raw", "ready"}]
        /\ target \in [Loads -> Resources]
        /\ phase \in [Loads -> {"none", "queued", "entered", "loading", "done"}]
    BY <1>1 DEF Init
  <2>2. \A j \in Loads : (phase[j] = "none") <=> j > requested
    BY LoaderAssumption DEF Init, Loads
  <2>3. /\ m_inFlight \in Seq(Loads) /\ asyncDestroyQueue \in Seq(Resources)
        /\ readyResources \in Seq(Resources)
    BY DEF Init
  <2>4. /\ requested \in 0 .. MaxLoads /\ index \in Nat \ {0} /\ amount \in 0 .. Batch
        /\ awaited \in Loads \cup {0} /\ awaited \notin Loads
    BY LoaderAssumption DEF Init, Loads
  <2>5. QED
    BY <2>1, <2>2, <2>3, <2>4 DEF Init, TypeOK
<1>3. InFlightOK /\ ReadyOK /\ DoomedOK
  BY DEF Init, InFlightOK, ReadyOK, DoomedOK, Waiting, Unfinished
<1>4. Bounded
  BY FS_EmptySet, LoaderAssumption DEF Init, Bounded
<1>5. QED
  BY <1>2, <1>3, <1>4 DEF LoadsInv

(* The worker's steps.                                                     *)
LEMMA WorkerLoads == ASSUME LoadsInv, NEW j \in Loads, WorkerStep(j) PROVE LoadsInv'
<1> USE DEF object, queues, locals
<1>1. /\ phase[j] \in {"queued", "entered", "loading"}
      /\ \E ph \in {"entered", "loading", "done"} : phase' = [phase EXCEPT ![j] = ph]
      /\ UNCHANGED <<status, managed, requested, target, queues, bShuttingDown, pc, locals>>
      /\ bInterrupted' \subseteq bInterrupted
      /\ data' = data \/ \E d \in {"partial", "raw", "empty"} : data' = [data EXCEPT ![target[j]] = d]
  BY DEF WorkerStep, CheckInterrupted, LoadAsync, InitAsyncReturns
<1>2. PICK ph \in {"entered", "loading", "done"} : phase' = [phase EXCEPT ![j] = ph]
  BY <1>1
<1>3. TypeOK'
  <2>1. phase' \in [Loads -> {"none", "queued", "entered", "loading", "done"}]
        /\ \A i \in Loads : (phase'[i] = "none") <=> i > requested'
    BY <1>1, <1>2 DEF LoadsInv, TypeOK
  <2>2. data' \in [Resources -> {"empty", "partial", "raw", "ready"}]
    BY <1>1 DEF LoadsInv, TypeOK
  <2>3. QED
    BY <1>1, <2>1, <2>2 DEF LoadsInv, TypeOK
<1>4. InFlightOK'
  <2>1. \A i \in Loads : Unfinished(i)' => Unfinished(i)
    BY <1>1, <1>2 DEF LoadsInv, TypeOK, Unfinished
  <2>2. QED
    BY <1>1, <2>1 DEF LoadsInv, InFlightOK, Waiting
<1>5. ReadyOK' /\ DoomedOK' /\ Bounded'
  BY <1>1, IsLoading DEF LoadsInv, ReadyOK, DoomedOK, Bounded, Waiting, isLoadingResource
<1>6. QED
  BY <1>3, <1>4, <1>5 DEF LoadsInv

LEMMA AwaitedCreated ==
  ASSUME TypeOK, InFlightOK, \A x \in Resources : status[x] # "new" => status'[x] # "new", Waiting
  PROVE  awaited \in Loads /\ target[awaited] \in Resources /\ status'[target[awaited]] # "new"
<1>1. awaited \in Loads
  BY DEF TypeOK, Waiting
<1>2. target[awaited] \in Resources
  BY <1>1 DEF TypeOK
<1>3. QED
  BY <1>1, <1>2 DEF InFlightOK

(* A load that is requested joins those in flight.                         *)
LEMMA RequestTypes ==
  ASSUME TypeOK, NEW r \in Resources, Request(r, m_inFlight), bShuttingDown \/ requested < MaxLoads
  PROVE  /\ requested' \in 0 .. MaxLoads /\ requested' <= requested + 1 /\ requested <= requested'
         /\ target' \in [Loads -> Resources]
         /\ phase' \in [Loads -> {"none", "queued", "entered", "loading", "done"}]
         /\ \A i \in Loads : (phase'[i] = "none") <=> i > requested'
         /\ m_inFlight' \in Seq(Loads)
         /\ \A j \in Loads : j <= requested => target'[j] = target[j] /\ phase'[j] = phase[j]
         /\ \/ bShuttingDown /\ UNCHANGED <<requested, target, phase, m_inFlight>>
            \/ /\ ~bShuttingDown /\ requested' = requested + 1 /\ requested' \in Loads
               /\ target'[requested'] = r /\ phase'[requested'] = "queued"
               /\ m_inFlight' = Append(m_inFlight, requested')
               /\ \A j \in Loads : j # requested' => target'[j] = target[j] /\ phase'[j] = phase[j]
<1>1. CASE bShuttingDown
  BY <1>1 DEF Request, load, TypeOK
<1>2. CASE ~bShuttingDown
  <2>1. /\ requested' = requested + 1
        /\ target' = [target EXCEPT ![requested + 1] = r]
        /\ phase' = [phase EXCEPT ![requested + 1] = "queued"]
        /\ m_inFlight' = Append(m_inFlight, requested + 1)
    BY <1>2 DEF Request
  <2>2. requested \in Nat /\ MaxLoads \in Nat /\ requested + 1 \in 1 .. MaxLoads
    BY <1>2, LoaderAssumption DEF TypeOK
  <2>3. requested' \in Loads /\ requested' \in 0 .. MaxLoads
    BY <2>1, <2>2 DEF Loads
  <2>4. target' \in [Loads -> Resources] /\ target'[requested'] = r
        /\ \A j \in Loads : j # requested' => target'[j] = target[j]
    BY <2>1, <2>3 DEF TypeOK
  <2>5. phase' \in [Loads -> {"none", "queued", "entered", "loading", "done"}]
        /\ phase'[requested'] = "queued"
        /\ \A j \in Loads : j # requested' => phase'[j] = phase[j]
    BY <2>1, <2>3 DEF TypeOK
  <2>6. \A i \in Loads : (phase'[i] = "none") <=> i > requested'
    BY <2>1, <2>2, <2>5 DEF TypeOK, Loads
  <2>7. \A j \in Loads : j <= requested => j # requested'
    BY <2>1, <2>2 DEF Loads
  <2>8. m_inFlight' \in Seq(Loads)
    BY <2>1, <2>3 DEF TypeOK
  <2>9. QED
    BY <1>2, <2>1, <2>2, <2>3, <2>4, <2>5, <2>6, <2>7, <2>8
<1>3. QED
  BY <1>1, <1>2

LEMMA RequestInFlight ==
  ASSUME TypeOK, InFlightOK, NEW r \in Resources, Request(r, m_inFlight),
         bShuttingDown \/ requested < MaxLoads,
         ~isLoadingResource(r), status'[r] # "new" \/ bShuttingDown,
         \A x \in Resources : status[x] # "new" => status'[x] # "new",
         \/ pc # "wait" /\ pc' # "wait" /\ (Waiting' => Waiting /\ awaited' = awaited)
         \/ pc = "wait" /\ phase[awaited] = "done" /\ pc' = "afterWait" /\ awaited' = awaited
  PROVE  InFlightOK'
<1>1. /\ \A j \in Loads : j <= requested => target'[j] = target[j] /\ phase'[j] = phase[j]
      /\ requested' \in Nat /\ requested \in Nat /\ requested <= requested'
      /\ \/ bShuttingDown /\ UNCHANGED <<requested, target, phase, m_inFlight>>
         \/ /\ ~bShuttingDown /\ requested' = requested + 1 /\ requested' \in Loads
            /\ target'[requested'] = r /\ phase'[requested'] = "queued"
            /\ m_inFlight' = Append(m_inFlight, requested')
            /\ \A j \in Loads : j # requested' => target'[j] = target[j] /\ phase'[j] = phase[j]
  BY RequestTypes DEF TypeOK
<1>2. pc' # "wait" /\ (Waiting' => Waiting /\ awaited' = awaited)
      /\ (pc = "wait" => phase[awaited] = "done")
  BY DEF Waiting
<1>3. CASE bShuttingDown
  <2>1. UNCHANGED <<requested, target, phase, m_inFlight>>
    BY <1>1, <1>3
  <2>2. \A i \in DOMAIN m_inFlight : target[m_inFlight[i]] \in Resources
    BY DEF TypeOK
  <2>3. \A i \in DOMAIN m_inFlight : status'[target[m_inFlight[i]]] # "new"
    BY <2>2 DEF InFlightOK
  <2>4. \A j \in Loads : Unfinished(j) => \E i \in DOMAIN m_inFlight : m_inFlight[i] = j
    BY <1>2 DEF InFlightOK, Unfinished
  <2>5. Waiting' => status'[target'[awaited']] # "new"
    BY <1>2, <2>1, AwaitedCreated
  <2>6. QED
    BY <1>2, <2>1, <2>3, <2>4, <2>5 DEF InFlightOK, Unfinished, Waiting
<1>4. CASE ~bShuttingDown
  <2> DEFINE n == Len(m_inFlight)
  <2>1. n \in Nat /\ DOMAIN m_inFlight = 1 .. n /\ DOMAIN m_inFlight' = 1 .. n + 1
        /\ m_inFlight'[n + 1] = requested' /\ \A i \in 1 .. n : m_inFlight'[i] = m_inFlight[i]
    BY <1>1, <1>4, AppendFacts DEF TypeOK
  <2>2. \A i \in 1 .. n : /\ m_inFlight[i] \in Loads /\ m_inFlight[i] <= requested
                          /\ target'[m_inFlight[i]] = target[m_inFlight[i]] /\ target[m_inFlight[i]] # r
                          /\ target[m_inFlight[i]] \in Resources
    <3> SUFFICES ASSUME NEW i \in 1 .. n
                 PROVE  /\ m_inFlight[i] \in Loads /\ m_inFlight[i] <= requested
                        /\ target'[m_inFlight[i]] = target[m_inFlight[i]] /\ target[m_inFlight[i]] # r
                        /\ target[m_inFlight[i]] \in Resources
      OBVIOUS
    <3>1. m_inFlight[i] \in Loads
      BY DEF TypeOK
    <3>2. m_inFlight[i] <= requested
      BY DEF TypeOK, InFlightOK
    <3>3. target[m_inFlight[i]] # r
      BY <2>1, IsLoading
    <3>4. QED
      BY <1>1, <3>1, <3>2, <3>3 DEF TypeOK
  <2> HIDE DEF n
  <2>3. (\A i, k \in DOMAIN m_inFlight : target[m_inFlight[i]] = target[m_inFlight[k]] => i = k)'
    BY <1>1, <1>4, <2>1, <2>2 DEF InFlightOK
  <2>4. (\A i \in DOMAIN m_inFlight :
           m_inFlight[i] <= requested /\ status[target[m_inFlight[i]]] # "new")'
    <3>1. \A i \in 1 .. n : m_inFlight'[i] <= requested' /\ status'[target'[m_inFlight'[i]]] # "new"
      <4> SUFFICES ASSUME NEW i \in 1 .. n
                   PROVE  m_inFlight'[i] <= requested' /\ status'[target'[m_inFlight'[i]]] # "new"
        OBVIOUS
      <4>1. m_inFlight'[i] = m_inFlight[i] /\ m_inFlight[i] <= requested
            /\ target'[m_inFlight'[i]] = target[m_inFlight[i]] /\ m_inFlight[i] \in Nat
        BY <2>1, <2>2, LoaderAssumption DEF Loads
      <4>2. status[target[m_inFlight[i]]] # "new"
        BY <2>1 DEF InFlightOK
      <4>3. status'[target[m_inFlight[i]]] # "new"
        BY <4>2, <2>2
      <4>4. QED
        BY <1>1, <4>1, <4>3
    <3>2. m_inFlight'[n + 1] <= requested' /\ status'[target'[m_inFlight'[n + 1]]] # "new"
      BY <1>1, <1>4, <2>1
    <3>3. QED
      BY <2>1, <3>1, <3>2
  <2>5. \A j \in Loads : Unfinished(j)' => \E i \in DOMAIN m_inFlight' : m_inFlight'[i] = j
    <3> SUFFICES ASSUME NEW j \in Loads, Unfinished(j)', j # requested'
                 PROVE  \E i \in DOMAIN m_inFlight' : m_inFlight'[i] = j
      BY <2>1
    <3>1. Unfinished(j)
      BY <1>1, <1>4 DEF Unfinished
    <3>2. PICK i \in 1 .. n : m_inFlight[i] = j
      BY <1>2, <2>1, <3>1 DEF InFlightOK, Unfinished
    <3>3. QED
      BY <2>1, <3>2
  <2>6. Waiting' => awaited' <= requested'
    BY <1>1, <1>2 DEF InFlightOK, TypeOK, Loads
  <2>7. Waiting' => status'[target'[awaited']] # "new"
    BY <1>1, <1>2, AwaitedCreated DEF InFlightOK
  <2>8. QED
    BY <1>2, <2>3, <2>4, <2>5, <2>6, <2>7 DEF InFlightOK
<1>5. QED
  BY <1>3, <1>4

LEMMA PendingRequest ==
  ASSUME TypeOK, Bounded, NEW r \in pendingReloads
  PROVE  /\ requested < MaxLoads /\ Cardinality(pendingReloads) \in Nat
         /\ Cardinality(pendingReloads \ {r}) = Cardinality(pendingReloads) - 1
<1>1. IsFiniteSet(pendingReloads) /\ Cardinality(pendingReloads) \in Nat
  BY PendingFinite
<1>2. Cardinality(pendingReloads \ {r}) = Cardinality(pendingReloads) - 1
  BY <1>1, FS_RemoveElement
<1>3. Cardinality(pendingReloads \ {r}) \in Nat
  BY <1>1, FS_RemoveElement, FS_CardinalityType
<1>4. QED
  BY <1>1, <1>2, <1>3, LoaderAssumption DEF TypeOK, Bounded

(* A step that leaves the list of loads alone.                             *)
LEMMA InFlightKept ==
  ASSUME TypeOK, InFlightOK, UNCHANGED <<requested, target, phase, m_inFlight>>,
         \A x \in Resources : status[x] # "new" => status'[x] # "new",
         pc # "wait", pc' # "wait", Waiting' => Waiting /\ awaited' = awaited
  PROVE  InFlightOK'
<1>1. \A i \in DOMAIN m_inFlight : target[m_inFlight[i]] \in Resources
  BY DEF TypeOK
<1>2. \A i \in DOMAIN m_inFlight : status'[target[m_inFlight[i]]] # "new"
  BY <1>1 DEF InFlightOK
<1>3. Waiting' => status'[target'[awaited']] # "new"
  BY AwaitedCreated
<1>4. QED
  BY <1>2, <1>3 DEF InFlightOK, Unfinished, Waiting

(* A blocking call takes the load out of the list.                         *)
LEMMA BlockingLoads ==
  ASSUME TypeOK, InFlightOK, NEW r \in Resources, NEW next, isLoadingResource(r), WaitFor(r, next),
         UNCHANGED load, pc # "wait",
         \A x \in Resources : status[x] # "new" => status'[x] # "new"
  PROVE  /\ awaited' \in Loads /\ target[awaited'] = r /\ m_inFlight' \in Seq(Loads)
         /\ InFlightOK'
         /\ \A i \in DOMAIN m_inFlight' : \E k \in DOMAIN m_inFlight : m_inFlight'[i] = m_inFlight[k]
         /\ \A i \in DOMAIN m_inFlight' : target[m_inFlight'[i]] # r
         /\ \A k \in DOMAIN m_inFlight :
              target[m_inFlight[k]] # r => \E i \in DOMAIN m_inFlight' : m_inFlight'[i] = m_inFlight[k]
<1> DEFINE a == PositionOf(r)
<1>1. a \in DOMAIN m_inFlight /\ target[m_inFlight[a]] = r
  BY Positioned
<1>2. /\ awaited' = m_inFlight[a] /\ m_inFlight' = RemoveAt(m_inFlight, a) /\ pc' = "wait"
      /\ UNCHANGED <<requested, target, phase>>
  BY DEF WaitFor, load
<1>3. m_inFlight \in Seq(Loads)
  BY DEF TypeOK
<1> HIDE DEF a
<1>4. /\ \A k \in DOMAIN m_inFlight' : \E m \in DOMAIN m_inFlight : m # a /\ m_inFlight'[k] = m_inFlight[m]
      /\ \A m \in DOMAIN m_inFlight : m # a => \E k \in DOMAIN m_inFlight' : m_inFlight'[k] = m_inFlight[m]
      /\ m_inFlight' \in Seq(Loads)
  BY <1>1, <1>2, <1>3, RemoveAtKeeps, RemoveAtFacts
<1>5. \A i, k \in DOMAIN m_inFlight' : target[m_inFlight'[i]] = target[m_inFlight'[k]] => i = k
  BY <1>1, <1>2, <1>3, RemoveAtApart DEF InFlightOK
<1>6. \A i \in DOMAIN m_inFlight' : target[m_inFlight'[i]] # r
  BY <1>1, <1>4 DEF InFlightOK
<1>7. \A i \in DOMAIN m_inFlight' : m_inFlight'[i] <= requested /\ status'[target[m_inFlight'[i]]] # "new"
  <2> SUFFICES ASSUME NEW i \in DOMAIN m_inFlight'
               PROVE  m_inFlight'[i] <= requested /\ status'[target[m_inFlight'[i]]] # "new"
    OBVIOUS
  <2>1. PICK m \in DOMAIN m_inFlight : m_inFlight'[i] = m_inFlight[m]
    BY <1>4
  <2>2. target[m_inFlight[m]] \in Resources
    BY <1>3 DEF TypeOK
  <2>3. QED
    BY <2>1, <2>2 DEF InFlightOK
<1>8. \A j \in Loads : Unfinished(j)' =>
         (\E i \in DOMAIN m_inFlight' : m_inFlight'[i] = j) \/ awaited' = j
  <2> SUFFICES ASSUME NEW j \in Loads, Unfinished(j)
               PROVE  (\E i \in DOMAIN m_inFlight' : m_inFlight'[i] = j) \/ awaited' = j
    BY <1>2 DEF Unfinished
  <2>1. PICK m \in DOMAIN m_inFlight : m_inFlight[m] = j
    BY DEF InFlightOK
  <2>2. QED
    BY <1>2, <1>4, <2>1
<1>9. awaited' \in Loads /\ target[awaited'] = r /\ awaited' <= requested /\ status'[r] # "new"
  BY <1>1, <1>2, <1>3 DEF InFlightOK
<1>10. InFlightOK'
  BY <1>2, <1>5, <1>6, <1>7, <1>8, <1>9 DEF InFlightOK
<1>11. \A k \in DOMAIN m_inFlight :
         target[m_inFlight[k]] # r => \E i \in DOMAIN m_inFlight' : m_inFlight'[i] = m_inFlight[k]
  BY <1>1, <1>4
<1>12. QED
  BY <1>4, <1>6, <1>9, <1>10, <1>11

LEMMA LoadResourceLoads == ASSUME LoadsInv, NEW r \in Resources, LoadResource(r) PROVE LoadsInv'
<1> USE DEF object, load, queues, locals
<1>1. /\ pc = "idle" /\ pc' = "idle" /\ status[r] = "new" /\ status' = [status EXCEPT ![r] = "live"]
      /\ managed' \in {managed, managed \cup {r}}
      /\ UNCHANGED <<bInterrupted, pendingReloads, asyncDestroyQueue, bShuttingDown,
                     readyResources, index, amount, awaited, after, overtaken>>
  BY DEF LoadResource
<1>2. TypeOK /\ readyResources = <<>> /\ status \in [Resources -> {"new", "live", "doomed", "kept", "freed"}]
  BY <1>1 DEF LoadsInv, ReadyOK, TypeOK
<1>3. status' \in [Resources -> {"new", "live", "doomed", "kept", "freed"}] /\ managed' \subseteq Resources
      /\ status'[r] = "live" /\ \A x \in Resources : x # r => status'[x] = status[x]
  BY <1>1, <1>2 DEF TypeOK
<1>4. ReadyOK' /\ DoomedOK'
  BY <1>1, <1>2, <1>3 DEF LoadsInv, ReadyOK, DoomedOK, Waiting
<1>5. CASE WithinBound /\ Request(r, m_inFlight) /\ UNCHANGED data
  <2>1. requested < MaxLoads /\ ~isLoadingResource(r)
        /\ requested + 1 + Cardinality(pendingReloads) <= MaxLoads
    BY <1>1, <1>2, <1>5, PendingFinite, IsLoading, LoaderAssumption DEF LoadsInv, InFlightOK, WithinBound, TypeOK
  <2>2. /\ requested' \in 0 .. MaxLoads /\ requested' <= requested + 1
        /\ target' \in [Loads -> Resources]
        /\ phase' \in [Loads -> {"none", "queued", "entered", "loading", "done"}]
        /\ \A i \in Loads : (phase'[i] = "none") <=> i > requested'
        /\ m_inFlight' \in Seq(Loads)
    BY <1>2, <1>5, <2>1, RequestTypes
  <2>3. InFlightOK'
    BY <1>1, <1>2, <1>3, <1>5, <2>1, RequestInFlight DEF LoadsInv, Waiting
  <2>4. TypeOK'
    BY <1>1, <1>2, <1>3, <1>5, <2>2 DEF TypeOK
  <2>5. Bounded'
    BY <1>1, <1>2, <2>1, <2>2, PendingFinite, LoaderAssumption DEF Bounded, TypeOK
  <2>6. QED
    BY <1>4, <2>3, <2>4, <2>5 DEF LoadsInv
<1>6. CASE /\ \E result \in {"ready", "empty"} : data' = [data EXCEPT ![r] = result]
           /\ UNCHANGED <<load, m_inFlight>>
  <2>1. data' \in [Resources -> {"empty", "partial", "raw", "ready"}]
    BY <1>2, <1>6 DEF TypeOK
  <2>2. TypeOK'
    BY <1>1, <1>2, <1>3, <1>6, <2>1 DEF TypeOK
  <2>3. InFlightOK'
    BY <1>1, <1>2, <1>3, <1>6, InFlightKept DEF LoadsInv, Waiting
  <2>4. Bounded'
    BY <1>1, <1>6 DEF LoadsInv, Bounded
  <2>5. QED
    BY <1>4, <2>2, <2>3, <2>4 DEF LoadsInv
<1>7. QED
  BY <1>5, <1>6 DEF LoadResource

LEMMA ReloadAsyncLoads == ASSUME LoadsInv, NEW r \in Resources, ReloadAsync(r) PROVE LoadsInv'
<1> USE DEF object, load, queues, locals
<1>1. /\ pc = "idle" /\ pc' = "idle" /\ status[r] = "live" /\ status' = status /\ WithinBound
      /\ UNCHANGED <<managed, asyncDestroyQueue, bShuttingDown, readyResources, index, amount, awaited, after, overtaken>>
  BY DEF ReloadAsync
<1>2. TypeOK /\ readyResources = <<>>
  BY <1>1 DEF LoadsInv, ReadyOK
<1>3. CASE isLoadingResource(r) /\ pendingReloads' = pendingReloads \cup {r}
           /\ UNCHANGED <<object, load, m_inFlight>>
  <2>1. TypeOK'
    BY <1>1, <1>2, <1>3 DEF TypeOK
  <2>2. InFlightOK'
    BY <1>1, <1>2, <1>3, InFlightKept DEF LoadsInv, Waiting
  <2>3. ReadyOK' /\ DoomedOK'
    BY <1>1, <1>2, <1>3 DEF LoadsInv, ReadyOK, DoomedOK, Waiting
  <2>4. Bounded'
    <3>1. IsFiniteSet(pendingReloads) /\ Cardinality(pendingReloads) \in Nat
      BY <1>2, PendingFinite
    <3>2. Cardinality(pendingReloads') <= Cardinality(pendingReloads) + 1
          /\ Cardinality(pendingReloads') \in Nat
      <4>1. IsFiniteSet(pendingReloads \cup {r})
            /\ Cardinality(pendingReloads \cup {r}) \in {Cardinality(pendingReloads), Cardinality(pendingReloads) + 1}
        BY <3>1, FS_AddElement
      <4>2. QED
        BY <1>3, <3>1, <4>1
    <3>3. QED
      BY <1>1, <1>2, <1>3, <3>1, <3>2, LoaderAssumption DEF Bounded, WithinBound, TypeOK
  <2>5. QED
    BY <2>1, <2>2, <2>3, <2>4 DEF LoadsInv
<1>4. CASE /\ ~isLoadingResource(r) /\ data' = [data EXCEPT ![r] = "empty"]
           /\ bInterrupted' = bInterrupted \ {r} /\ Request(r, m_inFlight)
           /\ UNCHANGED <<status, pendingReloads>>
  <2>1. requested < MaxLoads /\ requested + 1 + Cardinality(pendingReloads) <= MaxLoads
    BY <1>1, <1>2, PendingFinite, LoaderAssumption DEF WithinBound, TypeOK
  <2>2. /\ requested' \in 0 .. MaxLoads /\ requested' <= requested + 1
        /\ target' \in [Loads -> Resources]
        /\ phase' \in [Loads -> {"none", "queued", "entered", "loading", "done"}]
        /\ \A i \in Loads : (phase'[i] = "none") <=> i > requested'
        /\ m_inFlight' \in Seq(Loads)
    BY <1>2, <1>4, <2>1, RequestTypes
  <2>3. InFlightOK'
    BY <1>1, <1>2, <1>4, <2>1, RequestInFlight DEF LoadsInv, Waiting
  <2>4. TypeOK'
    <3>1. data' \in [Resources -> {"empty", "partial", "raw", "ready"}]
      BY <1>2, <1>4 DEF TypeOK
    <3>2. QED
      BY <1>1, <1>2, <1>4, <2>2, <3>1 DEF TypeOK
  <2>5. Bounded'
    BY <1>1, <1>2, <1>4, <2>1, <2>2, PendingFinite, LoaderAssumption DEF Bounded, TypeOK
  <2>6. ReadyOK' /\ DoomedOK'
    BY <1>1, <1>2 DEF LoadsInv, ReadyOK, DoomedOK, Waiting
  <2>7. QED
    BY <2>3, <2>4, <2>5, <2>6 DEF LoadsInv
<1>5. QED
  BY <1>3, <1>4 DEF ReloadAsync

LEMMA BlockedLoads ==
  ASSUME LoadsInv, NEW r \in Resources,
         NEW next \in {"nothing", "reload", "freed", "kept", "close"},
         isLoadingResource(r), WaitFor(r, next), pc \in {"idle", "closing"},
         UNCHANGED <<data, load, pendingReloads, asyncDestroyQueue>>,
         bInterrupted' \in {bInterrupted, bInterrupted \cup {r}},
         NEW fate \in {"live", "doomed", "kept"}, status' = [status EXCEPT ![r] = fate],
         next \in {"nothing", "reload"} => fate = "live",
         managed' \subseteq managed, UNCHANGED bShuttingDown
  PROVE  LoadsInv'
<1>1. /\ pc' = "wait" /\ after' = next /\ readyResources = <<>>
      /\ UNCHANGED <<data, requested, target, phase, pendingReloads, asyncDestroyQueue,
                     readyResources, index, amount, overtaken>>
  BY DEF WaitFor, load, LoadsInv, ReadyOK
<1>2. TypeOK /\ InFlightOK /\ status \in [Resources -> {"new", "live", "doomed", "kept", "freed"}]
  BY DEF LoadsInv, TypeOK
<1>3. status' \in [Resources -> {"new", "live", "doomed", "kept", "freed"}]
      /\ status'[r] = fate /\ \A x \in Resources : x # r => status'[x] = status[x]
  BY <1>2
<1>4. /\ awaited' \in Loads /\ target[awaited'] = r /\ m_inFlight' \in Seq(Loads)
      /\ InFlightOK'
  BY <1>2, <1>3, BlockingLoads
<1>5. TypeOK'
  BY <1>1, <1>2, <1>3, <1>4 DEF TypeOK
<1>6. ReadyOK'
  BY <1>1 DEF ReadyOK
<1>7. DoomedOK'
  BY <1>1, <1>3, <1>4 DEF LoadsInv, DoomedOK, Waiting
<1>8. Bounded'
  BY <1>1 DEF LoadsInv, Bounded
<1>9. QED
  BY <1>4, <1>5, <1>6, <1>7, <1>8 DEF LoadsInv

LEMMA WaitForResourceLoads == ASSUME LoadsInv, NEW r \in Resources, WaitForResource(r) PROVE LoadsInv'
<1>1. /\ pc = "idle" /\ status[r] = "live" /\ isLoadingResource(r) /\ WaitFor(r, "nothing")
      /\ UNCHANGED <<object, managed, load, pendingReloads, asyncDestroyQueue, bShuttingDown>>
  BY DEF WaitForResource
<1>2. status' = [status EXCEPT ![r] = "live"]
  BY <1>1 DEF object, LoadsInv, TypeOK
<1>3. QED
  BY <1>1, <1>2, BlockedLoads DEF object

(* A step of the main thread that leaves loads and queues alone, and       *)
(* decides the fate of one resource that is not loading.                   *)
LEMMA SettledLoads ==
  ASSUME LoadsInv, NEW r \in Resources, NEW fate \in {"live", "kept", "freed"},
         status' = [status EXCEPT ![r] = fate],
         NEW d \in {"empty", "raw", "ready"}, data' = [data EXCEPT ![r] = d],
         bInterrupted' = bInterrupted \ {r}, managed' \subseteq managed,
         UNCHANGED <<load, queues, bShuttingDown, readyResources, index, amount, overtaken>>,
         \/ pc \in {"idle", "closing"} /\ UNCHANGED <<pc, awaited, after>>
         \/ pc = "afterWait" /\ pc' \in {"idle", "closing"} /\ awaited' = 0 /\ after' = "none" /\ r = target[awaited]
  PROVE  LoadsInv'
<1> USE DEF load, queues
<1>1. TypeOK /\ InFlightOK /\ status \in [Resources -> {"new", "live", "doomed", "kept", "freed"}]
  BY DEF LoadsInv, TypeOK
<1>2. status' \in [Resources -> {"new", "live", "doomed", "kept", "freed"}]
      /\ status'[r] = fate /\ \A x \in Resources : x # r => status'[x] = status[x]
  BY <1>1
<1>3. data' \in [Resources -> {"empty", "partial", "raw", "ready"}]
  BY <1>1 DEF TypeOK
<1>4. /\ pc \notin {"wait", "collect", "reload"} /\ pc' \in {"idle", "closing"} /\ ~Waiting'
      /\ awaited' \in Loads \cup {0} /\ awaited' \notin Loads
      /\ after' \in {"none", "nothing", "reload", "freed", "kept", "close"}
  BY <1>1, LoaderAssumption DEF TypeOK, Waiting, Loads
<1>5. TypeOK'
  BY <1>1, <1>2, <1>3, <1>4 DEF TypeOK
<1>6. InFlightOK'
  BY <1>1, <1>2, <1>4, InFlightKept
<1>7. ReadyOK'
  BY <1>4 DEF LoadsInv, ReadyOK
<1>8. DoomedOK'
  <2>1. \A x \in Resources : status[x] = "doomed" /\ x # r =>
          \E i \in DOMAIN asyncDestroyQueue : asyncDestroyQueue[i] = x
    BY DEF LoadsInv, DoomedOK, Waiting
  <2>2. QED
    BY <1>2, <1>4, <2>1 DEF DoomedOK
<1>9. Bounded'
  BY DEF LoadsInv, Bounded
<1>10. QED
  BY <1>5, <1>6, <1>7, <1>8, <1>9 DEF LoadsInv

LEMMA ReloadSyncLoads == ASSUME LoadsInv, NEW r \in Resources, ReloadSync(r) PROVE LoadsInv'
<1>1. pc = "idle" /\ status[r] = "live" /\ UNCHANGED <<managed, bShuttingDown>>
      /\ status' = [status EXCEPT ![r] = "live"]
  BY DEF ReloadSync, LoadsInv, TypeOK
<1>2. CASE Blocks(r, "reload")
  BY <1>1, <1>2, BlockedLoads DEF Blocks
<1>3. CASE ~Blocks(r, "reload")
  <2>1. PICK result \in {"ready", "empty"} : data' = [data EXCEPT ![r] = result]
    BY <1>3 DEF ReloadSync
  <2>2. bInterrupted' = bInterrupted \ {r} /\ UNCHANGED <<load, queues, pc, locals>>
    BY <1>3 DEF ReloadSync
  <2>3. QED
    BY <1>1, <2>1, <2>2, SettledLoads DEF locals
<1>4. QED
  BY <1>2, <1>3

LEMMA DestroyLoads == ASSUME LoadsInv, NEW r \in Resources, Destroy(r) PROVE LoadsInv'
<1>1. pc = "idle" /\ status[r] = "live" /\ managed' \subseteq managed /\ UNCHANGED bShuttingDown
  BY DEF Destroy
<1>2. ASSUME NEW fate \in {"freed", "kept"}, DestroyNow(r, fate) PROVE LoadsInv'
  <2>1. CASE Blocks(r, fate) /\ status' = [status EXCEPT ![r] = IF fate = "kept" THEN "kept" ELSE "doomed"]
    BY <1>1, <2>1, BlockedLoads DEF Blocks
  <2>2. CASE ReleaseNow(r, fate) /\ UNCHANGED <<load, queues, pc, locals>>
    BY <1>1, <2>2, SettledLoads DEF ReleaseNow, locals
  <2>3. QED
    BY <1>2, <2>1, <2>2 DEF DestroyNow
<1>3. CASE DestroyLater(r)
  <2>1. /\ bInterrupted' = bInterrupted \cup {r} /\ status' = [status EXCEPT ![r] = "doomed"]
        /\ pendingReloads' = pendingReloads \ {r} /\ asyncDestroyQueue' = Append(asyncDestroyQueue, r)
        /\ UNCHANGED <<data, requested, target, phase, m_inFlight, pc, readyResources, index, amount, awaited, after, overtaken>>
    BY <1>3 DEF DestroyLater, load, locals
  <2>2. TypeOK /\ InFlightOK /\ status \in [Resources -> {"new", "live", "doomed", "kept", "freed"}]
    BY DEF LoadsInv, TypeOK
  <2>3. status' \in [Resources -> {"new", "live", "doomed", "kept", "freed"}]
        /\ status'[r] = "doomed" /\ \A x \in Resources : x # r => status'[x] = status[x]
    BY <2>1, <2>2
  <2>4. /\ asyncDestroyQueue' \in Seq(Resources)
        /\ DOMAIN asyncDestroyQueue \subseteq DOMAIN asyncDestroyQueue'
        /\ \A i \in DOMAIN asyncDestroyQueue : asyncDestroyQueue'[i] = asyncDestroyQueue[i]
        /\ \E i \in DOMAIN asyncDestroyQueue' : asyncDestroyQueue'[i] = r
    <3>1. /\ Append(asyncDestroyQueue, r) \in Seq(Resources) /\ Len(asyncDestroyQueue) \in Nat
          /\ DOMAIN asyncDestroyQueue = 1 .. Len(asyncDestroyQueue)
          /\ DOMAIN Append(asyncDestroyQueue, r) = 1 .. Len(asyncDestroyQueue) + 1
          /\ Append(asyncDestroyQueue, r)[Len(asyncDestroyQueue) + 1] = r
          /\ \A i \in 1 .. Len(asyncDestroyQueue) : Append(asyncDestroyQueue, r)[i] = asyncDestroyQueue[i]
      BY <2>2, AppendFacts DEF TypeOK
    <3>2. QED
      BY <2>1, <3>1
  <2>5. TypeOK'
    BY <1>1, <2>1, <2>2, <2>3, <2>4 DEF TypeOK
  <2>6. InFlightOK'
    BY <1>1, <2>1, <2>2, <2>3, InFlightKept DEF Waiting
  <2>7. ReadyOK'
    BY <1>1, <2>1 DEF LoadsInv, ReadyOK
  <2>8. DoomedOK'
    BY <1>1, <2>1, <2>3, <2>4 DEF LoadsInv, DoomedOK, Waiting
  <2>9. Bounded'
    <3>1. Cardinality(pendingReloads') <= Cardinality(pendingReloads) /\ Cardinality(pendingReloads') \in Nat
      BY <2>1, <2>2, PendingFinite, FS_Subset, FS_CardinalityType
    <3>2. QED
      BY <2>1, <2>2, <3>1, PendingFinite, LoaderAssumption DEF LoadsInv, Bounded, TypeOK
  <2>10. QED
    BY <2>5, <2>6, <2>7, <2>8, <2>9 DEF LoadsInv
<1>4. QED
  BY <1>2, <1>3 DEF Destroy

LEMMA CloseManagedLoads == ASSUME LoadsInv, NEW r \in Resources, CloseManaged(r) PROVE LoadsInv'
<1>1. pc = "closing" /\ managed' \subseteq managed /\ UNCHANGED bShuttingDown
  BY DEF CloseManaged
<1>2. CASE Blocks(r, "close") /\ status' = [status EXCEPT ![r] = "doomed"]
  BY <1>1, <1>2, BlockedLoads DEF Blocks
<1>3. CASE ReleaseNow(r, "freed") /\ UNCHANGED <<load, queues, pc, locals>>
  BY <1>1, <1>3, SettledLoads DEF ReleaseNow, locals
<1>4. QED
  BY <1>2, <1>3 DEF CloseManaged

LEMMA AfterWaitLoads == ASSUME LoadsInv, AfterWait PROVE LoadsInv'
<1> DEFINE r == target[awaited]
<1>1. /\ pc = "afterWait" /\ pc' \in {"idle", "closing"} /\ awaited' = 0 /\ after' = "none"
      /\ UNCHANGED <<managed, load, queues, bShuttingDown, readyResources, index, amount, overtaken>>
  BY DEF AfterWait
<1>2. r \in Resources /\ status \in [Resources -> {"new", "live", "doomed", "kept", "freed"}]
  BY <1>1 DEF LoadsInv, TypeOK
<1>3. CASE ReleaseNow(r, IF after = "kept" THEN "kept" ELSE "freed")
  BY <1>1, <1>2, <1>3, SettledLoads DEF ReleaseNow
<1>4. CASE /\ after = "reload"
           /\ \E result \in {"ready", "empty"} : data' = [data EXCEPT ![r] = result]
           /\ bInterrupted' = bInterrupted \ {r}
           /\ UNCHANGED status
  <2>1. PICK result \in {"ready", "empty"} : data' = [data EXCEPT ![r] = result]
    BY <1>4
  <2>2. status[r] # "doomed" /\ status' = [status EXCEPT ![r] = status[r]]
    BY <1>1, <1>2, <1>4 DEF LoadsInv, DoomedOK, Waiting
  <2>3. status[r] \in {"live", "kept", "freed"}
    BY <1>1, <1>2, <2>2 DEF LoadsInv, InFlightOK, Waiting
  <2>4. QED
    BY <1>1, <1>2, <1>4, <2>1, <2>2, <2>3, SettledLoads
<1>5. CASE after = "nothing" /\ UNCHANGED object
  <2> USE DEF object, load, queues
  <2>1. Waiting /\ ~Waiting' /\ pc # "wait" /\ pc' # "wait" /\ awaited' \notin Loads
    BY <1>1, LoaderAssumption DEF Waiting, Loads
  <2>2. TypeOK'
    BY <1>1, <1>5, <2>1 DEF LoadsInv, TypeOK
  <2>3. InFlightOK'
    BY <1>1, <1>5, <2>1, InFlightKept DEF LoadsInv
  <2>4. ReadyOK'
    BY <1>1, <1>5 DEF LoadsInv, ReadyOK, isLoadingResource
  <2>5. DoomedOK' /\ Bounded'
    BY <1>1, <1>5, <2>1 DEF LoadsInv, DoomedOK, Bounded
  <2>6. QED
    BY <2>2, <2>3, <2>4, <2>5 DEF LoadsInv
<1>6. QED
  BY <1>3, <1>4, <1>5 DEF AfterWait

(* A deferred reload that is carried out: the load takes the place of the  *)
(* entry in pendingReloads.                                                *)
LEMMA DeferredLoads ==
  ASSUME TypeOK, InFlightOK, Bounded, NEW r \in pendingReloads, ~isLoadingResource(r), status[r] # "new",
         pendingReloads' = pendingReloads \ {r}, Request(r, m_inFlight), UNCHANGED status,
         \/ pc # "wait" /\ pc' # "wait" /\ (Waiting' => Waiting /\ awaited' = awaited)
         \/ pc = "wait" /\ phase[awaited] = "done" /\ pc' = "afterWait" /\ awaited' = awaited
  PROVE  /\ InFlightOK' /\ Bounded'
         /\ requested' \in 0 .. MaxLoads /\ target' \in [Loads -> Resources]
         /\ phase' \in [Loads -> {"none", "queued", "entered", "loading", "done"}]
         /\ \A i \in Loads : (phase'[i] = "none") <=> i > requested'
         /\ m_inFlight' \in Seq(Loads) /\ pendingReloads' \subseteq Resources
         /\ \A j \in Loads : j <= requested => target'[j] = target[j]
         /\ \A i \in DOMAIN m_inFlight' :
              \/ \E k \in DOMAIN m_inFlight : m_inFlight'[i] = m_inFlight[k] /\ m_inFlight[k] <= requested
              \/ target'[m_inFlight'[i]] = r
<1>1. r \in Resources /\ requested < MaxLoads /\ pendingReloads' \subseteq Resources
      /\ Cardinality(pendingReloads) \in Nat /\ Cardinality(pendingReloads') = Cardinality(pendingReloads) - 1
  BY PendingRequest DEF TypeOK
<1>2. /\ requested' \in 0 .. MaxLoads /\ requested' <= requested + 1
      /\ target' \in [Loads -> Resources]
      /\ phase' \in [Loads -> {"none", "queued", "entered", "loading", "done"}]
      /\ \A i \in Loads : (phase'[i] = "none") <=> i > requested'
      /\ m_inFlight' \in Seq(Loads)
      /\ \A j \in Loads : j <= requested => target'[j] = target[j] /\ phase'[j] = phase[j]
      /\ \/ bShuttingDown /\ UNCHANGED <<requested, target, phase, m_inFlight>>
         \/ /\ ~bShuttingDown /\ requested' = requested + 1 /\ requested' \in Loads
            /\ target'[requested'] = r /\ phase'[requested'] = "queued"
            /\ m_inFlight' = Append(m_inFlight, requested')
  BY <1>1, RequestTypes
<1>3. InFlightOK'
  BY <1>1, RequestInFlight
<1>4. Bounded'
  BY <1>1, <1>2, LoaderAssumption DEF Bounded, TypeOK
<1>5. \A k \in DOMAIN m_inFlight : m_inFlight[k] <= requested
  BY DEF InFlightOK
<1>6. ASSUME NEW i \in DOMAIN m_inFlight'
      PROVE  \/ \E k \in DOMAIN m_inFlight : m_inFlight'[i] = m_inFlight[k] /\ m_inFlight[k] <= requested
             \/ target'[m_inFlight'[i]] = r
  <2>1. CASE bShuttingDown
    BY <1>2, <1>5, <1>6, <2>1
  <2>2. CASE ~bShuttingDown
    <3>1. requested' \in Loads /\ m_inFlight' = Append(m_inFlight, requested') /\ target'[requested'] = r
      BY <1>2, <2>2
    <3>2. /\ DOMAIN m_inFlight = 1 .. Len(m_inFlight) /\ Len(m_inFlight) \in Nat
          /\ DOMAIN m_inFlight' = 1 .. Len(m_inFlight) + 1
          /\ m_inFlight'[Len(m_inFlight) + 1] = requested'
          /\ \A k \in 1 .. Len(m_inFlight) : m_inFlight'[k] = m_inFlight[k]
      BY <3>1, AppendFacts DEF TypeOK
    <3>3. CASE i = Len(m_inFlight) + 1
      BY <3>1, <3>2, <3>3
    <3>4. CASE i # Len(m_inFlight) + 1
      BY <1>5, <3>2, <3>4
    <3>5. QED
      BY <3>3, <3>4
  <2>3. QED
    BY <2>1, <2>2
<1>7. QED
  BY <1>1, <1>2, <1>3, <1>4, <1>6

LEMMA WaitEndsLoads == ASSUME LoadsInv, WaitEnds PROVE LoadsInv'
<1> DEFINE r == target[awaited]
<1> USE DEF object, load, queues, locals
<1>1. /\ pc = "wait" /\ phase[awaited] = "done" /\ pc' = "afterWait"
      /\ UNCHANGED <<status, managed, asyncDestroyQueue, bShuttingDown,
                     readyResources, index, amount, awaited, after>>
  BY DEF WaitEnds
<1>2. TypeOK /\ InFlightOK /\ Bounded /\ r \in Resources /\ readyResources = <<>> /\ awaited \in Loads
  BY <1>1 DEF LoadsInv, TypeOK, ReadyOK
<1>3. ~isLoadingResource(r) /\ awaited <= requested
  BY <1>1, <1>2, IsLoading DEF InFlightOK, Waiting
<1>4. ReadyOK' /\ overtaken' \subseteq Resources
  BY <1>1, <1>2 DEF ReadyOK, WaitEnds, TypeOK
<1>5. CASE r \in pendingReloads
  <2>1. /\ pendingReloads' = pendingReloads \ {r} /\ data' = [data EXCEPT ![r] = "empty"]
        /\ bInterrupted' = bInterrupted \ {r} /\ Request(r, m_inFlight)
    BY <1>5 DEF WaitEnds
  <2>2. status[r] # "new"
    BY <1>1 DEF LoadsInv, InFlightOK, Waiting
  <2> HIDE DEF r
  <2>3. /\ InFlightOK' /\ Bounded'
        /\ requested' \in 0 .. MaxLoads /\ target' \in [Loads -> Resources]
        /\ phase' \in [Loads -> {"none", "queued", "entered", "loading", "done"}]
        /\ \A i \in Loads : (phase'[i] = "none") <=> i > requested'
        /\ m_inFlight' \in Seq(Loads) /\ pendingReloads' \subseteq Resources
        /\ \A j \in Loads : j <= requested => target'[j] = target[j]
    BY <1>1, <1>2, <1>3, <1>5, <2>1, <2>2, DeferredLoads
  <2>4. data' \in [Resources -> {"empty", "partial", "raw", "ready"}]
    BY <1>2, <2>1 DEF TypeOK
  <2>5. TypeOK'
    BY <1>1, <1>2, <1>4, <2>1, <2>3, <2>4 DEF TypeOK
  <2>6. DoomedOK'
    BY <1>1, <1>2, <1>3, <2>3 DEF LoadsInv, DoomedOK, Waiting
  <2>7. QED
    BY <1>4, <2>3, <2>5, <2>6 DEF LoadsInv
<1>6. CASE r \notin pendingReloads
  <2>1. /\ data' = [data EXCEPT ![r] = IF r \in bInterrupted THEN data[r] ELSE Initialised(r)]
        /\ UNCHANGED <<bInterrupted, pendingReloads, load, m_inFlight>>
    BY <1>6 DEF WaitEnds
  <2>2. data' \in [Resources -> {"empty", "partial", "raw", "ready"}]
    BY <1>2, <2>1 DEF TypeOK, Initialised
  <2>3. TypeOK'
    BY <1>1, <1>2, <1>4, <2>1, <2>2 DEF TypeOK
  <2>4. InFlightOK'
    BY <1>1, <1>2, <2>1 DEF InFlightOK, Unfinished, Waiting
  <2>5. DoomedOK' /\ Bounded'
    BY <1>1, <2>1 DEF LoadsInv, DoomedOK, Waiting, Bounded
  <2>6. QED
    BY <1>4, <2>3, <2>4, <2>5 DEF LoadsInv
<1>7. QED
  BY <1>5, <1>6


(* A step that moves the main thread on, and nothing else that the loads   *)
(* depend on.                                                              *)
LEMMA MovedLoads ==
  ASSUME LoadsInv, UNCHANGED <<status, load, queues, managed, readyResources, awaited, after, overtaken>>,
         data' \in [Resources -> {"empty", "partial", "raw", "ready"}],
         bInterrupted' \subseteq Resources, bShuttingDown' \in BOOLEAN,
         index' \in Nat \ {0}, amount' \in 0 .. Batch,
         ~Waiting, pc' \in {"idle", "collect", "reload", "destroy", "closing", "drain"},
         readyResources = <<>> \/ pc' \in {"collect", "reload"}
  PROVE  LoadsInv'
<1> USE DEF load, queues
<1>1. pc # "wait" /\ pc' # "wait" /\ ~Waiting'
  BY DEF Waiting
<1>2. TypeOK'
  BY <1>1 DEF LoadsInv, TypeOK, Waiting
<1>3. InFlightOK'
  BY <1>1, InFlightKept DEF LoadsInv
<1>4. ReadyOK'
  BY <1>1 DEF LoadsInv, ReadyOK, isLoadingResource
<1>5. DoomedOK' /\ Bounded'
  BY <1>1 DEF LoadsInv, DoomedOK, Bounded
<1>6. QED
  BY <1>2, <1>3, <1>4, <1>5 DEF LoadsInv

LEMMA MovingLoads ==
  ASSUME LoadsInv, StartUpdate \/ InitCollected \/ ReloadsEnd \/ EndUpdate \/ StartClose \/ ShutdownLoader
  PROVE  LoadsInv'
<1> USE DEF object, locals
<1>1. TypeOK /\ ReadyOK
  BY DEF LoadsInv
<1>2. Batch \in Nat /\ 1 \in 0 .. Batch /\ Batch \in 0 .. Batch
  BY LoaderAssumption
<1>3. CASE StartUpdate
  <2>1. pc = "idle" /\ readyResources = <<>> /\ readyResources' = <<>>
    BY <1>1, <1>3 DEF StartUpdate, ReadyOK
  <2>2. QED
    BY <1>1, <1>2, <1>3, <2>1, MovedLoads DEF StartUpdate, TypeOK, Waiting
<1>4. CASE InitCollected
  <2>1. data' \in [Resources -> {"empty", "partial", "raw", "ready"}]
    BY <1>1, <1>4 DEF InitCollected, TypeOK, Initialised
  <2>2. QED
    BY <1>1, <1>4, <2>1, MovedLoads DEF InitCollected, TypeOK, Waiting
<1>5. CASE ReloadsEnd
  BY <1>1, <1>5, MovedLoads DEF ReloadsEnd, TypeOK, Waiting
<1>6. CASE EndUpdate
  <2>1. readyResources = <<>>
    BY <1>1, <1>6 DEF EndUpdate, ReadyOK
  <2>2. QED
    BY <1>1, <1>2, <1>6, <2>1, MovedLoads DEF EndUpdate, TypeOK, Waiting
<1>7. CASE StartClose
  <2>1. readyResources = <<>>
    BY <1>1, <1>7 DEF StartClose, ReadyOK
  <2>2. QED
    BY <1>1, <1>7, <2>1, MovedLoads DEF StartClose, TypeOK, Waiting
<1>8. CASE ShutdownLoader
  <2>1. readyResources = <<>>
    BY <1>1, <1>8 DEF ShutdownLoader, ReadyOK
  <2>2. bInterrupted' \subseteq Resources
    <3>1. \A j \in ToSet(m_inFlight) : j \in Loads
      BY <1>1 DEF TypeOK, ToSet
    <3>2. QED
      BY <1>1, <1>8, <3>1 DEF ShutdownLoader, TypeOK
  <2>3. QED
    BY <1>1, <1>8, <2>1, <2>2, MovedLoads DEF ShutdownLoader, TypeOK, Waiting
<1>9. QED
  BY <1>3, <1>4, <1>5, <1>6, <1>7, <1>8

LEMMA CollectEntryLoads == ASSUME LoadsInv, CollectEntry PROVE LoadsInv'
<1> USE DEF object, load, locals
<1> DEFINE j == m_inFlight[index]
           r == target[j]
<1>1. /\ pc = "collect" /\ pc' = "collect" /\ index <= Len(m_inFlight)
      /\ UNCHANGED <<object, managed, load, pendingReloads, asyncDestroyQueue,
                     bShuttingDown, amount, awaited, after, overtaken>>
  BY DEF CollectEntry, Collecting
<1>2. TypeOK /\ InFlightOK /\ ReadyOK /\ m_inFlight \in Seq(Loads) /\ index \in DOMAIN m_inFlight
      /\ readyResources \in Seq(Resources) /\ j \in Loads /\ r \in Resources
  <2>1. TypeOK /\ InFlightOK /\ ReadyOK /\ m_inFlight \in Seq(Loads) /\ readyResources \in Seq(Resources)
    BY DEF LoadsInv, TypeOK
  <2>2. index \in DOMAIN m_inFlight
    BY <1>1, <2>1 DEF TypeOK
  <2>3. j \in Loads
    BY <2>1, <2>2
  <2>4. QED
    BY <2>1, <2>2, <2>3 DEF TypeOK
<1>3. DoomedOK' /\ Bounded'
  BY <1>1 DEF LoadsInv, DoomedOK, Waiting, Bounded
<1>4. CASE phase[j] = "done"
  <2>1. /\ m_inFlight' = RemoveAt(m_inFlight, index) /\ index' = index
        /\ readyResources' = IF r \in bInterrupted THEN readyResources ELSE Append(readyResources, r)
    BY <1>4 DEF CollectEntry
  <2>2. /\ \A k \in DOMAIN m_inFlight' : \E m \in DOMAIN m_inFlight : m # index /\ m_inFlight'[k] = m_inFlight[m]
        /\ \A m \in DOMAIN m_inFlight : m # index => \E k \in DOMAIN m_inFlight' : m_inFlight'[k] = m_inFlight[m]
        /\ m_inFlight' \in Seq(Loads)
    BY <1>2, <2>1, RemoveAtKeeps, RemoveAtFacts
  <2>3. \A i, k \in DOMAIN m_inFlight' : target[m_inFlight'[i]] = target[m_inFlight'[k]] => i = k
    BY <1>2, <2>1, RemoveAtApart DEF InFlightOK
  <2>4. r \in Resources /\ status[r] # "new" /\ isLoadingResource(r)
    BY <1>2, IsLoading DEF InFlightOK
  <2>5. \A k \in DOMAIN m_inFlight' :
          /\ m_inFlight'[k] <= requested /\ status[target[m_inFlight'[k]]] # "new"
          /\ target[m_inFlight'[k]] # r /\ isLoadingResource(target[m_inFlight'[k]])
    <3> SUFFICES ASSUME NEW k \in DOMAIN m_inFlight'
                 PROVE  /\ m_inFlight'[k] <= requested /\ status[target[m_inFlight'[k]]] # "new"
                        /\ target[m_inFlight'[k]] # r /\ isLoadingResource(target[m_inFlight'[k]])
      OBVIOUS
    <3>1. PICK m \in DOMAIN m_inFlight : m # index /\ m_inFlight'[k] = m_inFlight[m]
      BY <2>2
    <3>2. QED
      BY <1>2, <3>1, IsLoading DEF InFlightOK
  <2>6. \A i \in Loads : Unfinished(i) => \E k \in DOMAIN m_inFlight' : m_inFlight'[k] = i
    <3> SUFFICES ASSUME NEW i \in Loads, Unfinished(i)
                 PROVE  \E k \in DOMAIN m_inFlight' : m_inFlight'[k] = i
      OBVIOUS
    <3>1. PICK m \in DOMAIN m_inFlight : m_inFlight[m] = i
      BY <1>1, <1>2 DEF InFlightOK
    <3>2. m # index
      BY <1>4, <3>1 DEF Unfinished
    <3>3. QED
      BY <2>2, <3>1, <3>2
  <2> HIDE DEF r, j
  <2>7. InFlightOK'
    BY <1>1, <2>3, <2>5, <2>6 DEF InFlightOK, Unfinished, Waiting
  <2>8. readyResources' \in Seq(Resources)
    BY <1>2, <2>1, AppendFacts
  <2>9. TypeOK'
    BY <1>1, <1>2, <2>1, <2>2, <2>8 DEF TypeOK
  <2>10. \A x : isLoadingResource(x)' => isLoadingResource(x) /\ x # r
    BY <1>1, <2>5 DEF isLoadingResource, ToSet
  <2>11. ReadyOK'
    <3>1. CASE readyResources' = readyResources
      BY <1>1, <1>2, <2>10, <3>1 DEF ReadyOK
    <3>2. CASE readyResources' = Append(readyResources, r)
      <4>1. /\ DOMAIN readyResources = 1 .. Len(readyResources) /\ Len(readyResources) \in Nat
            /\ DOMAIN readyResources' = 1 .. Len(readyResources) + 1
            /\ readyResources'[Len(readyResources) + 1] = r
            /\ \A i \in 1 .. Len(readyResources) : readyResources'[i] = readyResources[i]
        BY <1>2, <2>4, <3>2, AppendFacts
      <4>2. \A i \in 1 .. Len(readyResources) : readyResources[i] # r /\ ~isLoadingResource(readyResources[i])'
              /\ status[readyResources[i]] # "new"
        BY <1>2, <2>4, <2>10, <4>1 DEF ReadyOK
      <4>3. (\A i, k \in DOMAIN readyResources : readyResources[i] = readyResources[k] => i = k)'
        BY <1>2, <4>1, <4>2 DEF ReadyOK
      <4>4. (\A i \in DOMAIN readyResources :
               ~isLoadingResource(readyResources[i]) /\ status[readyResources[i]] # "new")'
        BY <1>1, <2>4, <2>10, <4>1, <4>2
      <4>5. QED
        BY <1>1, <4>3, <4>4 DEF ReadyOK
    <3>3. QED
      BY <2>1, <3>1, <3>2
  <2>12. QED
    BY <1>3, <2>7, <2>9, <2>11 DEF LoadsInv
<1>5. CASE phase[j] # "done"
  <2>1. index' = index + 1 /\ UNCHANGED <<m_inFlight, readyResources>>
    BY <1>5 DEF CollectEntry
  <2>2. TypeOK'
    BY <1>1, <1>2, <2>1 DEF TypeOK
  <2>3. InFlightOK'
    BY <1>1, <1>2, <2>1, InFlightKept DEF Waiting
  <2>4. ReadyOK'
    BY <1>1, <1>2, <2>1 DEF ReadyOK, isLoadingResource
  <2>5. QED
    BY <1>3, <2>2, <2>3, <2>4 DEF LoadsInv
<1>6. QED
  BY <1>4, <1>5

LEMMA TailFacts ==
  ASSUME NEW S, NEW s \in Seq(S), s # <<>>
  PROVE  /\ Tail(s) \in Seq(S) /\ Head(s) = s[1] /\ Head(s) \in S /\ 1 \in DOMAIN s
         /\ DOMAIN Tail(s) = 1 .. Len(s) - 1 /\ Len(s) \in Nat /\ DOMAIN s = 1 .. Len(s)
         /\ \A i \in 1 .. Len(s) - 1 : Tail(s)[i] = s[i + 1] /\ i + 1 \in DOMAIN s /\ i + 1 # 1
  OBVIOUS

LEMMA ReloadCollectedLoads == ASSUME LoadsInv, ReloadCollected PROVE LoadsInv'
<1> USE DEF object, load, locals, queues
<1> DEFINE r == Head(readyResources)
<1>1. /\ pc = "reload" /\ pc' = "reload" /\ readyResources # <<>> /\ readyResources' = Tail(readyResources)
      /\ UNCHANGED <<status, managed, asyncDestroyQueue, bShuttingDown,
                     index, amount, awaited, after, overtaken>>
  BY DEF ReloadCollected
<1>2. TypeOK /\ InFlightOK /\ ReadyOK /\ Bounded /\ readyResources \in Seq(Resources)
  BY DEF LoadsInv, TypeOK
<1>3. /\ readyResources' \in Seq(Resources) /\ r = readyResources[1] /\ r \in Resources
      /\ 1 \in DOMAIN readyResources
      /\ DOMAIN readyResources' = 1 .. Len(readyResources) - 1
      /\ \A i \in DOMAIN readyResources' :
           readyResources'[i] = readyResources[i + 1] /\ i + 1 \in DOMAIN readyResources /\ i + 1 # 1 /\ i \in Nat
  BY <1>1, <1>2, TailFacts
<1>4. ~isLoadingResource(r) /\ status[r] # "new"
  BY <1>2, <1>3 DEF ReadyOK
<1>5. \A i \in DOMAIN readyResources' : /\ readyResources'[i] # r /\ ~isLoadingResource(readyResources'[i])
                                         /\ status[readyResources'[i]] # "new"
  BY <1>2, <1>3 DEF ReadyOK
<1>6. \A i, k \in DOMAIN readyResources' : readyResources'[i] = readyResources'[k] => i = k
  <2> SUFFICES ASSUME NEW i \in DOMAIN readyResources', NEW k \in DOMAIN readyResources',
                      readyResources'[i] = readyResources'[k]
               PROVE  i = k
    OBVIOUS
  <2>1. i + 1 = k + 1 /\ i \in Nat /\ k \in Nat
    BY <1>2, <1>3 DEF ReadyOK
  <2>2. QED
    BY <2>1
<1>7. DoomedOK'
  BY <1>1 DEF LoadsInv, DoomedOK, Waiting
<1>8. CASE r \in pendingReloads
  <2>1. /\ pendingReloads' = pendingReloads \ {r} /\ data' = [data EXCEPT ![r] = "empty"]
        /\ bInterrupted' = bInterrupted \ {r} /\ Request(r, m_inFlight)
    BY <1>8 DEF ReloadCollected
  <2> HIDE DEF r
  <2>2. /\ InFlightOK' /\ Bounded'
        /\ requested' \in 0 .. MaxLoads /\ target' \in [Loads -> Resources]
        /\ phase' \in [Loads -> {"none", "queued", "entered", "loading", "done"}]
        /\ \A i \in Loads : (phase'[i] = "none") <=> i > requested'
        /\ m_inFlight' \in Seq(Loads) /\ pendingReloads' \subseteq Resources
        /\ \A j \in Loads : j <= requested => target'[j] = target[j]
        /\ \A i \in DOMAIN m_inFlight' :
             \/ \E k \in DOMAIN m_inFlight : m_inFlight'[i] = m_inFlight[k] /\ m_inFlight[k] <= requested
             \/ target'[m_inFlight'[i]] = r
    BY <1>1, <1>2, <1>4, <1>8, <2>1, DeferredLoads DEF Waiting
  <2>3. data' \in [Resources -> {"empty", "partial", "raw", "ready"}]
    BY <1>2, <2>1 DEF TypeOK
  <2>4. TypeOK'
    BY <1>1, <1>2, <1>3, <2>1, <2>2, <2>3 DEF TypeOK
  <2>5. \A x : isLoadingResource(x)' => x = r \/ isLoadingResource(x)
    <3> SUFFICES ASSUME NEW x, NEW i \in DOMAIN m_inFlight', target'[m_inFlight'[i]] = x, x # r
                 PROVE  isLoadingResource(x)
      BY DEF isLoadingResource, ToSet
    <3>1. PICK k \in DOMAIN m_inFlight : m_inFlight'[i] = m_inFlight[k] /\ m_inFlight[k] <= requested
      BY <2>2
    <3>2. m_inFlight[k] \in Loads
      BY <1>2 DEF TypeOK
    <3>3. QED
      BY <2>2, <3>1, <3>2, IsLoading
  <2>6. ReadyOK'
    BY <1>1, <1>5, <1>6, <2>5 DEF ReadyOK
  <2>7. QED
    BY <1>7, <2>2, <2>4, <2>6 DEF LoadsInv
<1>9. CASE r \notin pendingReloads
  <2>1. UNCHANGED <<data, bInterrupted, pendingReloads, load, m_inFlight>>
    BY <1>9 DEF ReloadCollected
  <2> HIDE DEF r
  <2>2. TypeOK'
    BY <1>1, <1>2, <1>3, <2>1 DEF TypeOK
  <2>3. InFlightOK'
    BY <1>1, <1>2, <2>1, InFlightKept DEF Waiting
  <2>4. ReadyOK'
    BY <1>1, <1>5, <1>6, <2>1 DEF ReadyOK, isLoadingResource
  <2>5. Bounded'
    BY <2>1 DEF LoadsInv, Bounded
  <2>6. QED
    BY <1>7, <2>2, <2>3, <2>4, <2>5 DEF LoadsInv
<1>10. QED
  BY <1>8, <1>9

LEMMA DestroyEntryLoads == ASSUME LoadsInv, DestroyEntry PROVE LoadsInv'
<1> USE DEF object, load, locals, queues
<1> DEFINE r == asyncDestroyQueue[index]
<1>1. /\ pc = "destroy" /\ pc' = "destroy" /\ index <= Len(asyncDestroyQueue) /\ amount > 0
      /\ UNCHANGED <<managed, load, m_inFlight, pendingReloads, bShuttingDown, readyResources, awaited, after, overtaken>>
  BY DEF DestroyEntry, Destroying
<1>2. TypeOK /\ InFlightOK /\ asyncDestroyQueue \in Seq(Resources) /\ readyResources = <<>>
      /\ index \in DOMAIN asyncDestroyQueue /\ r \in Resources
  <2>1. TypeOK /\ InFlightOK /\ asyncDestroyQueue \in Seq(Resources) /\ readyResources = <<>>
    BY <1>1 DEF LoadsInv, TypeOK, ReadyOK
  <2>2. index \in DOMAIN asyncDestroyQueue
    BY <1>1, <2>1 DEF TypeOK
  <2>3. QED
    BY <2>1, <2>2
<1>3. ReadyOK' /\ Bounded'
  BY <1>1, <1>2 DEF LoadsInv, ReadyOK, Bounded
<1>4. CASE isLoadingResource(r)
  <2>1. index' = index + 1 /\ UNCHANGED <<object, asyncDestroyQueue, amount>>
    BY <1>4 DEF DestroyEntry
  <2>2. TypeOK'
    BY <1>1, <1>2, <2>1 DEF TypeOK
  <2>3. InFlightOK'
    BY <1>1, <1>2, <2>1, InFlightKept DEF Waiting
  <2>4. DoomedOK'
    BY <1>1, <2>1 DEF LoadsInv, DoomedOK, Waiting
  <2>5. QED
    BY <1>3, <2>2, <2>3, <2>4 DEF LoadsInv
<1>5. CASE ~isLoadingResource(r)
  <2>1. /\ Release({r}) /\ asyncDestroyQueue' = RemoveAt(asyncDestroyQueue, index)
        /\ amount' = amount - 1 /\ index' = index
    BY <1>5 DEF DestroyEntry
  <2>2. /\ data' \in [Resources -> {"empty", "partial", "raw", "ready"}]
        /\ status' \in [Resources -> {"new", "live", "doomed", "kept", "freed"}]
        /\ status'[r] = "freed" /\ \A x \in Resources : x # r => status'[x] = status[x]
        /\ bInterrupted' \subseteq Resources
    BY <1>2, <2>1 DEF Release, TypeOK
  <2>3. /\ asyncDestroyQueue' \in Seq(Resources)
        /\ \A m \in DOMAIN asyncDestroyQueue : m # index =>
             \E k \in DOMAIN asyncDestroyQueue' : asyncDestroyQueue'[k] = asyncDestroyQueue[m]
    BY <1>2, <2>1, RemoveAtKeeps, RemoveAtFacts
  <2>4. amount' \in 0 .. Batch
    BY <1>1, <1>2, <2>1, LoaderAssumption DEF TypeOK
  <2>5. TypeOK'
    BY <1>1, <1>2, <2>1, <2>2, <2>3, <2>4 DEF TypeOK
  <2>6. InFlightOK'
    BY <1>1, <1>2, <2>2, InFlightKept DEF Waiting
  <2>7. DoomedOK'
    <3>1. ASSUME NEW x \in Resources, status'[x] = "doomed"
          PROVE  \E k \in DOMAIN asyncDestroyQueue' : asyncDestroyQueue'[k] = x
      <4>1. x # r /\ status[x] = "doomed"
        BY <2>2, <3>1
      <4>2. PICK m \in DOMAIN asyncDestroyQueue : asyncDestroyQueue[m] = x
        BY <1>1, <4>1 DEF LoadsInv, DoomedOK, Waiting
      <4>3. QED
        BY <2>3, <4>1, <4>2
    <3>2. QED
      BY <1>1, <3>1 DEF DoomedOK, Waiting
  <2>8. QED
    BY <1>3, <2>5, <2>6, <2>7 DEF LoadsInv
<1>6. QED
  BY <1>4, <1>5

LEMMA ShutdownEndsLoads == ASSUME LoadsInv, ShutdownEnds PROVE LoadsInv'
<1> USE DEF object, load, locals, queues
<1>1. /\ pc = "drain" /\ pc' = "closed" /\ \A j \in ToSet(m_inFlight) : phase[j] = "done"
      /\ m_inFlight' = <<>> /\ pendingReloads' = {} /\ asyncDestroyQueue' = <<>>
      /\ Release(ToSet(asyncDestroyQueue))
      /\ UNCHANGED <<managed, load, bShuttingDown, readyResources, index, amount, awaited, after, overtaken>>
  BY DEF ShutdownEnds
<1>2. TypeOK /\ InFlightOK /\ readyResources = <<>>
  BY <1>1 DEF LoadsInv, ReadyOK
<1>3. /\ data' \in [Resources -> {"empty", "partial", "raw", "ready"}]
      /\ status' \in [Resources -> {"new", "live", "doomed", "kept", "freed"}]
      /\ \A x \in Resources : status'[x] = IF x \in ToSet(asyncDestroyQueue) THEN "freed" ELSE status[x]
      /\ bInterrupted' \subseteq Resources
  BY <1>1, <1>2 DEF Release, TypeOK
<1>4. TypeOK'
  BY <1>1, <1>2, <1>3 DEF TypeOK
<1>5. InFlightOK'
  <2>1. \A j \in Loads : ~Unfinished(j)
    <3> SUFFICES ASSUME NEW j \in Loads, Unfinished(j) PROVE FALSE
      OBVIOUS
    <3>1. PICK i \in DOMAIN m_inFlight : m_inFlight[i] = j
      BY <1>1, <1>2 DEF InFlightOK
    <3>2. phase[j] = "done"
      BY <1>1, <3>1 DEF ToSet
    <3>3. QED
      BY <3>2 DEF Unfinished
  <2>2. QED
    BY <1>1, <2>1 DEF InFlightOK, Unfinished, Waiting
<1>6. ReadyOK'
  BY <1>1, <1>2 DEF ReadyOK
<1>7. DoomedOK'
  <2>1. \A x \in Resources : status'[x] # "doomed"
    BY <1>1, <1>3 DEF LoadsInv, DoomedOK, Waiting, ToSet
  <2>2. QED
    BY <1>1, <2>1 DEF DoomedOK, Waiting
<1>8. Bounded'
  BY <1>1, <1>2, FS_EmptySet, LoaderAssumption DEF Bounded, TypeOK
<1>9. QED
  BY <1>4, <1>5, <1>6, <1>7, <1>8 DEF LoadsInv

LEMMA LoadsStep == LoadsInv /\ [Next]_vars => LoadsInv'
<1> SUFFICES ASSUME LoadsInv, [Next]_vars PROVE LoadsInv'
  OBVIOUS
<1>1. CASE UNCHANGED vars
  BY <1>1 DEF vars, LoadsInv, TypeOK, InFlightOK, ReadyOK, DoomedOK, Bounded, Waiting, Unfinished, isLoadingResource
<1>2. CASE \E j \in Loads : WorkerStep(j)
  BY <1>2, WorkerLoads
<1>3. CASE \E r \in Resources : LoadResource(r) \/ ReloadAsync(r) \/ ReloadSync(r) \/ Destroy(r)
                                 \/ WaitForResource(r)
  BY <1>3, LoadResourceLoads, ReloadAsyncLoads, ReloadSyncLoads, DestroyLoads, WaitForResourceLoads
<1>4. CASE UpdateStep \/ WaitStep \/ StartClose \/ CloseStep
  BY <1>4, MovingLoads, CollectEntryLoads, ReloadCollectedLoads, DestroyEntryLoads, WaitEndsLoads, AfterWaitLoads,
     CloseManagedLoads, ShutdownEndsLoads DEF UpdateStep, WaitStep, CloseStep
<1>5. QED
  BY <1>1, <1>2, <1>3, <1>4 DEF Next

-----------------------------------------------------------------------------
(* What each step does to the objects.                                     *)
Undisturbed ==
  \A r \in Resources \ overtaken : data[r] = "partial" /\ data'[r] # "partial" =>
    \E j \in Loads : target[j] = r /\ phase[j] = "loading" /\ phase'[j] = "done"
NotRevived ==
  requested' > requested =>
    \/ status[target'[requested']] \notin {"doomed", "freed"}
    \/ target'[requested'] \in overtaken'
ObjectsKept == ObjectsInv' /\ Undisturbed /\ NotRevived

LEMMA NotPartial ==
  ASSUME LoadsInv, PartialOK, NEW r \in Resources, ~isLoadingResource(r),
         pc = "wait" => target[awaited] # r \/ phase[awaited] = "done"
  PROVE  data[r] # "partial"
<1> SUFFICES ASSUME data[r] = "partial" PROVE FALSE
  OBVIOUS
<1>1. PICK j \in Loads : target[j] = r /\ phase[j] = "loading"
  BY DEF PartialOK
<1>2. \A i \in DOMAIN m_inFlight : m_inFlight[i] # j
  BY <1>1, IsLoading
<1>3. pc = "wait" /\ awaited = j
  BY <1>1, <1>2 DEF LoadsInv, InFlightOK, Unfinished
<1>4. QED
  BY <1>1, <1>3

LEMMA PartialKept ==
  ASSUME PartialOK, \A x \in Resources : data'[x] = "partial" => data[x] = "partial",
         \A j \in Loads : phase[j] = "loading" => target'[j] = target[j] /\ phase'[j] = "loading"
  PROVE  PartialOK'
<1> SUFFICES ASSUME NEW r \in Resources, data'[r] = "partial"
             PROVE  \E j \in Loads : target'[j] = r /\ phase'[j] = "loading"
  BY DEF PartialOK
<1>1. PICK j \in Loads : target[j] = r /\ phase[j] = "loading"
  BY DEF PartialOK
<1>2. QED
  BY <1>1

LEMMA RequestFrames ==
  ASSUME TypeOK, InFlightOK, NEW r \in Resources, Request(r, m_inFlight), bShuttingDown \/ requested < MaxLoads
  PROVE  /\ \A x : isLoadingResource(x) => isLoadingResource(x)'
         /\ \A i \in DOMAIN m_inFlight' :
              \/ target'[m_inFlight'[i]] = r
              \/ \E k \in DOMAIN m_inFlight : target'[m_inFlight'[i]] = target[m_inFlight[k]]
         /\ \A j \in Loads : phase[j] = "loading" => target'[j] = target[j] /\ phase'[j] = "loading"
         /\ requested' > requested => target'[requested'] = r
<1>1. /\ \A j \in Loads : j <= requested => target'[j] = target[j] /\ phase'[j] = phase[j]
      /\ \/ bShuttingDown /\ UNCHANGED <<requested, target, phase, m_inFlight>>
         \/ /\ ~bShuttingDown /\ requested' = requested + 1 /\ requested' \in Loads
            /\ target'[requested'] = r /\ phase'[requested'] = "queued"
            /\ m_inFlight' = Append(m_inFlight, requested')
  BY RequestTypes
<1>2. requested \in Nat /\ m_inFlight \in Seq(Loads) /\ \A j \in Loads : j \in Nat
  BY LoaderAssumption DEF TypeOK, Loads
<1>3. \A j \in Loads : phase[j] = "loading" => target'[j] = target[j] /\ phase'[j] = "loading"
  <2>1. \A j \in Loads : phase[j] = "loading" => j <= requested
    BY <1>2 DEF TypeOK
  <2>2. QED
    BY <1>1, <2>1
<1>4. \A k \in DOMAIN m_inFlight : m_inFlight[k] \in Loads /\ target'[m_inFlight[k]] = target[m_inFlight[k]]
  BY <1>1, <1>2 DEF InFlightOK
<1>5. CASE bShuttingDown
  <2>1. UNCHANGED <<requested, target, phase, m_inFlight>>
    BY <1>1, <1>5
  <2>2. QED
    BY <1>2, <1>3, <2>1 DEF isLoadingResource
<1>6. CASE ~bShuttingDown
  <2>1. /\ requested' \in Loads /\ target'[requested'] = r /\ m_inFlight' = Append(m_inFlight, requested')
    BY <1>1, <1>6
  <2>2. /\ DOMAIN m_inFlight = 1 .. Len(m_inFlight) /\ Len(m_inFlight) \in Nat
        /\ DOMAIN m_inFlight' = 1 .. Len(m_inFlight) + 1
        /\ m_inFlight'[Len(m_inFlight) + 1] = requested'
        /\ \A k \in 1 .. Len(m_inFlight) : m_inFlight'[k] = m_inFlight[k]
    BY <1>2, <2>1, AppendFacts
  <2>3. \A x : isLoadingResource(x) => isLoadingResource(x)'
    <3> SUFFICES ASSUME NEW k \in DOMAIN m_inFlight
                 PROVE  \E i \in DOMAIN m_inFlight' : target'[m_inFlight'[i]] = target[m_inFlight[k]]
      BY DEF isLoadingResource, ToSet
    <3>1. k \in DOMAIN m_inFlight' /\ target'[m_inFlight'[k]] = target[m_inFlight[k]]
      BY <1>4, <2>2
    <3>2. QED
      BY <3>1
  <2>4. ASSUME NEW i \in DOMAIN m_inFlight'
        PROVE  \/ target'[m_inFlight'[i]] = r
               \/ \E k \in DOMAIN m_inFlight : target'[m_inFlight'[i]] = target[m_inFlight[k]]
    <3>1. CASE i = Len(m_inFlight) + 1
      BY <2>1, <2>2, <3>1
    <3>2. CASE i # Len(m_inFlight) + 1
      BY <1>4, <2>2, <3>2
    <3>3. QED
      BY <3>1, <3>2
  <2>5. QED
    BY <1>3, <2>1, <2>3, <2>4
<1>7. QED
  BY <1>5, <1>6

LEMMA ObjectsInit == Init => ObjectsInv
  BY DEF Init, ObjectsInv, PendingOK, InterruptedOK, QueueOK, AwaitedOK, ExistsOK, PartialOK, Waiting

LEMMA WorkerObjects == ASSUME LoadsInv, ObjectsInv, NEW j \in Loads, WorkerStep(j) PROVE ObjectsKept
<1> USE DEF object, queues, locals
<1>1. /\ UNCHANGED <<status, managed, requested, target, m_inFlight, pendingReloads, asyncDestroyQueue,
                     bShuttingDown, pc, readyResources, index, amount, awaited, after, overtaken>>
      /\ bInterrupted' \subseteq bInterrupted
  BY DEF WorkerStep, CheckInterrupted, LoadAsync, InitAsyncReturns
<1>2. TypeOK /\ target[j] \in Resources
  BY DEF LoadsInv, TypeOK
<1>3. PendingOK' /\ InterruptedOK' /\ QueueOK' /\ AwaitedOK' /\ ExistsOK'
  BY <1>1 DEF ObjectsInv, PendingOK, InterruptedOK, QueueOK, AwaitedOK, ExistsOK, Waiting, isLoadingResource
<1>4. NotRevived
  BY <1>1, <1>2 DEF NotRevived, TypeOK
<1>5. PartialOK' /\ Undisturbed
  <2>1. CASE CheckInterrupted(j)
    <3>1. /\ phase[j] = "queued" /\ data' = data
          /\ \A i \in Loads : i # j => phase'[i] = phase[i]
      BY <1>2, <2>1 DEF CheckInterrupted, TypeOK
    <3>2. QED
      BY <1>1, <3>1, PartialKept DEF ObjectsInv, Undisturbed
  <2>2. CASE LoadAsync(j)
    <3>1. /\ phase'[j] = "loading" /\ phase[j] = "entered"
          /\ \A i \in Loads : i # j => phase'[i] = phase[i]
          /\ \A x \in Resources : x # target[j] => data'[x] = data[x]
          /\ data'[target[j]] = "partial"
      BY <1>2, <2>2 DEF LoadAsync, TypeOK
    <3>2. Undisturbed
      BY <3>1 DEF Undisturbed
    <3>3. PartialOK'
      <4> SUFFICES ASSUME NEW r \in Resources, data'[r] = "partial"
                   PROVE  \E i \in Loads : target'[i] = r /\ phase'[i] = "loading"
        BY DEF PartialOK
      <4>1. CASE r = target[j]
        BY <1>1, <3>1, <4>1
      <4>2. CASE r # target[j]
        <5>1. PICK i \in Loads : target[i] = r /\ phase[i] = "loading"
          BY <3>1, <4>2 DEF ObjectsInv, PartialOK
        <5>2. QED
          BY <1>1, <3>1, <4>2, <5>1
      <4>3. QED
        BY <4>1, <4>2
    <3>4. QED
      BY <3>2, <3>3
  <2>3. CASE InitAsyncReturns(j)
    <3>1. /\ phase'[j] = "done" /\ phase[j] = "loading"
          /\ \A i \in Loads : i # j => phase'[i] = phase[i]
          /\ \A x \in Resources : x # target[j] => data'[x] = data[x]
          /\ data'[target[j]] # "partial"
      BY <1>2, <2>3 DEF InitAsyncReturns, TypeOK
    <3>2. Undisturbed
      BY <3>1 DEF Undisturbed
    <3>3. PartialOK'
      <4> SUFFICES ASSUME NEW r \in Resources, data'[r] = "partial"
                   PROVE  \E i \in Loads : target'[i] = r /\ phase'[i] = "loading"
        BY DEF PartialOK
      <4>1. PICK i \in Loads : target[i] = r /\ phase[i] = "loading"
        BY <3>1 DEF ObjectsInv, PartialOK
      <4>2. QED
        BY <1>1, <3>1, <4>1
    <3>4. QED
      BY <3>2, <3>3
  <2>4. QED
    BY <2>1, <2>2, <2>3 DEF WorkerStep
<1>6. QED
  BY <1>3, <1>4, <1>5 DEF ObjectsKept, ObjectsInv

LEMMA BlockedObjects ==
  ASSUME LoadsInv, ObjectsInv, NEW r \in Resources, status[r] = "live",
         NEW next \in {"nothing", "reload", "freed", "kept", "close"},
         isLoadingResource(r), WaitFor(r, next), pc \in {"idle", "closing"},
         UNCHANGED <<data, load, pendingReloads, asyncDestroyQueue>>,
         bInterrupted' = bInterrupted \/ (next # "nothing" /\ bInterrupted' = bInterrupted \cup {r}),
         NEW fate \in {"live", "doomed", "kept"}, status' = [status EXCEPT ![r] = fate],
         IF next \in {"nothing", "reload"} THEN fate = "live" ELSE r \notin managed',
         managed' \subseteq managed, UNCHANGED bShuttingDown
  PROVE  ObjectsKept
<1>1. /\ pc' = "wait" /\ after' = next /\ readyResources = <<>>
      /\ UNCHANGED <<data, requested, target, phase, pendingReloads, asyncDestroyQueue, readyResources,
                     overtaken>>
  BY DEF WaitFor, load, LoadsInv, ReadyOK
<1>2. TypeOK /\ InFlightOK /\ status \in [Resources -> {"new", "live", "doomed", "kept", "freed"}]
  BY DEF LoadsInv, TypeOK
<1>3. status'[r] = fate /\ \A x \in Resources : x # r => status'[x] = status[x]
  BY <1>2
<1>4. /\ awaited' \in Loads /\ target[awaited'] = r /\ m_inFlight' \in Seq(Loads)
      /\ \A i \in DOMAIN m_inFlight' : \E k \in DOMAIN m_inFlight : m_inFlight'[i] = m_inFlight[k]
      /\ \A i \in DOMAIN m_inFlight' : target[m_inFlight'[i]] # r
      /\ \A k \in DOMAIN m_inFlight :
           target[m_inFlight[k]] # r => \E i \in DOMAIN m_inFlight' : m_inFlight'[i] = m_inFlight[k]
  BY <1>2, <1>3, BlockingLoads
<1>5. \A x \in Resources : x # r /\ isLoadingResource(x) => isLoadingResource(x)'
  BY <1>1, <1>4 DEF isLoadingResource, ToSet
<1>6. ~Waiting /\ Waiting'
  BY <1>1 DEF Waiting
<1>7. PendingOK'
  <2> SUFFICES ASSUME NEW x \in pendingReloads, x # r
               PROVE  status'[x] = "live" /\ x \notin bInterrupted' /\ isLoadingResource(x)'
    BY <1>1, <1>4 DEF PendingOK
  <2>1. x \in Resources
    BY <1>1, <1>2 DEF TypeOK
  <2>2. isLoadingResource(x) /\ status[x] = "live" /\ x \notin bInterrupted
    BY <1>1 DEF ObjectsInv, PendingOK
  <2>3. QED
    BY <1>1, <1>3, <1>5, <2>1, <2>2
<1>8. InterruptedOK'
  <2> SUFFICES ASSUME NEW x \in bInterrupted'
               PROVE  status'[x] = "doomed" \/ (next # "nothing" /\ x = r)
    BY <1>1, <1>4, <1>6 DEF InterruptedOK
  <2>1. CASE x = r
    <3>1. r \notin bInterrupted
      BY <1>6 DEF ObjectsInv, InterruptedOK
    <3>2. QED
      BY <2>1, <3>1
  <2>2. CASE x # r
    <3>1. x \in bInterrupted /\ x \in Resources
      BY <1>2, <2>2 DEF TypeOK
    <3>2. QED
      BY <1>3, <1>6, <2>2, <3>1 DEF ObjectsInv, InterruptedOK
  <2>3. QED
    BY <2>1, <2>2
<1>9. \A i \in DOMAIN asyncDestroyQueue : asyncDestroyQueue[i] # r /\ asyncDestroyQueue[i] \in Resources
  BY <1>2 DEF ObjectsInv, QueueOK, TypeOK
<1>10. QueueOK'
  BY <1>1, <1>3, <1>9 DEF ObjectsInv, QueueOK
<1>11. AwaitedOK'
  BY <1>1, <1>3, <1>4, <1>9 DEF AwaitedOK
<1>12. ExistsOK'
  <2>1. ASSUME NEW i \in DOMAIN m_inFlight'
        PROVE  status'[target[m_inFlight'[i]]] \in {"live", "doomed"} \/ target[m_inFlight'[i]] \in overtaken
    <3>1. PICK k \in DOMAIN m_inFlight : m_inFlight'[i] = m_inFlight[k]
      BY <1>4
    <3>2. /\ target[m_inFlight[k]] \in Resources
          /\ status[target[m_inFlight[k]]] \in {"live", "doomed"} \/ target[m_inFlight[k]] \in overtaken
      BY <1>2 DEF TypeOK, ObjectsInv, ExistsOK
    <3>3. QED
      BY <1>3, <1>4, <3>1, <3>2
  <2>2. \A x \in managed' : status'[x] = "live"
    BY <1>2, <1>3 DEF ObjectsInv, ExistsOK, TypeOK
  <2>3. QED
    BY <1>1, <2>1, <2>2 DEF ExistsOK
<1>13. PartialOK' /\ Undisturbed /\ NotRevived
  BY <1>1, <1>2 DEF ObjectsInv, PartialOK, Undisturbed, NotRevived, TypeOK
<1>14. QED
  BY <1>7, <1>8, <1>10, <1>11, <1>12, <1>13 DEF ObjectsKept, ObjectsInv

LEMMA WaitForResourceObjects ==
  ASSUME LoadsInv, ObjectsInv, NEW r \in Resources, WaitForResource(r) PROVE ObjectsKept
<1>1. /\ pc = "idle" /\ status[r] = "live" /\ isLoadingResource(r) /\ WaitFor(r, "nothing")
      /\ UNCHANGED <<object, managed, load, pendingReloads, asyncDestroyQueue, bShuttingDown>>
  BY DEF WaitForResource
<1>2. status' = [status EXCEPT ![r] = "live"]
  BY <1>1 DEF object, LoadsInv, TypeOK
<1>3. /\ UNCHANGED <<data, load, pendingReloads, asyncDestroyQueue>> /\ bInterrupted' = bInterrupted
      /\ managed' \subseteq managed /\ UNCHANGED bShuttingDown
  BY <1>1 DEF object
<1>4. pc \in {"idle", "closing"} /\ "nothing" \in {"nothing", "reload", "freed", "kept", "close"}
  BY <1>1
<1>5. QED
  BY <1>1, <1>2, <1>3, <1>4, BlockedObjects

LEMMA SettledObjects ==
  ASSUME LoadsInv, ObjectsInv, NEW r \in Resources, ~isLoadingResource(r) \/ r \in overtaken, r \notin pendingReloads,
         \A i \in DOMAIN asyncDestroyQueue : asyncDestroyQueue[i] # r,
         NEW fate \in {"live", "kept", "freed"}, status' = [status EXCEPT ![r] = fate],
         IF fate = "live" THEN status[r] = "live" ELSE r \notin managed',
         NEW d \in {"empty", "raw", "ready"}, data' = [data EXCEPT ![r] = d],
         bInterrupted' = bInterrupted \ {r}, managed' \subseteq managed,
         UNCHANGED <<load, queues, bShuttingDown, readyResources, overtaken>>,
         \/ pc \in {"idle", "closing"} /\ UNCHANGED <<pc, awaited, after>>
         \/ pc = "afterWait" /\ pc' \in {"idle", "closing"} /\ r = target[awaited]
  PROVE  ObjectsKept
<1> USE DEF load, queues
<1>1. TypeOK /\ InFlightOK /\ status \in [Resources -> {"new", "live", "doomed", "kept", "freed"}]
      /\ readyResources = <<>>
  BY DEF LoadsInv, TypeOK, ReadyOK
<1>2. status'[r] = fate /\ \A x \in Resources : x # r => status'[x] = status[x]
  BY <1>1
<1>3. ~Waiting' /\ pc' \in {"idle", "closing"}
      /\ (Waiting => r = target[awaited]) /\ pc \notin {"wait", "drain", "closed"}
  BY DEF Waiting
<1>4. r \notin overtaken => data[r] # "partial"
  BY <1>3, NotPartial DEF ObjectsInv
<1>5. \A x \in Resources : x # r => data'[x] = data[x]
  BY <1>1 DEF TypeOK
<1>6. data'[r] # "partial"
  BY <1>1 DEF TypeOK
<1>7. PendingOK'
  <2> SUFFICES ASSUME NEW x \in pendingReloads
               PROVE  /\ status'[x] = "live" /\ x \notin bInterrupted'
                      /\ isLoadingResource(x)'
    BY <1>3 DEF PendingOK
  <2>1. x \in Resources /\ x # r
    BY <1>1 DEF TypeOK
  <2>2. isLoadingResource(x) /\ status[x] = "live" /\ x \notin bInterrupted
    BY <1>1, <1>3 DEF ObjectsInv, PendingOK
  <2>3. QED
    BY <1>2, <1>3, <2>1, <2>2 DEF isLoadingResource
<1>8. InterruptedOK'
  BY <1>1, <1>2, <1>3 DEF ObjectsInv, InterruptedOK, TypeOK
<1>9. QueueOK'
  BY <1>1, <1>2 DEF ObjectsInv, QueueOK, TypeOK
<1>10. AwaitedOK'
  BY <1>3 DEF AwaitedOK
<1>11. ExistsOK'
  <2>1. \A i \in DOMAIN m_inFlight :
          status'[target[m_inFlight[i]]] \in {"live", "doomed"} \/ target[m_inFlight[i]] \in overtaken
    BY <1>1, <1>2, IsLoading DEF ObjectsInv, ExistsOK, TypeOK
  <2>2. \A x \in managed' : status'[x] = "live"
    BY <1>1, <1>2 DEF ObjectsInv, ExistsOK, TypeOK
  <2>3. QED
    BY <1>1, <2>1, <2>2 DEF ExistsOK
<1>12. PartialOK'
  BY <1>5, <1>6, PartialKept DEF ObjectsInv
<1>13. Undisturbed /\ NotRevived
  BY <1>1, <1>4, <1>5 DEF Undisturbed, NotRevived, TypeOK
<1>14. QED
  BY <1>7, <1>8, <1>9, <1>10, <1>11, <1>12, <1>13 DEF ObjectsKept, ObjectsInv

LEMMA RequestedObjects ==
  ASSUME LoadsInv, ObjectsInv, NEW r \in Resources,
         Request(r, m_inFlight), bShuttingDown \/ requested < MaxLoads, ~isLoadingResource(r),
         status[r] \in {"new", "live"}, status' = [status EXCEPT ![r] = "live"],
         data'[r] # "partial", \A x \in Resources : x # r => data'[x] = data[x],
         bInterrupted' \subseteq bInterrupted, managed' \subseteq managed \cup {r},
         pendingReloads' \subseteq pendingReloads \ {r},
         \A i \in DOMAIN readyResources : readyResources[i] # r =>
           \E k \in DOMAIN readyResources' : readyResources'[k] = readyResources[i],
         \A k \in DOMAIN readyResources' : \E i \in DOMAIN readyResources : readyResources'[k] = readyResources[i],
         UNCHANGED <<asyncDestroyQueue, pc, awaited, after, overtaken>>, pc \in {"idle", "reload"}
  PROVE  ObjectsKept
<1>1. TypeOK /\ InFlightOK /\ status \in [Resources -> {"new", "live", "doomed", "kept", "freed"}]
  BY DEF LoadsInv, TypeOK
<1>2. status'[r] = "live" /\ \A x \in Resources : x # r => status'[x] = status[x]
  BY <1>1
<1>3. /\ \A x : isLoadingResource(x) => isLoadingResource(x)'
      /\ \A i \in DOMAIN m_inFlight' :
           \/ target'[m_inFlight'[i]] = r
           \/ \E k \in DOMAIN m_inFlight : target'[m_inFlight'[i]] = target[m_inFlight[k]]
      /\ \A j \in Loads : phase[j] = "loading" => target'[j] = target[j] /\ phase'[j] = "loading"
      /\ requested' > requested => target'[requested'] = r
  BY <1>1, RequestFrames
<1>4. ~Waiting /\ ~Waiting' /\ pc \notin {"drain", "closed", "wait"}
  BY DEF Waiting
<1>5. data[r] # "partial"
  BY <1>4, NotPartial DEF ObjectsInv
<1>6. PendingOK'
  <2> SUFFICES ASSUME NEW x \in pendingReloads'
               PROVE  /\ status'[x] = "live" /\ x \notin bInterrupted'
                      /\ isLoadingResource(x)' \/ \E k \in DOMAIN readyResources' : readyResources'[k] = x
    BY <1>4 DEF PendingOK
  <2>1. x \in Resources /\ x # r /\ x \in pendingReloads
    BY <1>1 DEF TypeOK
  <2>2. /\ status[x] = "live" /\ x \notin bInterrupted
        /\ isLoadingResource(x) \/ \E k \in DOMAIN readyResources : readyResources[k] = x
    BY <1>4, <2>1 DEF ObjectsInv, PendingOK
  <2>3. (\E k \in DOMAIN readyResources : readyResources[k] = x)
          => \E k \in DOMAIN readyResources' : readyResources'[k] = x
    BY <2>1
  <2>4. isLoadingResource(x) => isLoadingResource(x)'
    BY <1>3
  <2>5. status'[x] = "live"
    BY <1>2, <2>1, <2>2
  <2>6. QED
    BY <2>2, <2>3, <2>4, <2>5
<1>7. InterruptedOK'
  BY <1>1, <1>2, <1>4 DEF ObjectsInv, InterruptedOK, TypeOK
<1>8. QueueOK'
  <2>1. \A i \in DOMAIN asyncDestroyQueue : asyncDestroyQueue[i] \in Resources /\ asyncDestroyQueue[i] # r
    BY <1>1 DEF ObjectsInv, QueueOK, TypeOK
  <2>2. QED
    BY <1>2, <2>1 DEF ObjectsInv, QueueOK
<1>9. AwaitedOK'
  BY <1>4 DEF AwaitedOK
<1>10. ExistsOK'
  <2>1. \A k \in DOMAIN m_inFlight :
          /\ target[m_inFlight[k]] \in Resources
          /\ status[target[m_inFlight[k]]] \in {"live", "doomed"} \/ target[m_inFlight[k]] \in overtaken
    BY <1>1 DEF TypeOK, ObjectsInv, ExistsOK
  <2>2. ASSUME NEW i \in DOMAIN m_inFlight'
        PROVE  \/ status'[target'[m_inFlight'[i]]] \in {"live", "doomed"}
               \/ target'[m_inFlight'[i]] \in overtaken
    <3>1. CASE target'[m_inFlight'[i]] = r
      BY <1>2, <3>1
    <3>2. CASE target'[m_inFlight'[i]] # r
      <4>1. PICK k \in DOMAIN m_inFlight : target'[m_inFlight'[i]] = target[m_inFlight[k]]
        BY <1>3, <3>2
      <4>2. QED
        BY <1>2, <2>1, <3>2, <4>1
    <3>3. QED
      BY <3>1, <3>2
  <2>3. ASSUME NEW k \in DOMAIN readyResources'
        PROVE  status'[readyResources'[k]] \in {"live", "doomed"} \/ readyResources'[k] \in overtaken
    <3>1. PICK i \in DOMAIN readyResources : readyResources'[k] = readyResources[i]
      OBVIOUS
    <3>2. /\ readyResources[i] \in Resources
          /\ status[readyResources[i]] \in {"live", "doomed"} \/ readyResources[i] \in overtaken
      BY <1>1 DEF TypeOK, ObjectsInv, ExistsOK
    <3>3. QED
      BY <1>2, <3>1, <3>2
  <2>4. \A x \in managed' : status'[x] = "live"
    BY <1>1, <1>2 DEF ObjectsInv, ExistsOK, TypeOK
  <2>5. QED
    BY <2>2, <2>3, <2>4 DEF ExistsOK
<1>11. PartialOK'
  BY <1>3, PartialKept DEF ObjectsInv
<1>12. Undisturbed /\ NotRevived
  BY <1>3, <1>5 DEF Undisturbed, NotRevived
<1>13. QED
  BY <1>6, <1>7, <1>8, <1>9, <1>10, <1>11, <1>12 DEF ObjectsKept, ObjectsInv

(* A resource whose load is known to nobody is free to be changed.         *)
LEMMA Untouched ==
  ASSUME LoadsInv, ObjectsInv, NEW r \in Resources, status[r] \in {"new", "live"}, ~isLoadingResource(r),
         readyResources = <<>>, pc # "wait"
  PROVE  r \notin pendingReloads /\ \A i \in DOMAIN asyncDestroyQueue : asyncDestroyQueue[i] # r
  BY DEF ObjectsInv, PendingOK, QueueOK

LEMMA LoadResourceObjects == ASSUME LoadsInv, ObjectsInv, NEW r \in Resources, LoadResource(r) PROVE ObjectsKept
<1> USE DEF locals
<1>1. /\ pc = "idle" /\ pc' = "idle" /\ status[r] = "new" /\ status' = [status EXCEPT ![r] = "live"]
      /\ managed' \in {managed, managed \cup {r}}
      /\ UNCHANGED <<bInterrupted, pendingReloads, asyncDestroyQueue, bShuttingDown,
                     readyResources, awaited, after, overtaken>>
  BY DEF LoadResource
<1>2. TypeOK /\ InFlightOK /\ readyResources = <<>>
  BY <1>1 DEF LoadsInv, ReadyOK
<1>3. ~isLoadingResource(r)
  BY <1>1, <1>2, IsLoading DEF InFlightOK
<1>4. r \notin pendingReloads /\ \A i \in DOMAIN asyncDestroyQueue : asyncDestroyQueue[i] # r
  BY <1>1, <1>2, <1>3, Untouched
<1>5. data[r] # "partial"
  BY <1>1, <1>3, NotPartial DEF ObjectsInv
<1>6. CASE WithinBound /\ Request(r, m_inFlight) /\ UNCHANGED data
  <2>1. requested < MaxLoads
    BY <1>2, <1>6, PendingFinite, LoaderAssumption DEF WithinBound, TypeOK
  <2>2. QED
    BY <1>1, <1>2, <1>3, <1>4, <1>5, <1>6, <2>1, RequestedObjects
<1>7. CASE /\ \E result \in {"ready", "empty"} : data' = [data EXCEPT ![r] = result]
           /\ UNCHANGED <<load, m_inFlight>>
  <2> USE DEF load
  <2>1. status'[r] = "live" /\ \A x \in Resources : x # r => status'[x] = status[x] /\ data'[x] = data[x]
    BY <1>1, <1>2, <1>7 DEF TypeOK
  <2>2. data'[r] # "partial"
    BY <1>2, <1>7 DEF TypeOK
  <2>3. PendingOK'
    BY <1>1, <1>2, <1>4, <1>7, <2>1 DEF ObjectsInv, PendingOK, Waiting, isLoadingResource, TypeOK
  <2>4. InterruptedOK' /\ QueueOK' /\ AwaitedOK'
    BY <1>1, <1>2, <1>4, <2>1 DEF ObjectsInv, InterruptedOK, QueueOK, AwaitedOK, Waiting, TypeOK
  <2>5. ExistsOK'
    BY <1>1, <1>2, <1>3, <1>7, <2>1, IsLoading DEF ObjectsInv, ExistsOK, TypeOK
  <2>6. PartialOK'
    BY <1>7, <2>1, <2>2, PartialKept DEF ObjectsInv
  <2>7. Undisturbed /\ NotRevived
    BY <1>2, <1>5, <1>7, <2>1 DEF Undisturbed, NotRevived, TypeOK
  <2>8. QED
    BY <2>3, <2>4, <2>5, <2>6, <2>7 DEF ObjectsKept, ObjectsInv
<1>8. QED
  BY <1>6, <1>7 DEF LoadResource

LEMMA ReloadAsyncObjects == ASSUME LoadsInv, ObjectsInv, NEW r \in Resources, ReloadAsync(r) PROVE ObjectsKept
<1> USE DEF locals
<1>1. /\ pc = "idle" /\ pc' = "idle" /\ status[r] = "live" /\ status' = status /\ WithinBound
      /\ UNCHANGED <<managed, asyncDestroyQueue, bShuttingDown, readyResources, awaited, after, overtaken>>
  BY DEF ReloadAsync, object
<1>2. TypeOK /\ InFlightOK /\ readyResources = <<>>
  BY <1>1 DEF LoadsInv, ReadyOK
<1>3. CASE isLoadingResource(r) /\ pendingReloads' = pendingReloads \cup {r}
           /\ UNCHANGED <<object, load, m_inFlight>>
  <2> USE DEF object, load
  <2>1. r \notin bInterrupted
    BY <1>1 DEF ObjectsInv, InterruptedOK, Waiting
  <2>2. PendingOK'
    BY <1>1, <1>3, <2>1 DEF ObjectsInv, PendingOK, Waiting, isLoadingResource
  <2>3. InterruptedOK' /\ QueueOK' /\ AwaitedOK' /\ ExistsOK' /\ PartialOK'
    BY <1>1, <1>3 DEF ObjectsInv, InterruptedOK, QueueOK, AwaitedOK, ExistsOK, PartialOK, Waiting
  <2>4. Undisturbed /\ NotRevived
    BY <1>2, <1>3 DEF Undisturbed, NotRevived, TypeOK
  <2>5. QED
    BY <2>2, <2>3, <2>4 DEF ObjectsKept, ObjectsInv
<1>4. CASE /\ ~isLoadingResource(r) /\ data' = [data EXCEPT ![r] = "empty"]
           /\ bInterrupted' = bInterrupted \ {r} /\ Request(r, m_inFlight)
           /\ UNCHANGED <<status, pendingReloads>>
  <2>1. requested < MaxLoads
    BY <1>1, <1>2, PendingFinite, LoaderAssumption DEF WithinBound, TypeOK
  <2>2. r \notin pendingReloads
    BY <1>1, <1>2, <1>4, Untouched
  <2>3. data'[r] = "empty" /\ \A x \in Resources : x # r => data'[x] = data[x]
    BY <1>2, <1>4 DEF TypeOK
  <2>4. status' = [status EXCEPT ![r] = "live"]
    BY <1>1, <1>2 DEF TypeOK
  <2>5. QED
    BY <1>1, <1>2, <1>4, <2>1, <2>2, <2>3, <2>4, RequestedObjects
<1>5. QED
  BY <1>3, <1>4 DEF ReloadAsync

LEMMA ReloadSyncObjects ==
  ASSUME LoadsInv, ObjectsInv, NEW r \in Resources, ReloadSync(r)
  PROVE  ObjectsKept
<1>1. pc = "idle" /\ status[r] = "live" /\ UNCHANGED <<managed, bShuttingDown>>
      /\ status' = [status EXCEPT ![r] = "live"] /\ readyResources = <<>>
  BY DEF ReloadSync, LoadsInv, TypeOK, ReadyOK
<1>2. CASE Blocks(r, "reload")
  BY <1>1, <1>2, BlockedObjects DEF Blocks
<1>3. CASE ~Blocks(r, "reload")
  <2>1. PICK result \in {"ready", "empty"} : data' = [data EXCEPT ![r] = result]
    BY <1>3 DEF ReloadSync
  <2>2. bInterrupted' = bInterrupted \ {r} /\ UNCHANGED <<load, queues, pc, locals>> /\ ~isLoadingResource(r)
    BY <1>3 DEF ReloadSync
  <2>3. r \notin pendingReloads /\ \A i \in DOMAIN asyncDestroyQueue : asyncDestroyQueue[i] # r
    BY <1>1, <2>2, Untouched
  <2>4. QED
    BY <1>1, <2>1, <2>2, <2>3, SettledObjects DEF locals
<1>4. QED
  BY <1>2, <1>3

LEMMA DestroyObjects ==
  ASSUME LoadsInv, ObjectsInv, NEW r \in Resources, Destroy(r)
  PROVE  ObjectsKept
<1>1. pc = "idle" /\ status[r] = "live" /\ managed' = managed \ {r} /\ UNCHANGED bShuttingDown
      /\ readyResources = <<>>
  BY DEF Destroy, LoadsInv, ReadyOK
<1>2. ASSUME NEW fate \in {"freed", "kept"}, DestroyNow(r, fate) PROVE ObjectsKept
  <2>1. CASE Blocks(r, fate) /\ status' = [status EXCEPT ![r] = IF fate = "kept" THEN "kept" ELSE "doomed"]
    BY <1>1, <2>1, BlockedObjects DEF Blocks
  <2>2. CASE ~isLoadingResource(r) /\ ReleaseNow(r, fate) /\ UNCHANGED <<load, queues, pc, locals>>
    <3>1. r \notin pendingReloads /\ \A i \in DOMAIN asyncDestroyQueue : asyncDestroyQueue[i] # r
      BY <1>1, <2>2, Untouched
    <3>2. QED
      BY <1>1, <2>2, <3>1, SettledObjects DEF ReleaseNow, locals
  <2>3. QED
    BY <1>2, <2>1, <2>2 DEF DestroyNow
<1>3. CASE DestroyLater(r)
  <2>1. /\ bInterrupted' = bInterrupted \cup {r} /\ status' = [status EXCEPT ![r] = "doomed"]
        /\ pendingReloads' = pendingReloads \ {r} /\ asyncDestroyQueue' = Append(asyncDestroyQueue, r)
        /\ UNCHANGED <<data, requested, target, phase, m_inFlight, pc, readyResources, awaited, after, overtaken>>
    BY <1>3 DEF DestroyLater, load, locals
  <2>2. TypeOK /\ InFlightOK /\ status \in [Resources -> {"new", "live", "doomed", "kept", "freed"}]
    BY DEF LoadsInv, TypeOK
  <2>3. status'[r] = "doomed" /\ \A x \in Resources : x # r => status'[x] = status[x]
    BY <2>1, <2>2
  <2>4. PendingOK'
    BY <1>1, <2>1, <2>2, <2>3 DEF ObjectsInv, PendingOK, Waiting, isLoadingResource, TypeOK
  <2>5. InterruptedOK'
    BY <1>1, <2>1, <2>2, <2>3 DEF ObjectsInv, InterruptedOK, Waiting, TypeOK
  <2>6. \A i \in DOMAIN asyncDestroyQueue : asyncDestroyQueue[i] \in Resources /\ asyncDestroyQueue[i] # r
    BY <1>1, <2>2 DEF ObjectsInv, QueueOK, TypeOK
  <2>7. QueueOK'
    <3>1. /\ DOMAIN asyncDestroyQueue = 1 .. Len(asyncDestroyQueue) /\ Len(asyncDestroyQueue) \in Nat
          /\ DOMAIN asyncDestroyQueue' = 1 .. Len(asyncDestroyQueue) + 1
          /\ asyncDestroyQueue'[Len(asyncDestroyQueue) + 1] = r
          /\ \A i \in 1 .. Len(asyncDestroyQueue) : asyncDestroyQueue'[i] = asyncDestroyQueue[i]
      BY <2>1, <2>2, AppendFacts DEF TypeOK
    <3>2. (\A i, k \in DOMAIN asyncDestroyQueue : asyncDestroyQueue[i] = asyncDestroyQueue[k] => i = k)'
      BY <2>6, <3>1 DEF ObjectsInv, QueueOK
    <3>3. (\A i \in DOMAIN asyncDestroyQueue : status[asyncDestroyQueue[i]] = "doomed")'
      BY <2>3, <2>6, <3>1 DEF ObjectsInv, QueueOK
    <3>4. QED
      BY <3>2, <3>3 DEF QueueOK
  <2>8. AwaitedOK'
    BY <1>1, <2>1 DEF AwaitedOK, Waiting
  <2>9. ExistsOK'
    <3>1. \A i \in DOMAIN m_inFlight :
            status'[target[m_inFlight[i]]] \in {"live", "doomed"} \/ target[m_inFlight[i]] \in overtaken
      BY <2>2, <2>3 DEF ObjectsInv, ExistsOK, TypeOK
    <3>2. \A x \in managed' : status'[x] = "live"
      BY <1>1, <2>2, <2>3 DEF ObjectsInv, ExistsOK, TypeOK
    <3>3. QED
      BY <1>1, <2>1, <3>1, <3>2 DEF ExistsOK
  <2>10. PartialOK' /\ Undisturbed /\ NotRevived
    BY <2>1, <2>2 DEF ObjectsInv, PartialOK, Undisturbed, NotRevived, TypeOK
  <2>11. QED
    BY <2>4, <2>5, <2>7, <2>8, <2>9, <2>10 DEF ObjectsKept, ObjectsInv
<1>4. QED
  BY <1>2, <1>3 DEF Destroy

LEMMA CloseManagedObjects ==
  ASSUME LoadsInv, ObjectsInv, NEW r \in Resources, CloseManaged(r)
  PROVE  ObjectsKept
<1>1. pc = "closing" /\ r \in managed /\ managed' = managed \ {r} /\ UNCHANGED bShuttingDown
      /\ readyResources = <<>> /\ status[r] = "live"
  BY DEF CloseManaged, LoadsInv, ReadyOK, ObjectsInv, ExistsOK
<1>2. CASE Blocks(r, "close") /\ status' = [status EXCEPT ![r] = "doomed"]
  BY <1>1, <1>2, BlockedObjects DEF Blocks
<1>3. CASE ~isLoadingResource(r) /\ ReleaseNow(r, "freed") /\ UNCHANGED <<load, queues, pc, locals>>
  <2>1. r \notin pendingReloads /\ \A i \in DOMAIN asyncDestroyQueue : asyncDestroyQueue[i] # r
    BY <1>1, <1>3, Untouched
  <2>2. QED
    BY <1>1, <1>3, <2>1, SettledObjects DEF ReleaseNow, locals
<1>4. QED
  BY <1>2, <1>3 DEF CloseManaged

LEMMA AfterWaitObjects == ASSUME LoadsInv, ObjectsInv, AfterWait PROVE ObjectsKept
<1> DEFINE r == target[awaited]
<1>1. /\ pc = "afterWait" /\ pc' \in {"idle", "closing"}
      /\ UNCHANGED <<managed, load, queues, bShuttingDown, readyResources, overtaken>>
  BY DEF AfterWait
<1>2. r \in Resources /\ status \in [Resources -> {"new", "live", "doomed", "kept", "freed"}]
  BY <1>1 DEF LoadsInv, TypeOK
<1>3. Waiting
  BY <1>1 DEF Waiting
<1>4. /\ r \notin pendingReloads /\ \A i \in DOMAIN asyncDestroyQueue : asyncDestroyQueue[i] # r
      /\ after # "nothing" => ~isLoadingResource(r) \/ r \in overtaken
  BY <1>1, <1>3 DEF ObjectsInv, AwaitedOK
<1>5. CASE after \notin {"nothing", "reload"} /\ ReleaseNow(r, IF after = "kept" THEN "kept" ELSE "freed")
  <2>1. r \notin managed'
    BY <1>1, <1>3, <1>5 DEF ObjectsInv, AwaitedOK
  <2>2. QED
    BY <1>1, <1>2, <1>4, <1>5, <2>1, SettledObjects DEF ReleaseNow
<1>6. CASE /\ after = "reload"
           /\ \E result \in {"ready", "empty"} : data' = [data EXCEPT ![r] = result]
           /\ bInterrupted' = bInterrupted \ {r}
           /\ UNCHANGED status
  <2>1. PICK result \in {"ready", "empty"} : data' = [data EXCEPT ![r] = result]
    BY <1>6
  <2>2. status[r] = "live" /\ status' = [status EXCEPT ![r] = "live"]
    BY <1>2, <1>3, <1>6 DEF ObjectsInv, AwaitedOK
  <2>3. QED
    BY <1>1, <1>2, <1>4, <1>6, <2>1, <2>2, SettledObjects
<1>7. CASE after = "nothing" /\ UNCHANGED object
  <2> USE DEF object, load, queues
  <2>1. ~Waiting' /\ pc \notin {"wait", "drain", "closed"} /\ pc' \notin {"wait", "drain", "closed"}
    BY <1>1 DEF Waiting
  <2>2. PendingOK'
    BY <1>1, <1>7, <2>1 DEF ObjectsInv, PendingOK, isLoadingResource
  <2>3. InterruptedOK'
    BY <1>1, <1>7, <2>1 DEF ObjectsInv, InterruptedOK
  <2>4. QueueOK' /\ AwaitedOK' /\ ExistsOK' /\ PartialOK'
    BY <1>1, <1>7, <2>1 DEF ObjectsInv, QueueOK, AwaitedOK, ExistsOK, PartialOK
  <2>5. Undisturbed /\ NotRevived
    BY <1>1, <1>7 DEF Undisturbed, NotRevived, LoadsInv, TypeOK
  <2>6. QED
    BY <2>2, <2>3, <2>4, <2>5 DEF ObjectsKept, ObjectsInv
<1>8. QED
  BY <1>5, <1>6, <1>7 DEF AfterWait

LEMMA WaitEndsObjects == ASSUME LoadsInv, ObjectsInv, WaitEnds PROVE ObjectsKept
<1> DEFINE r == target[awaited]
<1> USE DEF load
<1>1. /\ pc = "wait" /\ phase[awaited] = "done" /\ pc' = "afterWait"
      /\ UNCHANGED <<status, managed, asyncDestroyQueue, bShuttingDown,
                     readyResources, index, amount, awaited, after>>
  BY DEF WaitEnds
<1>2. TypeOK /\ InFlightOK /\ r \in Resources /\ readyResources = <<>> /\ awaited \in Loads
  BY <1>1 DEF LoadsInv, TypeOK, ReadyOK
<1>3. Waiting /\ Waiting' /\ pc' \notin {"wait", "drain", "closed"} /\ awaited <= requested
  BY <1>1 DEF Waiting, LoadsInv, InFlightOK
<1>4. ~isLoadingResource(r)
  BY <1>1, <1>2, IsLoading DEF InFlightOK
<1>5. data[r] # "partial"
  BY <1>1, <1>2, <1>4, NotPartial DEF ObjectsInv
<1>6. CASE r \in pendingReloads
  <2>1. /\ pendingReloads' = pendingReloads \ {r} /\ data' = [data EXCEPT ![r] = "empty"]
        /\ bInterrupted' = bInterrupted \ {r} /\ Request(r, m_inFlight)
        /\ overtaken' = overtaken \cup (IF after = "nothing" THEN {} ELSE {r})
    BY <1>6 DEF WaitEnds
  <2>2. requested < MaxLoads
    BY <1>2, <1>6, PendingRequest DEF LoadsInv
  <2>3. target'[awaited] = r
    BY <1>2, <1>3, <2>1, <2>2, RequestTypes
  <2> HIDE DEF r
  <2>4. /\ \A x : isLoadingResource(x) => isLoadingResource(x)'
        /\ \A i \in DOMAIN m_inFlight' :
             \/ target'[m_inFlight'[i]] = r
             \/ \E k \in DOMAIN m_inFlight : target'[m_inFlight'[i]] = target[m_inFlight[k]]
        /\ \A j \in Loads : phase[j] = "loading" => target'[j] = target[j] /\ phase'[j] = "loading"
        /\ requested' > requested => target'[requested'] = r
    BY <1>2, <2>1, <2>2, RequestFrames
  <2>5. data'[r] = "empty" /\ \A x \in Resources : x # r => data'[x] = data[x]
    BY <1>2, <2>1 DEF TypeOK
  <2>6. after # "nothing" => r \in overtaken'
    BY <2>1
  <2>7. after = "nothing" => status[r] = "live"
    BY <1>3 DEF ObjectsInv, AwaitedOK, r
  <2>8. PendingOK'
    <3> SUFFICES ASSUME NEW x \in pendingReloads, x # r
                 PROVE  status[x] = "live" /\ x \notin bInterrupted' /\ isLoadingResource(x)'
      BY <1>1, <2>1 DEF PendingOK
    <3>1. isLoadingResource(x) /\ status[x] = "live" /\ x \notin bInterrupted
      BY <1>1, <1>2 DEF ObjectsInv, PendingOK, r
    <3>2. QED
      BY <2>1, <2>4, <3>1
  <2>9. InterruptedOK'
    BY <1>1, <1>3, <2>1, <2>3 DEF ObjectsInv, InterruptedOK, r
  <2>10. QueueOK'
    BY <1>1 DEF ObjectsInv, QueueOK
  <2>11. AwaitedOK'
    <3>1. /\ status[r] \in {"live", "doomed", "kept"} /\ after # "none"
          /\ after \in {"nothing", "reload"} => status[r] = "live"
          /\ after \notin {"nothing", "reload"} => r \notin managed
          /\ \A i \in DOMAIN asyncDestroyQueue : asyncDestroyQueue[i] # r
      BY <1>3 DEF ObjectsInv, AwaitedOK, r
    <3>2. target'[awaited'] = r
      BY <1>1, <2>3
    <3>3. r \notin pendingReloads' /\ (after' = "nothing" \/ r \in overtaken')
      BY <1>1, <2>1, <2>6
    <3>4. QED
      BY <1>1, <3>1, <3>2, <3>3 DEF AwaitedOK
  <2>12. ExistsOK'
    <3>1. ASSUME NEW i \in DOMAIN m_inFlight'
          PROVE  \/ status[target'[m_inFlight'[i]]] \in {"live", "doomed"}
                 \/ target'[m_inFlight'[i]] \in overtaken'
      <4>1. CASE target'[m_inFlight'[i]] = r
        BY <2>6, <2>7, <4>1
      <4>2. CASE target'[m_inFlight'[i]] # r
        <5>1. PICK k \in DOMAIN m_inFlight : target'[m_inFlight'[i]] = target[m_inFlight[k]]
          BY <2>4, <4>2
        <5>2. status[target[m_inFlight[k]]] \in {"live", "doomed"} \/ target[m_inFlight[k]] \in overtaken
          BY DEF ObjectsInv, ExistsOK
        <5>3. QED
          BY <2>1, <5>1, <5>2
      <4>3. QED
        BY <4>1, <4>2
    <3>2. \A x \in managed' : status'[x] = "live"
      BY <1>1 DEF ObjectsInv, ExistsOK
    <3>3. QED
      BY <1>1, <1>2, <3>1, <3>2 DEF ExistsOK
  <2>13. PartialOK'
    BY <2>4, <2>5, PartialKept DEF ObjectsInv
  <2>14. Undisturbed
    BY <1>5, <2>5 DEF Undisturbed, r
  <2>15. NotRevived
    BY <2>4, <2>6, <2>7 DEF NotRevived
  <2>16. QED
    BY <2>8, <2>9, <2>10, <2>11, <2>12, <2>13, <2>14, <2>15 DEF ObjectsKept, ObjectsInv
<1>7. CASE r \notin pendingReloads
  <2>1. /\ data' = [data EXCEPT ![r] = IF r \in bInterrupted THEN data[r] ELSE Initialised(r)]
        /\ UNCHANGED <<bInterrupted, pendingReloads, load, m_inFlight, overtaken>>
    BY <1>7 DEF WaitEnds
  <2>2. data'[r] # "partial" /\ \A x \in Resources : x # r => data'[x] = data[x]
    BY <1>2, <1>5, <2>1 DEF TypeOK, Initialised
  <2>3. PendingOK'
    BY <1>1, <1>3, <1>7, <2>1 DEF ObjectsInv, PendingOK, isLoadingResource
  <2>4. InterruptedOK' /\ QueueOK' /\ ExistsOK'
    BY <1>1, <1>3, <2>1 DEF ObjectsInv, InterruptedOK, QueueOK, ExistsOK
  <2>5. AwaitedOK'
    BY <1>1, <1>3, <1>4, <1>7, <2>1 DEF ObjectsInv, AwaitedOK, isLoadingResource
  <2>6. PartialOK'
    BY <2>1, <2>2, PartialKept DEF ObjectsInv
  <2>7. Undisturbed /\ NotRevived
    BY <1>2, <1>5, <2>1, <2>2 DEF Undisturbed, NotRevived, TypeOK
  <2>8. QED
    BY <2>3, <2>4, <2>5, <2>6, <2>7 DEF ObjectsKept, ObjectsInv
<1>8. QED
  BY <1>6, <1>7

(* A step that only moves the main thread on.                              *)
LEMMA MovedObjects ==
  ASSUME LoadsInv, ObjectsInv,
         UNCHANGED <<status, load, queues, managed, readyResources, awaited, after, overtaken>>,
         \A x \in Resources : data'[x] = "partial" <=> data[x] = "partial",
         bInterrupted' = bInterrupted \/ pc' = "drain",
         pc \notin {"wait", "afterWait", "drain", "closed"}, pc' \notin {"wait", "afterWait"}
  PROVE  ObjectsKept
<1> USE DEF load, queues
<1>1. TypeOK /\ ~Waiting /\ ~Waiting'
  BY DEF LoadsInv, Waiting
<1>2. PendingOK'
  BY <1>1 DEF ObjectsInv, PendingOK, isLoadingResource
<1>3. InterruptedOK'
  BY <1>1 DEF ObjectsInv, InterruptedOK
<1>4. QueueOK' /\ AwaitedOK' /\ ExistsOK'
  BY <1>1 DEF ObjectsInv, QueueOK, AwaitedOK, ExistsOK
<1>5. PartialOK'
  BY PartialKept DEF ObjectsInv
<1>6. Undisturbed /\ NotRevived
  BY <1>1 DEF Undisturbed, NotRevived, TypeOK
<1>7. QED
  BY <1>2, <1>3, <1>4, <1>5, <1>6 DEF ObjectsKept, ObjectsInv

LEMMA MovingObjects ==
  ASSUME LoadsInv, ObjectsInv,
         StartUpdate \/ InitCollected \/ ReloadsEnd \/ EndUpdate \/ StartClose \/ ShutdownLoader
  PROVE  ObjectsKept
<1> USE DEF object, locals
<1>1. CASE StartUpdate
  <2>1. readyResources' = readyResources
    BY <1>1 DEF StartUpdate, LoadsInv, ReadyOK
  <2>2. QED
    BY <1>1, <2>1, MovedObjects DEF StartUpdate
<1>2. CASE InitCollected
  <2>1. \A x \in Resources : data'[x] = "partial" <=> data[x] = "partial"
    BY <1>2 DEF InitCollected, Initialised
  <2>2. QED
    BY <1>2, <2>1, MovedObjects DEF InitCollected
<1>3. CASE ReloadsEnd
  BY <1>3, MovedObjects DEF ReloadsEnd
<1>4. CASE EndUpdate
  BY <1>4, MovedObjects DEF EndUpdate
<1>5. CASE StartClose
  BY <1>5, MovedObjects DEF StartClose
<1>6. CASE ShutdownLoader
  BY <1>6, MovedObjects DEF ShutdownLoader
<1>7. QED
  BY <1>1, <1>2, <1>3, <1>4, <1>5, <1>6

(* A load that is collected hands a deferred reload over to this update(). *)
LEMMA CollectEntryObjects == ASSUME LoadsInv, ObjectsInv, CollectEntry PROVE ObjectsKept
<1> USE DEF object, load, locals
<1> DEFINE j == m_inFlight[index]
           r == target[j]
<1>1. /\ pc = "collect" /\ pc' = "collect" /\ index <= Len(m_inFlight)
      /\ UNCHANGED <<status, data, bInterrupted, managed, requested, target, phase, pendingReloads,
                     asyncDestroyQueue, bShuttingDown, amount, awaited, after, overtaken>>
  BY DEF CollectEntry, Collecting
<1>2. TypeOK /\ InFlightOK /\ m_inFlight \in Seq(Loads) /\ index \in DOMAIN m_inFlight
      /\ readyResources \in Seq(Resources) /\ j \in Loads /\ r \in Resources
  <2>1. TypeOK /\ InFlightOK /\ m_inFlight \in Seq(Loads) /\ readyResources \in Seq(Resources)
    BY DEF LoadsInv, TypeOK
  <2>2. index \in DOMAIN m_inFlight
    BY <1>1, <2>1 DEF TypeOK
  <2>3. j \in Loads
    BY <2>1, <2>2
  <2>4. QED
    BY <2>1, <2>2, <2>3 DEF TypeOK
<1>3. ~Waiting /\ ~Waiting' /\ pc \notin {"drain", "closed"} /\ pc' \notin {"drain", "closed"}
  BY <1>1 DEF Waiting
<1>4. InterruptedOK' /\ QueueOK' /\ AwaitedOK' /\ PartialOK'
  BY <1>1, <1>3 DEF ObjectsInv, InterruptedOK, QueueOK, AwaitedOK, PartialOK
<1>5. Undisturbed /\ NotRevived
  BY <1>1, <1>2 DEF Undisturbed, NotRevived, TypeOK
<1>6. CASE phase[j] = "done"
  <2>1. /\ m_inFlight' = RemoveAt(m_inFlight, index)
        /\ readyResources' = IF r \in bInterrupted THEN readyResources ELSE Append(readyResources, r)
    BY <1>6 DEF CollectEntry
  <2>2. /\ \A k \in DOMAIN m_inFlight' : \E m \in DOMAIN m_inFlight : m # index /\ m_inFlight'[k] = m_inFlight[m]
        /\ \A m \in DOMAIN m_inFlight : m # index => \E k \in DOMAIN m_inFlight' : m_inFlight'[k] = m_inFlight[m]
    BY <1>2, <2>1, RemoveAtKeeps
  <2>3. status[r] \in {"live", "doomed"} \/ r \in overtaken
    BY <1>2 DEF ObjectsInv, ExistsOK
  <2> HIDE DEF r
  <2>4. /\ \A i \in DOMAIN readyResources :
             \E k \in DOMAIN readyResources' : readyResources'[k] = readyResources[i]
        /\ \A k \in DOMAIN readyResources' :
             \/ readyResources'[k] = r
             \/ \E i \in DOMAIN readyResources : readyResources'[k] = readyResources[i]
        /\ r \notin bInterrupted => \E k \in DOMAIN readyResources' : readyResources'[k] = r
    <3>1. CASE readyResources' = readyResources /\ r \in bInterrupted
      BY <3>1
    <3>2. CASE readyResources' = Append(readyResources, r)
      <4>1. /\ DOMAIN readyResources = 1 .. Len(readyResources) /\ Len(readyResources) \in Nat
            /\ DOMAIN readyResources' = 1 .. Len(readyResources) + 1
            /\ readyResources'[Len(readyResources) + 1] = r
            /\ \A i \in 1 .. Len(readyResources) : readyResources'[i] = readyResources[i]
        BY <1>2, <3>2, AppendFacts
      <4>2. QED
        BY <4>1
    <3>3. QED
      BY <2>1, <3>1, <3>2
  <2>5. \A x : isLoadingResource(x) => x = r \/ isLoadingResource(x)'
    <3> SUFFICES ASSUME NEW m \in DOMAIN m_inFlight
                 PROVE  target[m_inFlight[m]] = r \/ \E k \in DOMAIN m_inFlight' : target'[m_inFlight'[k]] = target[m_inFlight[m]]
      BY DEF isLoadingResource, ToSet
    <3>1. CASE m = index
      BY <3>1 DEF r
    <3>2. CASE m # index
      BY <1>1, <2>2, <3>2
    <3>3. QED
      BY <3>1, <3>2
  <2>6. PendingOK'
    <3> SUFFICES ASSUME NEW x \in pendingReloads
                 PROVE  /\ status[x] = "live" /\ x \notin bInterrupted
                        /\ isLoadingResource(x)' \/ \E k \in DOMAIN readyResources' : readyResources'[k] = x
      BY <1>1, <1>3 DEF PendingOK
    <3>1. /\ status[x] = "live" /\ x \notin bInterrupted
          /\ isLoadingResource(x) \/ \E i \in DOMAIN readyResources : readyResources[i] = x
      BY <1>1, <1>3 DEF ObjectsInv, PendingOK
    <3>2. QED
      BY <2>4, <2>5, <3>1
  <2>7. ExistsOK'
    <3>1. \A k \in DOMAIN m_inFlight' :
            status[target[m_inFlight'[k]]] \in {"live", "doomed"} \/ target[m_inFlight'[k]] \in overtaken
      BY <2>2 DEF ObjectsInv, ExistsOK
    <3>2. \A k \in DOMAIN readyResources' :
            status[readyResources'[k]] \in {"live", "doomed"} \/ readyResources'[k] \in overtaken
      BY <2>3, <2>4 DEF ObjectsInv, ExistsOK
    <3>3. QED
      BY <1>1, <3>1, <3>2 DEF ObjectsInv, ExistsOK
  <2>8. QED
    BY <1>4, <1>5, <2>6, <2>7 DEF ObjectsKept, ObjectsInv
<1>7. CASE phase[j] # "done"
  <2>1. UNCHANGED <<m_inFlight, readyResources>>
    BY <1>7 DEF CollectEntry
  <2>2. PendingOK' /\ ExistsOK'
    BY <1>1, <1>3, <2>1 DEF ObjectsInv, PendingOK, ExistsOK, isLoadingResource
  <2>3. QED
    BY <1>4, <1>5, <2>2 DEF ObjectsKept, ObjectsInv
<1>8. QED
  BY <1>6, <1>7

LEMMA ReloadCollectedObjects == ASSUME LoadsInv, ObjectsInv, ReloadCollected PROVE ObjectsKept
<1> USE DEF load
<1> DEFINE r == Head(readyResources)
<1>1. /\ pc = "reload" /\ pc' = "reload" /\ readyResources # <<>> /\ readyResources' = Tail(readyResources)
      /\ UNCHANGED <<status, managed, asyncDestroyQueue, bShuttingDown,
                     index, amount, awaited, after, overtaken>>
  BY DEF ReloadCollected
<1>2. TypeOK /\ InFlightOK /\ ReadyOK /\ Bounded /\ readyResources \in Seq(Resources)
  BY DEF LoadsInv, TypeOK
<1>3. /\ r = readyResources[1] /\ r \in Resources /\ 1 \in DOMAIN readyResources
      /\ DOMAIN readyResources = 1 .. Len(readyResources) /\ Len(readyResources) \in Nat
      /\ DOMAIN readyResources' = 1 .. Len(readyResources) - 1
      /\ \A i \in DOMAIN readyResources' :
           readyResources'[i] = readyResources[i + 1] /\ i + 1 \in DOMAIN readyResources
  BY <1>1, <1>2, TailFacts
<1>4. ~isLoadingResource(r)
  BY <1>2, <1>3 DEF ReadyOK
<1>5. \A k \in DOMAIN readyResources' : \E i \in DOMAIN readyResources : readyResources'[k] = readyResources[i]
  BY <1>3
<1>6. ASSUME NEW i \in DOMAIN readyResources, readyResources[i] # r
      PROVE  \E k \in DOMAIN readyResources' : readyResources'[k] = readyResources[i]
  <2>1. i - 1 \in DOMAIN readyResources' /\ (i - 1) + 1 = i
    BY <1>3, <1>6
  <2>2. readyResources'[i - 1] = readyResources[i]
    BY <1>3, <2>1
  <2>3. QED
    BY <2>1, <2>2
<1> HIDE DEF r
<1>7. CASE r \in pendingReloads
  <2>1. /\ pendingReloads' = pendingReloads \ {r} /\ data' = [data EXCEPT ![r] = "empty"]
        /\ bInterrupted' = bInterrupted \ {r} /\ Request(r, m_inFlight)
    BY <1>7 DEF ReloadCollected, r
  <2>2. requested < MaxLoads
    BY <1>2, <1>7, PendingRequest
  <2>3. status[r] = "live"
    BY <1>1, <1>7 DEF ObjectsInv, PendingOK
  <2>4. status' = [status EXCEPT ![r] = "live"]
    BY <1>1, <1>2, <2>3 DEF TypeOK
  <2>5. data'[r] = "empty" /\ \A x \in Resources : x # r => data'[x] = data[x]
    BY <1>2, <1>3, <2>1 DEF TypeOK
  <2>6. QED
    BY <1>1, <1>3, <1>4, <1>5, <1>6, <2>1, <2>2, <2>3, <2>4, <2>5, RequestedObjects
<1>8. CASE r \notin pendingReloads
  <2>1. UNCHANGED <<data, bInterrupted, pendingReloads, load, m_inFlight>>
    BY <1>8 DEF ReloadCollected, r
  <2>2. ~Waiting /\ ~Waiting' /\ pc \notin {"drain", "closed"}
    BY <1>1 DEF Waiting
  <2>3. PendingOK'
    <3> SUFFICES ASSUME NEW x \in pendingReloads
                 PROVE  /\ status[x] = "live" /\ x \notin bInterrupted
                        /\ isLoadingResource(x) \/ \E k \in DOMAIN readyResources' : readyResources'[k] = x
      BY <1>1, <2>1, <2>2 DEF PendingOK, isLoadingResource
    <3>1. /\ status[x] = "live" /\ x \notin bInterrupted /\ x # r
          /\ isLoadingResource(x) \/ \E i \in DOMAIN readyResources : readyResources[i] = x
      BY <1>1, <1>8, <2>2 DEF ObjectsInv, PendingOK
    <3>2. QED
      BY <1>6, <3>1
  <2>4. InterruptedOK' /\ QueueOK' /\ AwaitedOK' /\ PartialOK'
    BY <1>1, <2>1, <2>2 DEF ObjectsInv, InterruptedOK, QueueOK, AwaitedOK, PartialOK
  <2>5. ExistsOK'
    BY <1>1, <1>5, <2>1 DEF ObjectsInv, ExistsOK
  <2>6. Undisturbed /\ NotRevived
    BY <1>2, <2>1 DEF Undisturbed, NotRevived, TypeOK
  <2>7. QED
    BY <2>3, <2>4, <2>5, <2>6 DEF ObjectsKept, ObjectsInv
<1>9. QED
  BY <1>7, <1>8

LEMMA DestroyEntryObjects == ASSUME LoadsInv, ObjectsInv, DestroyEntry PROVE ObjectsKept
<1> USE DEF load
<1> DEFINE r == asyncDestroyQueue[index]
<1>1. /\ pc = "destroy" /\ pc' = "destroy" /\ index <= Len(asyncDestroyQueue)
      /\ UNCHANGED <<managed, load, m_inFlight, pendingReloads, bShuttingDown, readyResources, awaited, after, overtaken>>
  BY DEF DestroyEntry, Destroying
<1>2. TypeOK /\ InFlightOK /\ asyncDestroyQueue \in Seq(Resources) /\ readyResources = <<>>
      /\ index \in DOMAIN asyncDestroyQueue /\ r \in Resources
  <2>1. TypeOK /\ InFlightOK /\ asyncDestroyQueue \in Seq(Resources) /\ readyResources = <<>>
    BY <1>1 DEF LoadsInv, TypeOK, ReadyOK
  <2>2. index \in DOMAIN asyncDestroyQueue
    BY <1>1, <2>1 DEF TypeOK
  <2>3. QED
    BY <2>1, <2>2
<1>3. ~Waiting /\ ~Waiting' /\ pc \notin {"drain", "closed"}
  BY <1>1 DEF Waiting
<1>4. CASE isLoadingResource(r)
  <2>1. UNCHANGED <<object, asyncDestroyQueue>>
    BY <1>4 DEF DestroyEntry
  <2>2. PendingOK' /\ InterruptedOK' /\ QueueOK' /\ AwaitedOK' /\ ExistsOK' /\ PartialOK'
    BY <1>1, <1>3, <2>1 DEF ObjectsInv, PendingOK, InterruptedOK, QueueOK, AwaitedOK, ExistsOK, PartialOK,
       isLoadingResource, object
  <2>3. Undisturbed /\ NotRevived
    BY <1>1, <1>2, <2>1 DEF Undisturbed, NotRevived, TypeOK, object
  <2>4. QED
    BY <2>2, <2>3 DEF ObjectsKept, ObjectsInv
<1>5. CASE ~isLoadingResource(r)
  <2>1. Release({r}) /\ asyncDestroyQueue' = RemoveAt(asyncDestroyQueue, index)
    BY <1>5 DEF DestroyEntry
  <2>2. status[r] = "doomed" /\ r \notin pendingReloads /\ r \notin managed
    BY <1>1, <1>2 DEF ObjectsInv, QueueOK, PendingOK, ExistsOK
  <2>3. data[r] # "partial"
    BY <1>1, <1>2, <1>5, NotPartial DEF ObjectsInv
  <2>4. /\ data'[r] = "empty" /\ status'[r] = "freed" /\ bInterrupted' = bInterrupted \ {r}
        /\ \A x \in Resources : x # r => status'[x] = status[x] /\ data'[x] = data[x]
    BY <1>2, <2>1 DEF Release
  <2>5. PendingOK'
    <3> SUFFICES ASSUME NEW x \in pendingReloads
                 PROVE  status'[x] = "live" /\ x \notin bInterrupted' /\ isLoadingResource(x)
      BY <1>1, <1>3 DEF PendingOK, isLoadingResource
    <3>1. status[x] = "live" /\ x \notin bInterrupted /\ isLoadingResource(x) /\ x \in Resources /\ x # r
      BY <1>1, <1>2, <1>3, <2>2 DEF ObjectsInv, PendingOK, TypeOK
    <3>2. QED
      BY <2>4, <3>1
  <2>6. InterruptedOK'
    BY <1>2, <1>3, <2>4 DEF ObjectsInv, InterruptedOK, TypeOK
  <2>7. QueueOK'
    <3>1. /\ \A k \in DOMAIN asyncDestroyQueue' : \E m \in DOMAIN asyncDestroyQueue :
               m # index /\ asyncDestroyQueue'[k] = asyncDestroyQueue[m]
      BY <1>2, <2>1, RemoveAtKeeps
    <3>2. \A m \in DOMAIN asyncDestroyQueue : m # index =>
            asyncDestroyQueue[m] # r /\ asyncDestroyQueue[m] \in Resources /\ status[asyncDestroyQueue[m]] = "doomed"
      BY <1>2 DEF ObjectsInv, QueueOK
    <3>3. \A k \in DOMAIN asyncDestroyQueue' : status'[asyncDestroyQueue'[k]] = "doomed"
      BY <2>4, <3>1, <3>2
    <3>4. \A i, k \in DOMAIN asyncDestroyQueue : asyncDestroyQueue[i] = asyncDestroyQueue[k] => i = k
      BY DEF ObjectsInv, QueueOK
    <3> DEFINE f == [x \in Resources |-> x]
    <3>5. \A i, k \in DOMAIN asyncDestroyQueue : f[asyncDestroyQueue[i]] = f[asyncDestroyQueue[k]] => i = k
      BY <1>2, <3>4
    <3>6. \A k \in DOMAIN asyncDestroyQueue' : f[asyncDestroyQueue'[k]] = asyncDestroyQueue'[k]
      BY <3>1, <3>2
    <3> HIDE DEF f
    <3>7. \A i, k \in DOMAIN asyncDestroyQueue' : f[asyncDestroyQueue'[i]] = f[asyncDestroyQueue'[k]] => i = k
      BY <1>2, <2>1, <3>5, RemoveAtApart
    <3>8. QED
      BY <3>3, <3>6, <3>7 DEF QueueOK
  <2>8. AwaitedOK'
    BY <1>3 DEF AwaitedOK
  <2>9. ExistsOK'
    <3>1. \A i \in DOMAIN m_inFlight : target[m_inFlight[i]] \in Resources /\ target[m_inFlight[i]] # r
      BY <1>2, <1>5, IsLoading DEF TypeOK
    <3>2. \A x \in managed : x \in Resources /\ x # r
      BY <1>2, <2>2 DEF TypeOK
    <3>3. QED
      BY <1>1, <1>2, <2>4, <3>1, <3>2 DEF ObjectsInv, ExistsOK
  <2>10. PartialOK'
    <3>1. \A x \in Resources : data'[x] = "partial" => data[x] = "partial"
      BY <2>4
    <3>2. QED
      BY <1>1, <3>1, PartialKept DEF ObjectsInv
  <2>11. Undisturbed /\ NotRevived
    BY <1>1, <1>2, <2>3, <2>4 DEF Undisturbed, NotRevived, TypeOK
  <2>12. QED
    BY <2>5, <2>6, <2>7, <2>8, <2>9, <2>10, <2>11 DEF ObjectsKept, ObjectsInv
<1>6. QED
  BY <1>4, <1>5

LEMMA ShutdownEndsObjects == ASSUME LoadsInv, ObjectsInv, ShutdownEnds PROVE ObjectsKept
<1> USE DEF load, locals
<1>1. /\ pc = "drain" /\ pc' = "closed" /\ \A j \in ToSet(m_inFlight) : phase[j] = "done"
      /\ m_inFlight' = <<>> /\ pendingReloads' = {} /\ asyncDestroyQueue' = <<>>
      /\ Release(ToSet(asyncDestroyQueue))
      /\ UNCHANGED <<managed, load, bShuttingDown, readyResources, index, amount, awaited, after, overtaken>>
  BY DEF ShutdownEnds
<1>2. TypeOK /\ InFlightOK /\ readyResources = <<>>
  BY <1>1 DEF LoadsInv, ReadyOK
<1>3. ~Waiting /\ ~Waiting' /\ pc # "wait"
  BY <1>1 DEF Waiting
<1>4. \A x \in Resources :
        /\ status'[x] = IF x \in ToSet(asyncDestroyQueue) THEN "freed" ELSE status[x]
        /\ data'[x] = IF x \in ToSet(asyncDestroyQueue) THEN "empty" ELSE data[x]
  BY <1>1 DEF Release
<1>5. \A x \in Resources : data[x] # "partial"
  <2> SUFFICES ASSUME NEW x \in Resources, data[x] = "partial" PROVE FALSE
    OBVIOUS
  <2>1. PICK j \in Loads : target[j] = x /\ phase[j] = "loading"
    BY DEF ObjectsInv, PartialOK
  <2>2. PICK i \in DOMAIN m_inFlight : m_inFlight[i] = j
    BY <1>2, <1>3, <2>1 DEF InFlightOK, Unfinished
  <2>3. QED
    BY <1>1, <2>1, <2>2 DEF ToSet
<1>6. PendingOK' /\ InterruptedOK' /\ QueueOK' /\ AwaitedOK'
  BY <1>1, <1>3 DEF PendingOK, InterruptedOK, QueueOK, AwaitedOK
<1>7. \A x \in managed : x \in Resources /\ status'[x] = "live"
  <2> SUFFICES ASSUME NEW x \in managed PROVE x \in Resources /\ status'[x] = "live"
    OBVIOUS
  <2>1. x \in Resources /\ status[x] = "live"
    BY <1>2 DEF TypeOK, ObjectsInv, ExistsOK
  <2>2. x \notin ToSet(asyncDestroyQueue)
    BY <2>1 DEF ObjectsInv, QueueOK, ToSet
  <2>3. QED
    BY <1>4, <2>1, <2>2
<1>8. ExistsOK'
  BY <1>1, <1>2, <1>7 DEF ExistsOK
<1>9. PartialOK' /\ Undisturbed /\ NotRevived
  BY <1>1, <1>2, <1>4, <1>5 DEF PartialOK, Undisturbed, NotRevived, TypeOK
<1>10. QED
  BY <1>6, <1>8, <1>9 DEF ObjectsKept, ObjectsInv

LEMMA ObjectsStep == LoadsInv /\ ObjectsInv /\ [Next]_vars => ObjectsKept
<1> SUFFICES ASSUME LoadsInv, ObjectsInv, [Next]_vars PROVE ObjectsKept
  OBVIOUS
<1>1. CASE UNCHANGED vars
  <2> USE <1>1 DEF vars
  <2>1. PendingOK' /\ InterruptedOK' /\ QueueOK' /\ AwaitedOK' /\ ExistsOK' /\ PartialOK'
    BY DEF ObjectsInv, PendingOK, InterruptedOK, QueueOK, AwaitedOK, ExistsOK, PartialOK, Waiting,
       isLoadingResource
  <2>2. Undisturbed /\ NotRevived
    BY DEF Undisturbed, NotRevived, LoadsInv, TypeOK
  <2>3. QED
    BY <2>1, <2>2 DEF ObjectsKept, ObjectsInv
<1>2. CASE \E j \in Loads : WorkerStep(j)
  BY <1>2, WorkerObjects
<1>3. CASE \E r \in Resources : LoadResource(r) \/ ReloadAsync(r) \/ ReloadSync(r) \/ Destroy(r)
                                 \/ WaitForResource(r)
  BY <1>3, LoadResourceObjects, ReloadAsyncObjects, ReloadSyncObjects, DestroyObjects, WaitForResourceObjects
<1>4. CASE UpdateStep \/ WaitStep \/ StartClose \/ CloseStep
  BY <1>4, MovingObjects, CollectEntryObjects, ReloadCollectedObjects, DestroyEntryObjects, WaitEndsObjects,
     AfterWaitObjects, CloseManagedObjects, ShutdownEndsObjects DEF UpdateStep, WaitStep, CloseStep
<1>5. QED
  BY <1>1, <1>2, <1>3, <1>4 DEF Next

-----------------------------------------------------------------------------
(* The bookkeeping of loads is inductive.                                  *)
THEOREM LoaderInvariance == Spec => []LoadsInv
<1>1. Init => LoadsInv
  BY LoadsInit
<1>2. LoadsInv /\ [Next]_vars => LoadsInv'
  BY LoadsStep
<1>3. QED
  BY <1>1, <1>2, PTL DEF Spec

(* Types, and that loads are numbered in the order they are requested.     *)
THEOREM LoaderTypes == Spec => []TypeOK
<1>1. LoadsInv => TypeOK
  BY DEF LoadsInv
<1>2. QED
  BY <1>1, LoaderInvariance, PTL

(* No two pool tasks ever work on one resource, and update() or            *)
(* waitForResource() collects every one of them.                           *)
THEOREM LoaderOneLoadAtATime == Spec => []OneLoadAtATime
<1>1. LoadsInv => OneLoadAtATime
  <2> SUFFICES ASSUME LoadsInv, NEW i \in Loads, NEW j \in Loads, Unfinished(i)
               PROVE  /\ i \in ToSet(m_inFlight) \cup {awaited}
                      /\ Unfinished(j) /\ target[i] = target[j] => i = j
    BY DEF OneLoadAtATime
  <2>1. InFlightOK
    BY DEF LoadsInv
  <2>2. \/ \E k \in DOMAIN m_inFlight : m_inFlight[k] = i
        \/ pc = "wait" /\ awaited = i
    BY <2>1 DEF InFlightOK
  <2>3. i \in ToSet(m_inFlight) \cup {awaited}
    BY <2>2 DEF ToSet
  <2>4. ASSUME Unfinished(j), target[i] = target[j] PROVE i = j
    <3>1. \/ \E k \in DOMAIN m_inFlight : m_inFlight[k] = j
          \/ pc = "wait" /\ awaited = j
      BY <2>1, <2>4 DEF InFlightOK
    <3>2. QED
      BY <2>1, <2>2, <2>4, <3>1 DEF InFlightOK
  <2>5. QED
    BY <2>3, <2>4
<1>2. QED
  BY <1>1, LoaderInvariance, PTL

(* When the manager is gone no task runs, and nothing that was to be       *)
(* destroyed later was forgotten.                                          *)
THEOREM LoaderClosedIsQuiet == Spec => []ClosedIsQuiet
<1>1. LoadsInv => ClosedIsQuiet
  BY DEF LoadsInv, InFlightOK, DoomedOK, ClosedIsQuiet, Waiting
<1>2. QED
  BY <1>1, LoaderInvariance, PTL

(* What the loader refers to exists, and what is being written belongs to  *)
(* a load, but for the resources waitForResource() had overtaken.          *)
THEOREM LoaderObjects == Spec => []ObjectsInv
<1>1. Init => ObjectsInv
  BY ObjectsInit
<1>2. LoadsInv /\ ObjectsInv /\ [Next]_vars => ObjectsInv'
  BY ObjectsStep DEF ObjectsKept
<1>3. QED
  BY <1>1, <1>2, LoaderInvariance, PTL DEF Spec

(* No task, list or pending call refers to a resource that was deleted,    *)
(* unless waitForResource() requested its load while it was being deleted. *)
THEOREM LoaderNoUseAfterFree == Spec => []NoUseAfterFree
<1>1. LoadsInv /\ ObjectsInv => NoUseAfterFree
  <2> SUFFICES ASSUME LoadsInv, ObjectsInv, NEW r \in Referenced
               PROVE  status[r] \in {"new", "freed"} => r \in overtaken
    BY DEF NoUseAfterFree
  <2>1. ASSUME NEW i \in DOMAIN m_inFlight
        PROVE  status[target[m_inFlight[i]]] \in {"live", "doomed"} \/ target[m_inFlight[i]] \in overtaken
    BY DEF ObjectsInv, ExistsOK
  <2>2. CASE \E j \in Loads : Unfinished(j) /\ r = target[j]
    <3>1. PICK j \in Loads : Unfinished(j) /\ r = target[j]
      BY <2>2
    <3>2. \/ \E k \in DOMAIN m_inFlight : m_inFlight[k] = j
          \/ pc = "wait" /\ awaited = j
      BY <3>1 DEF LoadsInv, InFlightOK
    <3>3. QED
      BY <2>1, <3>1, <3>2 DEF ObjectsInv, AwaitedOK, Waiting
  <2>3. CASE \E k \in DOMAIN m_inFlight : r = target[m_inFlight[k]]
    BY <2>1, <2>3
  <2>4. CASE r \in pendingReloads \cup managed
    BY <2>4 DEF ObjectsInv, PendingOK, AwaitedOK, ExistsOK, Waiting
  <2>5. CASE r \in ToSet(asyncDestroyQueue)
    BY <2>5 DEF ObjectsInv, QueueOK, ToSet
  <2>6. CASE r \in ToSet(readyResources)
    BY <2>6 DEF ObjectsInv, ExistsOK, ToSet
  <2>7. QED
    BY <2>2, <2>3, <2>4, <2>5, <2>6 DEF Referenced, ToSet
<1>2. QED
  BY <1>1, LoaderInvariance, LoaderObjects, PTL

(* The main thread never changes contents a pool task is writing, unless   *)
(* waitForResource() requested that load.                                  *)
THEOREM LoaderLoadingUndisturbed == Spec => LoadingUndisturbed
<1>1. LoadsInv /\ ObjectsInv /\ [Next]_vars =>
        [\A r \in Resources \ overtaken : data[r] = "partial" /\ data'[r] # "partial" =>
           \E j \in Loads : target[j] = r /\ phase[j] = "loading" /\ phase'[j] = "done"]_vars
  BY ObjectsStep DEF ObjectsKept, Undisturbed
<1>2. QED
  BY <1>1, LoaderInvariance, LoaderObjects, PTL DEF Spec, LoadingUndisturbed

(* What was handed over for destruction is never loaded again, except by   *)
(* waitForResource().                                                      *)
THEOREM LoaderDestroyCancelsReload == Spec => DestroyCancelsReload
<1>1. LoadsInv /\ ObjectsInv /\ [Next]_vars =>
        [requested' > requested =>
           \/ status[target'[requested']] \notin {"doomed", "freed"}
           \/ target'[requested'] \in overtaken']_vars
  BY ObjectsStep DEF ObjectsKept, NotRevived
<1>2. QED
  BY <1>1, LoaderInvariance, LoaderObjects, PTL DEF Spec, DestroyCancelsReload
=============================================================================
