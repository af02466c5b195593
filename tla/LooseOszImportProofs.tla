------------------------ MODULE LooseOszImportProofs ------------------------
(* Proofs about LooseOszImport, for every number of workers, of .osz files  *)
(* and of screenshots, and every window.  The loader waits for futures it   *)
(* holds, which AsyncPool's own steps do not do, so the pool's invariants   *)
(* that do not speak of captured futures are carried over that step here.   *)
EXTENDS LooseOszImport, AsyncPoolProofs

LEMMA OszFacts ==
  /\ Len(Oszs) \in Nat /\ DOMAIN Oszs = 1 .. Len(Oszs) /\ Window \in Nat \ {0}
  /\ \A i \in DOMAIN Oszs :
       Oszs[i] \in Tasks \cap Extractions /\ Oszs[i] \notin Bridges \cup Shots \cup {Loader}
  /\ Loader \in Tasks \ (Extractions \cup Shots \cup Bridges)
  /\ \A s \in Shots : s \in Tasks \ Bridges /\ Bridge[s] \in Tasks \cap Bridges
BY ImportAssumption, LenProperties, ElementOfSeq DEF Extractions, Bridges

LEMMA IntervalCount ==
  ASSUME NEW k \in 0 .. Len(Oszs), NEW S, S = {i \in DOMAIN Oszs : i <= k}
  PROVE  Cardinality(S) = k
<1>1. S = 1 .. k
  BY OszFacts
<1>2. k \in Nat /\ 1 \in Int /\ k \in Int
  BY OszFacts
<1>3. Cardinality(1 .. k) = IF 1 > k THEN 0 ELSE k - 1 + 1
  BY <1>2, FS_Interval
<1>4. Cardinality(1 .. k) = k
  BY <1>2, <1>3
<1>5. QED
  BY <1>1, <1>4, Zenon

(* Between two calls the loader's counts are those of the invariant.        *)
LEMMA Counts ==
  ASSUME TypeOK, LocationInv, NEW p \in 0 .. Len(Oszs), NEW r \in 0 .. Len(Oszs), Slid(p, r),
         NEW w \in Workers, pc[w] = "run", cur[w] = Loader
  PROVE  Submitted = p /\ Received = r
<1>1. {i \in DOMAIN Oszs : Pushed(Oszs[i])} = {i \in DOMAIN Oszs : i <= p}
  BY DEF Slid
<1>2. \A v \in Workers : cur[v] = Loader => v = w
  BY OszFacts, PoolAssumption DEF LocationInv
<1>3. \A x : Owed(x) <=> x \in holds[Loader]
  BY <1>2 DEF Owed, Submitting
<1>4. {i \in DOMAIN Oszs : Pushed(Oszs[i]) /\ Oszs[i] \notin holds[Loader]}
        = {i \in DOMAIN Oszs : i <= r}
  BY <1>3, OszFacts DEF Slid
<1>5. QED
  BY <1>1, <1>4, IntervalCount DEF Submitted, Received

(* The extraction the loader submits, and the one it waits for.             *)
LEMMA LoaderCalls ==
  ASSUME TypeOK, LocationInv, NEW p \in 0 .. Len(Oszs), NEW r \in 0 .. Len(Oszs), Slid(p, r),
         NEW w \in Workers
  PROVE  /\ LoaderSubmits(w) =>
              /\ p + 1 \in DOMAIN Oszs /\ p < r + Window
              /\ Push(w, Oszs[p + 1], Bg) /\ captured'[Oszs[p + 1]] = {}
         /\ LoaderGets(w) => r + 1 \in DOMAIN Oszs /\ r < p /\ Block(w, Oszs[r + 1])
<1>1. ASSUME LoaderSubmits(w)
      PROVE  /\ p + 1 \in DOMAIN Oszs /\ p < r + Window
             /\ Push(w, Oszs[p + 1], Bg) /\ captured'[Oszs[p + 1]] = {}
  <2>1. Submitted = p /\ Received = r
    BY <1>1, Counts DEF LoaderSubmits
  <2>2. QED
    BY <1>1, <2>1, OszFacts DEF LoaderSubmits, WantsSubmit
<1>2. ASSUME LoaderGets(w)
      PROVE  r + 1 \in DOMAIN Oszs /\ r < p /\ Block(w, Oszs[r + 1])
  <2>1. Submitted = p /\ Received = r
    BY <1>2, Counts DEF LoaderGets
  <2>2. QED
    BY <1>2, <2>1, OszFacts DEF LoaderGets, WantsSubmit
<1>3. QED
  BY <1>1, <1>2

-----------------------------------------------------------------------------
(* Every step is one of the pool, or the loader's get().                    *)
LEMMA StepKinds ==
  ASSUME TypeOK, LocationInv, WindowInv, [ImportNext]_importVars
  PROVE  [Next]_vars \/ \E w \in Workers : LoaderGets(w)
<1>1. PICK p \in 0 .. Len(Oszs), r \in 0 .. Len(Oszs) : Slid(p, r)
  BY DEF WindowInv
<1>2. ASSUME NEW w \in Workers, LoaderSubmits(w) PROVE Next
  <2>1. Oszs[p + 1] \in Tasks /\ Push(w, Oszs[p + 1], Bg)
    BY <1>1, <1>2, LoaderCalls, OszFacts
  <2>2. QED
    BY <2>1 DEF Next, Threads, Lanes
<1>3. ASSUME NEW w \in Workers, PoolStep(w) PROVE Next
  BY <1>3 DEF PoolStep, Next, Threads
<1>4. ASSUME SubmitStep(Main) PROVE Next
  BY <1>4, PoolAssumption DEF Next, Threads
<1>5. ASSUME MainSubmits PROVE Next
  <2>1. PICK t \in Tasks, l \in Lanes : Push(Main, t, l)
    BY <1>5, OszFacts DEF MainSubmits, Lanes
  <2>2. QED
    BY <2>1, PoolAssumption DEF Next, Threads
<1>6. QED
  BY <1>2, <1>3, <1>4, <1>5 DEF ImportNext, MainCancels, importVars

(* The loader's get() moves nothing but its own thread.                     *)
LEMMA GetKeepsPool ==
  ASSUME TypeOK, StampInv, LocationInv, OrderInv, NoLostWakeup,
         NEW w \in Workers, NEW f \in Tasks, pc[w] = "run", Block(w, f)
  PROVE  (TypeOK /\ StampInv /\ LocationInv /\ OrderInv /\ NoLostWakeup)'
<1>1. /\ UNCHANGED <<m_fgQueue, m_bgQueue, m_shutdown, m_pending, cur, lane, captured, holds,
                     ready, stamp, pushes, cut>>
      /\ pc' = [pc EXCEPT ![w] = "blocked"] /\ arg' = [arg EXCEPT ![w] = f]
      /\ w \in Threads
  BY DEF Block, queues, futures, history, Threads
<1>2. TypeOK'
  BY <1>1, PoolAssumption DEF TypeOK, Threads, Workers, Submitting
<1>3. \A x \in Threads : pc'[x] = (IF x = w THEN "blocked" ELSE pc[x])
                         /\ (x # w => arg'[x] = arg[x])
  BY <1>1 DEF TypeOK
<1>4. StampInv' /\ OrderInv'
  BY <1>1 DEF StampInv, OrderInv, Elements, Pushed
<1>5. LocationInv'
  <2>1. \A v \in Workers : (pc'[v] = "sub") <=> (pc[v] = "sub")
    BY <1>3 DEF Threads
  <2>2. QED
    BY <1>1, <2>1 DEF LocationInv, Elements, Queued, Pushed
<1>6. /\ FgWaiting' = FgWaiting /\ BgWaiting' = BgWaiting
      /\ FgAwake \subseteq FgAwake' /\ BgAwake \subseteq BgAwake'
  BY <1>1, <1>3 DEF FgWaiting, BgWaiting, FgAwake, BgAwake, Submitting, Threads, Workers
<1>7. Len(m_fgQueue) \in Nat /\ Len(m_bgQueue) \in Nat
  BY LenProperties DEF TypeOK
<1>8. FgServed' /\ BgServed'
  BY <1>1, <1>2, <1>6, <1>7, AwakeMoves
<1>9. QED
  BY <1>2, <1>4, <1>5, <1>8 DEF NoLostWakeup

LEMMA PoolNext ==
  ASSUME ImportInv, [ImportNext]_importVars
  PROVE  (TypeOK /\ StampInv /\ LocationInv /\ OrderInv /\ NoLostWakeup)'
<1>1. /\ TypeOK /\ StampInv /\ LocationInv /\ OrderInv /\ NoLostWakeup
      /\ \A th \in Threads : Submitting(th) => Pushed(arg[th])
  BY DEF ImportInv, BodyInv
<1>2. CASE [Next]_vars
  <2>1. TypeOK' /\ StampInv' /\ LocationInv' /\ OrderInv'
    BY <1>1, <1>2, TypeNext, StampNext, LocationNext, OrderNext
  <2>2. NoLostWakeup'
    BY <1>1, <1>2, WakeNext
  <2>3. QED
    BY <2>1, <2>2
<1>3. ASSUME NEW w \in Workers, LoaderGets(w)
      PROVE  (TypeOK /\ StampInv /\ LocationInv /\ OrderInv /\ NoLostWakeup)'
  <2>1. PICK p \in 0 .. Len(Oszs), r \in 0 .. Len(Oszs) : Slid(p, r)
    BY DEF ImportInv, WindowInv
  <2>2. PICK f \in Tasks : Block(w, f)
    BY <1>1, <1>3, <2>1, LoaderCalls, OszFacts
  <2>3. QED
    BY <1>1, <1>3, <2>2, GetKeepsPool DEF LoaderGets
<1>4. QED
  BY <1>2, <1>3, StepKinds DEF ImportInv

-----------------------------------------------------------------------------
(* Only a bridge captures a future, and the loader is none.                 *)
LEMMA CapturedByBridges ==
  ASSUME TypeOK, BodyInv, NEW t \in Tasks, NEW f \in captured[t]
  PROVE  t \in Bridges /\ f \in Shots /\ captured[t] = {f} /\ Pushed(f) /\ t # Loader
BY OszFacts DEF BodyInv, Bridges

(* BodyInv survives a step that pushes nothing and leaves futures alone,    *)
(* when every worker it blocks waits for a future it may wait for.          *)
LEMMA BodyKept ==
  ASSUME BodyInv, UNCHANGED <<m_shutdown, lane, captured, holds, stamp>>,
         \A w \in Workers : pc'[w] # "exited",
         \A w \in BgWorkers : cur'[w] # None => lane[cur'[w]] = Bg,
         \A th \in Threads : Submitting(th)' => Pushed(arg'[th]),
         \A w \in Workers : pc'[w] = "blocked" =>
           \/ cur'[w] = Loader /\ arg'[w] \in Extractions /\ Pushed(arg'[w])
           \/ cur'[w] # Loader /\ arg'[w] \in captured[cur'[w]]
  PROVE  BodyInv'
BY DEF BodyInv, Pushed

(* Submitting t to lane l, with the future of one screenshot or with none.  *)
LEMMA BodyPush ==
  ASSUME TypeOK, BodyInv, LocationInv,
         NEW th \in Threads, NEW t \in Tasks, NEW l \in Lanes, Push(th, t, l),
         l = Fg <=> t \in Bridges,
         \/ captured'[t] = {}
         \/ \E s \in holds[Actor(th)] : s \in Shots /\ t = Bridge[s] /\ captured'[t] = {s}
  PROVE  BodyInv'
<1>1. Actor(th) \in Clients \cup Tasks
  BY ActorType DEF Push
<1>2. PICK deps \in SUBSET holds[Actor(th)] :
        /\ captured' = [captured EXCEPT ![t] = deps]
        /\ holds' = [holds EXCEPT ![Actor(th)] = @ \ deps]
  BY DEF Push
<1>3. /\ pc[th] = "run" /\ pc' = [pc EXCEPT ![th] = "add"] /\ arg' = [arg EXCEPT ![th] = t]
      /\ lane' = [lane EXCEPT ![t] = l] /\ stamp' = [stamp EXCEPT ![t] = pushes + 1]
      /\ UNCHANGED <<m_shutdown, cur, ready>> /\ ~Pushed(t)
  BY DEF Push, Pushed, TypeOK
<1>4. /\ \A x \in Threads \ {th} : pc'[x] = pc[x] /\ arg'[x] = arg[x]
      /\ pc'[th] = "add" /\ arg'[th] = t
      /\ \A u \in Tasks \ {t} : lane'[u] = lane[u] /\ captured'[u] = captured[u]
      /\ lane'[t] = l
  BY <1>2, <1>3 DEF TypeOK
<1>5. /\ \A u \in Tasks : Pushed(u)' <=> (Pushed(u) \/ u = t)
      /\ \A a \in Clients \cup Tasks : holds'[a] \subseteq holds[a] /\ holds[a] \subseteq Tasks
  BY <1>2, <1>3 DEF Pushed, TypeOK
<1>6. ~m_shutdown' /\ \A w \in Workers : pc'[w] # "exited"
  BY <1>3, <1>4 DEF BodyInv, Threads
<1>7. \A u \in Tasks : Pushed(u)' => (lane'[u] = Fg <=> u \in Bridges)
  BY <1>4, <1>5 DEF BodyInv
<1>8. \A w \in BgWorkers : cur'[w] # None => lane'[cur'[w]] = Bg
  <2>1. ASSUME NEW w \in BgWorkers, cur[w] # None PROVE cur[w] \in Tasks /\ cur[w] # t
    BY <1>3, <2>1 DEF TypeOK, LocationInv, Workers
  <2>2. QED
    BY <1>3, <1>4, <2>1 DEF BodyInv
<1>9. \A u \in Tasks : captured'[u] # {} =>
        \E s \in Shots : u = Bridge[s] /\ captured'[u] = {s} /\ Pushed(s)'
  <2>1. CASE captured'[t] = {}
    BY <1>4, <1>5, <2>1, OszFacts DEF BodyInv
  <2>2. ASSUME NEW s \in holds[Actor(th)], s \in Shots, t = Bridge[s], captured'[t] = {s}
        PROVE  \A u \in Tasks : captured'[u] # {} =>
                 \E x \in Shots : u = Bridge[x] /\ captured'[u] = {x} /\ Pushed(x)'
    <3>1. Pushed(s)'
      BY <1>1, <1>5, <2>2 DEF BodyInv
    <3>2. QED
      BY <1>4, <1>5, <2>2, <3>1, OszFacts DEF BodyInv
  <2>3. QED
    BY <2>1, <2>2
<1>10. \A a \in Clients \cup Tasks : \A f \in holds'[a] : Pushed(f)'
  BY <1>5 DEF BodyInv
<1>11. \A x \in Threads : Submitting(x)' => Pushed(arg[x])'
  <2>1. ASSUME NEW x \in Threads, x # th, Submitting(x)' PROVE Pushed(arg[x])'
    <3>1. Submitting(x) /\ arg[x] \in Tasks
      BY <1>4, <2>1 DEF Submitting, TypeOK
    <3>2. QED
      BY <1>4, <1>5, <2>1, <3>1 DEF BodyInv
  <2>2. QED
    BY <1>4, <1>5, <2>1
<1>12. \A w \in Workers : pc'[w] = "blocked" =>
         \/ cur'[w] = Loader /\ arg'[w] \in Extractions /\ Pushed(arg[w])'
         \/ cur'[w] # Loader /\ arg'[w] \in captured'[cur'[w]]
  <2>1. ASSUME NEW w \in Workers, pc'[w] = "blocked"
        PROVE  /\ pc[w] = "blocked" /\ cur'[w] = cur[w] /\ arg'[w] = arg[w]
               /\ cur[w] \in Tasks /\ cur[w] # t /\ arg[w] \in Tasks
    <3>1. w # th /\ pc[w] = "blocked" /\ cur'[w] = cur[w] /\ arg'[w] = arg[w]
      BY <1>3, <1>4, <2>1 DEF Threads
    <3>2. cur[w] \in Tasks /\ cur[w] # None /\ arg[w] \in Tasks
      BY <3>1, PoolAssumption DEF TypeOK, Threads
    <3>3. QED
      BY <1>3, <3>1, <3>2 DEF LocationInv
  <2>2. QED
    BY <1>4, <1>5, <2>1 DEF BodyInv
<1>13. QED
  BY <1>6, <1>7, <1>8, <1>9, <1>10, <1>11, <1>12 DEF BodyInv

(* How submit() goes on after the push.                                     *)
LEMMA BodySubmitStep ==
  ASSUME TypeOK, BodyInv, NEW th \in Threads, SubmitStep(th)
  PROVE  BodyInv'
<1>1. /\ UNCHANGED <<m_shutdown, cur, lane, captured, stamp>>
      /\ Submitting(th) /\ pc'[th] \in {"notifyBg", "notifyFg", "run"}
      /\ \A x \in Threads \ {th} :
           pc'[x] = pc[x] \/ (x \in Workers /\ pc[x] = "cvwait" /\ pc'[x] = "check")
  BY SubmitEffect
<1>2. /\ \A x \in Threads : Submitting(x)' => Submitting(x)
      /\ \A w \in Workers : pc'[w] = "blocked" => pc[w] = "blocked" /\ w # th
      /\ \A w \in Workers : pc'[w] # "exited"
  BY <1>1 DEF Submitting, BodyInv, Threads
<1>3. CASE UNCHANGED <<arg, holds>>
  BY <1>1, <1>2, <1>3, BodyKept DEF BodyInv
<1>4. CASE NotifyFg(th)
  <2>1. /\ arg' = [arg EXCEPT ![th] = None] /\ pc'[th] = "run"
        /\ holds' = [holds EXCEPT ![Actor(th)] = @ \cup {arg[th]}]
    BY <1>4 DEF NotifyFg, NotifyOne, Wake
  <2>2. \A x \in Threads \ {th} : arg'[x] = arg[x]
    BY <2>1 DEF TypeOK
  <2>3. \A a \in Clients \cup Tasks : \A f \in holds'[a] : Pushed(f)
    BY <1>1, <2>1 DEF BodyInv, TypeOK
  <2>4. /\ \A x \in Threads : Submitting(x)' => Pushed(arg'[x])
        /\ \A w \in Workers : pc'[w] = "blocked" => arg'[w] = arg[w]
    BY <1>2, <2>1, <2>2 DEF BodyInv, Submitting, Threads
  <2>5. QED
    BY <1>1, <1>2, <2>3, <2>4 DEF BodyInv, Pushed
<1>5. QED
  BY <1>3, <1>4 DEF SubmitStep, PendingAdd, NotifyBg, futures

(* A worker runs, finishes or leaves a task, or waits for work.             *)
LEMMA BodyWorkerStep ==
  ASSUME TypeOK, OrderInv, LocationInv, BodyInv, NEW w \in Workers, WorkerStep(w)
  PROVE  BodyInv'
<1>1. /\ UNCHANGED <<m_shutdown, lane, captured, holds, stamp, arg>> /\ ~m_shutdown
      /\ pc[w] \in {"check", "run", "sub"} /\ w \in Threads
  BY DEF WorkerStep, FgCheck, BgCheck, Finish, PendingSub, futures, history, BodyInv, Threads
<1>2. ASSUME NEW next \in {"run", "cvwait", "sub", "check"}, NEW t \in Tasks \cup {None},
             pc' = [pc EXCEPT ![w] = next], cur' = [cur EXCEPT ![w] = t],
             t # None /\ w \in BgWorkers => lane[t] = Bg
      PROVE  BodyInv'
  <2>1. /\ \A x \in Threads \ {w} : pc'[x] = pc[x]
        /\ \A x \in Workers \ {w} : cur'[x] = cur[x]
        /\ pc'[w] = next /\ cur'[w] = t
    BY <1>1, <1>2 DEF TypeOK
  <2>2. /\ \A x \in Threads : Submitting(x)' => Submitting(x)
        /\ \A x \in Workers : pc'[x] = "blocked" => pc[x] = "blocked" /\ x # w
        /\ \A x \in Workers : pc'[x] # "exited"
    BY <1>2, <2>1 DEF Submitting, BodyInv, Threads
  <2>3. QED
    BY <1>1, <1>2, <2>1, <2>2, BodyKept DEF BodyInv, Workers
<1>3. CASE FgTake(w) /\ w \in FgWorkers
  BY <1>2, <1>3, TakeFg, PoolAssumption DEF FgTake, Execute
<1>4. CASE TakeBg(w)
  <2>1. Head(m_bgQueue) \in Tasks /\ lane[Head(m_bgQueue)] = Bg
    BY <1>4, TakeBgHead DEF LocationInv
  <2>2. QED
    BY <1>2, <1>4, <2>1 DEF TakeBg, Execute
<1>5. CASE UNCHANGED cur /\ \E next \in {"cvwait", "sub"} : pc' = [pc EXCEPT ![w] = next]
  <2>1. cur' = [cur EXCEPT ![w] = cur[w]] /\ cur[w] \in Tasks \cup {None}
    BY <1>5 DEF TypeOK
  <2>2. w \in BgWorkers /\ cur[w] # None => lane[cur[w]] = Bg
    BY DEF BodyInv
  <2>3. QED
    BY <1>2, <1>5, <2>1, <2>2
<1>6. CASE PendingSub(w)
  BY <1>2, <1>6 DEF PendingSub
<1>7. QED
  BY <1>1, <1>3, <1>4, <1>5, <1>6 DEF WorkerStep, FgCheck, BgCheck, Finish, Leave

(* A bridge waits for its screenshot.                                       *)
LEMMA BodyAwait ==
  ASSUME TypeOK, BodyInv, NEW w \in Workers, Await(w)
  PROVE  BodyInv'
<1>1. PICK f \in Awaitable(w) : Block(w, f)
  BY DEF Await
<1>2. w \in Threads /\ w \notin Clients /\ cur[w] \in Tasks /\ f \in captured[cur[w]]
  BY <1>1, PoolAssumption DEF Awaitable, Threads, Workers, Await, TypeOK
<1>3. /\ UNCHANGED <<m_shutdown, lane, captured, holds, stamp, cur>>
      /\ pc' = [pc EXCEPT ![w] = "blocked"] /\ arg' = [arg EXCEPT ![w] = f]
  BY <1>1 DEF Block, futures, history
<1>4. /\ \A x \in Threads \ {w} : pc'[x] = pc[x] /\ arg'[x] = arg[x]
      /\ pc'[w] = "blocked" /\ arg'[w] = f
  BY <1>2, <1>3 DEF TypeOK
<1>5. cur[w] # Loader
  BY <1>2, CapturedByBridges
<1>6. /\ \A x \in Threads : Submitting(x)' => Pushed(arg'[x])
      /\ \A x \in Workers : pc'[x] # "exited"
  BY <1>4 DEF Submitting, BodyInv, Threads
<1>7. \A x \in Workers : pc'[x] = "blocked" =>
        \/ cur'[x] = Loader /\ arg'[x] \in Extractions /\ Pushed(arg'[x])
        \/ cur'[x] # Loader /\ arg'[x] \in captured[cur'[x]]
  BY <1>2, <1>3, <1>4, <1>5 DEF BodyInv, Threads
<1>8. QED
  BY <1>3, <1>6, <1>7, BodyKept DEF BodyInv

(* The loader, or a bridge, has its result.                                 *)
LEMMA BodyResume ==
  ASSUME TypeOK, LocationInv, BodyInv, NEW w \in Workers, Resume(w)
  PROVE  BodyInv'
<1>1. w \in Threads /\ w \notin Clients /\ cur[w] \in Tasks
  BY PoolAssumption DEF Threads, Workers, Resume, TypeOK
<1>2. /\ UNCHANGED <<m_shutdown, lane, stamp, cur>> /\ pc[w] = "blocked"
      /\ pc' = [pc EXCEPT ![w] = "run"] /\ arg' = [arg EXCEPT ![w] = None]
      /\ holds' = [holds EXCEPT ![cur[w]] = @ \ {arg[w]}]
      /\ captured' = [captured EXCEPT ![cur[w]] = @ \ {arg[w]}]
  BY <1>1 DEF Resume, history, Actor
<1>3. /\ \A x \in Threads \ {w} : pc'[x] = pc[x] /\ arg'[x] = arg[x]
      /\ pc'[w] = "run"
  BY <1>1, <1>2 DEF TypeOK
<1>4. /\ \A x \in Workers : pc'[x] # "exited"
      /\ \A x \in Threads : Submitting(x)' => Pushed(arg'[x])
      /\ \A x \in Workers : pc'[x] = "blocked" =>
           pc[x] = "blocked" /\ x # w /\ arg'[x] = arg[x]
  BY <1>3 DEF Submitting, BodyInv, Threads
<1>5. \A a \in Clients \cup Tasks : \A f \in holds'[a] : Pushed(f)
  BY <1>1, <1>2 DEF BodyInv, TypeOK
<1>6. /\ \A t \in Tasks \ {cur[w]} : captured'[t] = captured[t]
      /\ captured'[cur[w]] = {}
  <2>1. captured[cur[w]] \subseteq {arg[w]}
    BY <1>1, <1>2, CapturedByBridges DEF BodyInv
  <2>2. QED
    BY <1>1, <1>2, <2>1 DEF TypeOK
<1>7. \A x \in Workers : pc'[x] = "blocked" => cur[x] \in Tasks \ {cur[w]}
  <2>1. \A x \in Workers : pc[x] = "blocked" => cur[x] \in Tasks
    BY DEF TypeOK
  <2>2. \A x \in Workers : cur[x] = cur[w] => x = w
    BY <1>1, PoolAssumption DEF LocationInv
  <2>3. QED
    BY <1>4, <2>1, <2>2
<1>8. QED
  BY <1>2, <1>4, <1>5, <1>6, <1>7 DEF BodyInv, Pushed

LEMMA BodyNext ==
  ASSUME ImportInv, [ImportNext]_importVars
  PROVE  BodyInv'
<1>1. TypeOK /\ OrderInv /\ LocationInv /\ BodyInv
  BY DEF ImportInv
<1>2. PICK p \in 0 .. Len(Oszs), r \in 0 .. Len(Oszs) : Slid(p, r)
  BY DEF ImportInv, WindowInv
<1>3. Main \in Threads /\ Main \in Clients
  BY PoolAssumption DEF Threads
<1>4. ASSUME NEW w \in Workers, LoaderSubmits(w) PROVE BodyInv'
  <2>1. /\ p + 1 \in DOMAIN Oszs
        /\ Push(w, Oszs[p + 1], Bg) /\ captured'[Oszs[p + 1]] = {}
    BY <1>1, <1>2, <1>4, LoaderCalls
  <2>2. Oszs[p + 1] \in Tasks /\ Oszs[p + 1] \notin Bridges /\ w \in Threads
    BY <2>1, OszFacts DEF Threads
  <2>3. QED
    BY <1>1, <2>1, <2>2, BodyPush DEF Lanes, Fg, Bg
<1>5. ASSUME NEW w \in Workers, LoaderGets(w) PROVE BodyInv'
  <2>1. r + 1 \in DOMAIN Oszs /\ r < p /\ Block(w, Oszs[r + 1])
    BY <1>1, <1>2, <1>5, LoaderCalls
  <2>2. PICK f \in Extractions : Block(w, f) /\ Pushed(f)
    BY <1>2, <2>1, OszFacts DEF Slid
  <2>3. /\ UNCHANGED <<m_shutdown, lane, captured, holds, stamp, cur>> /\ cur[w] = Loader
        /\ pc' = [pc EXCEPT ![w] = "blocked"] /\ arg' = [arg EXCEPT ![w] = f]
        /\ w \in Threads
    BY <1>5, <2>2 DEF Block, futures, history, LoaderGets, Threads
  <2>4. /\ \A x \in Threads \ {w} : pc'[x] = pc[x] /\ arg'[x] = arg[x]
        /\ pc'[w] = "blocked" /\ arg'[w] = f
    BY <1>1, <2>3 DEF TypeOK
  <2>5. /\ \A x \in Threads : Submitting(x)' => Pushed(arg'[x])
        /\ \A x \in Workers : pc'[x] # "exited"
    BY <1>1, <2>4 DEF Submitting, BodyInv, Threads
  <2>6. \A x \in Workers : pc'[x] = "blocked" =>
          \/ cur'[x] = Loader /\ arg'[x] \in Extractions /\ Pushed(arg'[x])
          \/ cur'[x] # Loader /\ arg'[x] \in captured[cur'[x]]
    BY <1>1, <2>2, <2>3, <2>4 DEF BodyInv, Threads
  <2>7. QED
    BY <1>1, <2>3, <2>5, <2>6, BodyKept DEF BodyInv
<1>6. ASSUME NEW w \in Workers, PoolStep(w) PROVE BodyInv'
  BY <1>1, <1>6, BodyWorkerStep, BodyAwait, BodyResume, BodySubmitStep DEF PoolStep, Threads
<1>7. ASSUME MainSubmits PROVE BodyInv'
  <2>1. CASE Push(Main, Loader, Bg) /\ captured'[Loader] = {}
    BY <1>1, <1>3, <2>1, OszFacts, BodyPush DEF Lanes, Fg, Bg
  <2>2. ASSUME NEW s \in Shots, Push(Main, s, Bg), captured'[s] = {} PROVE BodyInv'
    BY <1>1, <1>3, <2>2, OszFacts, BodyPush DEF Lanes, Fg, Bg
  <2>3. ASSUME NEW s \in Shots, s \in holds[Main], Push(Main, Bridge[s], Fg),
               captured'[Bridge[s]] = {s}
        PROVE  BodyInv'
    <3>1. Actor(Main) = Main
      BY <1>3 DEF Actor
    <3>2. QED
      BY <1>1, <1>3, <2>3, <3>1, OszFacts, BodyPush DEF Lanes, Fg, Bg
  <2>4. QED
    BY <1>7, <2>1, <2>2, <2>3 DEF MainSubmits
<1>8. ASSUME SubmitStep(Main) PROVE BodyInv'
  BY <1>1, <1>3, <1>8, BodySubmitStep
<1>9. ASSUME UNCHANGED vars PROVE BodyInv'
  <2>1. UNCHANGED <<m_shutdown, lane, captured, holds, stamp, pc, cur, arg>>
    BY <1>9 DEF vars
  <2>2. QED
    BY <1>1, <2>1 DEF BodyInv, Submitting, Pushed
<1>10. QED
  BY <1>4, <1>5, <1>6, <1>7, <1>8, <1>9 DEF ImportNext, MainCancels, importVars

-----------------------------------------------------------------------------
(* The window stands when the loader neither submits, waits nor receives.   *)
LEMMA SlidKept ==
  ASSUME NEW p \in 0 .. Len(Oszs), NEW r \in 0 .. Len(Oszs), Slid(p, r),
         \A i \in DOMAIN Oszs : /\ Pushed(Oszs[i])' <=> Pushed(Oszs[i])
                                /\ Owed(Oszs[i])' <=> Owed(Oszs[i]),
         ready \subseteq ready',
         \A w \in Workers : cur'[w] = Loader /\ pc'[w] = "blocked" =>
           cur[w] = Loader /\ pc[w] = "blocked" /\ arg'[w] = arg[w]
  PROVE  WindowInv'
BY DEF Slid, WindowInv

(* What is owed does not change with a step that leaves holds[Loader] and   *)
(* the loader's own submit() alone.                                         *)
LEMMA OwedKept ==
  ASSUME holds'[Loader] = holds[Loader],
         \A w \in Workers :
           \/ cur[w] # Loader /\ cur'[w] # Loader
           \/ ~Submitting(w) /\ ~Submitting(w)'
           \/ Submitting(w) /\ Submitting(w)' /\ UNCHANGED cur[w] /\ UNCHANGED arg[w]
  PROVE  \A x : Owed(x)' <=> Owed(x)
BY DEF Owed

(* A push of something else than an extraction.                             *)
LEMMA WindowPush ==
  ASSUME TypeOK, LocationInv, WindowInv, NEW t \in Tasks \ Extractions, NEW l \in Lanes,
         Push(Main, t, l)
  PROVE  WindowInv'
<1>1. PICK p \in 0 .. Len(Oszs), r \in 0 .. Len(Oszs) : Slid(p, r)
  BY DEF WindowInv
<1>2. Main \in Threads \ Workers /\ Main # Loader /\ Actor(Main) = Main
  BY PoolAssumption, OszFacts DEF Threads, Workers, Actor
<1>3. /\ \A w \in Workers : pc'[w] = pc[w] /\ arg'[w] = arg[w]
      /\ UNCHANGED <<cur, ready>>
      /\ \A u \in Tasks \ {t} : stamp'[u] = stamp[u]
      /\ holds'[Loader] = holds[Loader]
  BY <1>2, OszFacts DEF Push, TypeOK
<1>4. \A i \in DOMAIN Oszs : Pushed(Oszs[i])' <=> Pushed(Oszs[i])
  BY <1>3, OszFacts DEF Pushed
<1>5. \A x : Owed(x)' <=> Owed(x)
  BY <1>3, OwedKept DEF Submitting
<1>6. QED
  BY <1>1, <1>3, <1>4, <1>5, SlidKept

LEMMA WindowSubmitStep ==
  ASSUME TypeOK, LocationInv, WindowInv, NEW th \in Threads, SubmitStep(th)
  PROVE  WindowInv'
<1>1. PICK p \in 0 .. Len(Oszs), r \in 0 .. Len(Oszs) : Slid(p, r)
  BY DEF WindowInv
<1>2. /\ UNCHANGED <<cur, ready, stamp>> /\ Submitting(th)
      /\ pc'[th] \in {"notifyBg", "notifyFg", "run"}
      /\ \A x \in Threads \ {th} :
           pc'[x] = pc[x] \/ (x \in Workers /\ pc[x] = "cvwait" /\ pc'[x] = "check")
  BY SubmitEffect
<1>3. \A i \in DOMAIN Oszs : Pushed(Oszs[i])' <=> Pushed(Oszs[i])
  BY <1>2 DEF Pushed
<1>4. /\ \A w \in Workers \ {th} : Submitting(w)' <=> Submitting(w)
      /\ \A w \in Workers : pc'[w] = "blocked" => w # th /\ pc[w] = "blocked"
  BY <1>2 DEF Submitting, Threads
<1>5. (\A x \in Threads \ {th} : arg'[x] = arg[x]) /\ \A x : Owed(x)' <=> Owed(x)
  <2>1. CASE PendingAdd(th) \/ NotifyBg(th)
    <3>1. UNCHANGED <<arg, holds>>
      BY <2>1 DEF PendingAdd, NotifyBg, futures
    <3>2. pc'[th] \in {"notifyBg", "notifyFg"}
      BY <1>2, <2>1 DEF PendingAdd, NotifyBg, NotifyOne, Wake, TypeOK
    <3>3. QED
      BY <1>2, <1>4, <3>1, <3>2, OwedKept DEF Submitting
  <2>2. CASE NotifyFg(th)
    <3>1. /\ arg' = [arg EXCEPT ![th] = None] /\ pc'[th] = "run"
          /\ holds' = [holds EXCEPT ![Actor(th)] = @ \cup {arg[th]}]
      BY <2>2 DEF NotifyFg, NotifyOne, Wake
    <3>2. /\ \A x \in Threads \ {th} : arg'[x] = arg[x]
          /\ ~Submitting(th)'
      BY <3>1 DEF TypeOK, Submitting
    <3>3. CASE Actor(th) = Loader
      <4>1. th \in Workers /\ cur[th] = Loader /\ th \notin Clients
        BY <3>3, OszFacts, PoolAssumption DEF Actor, Threads
      <4>2. \A v \in Workers : cur[v] = Loader => v = th
        BY <4>1, OszFacts, PoolAssumption DEF LocationInv
      <4>3. holds'[Loader] = holds[Loader] \cup {arg[th]}
        BY <3>1, <3>3, OszFacts DEF TypeOK
      <4>4. QED
        BY <1>2, <3>2, <4>1, <4>2, <4>3 DEF Owed
    <3>4. CASE Actor(th) # Loader
      <4>1. holds'[Loader] = holds[Loader] /\ (th \in Workers => cur[th] # Loader)
        BY <3>1, <3>4, OszFacts, PoolAssumption DEF TypeOK, Actor, Workers
      <4>2. QED
        BY <1>2, <1>4, <3>2, <4>1, OwedKept DEF Threads
    <3>5. QED
      BY <3>3, <3>4
  <2>3. QED
    BY <2>1, <2>2 DEF SubmitStep
<1>6. QED
  BY <1>1, <1>2, <1>3, <1>4, <1>5, SlidKept DEF Threads

LEMMA WindowWorkerStep ==
  ASSUME TypeOK, WindowInv, NEW w \in Workers, WorkerStep(w) \/ Await(w),
         Await(w) => cur[w] # Loader
  PROVE  WindowInv'
<1>1. PICK p \in 0 .. Len(Oszs), r \in 0 .. Len(Oszs) : Slid(p, r)
  BY DEF WindowInv
<1>2. /\ UNCHANGED <<holds, stamp>> /\ w \in Threads
      /\ pc[w] \in {"check", "run", "sub"}
      /\ ready \subseteq ready'
  BY DEF WorkerStep, FgCheck, BgCheck, Finish, PendingSub, Await, Block, futures, history,
     Threads
<1>3. \E next \in {"run", "cvwait", "exited", "sub", "check", "blocked"}, t \in Tasks \cup {None} :
        /\ pc' = [pc EXCEPT ![w] = next] /\ cur' = [cur EXCEPT ![w] = t]
        /\ next = "blocked" => Await(w) /\ t = cur[w]
  <2>1. cur = [cur EXCEPT ![w] = cur[w]] /\ cur[w] \in Tasks \cup {None}
    BY DEF TypeOK
  <2>2. /\ m_fgQueue # <<>> => Head(m_fgQueue) \in Tasks
        /\ m_bgQueue # <<>> => Head(m_bgQueue) \in Tasks
    BY HeadTailProperties DEF TypeOK
  <2>3. QED
    BY <2>1, <2>2 DEF WorkerStep, FgCheck, BgCheck, FgTake, TakeBg, Execute, Leave, Finish,
       PendingSub, Await, Block
<1>4. PICK next \in {"run", "cvwait", "exited", "sub", "check", "blocked"},
           t \in Tasks \cup {None} :
        /\ pc' = [pc EXCEPT ![w] = next] /\ cur' = [cur EXCEPT ![w] = t]
        /\ next = "blocked" => Await(w) /\ t = cur[w]
  BY <1>3
<1>5. /\ \A x \in Workers \ {w} : /\ pc'[x] = pc[x] /\ cur'[x] = cur[x]
                                 /\ arg'[x] = arg[x]
      /\ pc'[w] = next /\ cur'[w] = t
  <2>1. arg' = arg \/ \E f : arg' = [arg EXCEPT ![w] = f]
    BY DEF WorkerStep, FgCheck, BgCheck, Finish, PendingSub, Await, Block
  <2>2. QED
    BY <1>2, <1>4, <2>1 DEF TypeOK, Threads
<1>6. \A x : Owed(x)' <=> Owed(x)
  BY <1>2, <1>5, OwedKept DEF Submitting
<1>7. \A x \in Workers : cur'[x] = Loader /\ pc'[x] = "blocked" => x # w
  BY <1>4, <1>5
<1>8. \A i \in DOMAIN Oszs : Pushed(Oszs[i])' <=> Pushed(Oszs[i])
  BY <1>2 DEF Pushed
<1>9. QED
  BY <1>1, <1>2, <1>5, <1>6, <1>7, <1>8, SlidKept

(* The loader receives the oldest result it is owed.                        *)
LEMMA WindowResume ==
  ASSUME TypeOK, LocationInv, WindowInv, NEW w \in Workers, Resume(w)
  PROVE  WindowInv'
<1>1. PICK p \in 0 .. Len(Oszs), r \in 0 .. Len(Oszs) : Slid(p, r)
  BY DEF WindowInv
<1>2. w \in Threads /\ w \notin Clients
  BY PoolAssumption DEF Threads, Workers
<1>3. /\ UNCHANGED <<stamp, cur, ready>> /\ pc[w] = "blocked" /\ arg[w] \in ready
      /\ pc' = [pc EXCEPT ![w] = "run"] /\ arg' = [arg EXCEPT ![w] = None]
      /\ holds' = [holds EXCEPT ![cur[w]] = @ \ {arg[w]}]
  BY <1>2 DEF Resume, history, Actor
<1>4. /\ \A x \in Workers \ {w} : pc'[x] = pc[x] /\ arg'[x] = arg[x]
      /\ pc'[w] = "run"
  BY <1>2, <1>3 DEF TypeOK, Threads
<1>5. /\ \A i \in DOMAIN Oszs : Pushed(Oszs[i])' <=> Pushed(Oszs[i])
      /\ \A x \in Workers : Submitting(x)' <=> Submitting(x)
      /\ \A x \in Workers : Submitting(x) => arg'[x] = arg[x]
  BY <1>3, <1>4 DEF Pushed, Submitting
<1>6. CASE cur[w] # Loader
  <2>1. holds'[Loader] = holds[Loader]
    BY <1>3, <1>6, OszFacts DEF TypeOK
  <2>2. \A x : Owed(x)' <=> Owed(x)
    BY <1>3, <1>5, <2>1, OwedKept
  <2>3. QED
    BY <1>1, <1>3, <1>4, <1>5, <2>2, SlidKept
<1>7. CASE cur[w] = Loader
  <2>1. r < p /\ arg[w] = Oszs[r + 1] /\ r + 1 \in DOMAIN Oszs
    BY <1>1, <1>3, <1>7, OszFacts DEF Slid
  <2>2. \A v \in Workers : cur[v] = Loader => v = w
    BY <1>7, OszFacts, PoolAssumption DEF LocationInv
  <2>3. /\ \A x : Owed(x) <=> x \in holds[Loader]
        /\ \A x : Owed(x)' <=> x \in holds'[Loader]
    BY <1>3, <1>4, <2>2 DEF Owed, Submitting
  <2>4. holds'[Loader] = holds[Loader] \ {Oszs[r + 1]}
    BY <1>3, <1>7, <2>1, OszFacts DEF TypeOK
  <2>5. r + 1 \in 0 .. Len(Oszs) /\ r + 1 <= p /\ p <= (r + 1) + Window
    BY <1>1, <2>1, OszFacts DEF Slid
  <2>6. ASSUME NEW i \in DOMAIN Oszs
        PROVE  /\ Pushed(Oszs[i])' <=> i <= p
               /\ Owed(Oszs[i])' <=> ((r + 1 < i) /\ (i <= p))
               /\ i <= r + 1 => Oszs[i] \in ready'
    <3>1. Oszs[i] = Oszs[r + 1] => i = r + 1
      BY <2>1, ImportAssumption
    <3>2. Owed(Oszs[i])' <=> ((r < i) /\ (i <= p) /\ i # r + 1)
      BY <1>1, <2>3, <2>4, <3>1 DEF Slid
    <3>3. i \in Nat /\ r \in Nat /\ p \in Nat
      BY OszFacts
    <3>4. i <= r + 1 => Oszs[i] \in ready
      BY <1>1, <1>3, <2>1, <3>3 DEF Slid
    <3>5. QED
      BY <1>1, <1>3, <1>5, <3>2, <3>3, <3>4 DEF Slid
  <2>7. \A v \in Workers : ~(cur'[v] = Loader /\ pc'[v] = "blocked")
    BY <1>3, <1>4, <2>2
  <2>8. Slid(p, r + 1)'
    BY <2>5, <2>6, <2>7 DEF Slid
  <2>9. QED
    BY <2>5, <2>8 DEF WindowInv
<1>8. QED
  BY <1>6, <1>7

(* The loader submits the next extraction.                                  *)
LEMMA WindowSubmits ==
  ASSUME TypeOK, LocationInv, WindowInv, NEW w \in Workers, LoaderSubmits(w)
  PROVE  WindowInv'
<1>1. PICK p \in 0 .. Len(Oszs), r \in 0 .. Len(Oszs) : Slid(p, r)
  BY DEF WindowInv
<1>2. /\ p + 1 \in DOMAIN Oszs /\ p < r + Window /\ Oszs[p + 1] \in Tasks
      /\ Push(w, Oszs[p + 1], Bg) /\ captured'[Oszs[p + 1]] = {}
  BY <1>1, LoaderCalls, OszFacts
<1>3. w \in Threads /\ w \notin Clients /\ cur[w] = Loader /\ pc[w] = "run"
  BY PoolAssumption DEF Threads, Workers, LoaderSubmits
<1>4. PICK deps \in SUBSET holds[Loader] :
        /\ captured' = [captured EXCEPT ![Oszs[p + 1]] = deps]
        /\ holds' = [holds EXCEPT ![Loader] = @ \ deps]
  BY <1>2, <1>3 DEF Push, Actor
<1>5. holds'[Loader] = holds[Loader]
  BY <1>2, <1>4, OszFacts DEF TypeOK
<1>6. /\ pc' = [pc EXCEPT ![w] = "add"] /\ arg' = [arg EXCEPT ![w] = Oszs[p + 1]]
      /\ stamp' = [stamp EXCEPT ![Oszs[p + 1]] = pushes + 1]
      /\ UNCHANGED <<cur, ready>>
  BY <1>2 DEF Push
<1>7. /\ \A x \in Workers \ {w} : pc'[x] = pc[x] /\ arg'[x] = arg[x]
      /\ pc'[w] = "add" /\ arg'[w] = Oszs[p + 1]
      /\ \A t \in Tasks : Pushed(t)' <=> (Pushed(t) \/ t = Oszs[p + 1])
  BY <1>3, <1>6 DEF TypeOK, Threads, Pushed
<1>8. \A v \in Workers : cur[v] = Loader => v = w
  BY <1>3, OszFacts, PoolAssumption DEF LocationInv
<1>9. /\ \A x : Owed(x) <=> x \in holds[Loader]
      /\ \A x : Owed(x)' <=> (x \in holds[Loader] \/ x = Oszs[p + 1])
  BY <1>3, <1>5, <1>6, <1>7, <1>8 DEF Owed, Submitting
<1>10. /\ p + 1 \in 0 .. Len(Oszs) /\ r <= p + 1 /\ p + 1 <= r + Window
       /\ p \in Nat /\ r \in Nat
  BY <1>1, <1>2, OszFacts DEF Slid
<1>11. ASSUME NEW i \in DOMAIN Oszs
       PROVE  /\ Pushed(Oszs[i])' <=> i <= p + 1
              /\ Owed(Oszs[i])' <=> ((r < i) /\ (i <= p + 1))
              /\ i <= r => Oszs[i] \in ready'
  <2>1. /\ Oszs[i] = Oszs[p + 1] <=> i = p + 1
        /\ i \in Nat /\ Oszs[i] \in Tasks
    BY <1>2, ImportAssumption, OszFacts
  <2>2. Pushed(Oszs[i])' <=> (i <= p \/ i = p + 1)
    BY <1>1, <1>7, <2>1 DEF Slid
  <2>3. Owed(Oszs[i])' <=> ((r < i /\ i <= p) \/ i = p + 1)
    BY <1>1, <1>9, <2>1 DEF Slid
  <2>4. i <= r => Oszs[i] \in ready'
    BY <1>1, <1>6 DEF Slid
  <2>5. r <= p
    BY <1>1 DEF Slid
  <2>6. QED
    BY <1>10, <2>1, <2>2, <2>3, <2>4, <2>5
<1>12. \A v \in Workers : ~(cur'[v] = Loader /\ pc'[v] = "blocked")
  BY <1>6, <1>7, <1>8
<1>13. Slid(p + 1, r)'
  BY <1>10, <1>11, <1>12 DEF Slid
<1>14. QED
  BY <1>10, <1>13 DEF WindowInv

(* The loader waits for the oldest result it is owed.                       *)
LEMMA WindowGets ==
  ASSUME TypeOK, LocationInv, WindowInv, NEW w \in Workers, LoaderGets(w)
  PROVE  WindowInv'
<1>1. PICK p \in 0 .. Len(Oszs), r \in 0 .. Len(Oszs) : Slid(p, r)
  BY DEF WindowInv
<1>2. r < p /\ Block(w, Oszs[r + 1])
  BY <1>1, LoaderCalls
<1>3. w \in Threads /\ cur[w] = Loader /\ pc[w] = "run"
  BY DEF Threads, LoaderGets
<1>4. /\ UNCHANGED <<holds, stamp, cur, ready>>
      /\ pc' = [pc EXCEPT ![w] = "blocked"] /\ arg' = [arg EXCEPT ![w] = Oszs[r + 1]]
  BY <1>2 DEF Block, futures, history
<1>5. /\ \A x \in Workers \ {w} : pc'[x] = pc[x] /\ arg'[x] = arg[x]
      /\ pc'[w] = "blocked" /\ arg'[w] = Oszs[r + 1]
  BY <1>3, <1>4 DEF TypeOK, Threads
<1>6. \A x : Owed(x)' <=> Owed(x)
  BY <1>3, <1>4, <1>5, OwedKept DEF Submitting
<1>7. \A v \in Workers : cur[v] = Loader => v = w
  BY <1>3, OszFacts, PoolAssumption DEF LocationInv
<1>8. \A i \in DOMAIN Oszs : Pushed(Oszs[i])' <=> Pushed(Oszs[i])
  BY <1>4 DEF Pushed
<1>9. \A v \in Workers : cur'[v] = Loader /\ pc'[v] = "blocked" =>
        r < p /\ arg'[v] = Oszs[r + 1]
  BY <1>2, <1>4, <1>5, <1>7
<1>10. Slid(p, r)'
  BY <1>1, <1>4, <1>6, <1>8, <1>9 DEF Slid
<1>11. QED
  BY <1>10 DEF WindowInv

LEMMA WindowNext ==
  ASSUME ImportInv, [ImportNext]_importVars
  PROVE  WindowInv'
<1>1. TypeOK /\ LocationInv /\ BodyInv /\ WindowInv
  BY DEF ImportInv
<1>2. ASSUME NEW w \in Workers, PoolStep(w) PROVE WindowInv'
  <2>1. Await(w) => cur[w] # Loader
    <3>1. SUFFICES ASSUME Await(w), cur[w] = Loader PROVE FALSE
      OBVIOUS
    <3>2. PICK f \in captured[cur[w]] : Block(w, f)
      BY <3>1, PoolAssumption DEF Await, Awaitable, Workers
    <3>3. QED
      BY <1>1, <3>1, <3>2, OszFacts, CapturedByBridges
  <2>2. QED
    BY <1>1, <1>2, <2>1, WindowWorkerStep, WindowResume, WindowSubmitStep DEF PoolStep, Threads
<1>3. ASSUME MainSubmits PROVE WindowInv'
  <2>1. PICK t \in Tasks \ Extractions, l \in Lanes : Push(Main, t, l)
    <3>1. \A s \in Shots : s \notin Extractions /\ Bridge[s] \notin Extractions
      BY ImportAssumption DEF Bridges
    <3>2. QED
      BY <1>3, <3>1, OszFacts DEF MainSubmits, Lanes
  <2>2. QED
    BY <1>1, <2>1, WindowPush
<1>4. ASSUME SubmitStep(Main) PROVE WindowInv'
  BY <1>1, <1>4, WindowSubmitStep, PoolAssumption DEF Threads
<1>5. ASSUME UNCHANGED vars PROVE WindowInv'
  BY <1>1, <1>5 DEF vars, WindowInv, Slid, Owed, Submitting, Pushed
<1>6. QED
  BY <1>1, <1>2, <1>3, <1>4, <1>5, WindowSubmits, WindowGets
     DEF ImportNext, MainCancels, importVars

-----------------------------------------------------------------------------
LEMMA ImportInvInit == ImportInit => ImportInv
<1> SUFFICES ASSUME ImportInit PROVE ImportInv
  OBVIOUS
<1>1. TypeOK /\ StampInv /\ LocationInv /\ OrderInv /\ NoLostWakeup
  BY InvInit DEF ImportInit, IInv
<1>2. /\ \A t \in Tasks : ~Pushed(t) /\ captured[t] = {}
      /\ \A w \in Workers : cur[w] = None /\ pc[w] = "check"
      /\ \A th \in Threads : ~Submitting(th)
      /\ \A a \in Clients \cup Tasks : holds[a] = {}
      /\ ~m_shutdown
  BY PoolAssumption DEF ImportInit, Init, Pushed, Submitting, Threads, Workers
<1>3. BodyInv
  BY <1>2 DEF BodyInv, Workers
<1>4. Slid(0, 0)
  BY <1>2, OszFacts, PoolAssumption DEF Slid, Owed, Threads
<1>5. 0 \in 0 .. Len(Oszs)
  BY OszFacts
<1>6. QED
  BY <1>1, <1>3, <1>4, <1>5 DEF ImportInv, WindowInv

(* The inductive invariant holds.                                           *)
THEOREM ImportInvariance == ImportSpec => []ImportInv
<1>1. ImportInv /\ [ImportNext]_importVars => ImportInv'
  BY PoolNext, BodyNext, WindowNext DEF ImportInv
<1>2. QED
  BY ImportInvInit, <1>1, PTL DEF ImportSpec

(* However many files there are and however the pool schedules them, no     *)
(* more than window_size extractions are queued, running or waiting to be   *)
(* collected by the loader.                                                 *)
THEOREM WindowIsBounded == ImportSpec => []WindowBound
<1>1. ASSUME ImportInv PROVE WindowBound
  <2>1. PICK p \in 0 .. Len(Oszs), r \in 0 .. Len(Oszs) : Slid(p, r)
    BY <1>1 DEF ImportInv, WindowInv
  <2>2. r \in Nat /\ p \in Nat /\ r + 1 \in Int /\ p \in Int /\ Window \in Nat
        /\ r <= p /\ p <= r + Window
    BY <2>1, OszFacts DEF Slid
  <2>3. IsFiniteSet(r + 1 .. p)
        /\ Cardinality(r + 1 .. p) = IF r + 1 > p THEN 0 ELSE p - (r + 1) + 1
    BY <2>2, FS_Interval
  <2>4. Cardinality(r + 1 .. p) <= Window
    BY <2>2, <2>3
  <2>5. {i \in DOMAIN Oszs : InFlight(Oszs[i])} \in SUBSET (r + 1 .. p)
    BY <2>1, <2>2, OszFacts DEF Slid, InFlight
  <2>6. /\ IsFiniteSet({i \in DOMAIN Oszs : InFlight(Oszs[i])})
        /\ Cardinality({i \in DOMAIN Oszs : InFlight(Oszs[i])}) <= Cardinality(r + 1 .. p)
    BY <2>3, <2>5, FS_Subset
  <2>7. Cardinality({i \in DOMAIN Oszs : InFlight(Oszs[i])}) \in Nat
    BY <2>6, FS_CardinalityType
  <2>8. Cardinality(r + 1 .. p) \in Nat
    BY <2>3, FS_CardinalityType
  <2>9. QED
    BY <2>2, <2>4, <2>6, <2>7, <2>8 DEF WindowBound
<1>2. QED
  BY ImportInvariance, <1>1, PTL

-----------------------------------------------------------------------------
(* When nothing can move, whatever a blocked worker waits for is queued for *)
(* the background lane, so no worker is idle.                               *)
LEMMA AllBlocked ==
  ASSUME ImportInv, NEW w \in Workers, pc[w] = "blocked", \A th \in Threads : ~CanStep(th)
  PROVE  \A v \in Workers : pc[v] = "blocked"
<1>1. /\ TypeOK /\ LocationInv /\ BodyInv /\ NoLostWakeup
  BY DEF ImportInv
<1>2. /\ \A th \in Threads : ~Submitting(th)
      /\ \A v \in Workers : pc[v] \in {"cvwait", "blocked"}
      /\ \A v \in Workers : pc[v] = "blocked" => arg[v] \in Tasks /\ arg[v] \notin ready
  BY <1>1, PoolAssumption DEF CanStep, TypeOK, Submitting, Threads, BodyInv
<1>3. ASSUME NEW v \in Workers, pc[v] = "blocked"
      PROVE  /\ Pushed(arg[v]) /\ arg[v] \in Extractions \cup Shots
             /\ cur[v] \in Bridges \cup {Loader}
  <2>1. cur[v] \in Tasks
    BY <1>1, <1>3 DEF TypeOK
  <2>2. QED
    BY <1>1, <1>3, <2>1, CapturedByBridges DEF BodyInv
<1>4. \A v \in Workers : cur[v] # arg[w]
  <2>1. ASSUME NEW v \in Workers, cur[v] = arg[w] PROVE FALSE
    <3>1. pc[v] = "blocked"
      BY <1>1, <1>2, <2>1, PoolAssumption DEF TypeOK
    <3>2. QED
      BY <1>3, <2>1, <3>1, ImportAssumption
  <2>2. QED
    BY <2>1
<1>5. arg[w] \in Queued /\ lane[arg[w]] # Fg
  <2>1. arg[w] \in Tasks /\ Pushed(arg[w]) /\ arg[w] \notin Bridges
    BY <1>2, <1>3, ImportAssumption
  <2>2. QED
    BY <1>1, <1>2, <1>4, <2>1 DEF LocationInv, BodyInv
<1>6. arg[w] \in Elements(m_bgQueue)
  BY <1>1, <1>5 DEF LocationInv, Queued
<1>7. /\ m_fgQueue \in Seq(Tasks) /\ m_bgQueue \in Seq(Tasks)
      /\ Len(m_fgQueue) \in Nat /\ Len(m_bgQueue) \in Nat
  BY <1>1, LenProperties DEF TypeOK
<1>8. Len(m_bgQueue) > 0
  BY <1>6, <1>7 DEF Elements
<1>9. FgAwake = {} /\ BgAwake = {}
  BY <1>2 DEF FgAwake, BgAwake, Workers, Submitting
<1>10. FgWaiting = {} /\ BgWaiting = {}
  BY <1>1, <1>7, <1>8, <1>9, FS_EmptySet DEF NoLostWakeup, FgServed, BgServed
<1>11. QED
  BY <1>2, <1>10 DEF FgWaiting, BgWaiting, Workers

(* When everybody is blocked, the loader has the only background worker and *)
(* every foreground worker has a bridge of its own.                         *)
LEMMA BlockedPoolIsSmall ==
  ASSUME ImportInv, \A v \in Workers : pc[v] = "blocked"
  PROVE  ~Enough
<1>1. TypeOK /\ LocationInv /\ BodyInv
  BY DEF ImportInv
<1>2. \A v \in Workers : cur[v] \in Tasks /\ cur[v] # None /\ cur[v] \in Bridges \cup {Loader}
  <2>1. ASSUME NEW v \in Workers PROVE cur[v] \in Tasks /\ cur[v] # None
    BY <1>1, PoolAssumption DEF TypeOK
  <2>2. ASSUME NEW v \in Workers PROVE cur[v] \in Bridges \cup {Loader}
    BY <1>1, <2>1, CapturedByBridges DEF BodyInv
  <2>3. QED
    BY <2>1, <2>2
<1>3. \A v, x \in Workers : cur[v] = cur[x] => v = x
  BY <1>1, <1>2 DEF LocationInv
<1>4. \A v \in BgWorkers : cur[v] = Loader
  <2>1. ASSUME NEW v \in BgWorkers PROVE cur[v] \notin Bridges
    <3>1. lane[cur[v]] = Bg /\ Pushed(cur[v])
      BY <1>1, <1>2 DEF BodyInv, LocationInv, Workers
    <3>2. QED
      BY <1>1, <1>2, <3>1 DEF BodyInv, Workers, Fg, Bg
  <2>2. QED
    BY <1>2, <2>1 DEF Workers
<1>5. PICK b \in BgWorkers : TRUE
  BY PoolAssumption
<1>6. BgWorkers = {b}
  BY <1>3, <1>4, <1>5 DEF Workers
<1>7. Cardinality(BgWorkers) = 1
  BY <1>6, FS_Singleton
<1>8. \A v \in FgWorkers : cur[v] \in Bridges
  BY <1>2, <1>3, <1>4, <1>5, PoolAssumption DEF Workers
<1> DEFINE shotOf == [v \in FgWorkers |-> CHOOSE s \in Shots : Bridge[s] = cur[v]]
<1>9. \A v \in FgWorkers : shotOf[v] \in Shots /\ Bridge[shotOf[v]] = cur[v]
  BY <1>8 DEF Bridges
<1>10. shotOf \in Injection(FgWorkers, Shots)
  <2>1. shotOf \in [FgWorkers -> Shots]
    BY <1>9
  <2>2. \A v, x \in FgWorkers : shotOf[v] = shotOf[x] => v = x
    BY <1>3, <1>9 DEF Workers
  <2> HIDE DEF shotOf
  <2>3. QED
    BY <2>1, <2>2 DEF Injection, IsInjective
<1>11. Cardinality(FgWorkers) <= Cardinality(Shots)
  <2> HIDE DEF shotOf
  <2>1. IsFiniteSet(Shots)
    BY ImportAssumption
  <2>2. QED
    BY <1>10, <2>1, FS_Injection
<1>12. Cardinality(FgWorkers) \in Nat /\ Cardinality(Shots) \in Nat
  BY PoolAssumption, ImportAssumption, FS_CardinalityType
<1>13. QED
  BY <1>7, <1>11, <1>12 DEF Enough

(* The loader blocks on sub-tasks of its own pool, next to bridges that     *)
(* block on screenshots: with a second background worker, or more           *)
(* foreground workers than screenshots, they never hold every thread for    *)
(* good.  "The pool has >= 2 threads" does not suffice.                     *)
THEOREM ImportIsDeadlockFree == Enough => (ImportSpec => []NoPoolDeadlock)
<1>1. ASSUME ImportInv, Enough PROVE NoPoolDeadlock
  <2>1. SUFFICES ASSUME NEW t \in Tasks, Early(t), t \notin ready,
                        \A th \in Threads : ~CanStep(th)
                 PROVE  FALSE
    BY DEF NoPoolDeadlock
  <2>2. TypeOK /\ LocationInv /\ BodyInv /\ NoLostWakeup
    BY <1>1 DEF ImportInv
  <2>3. \A w \in Workers : pc[w] # "blocked"
    BY <1>1, <2>1, AllBlocked, BlockedPoolIsSmall
  <2>4. /\ \A th \in Threads : ~Submitting(th)
        /\ \A w \in Workers : pc[w] = "cvwait"
    BY <2>1, <2>2, <2>3, PoolAssumption DEF CanStep, TypeOK, Submitting, Threads, BodyInv
  <2>5. \A w \in Workers : cur[w] # t
    BY <2>2, <2>4, PoolAssumption DEF TypeOK
  <2>6. t \in Queued
    BY <2>1, <2>2, <2>5 DEF LocationInv, Early
  <2>7. /\ m_fgQueue \in Seq(Tasks) /\ m_bgQueue \in Seq(Tasks)
        /\ Len(m_fgQueue) \in Nat /\ Len(m_bgQueue) \in Nat
    BY <2>2, LenProperties DEF TypeOK
  <2>8. Len(m_fgQueue) + Len(m_bgQueue) > 0
    BY <2>6, <2>7 DEF Queued, Elements
  <2>9. FgAwake = {} /\ FgWaiting = FgWorkers
    BY <2>4 DEF FgAwake, FgWaiting, Workers, Submitting
  <2>10. QED
    BY <2>2, <2>7, <2>8, <2>9, FS_EmptySet, PoolAssumption DEF NoLostWakeup, FgServed
<1>2. CASE Enough
  <2>1. ImportInv => NoPoolDeadlock
    BY <1>1, <1>2
  <2>2. QED
    BY ImportInvariance, <2>1, PTL
<1>3. QED
  BY <1>2

(* The pool that AsyncPool::get() makes has a second background worker on a *)
(* machine with nine logical processors or more.                            *)
THEOREM NineProcessorsSuffice ==
  ASSUME NEW cpus \in Nat, cpus >= 9, Cardinality(BgWorkers) = BgCount(cpus)
  PROVE  ImportSpec => []NoPoolDeadlock
<1>1. ThreadCount(cpus) \in 8 .. 32
  BY DEF ThreadCount, Clamp
<1>2. BgCount(cpus) > 1
  BY <1>1 DEF BgCount, Clamp
<1>3. Enough
  BY <1>2 DEF Enough
<1>4. QED
  BY <1>3, ImportIsDeadlockFree
=============================================================================
