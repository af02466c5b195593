------------------------------ MODULE AsyncPool ------------------------------
(***************************************************************************)
(* The engine's thread pool, src/Engine/Async/AsyncPool.{h,cpp}: two lanes *)
(* of workers over two FIFO queues and one mutex (m_workMutex), with one   *)
(* condition variable per lane.  A foreground worker takes foreground work *)
(* first and otherwise steals background work; a background worker takes   *)
(* background work only.                                                   *)
(*                                                                         *)
(* A critical section under m_workMutex is one step: everything it touches *)
(* is touched under that mutex only.  What the code does after unlocking   *)
(* (m_pending, notify_one) is a step of its own.  A worker blocked in      *)
(* m_fgCV.wait or m_bgCV.wait has pc "cvwait"; a woken one has pc "check"  *)
(* and evaluates the wait predicate again.                                 *)
(*                                                                         *)
(* A task is an opaque body: it may submit further tasks, and it get()s    *)
(* every future it captured before it finishes, the way the bridging tasks *)
(* of Future::then, then_on_main and when_all do.  dispatch() is submit()  *)
(* with a future nobody uses.                                              *)
(***************************************************************************)
EXTENDS Naturals, Sequences, FiniteSets

CONSTANTS
  FgWorkers,   (* the threads of m_fgThreads                               *)
  BgWorkers,   (* the threads of m_bgThreads                               *)
  Clients,     (* the threads outside the pool that submit work            *)
  Main,        (* the client that calls shutdown()                         *)
  Tasks,       (* the tasks that may be submitted, each of them once       *)
  PendingMod,  (* 2^width of m_pending, a size_t                           *)
  None         (* no task                                                  *)

ASSUME PoolAssumption ==
  /\ IsFiniteSet(FgWorkers) /\ FgWorkers # {}
  /\ IsFiniteSet(BgWorkers) /\ BgWorkers # {}
  /\ IsFiniteSet(Clients) /\ Main \in Clients
  /\ FgWorkers \cap BgWorkers = {}
  /\ Clients \cap (FgWorkers \cup BgWorkers \cup Tasks) = {}
  /\ None \notin Tasks
  /\ PendingMod \in Nat \ {0}

Fg == "Foreground"
Bg == "Background"
Lanes == {Fg, Bg}
Workers == FgWorkers \cup BgWorkers
Threads == Workers \cup Clients

VARIABLES
  m_fgQueue, m_bgQueue,  \* the two lanes' queues of tasks
  m_shutdown,            \* set once by shutdown()
  m_pending,             \* the atomic counter the profiler shows
  pc,                    \* where each thread is
  cur,                   \* the task each worker is executing, or None
  arg,                   \* the task a thread is submitting or waiting for
  lane,                  \* the lane each task was submitted to
  captured,              \* futures moved into each task and not yet got
  holds,                 \* futures each client, or task body, still owns
  ready,                 \* tasks whose promise is fulfilled
  stamp,                 \* history: the rank of each task's push, 0 before it
  pushes,                \* history: how many tasks were pushed
  cut                    \* history: pushes when m_shutdown was set

vars == <<m_fgQueue, m_bgQueue, m_shutdown, m_pending, pc, cur, arg, lane,
          captured, holds, ready, stamp, pushes, cut>>

queues == <<m_fgQueue, m_bgQueue>>
futures == <<captured, holds, ready>>
history == <<stamp, pushes, cut>>

-----------------------------------------------------------------------------
(* How many workers a machine with cpus logical processors gets: get() and *)
(* the constructor.  Both lanes always have at least one.                  *)

Clamp(x, low, high) == IF x < low THEN low ELSE IF x > high THEN high ELSE x
ThreadCount(cpus) == Clamp(cpus - 1, 2, 32)
BgCount(cpus) == Clamp(ThreadCount(cpus) \div 4, 1, 8)
FgCount(cpus) == ThreadCount(cpus) - BgCount(cpus)

-----------------------------------------------------------------------------
Init ==
  /\ m_fgQueue = <<>> /\ m_bgQueue = <<>>
  /\ m_shutdown = FALSE
  /\ m_pending = 0
  /\ pc = [th \in Threads |-> IF th \in Workers THEN "check" ELSE "run"]
  /\ cur = [w \in Workers |-> None]
  /\ arg = [th \in Threads |-> None]
  /\ lane = [t \in Tasks |-> None]
  /\ captured = [t \in Tasks |-> {}]
  /\ holds = [a \in Clients \cup Tasks |-> {}]
  /\ ready = {}
  /\ stamp = [t \in Tasks |-> 0]
  /\ pushes = 0 /\ cut = 0

(* On whose behalf a thread runs user code: its own, or the task's.        *)
Actor(th) == IF th \in Clients THEN th ELSE cur[th]

(* The threads between push and the last notify_one of a submit().         *)
Submitting(th) == pc[th] \in {"add", "notifyBg", "notifyFg"}

FgWaiting == {w \in FgWorkers : pc[w] = "cvwait"}
BgWaiting == {w \in BgWorkers : pc[w] = "cvwait"}

(* th moves to its next step and the members of woken leave their condition*)
(* variable.                                                               *)
Wake(th, next, woken) ==
  pc' = [x \in Threads |-> IF x = th THEN next
                           ELSE IF x \in woken THEN "check" ELSE pc[x]]
NotifyOne(th, next, waiting) ==
  \/ waiting = {} /\ Wake(th, next, {})
  \/ \E w \in waiting : Wake(th, next, {w})
NotifyAll(th, next, waiting) == Wake(th, next, waiting)

-----------------------------------------------------------------------------
(* submit(): push under the lock, count, notify, return the future.        *)

Push(th, t, l) ==
  /\ pc[th] = "run" /\ stamp[t] = 0
  /\ IF l = Fg THEN m_fgQueue' = Append(m_fgQueue, t) /\ UNCHANGED m_bgQueue
               ELSE m_bgQueue' = Append(m_bgQueue, t) /\ UNCHANGED m_fgQueue
  /\ lane' = [lane EXCEPT ![t] = l]
  /\ \E deps \in SUBSET holds[Actor(th)] :
       /\ captured' = [captured EXCEPT ![t] = deps]
       /\ holds' = [holds EXCEPT ![Actor(th)] = @ \ deps]
  /\ pushes' = pushes + 1
  /\ stamp' = [stamp EXCEPT ![t] = pushes + 1]
  /\ pc' = [pc EXCEPT ![th] = "add"]
  /\ arg' = [arg EXCEPT ![th] = t]
  /\ UNCHANGED <<m_shutdown, m_pending, cur, ready, cut>>

PendingAdd(th) ==
  /\ pc[th] = "add"
  /\ m_pending' = (m_pending + 1) % PendingMod
  /\ pc' = [pc EXCEPT ![th] =
              IF lane[arg[th]] = Fg THEN "notifyFg" ELSE "notifyBg"]
  /\ UNCHANGED <<queues, m_shutdown, cur, arg, lane, futures, history>>

NotifyBg(th) ==
  /\ pc[th] = "notifyBg"
  /\ NotifyOne(th, "notifyFg", BgWaiting)
  /\ UNCHANGED <<queues, m_shutdown, m_pending, cur, arg, lane, futures,
                 history>>

(* Bug: the foreground lane is not told.                                   *)
NotifyFgForgotten(th) ==
  /\ pc[th] = "notifyFg"
  /\ pc' = [pc EXCEPT ![th] = "run"]
  /\ holds' = [holds EXCEPT ![Actor(th)] = @ \cup {arg[th]}]
  /\ arg' = [arg EXCEPT ![th] = None]
  /\ UNCHANGED <<queues, m_shutdown, m_pending, cur, lane, captured, ready,
                 history>>

NotifyFg(th) ==
  /\ pc[th] = "notifyFg"
  /\ NotifyOne(th, "run", FgWaiting)
  /\ holds' = [holds EXCEPT ![Actor(th)] = @ \cup {arg[th]}]
  /\ arg' = [arg EXCEPT ![th] = None]
  /\ UNCHANGED <<queues, m_shutdown, m_pending, cur, lane, captured, ready,
                 history>>

-----------------------------------------------------------------------------
(* Future::get() by a client, or by a task on a future it captured: the    *)
(* thread commits to the future and blocks until the promise is fulfilled. *)

Awaitable(th) == IF th \in Clients THEN holds[th] ELSE captured[cur[th]]

Block(th, f) ==
  /\ pc' = [pc EXCEPT ![th] = "blocked"]
  /\ arg' = [arg EXCEPT ![th] = f]
  /\ UNCHANGED <<queues, m_shutdown, m_pending, cur, lane, futures, history>>

Await(th) == pc[th] = "run" /\ \E f \in Awaitable(th) : Block(th, f)

(* Bug: get() does not wait for the promise.                               *)
ResumeAtOnce(th) ==
  /\ pc[th] = "blocked"
  /\ holds' = [holds EXCEPT ![Actor(th)] = @ \ {arg[th]}]
  /\ captured' = IF th \in Clients THEN captured
                 ELSE [captured EXCEPT ![cur[th]] = @ \ {arg[th]}]
  /\ pc' = [pc EXCEPT ![th] = "run"]
  /\ arg' = [arg EXCEPT ![th] = None]
  /\ UNCHANGED <<queues, m_shutdown, m_pending, cur, lane, ready, history>>

Resume(th) ==
  /\ pc[th] = "blocked" /\ arg[th] \in ready
  /\ holds' = [holds EXCEPT ![Actor(th)] = @ \ {arg[th]}]
  /\ captured' = IF th \in Clients THEN captured
                 ELSE [captured EXCEPT ![cur[th]] = @ \ {arg[th]}]
  /\ pc' = [pc EXCEPT ![th] = "run"]
  /\ arg' = [arg EXCEPT ![th] = None]
  /\ UNCHANGED <<queues, m_shutdown, m_pending, cur, lane, ready, history>>

-----------------------------------------------------------------------------
(* fg_worker_loop and bg_worker_loop: one critical section decides whether *)
(* to execute, to wait on the condition variable or to return.             *)

Execute(w, t) ==
  /\ cur' = [cur EXCEPT ![w] = t]
  /\ pc' = [pc EXCEPT ![w] = "run"]

Leave(w, next) ==
  /\ pc' = [pc EXCEPT ![w] = next]
  /\ UNCHANGED <<queues, cur>>

(* Bug: the queue is a stack.                                              *)
FgTakeNewest(w) ==
  /\ m_fgQueue # <<>>
  /\ Execute(w, m_fgQueue[Len(m_fgQueue)])
  /\ m_fgQueue' = SubSeq(m_fgQueue, 1, Len(m_fgQueue) - 1)
  /\ UNCHANGED m_bgQueue

FgTake(w) ==
  /\ m_fgQueue # <<>>
  /\ Execute(w, Head(m_fgQueue))
  /\ m_fgQueue' = Tail(m_fgQueue) /\ UNCHANGED m_bgQueue

TakeBg(w) ==
  /\ m_bgQueue # <<>>
  /\ Execute(w, Head(m_bgQueue))
  /\ m_bgQueue' = Tail(m_bgQueue) /\ UNCHANGED m_fgQueue

(* Bugs: no stealing; no draining.                                         *)
FgCheckOwnLane(w) ==
  /\ pc[w] = "check"
  /\ \/ FgTake(w)
     \/ /\ m_fgQueue = <<>>
        /\ Leave(w, IF m_shutdown THEN "exited" ELSE "cvwait")
  /\ UNCHANGED <<m_shutdown, m_pending, arg, lane, futures, history>>
FgCheckNoDrain(w) ==
  /\ pc[w] = "check"
  /\ \/ ~m_shutdown /\ FgTake(w)
     \/ ~m_shutdown /\ m_fgQueue = <<>> /\ TakeBg(w)
     \/ /\ m_shutdown \/ (m_fgQueue = <<>> /\ m_bgQueue = <<>>)
        /\ Leave(w, IF m_shutdown THEN "exited" ELSE "cvwait")
  /\ UNCHANGED <<m_shutdown, m_pending, arg, lane, futures, history>>

FgCheck(w) ==
  /\ pc[w] = "check"
  /\ \/ FgTake(w)
     \/ m_fgQueue = <<>> /\ TakeBg(w)
     \/ /\ m_fgQueue = <<>> /\ m_bgQueue = <<>>
        /\ Leave(w, IF m_shutdown THEN "exited" ELSE "cvwait")
  /\ UNCHANGED <<m_shutdown, m_pending, arg, lane, futures, history>>

BgCheck(w) ==
  /\ pc[w] = "check"
  /\ \/ TakeBg(w)
     \/ /\ m_bgQueue = <<>>
        /\ Leave(w, IF m_shutdown THEN "exited" ELSE "cvwait")
  /\ UNCHANGED <<m_shutdown, m_pending, arg, lane, futures, history>>

SpuriousWake(w) ==
  /\ pc[w] = "cvwait"
  /\ pc' = [pc EXCEPT ![w] = "check"]
  /\ UNCHANGED <<queues, m_shutdown, m_pending, cur, arg, lane, futures,
                 history>>

(* task->execute() returns: the promise is set, then m_pending drops.      *)
Finish(w) ==
  /\ pc[w] = "run" /\ captured[cur[w]] = {}
  /\ ready' = ready \cup {cur[w]}
  /\ pc' = [pc EXCEPT ![w] = "sub"]
  /\ UNCHANGED <<queues, m_shutdown, m_pending, cur, arg, lane, captured,
                 holds, history>>

(* Bugs: the counter, or the worker's task, is not reset.                  *)
PendingSubForgotten(w) ==
  /\ pc[w] = "sub"
  /\ cur' = [cur EXCEPT ![w] = None]
  /\ pc' = [pc EXCEPT ![w] = "check"]
  /\ UNCHANGED <<queues, m_shutdown, m_pending, arg, lane, futures, history>>
PendingSubKeepsTask(w) ==
  /\ pc[w] = "sub"
  /\ m_pending' = (m_pending + PendingMod - 1) % PendingMod
  /\ pc' = [pc EXCEPT ![w] = "check"]
  /\ UNCHANGED <<queues, m_shutdown, cur, arg, lane, futures, history>>

PendingSub(w) ==
  /\ pc[w] = "sub"
  /\ m_pending' = (m_pending + PendingMod - 1) % PendingMod
  /\ cur' = [cur EXCEPT ![w] = None]
  /\ pc' = [pc EXCEPT ![w] = "check"]
  /\ UNCHANGED <<queues, m_shutdown, arg, lane, futures, history>>

-----------------------------------------------------------------------------
(* shutdown(): set the flag under the lock, wake everybody, join the       *)
(* foreground threads, then the background ones.  A second call returns at *)
(* once.                                                                   *)

Shutdown ==
  /\ pc[Main] = "run" /\ ~m_shutdown
  /\ m_shutdown' = TRUE
  /\ cut' = pushes
  /\ pc' = [pc EXCEPT ![Main] = "wakeFg"]
  /\ UNCHANGED <<queues, m_pending, cur, arg, lane, futures, stamp, pushes>>

(* Bug: the background lane is not woken.                                  *)
ShutdownWakeFgOnly ==
  /\ \/ pc[Main] = "wakeFg" /\ NotifyAll(Main, "wakeBg", FgWaiting)
     \/ pc[Main] = "wakeBg" /\ NotifyAll(Main, "joinFg", {})
  /\ UNCHANGED <<queues, m_shutdown, m_pending, cur, arg, lane, futures,
                 history>>

ShutdownWake ==
  /\ \/ pc[Main] = "wakeFg" /\ NotifyAll(Main, "wakeBg", FgWaiting)
     \/ pc[Main] = "wakeBg" /\ NotifyAll(Main, "joinFg", BgWaiting)
  /\ UNCHANGED <<queues, m_shutdown, m_pending, cur, arg, lane, futures,
                 history>>

ShutdownJoin ==
  /\ \/ /\ pc[Main] = "joinFg" /\ \A w \in FgWorkers : pc[w] = "exited"
        /\ pc' = [pc EXCEPT ![Main] = "joinBg"]
     \/ /\ pc[Main] = "joinBg" /\ \A w \in BgWorkers : pc[w] = "exited"
        /\ pc' = [pc EXCEPT ![Main] = "run"]
  /\ UNCHANGED <<queues, m_shutdown, m_pending, cur, arg, lane, futures,
                 history>>

-----------------------------------------------------------------------------
SubmitStep(th) == PendingAdd(th) \/ NotifyBg(th) \/ NotifyFg(th)
WorkerStep(w) ==
  \/ w \in FgWorkers /\ FgCheck(w)
  \/ w \in BgWorkers /\ BgCheck(w)
  \/ Finish(w)
  \/ PendingSub(w)
ShutdownStep == ShutdownWake \/ ShutdownJoin

Next ==
  \/ \E th \in Threads, t \in Tasks, l \in Lanes : Push(th, t, l)
  \/ \E th \in Threads : SubmitStep(th) \/ Await(th) \/ Resume(th)
  \/ \E w \in Workers : WorkerStep(w) \/ SpuriousWake(w)
  \/ Shutdown
  \/ ShutdownStep

Spec == Init /\ [][Next]_vars

(* A thread that can run does run, and a task body never runs for ever:    *)
(* submitting more work, spurious wakeups and shutdown are never forced.   *)
Fairness ==
  /\ \A th \in Threads : WF_vars(SubmitStep(th))
  /\ \A w \in Workers : WF_vars(WorkerStep(w) \/ Await(w) \/ Resume(w))
  /\ WF_vars(ShutdownStep)

FairSpec == Spec /\ Fairness
-----------------------------------------------------------------------------
(* Types of the variables, and which of cur and arg each step needs: the   *)
(* task a worker executes stays its own from FgCheck/BgCheck to PendingSub.*)
TypeOK ==
  /\ m_fgQueue \in Seq(Tasks) /\ m_bgQueue \in Seq(Tasks)
  /\ m_shutdown \in BOOLEAN
  /\ m_pending \in 0 .. PendingMod - 1
  /\ pc \in [Threads -> {"check", "cvwait", "run", "add", "notifyBg",
                         "notifyFg", "blocked", "sub", "exited", "wakeFg",
                         "wakeBg", "joinFg", "joinBg"}]
  /\ cur \in [Workers -> Tasks \cup {None}]
  /\ arg \in [Threads -> Tasks \cup {None}]
  /\ lane \in [Tasks -> Lanes \cup {None}]
  /\ captured \in [Tasks -> SUBSET Tasks]
  /\ holds \in [Clients \cup Tasks -> SUBSET Tasks]
  /\ ready \in SUBSET Tasks
  /\ stamp \in [Tasks -> Nat] /\ pushes \in Nat /\ cut \in Nat
  /\ \A w \in Workers : (cur[w] = None) <=> pc[w] \in {"check", "cvwait", "exited"}
  /\ \A th \in Threads : Submitting(th) \/ pc[th] = "blocked" => arg[th] \in Tasks
  /\ \A w \in Workers : pc[w] \notin {"wakeFg", "wakeBg", "joinFg", "joinBg"}
  /\ \A c \in Clients : pc[c] \notin {"check", "cvwait", "sub", "exited"}

Elements(q) == {q[i] : i \in 1 .. Len(q)}
Queued == Elements(m_fgQueue) \cup Elements(m_bgQueue)
Pushed(t) == stamp[t] > 0

(* Accepted before shutdown() set its flag.                                *)
Early(t) == Pushed(t) /\ (m_shutdown => stamp[t] <= cut)

(* No wakeup is lost: whenever a worker sleeps on a condition variable,    *)
(* there are at least as many threads about to look at the queues, or      *)
(* about to notify, as tasks it could take.  notify_one comes after the    *)
(* unlock in submit(), so this relates the queue to threads between the    *)
(* two, whatever other workers took in the meantime.                       *)
FgAwake == {th \in Threads : Submitting(th) \/ (th \in FgWorkers /\ pc[th] = "check")}
BgAwake == {th \in Threads : \/ pc[th] \in {"add", "notifyBg"} /\ lane[arg[th]] = Bg
                             \/ th \in BgWorkers /\ pc[th] = "check"}
FgServed == FgWaiting # {} =>
              Len(m_fgQueue) + Len(m_bgQueue) <= Cardinality(FgAwake)
BgServed == BgWaiting # {} => Len(m_bgQueue) <= Cardinality(BgAwake)
NoLostWakeup == FgServed /\ BgServed

(* The bridging tasks of then(), then_on_main() and when_all() block pool  *)
(* threads, yet never all of them for good: while work accepted before     *)
(* shutdown is unfinished, some thread of the pool, or one about to notify *)
(* it, has a step to take.                                                 *)
CanStep(th) ==
  \/ Submitting(th)
  \/ pc[th] \in {"wakeFg", "wakeBg"}
  \/ th \in Workers /\ pc[th] \in {"check", "run", "sub"}
  \/ th \in Workers /\ pc[th] = "blocked" /\ arg[th] \in ready
NoPoolDeadlock ==
  (\E t \in Tasks : Early(t) /\ t \notin ready) => \E th \in Threads : CanStep(th)

(* shutdown() returns only after all the work accepted before it ran: the  *)
(* workers drain both queues before they exit.                             *)
ShutdownDrains ==
  m_shutdown /\ (\A w \in Workers : pc[w] = "exited") =>
    \A t \in Tasks : Early(t) => t \in ready

(* "Stop accepting work, join all threads" (AsyncPool.h): once the joins    *)
(* have returned, no task is left that a submit() accepted.                *)
NothingStranded == (\A w \in Workers : pc[w] = "exited") => Queued = {}

(* m_pending, a size_t incremented after the push and decremented after    *)
(* the execution by different threads, counts modulo its width the tasks   *)
(* that are queued or executing, less those whose submitter has not        *)
(* counted them yet: it wraps below zero for a moment but never drifts.    *)
PendingAccounts ==
  (m_pending + Cardinality({th \in Threads : pc[th] = "add"})) % PendingMod
    = (Cardinality(Queued) + Cardinality({w \in Workers : cur[w] # None}))
        % PendingMod

(* Work accepted before a shutdown is eventually done, when the threads    *)
(* are scheduled fairly: no lane starves and no bridge blocks for ever.    *)
EarlyWorkIsDone == \A t \in Tasks : Early(t) ~> t \in ready

(* Once shutdown() has begun all workers exit, so its joins return, unless *)
(* something was submitted after it began (then a task can block on work   *)
(* that no remaining worker takes).                                        *)
ShutdownReturns ==
  m_shutdown ~> \/ \A w \in Workers : pc[w] = "exited"
                \/ pushes > cut

(* The pool implements TaskLanes: a task is waiting while it is in a queue *)
(* and running while a worker executes it.                                 *)
Lane == INSTANCE TaskLanes WITH
  waiting <- [l \in Lanes |-> IF l = Fg THEN m_fgQueue ELSE m_bgQueue],
  running <- {t \in Tasks \ ready : \E w \in Workers : cur[w] = t},
  needs <- captured,
  done <- ready
ImplementsLanes == Lane!Spec

-----------------------------------------------------------------------------
(* The inductive invariant of the proofs.                                  *)

(* Ranks are distinct and given only to pushed tasks.                      *)
StampInv ==
  /\ \A t \in Tasks : stamp[t] <= pushes
  /\ \A t, u \in Tasks : Pushed(t) /\ stamp[t] = stamp[u] => t = u
  /\ cut <= pushes

(* A pushed task is in its lane's queue, or with one worker, or ready.     *)
LocationInv ==
  /\ \A t \in Elements(m_fgQueue) : lane[t] = Fg
  /\ \A t \in Elements(m_bgQueue) : lane[t] = Bg
  /\ \A t \in Queued : Pushed(t) /\ t \notin ready /\ \A w \in Workers : cur[w] # t
  /\ \A w \in Workers : cur[w] # None =>
       /\ Pushed(cur[w])
       /\ (cur[w] \in ready) <=> (pc[w] = "sub")
       /\ \A v \in Workers : cur[v] = cur[w] => v = w
  /\ \A t \in Tasks : Pushed(t) =>
       t \in Queued \cup ready \/ \E w \in Workers : cur[w] = t
  /\ \A t \in ready : Pushed(t)

(* Queues are in push order, and what a worker executes was pushed before  *)
(* everything that waits in the queue it serves first.                     *)
OrderInv ==
  /\ \A i, j \in 1 .. Len(m_fgQueue) :
       i < j => stamp[m_fgQueue[i]] < stamp[m_fgQueue[j]]
  /\ \A i, j \in 1 .. Len(m_bgQueue) :
       i < j => stamp[m_bgQueue[i]] < stamp[m_bgQueue[j]]
  /\ \A w \in FgWorkers : cur[w] # None =>
       \A t \in Elements(m_fgQueue) : stamp[cur[w]] < stamp[t]
  /\ \A w \in BgWorkers : cur[w] # None =>
       \A t \in Elements(m_bgQueue) : stamp[cur[w]] < stamp[t]

(* Whoever holds or awaits a future does so after its task was pushed.     *)
FutureInv ==
  /\ \A t \in Tasks : \A f \in captured[t] : Pushed(f) /\ stamp[f] < stamp[t]
  /\ \A a \in Clients \cup Tasks : \A f \in holds[a] : Pushed(f)
  /\ \A th \in Threads : Submitting(th) => Pushed(arg[th])
  /\ \A w \in Workers : pc[w] = "blocked" => arg[w] \in captured[cur[w]]

(* A worker exits only when no accepted work is left for it.               *)
ExitInv ==
  /\ \A w \in FgWorkers : pc[w] = "exited" =>
       m_shutdown /\ \A t \in Queued : ~Early(t)
  /\ \A w \in BgWorkers : pc[w] = "exited" =>
       m_shutdown /\ \A t \in Elements(m_bgQueue) : ~Early(t)

IInv == /\ TypeOK /\ StampInv /\ LocationInv /\ OrderInv /\ FutureInv
        /\ ExitInv /\ NoLostWakeup
=============================================================================
