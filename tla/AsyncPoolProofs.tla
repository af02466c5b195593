--------------------------- MODULE AsyncPoolProofs ---------------------------
(* Proofs about AsyncPool, for every number of workers, clients and tasks.  *)
EXTENDS AsyncPool, FiniteSetTheorems, SequenceTheorems, WellFoundedInduction,
        TLAPS

(* Whatever number of processors the machine reports, both lanes get a      *)
(* worker: what PoolAssumption says of FgWorkers and BgWorkers.             *)
THEOREM BothLanesStaffed ==
  ASSUME NEW cpus \in Nat \ {0}
  PROVE  /\ ThreadCount(cpus) \in 2 .. 32
         /\ BgCount(cpus) >= 1
         /\ FgCount(cpus) >= 1
<1>1. ThreadCount(cpus) \in 2 .. 32
  BY DEF ThreadCount, Clamp
<1>2. BgCount(cpus) \in 1 .. 8 /\ BgCount(cpus) < ThreadCount(cpus)
  BY <1>1 DEF BgCount, Clamp
<1>3. QED
  BY <1>1, <1>2 DEF FgCount

-----------------------------------------------------------------------------
LEMMA TypeInit == Init => TypeOK
<1> SUFFICES ASSUME Init PROVE TypeOK
  OBVIOUS
<1>1. m_fgQueue \in Seq(Tasks) /\ m_bgQueue \in Seq(Tasks)
  BY EmptySeq DEF Init
<1>2. pc \in [Threads -> {"check", "run"}] /\ \A th \in Threads : (pc[th] = "check") <=> th \in Workers
  BY DEF Init
<1>3. /\ \A w \in Workers : cur[w] = None /\ pc[w] = "check"
      /\ \A c \in Clients : pc[c] = "run"
  BY PoolAssumption DEF Init, Threads, Workers
<1>4. /\ cur \in [Workers -> Tasks \cup {None}]
      /\ arg \in [Threads -> Tasks \cup {None}]
      /\ m_pending \in 0 .. PendingMod - 1
  BY PoolAssumption DEF Init
<1>5. QED
  BY <1>1, <1>2, <1>3, <1>4 DEF Init, TypeOK, Threads, Submitting

(* What a thread running user code, or submitting, runs it for.             *)
LEMMA ActorType ==
  ASSUME TypeOK, NEW th \in Threads, Submitting(th) \/ pc[th] \in {"run", "blocked"}
  PROVE  /\ Actor(th) \in Clients \cup Tasks
         /\ th \notin Clients => th \in Workers /\ cur[th] \in Tasks
BY PoolAssumption DEF TypeOK, Actor, Submitting, Threads, Workers

LEMMA TypeNext == TypeOK /\ [Next]_vars => TypeOK'
<1> SUFFICES ASSUME TypeOK, [Next]_vars PROVE TypeOK'
  OBVIOUS
<1> USE PoolAssumption
<1>1. ASSUME NEW th \in Threads, NEW t \in Tasks, NEW l \in Lanes, Push(th, t, l)
      PROVE  TypeOK'
  <2>1. Append(m_fgQueue, t) \in Seq(Tasks) /\ Append(m_bgQueue, t) \in Seq(Tasks)
    BY DEF TypeOK
  <2>2. m_fgQueue' \in Seq(Tasks) /\ m_bgQueue' \in Seq(Tasks)
    <3>1. m_fgQueue' \in {m_fgQueue, Append(m_fgQueue, t)}
      BY <1>1 DEF Push
    <3>2. m_bgQueue' \in {m_bgQueue, Append(m_bgQueue, t)}
      BY <1>1 DEF Push
    <3>3. QED
      BY <2>1, <3>1, <3>2 DEF TypeOK
  <2>3. /\ captured' \in [Tasks -> SUBSET Tasks]
        /\ holds' \in [Clients \cup Tasks -> SUBSET Tasks]
    BY <1>1, ActorType DEF Push, TypeOK
  <2>4. QED
    BY SMTT(60), <1>1, <2>2, <2>3 DEF Push, TypeOK, Threads, Workers, Submitting
<1>2. ASSUME NEW th \in Threads, PendingAdd(th) PROVE TypeOK'
  BY <1>2 DEF PendingAdd, queues, futures, history, TypeOK, Threads, Workers, Submitting
<1>3. ASSUME NEW th \in Threads, NotifyBg(th) PROVE TypeOK'
  <2>1. PICK W \in SUBSET BgWaiting : Wake(th, "notifyFg", W)
    BY <1>3 DEF NotifyBg, NotifyOne
  <2>2. QED
    BY <1>3, <2>1 DEF Wake, NotifyBg, BgWaiting, queues, futures, history, TypeOK, Threads,
       Workers, Submitting
<1>4. ASSUME NEW th \in Threads, NotifyFg(th) PROVE TypeOK'
  <2>1. PICK W \in SUBSET FgWaiting : Wake(th, "run", W)
    BY <1>4 DEF NotifyFg, NotifyOne
  <2>2. holds' \in [Clients \cup Tasks -> SUBSET Tasks]
    BY <1>4, ActorType DEF NotifyFg, Submitting, TypeOK
  <2>3. QED
    BY <1>4, <2>1, <2>2 DEF Wake, NotifyFg, FgWaiting, queues, futures, history, TypeOK,
       Threads, Workers, Submitting
<1>5. ASSUME NEW th \in Threads, Await(th) PROVE TypeOK'
  BY <1>5 DEF Await, Block, Awaitable, queues, futures, history, TypeOK, Threads, Workers,
     Submitting
<1>6. ASSUME NEW th \in Threads, Resume(th) PROVE TypeOK'
  <2>1. /\ captured' \in [Tasks -> SUBSET Tasks]
        /\ holds' \in [Clients \cup Tasks -> SUBSET Tasks]
    BY <1>6, ActorType DEF Resume, TypeOK
  <2>2. QED
    BY <1>6, <2>1 DEF Resume, queues, futures, history, TypeOK, Threads, Workers, Submitting
<1>7. ASSUME NEW w \in Workers, NEW t \in Tasks, Execute(w, t), pc[w] = "check",
             m_fgQueue' \in Seq(Tasks), m_bgQueue' \in Seq(Tasks),
             UNCHANGED <<m_shutdown, m_pending, arg, lane, futures, history>>
      PROVE  TypeOK'
  BY <1>7 DEF Execute, futures, history, TypeOK, Threads, Workers, Submitting
<1>8. ASSUME NEW w \in Workers, pc[w] = "check",
             Leave(w, IF m_shutdown THEN "exited" ELSE "cvwait"),
             UNCHANGED <<m_shutdown, m_pending, arg, lane, futures, history>>
      PROVE  TypeOK'
  BY <1>8 DEF Leave, queues, futures, history, TypeOK, Threads, Workers, Submitting
<1>9. ASSUME NEW w \in Workers, pc[w] = "check", FgTake(w) \/ TakeBg(w),
             UNCHANGED <<m_shutdown, m_pending, arg, lane, futures, history>>
      PROVE  TypeOK'
  <2>1. CASE FgTake(w)
    <3>1. Head(m_fgQueue) \in Tasks /\ Tail(m_fgQueue) \in Seq(Tasks)
      BY <2>1, HeadTailProperties DEF FgTake, TypeOK
    <3>2. QED
      BY <1>7, <1>9, <2>1, <3>1 DEF FgTake, TypeOK
  <2>2. CASE TakeBg(w)
    <3>1. Head(m_bgQueue) \in Tasks /\ Tail(m_bgQueue) \in Seq(Tasks)
      BY <2>2, HeadTailProperties DEF TakeBg, TypeOK
    <3>2. QED
      BY <1>7, <1>9, <2>2, <3>1 DEF TakeBg, TypeOK
  <2>3. QED
    BY <1>9, <2>1, <2>2
<1>10. ASSUME NEW w \in FgWorkers, FgCheck(w) PROVE TypeOK'
  BY <1>8, <1>9, <1>10 DEF FgCheck, Workers
<1>11. ASSUME NEW w \in BgWorkers, BgCheck(w) PROVE TypeOK'
  BY <1>8, <1>9, <1>11 DEF BgCheck, Workers
<1>12. ASSUME NEW w \in Workers, Finish(w) PROVE TypeOK'
  BY <1>12 DEF Finish, queues, futures, history, TypeOK, Threads, Workers, Submitting
<1>13. ASSUME NEW w \in Workers, PendingSub(w) PROVE TypeOK'
  BY <1>13 DEF PendingSub, queues, futures, history, TypeOK, Threads, Workers, Submitting
<1>14. ASSUME NEW w \in Workers, SpuriousWake(w) PROVE TypeOK'
  BY <1>14 DEF SpuriousWake, queues, futures, history, TypeOK, Threads, Workers, Submitting
<1>15. ASSUME Shutdown PROVE TypeOK'
  BY <1>15 DEF Shutdown, queues, futures, history, TypeOK, Threads, Workers, Submitting
<1>16. ASSUME ShutdownWake PROVE TypeOK'
  <2>1. PICK W \in SUBSET (FgWaiting \cup BgWaiting), next \in {"wakeBg", "joinFg"} :
          Wake(Main, next, W)
    BY <1>16 DEF ShutdownWake, NotifyAll
  <2>2. Main \in Threads /\ Main \notin Workers /\ ~Submitting(Main)
    BY <1>16 DEF Threads, Workers, ShutdownWake, Submitting
  <2>3. UNCHANGED <<m_fgQueue, m_bgQueue, m_shutdown, m_pending, cur, arg, lane,
                    captured, holds, ready, stamp, pushes, cut>>
    BY <1>16 DEF ShutdownWake, queues, futures, history
  <2>4. QED
    BY <2>1, <2>2, <2>3 DEF Wake, FgWaiting, BgWaiting, TypeOK, Threads, Workers, Submitting
<1>17. ASSUME ShutdownJoin PROVE TypeOK'
  <2>1. Main \in Threads /\ Main \notin Workers /\ ~Submitting(Main)
    BY <1>17 DEF Threads, Workers, ShutdownJoin, Submitting
  <2>2. PICK next \in {"joinBg", "run"} : pc' = [pc EXCEPT ![Main] = next]
    BY <1>17 DEF ShutdownJoin
  <2>3. UNCHANGED <<m_fgQueue, m_bgQueue, m_shutdown, m_pending, cur, arg, lane,
                    captured, holds, ready, stamp, pushes, cut>>
    BY <1>17 DEF ShutdownJoin, queues, futures, history
  <2>4. QED
    BY <2>1, <2>2, <2>3 DEF TypeOK, Threads, Workers, Submitting
<1>18. ASSUME UNCHANGED vars PROVE TypeOK'
  BY <1>18 DEF vars, TypeOK, Submitting
<1>19. QED
  BY <1>1, <1>2, <1>3, <1>4, <1>5, <1>6, <1>10, <1>11, <1>12, <1>13, <1>14,
     <1>15, <1>16, <1>17, <1>18
     DEF Next, SubmitStep, WorkerStep, ShutdownStep

(* The types of the pool's variables.                                       *)
THEOREM TypeCorrect == Spec => []TypeOK
<1>1. QED
  BY TypeInit, TypeNext, PTL DEF Spec

-----------------------------------------------------------------------------
(* Queues as sets of tasks.                                                 *)
LEMMA ElementsAppend ==
  ASSUME NEW S, NEW q \in Seq(S), NEW x \in S
  PROVE  /\ Append(q, x) \in Seq(S)
         /\ Len(Append(q, x)) = Len(q) + 1
         /\ Elements(Append(q, x)) = Elements(q) \cup {x}
<1>1. /\ Append(q, x) \in Seq(S) /\ Len(q) \in Nat
      /\ Len(Append(q, x)) = Len(q) + 1
      /\ \A i \in 1 .. Len(q) : Append(q, x)[i] = q[i]
      /\ Append(q, x)[Len(q) + 1] = x
  BY LenProperties
<1>2. 1 .. Len(q) + 1 = 1 .. Len(q) \cup {Len(q) + 1}
  BY <1>1
<1>3. QED
  BY <1>1, <1>2 DEF Elements

LEMMA ElementsTail ==
  ASSUME NEW S, NEW q \in Seq(S), q # <<>>
  PROVE  /\ Head(q) \in Elements(q) /\ Head(q) = q[1] /\ Head(q) \in S
         /\ Tail(q) \in Seq(S) /\ Len(Tail(q)) = Len(q) - 1 /\ Len(q) \in Nat \ {0}
         /\ \A i \in 1 .. Len(q) - 1 : Tail(q)[i] = q[i + 1]
         /\ Elements(q) = {Head(q)} \cup Elements(Tail(q))
<1>1. /\ Len(q) \in Nat \ {0} /\ Head(q) = q[1] /\ Head(q) \in S
      /\ Tail(q) \in Seq(S) /\ Len(Tail(q)) = Len(q) - 1
      /\ \A i \in 1 .. Len(q) - 1 : Tail(q)[i] = q[i + 1]
  BY EmptySeq, HeadTailProperties
<1>2. 1 \in 1 .. Len(q)
  BY <1>1
<1>3. ASSUME NEW x \in Elements(q) PROVE x \in {Head(q)} \cup Elements(Tail(q))
  <2>1. PICK i \in 1 .. Len(q) : x = q[i]
    BY <1>3 DEF Elements
  <2>2. CASE i = 1
    BY <1>1, <2>1, <2>2
  <2>3. CASE i # 1
    <3>1. i - 1 \in 1 .. Len(q) - 1 /\ Tail(q)[i - 1] = q[i]
      BY <1>1, <2>1, <2>3
    <3>2. QED
      BY <1>1, <2>1, <3>1 DEF Elements
  <2>4. QED
    BY <2>2, <2>3
<1>4. ASSUME NEW x \in Elements(Tail(q)) PROVE x \in Elements(q)
  <2>1. PICK i \in 1 .. Len(q) - 1 : x = q[i + 1]
    BY <1>1, <1>4 DEF Elements
  <2>2. i + 1 \in 1 .. Len(q)
    BY <1>1, <2>1
  <2>3. QED
    BY <2>1, <2>2 DEF Elements
<1>5. QED
  BY <1>1, <1>2, <1>3, <1>4 DEF Elements

LEMMA ElementsType ==
  ASSUME NEW S, NEW q \in Seq(S)
  PROVE  Elements(q) \subseteq S /\ (Elements(q) = {} <=> q = <<>>)
<1>1. Elements(q) \subseteq S
  BY ElementOfSeq DEF Elements
<1>2. q # <<>> => Elements(q) # {}
  BY ElementsTail
<1>3. q = <<>> => Elements(q) = {}
  BY EmptySeq DEF Elements
<1>4. QED
  BY <1>1, <1>2, <1>3

-----------------------------------------------------------------------------
LEMMA StampNext == TypeOK /\ StampInv /\ [Next]_vars => StampInv'
<1> SUFFICES ASSUME TypeOK, StampInv, [Next]_vars PROVE StampInv'
  OBVIOUS
<1>1. ASSUME NEW th \in Threads, NEW t \in Tasks, NEW l \in Lanes, Push(th, t, l)
      PROVE  StampInv'
  BY <1>1 DEF Push, StampInv, Pushed, TypeOK
<1>2. ASSUME Shutdown PROVE StampInv'
  BY <1>2 DEF Shutdown, StampInv, Pushed, TypeOK, history
<1>3. ASSUME UNCHANGED history PROVE StampInv'
  BY <1>3 DEF StampInv, Pushed, history
<1>4. QED
  BY <1>1, <1>2, <1>3 DEF Next, SubmitStep, WorkerStep, ShutdownStep, PendingAdd, NotifyBg,
     NotifyFg, Await, Block, Resume, FgCheck, BgCheck, Finish, PendingSub, SpuriousWake,
     ShutdownWake, ShutdownJoin, vars, history

-----------------------------------------------------------------------------
(* The head of a queue was pushed before the rest of it.                    *)
LEMMA HeadIsOldest ==
  ASSUME NEW q \in Seq(Tasks), q # <<>>,
         \A t \in Tasks : stamp[t] \in Nat,
         \A i, j \in 1 .. Len(q) : i < j => stamp[q[i]] < stamp[q[j]]
  PROVE  /\ \A t \in Elements(Tail(q)) : stamp[Head(q)] < stamp[t]
         /\ Head(q) \notin Elements(Tail(q))
         /\ \A i, j \in 1 .. Len(Tail(q)) : i < j => stamp[Tail(q)[i]] < stamp[Tail(q)[j]]
<1>1. ASSUME NEW t \in Elements(Tail(q)) PROVE stamp[Head(q)] < stamp[t]
  <2>1. PICK i \in 1 .. Len(q) - 1 : t = q[i + 1]
    BY <1>1, ElementsTail DEF Elements
  <2>2. 1 \in 1 .. Len(q) /\ i + 1 \in 1 .. Len(q) /\ 1 < i + 1
    BY <2>1, ElementsTail
  <2>3. QED
    BY <2>1, <2>2, ElementsTail
<1>2. Head(q) \notin Elements(Tail(q))
  BY <1>1, ElementsTail
<1>3. ASSUME NEW i \in 1 .. Len(Tail(q)), NEW j \in 1 .. Len(Tail(q)), i < j
      PROVE  stamp[Tail(q)[i]] < stamp[Tail(q)[j]]
  <2>1. /\ i + 1 \in 1 .. Len(q) /\ j + 1 \in 1 .. Len(q) /\ i + 1 < j + 1
        /\ Tail(q)[i] = q[i + 1] /\ Tail(q)[j] = q[j + 1]
    BY <1>3, ElementsTail
  <2>2. QED
    BY <2>1
<1>4. QED
  BY <1>1, <1>2, <1>3

(* What executing the head h of queue q, leaving the other queue, does.     *)
LEMMA TakeFg ==
  ASSUME TypeOK, OrderInv, LocationInv, NEW w \in Workers, FgTake(w)
  PROVE  /\ Head(m_fgQueue) \in Tasks /\ Head(m_fgQueue) \in Elements(m_fgQueue)
         /\ cur'[w] = Head(m_fgQueue) /\ pc'[w] = "run"
         /\ Elements(m_fgQueue) = {Head(m_fgQueue)} \cup Elements(m_fgQueue')
         /\ Head(m_fgQueue) \notin Elements(m_fgQueue') \cup Elements(m_bgQueue')
         /\ \A t \in Elements(m_fgQueue') : stamp[Head(m_fgQueue)] < stamp[t]
         /\ m_bgQueue' = m_bgQueue
         /\ Len(m_fgQueue) \in Nat \ {0} /\ Len(m_fgQueue') = Len(m_fgQueue) - 1
<1>1. m_fgQueue \in Seq(Tasks) /\ m_fgQueue # <<>> /\ m_fgQueue' = Tail(m_fgQueue)
  BY DEF FgTake, TypeOK
<1>2. /\ \A t \in Elements(Tail(m_fgQueue)) : stamp[Head(m_fgQueue)] < stamp[t]
      /\ Head(m_fgQueue) \notin Elements(Tail(m_fgQueue))
  <2>1. /\ \A t \in Tasks : stamp[t] \in Nat
        /\ \A i, j \in 1 .. Len(m_fgQueue) : i < j => stamp[m_fgQueue[i]] < stamp[m_fgQueue[j]]
    BY DEF TypeOK, OrderInv
  <2>2. QED
    BY <1>1, <2>1, HeadIsOldest
<1>3. Head(m_fgQueue) \notin Elements(m_bgQueue)
  BY <1>1, ElementsTail DEF LocationInv, Fg, Bg
<1>4. cur'[w] = Head(m_fgQueue) /\ pc'[w] = "run" /\ m_bgQueue' = m_bgQueue
  BY DEF FgTake, Execute, TypeOK, Threads
<1>5. QED
  BY <1>1, <1>2, <1>3, <1>4, ElementsTail

LEMMA TakeBgHead ==
  ASSUME TypeOK, OrderInv, LocationInv, NEW w \in Workers, TakeBg(w)
  PROVE  /\ Head(m_bgQueue) \in Tasks /\ Head(m_bgQueue) \in Elements(m_bgQueue)
         /\ cur'[w] = Head(m_bgQueue) /\ pc'[w] = "run"
         /\ Elements(m_bgQueue) = {Head(m_bgQueue)} \cup Elements(m_bgQueue')
         /\ Head(m_bgQueue) \notin Elements(m_fgQueue') \cup Elements(m_bgQueue')
         /\ \A t \in Elements(m_bgQueue') : stamp[Head(m_bgQueue)] < stamp[t]
         /\ m_fgQueue' = m_fgQueue
         /\ Len(m_bgQueue) \in Nat \ {0} /\ Len(m_bgQueue') = Len(m_bgQueue) - 1
<1>1. m_bgQueue \in Seq(Tasks) /\ m_bgQueue # <<>> /\ m_bgQueue' = Tail(m_bgQueue)
  BY DEF TakeBg, TypeOK
<1>2. /\ \A t \in Elements(Tail(m_bgQueue)) : stamp[Head(m_bgQueue)] < stamp[t]
      /\ Head(m_bgQueue) \notin Elements(Tail(m_bgQueue))
  <2>1. /\ \A t \in Tasks : stamp[t] \in Nat
        /\ \A i, j \in 1 .. Len(m_bgQueue) : i < j => stamp[m_bgQueue[i]] < stamp[m_bgQueue[j]]
    BY DEF TypeOK, OrderInv
  <2>2. QED
    BY <1>1, <2>1, HeadIsOldest
<1>3. Head(m_bgQueue) \notin Elements(m_fgQueue)
  BY <1>1, ElementsTail DEF LocationInv, Fg, Bg
<1>4. cur'[w] = Head(m_bgQueue) /\ pc'[w] = "run" /\ m_fgQueue' = m_fgQueue
  BY DEF TakeBg, Execute, TypeOK, Threads
<1>5. QED
  BY <1>1, <1>2, <1>3, <1>4, ElementsTail

(* What a thread between push and the end of submit() may change.           *)
LEMMA SubmitEffect ==
  ASSUME TypeOK, NEW th \in Threads, SubmitStep(th)
  PROVE  /\ \A x \in Threads \ {th} :
              pc'[x] = pc[x] \/ (x \in Workers /\ pc[x] = "cvwait" /\ pc'[x] = "check")
         /\ Submitting(th) /\ pc'[th] \in {"notifyBg", "notifyFg", "run"}
         /\ \A x \in Workers : (pc'[x] = "sub") <=> (pc[x] = "sub")
         /\ UNCHANGED <<m_fgQueue, m_bgQueue, m_shutdown, cur, lane, captured, ready,
                        stamp, pushes, cut>>
<1>1. CASE PendingAdd(th)
  BY <1>1 DEF PendingAdd, queues, futures, history, Submitting, TypeOK, Threads
<1>2. CASE NotifyBg(th)
  <2>1. PICK W \in SUBSET BgWaiting : Wake(th, "notifyFg", W)
    BY <1>2 DEF NotifyBg, NotifyOne
  <2>2. QED
    BY <1>2, <2>1 DEF Wake, BgWaiting, NotifyBg, queues, futures, history, Submitting,
       Threads, Workers
<1>3. CASE NotifyFg(th)
  <2>1. PICK W \in SUBSET FgWaiting : Wake(th, "run", W)
    BY <1>3 DEF NotifyFg, NotifyOne
  <2>2. QED
    BY <1>3, <2>1 DEF Wake, FgWaiting, NotifyFg, queues, futures, history, Submitting,
       Threads, Workers
<1>4. QED
  BY <1>1, <1>2, <1>3 DEF SubmitStep

(* What shutdown() may change, besides setting its flag.                    *)
LEMMA ShutdownEffect ==
  ASSUME TypeOK, Shutdown \/ ShutdownStep
  PROVE  /\ \A x \in Threads \ {Main} :
              pc'[x] = pc[x] \/ (x \in Workers /\ pc[x] = "cvwait" /\ pc'[x] = "check")
         /\ pc'[Main] \in {"wakeFg", "wakeBg", "joinFg", "joinBg", "run"}
         /\ ~Submitting(Main) /\ pc[Main] # "blocked"
         /\ Main \in Threads /\ Main \notin Workers
         /\ UNCHANGED <<m_fgQueue, m_bgQueue, cur, arg, lane, captured, holds, ready,
                        stamp, pushes>>
         /\ m_shutdown => m_shutdown' /\ cut' = cut
<1> USE PoolAssumption
<1>1. CASE Shutdown
  BY <1>1 DEF Shutdown, queues, futures, history, Submitting, TypeOK, Threads, Workers
<1>2. CASE ShutdownWake
  <2>1. PICK W \in SUBSET (FgWaiting \cup BgWaiting), next \in {"wakeBg", "joinFg"} :
          Wake(Main, next, W)
    BY <1>2 DEF ShutdownWake, NotifyAll
  <2>2. pc[Main] \in {"wakeFg", "wakeBg"}
    BY <1>2 DEF ShutdownWake
  <2>3. QED
    BY <1>2, <2>1, <2>2 DEF Wake, FgWaiting, BgWaiting, ShutdownWake, queues, futures, history,
       Submitting, Threads, Workers
<1>3. CASE ShutdownJoin
  <2>1. pc[Main] \in {"joinFg", "joinBg"}
    BY <1>3 DEF ShutdownJoin
  <2>2. PICK next \in {"joinBg", "run"} : pc' = [pc EXCEPT ![Main] = next]
    BY <1>3 DEF ShutdownJoin
  <2>3. QED
    BY <1>3, <2>1, <2>2 DEF ShutdownJoin, queues, futures, history, Submitting, TypeOK,
       Threads, Workers
<1>4. QED
  BY <1>1, <1>2, <1>3 DEF ShutdownStep

-----------------------------------------------------------------------------
LEMMA LocationNext == TypeOK /\ OrderInv /\ LocationInv /\ [Next]_vars => LocationInv'
<1> SUFFICES ASSUME TypeOK, OrderInv, LocationInv, [Next]_vars PROVE LocationInv'
  OBVIOUS
<1> USE PoolAssumption
<1>1. ASSUME NEW th \in Threads, NEW t \in Tasks, NEW l \in Lanes, Push(th, t, l)
      PROVE  LocationInv'
  <2>1. /\ stamp' = [stamp EXCEPT ![t] = pushes + 1] /\ stamp[t] = 0 /\ pushes \in Nat
        /\ lane' = [lane EXCEPT ![t] = l] /\ UNCHANGED <<cur, ready>>
        /\ pc' = [pc EXCEPT ![th] = "add"] /\ pc[th] = "run"
    BY <1>1 DEF Push, TypeOK
  <2>2. t \notin Queued /\ t \notin ready /\ \A w \in Workers : cur[w] # t
    BY <2>1 DEF LocationInv, Pushed, TypeOK
  <2>3. \/ /\ l = Fg /\ Elements(m_fgQueue') = Elements(m_fgQueue) \cup {t}
           /\ m_bgQueue' = m_bgQueue
        \/ /\ l = Bg /\ Elements(m_bgQueue') = Elements(m_bgQueue) \cup {t}
           /\ m_fgQueue' = m_fgQueue
    <3>1. m_fgQueue \in Seq(Tasks) /\ m_bgQueue \in Seq(Tasks)
      BY DEF TypeOK
    <3>2. CASE l = Fg
      BY <1>1, <3>1, <3>2, ElementsAppend DEF Push
    <3>3. CASE l = Bg
      <4>1. m_bgQueue' = Append(m_bgQueue, t) /\ m_fgQueue' = m_fgQueue
        BY <1>1, <3>3 DEF Push, Fg, Bg
      <4>2. QED
        BY <3>1, <3>3, <4>1, ElementsAppend
    <3>4. QED
      BY <3>2, <3>3 DEF Lanes
  <2>4. \A u \in Tasks : u # t => lane'[u] = lane[u] /\ (Pushed(u)' <=> Pushed(u))
    BY <2>1 DEF Pushed, TypeOK
  <2>5. lane'[t] = l /\ Pushed(t)'
    BY <2>1 DEF Pushed, TypeOK
  <2>6. Elements(m_fgQueue) \cup Elements(m_bgQueue) \cup ready \subseteq Tasks
    BY ElementsType DEF TypeOK
  <2>7. \A w \in Workers : cur[w] # None => cur[w] \in Tasks /\ cur[w] # t
    BY <2>2 DEF TypeOK
  <2>8. \A w \in Workers : (pc'[w] = "sub") <=> (pc[w] = "sub")
    BY <2>1 DEF TypeOK, Threads
  <2>9. QED
    BY <2>1, <2>2, <2>3, <2>4, <2>5, <2>6, <2>7, <2>8 DEF LocationInv, Queued
<1>2. ASSUME UNCHANGED <<m_fgQueue, m_bgQueue, cur, lane, ready, stamp>>,
             \A w \in Workers : (pc'[w] = "sub") <=> (pc[w] = "sub")
      PROVE  LocationInv'
  BY <1>2 DEF LocationInv, Queued, Pushed
<1>3. ASSUME NEW w \in Workers, FgTake(w) \/ TakeBg(w), pc[w] = "check",
             UNCHANGED <<m_shutdown, m_pending, arg, lane, futures, history>>
      PROVE  LocationInv'
  <2>1. PICK h \in Tasks :
          /\ h \in Queued /\ Queued = Queued' \cup {h} /\ h \notin Queued'
          /\ Elements(m_fgQueue') \subseteq Elements(m_fgQueue)
          /\ Elements(m_bgQueue') \subseteq Elements(m_bgQueue)
          /\ cur' = [cur EXCEPT ![w] = h] /\ pc' = [pc EXCEPT ![w] = "run"]
    BY <1>3, TakeFg, TakeBgHead DEF Queued, FgTake, TakeBg, Execute
  <2>2. UNCHANGED <<lane, ready, stamp>>
    BY <1>3 DEF futures, history
  <2>3. cur[w] = None
    BY <1>3 DEF TypeOK
  <2>4. h \notin ready /\ Pushed(h) /\ \A v \in Workers : cur[v] # h
    BY <2>1 DEF LocationInv
  <2>5. /\ cur'[w] = h /\ pc'[w] = "run"
        /\ \A v \in Workers : v # w => cur'[v] = cur[v] /\ pc'[v] = pc[v]
    BY <2>1 DEF TypeOK, Threads
  <2>6. \A t \in Tasks : Pushed(t)' <=> Pushed(t)
    BY <2>2 DEF Pushed
  <2>7. /\ \A v \in Workers : cur[v] # None => cur[v] \in Tasks
        /\ Queued \cup ready \subseteq Tasks
    BY ElementsType DEF TypeOK, Queued
  <2>8. QED
    BY <2>1, <2>2, <2>3, <2>4, <2>5, <2>6, <2>7 DEF LocationInv
<1>4. ASSUME NEW w \in Workers, Finish(w) PROVE LocationInv'
  <2>1. /\ cur[w] \in Tasks /\ pc[w] = "run" /\ ready' = ready \cup {cur[w]}
        /\ \A v \in Workers : pc'[v] = IF v = w THEN "sub" ELSE pc[v]
        /\ UNCHANGED <<m_fgQueue, m_bgQueue, cur, lane, stamp>>
    BY <1>4 DEF Finish, TypeOK, Threads, queues, history
  <2>2. QED
    BY <2>1 DEF LocationInv, Queued, Pushed
<1>5. ASSUME NEW w \in Workers, PendingSub(w) PROVE LocationInv'
  <2>1. /\ cur[w] \in Tasks /\ pc[w] = "sub"
        /\ \A v \in Workers : /\ pc'[v] = IF v = w THEN "check" ELSE pc[v]
                              /\ cur'[v] = IF v = w THEN None ELSE cur[v]
        /\ UNCHANGED <<m_fgQueue, m_bgQueue, ready, lane, stamp>>
    BY <1>5 DEF PendingSub, TypeOK, Threads, queues, futures, history
  <2>2. Queued \subseteq Tasks
    BY ElementsType DEF TypeOK, Queued
  <2>3. QED
    BY <2>1, <2>2 DEF LocationInv, Queued, Pushed
<1>6. ASSUME NEW th \in Threads, SubmitStep(th) PROVE LocationInv'
  BY <1>2, <1>6, SubmitEffect DEF Threads
<1>7. ASSUME NEW th \in Threads, Await(th) \/ Resume(th) PROVE LocationInv'
  BY <1>2, <1>7 DEF Await, Block, Resume, queues, futures, history, TypeOK, Threads
<1>8. ASSUME NEW w \in Workers, Leave(w, IF m_shutdown THEN "exited" ELSE "cvwait"),
             pc[w] = "check",
             UNCHANGED <<m_shutdown, m_pending, arg, lane, futures, history>>
      PROVE  LocationInv'
  BY <1>2, <1>8 DEF Leave, queues, futures, history, TypeOK, Threads
<1>9. ASSUME NEW w \in FgWorkers, FgCheck(w) PROVE LocationInv'
  BY <1>3, <1>8, <1>9 DEF FgCheck, Workers
<1>10. ASSUME NEW w \in BgWorkers, BgCheck(w) PROVE LocationInv'
  BY <1>3, <1>8, <1>10 DEF BgCheck, Workers
<1>11. ASSUME NEW w \in Workers, SpuriousWake(w) PROVE LocationInv'
  BY <1>2, <1>11 DEF SpuriousWake, queues, futures, history, TypeOK, Threads
<1>12. ASSUME Shutdown \/ ShutdownStep PROVE LocationInv'
  <2>1. /\ \A w \in Workers : (pc'[w] = "sub") <=> (pc[w] = "sub")
        /\ UNCHANGED <<m_fgQueue, m_bgQueue, cur, lane, ready, stamp>>
    BY <1>12, ShutdownEffect DEF Threads
  <2>2. QED
    BY <1>2, <2>1
<1>13. ASSUME UNCHANGED vars PROVE LocationInv'
  BY <1>2, <1>13 DEF vars
<1>14. QED
  BY <1>1, <1>4, <1>5, <1>6, <1>7, <1>9, <1>10, <1>11, <1>12, <1>13
     DEF Next, WorkerStep

LEMMA OrderNext ==
  TypeOK /\ StampInv /\ LocationInv /\ OrderInv /\ [Next]_vars => OrderInv'
<1> SUFFICES ASSUME TypeOK, StampInv, LocationInv, OrderInv, [Next]_vars PROVE OrderInv'
  OBVIOUS
<1> USE PoolAssumption
<1>0. /\ m_fgQueue \in Seq(Tasks) /\ m_bgQueue \in Seq(Tasks)
      /\ Elements(m_fgQueue) \subseteq Tasks /\ Elements(m_bgQueue) \subseteq Tasks
      /\ \A w \in Workers : cur[w] # None => cur[w] \in Tasks
      /\ \A t \in Tasks : stamp[t] \in Nat
  BY ElementsType DEF TypeOK
<1>1. ASSUME NEW q \in Seq(Tasks), NEW t \in Tasks, NEW W \in SUBSET Workers,
             \A i, j \in 1 .. Len(q) : i < j => stamp[q[i]] < stamp[q[j]],
             \A w \in W : cur[w] # None => \A u \in Elements(q) : stamp[cur[w]] < stamp[u],
             stamp[t] = 0, \A u \in Elements(q) : u # t, \A w \in W : cur[w] # t,
             stamp' = [stamp EXCEPT ![t] = pushes + 1], cur' = cur
      PROVE  /\ \A i, j \in 1 .. Len(Append(q, t)) :
                  i < j => stamp'[Append(q, t)[i]] < stamp'[Append(q, t)[j]]
             /\ \A i, j \in 1 .. Len(q) : i < j => stamp'[q[i]] < stamp'[q[j]]
             /\ \A w \in W : cur'[w] # None =>
                  /\ \A u \in Elements(Append(q, t)) : stamp'[cur'[w]] < stamp'[u]
                  /\ \A u \in Elements(q) : stamp'[cur'[w]] < stamp'[u]
  <2>1. /\ \A u \in Tasks : u # t => stamp'[u] = stamp[u] /\ stamp[u] < pushes + 1
        /\ stamp'[t] = pushes + 1 /\ pushes \in Nat
    BY <1>1 DEF TypeOK, StampInv
  <2>2. /\ Len(q) \in Nat /\ Len(Append(q, t)) = Len(q) + 1
        /\ \A i \in 1 .. Len(q) : Append(q, t)[i] = q[i] /\ q[i] \in Tasks /\ q[i] # t
        /\ Append(q, t)[Len(q) + 1] = t
        /\ Elements(Append(q, t)) = Elements(q) \cup {t} /\ Elements(q) \subseteq Tasks
    BY <1>1, ElementsAppend, ElementsType, ElementOfSeq DEF Elements
  <2>3. \A i, j \in 1 .. Len(q) : i < j => stamp'[q[i]] < stamp'[q[j]]
    BY <1>1, <2>1, <2>2
  <2>4. ASSUME NEW i \in 1 .. Len(Append(q, t)), NEW j \in 1 .. Len(Append(q, t)), i < j
        PROVE  stamp'[Append(q, t)[i]] < stamp'[Append(q, t)[j]]
    <3>1. i \in 1 .. Len(q) /\ (j \in 1 .. Len(q) \/ j = Len(q) + 1)
      BY <2>2, <2>4
    <3>2. QED
      BY <2>1, <2>2, <2>3, <2>4, <3>1
  <2>5. ASSUME NEW w \in W, cur'[w] # None, NEW u \in Elements(q) \cup {t}
        PROVE  stamp'[cur'[w]] < stamp'[u]
    BY <1>0, <1>1, <2>1, <2>2, <2>5
  <2>6. QED
    BY <2>2, <2>3, <2>4, <2>5
<1>2. ASSUME NEW th \in Threads, NEW t \in Tasks, NEW l \in Lanes, Push(th, t, l)
      PROVE  OrderInv'
  <2>1. /\ stamp' = [stamp EXCEPT ![t] = pushes + 1] /\ stamp[t] = 0 /\ cur' = cur
        /\ m_fgQueue' \in {m_fgQueue, Append(m_fgQueue, t)}
        /\ m_bgQueue' \in {m_bgQueue, Append(m_bgQueue, t)}
    BY <1>2 DEF Push
  <2>2. /\ \A u \in Elements(m_fgQueue) \cup Elements(m_bgQueue) : u # t
        /\ \A w \in Workers : cur[w] # t
    BY <2>1 DEF LocationInv, Pushed, Queued, TypeOK
  <2>3. /\ \A i, j \in 1 .. Len(m_fgQueue') : i < j => stamp'[m_fgQueue'[i]] < stamp'[m_fgQueue'[j]]
        /\ \A w \in FgWorkers : cur'[w] # None =>
             \A u \in Elements(m_fgQueue') : stamp'[cur'[w]] < stamp'[u]
    <3>1. /\ \A i, j \in 1 .. Len(m_fgQueue) : i < j => stamp[m_fgQueue[i]] < stamp[m_fgQueue[j]]
          /\ \A w \in FgWorkers : cur[w] # None =>
               \A u \in Elements(m_fgQueue) : stamp[cur[w]] < stamp[u]
          /\ FgWorkers \in SUBSET Workers
      BY DEF OrderInv, Workers
    <3>2. /\ \A i, j \in 1 .. Len(Append(m_fgQueue, t)) :
               i < j => stamp'[Append(m_fgQueue, t)[i]] < stamp'[Append(m_fgQueue, t)[j]]
          /\ \A i, j \in 1 .. Len(m_fgQueue) : i < j => stamp'[m_fgQueue[i]] < stamp'[m_fgQueue[j]]
          /\ \A w \in FgWorkers : cur'[w] # None =>
               /\ \A u \in Elements(Append(m_fgQueue, t)) : stamp'[cur'[w]] < stamp'[u]
               /\ \A u \in Elements(m_fgQueue) : stamp'[cur'[w]] < stamp'[u]
      <4>1. /\ m_fgQueue \in Seq(Tasks) /\ \A u \in Elements(m_fgQueue) : u # t
            /\ \A w \in FgWorkers : cur[w] # t
        BY <1>0, <2>2, <3>1
      <4>2. QED
        BY <1>1, <2>1, <3>1, <4>1
    <3>3. CASE m_fgQueue' = m_fgQueue
      BY <3>2, <3>3
    <3>4. CASE m_fgQueue' = Append(m_fgQueue, t)
      BY <3>2, <3>4
    <3>5. QED
      BY <2>1, <3>3, <3>4
  <2>4. /\ \A i, j \in 1 .. Len(m_bgQueue') : i < j => stamp'[m_bgQueue'[i]] < stamp'[m_bgQueue'[j]]
        /\ \A w \in BgWorkers : cur'[w] # None =>
             \A u \in Elements(m_bgQueue') : stamp'[cur'[w]] < stamp'[u]
    <3>1. /\ \A i, j \in 1 .. Len(m_bgQueue) : i < j => stamp[m_bgQueue[i]] < stamp[m_bgQueue[j]]
          /\ \A w \in BgWorkers : cur[w] # None =>
               \A u \in Elements(m_bgQueue) : stamp[cur[w]] < stamp[u]
          /\ BgWorkers \in SUBSET Workers
      BY DEF OrderInv, Workers
    <3>2. /\ \A i, j \in 1 .. Len(Append(m_bgQueue, t)) :
               i < j => stamp'[Append(m_bgQueue, t)[i]] < stamp'[Append(m_bgQueue, t)[j]]
          /\ \A i, j \in 1 .. Len(m_bgQueue) : i < j => stamp'[m_bgQueue[i]] < stamp'[m_bgQueue[j]]
          /\ \A w \in BgWorkers : cur'[w] # None =>
               /\ \A u \in Elements(Append(m_bgQueue, t)) : stamp'[cur'[w]] < stamp'[u]
               /\ \A u \in Elements(m_bgQueue) : stamp'[cur'[w]] < stamp'[u]
      <4>1. /\ m_bgQueue \in Seq(Tasks) /\ \A u \in Elements(m_bgQueue) : u # t
            /\ \A w \in BgWorkers : cur[w] # t
        BY <1>0, <2>2, <3>1
      <4>2. QED
        BY <1>1, <2>1, <3>1, <4>1
    <3>3. CASE m_bgQueue' = m_bgQueue
      BY <3>2, <3>3
    <3>4. CASE m_bgQueue' = Append(m_bgQueue, t)
      BY <3>2, <3>4
    <3>5. QED
      BY <2>1, <3>3, <3>4
  <2>5. QED
    BY <2>3, <2>4 DEF OrderInv
<1>3. ASSUME UNCHANGED <<m_fgQueue, m_bgQueue, stamp>>,
             \A w \in Workers : cur'[w] \in {cur[w], None}
      PROVE  OrderInv'
  BY <1>3 DEF OrderInv, Workers
<1>4. ASSUME NEW w \in FgWorkers, FgTake(w), UNCHANGED history
      PROVE  OrderInv'
  <2>1. w \in Workers /\ w \notin BgWorkers
    BY DEF Workers
  <2>2. /\ m_fgQueue' = Tail(m_fgQueue) /\ m_fgQueue # <<>> /\ stamp' = stamp
        /\ cur' = [cur EXCEPT ![w] = Head(m_fgQueue)]
    BY <1>4 DEF FgTake, Execute, history
  <2>3. \A i, j \in 1 .. Len(m_fgQueue') : i < j => stamp[m_fgQueue'[i]] < stamp[m_fgQueue'[j]]
    <3>1. \A i, j \in 1 .. Len(m_fgQueue) : i < j => stamp[m_fgQueue[i]] < stamp[m_fgQueue[j]]
      BY DEF OrderInv
    <3>2. QED
      BY <1>0, <2>2, <3>1, HeadIsOldest
  <2>4. QED
    BY <1>4, <2>1, <2>2, <2>3, TakeFg DEF OrderInv, TypeOK
<1>5. ASSUME NEW w \in Workers, TakeBg(w), w \in FgWorkers => m_fgQueue = <<>>,
             UNCHANGED history
      PROVE  OrderInv'
  <2>1. /\ m_bgQueue' = Tail(m_bgQueue) /\ m_bgQueue # <<>> /\ stamp' = stamp
        /\ cur' = [cur EXCEPT ![w] = Head(m_bgQueue)]
    BY <1>5 DEF TakeBg, Execute, history
  <2>2. \A i, j \in 1 .. Len(m_bgQueue') : i < j => stamp[m_bgQueue'[i]] < stamp[m_bgQueue'[j]]
    <3>1. \A i, j \in 1 .. Len(m_bgQueue) : i < j => stamp[m_bgQueue[i]] < stamp[m_bgQueue[j]]
      BY DEF OrderInv
    <3>2. QED
      BY <1>0, <2>1, <3>1, HeadIsOldest
  <2>3. w \in FgWorkers => Elements(m_fgQueue) = {}
    BY <1>0, <1>5, ElementsType
  <2>4. QED
    BY <1>5, <2>1, <2>2, <2>3, TakeBgHead DEF OrderInv, TypeOK, Workers
<1>6. ASSUME NEW w \in FgWorkers, FgCheck(w) PROVE OrderInv'
  <2>1. UNCHANGED history /\ w \in Workers
    BY <1>6 DEF FgCheck, Workers
  <2>2. CASE Leave(w, IF m_shutdown THEN "exited" ELSE "cvwait")
    BY <1>3, <2>1, <2>2 DEF Leave, queues, history
  <2>3. QED
    BY <1>4, <1>5, <1>6, <2>1, <2>2 DEF FgCheck
<1>7. ASSUME NEW w \in BgWorkers, BgCheck(w) PROVE OrderInv'
  <2>1. UNCHANGED history /\ w \in Workers /\ w \notin FgWorkers
    BY <1>7 DEF BgCheck, Workers
  <2>2. CASE Leave(w, IF m_shutdown THEN "exited" ELSE "cvwait")
    BY <1>3, <2>1, <2>2 DEF Leave, queues, history
  <2>3. QED
    BY <1>5, <1>7, <2>1, <2>2 DEF BgCheck
<1>8. ASSUME NEW w \in Workers, Finish(w) \/ PendingSub(w) \/ SpuriousWake(w) PROVE OrderInv'
  BY <1>3, <1>8 DEF Finish, PendingSub, SpuriousWake, queues, history, TypeOK
<1>9. ASSUME NEW th \in Threads, SubmitStep(th) PROVE OrderInv'
  BY <1>3, <1>9, SubmitEffect
<1>10. ASSUME NEW th \in Threads, Await(th) \/ Resume(th) PROVE OrderInv'
  BY <1>3, <1>10 DEF Await, Block, Resume, queues, history
<1>11. ASSUME Shutdown \/ ShutdownStep PROVE OrderInv'
  BY <1>3, <1>11, ShutdownEffect
<1>12. ASSUME UNCHANGED vars PROVE OrderInv'
  BY <1>3, <1>12 DEF vars
<1>13. QED
  BY <1>2, <1>6, <1>7, <1>8, <1>9, <1>10, <1>11, <1>12 DEF Next, WorkerStep

LEMMA FutureNext ==
  TypeOK /\ StampInv /\ LocationInv /\ OrderInv /\ FutureInv /\ [Next]_vars => FutureInv'
<1> SUFFICES ASSUME TypeOK, StampInv, LocationInv, OrderInv, FutureInv, [Next]_vars
             PROVE  FutureInv'
  OBVIOUS
<1> USE PoolAssumption
<1>1. ASSUME NEW th \in Threads, NEW t \in Tasks, NEW l \in Lanes, Push(th, t, l)
      PROVE  FutureInv'
  <2>1. /\ stamp' = [stamp EXCEPT ![t] = pushes + 1] /\ stamp[t] = 0 /\ pushes \in Nat
        /\ cur' = cur /\ arg' = [arg EXCEPT ![th] = t] /\ pc[th] = "run"
        /\ pc' = [pc EXCEPT ![th] = "add"]
    BY <1>1 DEF Push, TypeOK
  <2>2. PICK deps \in SUBSET holds[Actor(th)] :
          /\ captured' = [captured EXCEPT ![t] = deps]
          /\ holds' = [holds EXCEPT ![Actor(th)] = @ \ deps]
    BY <1>1 DEF Push
  <2>3. /\ Pushed(t)' /\ ~Pushed(t)
        /\ \A u \in Tasks : Pushed(u) => /\ Pushed(u)' /\ u # t
                                         /\ stamp'[u] = stamp[u] /\ stamp[u] < stamp'[t]
    BY <2>1 DEF Pushed, TypeOK, StampInv
  <2>4. Actor(th) \in Clients \cup Tasks
    BY <2>1, ActorType
  <2>5. ASSUME NEW u \in Tasks, NEW f \in captured'[u]
        PROVE  Pushed(f)' /\ stamp'[f] < stamp'[u]
    <3>1. CASE u = t
      BY <2>2, <2>3, <2>4, <2>5, <3>1 DEF FutureInv, TypeOK
    <3>2. CASE u # t
      BY <2>1, <2>2, <2>3, <2>5, <3>2 DEF FutureInv, TypeOK
    <3>3. QED
      BY <3>1, <3>2
  <2>6. \A a \in Clients \cup Tasks : \A f \in holds'[a] : Pushed(f)'
    BY <2>2, <2>3, <2>4 DEF FutureInv, TypeOK
  <2>7. \A x \in Threads : Submitting(x)' => Pushed(arg[x])'
    BY <2>1, <2>3 DEF FutureInv, TypeOK, Submitting
  <2>8. ASSUME NEW w \in Workers, pc'[w] = "blocked" PROVE arg'[w] \in captured'[cur'[w]]
    <3>1. w # th /\ pc[w] = "blocked" /\ arg'[w] = arg[w] /\ cur[w] \in Tasks
      BY <2>1, <2>8 DEF TypeOK, Threads
    <3>2. cur[w] # t
      BY <2>3, <3>1 DEF LocationInv, TypeOK
    <3>3. QED
      BY <2>1, <2>2, <3>1, <3>2 DEF FutureInv, TypeOK
  <2>9. QED
    BY <2>5, <2>6, <2>7, <2>8 DEF FutureInv
<1>2. ASSUME UNCHANGED <<captured, holds, stamp>>,
             \A x \in Threads : Submitting(x)' => Submitting(x) /\ arg'[x] = arg[x],
             \A w \in Workers : pc'[w] = "blocked" =>
               pc[w] = "blocked" /\ cur'[w] = cur[w] /\ arg'[w] = arg[w]
      PROVE  FutureInv'
  BY <1>2 DEF FutureInv, Pushed
<1>3. ASSUME NEW th \in Threads, PendingAdd(th) \/ NotifyBg(th) PROVE FutureInv'
  <2>1. /\ UNCHANGED <<captured, holds, stamp, arg, cur>> /\ Submitting(th)
        /\ \A x \in Threads \ {th} :
             pc'[x] = pc[x] \/ (x \in Workers /\ pc[x] = "cvwait" /\ pc'[x] = "check")
        /\ pc'[th] \in {"notifyBg", "notifyFg", "run"}
    BY <1>3, SubmitEffect DEF SubmitStep, PendingAdd, NotifyBg, futures, history
  <2>2. QED
    BY <1>2, <2>1 DEF Submitting, Threads
<1>4. ASSUME NEW th \in Threads, NotifyFg(th) PROVE FutureInv'
  <2>1. /\ UNCHANGED <<captured, stamp, cur>> /\ Submitting(th)
        /\ \A x \in Threads \ {th} :
             pc'[x] = pc[x] \/ (x \in Workers /\ pc[x] = "cvwait" /\ pc'[x] = "check")
        /\ arg' = [arg EXCEPT ![th] = None]
        /\ holds' = [holds EXCEPT ![Actor(th)] = @ \cup {arg[th]}]
    BY <1>4, SubmitEffect DEF SubmitStep, NotifyFg, futures, history
  <2>2. pc'[th] = "run"
    BY <1>4 DEF NotifyFg, NotifyOne, Wake
  <2>3. \A a \in Clients \cup Tasks : \A f \in holds'[a] : Pushed(f)'
    <3>1. Pushed(arg[th])
      BY <2>1 DEF FutureInv
    <3>2. QED
      BY <2>1, <3>1 DEF FutureInv, TypeOK, Pushed
  <2>4. /\ \A x \in Threads : Submitting(x)' => Submitting(x) /\ arg'[x] = arg[x]
        /\ \A w \in Workers : pc'[w] = "blocked" => pc[w] = "blocked" /\ arg'[w] = arg[w]
    BY <2>1, <2>2 DEF Submitting, Threads, TypeOK
  <2>5. QED
    BY <2>1, <2>3, <2>4 DEF FutureInv, Pushed
<1>5. ASSUME NEW th \in Threads, Await(th) PROVE FutureInv'
  <2>1. PICK f \in Awaitable(th) : Block(th, f)
    BY <1>5 DEF Await
  <2>2. /\ UNCHANGED <<captured, holds, stamp, cur>>
        /\ pc' = [pc EXCEPT ![th] = "blocked"] /\ arg' = [arg EXCEPT ![th] = f]
    BY <2>1 DEF Block, futures, history
  <2>3. th \in Workers => arg'[th] \in captured[cur[th]]
    BY <2>1, <2>2 DEF Awaitable, Threads, Workers, TypeOK
  <2>4. /\ \A x \in Threads : Submitting(x)' => Submitting(x) /\ arg'[x] = arg[x]
        /\ \A w \in Workers : pc'[w] = "blocked" =>
             w = th \/ (pc[w] = "blocked" /\ arg'[w] = arg[w])
    BY <2>2 DEF Submitting, Threads, TypeOK
  <2>5. QED
    BY <2>2, <2>3, <2>4 DEF FutureInv, Pushed
<1>6. ASSUME NEW th \in Threads, Resume(th) PROVE FutureInv'
  <2>1. /\ UNCHANGED <<stamp, cur>> /\ pc[th] = "blocked"
        /\ pc' = [pc EXCEPT ![th] = "run"] /\ arg' = [arg EXCEPT ![th] = None]
        /\ holds' = [holds EXCEPT ![Actor(th)] = @ \ {arg[th]}]
        /\ captured' = IF th \in Clients THEN captured
                       ELSE [captured EXCEPT ![cur[th]] = @ \ {arg[th]}]
    BY <1>6 DEF Resume, history
  <2>2. /\ \A a \in Clients \cup Tasks : holds'[a] \subseteq holds[a]
        /\ \A t \in Tasks : captured'[t] \subseteq captured[t]
    BY <2>1 DEF TypeOK
  <2>3. /\ \A x \in Threads : Submitting(x)' => Submitting(x) /\ arg'[x] = arg[x]
        /\ \A w \in Workers : pc'[w] = "blocked" => w # th /\ pc[w] = "blocked" /\ arg'[w] = arg[w]
    BY <2>1 DEF Submitting, Threads, TypeOK
  <2>4. ASSUME NEW w \in Workers, pc'[w] = "blocked"
        PROVE  captured'[cur[w]] = captured[cur[w]]
    <3>1. CASE th \in Clients
      BY <2>1, <3>1
    <3>2. CASE th \notin Clients
      <4>1. th \in Workers /\ w # th /\ pc[w] = "blocked"
        BY <2>3, <2>4, <3>2 DEF Threads
      <4>2. cur[w] # None /\ cur[w] \in Tasks /\ cur[th] # None
        BY <2>1, <4>1 DEF TypeOK
      <4>3. cur[w] # cur[th]
        BY <4>1, <4>2 DEF LocationInv
      <4>4. QED
        BY <2>1, <3>2, <4>2, <4>3 DEF TypeOK
    <3>3. QED
      BY <3>1, <3>2
  <2>5. QED
    BY <2>1, <2>2, <2>3, <2>4 DEF FutureInv, Pushed
<1>7. ASSUME NEW w \in Workers, pc[w] = "check",
             FgTake(w) \/ TakeBg(w) \/ Leave(w, IF m_shutdown THEN "exited" ELSE "cvwait"),
             UNCHANGED <<m_shutdown, m_pending, arg, lane, futures, history>>
      PROVE  FutureInv'
  <2>1. /\ UNCHANGED <<captured, holds, stamp, arg>>
        /\ \A x \in Threads \ {w} : pc'[x] = pc[x]
        /\ \A x \in Workers \ {w} : cur'[x] = cur[x]
        /\ pc'[w] \in {"run", "exited", "cvwait"}
    BY <1>7 DEF FgTake, TakeBg, Leave, Execute, futures, history, TypeOK, Threads
  <2>2. QED
    BY <1>2, <2>1 DEF Submitting, Threads
<1>8. ASSUME NEW w \in FgWorkers, FgCheck(w) PROVE FutureInv'
  BY <1>7, <1>8 DEF FgCheck, Workers
<1>9. ASSUME NEW w \in BgWorkers, BgCheck(w) PROVE FutureInv'
  BY <1>7, <1>9 DEF BgCheck, Workers
<1>10. ASSUME NEW w \in Workers, Finish(w) \/ PendingSub(w) \/ SpuriousWake(w)
       PROVE  FutureInv'
  <2>1. /\ UNCHANGED <<captured, holds, stamp, arg>>
        /\ \A x \in Threads \ {w} : pc'[x] = pc[x]
        /\ \A x \in Workers \ {w} : cur'[x] = cur[x]
        /\ pc'[w] \in {"sub", "check"}
    BY <1>10 DEF Finish, PendingSub, SpuriousWake, futures, history, TypeOK, Threads
  <2>2. QED
    BY <1>2, <2>1 DEF Submitting, Threads
<1>11. ASSUME Shutdown \/ ShutdownStep PROVE FutureInv'
  BY <1>2, <1>11, ShutdownEffect DEF Submitting, Threads
<1>12. ASSUME UNCHANGED vars PROVE FutureInv'
  BY <1>2, <1>12 DEF vars, Submitting
<1>13. QED
  BY <1>1, <1>3, <1>4, <1>5, <1>6, <1>8, <1>9, <1>10, <1>11, <1>12
     DEF Next, WorkerStep, SubmitStep

LEMMA ExitNext ==
  TypeOK /\ StampInv /\ LocationInv /\ OrderInv /\ ExitInv /\ [Next]_vars => ExitInv'
<1> SUFFICES ASSUME TypeOK, StampInv, LocationInv, OrderInv, ExitInv, [Next]_vars
             PROVE  ExitInv'
  OBVIOUS
<1> USE PoolAssumption
<1>1. ASSUME NEW th \in Threads, NEW t \in Tasks, NEW l \in Lanes, Push(th, t, l)
      PROVE  ExitInv'
  <2>1. /\ stamp' = [stamp EXCEPT ![t] = pushes + 1] /\ UNCHANGED <<m_shutdown, cut>>
        /\ \A w \in Workers : pc'[w] = "exited" => pc[w] = "exited"
    BY <1>1 DEF Push, TypeOK, Threads
  <2>2. /\ Elements(m_fgQueue') \subseteq Elements(m_fgQueue) \cup {t}
        /\ Elements(m_bgQueue') \subseteq Elements(m_bgQueue) \cup {t}
        /\ Queued \subseteq Tasks
    <3>1. m_fgQueue \in Seq(Tasks) /\ m_bgQueue \in Seq(Tasks)
      BY DEF TypeOK
    <3>2. /\ m_fgQueue' \in {m_fgQueue, Append(m_fgQueue, t)}
          /\ m_bgQueue' \in {m_bgQueue, Append(m_bgQueue, t)}
      BY <1>1 DEF Push
    <3>3. /\ Elements(Append(m_fgQueue, t)) = Elements(m_fgQueue) \cup {t}
          /\ Elements(Append(m_bgQueue, t)) = Elements(m_bgQueue) \cup {t}
          /\ Elements(m_fgQueue) \subseteq Tasks /\ Elements(m_bgQueue) \subseteq Tasks
      BY <3>1, ElementsAppend, ElementsType
    <3>4. QED
      BY <3>2, <3>3 DEF Queued
  <2>3. \A u \in Tasks : m_shutdown /\ Early(u)' => Early(u)
    BY <2>1 DEF Early, Pushed, TypeOK, StampInv
  <2>4. m_shutdown => ~Early(t)'
    BY <2>1 DEF Early, Pushed, TypeOK, StampInv
  <2>5. ASSUME NEW w \in FgWorkers, pc'[w] = "exited"
        PROVE  m_shutdown' /\ \A u \in Queued' : ~Early(u)'
    <3>1. m_shutdown /\ \A u \in Queued : ~Early(u)
      BY <2>1, <2>5 DEF ExitInv, Workers
    <3>2. Queued' \subseteq Queued \cup {t}
      BY <2>2 DEF Queued
    <3>3. QED
      BY <2>1, <2>2, <2>3, <2>4, <3>1, <3>2
  <2>6. ASSUME NEW w \in BgWorkers, pc'[w] = "exited"
        PROVE  m_shutdown' /\ \A u \in Elements(m_bgQueue') : ~Early(u)'
    <3>1. m_shutdown /\ \A u \in Elements(m_bgQueue) : ~Early(u)
      BY <2>1, <2>6 DEF ExitInv, Workers
    <3>2. Elements(m_bgQueue) \subseteq Tasks
      BY <2>2 DEF Queued
    <3>3. QED
      BY <2>1, <2>2, <2>3, <2>4, <3>1, <3>2
  <2>7. QED
    BY <2>5, <2>6 DEF ExitInv
<1>2. ASSUME Elements(m_fgQueue') \subseteq Elements(m_fgQueue),
             Elements(m_bgQueue') \subseteq Elements(m_bgQueue),
             UNCHANGED <<stamp, cut, m_shutdown>>,
             \A w \in Workers : pc'[w] = "exited" => pc[w] = "exited"
      PROVE  ExitInv'
  BY <1>2 DEF ExitInv, Queued, Early, Pushed, Workers
<1>3. ASSUME NEW w \in Workers, pc[w] = "check", FgTake(w) \/ TakeBg(w),
             UNCHANGED <<m_shutdown, m_pending, arg, lane, futures, history>>
      PROVE  ExitInv'
  <2>1. /\ Elements(m_fgQueue') \subseteq Elements(m_fgQueue)
        /\ Elements(m_bgQueue') \subseteq Elements(m_bgQueue)
    BY <1>3, TakeFg, TakeBgHead
  <2>2. \A v \in Workers : pc'[v] = "exited" => pc[v] = "exited"
    BY <1>3 DEF FgTake, TakeBg, Execute, TypeOK, Threads
  <2>3. QED
    BY <1>2, <1>3, <2>1, <2>2 DEF history
<1>4. ASSUME NEW w \in Workers, pc[w] = "check", m_bgQueue = <<>>,
             w \in FgWorkers => m_fgQueue = <<>>,
             Leave(w, IF m_shutdown THEN "exited" ELSE "cvwait"),
             UNCHANGED <<m_shutdown, m_pending, arg, lane, futures, history>>
      PROVE  ExitInv'
  <2>1. /\ UNCHANGED <<m_fgQueue, m_bgQueue, stamp, cut, m_shutdown>>
        /\ \A v \in Workers : pc'[v] = "exited" => pc[v] = "exited" \/ (v = w /\ m_shutdown)
    BY <1>4 DEF Leave, queues, history, TypeOK, Threads
  <2>2. Elements(m_bgQueue) = {} /\ (w \in FgWorkers => Queued = {})
    <3>1. m_fgQueue \in Seq(Tasks) /\ m_bgQueue \in Seq(Tasks)
      BY DEF TypeOK
    <3>2. /\ Elements(m_bgQueue) = {}
          /\ w \in FgWorkers => Elements(m_fgQueue) = {}
      BY <1>4, <3>1, ElementsType
    <3>3. QED
      BY <3>2 DEF Queued
  <2>3. QED
    BY <2>1, <2>2 DEF ExitInv, Queued, Early, Pushed, Workers
<1>5. ASSUME NEW w \in FgWorkers, FgCheck(w) PROVE ExitInv'
  BY <1>3, <1>4, <1>5 DEF FgCheck, Workers
<1>6. ASSUME NEW w \in BgWorkers, BgCheck(w) PROVE ExitInv'
  BY <1>3, <1>4, <1>6 DEF BgCheck, Workers
<1>7. ASSUME NEW w \in Workers, Finish(w) \/ PendingSub(w) \/ SpuriousWake(w) PROVE ExitInv'
  BY <1>2, <1>7 DEF Finish, PendingSub, SpuriousWake, queues, history, TypeOK, Threads
<1>8. ASSUME NEW th \in Threads, SubmitStep(th) PROVE ExitInv'
  <2>1. /\ UNCHANGED <<m_fgQueue, m_bgQueue, stamp, cut, m_shutdown>>
        /\ \A w \in Workers : pc'[w] = "exited" => pc[w] = "exited"
    BY <1>8, SubmitEffect DEF Threads
  <2>2. QED
    BY <1>2, <2>1
<1>9. ASSUME NEW th \in Threads, Await(th) \/ Resume(th) PROVE ExitInv'
  BY <1>2, <1>9 DEF Await, Block, Resume, queues, history, TypeOK, Threads
<1>10. ASSUME Shutdown PROVE ExitInv'
  <2>1. /\ ~m_shutdown
        /\ \A w \in Workers : pc'[w] = "exited" => pc[w] = "exited"
    BY <1>10, ShutdownEffect DEF Shutdown, Threads
  <2>2. QED
    BY <2>1 DEF ExitInv, Workers
<1>11. ASSUME ShutdownStep PROVE ExitInv'
  <2>1. UNCHANGED <<m_shutdown, cut>>
    BY <1>11 DEF ShutdownStep, ShutdownWake, ShutdownJoin, history
  <2>2. /\ UNCHANGED <<m_fgQueue, m_bgQueue, stamp>>
        /\ \A w \in Workers : pc'[w] = "exited" => pc[w] = "exited"
    BY <1>11, ShutdownEffect DEF Threads
  <2>3. QED
    BY <1>2, <2>1, <2>2
<1>12. ASSUME UNCHANGED vars PROVE ExitInv'
  BY <1>2, <1>12 DEF vars
<1>13. QED
  BY <1>1, <1>5, <1>6, <1>7, <1>8, <1>9, <1>10, <1>11, <1>12 DEF Next, WorkerStep

-----------------------------------------------------------------------------
(* How the size of a set of threads follows a thread that joins or leaves.  *)
LEMMA CardinalityMoves ==
  ASSUME NEW A \in SUBSET Threads, NEW B \in SUBSET Threads
  PROVE  /\ Cardinality(A) \in Nat /\ Cardinality(B) \in Nat
         /\ A \subseteq B => Cardinality(A) <= Cardinality(B)
         /\ \A x : A \ {x} \subseteq B => Cardinality(A) - 1 <= Cardinality(B)
         /\ \A x : x \notin A /\ A \cup {x} \subseteq B => Cardinality(A) + 1 <= Cardinality(B)
         /\ \A x, y : y \notin A /\ (A \ {x}) \cup {y} \subseteq B =>
              Cardinality(A) <= Cardinality(B)
<1>1. IsFiniteSet(Threads)
  BY PoolAssumption, FS_Union DEF Threads, Workers
<1>2. /\ IsFiniteSet(A) /\ IsFiniteSet(B)
      /\ Cardinality(A) \in Nat /\ Cardinality(B) \in Nat
  BY <1>1, FS_Subset, FS_CardinalityType
<1>3. \A S \in SUBSET B : Cardinality(S) <= Cardinality(B)
  BY <1>2, FS_Subset
<1>4. ASSUME NEW x, A \ {x} \subseteq B PROVE Cardinality(A) - 1 <= Cardinality(B)
  <2>1. IsFiniteSet(A \ {x}) /\ Cardinality(A \ {x}) \in {Cardinality(A), Cardinality(A) - 1}
    BY <1>2, FS_RemoveElement
  <2>2. Cardinality(A \ {x}) <= Cardinality(B)
    BY <1>3, <1>4
  <2>3. QED
    BY <1>2, <2>1, <2>2
<1>5. ASSUME NEW x, x \notin A, A \cup {x} \subseteq B PROVE Cardinality(A) + 1 <= Cardinality(B)
  <2>1. Cardinality(A \cup {x}) = Cardinality(A) + 1
    BY <1>2, <1>5, FS_AddElement
  <2>2. Cardinality(A \cup {x}) <= Cardinality(B)
    BY <1>3, <1>5
  <2>3. QED
    BY <2>1, <2>2
<1>6. ASSUME NEW x, NEW y, y \notin A, (A \ {x}) \cup {y} \subseteq B
      PROVE  Cardinality(A) <= Cardinality(B)
  <2>1. IsFiniteSet(A \ {x}) /\ Cardinality(A \ {x}) \in {Cardinality(A), Cardinality(A) - 1}
    BY <1>2, FS_RemoveElement
  <2>2. Cardinality((A \ {x}) \cup {y}) = Cardinality(A \ {x}) + 1
    BY <1>6, <2>1, FS_AddElement
  <2>3. Cardinality((A \ {x}) \cup {y}) <= Cardinality(B)
    BY <1>3, <1>6
  <2>4. QED
    BY <1>2, <2>1, <2>2, <2>3
<1>7. QED
  BY <1>2, <1>3, <1>4, <1>5, <1>6

(* The same of the awake threads of each lane, whatever the step.           *)
LEMMA AwakeMoves ==
  ASSUME TypeOK, TypeOK', NoLostWakeup
  PROVE  /\ FgWaiting' \subseteq FgWaiting /\ FgAwake \subseteq FgAwake'
              /\ Len(m_fgQueue') <= Len(m_fgQueue) /\ Len(m_bgQueue') <= Len(m_bgQueue)
            => FgServed'
         /\ BgWaiting' \subseteq BgWaiting /\ BgAwake \subseteq BgAwake'
              /\ Len(m_bgQueue') <= Len(m_bgQueue)
            => BgServed'
         /\ \A x : FgWaiting' = FgWaiting /\ FgAwake \ {x} \subseteq FgAwake'
              /\ Len(m_fgQueue') + Len(m_bgQueue') <= Len(m_fgQueue) + Len(m_bgQueue) - 1
            => FgServed'
         /\ \A x : BgWaiting' = BgWaiting /\ BgAwake \ {x} \subseteq BgAwake'
              /\ Len(m_bgQueue') <= Len(m_bgQueue) - 1
            => BgServed'
         /\ \A x : FgWaiting' = FgWaiting /\ x \notin FgAwake /\ FgAwake \cup {x} \subseteq FgAwake'
              /\ Len(m_fgQueue') + Len(m_bgQueue') <= Len(m_fgQueue) + Len(m_bgQueue) + 1
            => FgServed'
         /\ \A x : BgWaiting' = BgWaiting /\ x \notin BgAwake /\ BgAwake \cup {x} \subseteq BgAwake'
              /\ Len(m_bgQueue') <= Len(m_bgQueue) + 1
            => BgServed'
         /\ \A x, y : FgWaiting' \subseteq FgWaiting /\ y \notin FgAwake
              /\ (FgAwake \ {x}) \cup {y} \subseteq FgAwake' /\ UNCHANGED queues
            => FgServed'
         /\ \A x, y : BgWaiting' \subseteq BgWaiting /\ y \notin BgAwake
              /\ (BgAwake \ {x}) \cup {y} \subseteq BgAwake' /\ UNCHANGED queues
            => BgServed'
<1>1. /\ FgAwake \in SUBSET Threads /\ FgAwake' \in SUBSET Threads
      /\ BgAwake \in SUBSET Threads /\ BgAwake' \in SUBSET Threads
  BY DEF FgAwake, BgAwake
<1>2. /\ Len(m_fgQueue) \in Nat /\ Len(m_bgQueue) \in Nat
      /\ Len(m_fgQueue') \in Nat /\ Len(m_bgQueue') \in Nat
  BY LenProperties DEF TypeOK
<1>3. /\ FgWaiting # {} => Len(m_fgQueue) + Len(m_bgQueue) <= Cardinality(FgAwake)
      /\ BgWaiting # {} => Len(m_bgQueue) <= Cardinality(BgAwake)
  BY DEF NoLostWakeup, FgServed, BgServed
<1> HIDE DEF FgAwake, BgAwake, FgWaiting, BgWaiting
<1>4. /\ Cardinality(FgAwake) \in Nat /\ Cardinality(FgAwake') \in Nat
      /\ Cardinality(BgAwake) \in Nat /\ Cardinality(BgAwake') \in Nat
  BY <1>1, CardinalityMoves
<1>5. /\ FgWaiting' \subseteq FgWaiting /\ FgAwake \subseteq FgAwake'
           /\ Len(m_fgQueue') <= Len(m_fgQueue) /\ Len(m_bgQueue') <= Len(m_bgQueue)
         => FgServed'
      /\ BgWaiting' \subseteq BgWaiting /\ BgAwake \subseteq BgAwake'
           /\ Len(m_bgQueue') <= Len(m_bgQueue)
         => BgServed'
  <2>1. /\ FgAwake \subseteq FgAwake' => Cardinality(FgAwake) <= Cardinality(FgAwake')
        /\ BgAwake \subseteq BgAwake' => Cardinality(BgAwake) <= Cardinality(BgAwake')
    BY <1>1, CardinalityMoves
  <2>2. QED
    BY <1>2, <1>3, <1>4, <2>1 DEF FgServed, BgServed
<1>6. ASSUME NEW x
      PROVE  /\ FgWaiting' = FgWaiting /\ FgAwake \ {x} \subseteq FgAwake'
                  /\ Len(m_fgQueue') + Len(m_bgQueue') <= Len(m_fgQueue) + Len(m_bgQueue) - 1
                => FgServed'
             /\ BgWaiting' = BgWaiting /\ BgAwake \ {x} \subseteq BgAwake'
                  /\ Len(m_bgQueue') <= Len(m_bgQueue) - 1
                => BgServed'
             /\ FgWaiting' = FgWaiting /\ x \notin FgAwake /\ FgAwake \cup {x} \subseteq FgAwake'
                  /\ Len(m_fgQueue') + Len(m_bgQueue') <= Len(m_fgQueue) + Len(m_bgQueue) + 1
                => FgServed'
             /\ BgWaiting' = BgWaiting /\ x \notin BgAwake /\ BgAwake \cup {x} \subseteq BgAwake'
                  /\ Len(m_bgQueue') <= Len(m_bgQueue) + 1
                => BgServed'
  <2>1. /\ FgAwake \ {x} \subseteq FgAwake' => Cardinality(FgAwake) - 1 <= Cardinality(FgAwake')
        /\ BgAwake \ {x} \subseteq BgAwake' => Cardinality(BgAwake) - 1 <= Cardinality(BgAwake')
        /\ x \notin FgAwake /\ FgAwake \cup {x} \subseteq FgAwake' =>
             Cardinality(FgAwake) + 1 <= Cardinality(FgAwake')
        /\ x \notin BgAwake /\ BgAwake \cup {x} \subseteq BgAwake' =>
             Cardinality(BgAwake) + 1 <= Cardinality(BgAwake')
    BY <1>1, CardinalityMoves
  <2>2. QED
    BY SMTT(60), <1>2, <1>3, <1>4, <2>1 DEF FgServed, BgServed
<1>7. ASSUME NEW x, NEW y
      PROVE  /\ FgWaiting' \subseteq FgWaiting /\ y \notin FgAwake
                  /\ (FgAwake \ {x}) \cup {y} \subseteq FgAwake' /\ UNCHANGED queues
                => FgServed'
             /\ BgWaiting' \subseteq BgWaiting /\ y \notin BgAwake
                  /\ (BgAwake \ {x}) \cup {y} \subseteq BgAwake' /\ UNCHANGED queues
                => BgServed'
  <2>1. /\ y \notin FgAwake /\ (FgAwake \ {x}) \cup {y} \subseteq FgAwake' =>
             Cardinality(FgAwake) <= Cardinality(FgAwake')
        /\ y \notin BgAwake /\ (BgAwake \ {x}) \cup {y} \subseteq BgAwake' =>
             Cardinality(BgAwake) <= Cardinality(BgAwake')
    BY <1>1, CardinalityMoves
  <2>2. QED
    BY <1>2, <1>3, <1>4, <2>1 DEF FgServed, BgServed, queues
<1>8. QED
  BY <1>5, <1>6, <1>7

LEMMA WakeNext ==
  ASSUME TypeOK, StampInv, LocationInv, OrderInv, NoLostWakeup, [Next]_vars,
         \A th \in Threads : Submitting(th) => Pushed(arg[th])
  PROVE  NoLostWakeup'
<1> SUFFICES FgServed' /\ BgServed'
  BY DEF NoLostWakeup
<1> USE PoolAssumption
<1>0. /\ TypeOK' /\ m_fgQueue \in Seq(Tasks) /\ m_bgQueue \in Seq(Tasks)
      /\ Len(m_fgQueue) \in Nat /\ Len(m_bgQueue) \in Nat
  BY TypeNext, LenProperties DEF TypeOK
<1>1. ASSUME UNCHANGED <<m_fgQueue, m_bgQueue, lane>>,
             \A x \in Threads : pc'[x] # pc[x] =>
               \/ pc[x] \notin {"check", "add", "notifyBg", "notifyFg"} /\ pc'[x] # "cvwait"
               \/ pc[x] = "add" /\ pc'[x] \in {"notifyBg", "notifyFg"}
                    /\ (lane[arg[x]] = Bg => pc'[x] = "notifyBg"),
             \A x \in Threads : Submitting(x) => arg'[x] = arg[x]
      PROVE  FgServed' /\ BgServed'
  <2>1. /\ FgWaiting' \subseteq FgWaiting /\ BgWaiting' \subseteq BgWaiting
        /\ FgAwake \subseteq FgAwake'
    BY <1>1 DEF FgWaiting, BgWaiting, FgAwake, Threads, Workers, Submitting
  <2>2. BgAwake \subseteq BgAwake'
    BY <1>1 DEF BgAwake, Submitting
  <2>3. QED
    BY <1>0, <1>1, <2>1, <2>2, AwakeMoves
<1>2. ASSUME NEW th \in Threads, NEW t \in Tasks, NEW l \in Lanes, Push(th, t, l)
      PROVE  FgServed' /\ BgServed'
  <2>1. /\ pc[th] = "run" /\ pc' = [pc EXCEPT ![th] = "add"]
        /\ arg' = [arg EXCEPT ![th] = t] /\ lane' = [lane EXCEPT ![t] = l] /\ ~Pushed(t)
        /\ pc'[th] = "add" /\ arg'[th] = t /\ lane'[t] = l
        /\ \A x \in Threads \ {th} : pc'[x] = pc[x] /\ arg'[x] = arg[x]
    BY <1>2 DEF Push, Pushed, TypeOK
  <2>2. /\ FgWaiting' = FgWaiting /\ BgWaiting' = BgWaiting
        /\ th \notin FgAwake /\ FgAwake \cup {th} \subseteq FgAwake'
    BY <2>1 DEF FgWaiting, BgWaiting, FgAwake, Submitting, Threads, Workers
  <2>3. \A x \in Threads : Submitting(x) => x # th /\ lane'[arg'[x]] = lane[arg[x]]
    <3>1. ASSUME NEW x \in Threads, Submitting(x)
          PROVE  x # th /\ arg[x] \in Tasks /\ arg[x] # t
      BY <2>1, <3>1 DEF Submitting, TypeOK
    <3>2. QED
      BY <2>1, <3>1 DEF TypeOK
  <2>4. BgAwake \subseteq BgAwake' /\ th \notin BgAwake
    BY <2>1, <2>3 DEF BgAwake, Submitting
  <2>5. l = Bg => th \in BgAwake'
    BY <2>1 DEF BgAwake
  <2>6. CASE l = Fg
    <3>1. Len(m_fgQueue') = Len(m_fgQueue) + 1 /\ m_bgQueue' = m_bgQueue
      BY <1>0, <1>2, <2>6, ElementsAppend DEF Push
    <3>2. QED
      BY <1>0, <2>2, <2>4, <3>1, AwakeMoves
  <2>7. CASE l # Fg
    <3>1. Len(m_bgQueue') = Len(m_bgQueue) + 1 /\ m_fgQueue' = m_fgQueue /\ l = Bg
      BY <1>0, <1>2, <2>7, ElementsAppend DEF Push, Lanes
    <3>2. QED
      BY <1>0, <2>2, <2>4, <2>5, <3>1, AwakeMoves
  <2>8. QED
    BY <2>6, <2>7
<1>3. ASSUME NEW th \in Threads, PendingAdd(th) PROVE FgServed' /\ BgServed'
  BY <1>1, <1>3 DEF PendingAdd, queues, TypeOK, Fg, Bg
<1>4. ASSUME NEW th \in Threads, NotifyBg(th) PROVE FgServed' /\ BgServed'
  <2>1. /\ UNCHANGED <<m_fgQueue, m_bgQueue, lane, arg>> /\ pc[th] = "notifyBg"
        /\ th \notin BgWaiting
    BY <1>4 DEF NotifyBg, queues, BgWaiting
  <2>2. CASE BgWaiting = {} /\ Wake(th, "notifyFg", {})
    <3>1. \A x \in Threads : pc'[x] = IF x = th THEN "notifyFg" ELSE pc[x]
      BY <2>2 DEF Wake
    <3>2. FgWaiting' \subseteq FgWaiting /\ FgAwake \subseteq FgAwake' /\ BgWaiting' = {}
      BY <2>1, <2>2, <3>1 DEF FgWaiting, BgWaiting, FgAwake, Submitting, Threads, Workers
    <3>3. QED
      BY <1>0, <2>1, <3>2, AwakeMoves DEF BgServed
  <2>3. CASE \E w \in BgWaiting : Wake(th, "notifyFg", {w})
    <3>1. PICK w \in BgWaiting : Wake(th, "notifyFg", {w})
      BY <2>3
    <3>2. /\ w \in BgWorkers /\ pc[w] = "cvwait" /\ w # th
          /\ \A x \in Threads : pc'[x] = IF x = th THEN "notifyFg"
                                         ELSE IF x = w THEN "check" ELSE pc[x]
      BY <2>1, <3>1 DEF Wake, BgWaiting
    <3>3. FgWaiting' \subseteq FgWaiting /\ FgAwake \subseteq FgAwake'
      BY <2>1, <3>2 DEF FgWaiting, FgAwake, Submitting, Threads, Workers
    <3>4. /\ BgWaiting' \subseteq BgWaiting /\ w \notin BgAwake
          /\ (BgAwake \ {th}) \cup {w} \subseteq BgAwake'
      BY <2>1, <3>2 DEF BgWaiting, BgAwake, Threads, Workers
    <3>5. FgServed'
      BY <1>0, <2>1, <3>3, AwakeMoves
    <3>6. BgServed'
      BY <1>0, <2>1, <3>4, AwakeMoves DEF queues
    <3>7. QED
      BY <3>5, <3>6
  <2>4. QED
    BY <1>4, <2>2, <2>3 DEF NotifyBg, NotifyOne
<1>5. ASSUME NEW th \in Threads, NotifyFg(th) PROVE FgServed' /\ BgServed'
  <2>1. /\ UNCHANGED <<m_fgQueue, m_bgQueue, lane>> /\ pc[th] = "notifyFg"
        /\ \A x \in Threads \ {th} : arg'[x] = arg[x]
        /\ th \notin FgWaiting
    BY <1>5 DEF NotifyFg, queues, FgWaiting, TypeOK
  <2>2. PICK W \in SUBSET FgWaiting : Wake(th, "run", W)
    BY <1>5 DEF NotifyFg, NotifyOne
  <2>3. BgWaiting' \subseteq BgWaiting /\ BgAwake \subseteq BgAwake'
    BY <2>1, <2>2 DEF Wake, FgWaiting, BgWaiting, BgAwake, Threads, Workers
  <2>4. BgServed'
    BY <1>0, <2>1, <2>3, AwakeMoves
  <2>5. CASE FgWaiting = {}
    <3>1. FgWaiting' = {}
      BY <2>2, <2>5 DEF Wake, FgWaiting, Threads, Workers
    <3>2. QED
      BY <2>4, <3>1 DEF FgServed
  <2>6. CASE \E w \in FgWaiting : Wake(th, "run", {w})
    <3>1. PICK w \in FgWaiting : Wake(th, "run", {w})
      BY <2>6
    <3>2. /\ w \in FgWorkers /\ pc[w] = "cvwait" /\ w # th
          /\ \A x \in Threads : pc'[x] = IF x = th THEN "run"
                                         ELSE IF x = w THEN "check" ELSE pc[x]
      BY <2>1, <3>1 DEF Wake, FgWaiting
    <3>3. /\ FgWaiting' \subseteq FgWaiting /\ w \notin FgAwake
          /\ (FgAwake \ {th}) \cup {w} \subseteq FgAwake'
      BY <2>1, <3>2 DEF FgWaiting, FgAwake, Submitting, Threads, Workers
    <3>4. FgServed'
      BY <1>0, <2>1, <3>3, AwakeMoves DEF queues
    <3>5. QED
      BY <2>4, <3>4
  <2>7. QED
    BY <1>5, <2>5, <2>6 DEF NotifyFg, NotifyOne
<1>6. ASSUME NEW w \in Workers, pc[w] = "check", FgTake(w), w \in FgWorkers,
             UNCHANGED <<m_shutdown, m_pending, arg, lane, futures, history>>
      PROVE  FgServed' /\ BgServed'
  <2>1. /\ Len(m_fgQueue') = Len(m_fgQueue) - 1 /\ m_bgQueue' = m_bgQueue
    BY <1>6, TakeFg
  <2>2. /\ \A x \in Threads : pc'[x] = IF x = w THEN "run" ELSE pc[x]
    BY <1>6 DEF FgTake, Execute, TypeOK
  <2>3. /\ FgWaiting' = FgWaiting /\ FgAwake \ {w} \subseteq FgAwake'
        /\ BgWaiting' \subseteq BgWaiting /\ BgAwake \subseteq BgAwake'
    BY <1>6, <2>2 DEF FgWaiting, BgWaiting, FgAwake, BgAwake, Submitting, Threads, Workers
  <2>4. /\ Len(m_fgQueue') + Len(m_bgQueue') <= Len(m_fgQueue) + Len(m_bgQueue) - 1
        /\ Len(m_bgQueue') <= Len(m_bgQueue)
    BY <1>0, <2>1
  <2>5. FgServed'
    BY <1>0, <2>3, <2>4, AwakeMoves
  <2>6. BgServed'
    BY <1>0, <2>3, <2>4, AwakeMoves
  <2>7. QED
    BY <2>5, <2>6
<1>7. ASSUME NEW w \in Workers, pc[w] = "check", TakeBg(w),
             UNCHANGED <<m_shutdown, m_pending, arg, lane, futures, history>>
      PROVE  FgServed' /\ BgServed'
  <2>1. /\ Len(m_bgQueue') = Len(m_bgQueue) - 1 /\ m_fgQueue' = m_fgQueue
    BY <1>7, TakeBgHead
  <2>2. /\ \A x \in Threads : pc'[x] = IF x = w THEN "run" ELSE pc[x]
    BY <1>7 DEF TakeBg, Execute, TypeOK
  <2>3. /\ FgWaiting' = FgWaiting /\ FgAwake \ {w} \subseteq FgAwake'
        /\ BgWaiting' = BgWaiting /\ BgAwake \ {w} \subseteq BgAwake'
    BY <1>7, <2>2 DEF FgWaiting, BgWaiting, FgAwake, BgAwake, Submitting, Threads, Workers
  <2>4. FgServed'
    <3>1. Len(m_fgQueue') + Len(m_bgQueue') <= Len(m_fgQueue) + Len(m_bgQueue) - 1
      BY <1>0, <2>1
    <3>2. QED
      BY <1>0, <2>3, <3>1, AwakeMoves
  <2>5. BgServed'
    BY <1>0, <2>1, <2>3, AwakeMoves
  <2>6. QED
    BY <2>4, <2>5
<1>8. ASSUME NEW w \in Workers, pc[w] = "check", m_bgQueue = <<>>,
             w \in FgWorkers => m_fgQueue = <<>>,
             Leave(w, IF m_shutdown THEN "exited" ELSE "cvwait"),
             UNCHANGED <<m_shutdown, m_pending, arg, lane, futures, history>>
      PROVE  FgServed' /\ BgServed'
  <2>1. /\ UNCHANGED <<m_fgQueue, m_bgQueue>> /\ Len(m_bgQueue) = 0
        /\ w \in FgWorkers => Len(m_fgQueue) = 0
        /\ \A x \in Threads \ {w} : pc'[x] = pc[x]
    BY <1>8, EmptySeq DEF Leave, queues, TypeOK
  <2>2. FgAwake' \in SUBSET Threads /\ BgAwake' \in SUBSET Threads
    BY DEF FgAwake, BgAwake
  <2>3. Cardinality(FgAwake') \in Nat /\ Cardinality(BgAwake') \in Nat
    BY <2>2, CardinalityMoves
  <2>4. BgServed'
    BY <2>1, <2>3 DEF BgServed
  <2>5. CASE w \in FgWorkers
    BY <2>1, <2>3, <2>4, <2>5 DEF FgServed
  <2>6. CASE w \notin FgWorkers
    <3>1. FgWaiting' \subseteq FgWaiting /\ FgAwake \subseteq FgAwake'
      BY <1>8, <2>1, <2>6 DEF FgWaiting, FgAwake, Submitting, Threads, Workers
    <3>2. QED
      BY <1>0, <2>1, <2>4, <3>1, AwakeMoves
  <2>7. QED
    BY <2>5, <2>6
<1>9. ASSUME NEW w \in FgWorkers, FgCheck(w) PROVE FgServed' /\ BgServed'
  BY <1>6, <1>7, <1>8, <1>9 DEF FgCheck, Workers
<1>10. ASSUME NEW w \in BgWorkers, BgCheck(w) PROVE FgServed' /\ BgServed'
  BY <1>7, <1>8, <1>10 DEF BgCheck, Workers
<1>11. ASSUME NEW w \in Workers, Finish(w) \/ PendingSub(w) \/ SpuriousWake(w)
       PROVE  FgServed' /\ BgServed'
  BY <1>1, <1>11 DEF Finish, PendingSub, SpuriousWake, queues, TypeOK
<1>12. ASSUME NEW th \in Threads, Await(th) \/ Resume(th) PROVE FgServed' /\ BgServed'
  <2>1. /\ UNCHANGED <<m_fgQueue, m_bgQueue, lane>> /\ pc[th] \in {"run", "blocked"}
        /\ \A x \in Threads \ {th} : pc'[x] = pc[x] /\ arg'[x] = arg[x]
        /\ pc'[th] \in {"run", "blocked"}
    BY <1>12 DEF Await, Block, Resume, queues, TypeOK
  <2>2. QED
    BY <1>1, <2>1 DEF Submitting
<1>13. ASSUME Shutdown \/ ShutdownStep PROVE FgServed' /\ BgServed'
  <2>1. pc[Main] \notin {"check", "add", "notifyBg", "notifyFg"}
    BY <1>13, ShutdownEffect DEF Submitting, TypeOK
  <2>2. \A x \in Threads : pc'[x] # pc[x] =>
          pc[x] \notin {"check", "add", "notifyBg", "notifyFg"} /\ pc'[x] # "cvwait"
    BY <1>13, <2>1, ShutdownEffect
  <2>3. UNCHANGED <<m_fgQueue, m_bgQueue, lane, arg>>
    BY <1>13, ShutdownEffect
  <2>4. QED
    BY <1>1, <2>2, <2>3
<1>14. ASSUME UNCHANGED vars PROVE FgServed' /\ BgServed'
  BY <1>1, <1>14 DEF vars
<1>15. QED
  BY <1>2, <1>3, <1>4, <1>5, <1>9, <1>10, <1>11, <1>12, <1>13, <1>14
     DEF Next, WorkerStep, SubmitStep

-----------------------------------------------------------------------------
LEMMA InvInit == Init => IInv
<1> SUFFICES ASSUME Init PROVE IInv
  OBVIOUS
<1>1. TypeOK
  BY TypeInit
<1>2. /\ \A t \in Tasks : ~Pushed(t)
      /\ \A w \in Workers : cur[w] = None /\ pc[w] = "check"
      /\ \A th \in Threads : ~Submitting(th)
  BY PoolAssumption DEF Init, Pushed, Submitting, Threads, Workers
<1>3. Elements(m_fgQueue) = {} /\ Elements(m_bgQueue) = {} /\ Len(m_fgQueue) = 0 /\ Len(m_bgQueue) = 0
  BY EmptySeq DEF Init, Elements
<1>4. StampInv /\ LocationInv /\ OrderInv /\ FutureInv /\ ExitInv
  BY <1>2, <1>3 DEF Init, StampInv, LocationInv, OrderInv, FutureInv, ExitInv, Queued, Pushed,
     Workers
<1>5. NoLostWakeup
  <2>1. FgWaiting = {} /\ BgWaiting = {}
    BY <1>2 DEF FgWaiting, BgWaiting, Workers
  <2>2. QED
    BY <2>1 DEF NoLostWakeup, FgServed, BgServed
<1>6. QED
  BY <1>1, <1>4, <1>5 DEF IInv

(* The inductive invariant holds.                                           *)
THEOREM Invariance == Spec => []IInv
<1>1. IInv /\ [Next]_vars => IInv'
  <2>1. FutureInv => \A th \in Threads : Submitting(th) => Pushed(arg[th])
    BY DEF FutureInv
  <2>2. QED
    BY <2>1, TypeNext, StampNext, LocationNext, OrderNext, FutureNext, ExitNext, WakeNext DEF IInv
<1>2. QED
  BY InvInit, <1>1, PTL DEF Spec

(* No wakeup is lost, however many workers and submitters there are: the    *)
(* notify_one calls of submit(), made after it unlocked, suffice.           *)
THEOREM NoWakeupIsLost == Spec => []NoLostWakeup
<1>1. IInv => NoLostWakeup
  BY DEF IInv
<1>2. QED
  BY Invariance, <1>1, PTL

(* Shutting down loses no task that was accepted before shutdown() began.   *)
THEOREM DrainIsComplete == Spec => []ShutdownDrains
<1>1. ASSUME IInv PROVE ShutdownDrains
  <2>1. SUFFICES ASSUME m_shutdown, \A w \in Workers : pc[w] = "exited",
                        NEW t \in Tasks, Early(t), t \notin ready
                 PROVE  FALSE
    BY DEF ShutdownDrains
  <2>2. \A w \in Workers : cur[w] # t
    BY <1>1, <2>1, PoolAssumption DEF IInv, TypeOK
  <2>3. t \in Queued
    BY <1>1, <2>1, <2>2 DEF IInv, LocationInv, Early
  <2>4. PICK w \in FgWorkers : TRUE
    BY PoolAssumption
  <2>5. QED
    BY <1>1, <2>1, <2>3, <2>4 DEF IInv, ExitInv, Workers
<1>2. QED
  BY Invariance, <1>1, PTL

-----------------------------------------------------------------------------
(* Among the unfinished tasks accepted before shutdown, one came first.     *)
LEMMA OldestUnfinished ==
  ASSUME TypeOK, NEW u \in Tasks, Early(u), u \notin ready
  PROVE  \E t \in Tasks : /\ Early(t) /\ t \notin ready
                          /\ \A v \in Tasks : Pushed(v) /\ stamp[v] < stamp[t] => v \in ready
<1> DEFINE T == {stamp[t] : t \in {v \in Tasks : Early(v) /\ v \notin ready}}
<1>1. T \subseteq Nat /\ T # {}
  BY DEF TypeOK
<1>2. PICK n \in T : \A m \in T : ~(<<m, n>> \in OpToRel(<, Nat))
  BY <1>1, NatLessThanWellFounded, WFMin
<1>3. \A m \in T : ~(m < n)
  BY <1>1, <1>2 DEF OpToRel
<1>4. PICK t \in Tasks : Early(t) /\ t \notin ready /\ stamp[t] = n
  OBVIOUS
<1>5. ASSUME NEW v \in Tasks, Pushed(v), stamp[v] < stamp[t] PROVE v \in ready
  <2>1. Early(v)
    BY <1>4, <1>5 DEF Early, TypeOK
  <2>2. QED
    BY <1>3, <1>4, <1>5, <2>1
<1>6. QED
  BY <1>4, <1>5

(* Blocking get()s inside tasks never deadlock the pool: take the oldest    *)
(* unfinished task.  It is not blocked, since it only awaits older ones; if *)
(* it is queued, each worker of its lane would be asleep (a lost wakeup),   *)
(* gone (it would have drained the queue) or blocked in an older task.      *)
THEOREM PoolIsDeadlockFree == Spec => []NoPoolDeadlock
<1>1. ASSUME IInv PROVE NoPoolDeadlock
  <2>1. SUFFICES ASSUME NEW u \in Tasks, Early(u), u \notin ready,
                        \A th \in Threads : ~CanStep(th)
                 PROVE  FALSE
    BY DEF NoPoolDeadlock
  <2>2. TypeOK /\ LocationInv /\ OrderInv /\ FutureInv /\ ExitInv /\ NoLostWakeup
    BY <1>1 DEF IInv
  <2>3. PICK t \in Tasks : /\ Early(t) /\ t \notin ready
                           /\ \A v \in Tasks : Pushed(v) /\ stamp[v] < stamp[t] => v \in ready
    BY <2>1, <2>2, OldestUnfinished
  <2>4. /\ \A th \in Threads : ~Submitting(th)
        /\ \A w \in Workers : pc[w] \in {"cvwait", "blocked", "exited"}
        /\ \A w \in Workers : pc[w] = "blocked" =>
             cur[w] \in Tasks /\ cur[w] # None /\ arg[w] \in Tasks /\ arg[w] \notin ready
    BY <2>1, <2>2, PoolAssumption DEF CanStep, TypeOK, Submitting, Threads
  <2>5. ASSUME NEW w \in Workers, cur[w] = t PROVE FALSE
    <3>1. pc[w] = "blocked"
      BY <2>2, <2>4, <2>5, PoolAssumption DEF TypeOK
    <3>2. arg[w] \in captured[t] /\ arg[w] \in Tasks /\ arg[w] \notin ready
      BY <2>2, <2>4, <2>5, <3>1 DEF FutureInv
    <3>3. QED
      BY <2>2, <2>3, <3>2 DEF FutureInv
  <2>6. ASSUME NEW w \in Workers, pc[w] = "blocked", stamp[cur[w]] < stamp[t] PROVE FALSE
    <3>1. cur[w] \in Tasks /\ Pushed(cur[w]) /\ cur[w] \notin ready
      BY <2>2, <2>4, <2>6 DEF LocationInv
    <3>2. QED
      BY <2>3, <2>6, <3>1
  <2>7. FgAwake = {} /\ BgAwake = {}
    BY <2>4 DEF FgAwake, BgAwake, Workers, Submitting
  <2>8. /\ FgWaiting # {} => Len(m_fgQueue) + Len(m_bgQueue) <= 0
        /\ BgWaiting # {} => Len(m_bgQueue) <= 0
    BY <2>2, <2>7, FS_EmptySet DEF NoLostWakeup, FgServed, BgServed
  <2>9. ASSUME NEW q \in Seq(Tasks), t \in Elements(q) PROVE Len(q) \in Nat \ {0}
    BY <2>9, ElementsTail, ElementsType, EmptySeq, LenProperties
  <2>10. /\ m_fgQueue \in Seq(Tasks) /\ m_bgQueue \in Seq(Tasks)
         /\ Len(m_fgQueue) \in Nat /\ Len(m_bgQueue) \in Nat
    BY <2>2, LenProperties DEF TypeOK
  <2>11. ASSUME t \in Elements(m_fgQueue) PROVE FALSE
    <3>1. PICK w \in FgWorkers : w \in Workers
      BY PoolAssumption DEF Workers
    <3>2. pc[w] # "cvwait"
      BY <2>8, <2>9, <2>10, <2>11, <3>1 DEF FgWaiting
    <3>3. pc[w] # "exited"
      BY <2>2, <2>3, <2>11, <3>1 DEF ExitInv, Queued
    <3>4. pc[w] = "blocked" /\ cur[w] # None
      BY <2>4, <3>1, <3>2, <3>3
    <3>5. QED
      BY <2>2, <2>6, <2>11, <3>1, <3>4 DEF OrderInv
  <2>12. ASSUME t \in Elements(m_bgQueue) PROVE FALSE
    <3>1. PICK w \in BgWorkers : w \in Workers
      BY PoolAssumption DEF Workers
    <3>2. pc[w] # "cvwait"
      BY <2>8, <2>9, <2>10, <2>12, <3>1 DEF BgWaiting
    <3>3. pc[w] # "exited"
      BY <2>2, <2>3, <2>12, <3>1 DEF ExitInv
    <3>4. pc[w] = "blocked" /\ cur[w] # None
      BY <2>4, <3>1, <3>2, <3>3
    <3>5. QED
      BY <2>2, <2>6, <2>12, <3>1, <3>4 DEF OrderInv
  <2>13. t \in Queued
    BY <2>2, <2>3, <2>5 DEF LocationInv, Early
  <2>14. QED
    BY <2>11, <2>12, <2>13 DEF Queued
<1>2. QED
  BY Invariance, <1>1, PTL

-----------------------------------------------------------------------------
(* The counter of pending tasks, for every number of threads and every      *)
(* width: submit() increments it after the push and the worker decrements   *)
(* it after the execution, in either order.  Counting modulo the width is   *)
(* not inductive in the form PendingAccounts states it: the invariant says  *)
(* instead that the two sides differ by a multiple of the width.            *)


Adders == {th \in Threads : pc[th] = "add"}
Busy == {w \in Workers : cur[w] # None}

(* a - b is a multiple of the counter's range.                              *)
Congruent(a, b) == \E k \in Int : a = b + k * PendingMod
Unfinished == Cardinality(Queued) + Cardinality(Busy)
PendingInv ==
  /\ IsFiniteSet(Queued)
  /\ Congruent(m_pending + Cardinality(Adders), Unfinished)

-----------------------------------------------------------------------------
(* Arithmetic modulo M.                                                     *)
LEMMA Division ==
  ASSUME NEW M \in Nat \ {0}, NEW x \in Nat
  PROVE  x % M \in 0 .. M - 1 /\ x \div M \in Int /\ x % M = x - M * (x \div M)
<1>1. x % M \in 0 .. M - 1
  OBVIOUS
<1>2. x \div M \in Int
  OBVIOUS
<1>3. x % M = x - M * (x \div M)
  OBVIOUS
<1>4. QED
  BY <1>1, <1>2, <1>3

(* A difference of remainders that is a multiple of M is zero.              *)
LEMMA SmallMultiple ==
  ASSUME NEW M \in Nat \ {0}, NEW r \in 0 .. M - 1, NEW s \in 0 .. M - 1, NEW d \in Int,
         M * d = r - s
  PROVE  r = s
<1>1. d >= 1 => M * d >= M
  OBVIOUS
<1>2. d <= -1 => M * d <= -M
  OBVIOUS
<1>3. d = 0
  BY <1>1, <1>2
<1>4. QED
  BY <1>3

LEMMA CongruentMod ==
  ASSUME NEW M \in Nat \ {0}, NEW x \in Nat, NEW y \in Nat, NEW k \in Int, x = y + k * M
  PROVE  x % M = y % M
<1>1. PICK p \in Int : x % M = x - M * p
  BY Division
<1>2. PICK q \in Int : y % M = y - M * q
  BY Division
<1>3. PICK r \in 0 .. M - 1 : r = x % M
  BY Division
<1>4. PICK s \in 0 .. M - 1 : s = y % M
  BY Division
<1>5. M * (k + q - p) = r - s
  BY <1>1, <1>2, <1>3, <1>4
<1>6. k + q - p \in Int
  OBVIOUS
<1>7. r = s
  BY <1>5, <1>6, SmallMultiple
<1>8. QED
  BY <1>3, <1>4, <1>7

LEMMA ModOnce ==
  ASSUME NEW M \in Nat \ {0}, NEW x \in 0 .. 2 * M - 1
  PROVE  x % M = IF x < M THEN x ELSE x - M
<1>1. ASSUME NEW y \in 0 .. M - 1 PROVE y % M = y
  OBVIOUS
<1>2. CASE x < M
  BY <1>1, <1>2
<1>3. CASE x >= M
  <2>1. x - M \in 0 .. M - 1 /\ x = (x - M) + 1 * M
    BY <1>3
  <2>2. x % M = (x - M) % M
    BY <2>1, CongruentMod
  <2>3. QED
    BY <1>1, <1>3, <2>1, <2>2
<1>4. QED
  BY <1>2, <1>3

LEMMA CongruentMoves ==
  ASSUME NEW a \in Int, NEW b \in Int, NEW c \in Int, NEW e \in Int, Congruent(a, b)
  PROVE  /\ c - e = a - b => Congruent(c, e)
         /\ c - e = a - b + PendingMod => Congruent(c, e)
         /\ c - e = a - b - PendingMod => Congruent(c, e)
<1>1. PICK k \in Int : a = b + k * PendingMod
  BY DEF Congruent
<1>2. PendingMod \in Nat \ {0}
  BY PoolAssumption
<1>3. c - e = a - b => c = e + k * PendingMod
  BY <1>1, <1>2
<1>4. c - e = a - b + PendingMod => c = e + (k + 1) * PendingMod
  BY <1>1, <1>2
<1>5. c - e = a - b - PendingMod => c = e + (k - 1) * PendingMod
  BY <1>1, <1>2
<1>6. k + 1 \in Int /\ k - 1 \in Int
  OBVIOUS
<1>7. QED
  BY <1>3, <1>4, <1>5, <1>6 DEF Congruent

-----------------------------------------------------------------------------
LEMMA FiniteSides ==
  ASSUME TypeOK, PendingInv
  PROVE  /\ IsFiniteSet(Adders) /\ IsFiniteSet(Busy) /\ IsFiniteSet(Queued)
         /\ Cardinality(Adders) \in Nat /\ Cardinality(Busy) \in Nat
         /\ Cardinality(Queued) \in Nat
         /\ m_pending \in 0 .. PendingMod - 1
<1>1. IsFiniteSet(Threads) /\ IsFiniteSet(Workers)
  BY PoolAssumption, FS_Union DEF Threads, Workers
<1>2. IsFiniteSet(Adders) /\ IsFiniteSet(Busy)
  BY <1>1, FS_Subset DEF Adders, Busy
<1>3. QED
  BY <1>2, FS_CardinalityType DEF PendingInv, TypeOK

LEMMA PendingInit == Init => PendingInv
<1> SUFFICES ASSUME Init PROVE PendingInv
  OBVIOUS
<1>1. Queued = {} /\ Busy = {} /\ m_pending = 0
  BY DEF Init, Queued, Busy, Elements
<1>2. Adders = {}
  BY DEF Init, Adders
<1>3. m_pending + Cardinality(Adders) = Unfinished + 0 * PendingMod
  BY <1>1, <1>2, FS_EmptySet, PoolAssumption DEF Unfinished
<1>4. QED
  BY <1>1, <1>3, FS_EmptySet DEF PendingInv, Congruent

(* The steps that count: everything else leaves both sides as they are.     *)
LEMMA PendingNext == IInv /\ PendingInv /\ [Next]_vars => PendingInv'
<1> SUFFICES ASSUME IInv, PendingInv, [Next]_vars PROVE PendingInv'
  OBVIOUS
<1> USE PoolAssumption
<1>0. TypeOK /\ OrderInv /\ LocationInv
  BY DEF IInv
<1>1. ASSUME Adders' = Adders, Busy' = Busy, Queued' = Queued, m_pending' = m_pending
      PROVE  PendingInv'
  BY <1>1 DEF PendingInv, Unfinished, Congruent
<1>2. ASSUME NEW th \in Threads, NEW t \in Tasks, NEW l \in Lanes, Push(th, t, l)
      PROVE  PendingInv'
  <2>1. t \notin Queued /\ Queued' = Queued \cup {t}
    <3>1. /\ Elements(Append(m_fgQueue, t)) = Elements(m_fgQueue) \cup {t}
          /\ Elements(Append(m_bgQueue, t)) = Elements(m_bgQueue) \cup {t}
      BY <1>0, ElementsAppend DEF TypeOK
    <3>2. Queued' = Queued \cup {t}
      BY <1>2, <3>1 DEF Push, Queued
    <3>3. t \notin Queued
      BY <1>0, <1>2 DEF Push, LocationInv, Pushed
    <3>4. QED
      BY <3>2, <3>3
  <2>2. th \notin Adders /\ Adders' = Adders \cup {th}
    BY <1>0, <1>2 DEF Push, Adders, TypeOK
  <2>3. Busy' = Busy /\ m_pending' = m_pending
    BY <1>2 DEF Push, Busy
  <2>4. /\ IsFiniteSet(Queued') /\ Cardinality(Queued') = Cardinality(Queued) + 1
        /\ Cardinality(Adders') = Cardinality(Adders) + 1
    BY <1>0, <2>1, <2>2, FiniteSides, FS_AddElement
  <2>5. Congruent(m_pending' + Cardinality(Adders'), Unfinished')
    BY <1>0, <2>3, <2>4, FiniteSides, CongruentMoves DEF PendingInv, Unfinished
  <2>6. QED
    BY <2>4, <2>5 DEF PendingInv, Congruent
<1>3. ASSUME NEW th \in Threads, PendingAdd(th) PROVE PendingInv'
  <2>1. th \in Adders /\ Adders' = Adders \ {th}
    BY <1>0, <1>3 DEF PendingAdd, Adders, TypeOK
  <2>2. Busy' = Busy /\ Queued' = Queued
    BY <1>3 DEF PendingAdd, Busy, Queued, queues
  <2>3. Cardinality(Adders') = Cardinality(Adders) - 1
    BY <1>0, <2>1, FiniteSides, FS_RemoveElement
  <2>4. m_pending' = IF m_pending + 1 < PendingMod THEN m_pending + 1 ELSE m_pending + 1 - PendingMod
    BY <1>0, <1>3, FiniteSides, ModOnce DEF PendingAdd
  <2>5. Congruent(m_pending' + Cardinality(Adders'), Unfinished')
    BY <1>0, <2>2, <2>3, <2>4, FiniteSides, CongruentMoves DEF PendingInv, Unfinished
  <2>6. QED
    BY <2>2, <2>5 DEF PendingInv, Congruent
<1>4. ASSUME NEW w \in Workers, PendingSub(w) PROVE PendingInv'
  <2>1. w \in Busy /\ Busy' = Busy \ {w}
    BY <1>0, <1>4 DEF PendingSub, Busy, TypeOK
  <2>2. Adders' = Adders /\ Queued' = Queued
    BY <1>0, <1>4 DEF PendingSub, Adders, Queued, queues, TypeOK
  <2>3. Cardinality(Busy') = Cardinality(Busy) - 1
    BY <1>0, <2>1, FiniteSides, FS_RemoveElement
  <2>4. m_pending' = IF m_pending = 0 THEN PendingMod - 1 ELSE m_pending - 1
    BY <1>0, <1>4, FiniteSides, ModOnce DEF PendingSub
  <2>5. Congruent(m_pending' + Cardinality(Adders'), Unfinished')
    BY <1>0, <2>2, <2>3, <2>4, FiniteSides, CongruentMoves DEF PendingInv, Unfinished
  <2>6. QED
    BY <2>2, <2>5 DEF PendingInv, Congruent
<1>5. ASSUME NEW w \in Workers, pc[w] = "check", FgTake(w) \/ TakeBg(w), m_pending' = m_pending
      PROVE  PendingInv'
  <2>1. PICK t : t \in Queued /\ Queued' = Queued \ {t} /\ cur'[w] = t /\ t \in Tasks
    <3>1. CASE FgTake(w)
      BY <1>0, <3>1, TakeFg DEF Queued
    <3>2. CASE TakeBg(w)
      BY <1>0, <3>2, TakeBgHead DEF Queued
    <3>3. QED
      BY <1>5, <3>1, <3>2
  <2>2. w \notin Busy /\ Busy' = Busy \cup {w} /\ Adders' = Adders
    BY <1>0, <1>5, <2>1 DEF FgTake, TakeBg, Execute, Busy, Adders, TypeOK
  <2>3. /\ IsFiniteSet(Queued') /\ Cardinality(Queued') = Cardinality(Queued) - 1
        /\ Cardinality(Busy') = Cardinality(Busy) + 1
    BY <1>0, <2>1, <2>2, FiniteSides, FS_AddElement, FS_RemoveElement
  <2>4. Congruent(m_pending' + Cardinality(Adders'), Unfinished')
    BY <1>0, <1>5, <2>2, <2>3, FiniteSides, CongruentMoves DEF PendingInv, Unfinished
  <2>5. QED
    BY <2>3, <2>4 DEF PendingInv, Congruent
<1>6. ASSUME NEW w \in Workers, pc[w] = "check", m_pending' = m_pending,
             Leave(w, IF m_shutdown THEN "exited" ELSE "cvwait")
      PROVE  PendingInv'
  BY <1>0, <1>1, <1>6 DEF Leave, Adders, Busy, Queued, queues, TypeOK
<1>7. ASSUME NEW th \in Threads, NotifyBg(th) \/ NotifyFg(th) PROVE PendingInv'
  <2>1. \A x \in Threads : pc'[x] = "add" <=> pc[x] = "add"
    <3>1. SubmitStep(th) /\ pc[th] # "add"
      BY <1>7 DEF SubmitStep, NotifyBg, NotifyFg
    <3>2. pc'[th] # "add"
      BY <1>0, <3>1, SubmitEffect
    <3>3. QED
      BY <1>0, <3>1, <3>2, SubmitEffect
  <2>2. Adders' = Adders
    BY <2>1 DEF Adders
  <2>3. Busy' = Busy /\ Queued' = Queued /\ m_pending' = m_pending
    BY <1>7 DEF NotifyBg, NotifyFg, Busy, Queued, queues
  <2>4. QED
    BY <1>1, <2>2, <2>3
<1>8. ASSUME Shutdown \/ ShutdownStep PROVE PendingInv'
  <2>1. \A x \in Threads : pc'[x] = "add" <=> pc[x] = "add"
    BY <1>0, <1>8, ShutdownEffect DEF Submitting
  <2>2. Adders' = Adders
    BY <2>1 DEF Adders
  <2>3. Busy' = Busy /\ Queued' = Queued /\ m_pending' = m_pending
    BY <1>8 DEF Shutdown, ShutdownStep, ShutdownWake, ShutdownJoin, Busy, Queued, queues
  <2>4. QED
    BY <1>1, <2>2, <2>3
<1>9. ASSUME NEW th \in Threads,
             Await(th) \/ Resume(th) \/ (th \in Workers /\ (Finish(th) \/ SpuriousWake(th)))
      PROVE  PendingInv'
  <2>1. Adders' = Adders
    BY <1>0, <1>9 DEF Await, Block, Resume, Finish, SpuriousWake, Adders, TypeOK
  <2>2. Busy' = Busy /\ Queued' = Queued /\ m_pending' = m_pending
    BY <1>9 DEF Await, Block, Resume, Finish, SpuriousWake, Busy, Queued, queues
  <2>3. QED
    BY <1>1, <2>1, <2>2
<1>10. ASSUME NEW w \in FgWorkers, FgCheck(w) PROVE PendingInv'
  BY <1>5, <1>6, <1>10 DEF FgCheck, Workers
<1>11. ASSUME NEW w \in BgWorkers, BgCheck(w) PROVE PendingInv'
  BY <1>5, <1>6, <1>11 DEF BgCheck, Workers
<1>12. CASE UNCHANGED vars
  BY <1>1, <1>12 DEF vars, Adders, Busy, Queued
<1>13. QED
  BY <1>2, <1>3, <1>4, <1>7, <1>8, <1>9, <1>10, <1>11, <1>12
  DEF Next, SubmitStep, WorkerStep, Threads

(* The profiler's count of pending tasks never drifts: modulo its width it  *)
(* is the number of tasks queued or executing, less those whose submitter   *)
(* is still between the push and the increment.                             *)
THEOREM PendingNeverDrifts == Spec => []PendingAccounts
<1>1. ASSUME IInv, PendingInv PROVE PendingAccounts
  <2>1. TypeOK
    BY <1>1 DEF IInv
  <2>2. PICK k \in Int : m_pending + Cardinality(Adders) = Unfinished + k * PendingMod
    BY <1>1 DEF PendingInv, Congruent
  <2>3. m_pending + Cardinality(Adders) \in Nat /\ Unfinished \in Nat /\ PendingMod \in Nat \ {0}
    BY <1>1, <2>1, FiniteSides, PoolAssumption DEF Unfinished
  <2>4. (m_pending + Cardinality(Adders)) % PendingMod = Unfinished % PendingMod
    BY <2>2, <2>3, CongruentMod
  <2>5. QED
    BY <2>4 DEF PendingAccounts, Adders, Busy, Unfinished
<1>2. QED
  BY PendingInit, PendingNext, Invariance, <1>1, PTL DEF Spec

-----------------------------------------------------------------------------
(* The pool implements TaskLanes: every step of a worker or a client is a   *)
(* step of the lanes or changes nothing they show, for every number of      *)
(* threads and tasks.  The invariant of AsyncPoolProofs supplies what a     *)
(* step alone does not say: where a task is, and that futures are of tasks  *)
(* the lanes know.                                                          *)


Waiting == [l \in Lanes |-> IF l = Fg THEN m_fgQueue ELSE m_bgQueue]
Running == {t \in Tasks \ ready : \E w \in Workers : cur[w] = t}

LEMMA ListedIsQueued ==
  ASSUME TypeOK, NEW t
  PROVE  (\E l \in Lanes : Lane!Listed(t, l)) <=> t \in Queued
<1>1. /\ DOMAIN m_fgQueue = 1 .. Len(m_fgQueue)
      /\ DOMAIN m_bgQueue = 1 .. Len(m_bgQueue)
  BY LenProperties DEF TypeOK
<1>2. Lane!Listed(t, Fg) <=> t \in Elements(m_fgQueue)
  BY <1>1 DEF Lane!Listed, Elements, Lanes, Fg, Bg
<1>3. Lane!Listed(t, Bg) <=> t \in Elements(m_bgQueue)
  BY <1>1 DEF Lane!Listed, Elements, Lanes, Fg, Bg
<1>4. QED
  BY <1>2, <1>3 DEF Queued, Lanes

(* The tasks the lanes know are those that were pushed. *)
LEMMA KnownIsPushed ==
  ASSUME TypeOK, LocationInv, NEW t \in Tasks
  PROVE  Lane!Known(t) <=> Pushed(t)
<1>1. Lane!Known(t) <=> t \in Running \cup ready \/ t \in Queued
  BY ListedIsQueued DEF Lane!Known, Running
<1>2. t \in Running => Pushed(t)
  BY PoolAssumption DEF Running, LocationInv, TypeOK
<1>3. Pushed(t) => t \in Running \cup ready \/ t \in Queued
  BY DEF LocationInv, Running
<1>4. QED
  BY <1>1, <1>2, <1>3 DEF LocationInv

LEMMA LaneInit == Init => Lane!Init
<1> SUFFICES ASSUME Init PROVE Lane!Init
  OBVIOUS
<1>1. \A w \in Workers, t \in Tasks : cur[w] # t
  BY PoolAssumption DEF Init
<1>2. QED
  BY <1>1 DEF Init, Lane!Init

LEMMA PushIsSubmit ==
  ASSUME IInv, NEW th \in Threads, NEW t \in Tasks, NEW l \in Lanes, Push(th, t, l)
  PROVE  Lane!Submit(t, l)
<1>1. ~Lane!Known(t)
  BY KnownIsPushed DEF IInv, Push, Pushed
<1>2. Waiting' = [Waiting EXCEPT ![l] = Append(@, t)]
  BY DEF Push, Waiting, Lanes, Fg, Bg
<1>3. PICK D \in SUBSET holds[Actor(th)] : captured' = [captured EXCEPT ![t] = D]
  BY DEF Push
<1>4. D \in SUBSET {u \in Tasks : Lane!Known(u)}
  <2>1. Actor(th) \in Clients \cup Tasks
    BY ActorType DEF IInv, Push
  <2>2. \A f \in holds[Actor(th)] : f \in Tasks /\ Pushed(f)
    BY <2>1 DEF IInv, FutureInv, TypeOK
  <2>3. QED
    BY <1>3, <2>2, KnownIsPushed DEF IInv
<1>5. UNCHANGED <<Running, ready>>
  BY DEF Push, Running
<1>6. QED
  BY <1>1, <1>2, <1>3, <1>4, <1>5 DEF Lane!Submit, Waiting, Running

(* Whichever worker takes the head of a queue starts that lane's next task. *)
LEMMA TakeIsStart ==
  ASSUME IInv, NEW w \in Workers, pc[w] = "check",
         UNCHANGED <<captured, ready>>, FgTake(w) \/ TakeBg(w)
  PROVE  \E l \in Lanes : Lane!Start(l)
<1>1. cur \in [Workers -> Tasks \cup {None}] /\ cur[w] = None /\ None \notin Tasks
  BY PoolAssumption DEF IInv, TypeOK
<1>2. ASSUME NEW q \in Seq(Tasks), q # <<>>, Elements(q) \subseteq Queued,
             cur' = [cur EXCEPT ![w] = Head(q)]
      PROVE  Running' = Running \cup {Head(q)}
  <2>1. Head(q) \in Tasks /\ Head(q) \notin ready
    BY <1>2, ElementsTail DEF IInv, LocationInv
  <2>2. \A t \in Tasks : (\E v \in Workers : cur'[v] = t)
                           <=> t = Head(q) \/ \E v \in Workers : cur[v] = t
    BY <1>1, <1>2, <2>1
  <2>3. QED
    BY <2>1, <2>2 DEF Running
<1>3. CASE FgTake(w)
  <2>1. m_fgQueue # <<>> /\ Waiting[Fg] = m_fgQueue /\ Fg \in Lanes
    BY <1>3 DEF FgTake, Waiting, Lanes
  <2>2. Waiting' = [Waiting EXCEPT ![Fg] = Tail(@)]
    BY <1>3 DEF FgTake, Waiting, Lanes, Fg, Bg
  <2>3. Running' = Running \cup {Head(m_fgQueue)}
    BY <1>2, <1>3 DEF FgTake, Execute, IInv, TypeOK, Queued
  <2>4. QED
    BY <2>1, <2>2, <2>3 DEF Lane!Start, Waiting, Running
<1>4. CASE TakeBg(w)
  <2>1. m_bgQueue # <<>> /\ Waiting[Bg] = m_bgQueue /\ Bg \in Lanes
    BY <1>4 DEF TakeBg, Waiting, Lanes, Fg, Bg
  <2>2. Waiting' = [Waiting EXCEPT ![Bg] = Tail(@)]
    BY <1>4 DEF TakeBg, Waiting, Lanes, Fg, Bg
  <2>3. Running' = Running \cup {Head(m_bgQueue)}
    BY <1>2, <1>4 DEF TakeBg, Execute, IInv, TypeOK, Queued
  <2>4. QED
    BY <2>1, <2>2, <2>3 DEF Lane!Start, Waiting, Running
<1>5. QED
  BY <1>3, <1>4

LEMMA FinishIsFinish ==
  ASSUME IInv, NEW w \in Workers, Finish(w)
  PROVE  \E t \in Tasks : Lane!Finish(t)
<1>1. cur[w] # None /\ cur[w] \in Tasks \cup {None} /\ pc[w] # "sub"
  BY DEF IInv, TypeOK, Finish
<1>2. PICK t \in Tasks : t = cur[w]
  BY <1>1
<1>3. t \notin ready
  BY <1>1, <1>2 DEF IInv, LocationInv
<1>4. captured[t] = {} /\ ready' = ready \cup {t} /\ cur' = cur
  BY <1>2 DEF Finish
<1>5. t \in Running /\ Running' = Running \ {t}
  BY <1>2, <1>3, <1>4 DEF Running
<1>6. UNCHANGED <<Waiting, captured>>
  BY DEF Finish, Waiting, queues
<1>7. Lane!Finish(t)
  BY <1>4, <1>5, <1>6 DEF Lane!Finish, Waiting, Running
<1>8. QED
  BY <1>7

LEMMA ResumeIsReceive ==
  ASSUME IInv, NEW th \in Threads, Resume(th)
  PROVE  (\E t \in Tasks : Lane!Receive(t)) \/ UNCHANGED Lane!vars
<1>1. UNCHANGED <<Waiting, Running, ready>>
  BY DEF Resume, Waiting, Running, queues
<1>2. CASE th \in Clients
  BY <1>1, <1>2 DEF Resume, Lane!vars, Waiting, Running
<1>3. CASE th \notin Clients
  <2>1. th \in Workers /\ cur[th] # None /\ cur[th] \in Tasks \cup {None} /\ pc[th] = "blocked"
    BY <1>3 DEF Threads, Resume, IInv, TypeOK
  <2>2. PICK t \in Tasks : t = cur[th]
    BY <2>1
  <2>3. arg[th] \in captured[t] \cap ready
    BY <2>1, <2>2 DEF Resume, IInv, FutureInv
  <2>4. t \in Running
    BY <2>1, <2>2 DEF Running, IInv, LocationInv
  <2>5. captured' = [captured EXCEPT ![t] = @ \ {arg[th]}]
    BY <1>3, <2>2 DEF Resume
  <2>6. Lane!Receive(t)
    BY <1>1, <2>3, <2>4, <2>5 DEF Lane!Receive, Waiting, Running
  <2>7. QED
    BY <2>6
<1>4. QED
  BY <1>2, <1>3

(* A worker lets go of a task that is done. *)
LEMMA PendingSubIsHidden ==
  ASSUME IInv, NEW w \in Workers, PendingSub(w)
  PROVE  UNCHANGED Lane!vars
<1>1. cur[w] \in ready /\ ready' = ready /\ None \notin Tasks
  BY PoolAssumption DEF IInv, TypeOK, LocationInv, PendingSub, futures
<1>2. \A t \in Tasks \ ready : (\E v \in Workers : cur'[v] = t) <=> \E v \in Workers : cur[v] = t
  BY <1>1 DEF PendingSub, IInv, TypeOK
<1>3. Running' = Running
  BY <1>1, <1>2 DEF Running
<1>4. UNCHANGED <<Waiting, captured, ready>>
  BY DEF PendingSub, Waiting, queues, futures
<1>5. QED
  BY <1>3, <1>4 DEF Lane!vars, Waiting, Running

LEMMA StepIsLaneStep ==
  ASSUME IInv, [Next]_vars
  PROVE  [Lane!Next]_(Lane!vars)
<1>1. ASSUME UNCHANGED <<m_fgQueue, m_bgQueue, cur, captured, ready>> PROVE UNCHANGED Lane!vars
  BY <1>1 DEF Lane!vars
<1>2. ASSUME NEW th \in Threads, NEW t \in Tasks, NEW l \in Lanes, Push(th, t, l)
      PROVE  Lane!Next
  BY <1>2, PushIsSubmit DEF Lane!Next
<1>3. ASSUME NEW th \in Threads, Resume(th) PROVE [Lane!Next]_(Lane!vars)
  BY <1>3, ResumeIsReceive DEF Lane!Next
<1>4. ASSUME NEW w \in Workers, Finish(w) PROVE Lane!Next
  BY <1>4, FinishIsFinish DEF Lane!Next
<1>5. ASSUME NEW w \in Workers, PendingSub(w) PROVE UNCHANGED Lane!vars
  BY <1>5, PendingSubIsHidden
<1>6. ASSUME NEW w \in FgWorkers, FgCheck(w) PROVE [Lane!Next]_(Lane!vars)
  <2>1. w \in Workers /\ pc[w] = "check" /\ UNCHANGED <<captured, ready>>
    BY <1>6 DEF FgCheck, Workers, futures
  <2>2. CASE FgTake(w) \/ TakeBg(w)
    BY <2>1, <2>2, TakeIsStart DEF Lane!Next
  <2>3. CASE Leave(w, IF m_shutdown THEN "exited" ELSE "cvwait")
    BY <1>1, <2>1, <2>3 DEF Leave, queues
  <2>4. QED
    BY <1>6, <2>2, <2>3 DEF FgCheck
<1>7. ASSUME NEW w \in BgWorkers, BgCheck(w) PROVE [Lane!Next]_(Lane!vars)
  <2>1. w \in Workers /\ pc[w] = "check" /\ UNCHANGED <<captured, ready>>
    BY <1>7 DEF BgCheck, Workers, futures
  <2>2. CASE TakeBg(w)
    BY <2>1, <2>2, TakeIsStart DEF Lane!Next
  <2>3. CASE Leave(w, IF m_shutdown THEN "exited" ELSE "cvwait")
    BY <1>1, <2>1, <2>3 DEF Leave, queues
  <2>4. QED
    BY <1>7, <2>2, <2>3 DEF BgCheck
<1>8. ASSUME \/ \E th \in Threads : PendingAdd(th) \/ NotifyBg(th) \/ NotifyFg(th) \/ Await(th)
             \/ \E w \in Workers : SpuriousWake(w)
             \/ Shutdown \/ ShutdownWake \/ ShutdownJoin \/ UNCHANGED vars
      PROVE  UNCHANGED <<m_fgQueue, m_bgQueue, cur, captured, ready>>
  BY <1>8 DEF PendingAdd, NotifyBg, NotifyFg, Await, Block, SpuriousWake, Shutdown, ShutdownWake,
     ShutdownJoin, vars, queues, futures
<1>9. QED
  BY <1>1, <1>2, <1>3, <1>4, <1>5, <1>6, <1>7, <1>8
  DEF Next, SubmitStep, WorkerStep, ShutdownStep

(* Each task is started once, in the order of its lane, whichever worker    *)
(* takes it and whenever workers are woken, and finishes after the tasks    *)
(* whose futures it waits for.                                              *)
THEOREM PoolImplementsLanes == Spec => ImplementsLanes
<1>1. IInv /\ [Next]_vars => [Lane!Next]_(Lane!vars)
  BY StepIsLaneStep
<1>2. QED
  BY LaneInit, <1>1, Invariance, PTL DEF Spec, ImplementsLanes, Lane!Spec
=============================================================================
