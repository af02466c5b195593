------------------------------ MODULE TaskLanes ------------------------------
(***************************************************************************)
(* What the pool promises its users, without threads, locks or condition   *)
(* variables: every submitted task is started at most once, the tasks of a *)
(* lane start in the order of their submission, and a task that waits for  *)
(* futures finishes only after the tasks that fulfil them.                 *)
(***************************************************************************)
EXTENDS Sequences

CONSTANTS Tasks, Lanes

VARIABLES
  waiting,   \* the tasks of each lane that have not started, in order
  running,   \* the tasks that started and have not finished
  needs,     \* the futures each task has still to get
  done       \* the tasks that finished

vars == <<waiting, running, needs, done>>

Listed(t, l) == \E i \in DOMAIN waiting[l] : waiting[l][i] = t
Known(t) == t \in running \cup done \/ \E l \in Lanes : Listed(t, l)

Init ==
  /\ waiting = [l \in Lanes |-> <<>>]
  /\ running = {} /\ done = {}
  /\ needs = [t \in Tasks |-> {}]

(* A new task joins the end of its lane; it may only wait for futures of   *)
(* tasks submitted earlier.                                                *)
Submit(t, l) ==
  /\ ~Known(t)
  /\ waiting' = [waiting EXCEPT ![l] = Append(@, t)]
  /\ \E D \in SUBSET {u \in Tasks : Known(u)} : needs' = [needs EXCEPT ![t] = D]
  /\ UNCHANGED <<running, done>>

Start(l) ==
  /\ waiting[l] # <<>>
  /\ running' = running \cup {Head(waiting[l])}
  /\ waiting' = [waiting EXCEPT ![l] = Tail(@)]
  /\ UNCHANGED <<needs, done>>

Receive(t) ==
  /\ t \in running
  /\ \E f \in needs[t] \cap done : needs' = [needs EXCEPT ![t] = @ \ {f}]
  /\ UNCHANGED <<waiting, running, done>>

Finish(t) ==
  /\ t \in running /\ needs[t] = {}
  /\ running' = running \ {t}
  /\ done' = done \cup {t}
  /\ UNCHANGED <<waiting, needs>>

Next ==
  \/ \E t \in Tasks : Receive(t) \/ Finish(t)
  \/ \E t \in Tasks, l \in Lanes : Submit(t, l)
  \/ \E l \in Lanes : Start(l)

Spec == Init /\ [][Next]_vars
=============================================================================
