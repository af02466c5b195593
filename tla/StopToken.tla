------------------------------ MODULE StopToken ------------------------------
(***************************************************************************)
(* What Sync::stop_source, stop_token and stop_callback promise: a         *)
(* callback runs at most once, only after a stop was requested and only    *)
(* while its object exists; its destructor returns while the callback is   *)
(* executing in no other thread.                                           *)
(***************************************************************************)
CONSTANTS
  Threads,    \* threads of the program
  Callbacks,  \* stop_callback objects, each constructed once
  NoThread    \* not a thread

VARIABLES
  requested,  \* a stop was requested
  life,       \* stage of each object
  ran,        \* callbacks whose execution has begun
  runner,     \* the thread that executes a callback, NoThread if none does
  destroyer   \* the thread that destroys an object, NoThread if none does

vars == <<requested, life, ran, runner, destroyer>>

Init ==
  /\ requested = FALSE
  /\ life = [c \in Callbacks |-> "new"]
  /\ ran = {}
  /\ runner = [c \in Callbacks |-> NoThread]
  /\ destroyer = [c \in Callbacks |-> NoThread]

Stop == requested' = TRUE /\ UNCHANGED <<life, ran, runner, destroyer>>

Advance(c, from, to) ==
  /\ life[c] = from
  /\ life' = [life EXCEPT ![c] = to]

\* A constructor begins and returns; where it ran the callback, the execution is over.
Construct(c) == Advance(c, "new", "constructing") /\ UNCHANGED <<requested, ran, runner, destroyer>>
Constructed(c) ==
  /\ Advance(c, "constructing", "alive")
  /\ runner' \in {runner, [runner EXCEPT ![c] = NoThread]}
  /\ UNCHANGED <<requested, ran, destroyer>>

\* A destructor begins in thread t and returns there.
Destroy(c, t) ==
  /\ Advance(c, "alive", "destroying")
  /\ destroyer' = [destroyer EXCEPT ![c] = t]
  /\ UNCHANGED <<requested, ran, runner>>
Destroyed(c) ==
  /\ Advance(c, "destroying", "dead")
  /\ runner[c] \in {NoThread, destroyer[c]}
  /\ destroyer' = [destroyer EXCEPT ![c] = NoThread]
  /\ UNCHANGED <<requested, ran, runner>>

\* The destructor of a callback that nobody runs any more need not be noticed.
DestroyedAtOnce(c) ==
  /\ Advance(c, "alive", "dead")
  /\ runner[c] = NoThread
  /\ UNCHANGED <<requested, ran, runner, destroyer>>

Begin(c, t) ==
  /\ requested
  /\ c \notin ran
  /\ life[c] \in {"constructing", "alive", "destroying"}
  /\ ran' = ran \cup {c}
  /\ runner' = [runner EXCEPT ![c] = t]
  /\ UNCHANGED <<requested, life, destroyer>>

End(c) ==
  /\ runner[c] # NoThread
  /\ runner' = [runner EXCEPT ![c] = NoThread]
  /\ UNCHANGED <<requested, life, ran, destroyer>>

Next ==
  \/ Stop
  \/ \E c \in Callbacks :
       \/ Construct(c) \/ Constructed(c) \/ Destroyed(c) \/ DestroyedAtOnce(c) \/ End(c)
       \/ \E t \in Threads : Destroy(c, t) \/ Begin(c, t)

Spec == Init /\ [][Next]_vars
=============================================================================
