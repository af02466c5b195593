------------------------------ MODULE StopState ------------------------------
(***************************************************************************)
(* detail::stop_state and stop_callback (Util/SyncPrimitives/              *)
(* SyncStoptoken.h): one stop state, the stop_callback objects that        *)
(* register with it, and the threads that construct and destroy them and   *)
(* request the stop.                                                       *)
(*                                                                         *)
(* A critical section under m_mutex is one step: the only thing another    *)
(* thread can do in the middle of one is to set the stop bit, and then the *)
(* section has read it already.  m_prev and m_next are kept as the code    *)
(* keeps them, because remove_callback decides from m_prev whether a       *)
(* callback is still listed.                                               *)
(*                                                                         *)
(* A thread has a stack of calls: a callback runs inside request_stop or   *)
(* inside register_callback, and may itself construct and destroy          *)
(* stop_callbacks, itself included.                                        *)
(***************************************************************************)
EXTENDS Naturals, Sequences

CONSTANTS
  Threads,    \* threads of the program
  Callbacks,  \* stop_callback objects, each constructed and destroyed once
  Null,       \* nullptr
  NoThread,   \* the default std::thread::id
  MaxDepth    \* bound: calls nested in one thread

ASSUME StopAssumption ==
  /\ Null \notin Callbacks
  /\ NoThread \notin Threads
  /\ MaxDepth \in Nat

VARIABLES
  requested,  \* stop_requested_bit of m_value
  sources,    \* whether a stop_source is left (m_value >= ssrc_counter_inc)
  requester,  \* m_requester
  head, prev, next,  \* m_head and, per callback, m_prev and m_next
  flagged,    \* callbacks whose m_destroyed points into request_stop
  destroyed,  \* the variable of request_stop that m_destroyed points to
  done,       \* callbacks with m_done set
  held,       \* callbacks whose stop_callback has m_state
  life,       \* stage of each stop_callback
  ran,        \* callbacks whose execution has begun (history)
  stack       \* calls each thread is in, innermost last

state == <<requested, sources, requester, head, prev, next, flagged, destroyed, done, held>>
vars == <<requested, sources, requester, head, prev, next, flagged, destroyed, done, held,
          life, ran, stack>>

Ref == Callbacks \cup {Null}

\* Places in a call: "notify" before m_requester is assigned, "pop" before a section of request_stop,
\* "run" and "lastrun" inside cb->run() there; "register" and "link" before the two tests of
\* register_callback, "selfrun" inside cb->run() there; "remove" and "away" in remove_callback.
Places == {"notify", "pop", "run", "lastrun", "register", "link", "selfrun", "remove", "away"}
InCallback == {"run", "lastrun", "selfrun"}
Frame == [at : Places, cb : Ref]

Top(t) == stack[t][Len(stack[t])]
At(t, place) == stack[t] # <<>> /\ Top(t).at = place
Call(t, place, c) == stack' = [stack EXCEPT ![t] = Append(@, [at |-> place, cb |-> c])]
Return(t) == stack' = [stack EXCEPT ![t] = SubSeq(@, 1, Len(@) - 1)]
Goto(t, place, c) ==
  stack' = [stack EXCEPT ![t] = Append(SubSeq(@, 1, Len(@) - 1), [at |-> place, cb |-> c])]

\* Code of the program that may call the operations: outside of them, or in a callback.
Free(t) ==
  \/ stack[t] = <<>>
  \/ /\ Len(stack[t]) \in 1 .. MaxDepth - 1
     /\ Top(t).at \in InCallback

Enter(c, stage) == life' = [life EXCEPT ![c] = stage]

TypeOK ==
  /\ requested \in BOOLEAN /\ sources \in BOOLEAN /\ destroyed \in BOOLEAN
  /\ requester \in Threads \cup {NoThread}
  /\ head \in Ref /\ prev \in [Callbacks -> Ref] /\ next \in [Callbacks -> Ref]
  /\ flagged \subseteq Callbacks /\ done \subseteq Callbacks
  /\ held \subseteq Callbacks /\ ran \subseteq Callbacks
  /\ life \in [Callbacks -> {"new", "constructing", "alive", "destroying", "dead"}]
  /\ stack \in [Threads -> Seq(Frame)]

Init ==
  /\ requested = FALSE /\ sources = TRUE /\ requester = NoThread
  /\ head = Null
  /\ prev = [c \in Callbacks |-> Null] /\ next = [c \in Callbacks |-> Null]
  /\ flagged = {} /\ destroyed = FALSE /\ done = {} /\ held = {} /\ ran = {}
  /\ life = [c \in Callbacks |-> "new"]
  /\ stack = [t \in Threads |-> <<>>]

-----------------------------------------------------------------------------
\* request_stop: the exchange that sets the bit; another caller finds it set and returns.
RequestStop(t) ==
  /\ Free(t) /\ sources /\ ~requested
  /\ requested' = TRUE
  /\ Call(t, "notify", Null)
  /\ UNCHANGED <<sources, requester, head, prev, next, flagged, destroyed, done, held, life, ran>>

\* m_requester = this thread
Notify(t) ==
  /\ At(t, "notify")
  /\ requester' = t
  /\ Goto(t, "pop", Null)
  /\ UNCHANGED <<requested, sources, head, prev, next, flagged, destroyed, done, held, life, ran>>

\* Bug: the new head keeps its link to the callback taken out.
PopKeepsPrev(t) ==
  /\ At(t, "pop")
  /\ IF head = Null
     THEN Return(t) /\ UNCHANGED <<state, ran>>
     ELSE /\ head' = next[head]
          /\ Goto(t, IF next[head] = Null THEN "lastrun" ELSE "run", head)
          /\ ran' = ran \cup {head}
          /\ destroyed' = FALSE
          /\ flagged' = flagged \cup {head}
          /\ UNCHANGED <<requested, sources, requester, prev, next, done, held>>
  /\ UNCHANGED life

\* One section of request_stop: take the first callback out and start to run it, or return.
Pop(t) ==
  /\ At(t, "pop")
  /\ \/ head = Null /\ Return(t) /\ UNCHANGED <<state, ran>>
     \/ /\ head # Null
        /\ head' = next[head]
        /\ prev' = [c \in Callbacks |-> IF c = next[head] THEN Null ELSE prev[c]]
        /\ Goto(t, IF next[head] = Null THEN "lastrun" ELSE "run", head)
        /\ ran' = ran \cup {head}
        /\ destroyed' = FALSE
        /\ flagged' = flagged \cup {head}
        /\ UNCHANGED <<requested, sources, requester, next, done, held>>
  /\ UNCHANGED life

\* Bug: m_done is not set for the last callback.
RunEndsLastUndone(t) ==
  /\ At(t, "run") \/ At(t, "lastrun")
  /\ IF destroyed
     THEN UNCHANGED <<flagged, done>>
     ELSE /\ flagged' = flagged \ {Top(t).cb}
          /\ done' = IF At(t, "lastrun") THEN done ELSE done \cup {Top(t).cb}
  /\ IF At(t, "lastrun") THEN Return(t) ELSE Goto(t, "pop", Null)
  /\ UNCHANGED <<requested, sources, requester, head, prev, next, destroyed, held, life, ran>>

\* A callback returns to request_stop.
RunEnds(t) ==
  /\ At(t, "run") \/ At(t, "lastrun")
  /\ IF destroyed
     THEN UNCHANGED <<flagged, done>>
     ELSE flagged' = flagged \ {Top(t).cb} /\ done' = done \cup {Top(t).cb}
  /\ IF At(t, "lastrun") THEN Return(t) ELSE Goto(t, "pop", Null)
  /\ UNCHANGED <<requested, sources, requester, head, prev, next, destroyed, held, life, ran>>

\* ~stop_source of the last source; nobody may be inside request_stop of a source being destroyed.
DropSource ==
  /\ sources /\ requested = FALSE
  /\ sources' = FALSE
  /\ UNCHANGED <<requested, requester, head, prev, next, flagged, destroyed, done, held, life, ran, stack>>

-----------------------------------------------------------------------------
\* stop_callback's constructor with a token of this state.
Construct(t, c) ==
  /\ Free(t) /\ life[c] = "new"
  /\ Enter(c, "constructing")
  /\ Call(t, "register", c)
  /\ UNCHANGED <<state, ran>>

\* register_callback runs the callback itself and will return false.
RunHere(t) ==
  /\ Goto(t, "selfrun", Top(t).cb)
  /\ ran' = ran \cup {Top(t).cb}
  /\ UNCHANGED <<state, life>>

\* The first test of register_callback, without the lock.
Register(t) ==
  /\ At(t, "register")
  /\ \/ requested /\ RunHere(t)
     \/ ~requested /\ Goto(t, "link", Top(t).cb) /\ UNCHANGED <<state, life, ran>>

\* The callback becomes the first of the list.
PushFront(c) ==
  /\ next' = [next EXCEPT ![c] = head]
  /\ prev' = [d \in Callbacks |-> IF d = head THEN c ELSE prev[d]]
  /\ head' = c
  /\ held' = held \cup {c}

\* Bug: register_callback does not test again under the lock.
LinkUntested(t) ==
  /\ At(t, "link")
  /\ Return(t)
  /\ Enter(Top(t).cb, "alive")
  /\ IF sources
     THEN PushFront(Top(t).cb) /\ UNCHANGED <<requested, sources, requester, flagged, destroyed, done>>
     ELSE UNCHANGED state
  /\ UNCHANGED ran

\* The section of register_callback; the constructor returns unless the callback is to run.
Link(t) ==
  /\ At(t, "link")
  /\ \/ requested /\ RunHere(t)
     \/ /\ ~requested
        /\ Return(t)
        /\ Enter(Top(t).cb, "alive")
        /\ \/ ~sources /\ UNCHANGED state
           \/ /\ sources
              /\ PushFront(Top(t).cb)
              /\ UNCHANGED <<requested, sources, requester, flagged, destroyed, done>>
        /\ UNCHANGED ran

\* A callback returns to register_callback and the constructor returns.
SelfRunEnds(t) ==
  /\ At(t, "selfrun")
  /\ Return(t)
  /\ Enter(Top(t).cb, "alive")
  /\ UNCHANGED <<state, ran>>

-----------------------------------------------------------------------------
\* ~stop_callback: nothing to do unless registered.
Destroy(t, c) ==
  /\ Free(t) /\ life[c] = "alive"
  /\ \/ c \notin held /\ Enter(c, "dead") /\ UNCHANGED stack
     \/ c \in held /\ Enter(c, "destroying") /\ Call(t, "remove", c)
  /\ UNCHANGED <<state, ran>>

\* The section of remove_callback: take the callback out of the list where it is the first or has
\* a predecessor.
Remove(t) ==
  /\ At(t, "remove")
  /\ LET c == Top(t).cb IN
       \/ /\ c = head \/ prev[c] # Null
          /\ head' = IF c = head THEN next[c] ELSE head
          /\ next' = [d \in Callbacks |-> IF c # head /\ d = prev[c] THEN next[c] ELSE next[d]]
          /\ prev' = [d \in Callbacks |->
                        IF d = next[c] THEN (IF c = head THEN Null ELSE prev[c]) ELSE prev[d]]
          /\ Return(t) /\ Enter(c, "dead")
       \/ /\ c # head /\ prev[c] = Null
          /\ Goto(t, "away", c)
          /\ UNCHANGED <<head, next, prev, life>>
  /\ UNCHANGED <<requested, sources, requester, flagged, destroyed, done, held, ran>>

\* Bug: the destructor does not wait for another thread that runs the callback.
AwayAtOnce(t) ==
  /\ At(t, "away")
  /\ destroyed' = IF requester = t /\ Top(t).cb \in flagged THEN TRUE ELSE destroyed
  /\ Return(t) /\ Enter(Top(t).cb, "dead")
  /\ UNCHANGED <<requested, sources, requester, head, prev, next, flagged, done, held, ran>>

\* request_stop took the callback out.  Another thread than the requester waits for m_done; the
\* requester tells request_stop, if it is running this callback, that the object is gone.
Away(t) ==
  /\ At(t, "away")
  /\ \/ requester # t /\ Top(t).cb \in done /\ UNCHANGED destroyed
     \/ requester = t /\ destroyed' = (destroyed \/ Top(t).cb \in flagged)
  /\ Return(t) /\ Enter(Top(t).cb, "dead")
  /\ UNCHANGED <<requested, sources, requester, head, prev, next, flagged, done, held, ran>>

-----------------------------------------------------------------------------
\* What a thread does of its own accord, and what it does next in a call.
Start(t) == RequestStop(t) \/ \E c \in Callbacks : Construct(t, c) \/ Destroy(t, c)
Proceed(t) ==
  \/ Notify(t) \/ Pop(t) \/ RunEnds(t)
  \/ Register(t) \/ Link(t) \/ SelfRunEnds(t)
  \/ Remove(t) \/ Away(t)

Next == DropSource \/ \E t \in Threads : Start(t) \/ Proceed(t)

Spec == Init /\ [][Next]_vars

\* Threads run, locks are granted and callbacks return.
FairSpec == Spec /\ \A t \in Threads : WF_vars(Proceed(t))

-----------------------------------------------------------------------------
\* The list as the pointers describe it.
Listed(c) == c = head \/ prev[c] # Null

\* Nothing that request_stop, register_callback or remove_callback will dereference belongs to an
\* object whose destructor has returned: not the list, its links, nor the callback being run unless
\* request_stop was told.  (m_prev decides in remove_callback whether to wait at all.)
NoUseAfterDestroy ==
  \A c \in Callbacks : life[c] = "dead" =>
    /\ c # head
    /\ \A d \in Callbacks : life[d] # "dead" /\ Listed(d) => c \notin {next[d], prev[d]}
    /\ \A t \in Threads : \A i \in DOMAIN stack[t] :
         stack[t][i].cb = c => stack[t][i].at \in {"run", "lastrun"} /\ destroyed

\* When request_stop has returned, every callback that was registered and not destroyed has been
\* run to its end: none slips in behind the loop that empties the list.
Requesting == \E t \in Threads : \E i \in DOMAIN stack[t] : stack[t][i].at \in {"notify", "pop", "run", "lastrun"}
NoneMissed ==
  requested /\ ~Requesting => \A c \in held : life[c] \in {"alive", "destroying"} => c \in done

\* A destructor returns, whatever other threads do meanwhile: nobody waits for a callback that
\* waits for him.
DestroyReturns == \A c \in Callbacks : life[c] = "destroying" ~> life[c] = "dead"

\* The thread that has a call about c at one of these places.
ThreadAt(c, places) ==
  LET threads == {t \in Threads : \E i \in DOMAIN stack[t] :
                    stack[t][i].cb = c /\ stack[t][i].at \in places}
  IN IF threads = {} THEN NoThread ELSE CHOOSE t \in threads : TRUE

\* The stop state keeps the promise of StopToken.
Token == INSTANCE StopToken WITH
           runner <- [c \in Callbacks |-> ThreadAt(c, InCallback)],
           destroyer <- [c \in Callbacks |-> ThreadAt(c, {"remove", "away"})]
ImplementsToken == Token!Spec
=============================================================================
