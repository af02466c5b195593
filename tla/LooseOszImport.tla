--------------------------- MODULE LooseOszImport ---------------------------
(***************************************************************************)
(* Database::importLooseOsz on the pool.  The database loader is itself a  *)
(* background task; it fans the .osz extractions out to the background     *)
(* lane through a sliding window and blocks on their futures in order.     *)
(* Next to it, Osu::saveScreenshot submits a background task and chains    *)
(* then_on_main to it, whose bridging task runs on the foreground lane.    *)
(* The bodies are those of the code; the pool is AsyncPool.                *)
(***************************************************************************)
EXTENDS AsyncPool

CONSTANTS
  Loader,   (* the task of db_load_handle                                  *)
  Oszs,     (* the extraction tasks, a sequence in the order of the files  *)
  Window,   (* window_size                                                 *)
  Bridge    (* maps each screenshot task to its then_on_main bridging task *)

Shots == DOMAIN Bridge
Bridges == {Bridge[s] : s \in Shots}
Extractions == {Oszs[i] : i \in DOMAIN Oszs}

(* Every task is submitted once and for one purpose; window_size is at     *)
(* least 1.                                                                *)
ASSUME ImportAssumption ==
  /\ Window \in Nat \ {0}
  /\ Oszs \in Seq(Tasks)
  /\ \A i, j \in DOMAIN Oszs : Oszs[i] = Oszs[j] => i = j
  /\ Bridge \in [Shots -> Tasks] /\ Shots \subseteq Tasks /\ IsFiniteSet(Shots)
  /\ \A s, u \in Shots : Bridge[s] = Bridge[u] => s = u
  /\ Loader \in Tasks \ (Extractions \cup Shots \cup Bridges)
  /\ Extractions \cap (Shots \cup Bridges) = {} /\ Shots \cap Bridges = {}

VARIABLE cancelled   \* db_load_handle.stop was requested

importVars == <<vars, cancelled>>

(* How many extractions were submitted and how many results were received; *)
(* meant for when the loader is between two calls (pc "run").              *)
Submitted == Cardinality({i \in DOMAIN Oszs : Pushed(Oszs[i])})
Received == Cardinality({i \in DOMAIN Oszs :
                           Pushed(Oszs[i]) /\ Oszs[i] \notin holds[Loader]})

(* The loader primes the window, then after each get() submits the next.   *)
(* Bug: one extraction too many in flight.                                 *)
WantsSubmitBeyond == Submitted < Len(Oszs) /\ Submitted <= Received + Window

WantsSubmit == Submitted < Len(Oszs) /\ Submitted < Received + Window
LoaderSubmits(w) ==
  /\ pc[w] = "run" /\ cur[w] = Loader /\ WantsSubmit
  /\ Push(w, Oszs[Submitted + 1], Bg)
  /\ captured'[Oszs[Submitted + 1]] = {}
  /\ UNCHANGED cancelled

(* isCancelled() is read before each get().                                *)
LoaderGets(w) ==
  /\ pc[w] = "run" /\ cur[w] = Loader /\ ~WantsSubmit
  /\ Received < Len(Oszs) /\ ~cancelled
  /\ Block(w, Oszs[Received + 1])
  /\ UNCHANGED cancelled

(* Bug: a cancelled import waits for the remaining results.                *)
LoaderReturnsWhole == ~WantsSubmit /\ Received = Len(Oszs)

LoaderReturns == ~WantsSubmit /\ (cancelled \/ Received = Len(Oszs))

(* Every other body neither submits nor waits, except for the bridge.      *)
PoolStep(w) ==
  /\ WorkerStep(w) \/ Await(w) \/ Resume(w) \/ SubmitStep(w)
  /\ pc[w] = "run" /\ cur[w] = Loader => LoaderReturns
  /\ UNCHANGED cancelled

(* The main thread starts the loader, cancels it, takes screenshots.       *)
MainSubmits ==
  /\ \/ Push(Main, Loader, Bg) /\ captured'[Loader] = {}
     \/ \E s \in Shots :
          \/ Push(Main, s, Bg) /\ captured'[s] = {}
          \/ /\ s \in holds[Main]
             /\ Push(Main, Bridge[s], Fg) /\ captured'[Bridge[s]] = {s}
  /\ UNCHANGED cancelled
MainCancels ==
  /\ pc[Main] = "run" /\ ~cancelled /\ Loader \in holds[Main]
  /\ cancelled' = TRUE
  /\ UNCHANGED vars

ImportInit == Init /\ cancelled = FALSE
ImportNext ==
  \/ \E w \in Workers : LoaderSubmits(w) \/ LoaderGets(w) \/ PoolStep(w)
  \/ SubmitStep(Main) /\ UNCHANGED cancelled
  \/ MainSubmits \/ MainCancels
ImportSpec ==
  /\ ImportInit /\ [][ImportNext]_importVars
  /\ WF_importVars(SubmitStep(Main) /\ UNCHANGED cancelled)
  /\ \A w \in Workers :
       WF_importVars(LoaderSubmits(w) \/ LoaderGets(w) \/ PoolStep(w))

-----------------------------------------------------------------------------
(* The loader blocks on sub-tasks of its own pool, and still it returns.   *)
ImportFinishes == Pushed(Loader) ~> Loader \in ready

(* What the loader submitted and has not received: it holds the future, or *)
(* is about to return from the submit().                                   *)
Owed(x) ==
  \/ x \in holds[Loader]
  \/ \E w \in Workers : cur[w] = Loader /\ Submitting(w) /\ arg[w] = x

(* The sliding window bounds how many extractions are in flight, so that   *)
(* extracted folders cannot pile up on disk.                               *)
InFlight(x) == Pushed(x) /\ (x \notin ready \/ Owed(x))
WindowBound == Cardinality({i \in DOMAIN Oszs : InFlight(Oszs[i])}) <= Window

-----------------------------------------------------------------------------
(* A pool in which the loader and the bridges cannot hold every thread: a  *)
(* second background worker, which never runs a bridge, or more foreground *)
(* workers than screenshots that may be in flight.                         *)
Enough ==
  \/ Cardinality(BgWorkers) > 1
  \/ Cardinality(FgWorkers) > Cardinality(Shots)

(* The inductive invariant of the proofs.                                  *)

(* What the bodies leave true of the pool: nobody shuts it down, only the  *)
(* bridges run on the foreground lane, a bridge captures its screenshot    *)
(* and no other task captures anything, and whoever waits for a future     *)
(* waits for a task that was pushed.                                       *)
BodyInv ==
  /\ ~m_shutdown /\ \A w \in Workers : pc[w] # "exited"
  /\ \A t \in Tasks : Pushed(t) => (lane[t] = Fg <=> t \in Bridges)
  /\ \A w \in BgWorkers : cur[w] # None => lane[cur[w]] = Bg
  /\ \A t \in Tasks : captured[t] # {} =>
       \E s \in Shots : t = Bridge[s] /\ captured[t] = {s} /\ Pushed(s)
  /\ \A a \in Clients \cup Tasks : \A f \in holds[a] : Pushed(f)
  /\ \A th \in Threads : Submitting(th) => Pushed(arg[th])
  /\ \A w \in Workers : pc[w] = "blocked" =>
       \/ cur[w] = Loader /\ arg[w] \in Extractions /\ Pushed(arg[w])
       \/ cur[w] # Loader /\ arg[w] \in captured[cur[w]]

(* p extractions were submitted and r results received, in the order of    *)
(* the files, never more than the window apart; a blocked loader waits for *)
(* the oldest result it is owed.                                           *)
Slid(p, r) ==
  /\ r <= p /\ p <= r + Window
  /\ \A i \in DOMAIN Oszs :
       /\ Pushed(Oszs[i]) <=> i <= p
       /\ Owed(Oszs[i]) <=> (r < i /\ i <= p)
       /\ i <= r => Oszs[i] \in ready
  /\ \A w \in Workers : cur[w] = Loader /\ pc[w] = "blocked" =>
       r < p /\ arg[w] = Oszs[r + 1]
WindowInv == \E p, r \in 0 .. Len(Oszs) : Slid(p, r)

ImportInv ==
  /\ TypeOK /\ StampInv /\ LocationInv /\ OrderInv /\ NoLostWakeup
  /\ BodyInv /\ WindowInv
=============================================================================
