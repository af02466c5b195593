# neomod: specifications of the concurrent core

neomod is a rhythm-game client: one main thread runs the game frame by frame (`Engine::onUpdate`), and a handful of
mechanisms move work away from it: a thread pool, a resource loader on top of the pool, a network thread around curl,
and stop tokens that cancel work across threads. On these rest the protocols of the game: a session with a Bancho
server, downloads that become maps in the database, and the control of a play (pause, retry, fail, replay). This
directory models these parts in TLA+, checks them with TLC on small instances and proves their safety with TLAPS, for
every size; the pool and the stop state are also proved to implement abstract specifications.

- [Inventory](#inventory) of the system: components, state, operations, interactions, what is hard
- [Modules](#modules) and how they correspond to the code
- [Runs](#runs), bounds and fairness
- [Proofs](#proofs)
- [Findings](#findings)
- [Not modelled](#not-modelled)
- [Plan](#plan)

Paths below are relative to `src/` of the repository; line numbers are in `PROJECT.json` (`map`).

## Inventory

### Modelled

| component | state | operations | talks to |
|---|---|---|---|
| `AsyncPool` (`Engine/Async`) | two task queues, one mutex, a condition variable per lane, `m_pending`, `m_shutdown`, threads per lane; a promise per task | `submit`, `dispatch`, worker loops, `shutdown`, `Future::get/wait`, `then`, `when_all`, `then_on_main` (bridging tasks) | everything that leaves the main thread |
| Database loader, `importLooseOsz` | window of futures, cancellation | runs on the pool, fans out to the pool, blocks on it | pool, main thread |
| Stop tokens (`Util/SyncPrimitives`) | stop bit, requester, list of callbacks, flags of the callback that runs | `request_stop`, construction and destruction of `stop_callback`, from any thread and from inside a callback | pool, network, loader |
| Resource loading (`Engine/Resources`) | managed resources, `m_inFlight`, pending reloads, destroy queue; per resource the flags ready, async-ready, interrupted | load, reload, destroy (deferred, blocking, without delete), `update` per frame, closing | pool tasks run `initAsync`; main thread runs `init` |
| `NetworkHandler` | pending, active and completed requests, responses of synchronous requests, websocket buffers, the wakeup of `curl_multi_poll` | asynchronous and synchronous requests, stop tokens, websocket write/read, `update` per frame, closing | curl, Bancho session, downloads |
| Downloads: `Downloader`, `BeatmapInstaller`, `MapFetcher` | queue of requests, pacing per host, stages per installation, extraction jobs, target of the fetcher | enqueue, cancel, responses, extraction, import, retry after failure, resolving a map to its set, disconnect | network, pool, database |
| Bancho session | online status, user id, tokens, poll timer, websocket, outgoing packets, time-out | login by password or browser, polling, fallback from websocket to HTTP, packets that end a session, disconnect | network |
| Control of a play (`BeatmapInterface`, `PauseOverlay`, `LegacyReplay`) | flags for playing, paused, continuing, waiting, retry, failure, replay; the music | start, pause, continue, retry, quick retry, fail, seek, end of the map, download of a replay | engine's frame, network |

Hard behaviours, and what correct means:

- *Pool*: notification after unlocking, stealing across lanes, tasks that block on tasks, shutdown against queued work
  and late submissions, a counter changed by two threads without an order. No lost wakeup, no deadlock among bridging
  tasks, everything accepted before shutdown is done, each lane starts its tasks in order, each task runs once.
- *Import*: a pool task waiting for its own pool. It finishes, and its window bounds the work in flight.
- *Stop tokens*: a request against registration and destruction, from another thread or from the callback itself. No
  access to a dead callback, none missed, none run twice, no destructor returns while another thread is inside.
- *Resource loading*: reload, destroy and closing requested while a worker is inside `initAsync`; lists of raw pointers
  that outlive calls. No load of a deleted resource, never two loads of one resource, `initAsync` undisturbed by the
  main thread, deferred work carried out, destroy beats reload; where a wait breaks some of this, nothing else does.
- *Network*: requests and stops against a thread about to sleep, a stop racing completion, a blocking wait of the main
  thread, partial sends on a websocket. A request is in one place at a time and answered once, stopped requests stay
  silent, the network thread never sleeps over news, websocket data is neither lost nor reordered.
- *Downloads*: an entry cancelled in any stage, two entries for one set, folders half written, answers that arrive when
  their question is stale, files that cannot be written, a queue that nobody restarts. Every transfer is wanted, a retry
  does not see the old result, an entry ends and the fetcher reaches a verdict unless the queue stalls, and a verdict of
  "mismatch" has one of four reasons.
- *Session*: answers of one session that arrive in the next, packets that end the session in the middle of a batch, a
  websocket that is given up with output in it. No packet crosses sessions, what is shown agrees with who is logged in,
  a login in progress can end, a silent server is noticed unless the client keeps asking it for something.
- *Play control*: a dozen flags changed by keys, clicks, lost focus, timers and downloads in one frame. The map in play
  is updated, the music agrees with the flags, the player's own score is kept as his own, what makes an attempt unfit to
  be submitted stays until the attempt is over, a requested retry happens.

### Not modelled yet (see the plan)

| component | state and operations | what is hard |
|---|---|---|
| continuations: `queue_main`, `Channel`, `CancellableHandle` | main-thread queue; handles that cancel when destroyed | a callback that runs after its handle is gone; status read before the callback runs |
| `AsyncIOHandler` | operations in the platform's queue, contexts | partial results, close after write, shutdown with operations pending |
| `DirectoryWatcher` | one polling thread, a map under a mutex | events collected while a directory is unwatched |
| star-rating workers | batch, live and on-demand calculation on the pool | results of a calculation that was superseded |

The components left out for good are listed under [Not modelled](#not-modelled).

Interaction: all components meet in the main thread, which calls, every frame and in this order, the I/O handler's, the
pool's, the directory watcher's, the resource manager's and the network handler's `update` (`Engine::onUpdate`), then
the game's; at exit it destroys the resource manager, shuts the pool down and then destroys the network handler, in
that order. So resources are closed while the pool still runs their loads, and pool tasks may still wait for the
network. A module takes from its neighbours what their modules establish: the session and the downloads use that a
stopped request stays silent and that an answer comes once (`NetworkHandler`), the loader and the extractions that a
task runs once (`TaskLanes`), the import that futures are set by finished tasks (it is composed with `AsyncPool`).

## Modules

`TaskLanes` - what the pool promises: each task once, in order per lane, no task finishing before the ones whose
futures it needs.

`AsyncPool` - the pool. A critical section under `m_workMutex` is one step; what `submit` does after unlocking
(`PendingAdd`, `NotifyBg`, `NotifyFg`) and what a worker does after `execute` (`PendingSub`) are steps of their own. A
condition variable is the set of threads with pc `cvwait`; `NotifyOne` picks any of them or nobody if there is none.
`FgCheck`/`BgCheck` are one iteration of a worker loop from locking to executing, waiting or returning, `Push` is the
locked part of `submit` and `dispatch`, `Shutdown*` the steps of `shutdown`. A task is an opaque body that submits
tasks and gets the futures it captured (`Await`, `Resume`, `Finish`); a task captures, at its submission, futures its
submitter holds, which is what `then`, `then_on_main` and `when_all` do. `stamp`, `pushes` and `cut` are history: the
rank of each push and how many there were when the shutdown flag was set. `AsyncPoolProofs` holds the proofs.

`LooseOszImport` - `Database::importLooseOsz` as bodies of tasks on `AsyncPool`, next to the task and the bridging task
of `Osu::saveScreenshot`. Here a task waits for futures of tasks it submitted itself, which `AsyncPool` alone does not
allow. `LooseOszImportProofs` holds the proofs; it extends the pool's.

`StopToken` - what stop sources, tokens and callbacks promise: a callback runs at most once, after the request and
while its object exists; its destructor returns while no other thread executes it.

`StopState` - `detail::stop_state` and `stop_callback`. A section under `m_mutex` is one step; `head`, `prev` and
`next` are the list as the code keeps it, because `remove_callback` decides from `m_prev` whether a callback is still
listed. A thread has a stack of calls, as callbacks run inside `request_stop` or a constructor and may construct and
destroy callbacks, themselves included. `flagged` and `destroyed` are the flag on `request_stop`'s stack through which a
callback that deletes itself tells it so. `StopStateProofs` holds the proofs.

`ResourceLoader` - `ResourceManager`, `AsyncResourceLoader` and the flags of `Resource`. The pool is any number of
workers that take loads in any order. `data` is what a resource contains: `raw` stands for `bAsyncReady`, `ready` for
`bReady`, `partial` for a load under way. `status` says whether it is alive, handed over for deletion, deleted, or
destroyed with `RDF_NODELETE` (`kept`). Statements of the main thread that touch nothing a worker writes are one step;
`update` is a step per entry of `m_inFlight` it looks at, then `InitCollected`, `ReloadCollected`, and a step per entry
of the destroy queue (`DestroyEntry`). A call that blocks in `waitForResource` is `Blocks`, `WaitEnds`, `AfterWait`;
`WaitForResource` is the public method, which waits without interrupting and which nothing in the repository calls. When
the wait ends, a reload that was deferred is requested again (`AsyncResourceLoader.cpp:183`), and a caller that is a
destroy or a synchronous reload then releases the resource under that load. What follows is undefined; `overtaken` is
history, the resources to which this happened. `ResourceLoaderProofs` holds the proofs.

`NetworkHandler` - requests and websockets. The network thread is one pass of `threadLoopFunc` after the other, with
a step per request or socket it looks at; `request_queue_mutex` is held from `Loop` until `NewRequestsTaken`. The main
thread's calls that end in `curl_multi_wakeup` are two steps. The wait of a synchronous request is split into the
evaluation of its predicate and the wait, as only the former holds the mutex under which the notification is sent. curl
and the servers are `wire` and the external actions. A request of kind `Async` has a stop token of its own and a
callback. `NetworkProofs` holds the proofs.

`MapDownloads` - `Downloader`, `BeatmapInstaller` and `MapFetcher` together. A frame has three parts: responses and
user input in any order, `BeatmapInstaller::update` entry by entry (`at` is the entry it is at), `MapFetcher::tick`.
Transfers, the workers that extract archives into `maps/`, the pacing and the refresh of the database act at any time.
`disk` is what the folders contain, map by map; an extraction whose entry was cancelled goes on (`orphans`). An
extraction is a step per file: a file is written, or skipped because it cannot be written (`Fragile`, or its folder was
deleted meanwhile), and the extraction fails only if none was written, deleting the folder if it made it. The queue of
the `Downloader` holds requests weakly: one whose entry dropped it is gone, which is `handle`. There is one host, and a
transfer may end before its pause does. `fetcher.cut` and `lost` are history: the entry the fetcher follows was dropped
by somebody, or failed while another import hid it; the maps that could not be written into a set's folder, or were
deleted with it. `Attentive` says
that the fetcher's screen calls `tick` in every frame, as `MapFetcher.h:49` asks. `MapDownloadsProofs` holds the proofs.

`BanchoSession` - `BanchoState`, `BanchoNetworking` and the packets that end or change a session. `update_networking`
is three steps, as the network thread changes the websocket's status meanwhile. The packets of a response are handled
one by one, whatever they do to the session. A token or an outgoing packet is the number of the attempt to log in it
belongs to, so that what arrives late is told from what is current. Login requests have stop tokens; requests that
carry packets have none and may be answered in the next session. Time is a counter of ticks since the last packet and
to the expected pong. `asking` says that something on the screen makes `update_networking` request missing presences
or stats, which it may do once per tick (`BanchoNetworking.cpp:239-248`) and which keeps a PING from being queued.
`BanchoSessionProofs` holds the proofs.

`PlayControl` - one player at one map. A frame is input, the overlay's tick, `BeatmapInterface::update`, scrubbing and
quick retry; whether the map is in play is tested once per frame, so that the last parts run whatever the earlier did
(`Osu.cpp:651-756`). The methods call one another, so an operator takes the flags and what the world decides in the
step, and returns the flags its method leaves. `settled` is the end of `unpause_continue_delay`, which is assumed to
last a frame or more. What became of the last attempt and whose it is are history.
`PlayControlProofs` holds the proofs.

`MC*` - constants, symmetry and constraints for TLC. Definitions under a comment that begins with "Bug:" are faulty
variants used to see that a property notices them; nothing else refers to them.

## Runs

| run | question | instance |
|---|---|---|
| `pool` | types, no lost wakeup, no deadlock among bridging tasks, shutdown drains and returns, accepted work is done, `m_pending` never drifts, the pool implements `TaskLanes` | 1 worker per lane, a client, 3 tasks named in the order of their pushes, a counter of width 4 |
| `osz_import` | the import returns, cancelled or not, and its window bounds the extractions in flight | 2+1 workers, 2 archives, window 1, a screenshot with its bridge |
| `stop_state` | no access to a dead callback, none missed, a destructor returns, the state implements `StopToken` | 3 threads, 3 callbacks constructed in order, calls nested up to 3 deep |
| `resources` | no dangling pointer, loads undisturbed and destroy cancels reload but for overtaken resources; one load at a time, closing leaves nothing, deferred work is carried out | 2 resources, 3 loads, batches of up to 2 |
| `network` | one place per request, no missed wakeup, stopped requests silent, websocket streams intact | one request of each kind, 2 writes, 2 chunks, any handle may be refused |
| `network_sync` | violated: a synchronous request returns | one asynchronous and one synchronous request |
| `downloads` | transfers are wanted, a retry is fresh, a mismatch has a reason; the fetcher reaches a verdict and entries end unless the queue stalls for good | 2 sets, 1 local file, 3 maps, one of them not always writable, 2 interventions |
| `downloads_partial` | violated: a download reported as imported is whole | the same with whole archives, every file writable, empty folders, 3 interventions |
| `session` | a login in progress can end, status and user agree, packets stay in their session, a dead server is noticed | 2 attempts to log in, 1 packet besides the requests of every tick, time-out of 2 ticks, polls up to 3 ticks apart |
| `session_token` | violated: who is logged in can send | the same, no rooms |
| `play` | a map in play is updated, music and flags agree, a kept score is the player's own, marks stay with an attempt, a retry happens | one player, the server forbids to submit after a pause |
| `play_jump` | violated: the jump to the first object follows a quick retry only | one player, no such rule |

Bounds. *Pool*: with one worker per lane each lane is both served and stolen from; three tasks show two chained
bridges on a third task. More workers add competition for one queue, which the proofs cover for any number.
`PendingMod` is the width of `m_pending`, small so that it wraps. *Import*: the code's window is at least 4 or the
number of archives; window 1 with two archives makes the refill happen, window 2 is the case where it does not. Two
foreground workers are more than the screenshots that may be in flight, so the pool is one that `Enough` describes;
whether all threads can be blocked is not a question for this instance, which has more workers than tasks that block,
but for `ImportIsDeadlockFree`. An instance with as many such tasks as workers, which only the separation of the lanes
saves (one foreground and two background workers, two screenshots), has over eight million states, too many for a run;
in those that TLC reached it found no deadlock. *Stop state*: one thread requests, one destroys, one registers; three
callbacks are the first, a middle and the last of the list, and depth 3 is a callback that constructs one which runs
at once and destroys the outer. *Resources*: a second load of a resource while the first is collected, waited for or
interrupted, with another resource in the queues, needs three loads; `MaxLoads` reserves one for each deferred reload,
so that the bound never stops a reload the loader owes. *Network*: the requests interact through the queue, the wakeup
flag and the two threads only, and one of each kind meets all of it; two writes are what a partial send can reorder,
two chunks are one frame. *Downloads*: one set with two maps, one with one, a file that resolves to the first set and
a map the server still lists although its archive has lost it; an intervention is anything users, rooms or refreshes
do (`MaxActs`), and two meet in every pair of stages. `Leftovers` lets folders be empty or partial at the start;
`Fragile` are the maps whose files may not be writable, one of them in the archive of a set and of the file.
*Session*: two attempts to log in show what one session leaves to the next; `ServerAssumption` says who may be told
what: only the answer to a login accepts or refuses a user, at most once; it may ask for another login before or after
(`Bancho.cpp:734-735`). *Play*: the flags are finite and no bound is needed.

Fairness. `AsyncPool`: threads that can run do run, and task bodies end; no fairness for submissions, for spurious
wakeups or for the decision to shut down. `StopState`: a thread inside a call goes on. `ResourceLoader`: workers run and
`initAsync` returns; the main thread continues what it began; `update` is called again and again (strongly fair, as
other calls of the main thread come in between), which is what `Engine::onUpdate` does every frame. `NetworkHandler`:
both threads run, the poll has a timeout of a minute, and curl ends HTTP transfers that exceed their time; nothing is
assumed of the servers. `MapDownloads`: frames go on, workers extract, the pause of a host and a refresh of the database
end, a transfer ends (curl's limits), and a query that is asked again and again is answered once (strong: cancelling
drops the question). `BanchoSession`: frames go on, and the clock moves although it waits for an update between two
ticks (strong). `PlayControl`: frames go on. A future's promise, once set, stays set, so weak fairness of a waiting
thread suffices.

`CHECK_DEADLOCK FALSE` except in the play runs: the other systems may fall idle and may be closed. That the pool does
not stop with work left is the invariant `NoPoolDeadlock`.

## Proofs

Every theorem holds for all values of the constants that satisfy the module's named assumption.

`AsyncPoolProofs`, for every finite number of workers (at least one per lane), clients and tasks:

- `TypeCorrect`: `Spec => []TypeOK`.
- `NoWakeupIsLost`: `Spec => []NoLostWakeup`.
- `DrainIsComplete`: `Spec => []ShutdownDrains`.
- `PoolIsDeadlockFree`: `Spec => []NoPoolDeadlock`.
- `Invariance`: `Spec => []IInv`, from which the last three follow.
- `BothLanesStaffed`: the constructor's arithmetic gives each lane a worker for every processor count, the assumption
  the others start from.

Assumptions: `PoolAssumption` (finite sets, disjoint kinds of threads, one worker per lane) and that the task values
are not threads' names. Nothing is assumed of task bodies beyond the model: a task awaits futures it captured when it
was submitted.

The argument. `NoLostWakeup` alone is almost inductive: while a worker of a lane sleeps, every queued task it could
take is covered by a thread that is awake and will look at the queues, or by a submitter that has not notified yet. A
worker that takes a task lowers both sides by one, so one notification per push is enough even though it is late. For
deadlock freedom the invariant needs ranks: pushes are numbered (`StampInv`), queues are sorted by rank and a worker's
task was pushed before everything in the queue it serves first (`OrderInv`), each pushed task is queued, with exactly
one worker, or done (`LocationInv`), futures go to earlier tasks only (`FutureInv`), and a worker has exited only when
no early work is left for it (`ExitInv`). Then take the unfinished early task with the smallest rank
(`OldestUnfinished`, by well-founded induction on the ranks): if a worker has it, it waits for nothing that is
unfinished, so the worker can step; if it is queued, a worker of its lane is either executing an earlier task, which
is impossible, or awake, or asleep, and then `NoLostWakeup` names a thread that is awake. `DrainIsComplete` is
`ExitInv` with `LocationInv`. The import violates the premise that futures go to earlier tasks only; it has a theorem
of its own, below.

Refinement: `PoolImplementsLanes`, `Spec => ImplementsLanes`. Each step of the pool is one of the lanes (submit,
start, finish) or a stutter; what the step alone does not say comes from `IInv`: where a task is, and that a captured
future is of a task the lanes know.

The counter: `PendingNeverDrifts`, `Spec => []PendingAccounts`. The equation modulo the counter's width is not
inductive as an equation of remainders; the invariant says that the two sides differ by a multiple of the width, and
the arithmetic of remainders is used once, at the end.

`LooseOszImportProofs`, for any number of workers, archives and screenshots and any window from one up
(`ImportAssumption`: every task has one purpose): `ImportInvariance`, `WindowIsBounded` (`WindowBound`),
`ImportIsDeadlockFree` (`NoPoolDeadlock`), `NineProcessorsSuffice`. Every step is one of the pool's or the loader's
`get`, so types, ranks, places, order and the wakeups are the pool's lemmas, plus one for that `get`; `FutureInv` and
`ExitInv` do not hold or are not needed here. `BodyInv` says what the bodies make of the pool: bridges alone run on the
foreground lane and capture a screenshot each, nothing else captures, and a blocked worker waits for an extraction or a
screenshot that was pushed. `WindowInv` says that there are `p` and `r`, at most the window apart, such that the first
`p` extractions were submitted, the first `r` were received, and the loader is owed exactly those in between; the sets
the code's window is made of are then intervals, which is what bounds their sizes. For deadlock freedom, if nothing can
move and a worker is blocked, what it waits for is queued for the background lane, so `NoLostWakeup` leaves nobody
asleep: all workers are blocked, the only background worker by the loader, and every foreground worker by a bridge with
a screenshot of its own. `Enough` excludes just that: a second background worker, or more foreground workers than
screenshots in flight. It is a condition of the theorem, not of the code: without it the deadlock happens (see
[Findings](#findings)). With nine processors or more the constructor's arithmetic grants it.

`StopStateProofs`, for any number of threads and callbacks and any depth of calls: `StopInvariance`,
`StopIsMemorySafe` (`NoUseAfterDestroy`), `StopMissesNone` (`NoneMissed`). The stacks are taken as cells, a place and
a callback per thread and depth. The invariant: one call of `request_stop` at most (`RequesterInv`); a constructor or
destructor is one call that knows its object's stage (`CallInv`); the callback that runs is flagged while it exists,
and once it is gone `request_stop` has been told so (`RunInv`); the list is doubly linked among registered callbacks,
and ranks that rise along `next` exclude a cycle. That an empty head means an empty list follows from the rank: the
listed callback that nothing precedes would be the head.

Refinement: `StopImplementsToken`, `Spec => ImplementsToken`. To the invariant it adds whose thread is the
requester's and which callbacks have run; a callback is executed in one call at most, and each step of a thread maps to
a step of the token or to a stutter.

`NetworkProofs`, for any number of requests and sockets and any amount of data: `NetworkInvariance`,
`NeverSleepsOverNews` (`NoMissedWakeup`), `StoppedStaySilent` (`StoppedIsSilent`), `WebsocketsKeepOrder`
(`WebsocketStreams`). The invariant has four parts. Types. `WakeInv`: news that the network thread has not been told of
will still be met by the pass it is in. `TokenInv`: an answer that carries no token belongs to a request that was
refused a handle. `StreamInv`: what was received, is being sent and waits to be sent are stretches of numbers that
meet, likewise what was read, can be read and is still partial; a partial send splits a stretch, a read joins two. It
is stated by stretches because they compose without any algebra of concatenation; `WebsocketStreams` follows by
joining them.

Places: `NeverLostNorTwice`, `Spec => []OnePlace`. `PlaceInv` says that the queues have no repetition, that a
request which is anywhere was sent, that no two of the seven places share a request, and that a request which is owed
an answer is somewhere. `OnePlace` counts the places, `PlacesCounted` shows that the count is at most one.

`BanchoSessionProofs`: `SessionInvariance`, `UserIsWhoIsShown` (`StatusMatchesUid`), `LoginsAreAccounted`
(`LoginAccounted`), `NoPacketCrosses` (`PacketsStayInSession`), from `SessionAssumption` and `ServerAssumption`.
`LoginAccounted` alone is not inductive: that a login in progress can end needs that the batch under way still holds a
verdict or its request is in flight (`BatchMatches`, `RequestsMatch`), and that a verdict is in the batch only when no
login request is in flight, which is where `ServerAssumption` enters. Packets carry the session they were queued in,
and `PacketInv` says that the queue, the socket's output and the tokens agree on it.

`ResourceLoaderProofs`, for any number of resources, loads and batches. `LoaderInvariance`, `LoaderTypes`,
`LoaderOneLoadAtATime` and `LoaderClosedIsQuiet` hold whatever becomes of the resources: `LoadsInv` says that the
loads in flight are of different resources, that a load which is not finished is in flight or awaited (`InFlightOK`),
that what `update` has collected is not loading until it is reloaded (`ReadyOK`), and that what is to be destroyed
later is in the queue or with the call that waits for it (`DoomedOK`). `LoaderObjects`, `LoaderNoUseAfterFree`,
`LoaderLoadingUndisturbed` and `LoaderDestroyCancelsReload` exempt the `overtaken` resources and nothing else: they
say that what `AsyncResourceLoader.cpp:183` does is the only way to a use after free, to a load disturbed or to a
destroyed resource loaded again. Without the exemption TLC finds each of the three false (see [Findings](#findings)).
`ObjectsInv` adds what the lists refer to: a deferred reload is of a live resource that nobody interrupted and whose
load will be collected (`PendingOK`), what is interrupted is doomed or awaited, the destroy queue has no repetition
and holds the doomed, and the resource whose load was awaited is in no list of the loader unless it was overtaken or
its caller only waits (`AwaitedOK`); the last two are why the deletion after a wait otherwise leaves no dangling
pointer. The lists are changed by index or filtered; `RemoveAtFacts` and its companions state once what that does to
their elements. The two action properties follow from `ObjectsInv` step by step.

`MapDownloadsProofs`, for any sets, files, archives and contents of the folders. `DownloadsInvariance`,
`DownloadTypes`, `DownloadsAreWanted` (`TransfersAreWanted`) and `DownloadsRetryFresh` (`RetryIsFresh`):
`InstallerInv` says that keys do not repeat and what a stage implies of the key (`EntriesOK`), that a request belongs
to an entry which is downloading or has seen it fail (`HandlesOK`), that what a job has behind it was written or lost
(`JobsOK`), and that an entry to be installed whose archive was unpacked finds it on disk but for what was lost
(`UnpackedOK`). `DownloadsImportWhole`, an action property: a step that takes such an entry off the list brings its
archive into the database, but for the maps that could not be written or were deleted with the folder (`lost`). So a
download that is reported done without its maps while every file can be written (run `downloads_partial`) is one whose
folder was found on disk. `DownloadsFollowed` and `DownloadsMismatchHasAReason` (`MismatchHasAReason`) assume
`Attentive`, the contract of `tick`; without it TLC finds the property false. `FetcherInv`: while the fetcher works on
a set whose transfer it saw and whose entry nobody cut, that entry is on its way to the database, or its maps were
imported in this frame and no refresh is under way, or the archive lacks the target, or the target's file was lost.

`PlayControlProofs`, whatever `submit_after_pause` says: `PlayInvariance`, `PlayTypes`, `PlayNeverStuck`,
`PlayMusicFollows`, `PlayKeptIsOwn`, and the action property `PlayMarksStay`: an attempt that is not to be submitted
becomes one that is only with the start of another. The invariant is a predicate on the record of flags, `Good`, and
one lemma per method says that the method preserves it; a handler's lemma cites those of the methods it calls.
`Sounding` ties the music to the flags, `Scored` says whose play it is and what may be shown over it: `stop` forgets
that the play was a replay, so a second `stop` is harmless only because the overlay is the player's. `FrameInv` is the
part no method sees: when the map ended in the middle of a frame, the rest of the frame does not bring it back.

Only model-checked: everything under fairness (`EarlyWorkIsDone`, `ShutdownReturns`, `ImportFinishes`,
`DestroyReturns`, `DoomedIsFreed`, `DeferredReloadHappens`, `VerdictReached`, `EntriesEnd`, `DeadServerNoticed`,
`RetryHappens`), since the prover handles neither ENABLED nor liveness under fairness. Every invariant and every action
property that a passing run checks is a theorem. The inductive invariants were checked by TLC on the runs' instances
before they were proved.

## Findings

Shown by a run:

1. `network_sync`: the notification of a synchronous request can get lost; the caller is the main thread at
   disconnect, which then freezes. `NetworkHandler.h:111` calls the request reliable.
2. `downloads_partial`: a folder that another import is still writing is taken for a finished one, and a download is
   reported as imported with maps missing.
3. `session_token`: `cho_token` survives a disconnect, so that a later login without that header passes the test that
   is to prevent being logged in without a way to send packets.
4. `play_jump`: the request for a quick retry survives the end of the play, and the next map jumps to its first object.

`PROJECT.json` quotes the lines concerned.

Not shown by a run of its own, but to be seen by changing one line of a configuration or of a property:

- The database loader and the bridging tasks of screenshots can block all threads of the pool for good, when there is
  one background worker and a screenshot in flight for every foreground worker: in `MCLooseOszImport.cfg`, `FgWorkers
  = {f1}` makes `ImportFinishes` false, and so would `NoPoolDeadlock` be as an invariant. The comment at
  `Database.cpp:622-623` argues with "the pool has >= 2 threads", which is this case, and it is the pool of every
  machine with eight logical processors or fewer (`AsyncPool.cpp:10-17`); `ImportIsDeadlockFree` says what suffices.
- `submit` after `shutdown` began is accepted and its task may never run (`AsyncPool.h:76`): `NothingStranded` as an
  invariant of `MCAsyncPool.cfg` is false.
- A call that blocks on a resource whose reload is deferred, a destroy (`ResourceManager.cpp:285-301`), a synchronous
  reload (390) or closing (216-222), waits, has the reload requested (`AsyncResourceLoader.cpp:183`) and then releases
  or deletes the resource that is being loaded again: a use after free, although the comment at
  `AsyncResourceLoader.cpp:192` says that a destroy cancels any pending reload. In `MCResourceLoader.cfg`,
  `NoUseAfterFree`, `LoadingUndisturbed` and `DestroyCancelsReload` are each false once `overtaken` is dropped from
  them.
- `get_state` answers with the first entry of a set (`BeatmapInstaller.cpp:351-357`). While a local file's import of
  the set is ahead of it, a download can fail and expire unseen, and the fetcher then says "mismatch", which
  `MapFetcher.h:30-35` and `MapFetcher.cpp:90` reserve for a completed download that lacks the map. It says so too
  when the file of the map could not be written (`BeatmapInstaller.cpp:155-160` goes on with the next) and when the
  user cancelled the download. `MismatchHasAReason` names these next to the reason of the comment; without any one of
  its disjuncts it is false.
- When curl gives no handle, the callback of a stopped request still runs, although the comment at
  `NetworkHandler.cpp:179` says a cancelled request is not delivered: `CancelledIsSilent` in place of
  `StoppedIsSilent` is false.
- A request that its host's pacing refuses is started by the next call or completion only (`Downloader.cpp:104-117`).
  When the transfer before it ends within the 100 ms, nothing comes, and the entry and a fetcher that follows it wait
  until somebody asks for another download: without `<>[]Stalled`, `EntriesEnd` and `VerdictReached` are false.
- While users are on screen of whom presence or stats are missing, and the server sends neither, the requests for them
  take the place of the PING (`BanchoNetworking.cpp:239-248`, 264): if no deadline was set before, none is, and a
  server that answers nothing is not noticed. So do packets the client keeps sending, and in a lobby or a room each
  PING moves the deadline before it passes (265, 278): `DeadServerNoticed` is false without its escapes.

Seen while modelling, without a property: losing focus after the last object shows the pause overlay over the ranking,
and Back then decides the attempt a second time (`Osu.cpp:1844-1850`); a replay that arrives while the player plays
takes the place of his attempt (`LegacyReplay.cpp:411-424`); two queries for one map's set can be outstanding, as one
variable remembers the last (`Downloader.cpp:258`); a synchronous request to which curl gives no handle strands its
caller (`NetworkHandler.cpp:347-355`), which `OnePlace` exempts; a websocket given up within five seconds takes its
output along.

## Not modelled

- Hit objects, judgement, simulated gameplay, the contents of replays: one thread over continuous time and positions.
  `PlayControl` leaves what is hit, and where the music is, to choice.
- Rendering, user interface, skins, fonts, images, sound backends: no protocol of their own beyond the components
  above, or wrappers of vendored libraries.
- Parsing and encoding (database files, replays, packets, archives). Vendored code (graphics loaders, image, font and
  compression libraries) is a large part of the tree.
- In the modelled parts: exceptions (they end the program), IPC and progress callbacks of the network handler, the
  name table of the resource manager, what `init`, `initAsync` and `destroy` of a class of resources do, the reference
  count of stop states, the 429 branch and several hosts of the downloader, the screen a fetched map is shown on,
  packets that do not change the session, spectating and multiplayer in the control of a play, memory order (atomics
  are sequentially consistent here).

## Plan

Done: `TaskLanes`, `AsyncPool`, `LooseOszImport`, `StopState`, `StopToken`, `ResourceLoader`, `NetworkHandler`,
`MapDownloads`, `BanchoSession`, `PlayControl`, and the proofs of the safety of all of them.

Next, most important first:

1. Abstract specifications of the resource loader and of the installer (what a resource, and an entry, goes through as
   its user sees it), with the refinements proved.
2. `AsyncContinuation`: the main-thread queue and cancellable handles over `TaskLanes`.
3. `AsyncIOHandler`, `DirectoryWatcher` and the star-rating workers.
4. Spectating and multiplayer in `PlayControl`.
