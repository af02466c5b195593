---------------------------- MODULE MapDownloads ----------------------------
(***************************************************************************)
(* How a beatmap gets into the database: Downloader (one transfer after    *)
(* the other, paced per host), BeatmapInstaller (a queue of downloads and  *)
(* local .osz files, each taken through its stages), the extractions on    *)
(* the thread pool that write the maps/ folders, and a MapFetcher that     *)
(* drives one wanted map to a verdict.                                     *)
(*                                                                         *)
(* The main thread's frame has three parts: responses and user input in    *)
(* any order, BeatmapInstaller::update entry by entry, MapFetcher::tick.   *)
(* The network, the workers and the clock act at any time.                 *)
(*                                                                         *)
(* A download's URL stands for its set and there is one host.  A set has   *)
(* one handle: a new entry gets a new request, and by then the old one is  *)
(* cancelled or complete.  A file that is written again counts as there    *)
(* all the while.  The branch for status 429 is not here: the network      *)
(* layer turns it into a failure.                                          *)
(***************************************************************************)
EXTENDS Naturals, Sequences, FiniteSets, SequencesExt

CONSTANTS
  Sets,      \* beatmap sets the server has, by id
  Files,     \* local .osz files
  Maps,      \* difficulties
  Home,      \* the set to which the server says a map belongs
  Archive,   \* the maps in the archive of a set or a file
  FileSet,   \* the set a file resolves to
  NoMap,     \* no target
  NoSet,     \* the id of a local import that is not resolved
  NoDir,     \* a set without a folder under maps/
  Leftovers, \* what each set's folder may hold at the start: NoDir, or some maps
  Fragile,   \* maps whose files may turn out not to be writable
  Attentive, \* whether the fetcher's screen ticks in every frame
  MaxActs    \* bound: what users, servers' rooms and refreshes do

Keys == Sets \cup Files

ASSUME DownloadAssumption ==
  /\ Sets \cap Files = {} /\ NoMap \notin Maps /\ NoSet \notin Sets
  /\ Home \in [Maps -> Sets] /\ FileSet \in [Files -> Sets]
  /\ Archive \in [Keys -> (SUBSET Maps) \ {{}}]
  /\ \A maps \in SUBSET Maps : NoDir # maps
  /\ \A s \in Sets : Leftovers[s] \subseteq {NoDir} \cup SUBSET {m \in Maps : Home[m] = s}
  /\ Fragile \subseteq Maps /\ Attentive \in BOOLEAN /\ MaxActs \in Nat

VARIABLES
  phase,    \* part of the frame
  at,       \* the entry that update() is at
  entries,  \* the installer's entries
  handle,   \* state of each set's request as its entry's handle sees it
  paced,    \* whether the host's retry time is in the future
  job,      \* extraction an entry waits for
  orphans,  \* extractions whose entry was cancelled
  disk,     \* the maps/ folders
  lost,     \* history: the maps that could not be written into a set's folder, or were deleted with it
  db,       \* difficulties in the database
  idle,     \* whether the database is loaded and not being refreshed
  cache,    \* beatmap_to_beatmapset
  queried,  \* queried_map_id
  asked,    \* unanswered queries per map
  fetcher,  \* the MapFetcher
  acts      \* interventions so far

vars == <<phase, at, entries, handle, paced, job, orphans, disk, lost, db, idle, cache, queried, asked,
          fetcher, acts>>
folders == <<disk, lost>>
installer == <<entries, handle, paced, job, orphans, folders, db>>
resolver == <<cache, queried, asked>>

NoJob == [set |-> NoSet, left |-> {}, st |-> "none", made |-> FALSE]
Working(k, set) == [set |-> set, left |-> Archive[k], st |-> "submitted", made |-> FALSE]
NoFetch == [target |-> NoMap, set |-> NoSet, status |-> "idle", why |-> "none",
            inFlight |-> FALSE, transferred |-> FALSE, cut |-> FALSE]
Entry(k) == [key |-> k, set |-> IF k \in Sets THEN k ELSE NoSet, stage |-> "queued", fromDisk |-> FALSE]

\* An extraction that is not over; whether it has written a map.
Running == {"submitted", "writing", "wrote"}

Stages == {"queued", "downloading", "extracting", "installing", "failed", "expired"}
Has(k) == \E i \in DOMAIN entries : entries[i].key = k
Of(k) == CHOOSE i \in DOMAIN entries : entries[i].key = k

\* The database as lookups and try_import see it: nothing while it loads.
Known(set) == idle /\ \E m \in db : Home[m] = set

Contents(set) == IF disk[set] = NoDir THEN {} ELSE disk[set]

TypeOK ==
  /\ phase \in {"events", "update", "tick"} /\ at \in 1 .. Len(entries) + 1
  /\ entries \in Seq([key : Keys, set : Sets \cup {NoSet}, stage : Stages, fromDisk : BOOLEAN])
  /\ handle \in [Sets -> {"null", "queued", "live", "arrivedOk", "arrivedBad", "ok", "bad", "cancelled"}]
  /\ paced \in BOOLEAN /\ idle \in BOOLEAN
  /\ disk \in [Sets -> {NoDir} \cup SUBSET Maps] /\ lost \in [Sets -> SUBSET Maps] /\ db \subseteq Maps
  /\ cache \in [Maps -> {"none", "known", "bad"}] /\ queried \in Maps \cup {NoMap}
  /\ asked \in [Maps -> Nat] /\ acts \in 0 .. MaxActs

Init ==
  /\ phase = "events" /\ at = 1
  /\ entries = <<>> /\ handle = [s \in Sets |-> "null"] /\ paced = FALSE
  /\ job = [k \in Keys |-> NoJob] /\ orphans = {}
  /\ disk \in {d \in [Sets -> UNION {Leftovers[s] : s \in Sets}] : \A s \in Sets : d[s] \in Leftovers[s]}
  /\ lost = [s \in Sets |-> {}] /\ db = {} /\ idle = TRUE
  /\ cache = [m \in Maps |-> "none"] /\ queried = NoMap /\ asked = [m \in Maps |-> 0]
  /\ fetcher = NoFetch /\ acts = 0

-----------------------------------------------------------------------------
\* Downloader

\* checkAndStartNextDownload: any queued request, unless the host is to be left alone.
StartNext(h, p) ==
  \/ /\ p \/ \A s \in Sets : h[s] # "queued"
     /\ handle' = h /\ paced' = p
  \/ /\ ~p
     /\ \E s \in Sets : h[s] = "queued" /\ handle' = [h EXCEPT ![s] = "live"]
     /\ paced' = TRUE

\* download() for an entry without a request.
StartDownload(s) == StartNext([handle EXCEPT ![s] = "queued"], paced)

\* abort_download: the transfer is stopped, the handle reset and the next request started.
Abort(s) == StartNext([handle EXCEPT ![s] = "null"], paced)

\* abort_downloads on a disconnect; the next download makes a manager that knows no retry times.
Disconnect ==
  /\ handle' = [s \in Sets |-> IF handle[s] \in {"queued", "live", "arrivedOk", "arrivedBad"}
                               THEN "cancelled" ELSE handle[s]]
  /\ paced' = FALSE
  /\ UNCHANGED <<entries, job, orphans, folders, db, fetcher>>

\* A transfer ends; its response waits for the main thread.
TransferEnds(s) ==
  /\ handle[s] = "live"
  /\ handle' \in {[handle EXCEPT ![s] = r] : r \in {"arrivedOk", "arrivedBad"}}
  /\ UNCHANGED <<phase, at, entries, paced, job, orphans, folders, db, idle, resolver, fetcher, acts>>

\* onDownloadComplete.
DownloadComplete(s) ==
  /\ phase = "events"
  /\ handle[s] \in {"arrivedOk", "arrivedBad"}
  /\ StartNext([handle EXCEPT ![s] = IF @ = "arrivedOk" THEN "ok" ELSE "bad"], paced)
  /\ UNCHANGED <<phase, at, entries, job, orphans, folders, db, idle, resolver, fetcher, acts>>

PaceEnds ==
  /\ paced /\ paced' = FALSE
  /\ UNCHANGED <<phase, at, entries, handle, job, orphans, folders, db, idle, resolver, fetcher, acts>>

\* The answer to a query for the set of a map.
Answer(m) ==
  /\ phase = "events" /\ asked[m] > 0
  /\ asked' = [asked EXCEPT ![m] = @ - 1]
  /\ cache' \in {[cache EXCEPT ![m] = r] : r \in {"known", "bad"}}
  /\ UNCHANGED <<phase, at, installer, idle, queried, fetcher, acts>>

-----------------------------------------------------------------------------
\* BeatmapInstaller: calls

\* Bug: an attempt that failed is repeated with its old request.
EnqueueKeepsHandle(s) ==
  /\ entries' = IF Has(s)
                THEN [entries EXCEPT ![Of(s)].stage = IF @ \in {"failed", "expired"} THEN "queued" ELSE @]
                ELSE Append(entries, Entry(s))
  /\ UNCHANGED handle

\* enqueue: one entry per set; one that failed is tried again.
Enqueue(s) ==
  \/ ~Has(s) /\ entries' = Append(entries, Entry(s)) /\ UNCHANGED handle
  \/ /\ Has(s) /\ entries[Of(s)].stage \in {"failed", "expired"}
     /\ entries' = [entries EXCEPT ![Of(s)].stage = "queued"]
     /\ handle' = [handle EXCEPT ![s] = "null"]
  \/ Has(s) /\ entries[Of(s)].stage \notin {"failed", "expired"} /\ UNCHANGED <<entries, handle>>

\* enqueue_local of a file that is not queued yet.
EnqueueLocal(f) ==
  /\ ~Has(f)
  /\ entries' = Append(entries, Entry(f))
  /\ UNCHANGED <<handle, paced, job, orphans, folders, db, fetcher>>

\* An entry that the fetcher follows is gone, and nothing was imported: somebody else cancelled it,
\* or it failed and expired while another import of the set stood before it in the list.
Cut(set) == fetcher' = IF set = fetcher.set /\ set \in Sets THEN [fetcher EXCEPT !.cut = TRUE] ELSE fetcher

\* An extraction goes on without its entry.
Abandon(k) ==
  /\ job' = [job EXCEPT ![k] = NoJob]
  /\ orphans' = IF job[k].st \in Running THEN orphans \cup {job[k]} ELSE orphans

\* Bug: the entry is dropped and its transfer goes on.
CancelKeepsTransfer(k) ==
  /\ Has(k)
  /\ entries' = RemoveAt(entries, Of(k))
  /\ Abandon(k) /\ Cut(entries[Of(k)].set)
  /\ UNCHANGED <<handle, paced, folders, db>>

\* cancel and cancel_entry.
Cancel(k) ==
  /\ Has(k)
  /\ \/ k \in Sets /\ handle[k] # "null" /\ Abort(k)
     \/ (k \in Sets => handle[k] = "null") /\ UNCHANGED <<handle, paced>>
  /\ entries' = RemoveAt(entries, Of(k))
  /\ Abandon(k) /\ Cut(entries[Of(k)].set)
  /\ UNCHANGED <<folders, db>>

-----------------------------------------------------------------------------
\* BeatmapInstaller::update, one entry at a time

Stage(to) == entries' = [entries EXCEPT ![at].stage = to] /\ at' = at + 1
Drop == entries' = RemoveAt(entries, at) /\ UNCHANGED at
Submit(k, set) == job' = [job EXCEPT ![k] = Working(k, set)]

\* A local file is extracted; a set that is on disk but unknown is imported from there.
LeaveQueue(e) ==
  /\ e.stage = "queued"
  /\ \/ e.key \in Files /\ Stage("extracting") /\ Submit(e.key, FileSet[e.key])
     \/ /\ e.key \in Sets /\ idle /\ ~Known(e.key) /\ disk[e.key] # NoDir
        /\ entries' = [entries EXCEPT ![at].stage = "installing", ![at].fromDisk = TRUE]
        /\ at' = at + 1
        /\ UNCHANGED job
  /\ UNCHANGED <<handle, paced, orphans, folders, db, fetcher>>

MustDownload(e) ==
  /\ e.key \in Sets
  /\ \/ e.stage = "downloading"
     \/ e.stage = "queued" /\ (~idle \/ Known(e.key) \/ disk[e.key] = NoDir)

\* Bug: an aborted transfer is taken for one in progress.
DownloadUnsevered(e) ==
  /\ MustDownload(e)
  /\ \/ handle[e.key] = "null" /\ StartDownload(e.key) /\ Stage("downloading") /\ UNCHANGED <<job, fetcher>>
     \/ /\ handle[e.key] = "ok" /\ Stage("extracting") /\ Submit(e.key, e.key)
        /\ handle' = [handle EXCEPT ![e.key] = "null"] /\ UNCHANGED <<paced, fetcher>>
     \/ handle[e.key] = "bad" /\ Stage("failed") /\ UNCHANGED <<handle, paced, job, fetcher>>
     \/ /\ handle[e.key] \notin {"null", "ok", "bad"}
        /\ Stage("downloading") /\ UNCHANGED <<handle, paced, job, fetcher>>
  /\ UNCHANGED <<orphans, folders, db>>

\* download_beatmapset and what follows from the state of the request.
Download(e) ==
  /\ MustDownload(e)
  /\ \/ handle[e.key] = "null" /\ StartDownload(e.key) /\ Stage("downloading") /\ UNCHANGED <<job, fetcher>>
     \/ /\ handle[e.key] = "ok" /\ Stage("extracting") /\ Submit(e.key, e.key)
        /\ handle' = [handle EXCEPT ![e.key] = "null"] /\ UNCHANGED <<paced, fetcher>>
     \/ handle[e.key] = "bad" /\ Stage("failed") /\ UNCHANGED <<handle, paced, job, fetcher>>
     \/ /\ handle[e.key] = "cancelled" /\ Drop /\ Cut(e.set)
        /\ handle' = [handle EXCEPT ![e.key] = "null"] /\ UNCHANGED <<paced, job>>
     \/ /\ handle[e.key] \in {"queued", "live"} \cup {"arrivedOk", "arrivedBad"}
        /\ Stage("downloading") /\ UNCHANGED <<handle, paced, job, fetcher>>
  /\ UNCHANGED <<orphans, folders, db>>

\* The result of the extraction is looked for.
Extract(e) ==
  /\ e.stage = "extracting"
  /\ \/ job[e.key].st \in Running /\ at' = at + 1 /\ UNCHANGED <<entries, job>>
     \/ job[e.key].st = "failed" /\ Stage("failed") /\ job' = [job EXCEPT ![e.key] = NoJob]
     \/ /\ job[e.key].st = "done"
        /\ entries' = [entries EXCEPT ![at].stage = "installing", ![at].set = job[e.key].set]
        /\ at' = at + 1
        /\ job' = [job EXCEPT ![e.key] = NoJob]
  /\ UNCHANGED <<handle, paced, orphans, folders, db, fetcher>>

\* try_import reads the folder once the database is idle.  Without a single map in it, a folder
\* that was there before is downloaded after all.
Install(e) ==
  /\ e.stage = "installing"
  /\ \/ ~idle /\ at' = at + 1 /\ UNCHANGED <<entries, db>>
     \/ /\ idle /\ disk[e.set] \in {NoDir, {}}
        /\ entries' = [entries EXCEPT ![at].stage = IF e.fromDisk THEN "downloading" ELSE "failed",
                                      ![at].fromDisk = FALSE]
        /\ at' = at + 1
        /\ UNCHANGED db
     \/ /\ idle /\ disk[e.set] \notin {NoDir, {}}
        /\ db' = db \cup disk[e.set]
        /\ Drop
  /\ UNCHANGED <<handle, paced, job, orphans, folders, fetcher>>

\* A failed entry stays for a minute.
KeepFailed(e) ==
  /\ \/ e.stage = "failed" /\ at' = at + 1 /\ UNCHANGED <<entries, handle, fetcher>>
     \/ /\ e.stage = "expired" /\ Drop /\ Cut(e.set)
        /\ handle' = [s \in Sets |-> IF s = e.key THEN "null" ELSE handle[s]]
  /\ UNCHANGED <<paced, job, orphans, folders, db>>

UpdateEntry ==
  /\ phase = "update" /\ at \in DOMAIN entries
  /\ LET e == entries[at] IN LeaveQueue(e) \/ Download(e) \/ Extract(e) \/ Install(e) \/ KeepFailed(e)
  /\ UNCHANGED <<phase, idle, resolver, acts>>

-----------------------------------------------------------------------------
\* The workers

\* What is left to be done after the file m, and whether the folder was made for this extraction.
After(j, m, st) == [j EXCEPT !.left = @ \ {m}, !.st = st,
                             !.made = IF j.st = "submitted" THEN disk[j.set] = NoDir ELSE @]

\* The archive is invalid, or its folder is made, which may not succeed.
Open(j, m, st) ==
  /\ j.st = "submitted" /\ m = NoMap
  /\ \/ st = "failed" /\ UNCHANGED disk
     \/ st = "writing" /\ disk' \in {disk, [disk EXCEPT ![j.set] = IF @ = NoDir THEN {} ELSE @]}
  /\ UNCHANGED lost

\* The next file is written if its folder is there.
Write(j, m, st) ==
  /\ j.st \in {"writing", "wrote"} /\ m \in j.left
  /\ disk[j.set] # NoDir /\ disk' = [disk EXCEPT ![j.set] = @ \cup {m}]
  /\ st = IF j.left = {m} THEN "done" ELSE "wrote"
  /\ UNCHANGED lost

\* Or it is skipped, and an older one of that name may be spoilt.
Unwritable(set, m) == m \in Fragile \/ disk[set] = NoDir
Spoil(set, m) == disk' \in {disk} \cup {[disk EXCEPT ![set] = @ \ {m}] : x \in {disk[set]} \ {NoDir}}

\* The job goes on; with the last map it is done, if anything else was written.
Skip(j, m, st) ==
  /\ j.st \in {"writing", "wrote"} /\ m \in j.left /\ Unwritable(j.set, m)
  /\ st = IF j.left = {m} THEN "done" ELSE j.st
  /\ lost' = [lost EXCEPT ![j.set] = @ \cup {m}]
  /\ Spoil(j.set, m)

\* The job fails if nothing at all was written; a folder that it made is deleted with what is in it.
GiveUp(j, m, st) ==
  /\ j.st = "writing" /\ j.left = {m} /\ Unwritable(j.set, m) /\ st = "failed"
  /\ \/ /\ j.made /\ disk' = [disk EXCEPT ![j.set] = NoDir]
        /\ lost' = [lost EXCEPT ![j.set] = @ \cup {m} \cup Contents(j.set)]
     \/ ~j.made /\ Spoil(j.set, m) /\ lost' = [lost EXCEPT ![j.set] = @ \cup {m}]

Extraction(j, m, st) == Open(j, m, st) \/ Write(j, m, st) \/ Skip(j, m, st) \/ GiveUp(j, m, st)
Results == {"writing", "wrote", "done", "failed"}

Work(k) ==
  /\ \E m \in Maps \cup {NoMap}, st \in Results :
       Extraction(job[k], m, st) /\ job' = [job EXCEPT ![k] = After(@, m, st)]
  /\ UNCHANGED <<phase, at, entries, handle, paced, orphans, db, idle, resolver, fetcher, acts>>

WorkAbandoned(j) ==
  /\ \E m \in Maps \cup {NoMap}, st \in Results :
       /\ Extraction(j, m, st)
       /\ orphans' = (orphans \ {j}) \cup {o \in {After(j, m, st)} : o.st \in Running}
  /\ UNCHANGED <<phase, at, entries, handle, paced, job, db, idle, resolver, fetcher, acts>>

-----------------------------------------------------------------------------
\* MapFetcher

\* target_map: the same target keeps its verdict, another starts afresh.
Target(m) ==
  /\ fetcher.target # m
  /\ fetcher' = IF m = NoMap THEN NoFetch ELSE [NoFetch EXCEPT !.target = m, !.status = "working"]
  /\ UNCHANGED installer

Verdict(status, why) == fetcher' = [fetcher EXCEPT !.status = status, !.why = why]

\* resolve_beatmapset_id_for: the cache, or a query unless the last one asked was for this map.
Resolve ==
  LET m == fetcher.target IN
  /\ fetcher.set = NoSet
  /\ \/ cache[m] = "bad" /\ Verdict("notfound", "resolve") /\ UNCHANGED resolver
     \/ /\ cache[m] = "known"
        /\ fetcher' = [fetcher EXCEPT !.set = Home[m], !.status = "working", !.why = "none"]
        /\ UNCHANGED resolver
     \/ /\ cache[m] = "none"
        /\ queried' = m
        /\ asked' = [asked EXCEPT ![m] = IF queried = m THEN @ ELSE @ + 1]
        /\ Verdict("working", "none") /\ UNCHANGED cache
  /\ UNCHANGED <<entries, handle>>

\* The stage of the first entry for the set.
Watched(set) ==
  LET of == {i \in DOMAIN entries : entries[i].set = set}
  IN IF of = {} THEN "none" ELSE entries[CHOOSE i \in of : \A j \in of : i <= j].stage

\* Bug: the fetcher does not remember that there was a transfer.
FollowForgets ==
  LET stage == Watched(fetcher.set) IN
  /\ fetcher.set # NoSet
  /\ \/ stage \in {"failed", "expired"} /\ Verdict("notfound", "install") /\ UNCHANGED <<entries, handle>>
     \/ /\ stage \notin {"failed", "expired", "none"}
        /\ fetcher' = [fetcher EXCEPT !.inFlight = TRUE, !.status = "working", !.why = "none"]
        /\ UNCHANGED <<entries, handle>>
     \/ /\ stage = "none"
        /\ Enqueue(fetcher.set)
        /\ fetcher' = [fetcher EXCEPT !.inFlight = FALSE, !.status = "working", !.why = "none"]
  /\ UNCHANGED resolver

\* Bug: an install that was watched is taken for a transfer.
FollowAnyInstall ==
  LET stage == Watched(fetcher.set) IN
  /\ fetcher.set # NoSet
  /\ \/ stage \in {"failed", "expired"} /\ Verdict("notfound", "install") /\ UNCHANGED <<entries, handle>>
     \/ /\ stage \notin {"failed", "expired", "none"}
        /\ fetcher' = [fetcher EXCEPT !.inFlight = TRUE, !.transferred = TRUE]
        /\ UNCHANGED <<entries, handle>>
     \/ /\ stage = "none"
        /\ \/ fetcher.inFlight /\ Verdict("notfound", "mismatch") /\ UNCHANGED <<entries, handle>>
           \/ ~fetcher.inFlight /\ Enqueue(fetcher.set) /\ UNCHANGED fetcher
  /\ UNCHANGED resolver

\* What the installer does with the set; when an install that was watched is over without the map,
\* give up if there was a transfer and enqueue the set again if not.
Follow ==
  LET stage == Watched(fetcher.set) IN
  /\ fetcher.set # NoSet
  /\ \/ stage \in {"failed", "expired"} /\ Verdict("notfound", "install") /\ UNCHANGED <<entries, handle>>
     \/ /\ stage \notin {"failed", "expired", "none"}
        /\ fetcher' = [fetcher EXCEPT !.inFlight = TRUE, !.transferred = @ \/ stage = "downloading",
                                      !.status = "working", !.why = "none"]
        /\ UNCHANGED <<entries, handle>>
     \/ /\ stage = "none" /\ fetcher.inFlight /\ fetcher.transferred
        /\ fetcher' = [fetcher EXCEPT !.inFlight = FALSE, !.status = "notfound", !.why = "mismatch"]
        /\ UNCHANGED <<entries, handle>>
     \/ /\ stage = "none" /\ ~(fetcher.inFlight /\ fetcher.transferred)
        /\ Enqueue(fetcher.set)
        /\ fetcher' = [fetcher EXCEPT !.inFlight = FALSE, !.status = "working", !.why = "none"]
  /\ UNCHANGED resolver

\* tick: a map that is in the database always wins, and the caller clears the fetcher.
Tick ==
  /\ phase = "tick" /\ phase' = "events"
  /\ LET found == idle /\ fetcher.target \in db IN
       \/ fetcher.status = "idle" /\ UNCHANGED <<entries, handle, resolver, fetcher>>
       \/ fetcher.status # "idle" /\ found /\ fetcher' = NoFetch /\ UNCHANGED <<entries, handle, resolver>>
       \/ fetcher.status = "notfound" /\ ~found /\ UNCHANGED <<entries, handle, resolver, fetcher>>
       \/ fetcher.status = "working" /\ ~found /\ (Resolve \/ Follow)
  /\ UNCHANGED <<at, paced, job, orphans, folders, db, idle, acts>>

-----------------------------------------------------------------------------
\* The frame, and what others do

\* A frame's events are over when the responses that arrived are delivered.
BeginUpdate ==
  /\ phase = "events" /\ phase' = "update" /\ at' = 1
  /\ \A s \in Sets : handle[s] \notin {"arrivedOk", "arrivedBad"}
  /\ UNCHANGED <<installer, idle, resolver, fetcher, acts>>

EndUpdate ==
  /\ phase = "update" /\ at \notin DOMAIN entries
  /\ at' = 1
  /\ phase' \in IF Attentive THEN {"tick"} ELSE {"tick", "events"}
  /\ UNCHANGED <<installer, idle, resolver, fetcher, acts>>

\* A click on a listing: enqueue what is neither installed nor in progress, cancel what is in progress.
Click(s) ==
  /\ ~Known(s)
  /\ IF Watched(s) \in {"none", "failed", "expired"}
     THEN Enqueue(s) /\ UNCHANGED <<paced, job, orphans, folders, db, fetcher>>
     ELSE Cancel(s)

Refresh == idle' = FALSE /\ idle /\ UNCHANGED <<installer, fetcher>>

Intervene ==
  /\ phase = "events" /\ acts < MaxActs /\ acts' = acts + 1
  /\ \/ /\ \/ \E s \in Sets : Click(s)
           \/ \E k \in Keys : Cancel(k)
           \/ \E f \in Files : EnqueueLocal(f)
           \/ \E m \in Maps \cup {NoMap} : Target(m)
           \/ Disconnect
        /\ UNCHANGED idle
     \/ Refresh
  /\ UNCHANGED <<phase, at, resolver>>

Refreshed ==
  /\ ~idle /\ idle' = TRUE
  /\ UNCHANGED <<phase, at, installer, resolver, fetcher, acts>>

\* A minute after its failure an entry is old.
Expire ==
  /\ \E i \in DOMAIN entries :
       entries[i].stage = "failed" /\ entries' = [entries EXCEPT ![i].stage = "expired"]
  /\ UNCHANGED <<phase, at, handle, paced, job, orphans, folders, db, idle, resolver, fetcher, acts>>

MainStep ==
  \/ \E s \in Sets : DownloadComplete(s)
  \/ BeginUpdate \/ UpdateEntry \/ EndUpdate \/ Tick

Next ==
  \/ MainStep \/ Intervene
  \/ \E m \in Maps : Answer(m)
  \/ \E s \in Sets : TransferEnds(s)
  \/ \E k \in Keys : Work(k)
  \/ \E j \in orphans : WorkAbandoned(j)
  \/ PaceEnds \/ Refreshed \/ Expire

Spec == Init /\ [][Next]_vars

\* The frame goes on, transfers, queries, extractions and refreshes end, time passes.
Fairness ==
  /\ WF_vars(MainStep) /\ WF_vars(PaceEnds) /\ WF_vars(Refreshed) /\ WF_vars(Expire)
  /\ SF_vars(\E m \in Maps : Answer(m))
  /\ WF_vars(\E s \in Sets : TransferEnds(s))
  /\ WF_vars(\E k \in Keys : Work(k))
FairSpec == Spec /\ Fairness

-----------------------------------------------------------------------------
\* A request that is waiting or being transferred belongs to an entry that waits for it: whoever
\* drops an entry aborts its transfer (BeatmapInstaller.cpp cancel, cancel_entry, update).
TransfersAreWanted ==
  \A s \in Sets : handle[s] \in {"queued", "live", "arrivedOk", "arrivedBad"} =>
    Has(s) /\ entries[Of(s)].stage = "downloading"

\* An entry that waits for its turn has no request: one that failed starts over with a new transfer.
RetryIsFresh == \A i \in DOMAIN entries :
  entries[i].stage = "queued" /\ entries[i].key \in Sets => handle[entries[i].key] = "null"

\* "mismatch" has one of four reasons.  The first is the one that MapFetcher.h gives: the server's
\* archive lacks the map.  The others are what tick() (MapFetcher.cpp:79-106) takes for it, an entry
\* that it saw downloading and sees no more: a file could not be written, somebody cancelled the
\* install, or it failed unseen while another import of the set stood before it in the list.
MismatchHasAReason ==
  fetcher.why = "mismatch" =>
    \/ fetcher.target \notin Archive[fetcher.set] \/ fetcher.target \in lost[fetcher.set]
    \/ fetcher.cut

\* A request waits in the Downloader, and nothing is on its way that would start it when it ends
\* (Downloader.cpp:104-117: a host that was used within 100 ms is left alone, and nobody looks again).
Stalled ==
  /\ \E s \in Sets : handle[s] = "queued"
  /\ \A s \in Sets : handle[s] \notin {"live", "arrivedOk", "arrivedBad"}

\* Whatever the fetcher is told to find, it comes to a verdict, unless the Downloader stalls for good.
VerdictReached == (fetcher.status = "working" ~> fetcher.status # "working") \/ <>[]Stalled

\* Every entry of the installer leaves it, unless the Downloader stalls for good.
EntriesEnd == (entries # <<>> ~> entries = <<>>) \/ <>[]Stalled

\* A download or import that is reported done has brought all the maps of its archive.
DoneIsWhole == [][\A i \in DOMAIN entries :
  phase = "update" /\ i = at /\ entries[i].stage = "installing" /\ db' # db /\ Len(entries') < Len(entries)
    => Archive[entries[i].key] \subseteq db']_vars
=============================================================================
