---------------------------- MODULE NetworkHandler ----------------------------
(***************************************************************************)
(* HTTP requests and websockets, src/Engine/NetworkHandler.  The main      *)
(* thread hands requests to a network thread that owns the curl handles    *)
(* and sleeps in curl_multi_poll; results come back through                *)
(* completed_requests and run their callbacks in update().  A synchronous  *)
(* request blocks the main thread instead.                                 *)
(*                                                                         *)
(* curl and the servers are the environment: wire[r] is what the next      *)
(* curl_multi_perform finds for r.  A call of the main thread that ends in *)
(* curl_multi_wakeup is two steps, the change and the wakeup.              *)
(***************************************************************************)
EXTENDS Naturals, Sequences, FiniteSets

CONSTANTS
  Async,      (* requests of httpRequestAsync, each with a stop token      *)
  Sync,       (* requests of httpRequestSynchronous                        *)
  Sockets,    (* requests of initWebsocket                                 *)
  MayFail,    (* requests curl may refuse a handle for                     *)
  MaxWrites,  (* bound on what is written to a websocket                   *)
  MaxChunks,  (* bound on what a server sends on a websocket; a frame is   *)
              (* two chunks long                                           *)
  NoRequest

Requests == Async \cup Sync \cup Sockets

ASSUME NetworkAssumption ==
  /\ Async \cap Sync = {} /\ Async \cap Sockets = {} /\ Sync \cap Sockets = {}
  /\ MayFail \subseteq Requests /\ NoRequest \notin Requests
  /\ MaxWrites \in Nat /\ MaxChunks \in Nat

VARIABLES
  \* the main thread
  main,       \* "run", "wake" (about to call curl_multi_wakeup), "check",
              \* "blocking", "blocked" (in cv.wait), "join" or "closed"
  next,       \* where main goes after "wake"
  waitsFor,   \* the synchronous request it waits for
  sent,       \* the requests handed over
  stopped,    \* the requests whose token has stop requested
  batch,      \* responses_to_handle of update()
  ran,        \* the requests whose callback ran, in order
  \* what the two threads share
  pending_requests, completed_requests, sync_responses,
  wakeup,     \* curl_multi_wakeup was called since the last curl_multi_poll
  stopping,   \* the network thread was asked to stop
  \* the network thread
  net,        \* "loop", "new", "start", "cancel", "drain", "send", "perform",
              \* "complete", "poll" or "exited"
  request,    \* local to processNewRequests
  active_requests,
  armed,      \* active requests with a cancel_waker
  unchecked,  \* what the current pass over active_requests has left
  done,       \* transfers curl_multi_info_read will report
  failed,     \* requests that never got a transfer
  wire,       \* per request: "none", "end", "101", "chunk" or "close"
  \* the websockets (WSInstance)
  status, out, in, in_partial,
  multi_wakeup, \* the sockets whose multi_wakeup is set
  to_send,    \* local to websocketSend
  written,    \* how much the main thread wrote
  received,   \* what arrived at the server
  chunks,     \* how much of what the server sends has arrived
  got         \* what read() returned

mainVars == <<main, next, waitsFor, batch, ran>>
asked == <<sent, stopped>>
shared == <<pending_requests, completed_requests, sync_responses>>
transfers == <<active_requests, armed, done, failed>>
outgoing == <<out, to_send, written, received>>
incoming == <<in, in_partial, chunks, got>>
sockets == <<status, outgoing, incoming, multi_wakeup>>
vars == <<mainVars, asked, shared, wakeup, stopping, net, request, unchecked,
          transfers, wire, sockets>>

Init ==
  /\ main = "run" /\ next = "run" /\ waitsFor = NoRequest
  /\ sent = {} /\ stopped = {} /\ batch = <<>> /\ ran = <<>>
  /\ pending_requests = <<>> /\ completed_requests = <<>> /\ sync_responses = {}
  /\ wakeup = FALSE /\ stopping = FALSE
  /\ net = "loop" /\ request = NoRequest /\ unchecked = {}
  /\ active_requests = {} /\ armed = {} /\ done = {} /\ failed = {}
  /\ wire = [r \in Requests |-> "none"]
  /\ status = [w \in Sockets |-> "CONNECTING"]
  /\ out = [w \in Sockets |-> <<>>] /\ to_send = <<>>
  /\ written = [w \in Sockets |-> 0] /\ received = [w \in Sockets |-> <<>>]
  /\ in = [w \in Sockets |-> <<>>] /\ in_partial = [w \in Sockets |-> <<>>]
  /\ chunks = [w \in Sockets |-> 0] /\ got = [w \in Sockets |-> <<>>]
  /\ multi_wakeup = {}

-----------------------------------------------------------------------------
(* The main thread.                                                        *)

WakeThen(pc) == main' = "wake" /\ next' = pc

(* curl_multi_wakeup, the last thing of the calls below.                   *)
Wakeup ==
  /\ main = "wake" /\ main' = next /\ next' = "run"
  /\ wakeup' = TRUE
  /\ UNCHANGED <<waitsFor, batch, ran, asked, shared, stopping, net,
                 request, unchecked, transfers, wire, sockets>>

(* request_queue_mutex is free: processNewRequests holds it throughout.    *)
QueueFree == net \notin {"new", "start"}

(* httpRequestAsync, initWebsocket and httpRequestSynchronous.             *)
Enqueue(r) ==
  /\ main = "run" /\ r \notin sent /\ QueueFree
  /\ sent' = sent \cup {r}
  /\ pending_requests' = Append(pending_requests, r)
  /\ IF r \in Sync THEN waitsFor' = r /\ WakeThen("check")
                   ELSE UNCHANGED waitsFor /\ WakeThen("run")
  /\ UNCHANGED <<batch, ran, stopped, completed_requests, sync_responses, wakeup,
                 stopping, net, request, unchecked, transfers, wire, sockets>>

(* request_stop on a token, before or after its request was sent; it calls *)
(* the cancel_waker that is registered.                                    *)
RequestStop(r) ==
  /\ main = "run" /\ r \in Async \ stopped
  /\ stopped' = stopped \cup {r}
  /\ IF r \in armed THEN WakeThen("run") ELSE UNCHANGED <<main, next>>
  /\ UNCHANGED <<waitsFor, batch, ran, sent, shared, wakeup, stopping, net,
                 request, unchecked, transfers, wire, sockets>>

(* update() takes the completed requests, then runs the callbacks of those *)
(* that are not stopped; a callback may make any call of the main thread.  *)
Update ==
  /\ main = "run" /\ batch = <<>> /\ completed_requests # <<>>
  /\ batch' = completed_requests /\ completed_requests' = <<>>
  /\ UNCHANGED <<main, next, waitsFor, ran, asked, pending_requests,
                 sync_responses, wakeup, stopping, net, request, unchecked,
                 transfers, wire, sockets>>

(* Bug: the token is not looked at again.                                  *)
DispatchUnchecked ==
  /\ main = "run" /\ batch # <<>>
  /\ batch' = Tail(batch)
  /\ ran' = Append(ran, Head(batch).request)
  /\ UNCHANGED <<main, next, waitsFor, asked, shared, wakeup, stopping, net,
                 request, unchecked, transfers, wire, sockets>>

Dispatch ==
  /\ main = "run" /\ batch # <<>>
  /\ batch' = Tail(batch)
  /\ LET c == Head(batch) IN
       ran' = IF c.token /\ c.request \in stopped THEN ran ELSE Append(ran, c.request)
  /\ UNCHANGED <<main, next, waitsFor, asked, shared, wakeup, stopping, net,
                 request, unchecked, transfers, wire, sockets>>

(* httpRequestSynchronous waits for its response: the predicate of cv.wait *)
(* holds sync_requests_mutex only, so that the notification may come       *)
(* between its evaluation and the wait itself.                             *)
SyncCheck ==
  /\ main = "check"
  /\ IF waitsFor \in sync_responses
     THEN /\ sync_responses' = sync_responses \ {waitsFor}
          /\ waitsFor' = NoRequest /\ main' = "run"
     ELSE main' = "blocking" /\ UNCHANGED <<sync_responses, waitsFor>>
  /\ UNCHANGED <<next, batch, ran, asked, pending_requests, completed_requests,
                 wakeup, stopping, net, request, unchecked, transfers, wire, sockets>>

SyncBlock ==
  /\ main = "blocking" /\ main' = "blocked"
  /\ UNCHANGED <<next, waitsFor, batch, ran, asked, shared, wakeup, stopping,
                 net, request, unchecked, transfers, wire, sockets>>

SyncSpuriousWakeup ==
  /\ main = "blocked" /\ main' = "check"
  /\ UNCHANGED <<next, waitsFor, batch, ran, asked, shared, wakeup, stopping,
                 net, request, unchecked, transfers, wire, sockets>>

(* WSInstance::write, which wakes the network thread once it knows it.     *)
Write(w) ==
  /\ main = "run" /\ w \in sent /\ written[w] < MaxWrites
  /\ written' = [written EXCEPT ![w] = @ + 1]
  /\ out' = [out EXCEPT ![w] = Append(@, written[w] + 1)]
  /\ IF w \in multi_wakeup THEN WakeThen("run") ELSE UNCHANGED <<main, next>>
  /\ UNCHANGED <<waitsFor, batch, ran, asked, shared, wakeup, stopping, net,
                 request, unchecked, transfers, wire, status, to_send, received,
                 incoming, multi_wakeup>>

Read(w) ==
  /\ main = "run" /\ in[w] # <<>>
  /\ got' = [got EXCEPT ![w] = @ \o in[w]]
  /\ in' = [in EXCEPT ![w] = <<>>]
  /\ UNCHANGED <<mainVars, asked, shared, wakeup, stopping, net, request,
                 unchecked, transfers, wire, status, outgoing, in_partial,
                 chunks, multi_wakeup>>

(* ~NetworkImpl: stop and join the thread, then drop what is left.         *)
Close ==
  /\ main = "run" /\ batch = <<>>
  /\ stopping' = TRUE /\ WakeThen("join")
  /\ UNCHANGED <<waitsFor, batch, ran, asked, shared, wakeup, net, request,
                 unchecked, transfers, wire, sockets>>

Closed ==
  /\ main = "join" /\ net = "exited" /\ main' = "closed"
  /\ active_requests' = {} /\ armed' = {} /\ completed_requests' = <<>>
  /\ UNCHANGED <<next, waitsFor, batch, ran, asked, pending_requests,
                 sync_responses, wakeup, stopping, net, request, unchecked,
                 done, failed, wire, sockets>>

-----------------------------------------------------------------------------
(* The network thread: one pass of threadLoopFunc after the other.         *)

Loop ==
  /\ net = "loop" /\ net' = IF stopping THEN "exited" ELSE "new"
  /\ UNCHANGED <<mainVars, asked, shared, wakeup, stopping, request, unchecked,
                 transfers, wire, sockets>>

(* processNewRequests: a request stopped by now is dropped.                *)
TakeRequest ==
  LET r == Head(pending_requests) IN
  /\ net = "new" /\ pending_requests # <<>>
  /\ pending_requests' = Tail(pending_requests)
  /\ IF r \in stopped THEN UNCHANGED <<net, request>>
                      ELSE net' = "start" /\ request' = r
  /\ UNCHANGED <<mainVars, asked, completed_requests, sync_responses, wakeup,
                 stopping, unchecked, transfers, wire, sockets>>

(* curl gives no handle: only a callback learns of it, without the token.  *)
StartFails ==
  /\ net = "start" /\ request \in MayFail
  /\ failed' = failed \cup {request}
  /\ completed_requests' = IF request \notin Async THEN completed_requests
                           ELSE Append(completed_requests, [request |-> request, token |-> FALSE])
  /\ \/ UNCHANGED multi_wakeup
     \/ multi_wakeup' = multi_wakeup \cup ({request} \cap Sockets)
  /\ net' = "new" /\ request' = NoRequest
  /\ UNCHANGED <<mainVars, asked, pending_requests, sync_responses, wakeup,
                 stopping, unchecked, active_requests, armed, done, wire, status,
                 outgoing, incoming>>

(* Bug: no cancel_waker is registered.                                     *)
StartUnarmed ==
  /\ net = "start"
  /\ active_requests' = active_requests \cup {request}
  /\ multi_wakeup' = multi_wakeup \cup ({request} \cap Sockets)
  /\ net' = "new" /\ request' = NoRequest
  /\ UNCHANGED <<mainVars, asked, shared, wakeup, stopping, unchecked, armed, done,
                 failed, wire, status, outgoing, incoming>>

(* Registering the waker of a token that is stopped calls it at once.      *)
Start ==
  /\ net = "start"
  /\ active_requests' = active_requests \cup {request}
  /\ armed' = armed \cup ({request} \cap Async)
  /\ wakeup' = (wakeup \/ request \in stopped)
  /\ multi_wakeup' = multi_wakeup \cup ({request} \cap Sockets)
  /\ net' = "new" /\ request' = NoRequest
  /\ UNCHANGED <<mainVars, asked, shared, stopping, unchecked, done, failed,
                 wire, status, outgoing, incoming>>

NewRequestsTaken ==
  /\ net = "new" /\ pending_requests = <<>>
  /\ net' = "cancel" /\ unchecked' = active_requests
  /\ UNCHANGED <<mainVars, asked, shared, wakeup, stopping, request, transfers,
                 wire, sockets>>

(* processCancelledRequests, one active request at a time.                 *)
CheckCancelled(r) ==
  /\ net = "cancel" /\ r \in unchecked
  /\ unchecked' = unchecked \ {r}
  /\ IF r \in stopped
     THEN /\ active_requests' = active_requests \ {r} /\ armed' = armed \ {r}
          /\ wire' = [wire EXCEPT ![r] = "none"]
     ELSE UNCHANGED <<active_requests, armed, wire>>
  /\ UNCHANGED <<mainVars, asked, shared, wakeup, stopping, net, request, done,
                 failed, sockets>>

Connected == {w \in active_requests \cap Sockets : status[w] = "CONNECTED"}

CancelledChecked ==
  /\ net = "cancel" /\ unchecked = {}
  /\ net' = "drain" /\ unchecked' = Connected
  /\ UNCHANGED <<mainVars, asked, shared, wakeup, stopping, request, transfers,
                 wire, sockets>>

(* websocketSend takes the output of a socket, sends what curl accepts,    *)
(* and puts the rest back in front of what was written meanwhile.          *)
DrainOutput(w) ==
  /\ net = "drain" /\ w \in unchecked
  /\ net' = "send" /\ request' = w
  /\ to_send' = out[w] /\ out' = [out EXCEPT ![w] = <<>>]
  /\ UNCHANGED <<mainVars, asked, shared, wakeup, stopping, unchecked, transfers,
                 wire, status, written, received, incoming, multi_wakeup>>

(* Bug: the rest goes behind what was written meanwhile.                   *)
PutBackLast(rest, later) == later \o rest

PutBack(rest, later) == rest \o later

SendOutput ==
  LET w == request IN
  /\ net = "send"
  /\ \E n \in 0 .. Len(to_send) :
       /\ received' = [received EXCEPT ![w] = @ \o SubSeq(to_send, 1, n)]
       /\ out' = [out EXCEPT ![w] = PutBack(SubSeq(to_send, n + 1, Len(to_send)), @)]
       /\ \/ UNCHANGED status
          \/ n < Len(to_send) /\ status' = [status EXCEPT ![w] = "DISCONNECTED"]
  /\ to_send' = <<>>
  /\ net' = "drain" /\ request' = NoRequest /\ unchecked' = unchecked \ {w}
  /\ UNCHANGED <<mainVars, asked, shared, wakeup, stopping, transfers, wire,
                 written, incoming, multi_wakeup>>

(* Disconnected websockets are closed.                                     *)
Disconnected ==
  {w \in active_requests \cap Sockets : status[w] \in {"DISCONNECTED", "UNSUPPORTED"}}

OutputSent ==
  /\ net = "drain" /\ unchecked = {}
  /\ active_requests' = active_requests \ Disconnected
  /\ wire' = [r \in Requests |-> IF r \in Disconnected THEN "none" ELSE wire[r]]
  /\ net' = "perform"
  /\ UNCHANGED <<mainVars, asked, shared, wakeup, stopping, request, unchecked,
                 armed, done, failed, sockets>>

-----------------------------------------------------------------------------
(* curl_multi_perform takes what is on the wire.  For a websocket it calls *)
(* headerCallback (101) and writeCallback: chunks gather in in_partial     *)
(* until their frame is complete.                                          *)
Arriving(kind) == {r \in active_requests : wire[r] = kind}

FrameComplete(n) == n % 2 = 0

Perform ==
  LET chunk == Arriving("chunk")
      partial(w) == Append(in_partial[w], chunks[w] + 1)
      whole == {w \in chunk : FrameComplete(chunks[w] + 1)} IN
  /\ net = "perform" /\ net' = "complete"
  /\ done' = Arriving("end")
  /\ status' = [w \in Sockets |->
       IF w \in Arriving("101") THEN "CONNECTED"
       ELSE IF w \in Arriving("close") THEN "DISCONNECTED" ELSE status[w]]
  /\ in' = [w \in Sockets |-> IF w \in whole THEN in[w] \o partial(w) ELSE in[w]]
  /\ in_partial' = [w \in Sockets |->
       IF w \in whole THEN <<>> ELSE IF w \in chunk THEN partial(w) ELSE in_partial[w]]
  /\ chunks' = [w \in Sockets |-> IF w \in chunk THEN chunks[w] + 1 ELSE chunks[w]]
  /\ wire' = [r \in Requests |-> "none"]
  /\ UNCHANGED <<mainVars, asked, shared, wakeup, stopping, request, unchecked,
                 active_requests, armed, failed, outgoing, got, multi_wakeup>>

(* processCompletedRequests, one finished transfer at a time.              *)
(* Bug: the request stays in active_requests.                              *)
CompleteKeepsActive(r) ==
  /\ net = "complete" /\ r \in done /\ r \in Async \ stopped
  /\ done' = done \ {r}
  /\ completed_requests' = Append(completed_requests, [request |-> r, token |-> TRUE])
  /\ UNCHANGED <<mainVars, asked, pending_requests, sync_responses, wakeup, stopping,
                 net, request, unchecked, active_requests, armed, failed, wire, sockets>>

Complete(r) ==
  /\ net = "complete" /\ r \in done
  /\ done' = done \ {r}
  /\ active_requests' = active_requests \ {r} /\ armed' = armed \ {r}
  /\ \/ /\ r \in Sockets
        /\ status' = [status EXCEPT ![r] =
             IF @ = "CONNECTING" THEN "UNSUPPORTED" ELSE "DISCONNECTED"]
        /\ UNCHANGED <<main, sync_responses, completed_requests>>
     \/ /\ r \in Sync
        /\ sync_responses' = sync_responses \cup {r}
        /\ main' = IF main = "blocked" THEN "check" ELSE main
        /\ UNCHANGED <<status, completed_requests>>
     \/ /\ r \in Async
        /\ completed_requests' =
             IF r \in stopped THEN completed_requests
             ELSE Append(completed_requests, [request |-> r, token |-> TRUE])
        /\ UNCHANGED <<main, status, sync_responses>>
  /\ UNCHANGED <<next, waitsFor, batch, ran, asked, pending_requests, wakeup,
                 stopping, net, request, unchecked, failed, wire, outgoing,
                 incoming, multi_wakeup>>

AllComplete ==
  /\ net = "complete" /\ done = {} /\ net' = "poll"
  /\ UNCHANGED <<mainVars, asked, shared, wakeup, stopping, request, unchecked,
                 transfers, wire, sockets>>

(* curl_multi_poll returns on a wakeup, on activity, or after a minute.    *)
Poll ==
  /\ net = "poll" /\ net' = "loop"
  /\ wakeup' = FALSE
  /\ UNCHANGED <<mainVars, asked, shared, stopping, request, unchecked,
                 transfers, wire, sockets>>

-----------------------------------------------------------------------------
(* The other side: a transfer ends by itself, by a limit on its time, or   *)
(* because the connection broke.                                           *)
Ends(r) ==
  /\ r \in active_requests /\ wire[r] = "none"
  /\ wire' = [wire EXCEPT ![r] = "end"]
  /\ UNCHANGED <<mainVars, asked, shared, wakeup, stopping, net, request,
                 unchecked, transfers, sockets>>

Upgrades(w) ==
  /\ w \in active_requests /\ wire[w] = "none" /\ status[w] = "CONNECTING"
  /\ wire' = [wire EXCEPT ![w] = "101"]
  /\ UNCHANGED <<mainVars, asked, shared, wakeup, stopping, net, request,
                 unchecked, transfers, sockets>>

SendsChunk(w) ==
  /\ w \in Connected /\ wire[w] = "none" /\ chunks[w] < MaxChunks
  /\ wire' = [wire EXCEPT ![w] = "chunk"]
  /\ UNCHANGED <<mainVars, asked, shared, wakeup, stopping, net, request,
                 unchecked, transfers, sockets>>

SendsClose(w) ==
  /\ w \in Connected /\ wire[w] = "none"
  /\ wire' = [wire EXCEPT ![w] = "close"]
  /\ UNCHANGED <<mainVars, asked, shared, wakeup, stopping, net, request,
                 unchecked, transfers, sockets>>

-----------------------------------------------------------------------------
MainReacts == Wakeup \/ Update \/ Dispatch \/ SyncCheck \/ SyncBlock \/ Closed

MainCalls ==
  \/ \E r \in Requests : Enqueue(r)
  \/ \E r \in Async : RequestStop(r)
  \/ \E w \in Sockets : Write(w) \/ Read(w)
  \/ SyncSpuriousWakeup \/ Close

NetStep ==
  \/ Loop \/ TakeRequest \/ StartFails \/ Start \/ NewRequestsTaken
  \/ \E r \in Requests : CheckCancelled(r) \/ Complete(r)
  \/ CancelledChecked
  \/ \E w \in Sockets : DrainOutput(w)
  \/ SendOutput \/ OutputSent \/ Perform \/ AllComplete \/ Poll

ServerStep ==
  \/ \E r \in Requests : Ends(r)
  \/ \E w \in Sockets : Upgrades(w) \/ SendsChunk(w) \/ SendsClose(w)

Next == MainReacts \/ MainCalls \/ NetStep \/ ServerStep

Spec == Init /\ [][Next]_vars

(* Both threads run, the engine calls update() every frame, the poll has a *)
(* timeout, and curl ends an HTTP transfer that exceeds its own.           *)
Fairness ==
  /\ WF_vars(MainReacts) /\ WF_vars(NetStep)
  /\ \A r \in Async \cup Sync : WF_vars(Ends(r))
FairSpec == Spec /\ Fairness

-----------------------------------------------------------------------------
(* Types.                                                                  *)
TypeOK ==
  /\ main \in {"run", "wake", "check", "blocking", "blocked", "join", "closed"}
  /\ next \in {"run", "check", "join"}
  /\ waitsFor \in Sync \cup {NoRequest}
  /\ (waitsFor = NoRequest) <=>
       main \in {"run", "join", "closed"} \/ (main = "wake" /\ next # "check")
  /\ sent \subseteq Requests /\ stopped \subseteq Async
  /\ pending_requests \in Seq(sent) /\ ran \in Seq(Async)
  /\ completed_requests \in Seq([request : Async, token : BOOLEAN])
  /\ batch \in Seq([request : Async, token : BOOLEAN])
  /\ sync_responses \subseteq Sync /\ wakeup \in BOOLEAN /\ stopping \in BOOLEAN
  /\ net \in {"loop", "new", "start", "cancel", "drain", "send", "perform",
              "complete", "poll", "exited"}
  /\ request \in Requests \cup {NoRequest}
  /\ (request \in Requests) <=> net \in {"start", "send"}
  /\ armed = active_requests \cap Async
  /\ done \subseteq active_requests /\ active_requests \subseteq sent
  /\ unchecked \subseteq Requests /\ failed \subseteq MayFail
  /\ wire \in [Requests -> {"none", "end", "101", "chunk", "close"}]
  /\ status \in [Sockets -> {"CONNECTING", "CONNECTED", "DISCONNECTED", "UNSUPPORTED"}]
  /\ multi_wakeup \subseteq Sockets
  /\ to_send \in Seq(1 .. MaxWrites)

(* A request is never lost and never answered twice: on its way from       *)
(* thread to thread it is in one place at a time, until it was stopped,    *)
(* until closing drops it, or until a synchronous one turns out to get no  *)
(* transfer.                                                               *)
Places(r) ==
  {<<"pending", i>> : i \in {k \in DOMAIN pending_requests : pending_requests[k] = r}}
    \cup {<<"completed", i>> : i \in {k \in DOMAIN completed_requests : completed_requests[k].request = r}}
    \cup {<<"batch", i>> : i \in {k \in DOMAIN batch : batch[k].request = r}}
    \cup {<<"ran", i>> : i \in {k \in DOMAIN ran : ran[k] = r}}
    \cup {<<"request", 0>> : q \in {request} \cap {r}}
    \cup {<<"active", 0>> : q \in active_requests \cap {r}}
    \cup {<<"response", 0>> : q \in sync_responses \cap {r}}
OnePlace ==
  \A r \in Async \cup Sync :
    /\ Cardinality(Places(r)) <= 1
    /\ r \in Async /\ r \in sent \ stopped /\ main # "closed" => Places(r) # {}
    /\ r = waitsFor /\ r \notin failed => Places(r) # {}

(* The network thread never sleeps over news: once the main thread has     *)
(* made its call of curl_multi_wakeup, what it enqueued or stopped is seen *)
(* before the next sleep.                                                  *)
NoMissedWakeup ==
  net = "poll" /\ ~wakeup /\ main # "wake" =>
    /\ pending_requests = <<>> /\ ~stopping
    /\ active_requests \cap stopped = {}

(* "a request cancelled after completing isn't delivered", for those that  *)
(* had a transfer.                                                         *)
Ran(r) == ran' = Append(ran, r)
StoppedIsSilent == [][\A r \in stopped \ failed : ~Ran(r)]_vars

(* The same as the comment has it, for all requests.                       *)
CancelledIsSilent == [][\A r \in stopped : ~Ran(r)]_vars

(* A websocket neither loses, duplicates nor reorders data, though it may  *)
(* accept only part of it while the main thread writes on; what is read    *)
(* ends where a frame ends.                                                *)
Count(n) == [i \in 1 .. n |-> i]
WebsocketStreams ==
  \A w \in Sockets :
    /\ received[w] \o (IF request = w THEN to_send ELSE <<>>) \o out[w] = Count(written[w])
    /\ got[w] \o in[w] \o in_partial[w] = Count(chunks[w])
    /\ Len(got[w] \o in[w]) % 2 = 0

(* "the synchronous request already completes reliably".                   *)
SyncReturns == waitsFor # NoRequest ~> waitsFor = NoRequest
=============================================================================
