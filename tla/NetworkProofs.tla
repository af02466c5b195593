---------------------------- MODULE NetworkProofs ----------------------------
(* Proofs about NetworkHandler, for every number of requests and websockets *)
(* and every amount of data.                                                *)
EXTENDS NetworkHandler, SequenceTheorems, FiniteSetTheorems, TLAPS

(* What TypeOK leaves out: the buffers, and that done is local to the pass  *)
(* of the network thread that filled it.                                    *)
BufferTypes ==
  /\ net # "complete" => done = {}
  /\ written \in [Sockets -> 0 .. MaxWrites] /\ chunks \in [Sockets -> Nat]
  /\ out \in [Sockets -> Seq(1 .. MaxWrites)] /\ received \in [Sockets -> Seq(1 .. MaxWrites)]
  /\ in \in [Sockets -> Seq(Nat)] /\ in_partial \in [Sockets -> Seq(Nat)]
  /\ got \in [Sockets -> Seq(Nat)]
  /\ net = "send" => request \in Sockets
  /\ request \in sent \cup {NoRequest}
  /\ net \in {"drain", "send"} => unchecked \subseteq Sockets
  /\ unchecked \subseteq sent

Types == TypeOK /\ BufferTypes

LEMMA TypesInit == Init => Types
<1> SUFFICES ASSUME Init PROVE Types
  OBVIOUS
<1>1. <<>> \in Seq(Nat) /\ <<>> \in Seq(1 .. MaxWrites) /\ <<>> \in Seq(Async) /\ <<>> \in Seq({})
      /\ <<>> \in Seq([request : Async, token : BOOLEAN])
  BY EmptySeq
<1>2. BufferTypes
  BY <1>1, NetworkAssumption DEF Init, BufferTypes
<1>3. TypeOK
  BY <1>1, NetworkAssumption DEF Init, TypeOK, Requests
<1>4. QED
  BY <1>2, <1>3 DEF Types

LEMMA WakeupTypes == ASSUME Types, Wakeup PROVE Types'
BY DEF Types, TypeOK, BufferTypes, Wakeup, mainVars, asked, shared, transfers, outgoing,
   incoming, sockets

LEMMA EnqueueTypes == ASSUME Types, NEW r \in Requests, Enqueue(r) PROVE Types'
<1>1. sent \in SUBSET sent' /\ r \in sent'
  BY DEF Enqueue
<1>2. pending_requests \in Seq(sent')
  BY <1>1, SeqMonotonic DEF Types, TypeOK
<1>3. pending_requests' \in Seq(sent')
  BY <1>1, <1>2, AppendProperties DEF Enqueue
<1>4. TypeOK'
  BY <1>1, <1>3, NetworkAssumption DEF Types, TypeOK, Enqueue, WakeThen, Requests, mainVars,
     asked, shared, transfers, outgoing, incoming, sockets
<1>5. BufferTypes'
  BY DEF Types, BufferTypes, Enqueue, WakeThen, mainVars, asked, shared, transfers, outgoing,
     incoming, sockets
<1>6. QED
  BY <1>4, <1>5 DEF Types

LEMMA RequestStopTypes == ASSUME Types, NEW r \in Async, RequestStop(r) PROVE Types'
BY DEF Types, TypeOK, BufferTypes, RequestStop, WakeThen, mainVars, asked, shared, transfers,
   outgoing, incoming, sockets

LEMMA UpdateTypes == ASSUME Types, Update PROVE Types'
BY EmptySeq DEF Types, TypeOK, BufferTypes, Update, mainVars, asked, shared, transfers,
   outgoing, incoming, sockets

LEMMA DispatchTypes == ASSUME Types, Dispatch PROVE Types'
<1>1. batch' \in Seq([request : Async, token : BOOLEAN]) /\ Head(batch).request \in Async
  <2>1. PICK S : S = [request : Async, token : BOOLEAN]
    OBVIOUS
  <2>2. batch \in Seq(S) /\ batch # <<>> /\ batch' = Tail(batch)
    BY <2>1 DEF Types, TypeOK, Dispatch
  <2>3. Head(batch) \in S /\ Tail(batch) \in Seq(S)
    BY <2>2, HeadTailProperties
  <2>4. QED
    BY <2>1, <2>2, <2>3
<1>2. ran' \in Seq(Async)
  BY <1>1, AppendProperties DEF Types, TypeOK, Dispatch
<1>3. QED
  BY <1>1, <1>2 DEF Types, TypeOK, BufferTypes, Dispatch, mainVars, asked, shared, transfers,
     outgoing, incoming, sockets

LEMMA SyncCheckTypes == ASSUME Types, SyncCheck PROVE Types'
BY NetworkAssumption DEF Types, TypeOK, BufferTypes, SyncCheck, Requests, mainVars, asked,
   shared, transfers, outgoing, incoming, sockets

LEMMA SyncWaitTypes == ASSUME Types, SyncBlock \/ SyncSpuriousWakeup PROVE Types'
BY DEF Types, TypeOK, BufferTypes, SyncBlock, SyncSpuriousWakeup, mainVars, asked, shared,
   transfers, outgoing, incoming, sockets

LEMMA WriteTypes == ASSUME Types, NEW w \in Sockets, Write(w) PROVE Types'
<1>1. out' \in [Sockets -> Seq(1 .. MaxWrites)] /\ written' \in [Sockets -> 0 .. MaxWrites]
  BY AppendProperties, NetworkAssumption DEF Types, BufferTypes, Write
<1>2. QED
  BY SMTT(60), <1>1 DEF Types, TypeOK, BufferTypes, Write, WakeThen, mainVars, asked, shared, transfers,
     outgoing, incoming, sockets

LEMMA ReadTypes == ASSUME Types, NEW w \in Sockets, Read(w) PROVE Types'
<1>1. got' \in [Sockets -> Seq(Nat)] /\ in' \in [Sockets -> Seq(Nat)]
  BY ConcatProperties, EmptySeq DEF Types, BufferTypes, Read
<1>2. QED
  BY SMTT(60), <1>1 DEF Types, TypeOK, BufferTypes, Read, mainVars, asked, shared, transfers, outgoing,
     incoming, sockets

LEMMA CloseTypes == ASSUME Types, Close \/ Closed PROVE Types'
<1>1. <<>> \in Seq([request : Async, token : BOOLEAN])
  BY EmptySeq
<1>2. CASE Close
  BY <1>2 DEF Types, TypeOK, BufferTypes, Close, WakeThen, mainVars, asked, shared, transfers,
     outgoing, incoming, sockets
<1>3. CASE Closed
  BY <1>1, <1>3 DEF Types, TypeOK, BufferTypes, Closed, mainVars, asked, shared, transfers,
     outgoing, incoming, sockets
<1>4. QED
  BY <1>2, <1>3

LEMMA LoopTypes == ASSUME Types, Loop \/ AllComplete \/ Poll PROVE Types'
<1>1. CASE Loop
  BY <1>1 DEF Types, TypeOK, BufferTypes, Loop, mainVars, asked, shared, transfers, outgoing,
     incoming, sockets
<1>2. CASE AllComplete
  BY <1>2 DEF Types, TypeOK, BufferTypes, AllComplete, mainVars, asked, shared, transfers, outgoing,
     incoming, sockets
<1>3. CASE Poll
  BY <1>3 DEF Types, TypeOK, BufferTypes, Poll, mainVars, asked, shared, transfers, outgoing,
     incoming, sockets
<1>4. QED
  BY <1>1, <1>2, <1>3

LEMMA TakeTypes == ASSUME Types, TakeRequest PROVE Types'
<1>1. pending_requests' \in Seq(sent) /\ Head(pending_requests) \in Requests
  BY HeadTailProperties DEF Types, TypeOK, TakeRequest
<1>2. QED
  BY <1>1 DEF Types, TypeOK, BufferTypes, TakeRequest, mainVars, asked, shared, transfers,
     outgoing, incoming, sockets

LEMMA RefusedTypes == ASSUME Types, StartFails PROVE Types'
<1>1. completed_requests' \in Seq([request : Async, token : BOOLEAN])
  BY AppendProperties DEF Types, TypeOK, StartFails
<1>2. QED
  BY <1>1, NetworkAssumption DEF Types, TypeOK, BufferTypes, StartFails, Requests, mainVars,
     asked, shared, transfers, outgoing, incoming, sockets

LEMMA StartTypes == ASSUME Types, Start PROVE Types'
BY NetworkAssumption DEF Types, TypeOK, BufferTypes, Start, Requests, mainVars, asked, shared,
   transfers, outgoing, incoming, sockets

LEMMA PassMovesTypes == ASSUME Types, NewRequestsTaken \/ CancelledChecked PROVE Types'
BY DEF Types, TypeOK, BufferTypes, NewRequestsTaken, CancelledChecked, Connected, Requests,
   mainVars, asked, shared, transfers, outgoing, incoming, sockets

LEMMA CancelTypes == ASSUME Types, NEW r \in Requests, CheckCancelled(r) PROVE Types'
<1>1. TypeOK'
  <2>1. /\ unchecked' \subseteq unchecked
        /\ \/ active_requests' = active_requests \ {r} /\ armed' = armed \ {r}
           \/ active_requests' = active_requests /\ armed' = armed
        /\ wire' \in {wire, [wire EXCEPT ![r] = "none"]}
    BY DEF CheckCancelled
  <2>2. UNCHANGED <<mainVars, asked, shared, wakeup, stopping, net, request, done, failed, sockets>>
    BY DEF CheckCancelled
  <2>3. done \subseteq active_requests /\ active_requests \subseteq sent /\ armed = active_requests \cap Async
    BY DEF Types, TypeOK
  <2>4. active_requests' \subseteq sent' /\ armed' = active_requests' \cap Async
    BY <2>1, <2>2, <2>3 DEF asked
  <2>5. unchecked' \subseteq Requests /\ wire' \in [Requests -> {"none", "end", "101", "chunk", "close"}]
    BY <2>1 DEF Types, TypeOK
  <2>6. done' \subseteq active_requests'
    <3>1. done = {} /\ done' = done
      BY DEF Types, BufferTypes, CheckCancelled
    <3>2. QED
      BY <3>1
  <2>7. QED
    BY <2>2, <2>4, <2>5, <2>6 DEF Types, TypeOK, mainVars, asked, shared, outgoing, incoming, sockets
<1>2. BufferTypes'
  BY DEF Types, BufferTypes, CheckCancelled, mainVars, asked, shared, transfers, outgoing, incoming,
     sockets
<1>3. QED
  BY <1>1, <1>2 DEF Types

LEMMA DrainTypes == ASSUME Types, NEW w \in Sockets, DrainOutput(w) PROVE Types'
<1>1. out' \in [Sockets -> Seq(1 .. MaxWrites)] /\ to_send' \in Seq(1 .. MaxWrites)
  BY EmptySeq DEF Types, BufferTypes, DrainOutput
<1>2. QED
  BY <1>1, NetworkAssumption DEF Types, TypeOK, BufferTypes, DrainOutput, Requests, mainVars,
     asked, shared, transfers, outgoing, incoming, sockets

LEMMA SendTypes == ASSUME Types, SendOutput PROVE Types'
<1>1. PICK n \in 0 .. Len(to_send) :
         /\ received' = [received EXCEPT ![request] = @ \o SubSeq(to_send, 1, n)]
         /\ out' = [out EXCEPT ![request] = SubSeq(to_send, n + 1, Len(to_send)) \o @]
         /\ \/ UNCHANGED status
            \/ status' = [status EXCEPT ![request] = "DISCONNECTED"]
  BY DEF SendOutput, PutBack
<1>2. to_send \in Seq(1 .. MaxWrites) /\ request \in Sockets
  BY DEF Types, TypeOK, BufferTypes, SendOutput
<1>3. Len(to_send) \in Nat /\ \A i \in 1 .. Len(to_send) : to_send[i] \in 1 .. MaxWrites
  BY <1>2, ElementOfSeq, LenProperties
<1>4. SubSeq(to_send, 1, n) \in Seq(1 .. MaxWrites)
  BY <1>3, SubSeqProperties
<1>5. SubSeq(to_send, n + 1, Len(to_send)) \in Seq(1 .. MaxWrites)
  BY <1>3, SubSeqProperties
<1>6. received' \in [Sockets -> Seq(1 .. MaxWrites)] /\ out' \in [Sockets -> Seq(1 .. MaxWrites)]
  BY <1>1, <1>2, <1>4, <1>5, ConcatProperties DEF Types, BufferTypes
<1>7. <<>> \in Seq(1 .. MaxWrites)
  BY EmptySeq
<1>8. TypeOK'
  <2>1. status' \in [Sockets -> {"CONNECTING", "CONNECTED", "DISCONNECTED", "UNSUPPORTED"}]
    BY <1>1 DEF Types, TypeOK
  <2>2. /\ to_send' = <<>> /\ net' = "drain" /\ request' = NoRequest /\ unchecked' \subseteq unchecked
        /\ UNCHANGED <<mainVars, asked, shared, wakeup, stopping, transfers, wire, multi_wakeup>>
    BY DEF SendOutput, incoming
  <2>3. NoRequest \notin Requests
    BY NetworkAssumption DEF Requests
  <2>4. QED
    BY <1>7, <2>1, <2>2, <2>3 DEF Types, TypeOK, mainVars, asked, shared, transfers
<1>9. BufferTypes'
  BY <1>2, <1>6 DEF Types, BufferTypes, SendOutput, mainVars, asked, shared, transfers,
     outgoing, incoming, sockets
<1>10. QED
  BY <1>8, <1>9 DEF Types

LEMMA OutputSentTypes == ASSUME Types, OutputSent PROVE Types'
BY NetworkAssumption DEF Types, TypeOK, BufferTypes, OutputSent, Disconnected, Requests,
   mainVars, asked, shared, transfers, outgoing, incoming, sockets

LEMMA PerformTypes == ASSUME Types, Perform PROVE Types'
<1>1. chunks' \in [Sockets -> Nat]
  BY DEF Types, BufferTypes, Perform
<1>2. \A w \in Sockets : Append(in_partial[w], chunks[w] + 1) \in Seq(Nat)
  BY AppendProperties DEF Types, BufferTypes
<1>3. in' \in [Sockets -> Seq(Nat)] /\ in_partial' \in [Sockets -> Seq(Nat)]
  BY <1>2, EmptySeq, ConcatProperties DEF Types, BufferTypes, Perform
<1>4. QED
  BY <1>1, <1>3 DEF Types, TypeOK, BufferTypes, Perform, Arriving, mainVars, asked, shared,
     transfers, outgoing, incoming, sockets

LEMMA CompleteTypes == ASSUME Types, NEW r \in Requests, Complete(r) PROVE Types'
<1>1. r \in Async => completed_requests' \in Seq([request : Async, token : BOOLEAN])
  <2>1. PICK S : S = [request : Async, token : BOOLEAN]
    OBVIOUS
  <2>2. SUFFICES ASSUME r \in Async PROVE completed_requests' \in Seq(S)
    BY <2>1
  <2>3. completed_requests \in Seq(S) /\ [request |-> r, token |-> TRUE] \in S
    BY <2>1, <2>2 DEF Types, TypeOK
  <2>4. completed_requests' \in {completed_requests, Append(completed_requests, [request |-> r, token |-> TRUE])}
    BY <2>2, NetworkAssumption DEF Complete
  <2>5. QED
    BY <2>3, <2>4, AppendProperties
<1>2. r \notin Async => UNCHANGED completed_requests
  BY DEF Complete
<1>3. completed_requests' \in Seq([request : Async, token : BOOLEAN])
  BY <1>1, <1>2 DEF Types, TypeOK
<1>4. TypeOK'
  <2>1. /\ done' \subseteq active_requests' /\ active_requests' \subseteq sent'
        /\ armed' = active_requests' \cap Async
    <3>1. /\ done' = done \ {r} /\ active_requests' = active_requests \ {r}
          /\ armed' = armed \ {r} /\ sent' = sent
      BY DEF Complete, asked
    <3>2. done \subseteq active_requests /\ active_requests \subseteq sent /\ armed = active_requests \cap Async
      BY DEF Types, TypeOK
    <3>3. QED
      BY <3>1, <3>2
  <2>2. /\ status' \in [Sockets -> {"CONNECTING", "CONNECTED", "DISCONNECTED", "UNSUPPORTED"}]
        /\ sync_responses' \subseteq Sync
    BY DEF Types, TypeOK, Complete
  <2>3. /\ main' \in {"run", "wake", "check", "blocking", "blocked", "join", "closed"}
        /\ (waitsFor' = NoRequest) <=>
             main' \in {"run", "join", "closed"} \/ (main' = "wake" /\ next' # "check")
    BY DEF Types, TypeOK, Complete
  <2>4. UNCHANGED <<next, waitsFor, batch, ran, asked, pending_requests, wakeup, stopping, net, request,
                    unchecked, failed, wire, outgoing, incoming, multi_wakeup>>
    BY DEF Complete
  <2>5. QED
    BY <1>3, <2>1, <2>2, <2>3, <2>4 DEF Types, TypeOK, asked, outgoing, incoming
<1>5. BufferTypes'
  BY DEF Types, BufferTypes, Complete, mainVars, asked, shared, transfers, outgoing, incoming, sockets
<1>6. QED
  BY <1>4, <1>5 DEF Types

LEMMA ServerTypes == ASSUME Types, ServerStep PROVE Types'
<1>1. PICK r \in Requests, k \in {"end", "101", "chunk", "close"} : wire' = [wire EXCEPT ![r] = k]
  BY DEF ServerStep, Ends, Upgrades, SendsChunk, SendsClose, Requests
<1>2. UNCHANGED <<mainVars, asked, shared, wakeup, stopping, net, request, unchecked, transfers, sockets>>
  BY DEF ServerStep, Ends, Upgrades, SendsChunk, SendsClose
<1>3. wire' \in [Requests -> {"none", "end", "101", "chunk", "close"}]
  BY <1>1 DEF Types, TypeOK
<1>4. TypeOK'
  BY <1>2, <1>3 DEF Types, TypeOK, mainVars, asked, shared, transfers, outgoing, incoming, sockets
<1>5. BufferTypes'
  BY <1>2 DEF Types, BufferTypes, mainVars, asked, shared, transfers, outgoing, incoming, sockets
<1>6. QED
  BY <1>4, <1>5 DEF Types

LEMMA TypesStep == ASSUME Types, [Next]_vars PROVE Types'
<1>1. CASE MainReacts
  BY <1>1, WakeupTypes, UpdateTypes, DispatchTypes, SyncCheckTypes, SyncWaitTypes,
     CloseTypes DEF MainReacts
<1>2. CASE MainCalls
  BY <1>2, EnqueueTypes, RequestStopTypes, WriteTypes, ReadTypes, SyncWaitTypes, CloseTypes DEF MainCalls
<1>3. CASE NetStep
  BY <1>3, LoopTypes, TakeTypes, RefusedTypes, StartTypes, PassMovesTypes, CancelTypes, DrainTypes,
     SendTypes, OutputSentTypes, PerformTypes, CompleteTypes DEF NetStep
<1>4. CASE ServerStep
  BY <1>4, ServerTypes
<1>5. CASE UNCHANGED vars
  BY <1>5 DEF Types, TypeOK, BufferTypes, vars, mainVars, asked, shared, transfers, outgoing,
     incoming, sockets
<1>6. QED
  BY <1>1, <1>2, <1>3, <1>4, <1>5 DEF Next

-----------------------------------------------------------------------------
Told == wakeup \/ main = "wake"

(* What the main thread wants known it has told, or the pass under way will *)
(* still come to it.                                                        *)
WakeInv ==
  /\ pending_requests # <<>> => Told \/ net \in {"loop", "new", "start", "exited"}
  /\ stopping => Told \/ net \in {"loop", "exited"}
  /\ \A r \in active_requests \cap stopped :
       Told \/ net \in {"loop", "new", "start", "exited"} \/ (net = "cancel" /\ r \in unchecked)

LEMMA WakeStep == ASSUME Types, WakeInv, Next PROVE WakeInv'
<1>1. CASE Wakeup
  BY <1>1 DEF WakeInv, Told, Types, TypeOK, Wakeup, mainVars, asked, shared, transfers,
     outgoing, incoming, sockets
<1>2. CASE Update \/ Dispatch
  BY <1>2 DEF WakeInv, Told, Types, TypeOK, Update, Dispatch, mainVars, asked, shared,
     transfers, outgoing, incoming, sockets
<1>3. CASE SyncCheck \/ SyncBlock \/ SyncSpuriousWakeup
  BY <1>3 DEF WakeInv, Told, Types, TypeOK, SyncCheck, SyncBlock, SyncSpuriousWakeup,
     mainVars, asked, shared, transfers, outgoing, incoming, sockets
<1>4. CASE Close \/ Closed
  BY <1>4 DEF WakeInv, Told, Types, TypeOK, Close, Closed, WakeThen, mainVars, asked, shared,
     transfers, outgoing, incoming, sockets
<1>5. ASSUME NEW r \in Requests, Enqueue(r) PROVE WakeInv'
  BY <1>5 DEF WakeInv, Told, Types, TypeOK, Enqueue, WakeThen, QueueFree, mainVars, asked,
     shared, transfers, outgoing, incoming, sockets
<1>6. ASSUME NEW r \in Async, RequestStop(r) PROVE WakeInv'
  BY <1>6 DEF WakeInv, Told, Types, TypeOK, RequestStop, WakeThen, mainVars, asked, shared,
     transfers, outgoing, incoming, sockets
<1>7. ASSUME NEW w \in Sockets, Write(w) \/ Read(w) PROVE WakeInv'
  <2>1. UNCHANGED <<net, pending_requests, stopping, wakeup, active_requests, stopped, unchecked>>
    BY <1>7 DEF Write, Read, mainVars, asked, shared, transfers, outgoing, incoming, sockets
  <2>2. main = "run"
    BY <1>7 DEF Write, Read
  <2>3. QED
    BY <2>1, <2>2 DEF WakeInv, Told
<1>8. CASE Loop \/ AllComplete \/ Poll
  BY <1>8 DEF WakeInv, Told, Types, TypeOK, Loop, AllComplete, Poll, mainVars, asked, shared,
     transfers, outgoing, incoming, sockets
<1>9. CASE TakeRequest
  BY <1>9 DEF WakeInv, Told, Types, TypeOK, TakeRequest, mainVars, asked, shared, transfers,
     outgoing, incoming, sockets
<1>10. CASE StartFails
  BY <1>10 DEF WakeInv, Told, Types, TypeOK, StartFails, mainVars, asked, shared, transfers,
     outgoing, incoming, sockets
<1>11. CASE Start
  BY <1>11 DEF WakeInv, Told, Types, TypeOK, Start, mainVars, asked, shared, transfers,
     outgoing, incoming, sockets
<1>12. CASE NewRequestsTaken \/ CancelledChecked
  BY <1>12 DEF WakeInv, Told, Types, TypeOK, NewRequestsTaken, CancelledChecked, mainVars,
     asked, shared, transfers, outgoing, incoming, sockets
<1>13. ASSUME NEW r \in Requests, CheckCancelled(r) PROVE WakeInv'
  BY <1>13 DEF WakeInv, Told, Types, TypeOK, CheckCancelled, mainVars, asked, shared,
     transfers, outgoing, incoming, sockets
<1>14. ASSUME NEW r \in Requests, Complete(r) PROVE WakeInv'
  BY <1>14 DEF WakeInv, Told, Types, TypeOK, Complete, mainVars, asked, shared, transfers,
     outgoing, incoming, sockets
<1>15. ASSUME NEW w \in Sockets, DrainOutput(w) PROVE WakeInv'
  BY <1>15 DEF WakeInv, Told, Types, TypeOK, DrainOutput, mainVars, asked, shared, transfers,
     outgoing, incoming, sockets
<1>16. CASE SendOutput
  BY <1>16 DEF WakeInv, Told, Types, TypeOK, SendOutput, mainVars, asked, shared, transfers,
     outgoing, incoming, sockets
<1>17. CASE OutputSent
  BY <1>17 DEF WakeInv, Told, Types, TypeOK, OutputSent, mainVars, asked, shared, transfers,
     outgoing, incoming, sockets
<1>18. CASE Perform
  BY <1>18 DEF WakeInv, Told, Types, TypeOK, Perform, mainVars, asked, shared, transfers,
     outgoing, incoming, sockets
<1>19. CASE ServerStep
  BY <1>19 DEF WakeInv, Told, Types, TypeOK, ServerStep, Ends, Upgrades, SendsChunk,
     SendsClose, mainVars, asked, shared, transfers, outgoing, incoming, sockets
<1>20. QED
  BY <1>1, <1>2, <1>3, <1>4, <1>5, <1>6, <1>7, <1>8, <1>9, <1>10, <1>11, <1>12, <1>13, <1>14,
     <1>15, <1>16, <1>17, <1>18, <1>19 DEF Next, MainReacts, MainCalls, NetStep

(* What has no token was refused a handle.                                  *)
TokenInv ==
  \A q \in {completed_requests, batch} : \A i \in DOMAIN q : ~q[i].token => q[i].request \in failed

LEMMA TokenStep == ASSUME Types, TokenInv, Next PROVE TokenInv'
<1>1. CASE UNCHANGED <<completed_requests, batch, failed>>
  BY <1>1 DEF TokenInv
<1>2. CASE Update \/ Closed
  <2>1. DOMAIN <<>> = {}
    OBVIOUS
  <2>2. QED
    BY <1>2, <2>1 DEF TokenInv, Update, Closed, transfers
<1>3. CASE Dispatch
  <2>1. PICK S : S = [request : Async, token : BOOLEAN]
    OBVIOUS
  <2>2. batch \in Seq(S) /\ batch # <<>> /\ batch' = Tail(batch) /\ UNCHANGED <<completed_requests, failed>>
    BY <1>3, <2>1 DEF Types, TypeOK, Dispatch, shared, transfers
  <2>3. batch' \in Seq(S) /\ Len(batch') = Len(batch) - 1 /\ \A i \in 1 .. Len(batch') : batch'[i] = batch[i + 1]
    BY <2>2, HeadTailProperties
  <2>4. DOMAIN batch' = 1 .. Len(batch') /\ DOMAIN batch = 1 .. Len(batch) /\ Len(batch) \in Nat
    BY <2>2, <2>3, LenProperties
  <2>5. \A i \in DOMAIN batch' : batch'[i] = batch[i + 1] /\ i + 1 \in DOMAIN batch
    BY <2>3, <2>4
  <2>6. QED
    BY <2>2, <2>5 DEF TokenInv
<1>4. ASSUME StartFails \/ \E r \in Requests : Complete(r) PROVE TokenInv'
  <2>1. PICK S : S = [request : Async, token : BOOLEAN]
    OBVIOUS
  <2>2. \/ completed_requests' = completed_requests
        \/ \E e \in S : /\ completed_requests' = Append(completed_requests, e)
                        /\ ~e.token => e.request \in failed'
    <3>1. CASE request \in Async /\ StartFails
      <4>1. [request |-> request, token |-> FALSE] \in S
        BY <2>1, <3>1
      <4>2. QED
        BY <3>1, <4>1 DEF StartFails
    <3>2. CASE request \notin Async /\ StartFails
      BY <3>2 DEF StartFails
    <3>3. ASSUME NEW r \in Async, Complete(r)
          PROVE  \/ completed_requests' = completed_requests
                 \/ \E e \in S : completed_requests' = Append(completed_requests, e) /\ e.token
      <4>1. [request |-> r, token |-> TRUE] \in S
        BY <2>1
      <4>2. QED
        BY <3>3, <4>1, NetworkAssumption DEF Complete
    <3>4. ASSUME NEW r \in Requests \ Async, Complete(r) PROVE completed_requests' = completed_requests
      BY <3>4 DEF Complete
    <3>5. QED
      BY <1>4, <3>1, <3>2, <3>3, <3>4
  <2>3. completed_requests \in Seq(S) /\ batch' = batch /\ failed \subseteq failed'
    BY <1>4, <2>1 DEF Types, TypeOK, StartFails, Complete, mainVars
  <2>4. CASE completed_requests' = completed_requests
    BY <2>3, <2>4 DEF TokenInv
  <2>5. ASSUME NEW e \in S, completed_requests' = Append(completed_requests, e),
               ~e.token => e.request \in failed'
        PROVE  TokenInv'
    <3>1. PICK k \in Nat : k = Len(completed_requests)
      BY <2>3, LenProperties
    <3>2. /\ completed_requests' \in Seq(S) /\ Len(completed_requests') = k + 1
          /\ \A i \in 1 .. k : completed_requests'[i] = completed_requests[i]
          /\ completed_requests'[k + 1] = e
      BY <2>3, <2>5, <3>1, AppendProperties
    <3>3. DOMAIN completed_requests = 1 .. k /\ DOMAIN completed_requests' = 1 .. k + 1
      BY <2>3, <3>1, <3>2, LenProperties
    <3>4. \A i \in DOMAIN completed_requests' :
            \/ completed_requests'[i] = e
            \/ i \in DOMAIN completed_requests /\ completed_requests'[i] = completed_requests[i]
      BY <3>2, <3>3
    <3>5. QED
      BY <2>3, <2>5, <3>4 DEF TokenInv
  <2>6. QED
    BY <2>2, <2>4, <2>5
<1>5. QED
  <2>1. CASE MainReacts \/ MainCalls
    BY <1>1, <1>2, <1>3, <2>1 DEF MainReacts, MainCalls, Wakeup, SyncCheck, SyncBlock,
       Enqueue, RequestStop, Write, Read, SyncSpuriousWakeup, Close, shared, transfers,
       mainVars
  <2>2. CASE NetStep \/ ServerStep
    BY <1>1, <1>4, <2>2 DEF NetStep, ServerStep, Loop, TakeRequest, Start, NewRequestsTaken,
       CheckCancelled, CancelledChecked, DrainOutput, SendOutput, OutputSent, Perform,
       AllComplete, Poll, Ends, Upgrades, SendsChunk, SendsClose, shared, transfers, mainVars
  <2>3. QED
    BY <2>1, <2>2 DEF Next

(* A stopped request that had a transfer never runs its callback.           *)
LEMMA SilentStep == ASSUME Types, TokenInv, [Next]_vars PROVE \A r \in stopped \ failed : ~Ran(r)
<1>1. CASE ran' = ran
  <2>1. \A r \in stopped : Append(ran, r) # ran
    BY AppendProperties DEF Types, TypeOK
  <2>2. QED
    BY <1>1, <2>1 DEF Ran
<1>2. CASE Dispatch
  <2>1. PICK S : S = [request : Async, token : BOOLEAN]
    OBVIOUS
  <2>2. batch \in Seq(S) /\ batch # <<>>
    BY <1>2, <2>1 DEF Types, TypeOK, Dispatch
  <2>3. PICK c \in S : c = Head(batch) /\ c = batch[1]
    BY <2>2, HeadTailProperties
  <2>4. 1 \in DOMAIN batch
    BY <2>2, EmptySeq, LenProperties
  <2>5. ~c.token => c.request \in failed
    BY <2>3, <2>4 DEF TokenInv
  <2>6. ran' = IF c.token /\ c.request \in stopped THEN ran ELSE Append(ran, c.request)
    BY <1>2, <2>3 DEF Dispatch
  <2>7. CASE ran' = Append(ran, c.request) /\ ~(c.token /\ c.request \in stopped)
    <3>1. \A r \in stopped : Append(ran, c.request) = Append(ran, r) => r = c.request
      BY <2>1, AppendInjective DEF Types, TypeOK
    <3>2. QED
      BY <2>5, <2>7, <3>1 DEF Ran
  <2>8. QED
    BY <1>1, <2>6, <2>7
<1>3. QED
  <2>1. CASE MainReacts \/ MainCalls
    BY <1>1, <1>2, <2>1 DEF MainReacts, MainCalls, Wakeup, Update, SyncCheck, SyncBlock,
       Closed, Enqueue, RequestStop, Write, Read, SyncSpuriousWakeup, Close, mainVars
  <2>2. CASE NetStep \/ ServerStep
    BY <1>1, <2>2 DEF NetStep, ServerStep, Loop, TakeRequest, StartFails, Start,
       NewRequestsTaken, CheckCancelled, CancelledChecked, DrainOutput, SendOutput,
       OutputSent, Perform, Complete, AllComplete, Poll, Ends, Upgrades, SendsChunk,
       SendsClose, mainVars
  <2>3. QED
    BY <1>1, <2>1, <2>2 DEF Next, vars, mainVars

-----------------------------------------------------------------------------
(***************************************************************************)
(* The data of a websocket.  A stretch of it holds the numbers after a up  *)
(* to b, in order; the buffers hold stretches that meet.                   *)
(***************************************************************************)
Stretch(s, a, b) ==
  /\ a \in Nat /\ b \in Nat /\ a <= b
  /\ s \in Seq(Nat) /\ Len(s) = b - a
  /\ \A i \in 1 .. b - a : s[i] = a + i

LEMMA EmptyStretch == ASSUME NEW a \in Nat PROVE Stretch(<<>>, a, a)
<1>1. <<>> \in Seq(Nat) /\ Len(<<>>) = 0 /\ 1 .. a - a = {}
  BY EmptySeq
<1>2. QED
  BY <1>1 DEF Stretch

LEMMA EmptyMeets == ASSUME NEW a, NEW b, Stretch(<<>>, a, b) PROVE a = b
<1>1. Len(<<>>) = 0
  BY EmptySeq
<1>2. QED
  BY <1>1 DEF Stretch

LEMMA StretchGrows ==
  ASSUME NEW s, NEW a, NEW b, Stretch(s, a, b)
  PROVE  Stretch(Append(s, b + 1), a, b + 1)
<1>1. PICK t : t = Append(s, b + 1)
  OBVIOUS
<1>2. a \in Nat /\ b \in Nat /\ a <= b /\ s \in Seq(Nat) /\ b + 1 \in Nat /\ Len(s) = b - a
  BY DEF Stretch
<1>3. /\ t \in Seq(Nat) /\ Len(t) = b - a + 1 /\ t[b - a + 1] = b + 1
      /\ \A i \in 1 .. b - a : t[i] = s[i]
  BY <1>1, <1>2, AppendProperties
<1>4. \A i \in 1 .. b + 1 - a : t[i] = a + i
  <2>1. TAKE i \in 1 .. b + 1 - a
  <2>2. CASE i = b - a + 1
    BY <1>2, <1>3, <2>2
  <2>3. CASE i \in 1 .. b - a
    <3>1. t[i] = s[i] /\ s[i] = a + i
      BY <1>3, <2>3 DEF Stretch
    <3>2. QED
      BY <3>1
  <2>4. QED
    BY <1>2, <2>2, <2>3
<1>5. Stretch(t, a, b + 1)
  BY <1>2, <1>3, <1>4 DEF Stretch
<1>6. QED
  BY <1>1, <1>5

LEMMA StretchesJoin ==
  ASSUME NEW s, NEW t, NEW a, NEW b, NEW c, Stretch(s, a, b), Stretch(t, b, c)
  PROVE  Stretch(s \o t, a, c)
<1>1. PICK u : u = s \o t
  OBVIOUS
<1>2. /\ a \in Nat /\ b \in Nat /\ c \in Nat /\ a <= b /\ b <= c
      /\ s \in Seq(Nat) /\ t \in Seq(Nat) /\ Len(s) = b - a /\ Len(t) = c - b
  BY DEF Stretch
<1>3. u \in Seq(Nat) /\ Len(u) = (b - a) + (c - b)
  BY <1>1, <1>2, ConcatProperties
<1>4. \A i \in 1 .. c - a : u[i] = a + i
  <2>1. TAKE i \in 1 .. c - a
  <2>2. u[i] = IF i <= b - a THEN s[i] ELSE t[i - (b - a)]
    BY SMTT(60), <1>1, <1>2, ConcatProperties
  <2>3. CASE i <= b - a
    BY <1>2, <2>2, <2>3 DEF Stretch
  <2>4. CASE ~(i <= b - a)
    <3>1. i - (b - a) \in 1 .. c - b
      BY <1>2, <2>4
    <3>2. t[i - (b - a)] = b + (i - (b - a))
      BY <3>1 DEF Stretch
    <3>3. QED
      BY <1>2, <2>2, <2>4, <3>2
  <2>5. QED
    BY <2>3, <2>4
<1>5. Stretch(u, a, c)
  BY <1>2, <1>3, <1>4 DEF Stretch
<1>6. QED
  BY <1>1, <1>5

LEMMA StretchSplits ==
  ASSUME NEW s, NEW a, NEW b, Stretch(s, a, b), NEW n \in 0 .. Len(s)
  PROVE  /\ a + n \in Nat
         /\ Stretch(SubSeq(s, 1, n), a, a + n) /\ Stretch(SubSeq(s, n + 1, Len(s)), a + n, b)
<1>1. PICK u, v : u = SubSeq(s, 1, n) /\ v = SubSeq(s, n + 1, Len(s))
  OBVIOUS
<1>2. /\ a \in Nat /\ b \in Nat /\ a <= b /\ s \in Seq(Nat) /\ Len(s) = b - a /\ n \in 0 .. b - a
      /\ \A i \in 1 .. b - a : s[i] = a + i /\ s[i] \in Nat
  BY DEF Stretch
<1>3. u \in Seq(Nat) /\ Len(u) = n /\ \A i \in 1 .. n : u[i] = s[i]
  BY <1>1, <1>2, SubSeqProperties
<1>4. v \in Seq(Nat) /\ Len(v) = b - a - n /\ \A i \in 1 .. b - a - n : v[i] = s[n + i]
  BY <1>1, <1>2, SubSeqProperties
<1>5. Stretch(u, a, a + n)
  <2>1. a + n - a = n /\ a <= a + n /\ a + n \in Nat /\ \A i \in 1 .. n : u[i] = a + i
    BY SMTT(60), <1>2, <1>3
  <2>2. QED
    BY <1>2, <1>3, <2>1 DEF Stretch
<1>6. Stretch(v, a + n, b)
  <2>1. \A i \in 1 .. b - (a + n) : n + i \in 1 .. b - a /\ v[i] = (a + n) + i
    BY <1>2, <1>4
  <2>2. QED
    BY <1>2, <1>4, <2>1 DEF Stretch
<1>7. QED
  BY <1>1, <1>2, <1>5, <1>6

LEMMA StretchCounts == ASSUME NEW s, NEW n, Stretch(s, 0, n) PROVE s = Count(n)
<1>1. n \in Nat /\ s \in Seq(Nat) /\ Len(s) = n /\ \A i \in 1 .. n : s[i] = i
  BY DEF Stretch
<1>2. s = [i \in 1 .. n |-> s[i]]
  BY <1>1, LenProperties
<1>3. QED
  BY <1>1, <1>2 DEF Count

-----------------------------------------------------------------------------
(* Where the network thread is not sending it holds no output of a socket.  *)
Holding == net # "send" => to_send = <<>>
Held(w) == IF request = w THEN to_send ELSE <<>>
OutStretches(w) ==
  \E a, b \in Nat : Stretch(received[w], 0, a) /\ Stretch(Held(w), a, b) /\ Stretch(out[w], b, written[w])
InStretches(w) ==
  \E a, b \in Nat : /\ Stretch(got[w], 0, a) /\ Stretch(in[w], a, b) /\ Stretch(in_partial[w], b, chunks[w])
                    /\ b % 2 = 0
StreamInv == Holding /\ \A w \in Sockets : OutStretches(w) /\ InStretches(w)

LEMMA StreamInit == Init => StreamInv
<1> SUFFICES ASSUME Init PROVE StreamInv
  OBVIOUS
<1>1. Stretch(<<>>, 0, 0) /\ 0 % 2 = 0
  BY EmptyStretch
<1>2. ASSUME NEW w \in Sockets PROVE OutStretches(w) /\ InStretches(w)
  <2>1. received[w] = <<>> /\ Held(w) = <<>> /\ out[w] = <<>> /\ written[w] = 0
    BY DEF Init, Held
  <2>2. got[w] = <<>> /\ in[w] = <<>> /\ in_partial[w] = <<>> /\ chunks[w] = 0
    BY DEF Init
  <2>3. OutStretches(w)
    BY <1>1, <2>1 DEF OutStretches
  <2>4. InStretches(w)
    BY <1>1, <2>2 DEF InStretches
  <2>5. QED
    BY <2>3, <2>4
<1>3. QED
  BY <1>2 DEF Init, StreamInv, Holding

LEMMA StreamHolds ==
  ASSUME StreamInv
  PROVE  \A w \in Sockets :
           /\ (received[w] \o Held(w)) \o out[w] = Count(written[w])
           /\ (got[w] \o in[w]) \o in_partial[w] = Count(chunks[w])
           /\ Len(got[w] \o in[w]) % 2 = 0
<1>1. TAKE w \in Sockets
<1>2. (received[w] \o Held(w)) \o out[w] = Count(written[w])
  <2>1. PICK a, b \in Nat : Stretch(received[w], 0, a) /\ Stretch(Held(w), a, b) /\ Stretch(out[w], b, written[w])
    BY DEF StreamInv, OutStretches
  <2>2. Stretch(received[w] \o Held(w), 0, b)
    BY <2>1, StretchesJoin
  <2>3. Stretch((received[w] \o Held(w)) \o out[w], 0, written[w])
    BY <2>1, <2>2, StretchesJoin
  <2>4. QED
    BY <2>3, StretchCounts
<1>3. /\ (got[w] \o in[w]) \o in_partial[w] = Count(chunks[w])
      /\ Len(got[w] \o in[w]) % 2 = 0
  <2>1. PICK a, b \in Nat : /\ Stretch(got[w], 0, a) /\ Stretch(in[w], a, b)
                            /\ Stretch(in_partial[w], b, chunks[w]) /\ b % 2 = 0
    BY DEF StreamInv, InStretches
  <2>2. Stretch(got[w] \o in[w], 0, b)
    BY <2>1, StretchesJoin
  <2>3. Stretch((got[w] \o in[w]) \o in_partial[w], 0, chunks[w])
    BY <2>1, <2>2, StretchesJoin
  <2>4. Len(got[w] \o in[w]) = b
    BY <2>2 DEF Stretch
  <2>5. QED
    BY <2>1, <2>3, <2>4, StretchCounts
<1>4. QED
  BY <1>2, <1>3

LEMMA OutUnchanged ==
  ASSUME StreamInv, UNCHANGED outgoing, (net # "send" /\ net' # "send") \/ UNCHANGED <<net, request>>
  PROVE  Holding' /\ \A w \in Sockets : OutStretches(w)'
BY DEF StreamInv, Holding, OutStretches, Held, outgoing

LEMMA InUnchanged ==
  ASSUME StreamInv, UNCHANGED incoming
  PROVE  \A w \in Sockets : InStretches(w)'
BY DEF StreamInv, InStretches, incoming

LEMMA WriteStreams == ASSUME Types, StreamInv, NEW w \in Sockets, Write(w) PROVE StreamInv'
<1>1. UNCHANGED <<net, request, to_send, received, incoming>>
  BY DEF Write
<1>2. PICK a, b \in Nat : Stretch(received[w], 0, a) /\ Stretch(Held(w), a, b) /\ Stretch(out[w], b, written[w])
  BY DEF StreamInv, OutStretches
<1>3. Stretch(Append(out[w], written[w] + 1), b, written[w] + 1)
  BY <1>2, StretchGrows
<1>4. out'[w] = Append(out[w], written[w] + 1) /\ written'[w] = written[w] + 1
  BY DEF Write, Types, BufferTypes
<1>5. Stretch(out'[w], b, written'[w])
  BY <1>3, <1>4
<1>6. received'[w] = received[w] /\ Held(w)' = Held(w)
  BY <1>1 DEF Held
<1>7. OutStretches(w)'
  BY <1>2, <1>5, <1>6 DEF OutStretches
<1>8. ASSUME NEW v \in Sockets \ {w} PROVE OutStretches(v)'
  <2>1. out'[v] = out[v] /\ written'[v] = written[v] /\ received'[v] = received[v] /\ Held(v)' = Held(v)
    BY <1>1 DEF Write, Types, BufferTypes, Held
  <2>2. QED
    BY <2>1 DEF StreamInv, OutStretches
<1>9. Holding'
  BY <1>1 DEF StreamInv, Holding
<1>10. QED
  BY <1>1, <1>7, <1>8, <1>9, InUnchanged DEF StreamInv

LEMMA ReadStreams == ASSUME Types, StreamInv, NEW w \in Sockets, Read(w) PROVE StreamInv'
<1>1. UNCHANGED <<net, request, outgoing, in_partial, chunks>>
  BY DEF Read
<1>2. PICK a, b \in Nat : /\ Stretch(got[w], 0, a) /\ Stretch(in[w], a, b)
                          /\ Stretch(in_partial[w], b, chunks[w]) /\ b % 2 = 0
  BY DEF StreamInv, InStretches
<1>3. Stretch(got[w] \o in[w], 0, b) /\ Stretch(<<>>, b, b)
  BY <1>2, StretchesJoin, EmptyStretch
<1>4. got'[w] = got[w] \o in[w] /\ in'[w] = <<>> /\ in_partial'[w] = in_partial[w] /\ chunks'[w] = chunks[w]
  BY <1>1 DEF Read, Types, BufferTypes
<1>5. Stretch(got'[w], 0, b) /\ Stretch(in'[w], b, b) /\ Stretch(in_partial'[w], b, chunks'[w])
  BY <1>2, <1>3, <1>4
<1>6. InStretches(w)'
  BY <1>2, <1>5 DEF InStretches
<1>7. ASSUME NEW v \in Sockets \ {w} PROVE InStretches(v)'
  <2>1. got'[v] = got[v] /\ in'[v] = in[v] /\ in_partial'[v] = in_partial[v] /\ chunks'[v] = chunks[v]
    BY <1>1 DEF Read, Types, BufferTypes
  <2>2. QED
    BY <2>1 DEF StreamInv, InStretches
<1>8. QED
  BY <1>1, <1>6, <1>7, OutUnchanged DEF StreamInv

LEMMA DrainStreams == ASSUME Types, StreamInv, NEW w \in Sockets, DrainOutput(w) PROVE StreamInv'
<1>1. /\ UNCHANGED <<written, received, incoming>> /\ net = "drain" /\ net' = "send"
      /\ request' = w /\ to_send' = out[w]
  BY DEF DrainOutput
<1>2. request = NoRequest /\ NoRequest \notin Sockets
  BY <1>1, NetworkAssumption DEF Types, TypeOK, Requests
<1>3. PICK a, b \in Nat : Stretch(received[w], 0, a) /\ Stretch(<<>>, a, b) /\ Stretch(out[w], b, written[w])
  BY <1>2 DEF StreamInv, OutStretches, Held
<1>4. a = b
  BY <1>3, EmptyMeets
<1>5. written[w] \in Nat /\ Stretch(<<>>, written[w], written[w])
  BY <1>3, EmptyStretch DEF Stretch
<1>6. Held(w)' = out[w] /\ out'[w] = <<>> /\ received'[w] = received[w] /\ written'[w] = written[w]
  BY <1>1 DEF DrainOutput, Types, BufferTypes, Held
<1>7. Stretch(received'[w], 0, a) /\ Stretch(Held(w)', a, written[w]) /\ Stretch(out'[w], written[w], written'[w])
  BY <1>3, <1>4, <1>5, <1>6
<1>8. OutStretches(w)'
  BY <1>5, <1>7 DEF OutStretches
<1>9. ASSUME NEW v \in Sockets \ {w} PROVE OutStretches(v)'
  <2>1. out'[v] = out[v] /\ written'[v] = written[v] /\ received'[v] = received[v] /\ Held(v)' = Held(v)
    BY <1>1, <1>2 DEF DrainOutput, Types, BufferTypes, Held
  <2>2. QED
    BY <2>1 DEF StreamInv, OutStretches
<1>10. Holding'
  BY <1>1 DEF Holding
<1>11. QED
  BY <1>1, <1>8, <1>9, <1>10, InUnchanged DEF StreamInv

(* What curl did not accept goes back in front of what was written since.   *)
LEMMA SendStreams == ASSUME Types, StreamInv, SendOutput PROVE StreamInv'
<1>1. PICK w \in Sockets : w = request
  BY DEF SendOutput, Types, BufferTypes
<1>2. UNCHANGED <<written, incoming>> /\ net' = "drain" /\ request' = NoRequest /\ to_send' = <<>>
  BY DEF SendOutput
<1>3. PICK n \in 0 .. Len(to_send) :
        /\ received' = [received EXCEPT ![w] = received[w] \o SubSeq(to_send, 1, n)]
        /\ out' = [out EXCEPT ![w] = SubSeq(to_send, n + 1, Len(to_send)) \o out[w]]
  BY <1>1 DEF SendOutput, PutBack
<1>4. PICK a, b \in Nat : Stretch(received[w], 0, a) /\ Stretch(to_send, a, b) /\ Stretch(out[w], b, written[w])
  BY <1>1 DEF StreamInv, OutStretches, Held
<1>5. /\ a + n \in Nat /\ Stretch(SubSeq(to_send, 1, n), a, a + n)
      /\ Stretch(SubSeq(to_send, n + 1, Len(to_send)), a + n, b)
  BY <1>3, <1>4, StretchSplits
<1>6. Stretch(received[w] \o SubSeq(to_send, 1, n), 0, a + n)
  BY <1>4, <1>5, StretchesJoin
<1>7. Stretch(SubSeq(to_send, n + 1, Len(to_send)) \o out[w], a + n, written[w])
  BY <1>4, <1>5, StretchesJoin
<1>8. Stretch(<<>>, a + n, a + n)
  BY <1>5, EmptyStretch
<1>9. /\ received'[w] = received[w] \o SubSeq(to_send, 1, n)
      /\ out'[w] = SubSeq(to_send, n + 1, Len(to_send)) \o out[w]
      /\ Held(w)' = <<>> /\ written'[w] = written[w]
  BY <1>2, <1>3 DEF Types, BufferTypes, Held
<1>10. Stretch(received'[w], 0, a + n) /\ Stretch(Held(w)', a + n, a + n) /\ Stretch(out'[w], a + n, written'[w])
  BY <1>6, <1>7, <1>8, <1>9
<1>11. OutStretches(w)'
  BY <1>5, <1>10 DEF OutStretches
<1>12. ASSUME NEW v \in Sockets \ {w} PROVE OutStretches(v)'
  <2>1. /\ out'[v] = out[v] /\ written'[v] = written[v] /\ received'[v] = received[v]
        /\ Held(v)' = <<>> /\ Held(v) = <<>>
    BY <1>1, <1>2, <1>3 DEF Types, BufferTypes, Held
  <2>2. QED
    BY <2>1 DEF StreamInv, OutStretches
<1>13. Holding'
  BY <1>2 DEF Holding
<1>14. QED
  BY <1>2, <1>11, <1>12, <1>13, InUnchanged DEF StreamInv

LEMMA PerformStreams == ASSUME Types, StreamInv, Perform PROVE StreamInv'
<1>1. UNCHANGED outgoing /\ net # "send" /\ net' # "send"
  BY DEF Perform
<1>2. ASSUME NEW w \in Sockets PROVE InStretches(w)'
  <2>1. PICK a, b \in Nat : /\ Stretch(got[w], 0, a) /\ Stretch(in[w], a, b)
                            /\ Stretch(in_partial[w], b, chunks[w]) /\ b % 2 = 0
    BY DEF StreamInv, InStretches
  <2>2. PICK G, I, P, c :
          /\ G = got[w] /\ I = in[w] /\ P = in_partial[w] /\ c = chunks[w]
          /\ Stretch(G, 0, a) /\ Stretch(I, a, b) /\ Stretch(P, b, c) /\ b % 2 = 0
    BY <2>1
  <2>3. c + 1 \in Nat /\ Stretch(Append(P, c + 1), b, c + 1) /\ Stretch(<<>>, c + 1, c + 1)
    <3>1. c + 1 \in Nat
      BY <2>2 DEF Stretch
    <3>2. QED
      BY <2>2, <3>1, StretchGrows, EmptyStretch
  <2>4. Stretch(I \o Append(P, c + 1), a, c + 1)
    BY <2>2, <2>3, StretchesJoin
  <2>5. \/ in'[w] = I /\ in_partial'[w] = P /\ chunks'[w] = c
        \/ in'[w] = I /\ in_partial'[w] = Append(P, c + 1) /\ chunks'[w] = c + 1
        \/ /\ in'[w] = I \o Append(P, c + 1) /\ in_partial'[w] = <<>> /\ chunks'[w] = c + 1
           /\ (c + 1) % 2 = 0
    <3>1. PICK part, whole, chunk :
            /\ part = Append(P, c + 1)
            /\ chunk = (w \in Arriving("chunk"))
            /\ whole = (w \in Arriving("chunk") /\ FrameComplete(c + 1))
      OBVIOUS
    <3>2. /\ in'[w] = IF whole THEN I \o part ELSE I
          /\ in_partial'[w] = IF whole THEN <<>> ELSE IF chunk THEN part ELSE P
          /\ chunks'[w] = IF chunk THEN c + 1 ELSE c
      BY <2>2, <3>1 DEF Perform
    <3>3. QED
      BY <3>1, <3>2 DEF FrameComplete
  <2>6. Stretch(got'[w], 0, a)
    BY <2>2 DEF Perform
  <2>7. CASE in'[w] = I /\ in_partial'[w] = P /\ chunks'[w] = c
    BY <2>2, <2>6, <2>7 DEF InStretches
  <2>8. CASE in'[w] = I /\ in_partial'[w] = Append(P, c + 1) /\ chunks'[w] = c + 1
    BY <2>2, <2>3, <2>6, <2>8 DEF InStretches
  <2>9. CASE /\ in'[w] = I \o Append(P, c + 1) /\ in_partial'[w] = <<>> /\ chunks'[w] = c + 1
             /\ (c + 1) % 2 = 0
    <3>1. Stretch(in'[w], a, c + 1) /\ Stretch(in_partial'[w], c + 1, chunks'[w])
      BY <2>3, <2>4, <2>9
    <3>2. QED
      BY <2>2, <2>3, <2>6, <2>9, <3>1 DEF InStretches
  <2>20. QED
    BY <2>5, <2>7, <2>8, <2>9
<1>3. QED
  BY <1>1, <1>2, OutUnchanged DEF StreamInv

LEMMA StreamStep == ASSUME Types, StreamInv, [Next]_vars PROVE StreamInv'
<1>1. CASE UNCHANGED <<outgoing, incoming>> /\ ((net # "send" /\ net' # "send") \/ UNCHANGED <<net, request>>)
  BY <1>1, OutUnchanged, InUnchanged DEF StreamInv
<1>2. CASE MainReacts \/ MainCalls
  BY <1>1, <1>2, WriteStreams, ReadStreams DEF MainReacts, MainCalls, Wakeup, Update,
     Dispatch, SyncCheck, SyncBlock, Closed, Enqueue, RequestStop, SyncSpuriousWakeup, Close,
     sockets
<1>3. CASE NetStep \/ ServerStep
  BY <1>1, <1>3, DrainStreams, SendStreams, PerformStreams DEF NetStep, ServerStep, Loop,
     TakeRequest, StartFails, Start, NewRequestsTaken, CheckCancelled, CancelledChecked,
     OutputSent, Complete, AllComplete, Poll, Ends, Upgrades, SendsChunk, SendsClose, sockets
<1>4. CASE UNCHANGED vars
  BY <1>1, <1>4 DEF vars, sockets
<1>5. QED
  BY <1>2, <1>3, <1>4 DEF Next

-----------------------------------------------------------------------------
(* The inductive invariant.                                                 *)
IInv == Types /\ WakeInv /\ TokenInv /\ StreamInv

LEMMA InvInit == Init => IInv
<1> SUFFICES ASSUME Init PROVE WakeInv /\ TokenInv
  BY TypesInit, StreamInit DEF IInv
<1>1. WakeInv
  BY DEF Init, WakeInv
<1>2. DOMAIN <<>> = {}
  OBVIOUS
<1>3. TokenInv
  BY <1>2 DEF Init, TokenInv
<1>4. QED
  BY <1>1, <1>3

LEMMA InvStep == IInv /\ [Next]_vars => IInv'
<1> SUFFICES ASSUME IInv, [Next]_vars PROVE IInv'
  OBVIOUS
<1>1. Types' /\ StreamInv'
  BY TypesStep, StreamStep DEF IInv
<1>2. CASE Next
  BY <1>1, <1>2, WakeStep, TokenStep DEF IInv
<1>3. CASE UNCHANGED vars
  <2>1. WakeInv'
    BY <1>3 DEF IInv, WakeInv, Told, vars, mainVars, asked, shared, transfers
  <2>2. TokenInv'
    BY <1>3 DEF IInv, TokenInv, vars, mainVars, shared, transfers
  <2>3. QED
    BY <1>1, <2>1, <2>2 DEF IInv
<1>4. QED
  BY <1>2, <1>3

(* The invariant holds in every reachable state.                            *)
THEOREM NetworkInvariance == Spec => []IInv
<1>1. QED
  BY InvInit, InvStep, PTL DEF Spec

(* What is enqueued, stopped or asked of the network thread before a call   *)
(* of curl_multi_wakeup is seen before the next sleep.                      *)
THEOREM NeverSleepsOverNews == Spec => []NoMissedWakeup
<1>1. IInv => NoMissedWakeup
  <2> SUFFICES ASSUME IInv, net = "poll", ~wakeup, main # "wake"
               PROVE  pending_requests = <<>> /\ ~stopping /\ active_requests \cap stopped = {}
    BY DEF NoMissedWakeup
  <2>1. QED
    BY DEF IInv, WakeInv, Told
<1>2. QED
  BY <1>1, NetworkInvariance, PTL

(* The callback of a request that was stopped before it was dispatched does *)
(* not run, if the request had a transfer.                                  *)
THEOREM StoppedStaySilent == Spec => StoppedIsSilent
<1>1. IInv /\ [Next]_vars => [\A r \in stopped \ failed : ~Ran(r)]_vars
  BY SilentStep DEF IInv
<1>2. QED
  BY <1>1, NetworkInvariance, PTL DEF Spec, StoppedIsSilent

(* However writes, partial sends, frames and reads alternate, each end of a *)
(* websocket receives what the other sent, in order.                        *)
THEOREM WebsocketsKeepOrder == Spec => []WebsocketStreams
<1>1. IInv => WebsocketStreams
  BY StreamHolds DEF IInv, WebsocketStreams, Held
<1>2. QED
  BY <1>1, NetworkInvariance, PTL

-----------------------------------------------------------------------------
(***************************************************************************)
(* The proof that NetworkHandler never loses a request and never answers   *)
(* one twice: OnePlace, for every number of requests.                      *)
(***************************************************************************)


-----------------------------------------------------------------------------
(* Queues without repetition.                                              *)
Elements(q) == {q[i] : i \in DOMAIN q}
Distinct(q) == \A i, j \in DOMAIN q : q[i] = q[j] => i = j
RequestsOf(q) == [i \in DOMAIN q |-> q[i].request]

LEMMA EmptyQueue == Elements(<<>>) = {} /\ Distinct(<<>>) /\ RequestsOf(<<>>) = <<>>
<1>1. DOMAIN <<>> = {}
  OBVIOUS
<1>2. QED
  BY <1>1 DEF Elements, Distinct, RequestsOf

LEMMA AppendQueue ==
  ASSUME NEW S, NEW q \in Seq(S), NEW e \in S
  PROVE  /\ Elements(Append(q, e)) = Elements(q) \cup {e}
         /\ Distinct(q) /\ e \notin Elements(q) => Distinct(Append(q, e))
<1>1. PICK t, n : t = Append(q, e) /\ n = Len(q)
  OBVIOUS
<1>2. n \in Nat /\ t \in Seq(S) /\ Len(t) = n + 1 /\ t[n + 1] = e /\ \A i \in 1 .. n : t[i] = q[i]
  BY <1>1, AppendProperties, LenProperties
<1>3. DOMAIN q = 1 .. n /\ DOMAIN t = 1 .. n + 1
  BY <1>1, <1>2, LenProperties
<1>4. \A i \in DOMAIN t : \/ i \in DOMAIN q /\ i # n + 1 /\ t[i] = q[i]
                          \/ i = n + 1 /\ t[i] = e
  BY <1>2, <1>3
<1>5. DOMAIN q \subseteq DOMAIN t /\ n + 1 \in DOMAIN t /\ \A i \in DOMAIN q : t[i] = q[i]
  BY <1>2, <1>3
<1>6. Elements(t) = Elements(q) \cup {e}
  BY <1>2, <1>4, <1>5 DEF Elements
<1>7. Distinct(q) /\ e \notin Elements(q) => Distinct(t)
  BY <1>4 DEF Distinct, Elements
<1>8. QED
  BY <1>1, <1>6, <1>7

LEMMA TailQueue ==
  ASSUME NEW S, NEW q \in Seq(S), q # <<>>, Distinct(q)
  PROVE  /\ Elements(Tail(q)) = Elements(q) \ {Head(q)} /\ Distinct(Tail(q))
         /\ Head(q) \in Elements(q)
<1>1. PICK t, n : t = Tail(q) /\ n = Len(q)
  OBVIOUS
<1>2. /\ n \in Nat /\ Head(q) = q[1] /\ t \in Seq(S) /\ Len(t) = n - 1 /\ n # 0
      /\ \A i \in 1 .. n - 1 : t[i] = q[i + 1]
  BY <1>1, HeadTailProperties, EmptySeq, LenProperties
<1>3. DOMAIN q = 1 .. n /\ DOMAIN t = 1 .. n - 1
  BY <1>1, <1>2, LenProperties
<1>4. \A i \in DOMAIN t : i + 1 \in DOMAIN q /\ i + 1 # 1 /\ t[i] = q[i + 1]
  BY <1>2, <1>3
<1>5. \A i \in DOMAIN q : i = 1 \/ (i - 1 \in DOMAIN t /\ q[i] = t[i - 1])
  <2>1. TAKE i \in DOMAIN q
  <2>2. CASE i # 1
    <3>1. i - 1 \in 1 .. n - 1 /\ (i - 1) + 1 = i
      BY <1>2, <1>3, <2>2
    <3>2. QED
      BY <1>2, <1>3, <3>1
  <2>3. QED
    BY <2>2
<1>6. 1 \in DOMAIN q
  BY <1>2, <1>3
<1>7. Distinct(t)
  <2>1. SUFFICES ASSUME NEW i \in DOMAIN t, NEW j \in DOMAIN t, t[i] = t[j] PROVE i = j
    BY DEF Distinct
  <2>2. i + 1 = j + 1
    BY <1>4, <2>1 DEF Distinct
  <2>3. QED
    BY <1>3, <2>2
<1>8. Elements(t) = Elements(q) \ {q[1]}
  <2>1. ASSUME NEW x \in Elements(t) PROVE x \in Elements(q) \ {q[1]}
    <3>1. PICK i \in DOMAIN t : x = t[i]
      BY DEF Elements
    <3>2. i + 1 \in DOMAIN q /\ i + 1 # 1 /\ x = q[i + 1]
      BY <1>4, <3>1
    <3>3. QED
      BY <1>6, <3>2 DEF Distinct, Elements
  <2>2. ASSUME NEW x \in Elements(q) \ {q[1]} PROVE x \in Elements(t)
    <3>1. PICK i \in DOMAIN q : x = q[i] /\ i # 1
      BY DEF Elements
    <3>2. i - 1 \in DOMAIN t /\ x = t[i - 1]
      BY <1>5, <3>1
    <3>3. QED
      BY <3>2 DEF Elements
  <2>3. QED
    BY <2>1, <2>2
<1>9. q[1] \in Elements(q)
  BY <1>6 DEF Elements
<1>10. QED
  BY <1>1, <1>2, <1>7, <1>8, <1>9

LEMMA RequestsAppend ==
  ASSUME NEW S, NEW q \in Seq([request : S, token : BOOLEAN]), NEW e \in [request : S, token : BOOLEAN]
  PROVE  RequestsOf(q) \in Seq(S) /\ RequestsOf(Append(q, e)) = Append(RequestsOf(q), e.request)
<1>1. PICK T, t, n, m, u :
        /\ T = [request : S, token : BOOLEAN] /\ t = Append(q, e) /\ n = Len(q)
        /\ m = RequestsOf(q) /\ u = Append(m, e.request)
  OBVIOUS
<1>2. n \in Nat /\ q \in Seq(T) /\ e \in T /\ e.request \in S
  BY <1>1, LenProperties
<1>3. t \in Seq(T) /\ Len(t) = n + 1 /\ t[n + 1] = e /\ \A i \in 1 .. n : t[i] = q[i]
  BY <1>1, <1>2, AppendProperties
<1>4. DOMAIN q = 1 .. n /\ DOMAIN t = 1 .. n + 1
  BY <1>1, <1>2, <1>3, LenProperties
<1>5. \A i \in 1 .. n : q[i] \in T
  BY <1>1, <1>2, ElementOfSeq
<1>6. m = [i \in 1 .. n |-> q[i].request] /\ \A i \in 1 .. n : q[i].request \in S
  BY <1>1, <1>4, <1>5 DEF RequestsOf
<1>7. m \in Seq(S) /\ Len(m) = n
  <2>1. m \in [1 .. n -> S]
    BY <1>6
  <2>2. m \in Seq(S)
    BY <1>2, <2>1, SeqDef
  <2>3. Len(m) \in Nat /\ 1 .. Len(m) = 1 .. n
    BY <2>1, <2>2, LenProperties
  <2>4. QED
    BY <1>2, <2>2, <2>3
<1>8. u \in Seq(S) /\ Len(u) = n + 1 /\ u[n + 1] = e.request /\ \A i \in 1 .. n : u[i] = m[i]
  BY <1>1, <1>2, <1>7, AppendProperties
<1>9. RequestsOf(t) = [i \in 1 .. n + 1 |-> t[i].request]
  BY <1>4 DEF RequestsOf
<1>10. \A i \in 1 .. n + 1 : t[i].request = u[i]
  <2>1. TAKE i \in 1 .. n + 1
  <2>2. CASE i = n + 1
    BY <1>3, <1>8, <2>2
  <2>3. CASE i \in 1 .. n
    <3>1. t[i] = q[i] /\ u[i] = m[i] /\ m[i] = q[i].request
      BY <1>3, <1>6, <1>8, <2>3
    <3>2. QED
      BY <3>1
  <2>4. QED
    BY <1>2, <2>2, <2>3
<1>11. u = [i \in 1 .. n + 1 |-> u[i]]
  BY <1>8, LenProperties
<1>12. QED
  BY <1>1, <1>7, <1>9, <1>10, <1>11

LEMMA RequestsTail ==
  ASSUME NEW S, NEW q \in Seq([request : S, token : BOOLEAN]), q # <<>>
  PROVE  /\ RequestsOf(q) \in Seq(S) /\ RequestsOf(q) # <<>>
         /\ Head(RequestsOf(q)) = Head(q).request /\ RequestsOf(Tail(q)) = Tail(RequestsOf(q))
<1>1. PICK T, t, n, m, u :
        /\ T = [request : S, token : BOOLEAN] /\ t = Tail(q) /\ n = Len(q)
        /\ m = RequestsOf(q) /\ u = Tail(m)
  OBVIOUS
<1>2. n \in Nat /\ q \in Seq(T)
  BY <1>1, LenProperties
<1>3. /\ Head(q) = q[1] /\ t \in Seq(T) /\ Len(t) = n - 1 /\ n # 0
      /\ \A i \in 1 .. n - 1 : t[i] = q[i + 1]
  BY <1>1, <1>2, HeadTailProperties, EmptySeq
<1>4. DOMAIN q = 1 .. n /\ DOMAIN t = 1 .. n - 1
  BY <1>1, <1>2, <1>3, LenProperties
<1>5. \A i \in 1 .. n : q[i] \in T
  BY <1>1, <1>2, ElementOfSeq
<1>6. m = [i \in 1 .. n |-> q[i].request] /\ \A i \in 1 .. n : q[i].request \in S
  BY <1>1, <1>4, <1>5 DEF RequestsOf
<1>7. m \in Seq(S) /\ Len(m) = n
  <2>1. m \in [1 .. n -> S]
    BY <1>6
  <2>2. m \in Seq(S)
    BY <1>2, <2>1, SeqDef
  <2>3. Len(m) \in Nat /\ 1 .. Len(m) = 1 .. n
    BY <2>1, <2>2, LenProperties
  <2>4. QED
    BY <1>2, <2>2, <2>3
<1>8. m # <<>>
  BY <1>3, <1>7, EmptySeq
<1>9. /\ Head(m) = m[1] /\ u \in Seq(S) /\ Len(u) = n - 1
      /\ \A i \in 1 .. n - 1 : u[i] = m[i + 1]
  BY <1>1, <1>7, <1>8, HeadTailProperties
<1>10. RequestsOf(t) = [i \in 1 .. n - 1 |-> t[i].request]
  BY <1>4 DEF RequestsOf
<1>11. \A i \in 1 .. n - 1 : i + 1 \in 1 .. n /\ t[i].request = u[i]
  <2>1. TAKE i \in 1 .. n - 1
  <2>2. i + 1 \in 1 .. n
    BY <1>2
  <2>3. t[i] = q[i + 1] /\ u[i] = m[i + 1] /\ m[i + 1] = q[i + 1].request
    BY <1>3, <1>6, <1>9, <2>2
  <2>4. QED
    BY <2>2, <2>3
<1>12. u = [i \in 1 .. n - 1 |-> u[i]]
  BY <1>9, LenProperties
<1>13. Head(m) = Head(q).request
  <2>1. 1 \in 1 .. n
    BY <1>2, <1>3
  <2>2. m[1] = q[1].request
    BY <1>6, <2>1
  <2>3. QED
    BY <1>3, <1>9, <2>2
<1>14. QED
  BY <1>1, <1>7, <1>8, <1>10, <1>11, <1>12, <1>13

-----------------------------------------------------------------------------
(* Where the requests are.                                                 *)
Pending == Elements(pending_requests)
Completed == Elements(RequestsOf(completed_requests))
Batched == Elements(RequestsOf(batch))
Answered == Elements(ran)

AllDistinct ==
  /\ Distinct(pending_requests) /\ Distinct(ran)
  /\ Distinct(RequestsOf(completed_requests)) /\ Distinct(RequestsOf(batch))

Somewhere(r) ==
  \/ r \in Pending \/ r = request \/ r \in active_requests
  \/ r \in Completed \/ r \in Batched \/ r \in Answered \/ r \in sync_responses

(* In at most one of the places that Somewhere names.                      *)
OnceOnly(r) ==
  /\ r \in Pending =>
       /\ r # request /\ r \notin active_requests
       /\ r \notin Completed /\ r \notin Batched /\ r \notin Answered /\ r \notin sync_responses
  /\ r = request =>
       /\ r \notin active_requests
       /\ r \notin Completed /\ r \notin Batched /\ r \notin Answered /\ r \notin sync_responses
  /\ r \in active_requests =>
       r \notin Completed /\ r \notin Batched /\ r \notin Answered /\ r \notin sync_responses
  /\ r \in Completed => r \notin Batched /\ r \notin Answered /\ r \notin sync_responses
  /\ r \in Batched => r \notin Answered /\ r \notin sync_responses
  /\ r \in Answered => r \notin sync_responses

Handed == \A r \in Async \cup Sync : Somewhere(r) => r \in sent
Once == \A r \in Async \cup Sync : OnceOnly(r)
Kept ==
  /\ main # "closed" => \A r \in Async : r \in sent /\ r \notin stopped => Somewhere(r)
  /\ waitsFor \in Sync /\ waitsFor \notin failed => Somewhere(waitsFor)

PlaceInv == AllDistinct /\ Handed /\ Once /\ Kept

LEMMA PlaceInit == Init => PlaceInv
<1> SUFFICES ASSUME Init PROVE PlaceInv
  OBVIOUS
<1>1. /\ AllDistinct /\ Pending = {} /\ Completed = {} /\ Batched = {} /\ Answered = {}
      /\ active_requests = {} /\ sync_responses = {} /\ sent = {}
      /\ request = NoRequest /\ waitsFor = NoRequest
  BY EmptyQueue DEF Init, AllDistinct, Pending, Completed, Batched, Answered
<1>2. NoRequest \notin Async \cup Sync
  BY NetworkAssumption DEF Requests
<1>3. \A r \in Async \cup Sync : ~Somewhere(r)
  BY <1>1, <1>2 DEF Somewhere
<1>4. Once
  BY <1>1, <1>2 DEF Once, OnceOnly
<1>5. QED
  BY <1>1, <1>2, <1>3, <1>4 DEF PlaceInv, Handed, Kept

LEMMA Unmoved ==
  ASSUME PlaceInv, stopped \subseteq stopped', main' # "closed" => main # "closed",
         UNCHANGED <<pending_requests, completed_requests, batch, ran, request, active_requests,
                     sync_responses, sent, waitsFor, failed>>
  PROVE  PlaceInv'
<1>1. UNCHANGED <<Pending, Completed, Batched, Answered, AllDistinct>>
  BY DEF Pending, Completed, Batched, Answered, AllDistinct
<1>2. \A r : Somewhere(r)' <=> Somewhere(r)
  BY <1>1 DEF Somewhere
<1>3. Once'
  BY <1>1 DEF PlaceInv, Once, OnceOnly
<1>4. Handed' /\ Kept'
  BY <1>2 DEF PlaceInv, Handed, Kept
<1>5. QED
  BY <1>1, <1>3, <1>4 DEF PlaceInv

LEMMA EnqueuePlaces == ASSUME Types, PlaceInv, NEW r \in Requests, Enqueue(r) PROVE PlaceInv'
<1>1. UNCHANGED <<completed_requests, batch, ran, request, active_requests, sync_responses, stopped, failed>>
  BY DEF Enqueue, transfers
<1>2. UNCHANGED <<Completed, Batched, Answered>>
  BY <1>1 DEF Completed, Batched, Answered
<1>3. /\ r \notin sent /\ sent' = sent \cup {r} /\ main = "run" /\ main' = "wake"
      /\ waitsFor' \in {waitsFor, r} /\ pending_requests' = Append(pending_requests, r)
  BY DEF Enqueue, WakeThen
<1>4. pending_requests \in Seq(Requests)
  BY SeqMonotonic DEF Types, TypeOK
<1>5. r \notin Pending
  <2>1. \A i \in DOMAIN pending_requests : pending_requests[i] \in sent
    BY ElementOfSeq, LenProperties DEF Types, TypeOK
  <2>2. QED
    BY <1>3, <2>1 DEF Pending, Elements
<1>6. Pending' = Pending \cup {r} /\ Distinct(pending_requests')
  BY <1>3, <1>4, <1>5, AppendQueue DEF Pending, PlaceInv, AllDistinct
<1>7. AllDistinct'
  BY <1>1, <1>6 DEF PlaceInv, AllDistinct
<1>8. \A q : Somewhere(q)' <=> Somewhere(q) \/ q = r
  BY <1>1, <1>2, <1>6 DEF Somewhere
<1>9. Handed' /\ Kept'
  BY <1>1, <1>3, <1>8 DEF PlaceInv, Handed, Kept
<1>10. Once'
  <2>1. r \in Async \cup Sync => ~Somewhere(r)
    BY <1>3 DEF PlaceInv, Handed
  <2>2. QED
    BY <1>1, <1>2, <1>6, <2>1 DEF PlaceInv, Once, OnceOnly, Somewhere
<1>11. QED
  BY <1>7, <1>9, <1>10 DEF PlaceInv

LEMMA UpdatePlaces == ASSUME Types, PlaceInv, Update PROVE PlaceInv'
<1>1. /\ UNCHANGED <<main, waitsFor, pending_requests, ran, request, active_requests, sync_responses,
                     sent, stopped, failed>>
      /\ batch = <<>> /\ batch' = completed_requests /\ completed_requests' = <<>>
  BY DEF Update, asked, transfers
<1>2. UNCHANGED <<Pending, Answered>> /\ Batched = {} /\ Batched' = Completed /\ Completed' = {}
  BY <1>1, EmptyQueue DEF Pending, Answered, Batched, Completed
<1>3. AllDistinct'
  BY <1>1, EmptyQueue DEF PlaceInv, AllDistinct
<1>4. \A q : Somewhere(q)' <=> Somewhere(q)
  BY <1>1, <1>2 DEF Somewhere
<1>5. Handed' /\ Kept'
  BY <1>1, <1>4 DEF PlaceInv, Handed, Kept
<1>6. Once'
  BY <1>1, <1>2 DEF PlaceInv, Once, OnceOnly
<1>7. QED
  BY <1>3, <1>5, <1>6 DEF PlaceInv

LEMMA DispatchPlaces == ASSUME Types, PlaceInv, Dispatch PROVE PlaceInv'
<1>1. PICK r \in Async : /\ r = Head(batch).request /\ r \in Batched
                         /\ Batched' = Batched \ {r} /\ Distinct(RequestsOf(batch'))
  <2>1. batch \in Seq([request : Async, token : BOOLEAN]) /\ batch # <<>> /\ batch' = Tail(batch)
    BY DEF Types, TypeOK, Dispatch
  <2>2. PICK q, h : q = RequestsOf(batch) /\ h = Head(batch).request
    OBVIOUS
  <2>3. q \in Seq(Async) /\ q # <<>> /\ Head(q) = h /\ RequestsOf(batch') = Tail(q)
    BY <2>1, <2>2, RequestsTail
  <2>4. Head(q) \in Async
    BY <2>3, HeadTailProperties
  <2>5. Distinct(q)
    BY <2>2 DEF PlaceInv, AllDistinct
  <2>6. Elements(Tail(q)) = Elements(q) \ {h} /\ Distinct(Tail(q)) /\ h \in Elements(q)
    BY <2>3, <2>5, TailQueue
  <2>7. QED
    BY <2>2, <2>3, <2>4, <2>6 DEF Batched
<1>2. /\ UNCHANGED <<main, waitsFor, pending_requests, completed_requests, request, active_requests,
                     sync_responses, sent, stopped, failed>>
      /\ (ran' = ran /\ r \in stopped) \/ ran' = Append(ran, r)
  BY <1>1 DEF Dispatch, asked, shared, transfers
<1>3. UNCHANGED <<Pending, Completed>>
  BY <1>2 DEF Pending, Completed
<1>4. /\ Distinct(ran')
      /\ (Answered' = Answered /\ r \in stopped) \/ Answered' = Answered \cup {r}
  <2>1. r \notin Answered /\ Distinct(ran) /\ ran \in Seq(Async)
    BY <1>1 DEF PlaceInv, AllDistinct, Once, OnceOnly, Types, TypeOK
  <2>2. Elements(Append(ran, r)) = Elements(ran) \cup {r} /\ Distinct(Append(ran, r))
    BY <2>1, AppendQueue DEF Answered
  <2>3. QED
    BY <1>2, <2>1, <2>2 DEF Answered
<1>5. AllDistinct'
  BY <1>1, <1>2, <1>4 DEF PlaceInv, AllDistinct
<1>6. \A q \in Async \cup Sync : /\ Somewhere(q)' => Somewhere(q)
                                 /\ Somewhere(q) => Somewhere(q)' \/ (q = r /\ r \in stopped)
  BY <1>1, <1>2, <1>3, <1>4 DEF Somewhere
<1>7. Handed' /\ Kept'
  BY <1>1, <1>2, <1>6, NetworkAssumption DEF PlaceInv, Handed, Kept
<1>8. Once'
  BY <1>1, <1>2, <1>3, <1>4 DEF PlaceInv, Once, OnceOnly
<1>9. QED
  BY <1>5, <1>7, <1>8 DEF PlaceInv

LEMMA SyncCheckPlaces == ASSUME Types, PlaceInv, SyncCheck PROVE PlaceInv'
<1>1. CASE waitsFor \notin sync_responses
  BY <1>1, Unmoved DEF SyncCheck, asked, transfers
<1>2. CASE waitsFor \in sync_responses
  <2>1. /\ UNCHANGED <<pending_requests, completed_requests, batch, ran, request, active_requests,
                       sent, stopped, failed>>
        /\ sync_responses' = sync_responses \ {waitsFor} /\ waitsFor' = NoRequest /\ main = "check"
    BY <1>2 DEF SyncCheck, asked, transfers
  <2>2. UNCHANGED <<Pending, Completed, Batched, Answered, AllDistinct>>
    BY <2>1 DEF Pending, Completed, Batched, Answered, AllDistinct
  <2>3. waitsFor \in Sync
    BY <1>2 DEF Types, TypeOK
  <2>4. \A q : /\ Somewhere(q)' => Somewhere(q)
               /\ q # waitsFor /\ Somewhere(q) => Somewhere(q)'
    BY <2>1, <2>2 DEF Somewhere
  <2>5. Handed' /\ Kept'
    BY <2>1, <2>3, <2>4, NetworkAssumption DEF PlaceInv, Handed, Kept, Requests
  <2>6. Once'
    BY <2>1, <2>2 DEF PlaceInv, Once, OnceOnly
  <2>7. QED
    BY <2>2, <2>5, <2>6 DEF PlaceInv
<1>3. QED
  BY <1>1, <1>2

LEMMA ClosedPlaces == ASSUME Types, PlaceInv, Closed PROVE PlaceInv'
<1>1. /\ UNCHANGED <<waitsFor, pending_requests, batch, ran, request, sync_responses, sent, stopped, failed>>
      /\ active_requests' = {} /\ completed_requests' = <<>> /\ main = "join" /\ main' = "closed"
  BY DEF Closed, asked
<1>2. UNCHANGED <<Pending, Batched, Answered>> /\ Completed' = {}
  BY <1>1, EmptyQueue DEF Pending, Completed, Batched, Answered
<1>3. AllDistinct'
  BY <1>1, EmptyQueue DEF PlaceInv, AllDistinct
<1>4. \A q : Somewhere(q)' => Somewhere(q)
  BY <1>1, <1>2 DEF Somewhere
<1>5. waitsFor' \notin Sync
  BY <1>1, NetworkAssumption DEF Types, TypeOK, Requests
<1>6. Handed' /\ Kept'
  BY <1>1, <1>4, <1>5 DEF PlaceInv, Handed, Kept
<1>7. Once'
  BY <1>1, <1>2 DEF PlaceInv, Once, OnceOnly
<1>8. QED
  BY <1>3, <1>6, <1>7 DEF PlaceInv

LEMMA TakePlaces == ASSUME Types, PlaceInv, TakeRequest PROVE PlaceInv'
<1>1. PICK r : r = Head(pending_requests)
  OBVIOUS
<1>2. /\ UNCHANGED <<main, waitsFor, completed_requests, batch, ran, active_requests, sync_responses,
                     sent, stopped, failed>>
      /\ pending_requests # <<>> /\ pending_requests' = Tail(pending_requests)
      /\ (r \in stopped /\ request' = request) \/ request' = r
      /\ net = "new"
  BY <1>1 DEF TakeRequest, asked, transfers, mainVars
<1>3. UNCHANGED <<Completed, Batched, Answered>>
  BY <1>2 DEF Completed, Batched, Answered
<1>4. Pending' = Pending \ {r} /\ r \in Pending /\ Distinct(pending_requests')
  BY <1>1, <1>2, TailQueue DEF PlaceInv, AllDistinct, Pending, Types, TypeOK
<1>5. AllDistinct'
  BY <1>2, <1>4 DEF PlaceInv, AllDistinct
<1>6. request = NoRequest /\ NoRequest \notin Async \cup Sync /\ stopped \subseteq Async
  BY <1>2, NetworkAssumption DEF Types, TypeOK, Requests
<1>7. \A q \in Async \cup Sync : /\ Somewhere(q)' => Somewhere(q)
                                 /\ Somewhere(q) => Somewhere(q)' \/ (q = r /\ r \in stopped)
  BY <1>2, <1>3, <1>4, <1>6 DEF Somewhere
<1>8. Handed' /\ Kept'
  BY <1>2, <1>6, <1>7, NetworkAssumption DEF PlaceInv, Handed, Kept
<1>9. Once'
  BY <1>2, <1>3, <1>4, <1>6 DEF PlaceInv, Once, OnceOnly
<1>10. QED
  BY <1>5, <1>8, <1>9 DEF PlaceInv

(* An answer joins completed_requests when its request is nowhere else.     *)
LEMMA AnswerJoins ==
  ASSUME Types, PlaceInv, NEW r \in Async, NEW t \in BOOLEAN, r \notin Completed,
         completed_requests' = Append(completed_requests, [request |-> r, token |-> t]),
         UNCHANGED <<pending_requests, batch, ran>>
  PROVE  AllDistinct' /\ Completed' = Completed \cup {r} /\ UNCHANGED <<Pending, Batched, Answered>>
<1>1. PICK q, e : q = RequestsOf(completed_requests) /\ e = [request |-> r, token |-> t]
  OBVIOUS
<1>2. /\ completed_requests \in Seq([request : Async, token : BOOLEAN])
      /\ e \in [request : Async, token : BOOLEAN] /\ e.request = r
  BY <1>1 DEF Types, TypeOK
<1>3. q \in Seq(Async) /\ RequestsOf(completed_requests') = Append(q, r)
  BY SMTT(60), <1>1, <1>2, RequestsAppend
<1>4. Distinct(q) /\ r \notin Elements(q)
  BY <1>1 DEF PlaceInv, AllDistinct, Completed
<1>5. Elements(Append(q, r)) = Elements(q) \cup {r} /\ Distinct(Append(q, r))
  BY <1>3, <1>4, AppendQueue
<1>6. QED
  BY <1>1, <1>3, <1>5 DEF PlaceInv, AllDistinct, Pending, Completed, Batched, Answered

LEMMA RefusedPlaces == ASSUME Types, PlaceInv, StartFails PROVE PlaceInv'
<1>1. PICK r \in Requests : r = request
  BY DEF Types, TypeOK, StartFails
<1>2. /\ UNCHANGED <<main, waitsFor, pending_requests, batch, ran, active_requests, sync_responses,
                     sent, stopped>>
      /\ failed' = failed \cup {r} /\ request' = NoRequest
  BY <1>1 DEF StartFails, asked, mainVars
<1>3. NoRequest \notin Async \cup Sync
  BY NetworkAssumption DEF Requests
<1>4. CASE r \in Async
  <2>1. completed_requests' = Append(completed_requests, [request |-> r, token |-> FALSE])
    BY <1>1, <1>4 DEF StartFails
  <2>2. r \notin Completed
    BY <1>1, <1>4 DEF PlaceInv, Once, OnceOnly
  <2>3. AllDistinct' /\ Completed' = Completed \cup {r} /\ UNCHANGED <<Pending, Batched, Answered>>
    BY <1>2, <1>4, <2>1, <2>2, AnswerJoins
  <2>4. \A q \in Async \cup Sync : Somewhere(q)' <=> Somewhere(q)
    BY <1>1, <1>2, <1>3, <2>3 DEF Somewhere
  <2>5. Handed' /\ Kept'
    BY <1>2, <2>4 DEF PlaceInv, Handed, Kept
  <2>6. Once'
    BY <1>1, <1>2, <1>3, <2>3 DEF PlaceInv, Once, OnceOnly
  <2>7. QED
    BY <2>3, <2>5, <2>6 DEF PlaceInv
<1>5. CASE r \notin Async
  <2>1. completed_requests' = completed_requests
    BY <1>1, <1>5 DEF StartFails
  <2>2. UNCHANGED <<Pending, Completed, Batched, Answered, AllDistinct>>
    BY <1>2, <2>1 DEF Pending, Completed, Batched, Answered, AllDistinct
  <2>3. \A q \in Async \cup Sync : /\ Somewhere(q)' => Somewhere(q)
                                   /\ Somewhere(q) => Somewhere(q)' \/ q = r
    BY <1>1, <1>2, <1>3, <2>2 DEF Somewhere
  <2>4. Handed' /\ Kept'
    BY <1>2, <1>5, <2>3 DEF PlaceInv, Handed, Kept
  <2>5. Once'
    BY <1>2, <1>3, <2>2 DEF PlaceInv, Once, OnceOnly
  <2>6. QED
    BY <2>2, <2>4, <2>5 DEF PlaceInv
<1>6. QED
  BY <1>4, <1>5

LEMMA StartPlaces == ASSUME Types, PlaceInv, Start PROVE PlaceInv'
<1>1. PICK r : r = request
  OBVIOUS
<1>2. /\ UNCHANGED <<main, waitsFor, pending_requests, completed_requests, batch, ran, sync_responses,
                     sent, stopped, failed>>
      /\ active_requests' = active_requests \cup {r} /\ request' = NoRequest
  BY <1>1 DEF Start, asked, shared, mainVars
<1>3. NoRequest \notin Async \cup Sync
  BY NetworkAssumption DEF Requests
<1>4. UNCHANGED <<Pending, Completed, Batched, Answered, AllDistinct>>
  BY <1>2 DEF Pending, Completed, Batched, Answered, AllDistinct
<1>5. \A q \in Async \cup Sync : Somewhere(q)' <=> Somewhere(q)
  BY <1>1, <1>2, <1>3, <1>4 DEF Somewhere
<1>6. Handed' /\ Kept'
  BY <1>2, <1>5 DEF PlaceInv, Handed, Kept
<1>7. Once'
  BY <1>1, <1>2, <1>3, <1>4 DEF PlaceInv, Once, OnceOnly
<1>8. QED
  BY <1>4, <1>6, <1>7 DEF PlaceInv

LEMMA CancelPlaces == ASSUME Types, PlaceInv, NEW r \in Requests, CheckCancelled(r) PROVE PlaceInv'
<1>1. /\ UNCHANGED <<main, waitsFor, pending_requests, completed_requests, batch, ran, sync_responses,
                     request, sent, stopped, failed>>
      /\ active_requests' = active_requests \/ (r \in stopped /\ active_requests' = active_requests \ {r})
  BY DEF CheckCancelled, asked, shared, mainVars
<1>2. UNCHANGED <<Pending, Completed, Batched, Answered, AllDistinct>>
  BY <1>1 DEF Pending, Completed, Batched, Answered, AllDistinct
<1>3. \A q : /\ Somewhere(q)' => Somewhere(q)
             /\ Somewhere(q) => Somewhere(q)' \/ q \in stopped
  BY <1>1, <1>2 DEF Somewhere
<1>4. stopped \cap Sync = {}
  BY NetworkAssumption DEF Types, TypeOK
<1>5. Handed' /\ Kept'
  BY <1>1, <1>3, <1>4 DEF PlaceInv, Handed, Kept
<1>6. Once'
  BY <1>1, <1>2 DEF PlaceInv, Once, OnceOnly
<1>7. QED
  BY <1>2, <1>5, <1>6 DEF PlaceInv

(* Sending the output of websockets, or closing them, concerns no request.  *)
LEMMA SocketPlaces ==
  ASSUME Types, PlaceInv, (\E w \in Sockets : DrainOutput(w)) \/ SendOutput \/ OutputSent
  PROVE  PlaceInv'
<1>1. /\ UNCHANGED <<main, waitsFor, pending_requests, completed_requests, batch, ran, sync_responses,
                     sent, stopped, failed>>
      /\ net \in {"drain", "send"}
  BY DEF DrainOutput, SendOutput, OutputSent, asked, shared, mainVars, transfers
<1>2. \A r \in Async \cup Sync : r \notin Sockets /\ r # NoRequest
  BY NetworkAssumption DEF Requests
<1>3. \A r \in Async \cup Sync : r # request /\ r # request'
  <2>1. \A r \in Async \cup Sync : r # request
    BY <1>1, <1>2 DEF Types, TypeOK, BufferTypes, Requests
  <2>2. request' \in Sockets \cup {NoRequest, request}
    BY DEF DrainOutput, SendOutput, OutputSent
  <2>3. QED
    BY <1>2, <2>1, <2>2
<1>4. \A r \in Async \cup Sync : r \in active_requests' <=> r \in active_requests
  BY <1>2 DEF DrainOutput, SendOutput, OutputSent, transfers, Disconnected
<1>5. UNCHANGED <<Pending, Completed, Batched, Answered, AllDistinct>>
  BY <1>1 DEF Pending, Completed, Batched, Answered, AllDistinct
<1>6. \A q \in Async \cup Sync : Somewhere(q)' <=> Somewhere(q)
  BY <1>1, <1>3, <1>4, <1>5 DEF Somewhere
<1>7. Handed' /\ Kept'
  BY <1>1, <1>6 DEF PlaceInv, Handed, Kept
<1>8. Once'
  BY <1>1, <1>3, <1>4, <1>5 DEF PlaceInv, Once, OnceOnly
<1>9. QED
  BY <1>5, <1>7, <1>8 DEF PlaceInv

LEMMA CompletePlaces == ASSUME Types, PlaceInv, NEW r \in Requests, Complete(r) PROVE PlaceInv'
<1>1. /\ UNCHANGED <<waitsFor, pending_requests, batch, ran, request, sent, stopped, failed>>
      /\ main' = main \/ (main = "blocked" /\ main' = "check")
      /\ r \in active_requests /\ active_requests' = active_requests \ {r}
  BY DEF Complete, asked, Types, TypeOK
<1>2. CASE r \in Async /\ completed_requests' # completed_requests
  <2>1. completed_requests' = Append(completed_requests, [request |-> r, token |-> TRUE])
    BY <1>2, NetworkAssumption DEF Complete
  <2>2. r \notin Completed /\ sync_responses' = sync_responses
    BY <1>1, <1>2, NetworkAssumption DEF Complete, PlaceInv, Once, OnceOnly
  <2>3. AllDistinct' /\ Completed' = Completed \cup {r} /\ UNCHANGED <<Pending, Batched, Answered>>
    BY <1>1, <1>2, <2>1, <2>2, AnswerJoins
  <2>4. \A q \in Async \cup Sync : Somewhere(q)' <=> Somewhere(q)
    BY <1>1, <2>2, <2>3 DEF Somewhere
  <2>5. Handed' /\ Kept'
    BY <1>1, <2>4 DEF PlaceInv, Handed, Kept
  <2>6. Once'
    BY <1>1, <1>2, <2>2, <2>3 DEF PlaceInv, Once, OnceOnly
  <2>7. QED
    BY <2>3, <2>5, <2>6 DEF PlaceInv
<1>3. CASE ~(r \in Async /\ completed_requests' # completed_requests)
  <2>1. completed_requests' = completed_requests
    BY <1>3 DEF Complete
  <2>2. UNCHANGED <<Pending, Completed, Batched, Answered, AllDistinct>>
    BY <1>1, <2>1 DEF Pending, Completed, Batched, Answered, AllDistinct
  <2>3. /\ sync_responses' = sync_responses \/ (r \in Sync /\ sync_responses' = sync_responses \cup {r})
        /\ r \in Sync => sync_responses' = sync_responses \cup {r}
        /\ r \in Async => r \in stopped
    <3>1. r \in Async => r \in stopped
      <4>1. completed_requests \in Seq([request : Async, token : BOOLEAN])
        BY DEF Types, TypeOK
      <4>2. r \in Async => completed_requests # Append(completed_requests, [request |-> r, token |-> TRUE])
        BY <4>1, AppendProperties
      <4>3. QED
        BY <2>1, <4>2, NetworkAssumption DEF Complete
    <3>2. QED
      BY <3>1, NetworkAssumption DEF Complete
  <2>4. \A q \in Async \cup Sync : /\ Somewhere(q)' => Somewhere(q)
                                   /\ Somewhere(q) => Somewhere(q)' \/ q \in stopped
    BY <1>1, <2>2, <2>3 DEF Somewhere
  <2>5. stopped \cap Sync = {}
    BY NetworkAssumption DEF Types, TypeOK
  <2>6. Handed' /\ Kept'
    BY <1>1, <2>4, <2>5 DEF PlaceInv, Handed, Kept
  <2>7. Once'
    BY <1>1, <2>2, <2>3 DEF PlaceInv, Once, OnceOnly
  <2>8. QED
    BY <2>2, <2>6, <2>7 DEF PlaceInv
<1>4. QED
  BY <1>2, <1>3

LEMMA PlaceStep == ASSUME Types, PlaceInv, [Next]_vars PROVE PlaceInv'
<1>1. CASE MainReacts
  <2>1. CASE Wakeup
    BY <2>1, Unmoved DEF Wakeup, asked, shared, transfers
  <2>2. CASE SyncBlock
    BY <2>2, Unmoved DEF SyncBlock, asked, shared, transfers
  <2>3. QED
    BY <1>1, <2>1, <2>2, UpdatePlaces, DispatchPlaces, SyncCheckPlaces, ClosedPlaces DEF MainReacts
<1>2. CASE MainCalls
  <2>1. CASE \E r \in Async : RequestStop(r)
    BY <2>1, Unmoved DEF RequestStop, WakeThen, shared, transfers
  <2>2. CASE \E w \in Sockets : Write(w) \/ Read(w)
    BY <2>2, Unmoved DEF Write, Read, WakeThen, asked, shared, transfers, mainVars
  <2>3. CASE SyncSpuriousWakeup \/ Close
    BY <2>3, Unmoved DEF SyncSpuriousWakeup, Close, WakeThen, asked, shared, transfers
  <2>4. QED
    BY <1>2, <2>1, <2>2, <2>3, EnqueuePlaces DEF MainCalls
<1>3. CASE NetStep
  <2>1. CASE Loop \/ NewRequestsTaken \/ CancelledChecked \/ Perform \/ AllComplete \/ Poll
    BY <2>1, Unmoved DEF Loop, NewRequestsTaken, CancelledChecked, Perform, AllComplete, Poll,
       asked, shared, transfers, mainVars
  <2>2. QED
    BY <1>3, <2>1, TakePlaces, RefusedPlaces, StartPlaces, CancelPlaces, SocketPlaces,
       CompletePlaces DEF NetStep
<1>4. CASE ServerStep
  BY <1>4, Unmoved DEF ServerStep, Ends, Upgrades, SendsChunk, SendsClose, asked, shared,
     transfers, mainVars
<1>5. CASE UNCHANGED vars
  BY <1>5, Unmoved DEF vars, asked, shared, transfers, mainVars
<1>6. QED
  BY <1>1, <1>2, <1>3, <1>4, <1>5 DEF Next

-----------------------------------------------------------------------------
(* OnePlace counts the places of a request.                                *)
Indexed(name, q, r) == {<<name, i>> : i \in {k \in DOMAIN q : q[k] = r}}

Single(S) == \E p : S = {p}

LEMMA QueuePlaces ==
  ASSUME NEW q, NEW name, NEW r, Distinct(q)
  PROVE  \/ r \notin Elements(q) /\ Indexed(name, q, r) = {}
         \/ r \in Elements(q) /\ Single(Indexed(name, q, r))
<1>1. CASE r \notin Elements(q)
  BY <1>1 DEF Elements, Indexed
<1>2. CASE r \in Elements(q)
  <2>1. PICK j \in DOMAIN q : q[j] = r
    BY <1>2 DEF Elements
  <2>2. {k \in DOMAIN q : q[k] = r} = {j}
    BY <2>1 DEF Distinct
  <2>3. Indexed(name, q, r) = {<<name, j>>}
    BY <2>2 DEF Indexed
  <2>4. QED
    BY <1>2, <2>3 DEF Single
<1>3. QED
  BY <1>1, <1>2

LEMMA RequestPlaces ==
  ASSUME NEW q, NEW name, NEW r
  PROVE  {<<name, i>> : i \in {k \in DOMAIN q : q[k].request = r}} = Indexed(name, RequestsOf(q), r)
<1>1. {k \in DOMAIN q : q[k].request = r} = {k \in DOMAIN RequestsOf(q) : RequestsOf(q)[k] = r}
  BY DEF RequestsOf
<1>2. QED
  BY <1>1 DEF Indexed

LEMMA PlacesCounted == ASSUME PlaceInv, NEW r \in Async \cup Sync
                       PROVE  /\ Cardinality(Places(r)) <= 1
                              /\ Somewhere(r) => Places(r) # {}
<1>1. PICK P, C, B, R, Q, A, S :
        /\ P = Indexed("pending", pending_requests, r)
        /\ C = Indexed("completed", RequestsOf(completed_requests), r)
        /\ B = Indexed("batch", RequestsOf(batch), r)
        /\ R = Indexed("ran", ran, r)
        /\ Q = {<<"request", 0>> : q \in {request} \cap {r}}
        /\ A = {<<"active", 0>> : q \in active_requests \cap {r}}
        /\ S = {<<"response", 0>> : q \in sync_responses \cap {r}}
  OBVIOUS
<1>2. Places(r) = P \cup C \cup B \cup R \cup Q \cup A \cup S
  <2>1. /\ P = {<<"pending", i>> : i \in {k \in DOMAIN pending_requests : pending_requests[k] = r}}
        /\ R = {<<"ran", i>> : i \in {k \in DOMAIN ran : ran[k] = r}}
    BY <1>1 DEF Indexed
  <2>2. C = {<<"completed", i>> : i \in {k \in DOMAIN completed_requests : completed_requests[k].request = r}}
    BY <1>1, RequestPlaces
  <2>3. B = {<<"batch", i>> : i \in {k \in DOMAIN batch : batch[k].request = r}}
    BY <1>1, RequestPlaces
  <2>4. QED
    BY <1>1, <2>1, <2>2, <2>3 DEF Places
<1>3. (r \notin Pending /\ P = {}) \/ (r \in Pending /\ Single(P))
  <2>1. PICK q : q = pending_requests /\ Distinct(q)
    BY DEF PlaceInv, AllDistinct
  <2>2. \/ r \notin Elements(q) /\ Indexed("pending", q, r) = {}
        \/ r \in Elements(q) /\ Single(Indexed("pending", q, r))
    BY <2>1, QueuePlaces
  <2>3. P = Indexed("pending", q, r) /\ Pending = Elements(q)
    BY <1>1, <2>1 DEF Pending
  <2>4. QED
    BY <2>2, <2>3
<1>4. (r \notin Answered /\ R = {}) \/ (r \in Answered /\ Single(R))
  <2>1. PICK q : q = ran /\ Distinct(q)
    BY DEF PlaceInv, AllDistinct
  <2>2. \/ r \notin Elements(q) /\ Indexed("ran", q, r) = {}
        \/ r \in Elements(q) /\ Single(Indexed("ran", q, r))
    BY <2>1, QueuePlaces
  <2>3. R = Indexed("ran", q, r) /\ Answered = Elements(q)
    BY <1>1, <2>1 DEF Answered
  <2>4. QED
    BY <2>2, <2>3
<1>5. (r \notin Completed /\ C = {}) \/ (r \in Completed /\ Single(C))
  <2>1. PICK q : q = RequestsOf(completed_requests) /\ Distinct(q)
    BY DEF PlaceInv, AllDistinct
  <2>2. \/ r \notin Elements(q) /\ Indexed("completed", q, r) = {}
        \/ r \in Elements(q) /\ Single(Indexed("completed", q, r))
    BY <2>1, QueuePlaces
  <2>3. C = Indexed("completed", q, r) /\ Completed = Elements(q)
    BY <1>1, <2>1 DEF Completed
  <2>4. QED
    BY <2>2, <2>3
<1>6. (r \notin Batched /\ B = {}) \/ (r \in Batched /\ Single(B))
  <2>1. PICK q : q = RequestsOf(batch) /\ Distinct(q)
    BY DEF PlaceInv, AllDistinct
  <2>2. \/ r \notin Elements(q) /\ Indexed("batch", q, r) = {}
        \/ r \in Elements(q) /\ Single(Indexed("batch", q, r))
    BY <2>1, QueuePlaces
  <2>3. B = Indexed("batch", q, r) /\ Batched = Elements(q)
    BY <1>1, <2>1 DEF Batched
  <2>4. QED
    BY <2>2, <2>3
<1>7. /\ (r # request /\ Q = {}) \/ (r = request /\ Single(Q))
      /\ (r \notin active_requests /\ A = {}) \/ (r \in active_requests /\ Single(A))
      /\ (r \notin sync_responses /\ S = {}) \/ (r \in sync_responses /\ Single(S))
  BY <1>1 DEF Single
<1>8. OnceOnly(r)
  BY DEF PlaceInv, Once
<1>9. CASE ~Somewhere(r)
  <2>1. P = {} /\ C = {} /\ B = {} /\ R = {} /\ Q = {} /\ A = {} /\ S = {}
    BY <1>3, <1>4, <1>5, <1>6, <1>7, <1>9 DEF Somewhere
  <2>2. Places(r) = {}
    BY <1>2, <2>1
  <2>3. QED
    BY <1>9, <2>2, FS_EmptySet
<1>10. CASE Somewhere(r)
  <2>1. Single(Places(r))
    <3>1. CASE r \in Pending
      <4>1. C = {} /\ B = {} /\ R = {} /\ Q = {} /\ A = {} /\ S = {}
        BY <1>3, <1>4, <1>5, <1>6, <1>7, <1>8, <3>1 DEF OnceOnly
      <4>2. QED
        BY <1>2, <1>3, <3>1, <4>1 DEF Single
    <3>2. CASE r = request
      <4>1. P = {} /\ C = {} /\ B = {} /\ R = {} /\ A = {} /\ S = {}
        BY <1>3, <1>4, <1>5, <1>6, <1>7, <1>8, <3>2 DEF OnceOnly
      <4>2. QED
        BY <1>2, <1>7, <3>2, <4>1 DEF Single
    <3>3. CASE r \in active_requests
      <4>1. P = {} /\ C = {} /\ B = {} /\ R = {} /\ Q = {} /\ S = {}
        BY <1>3, <1>4, <1>5, <1>6, <1>7, <1>8, <3>3 DEF OnceOnly
      <4>2. QED
        BY <1>2, <1>7, <3>3, <4>1 DEF Single
    <3>4. CASE r \in Completed
      <4>1. P = {} /\ B = {} /\ R = {} /\ Q = {} /\ A = {} /\ S = {}
        BY <1>3, <1>4, <1>5, <1>6, <1>7, <1>8, <3>4 DEF OnceOnly
      <4>2. QED
        BY <1>2, <1>5, <3>4, <4>1 DEF Single
    <3>5. CASE r \in Batched
      <4>1. P = {} /\ C = {} /\ R = {} /\ Q = {} /\ A = {} /\ S = {}
        BY <1>3, <1>4, <1>5, <1>6, <1>7, <1>8, <3>5 DEF OnceOnly
      <4>2. QED
        BY <1>2, <1>6, <3>5, <4>1 DEF Single
    <3>6. CASE r \in Answered
      <4>1. P = {} /\ C = {} /\ B = {} /\ Q = {} /\ A = {} /\ S = {}
        BY <1>3, <1>4, <1>5, <1>6, <1>7, <1>8, <3>6 DEF OnceOnly
      <4>2. QED
        BY <1>2, <1>4, <3>6, <4>1 DEF Single
    <3>7. CASE r \in sync_responses
      <4>1. P = {} /\ C = {} /\ B = {} /\ R = {} /\ Q = {} /\ A = {}
        BY <1>3, <1>4, <1>5, <1>6, <1>7, <1>8, <3>7 DEF OnceOnly
      <4>2. QED
        BY <1>2, <1>7, <3>7, <4>1 DEF Single
    <3>8. QED
      BY <1>10, <3>1, <3>2, <3>3, <3>4, <3>5, <3>6, <3>7 DEF Somewhere
  <2>2. PICK p : Places(r) = {p}
    BY <2>1 DEF Single
  <2>3. Cardinality({p}) = 1
    BY FS_Singleton
  <2>4. Cardinality(Places(r)) = 1 /\ Places(r) # {}
    BY <2>2, <2>3
  <2>5. QED
    BY <2>4
<1>11. QED
  BY <1>9, <1>10

(* A request is never lost and never answered twice, whatever the order in  *)
(* which it is sent, stopped, refused a handle, completed and dispatched.   *)
THEOREM NeverLostNorTwice == Spec => []OnePlace
<1>1. Init => PlaceInv
  BY PlaceInit
<1>2. IInv /\ PlaceInv /\ [Next]_vars => PlaceInv'
  BY PlaceStep DEF IInv
<1>3. IInv /\ PlaceInv => OnePlace
  <2> SUFFICES ASSUME IInv, PlaceInv, NEW r \in Async \cup Sync
               PROVE  /\ Cardinality(Places(r)) <= 1
                      /\ r \in Async /\ r \in sent \ stopped /\ main # "closed" => Places(r) # {}
                      /\ r = waitsFor /\ r \notin failed => Places(r) # {}
    BY DEF OnePlace
  <2>1. waitsFor \in Sync \cup {NoRequest} /\ NoRequest \notin Async \cup Sync
    BY NetworkAssumption DEF IInv, Types, TypeOK, Requests
  <2>2. QED
    BY <2>1, PlacesCounted DEF PlaceInv, Kept
<1>4. QED
  BY <1>1, <1>2, <1>3, NetworkInvariance, PTL DEF Spec
=============================================================================
