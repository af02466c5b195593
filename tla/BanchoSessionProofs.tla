------------------------- MODULE BanchoSessionProofs -------------------------
(***************************************************************************)
(* The session's safety for any server that keeps ServerAssumption, any    *)
(* number of sessions and packets, and any lengths of time.                *)
(***************************************************************************)
EXTENDS BanchoSession, TLAPS

Names(packets) == \E i \in DOMAIN packets : packets[i] \in Verdicts
NamesOnce(packets) ==
  \A i, j \in DOMAIN packets : packets[i] \in Verdicts /\ packets[j] \in Verdicts => i = j

(* LoginAccounted is not inductive.  That an attempt ends before its batch  *)
(* does needs a verdict among the packets that are left; that a packet      *)
(* does not log in a user whose login is still in flight needs that a batch *)
(* with such a packet is the answer to the only request there was, and that *)
(* nobody is online before it is handled: a restart before it does nothing. *)
RequestsMatch ==
  /\ logins \subseteq {"login", "poll"}
  /\ "login" \in logins => status = "in progress"
  /\ "poll" \in logins => status = "polling"
  /\ status = "polling" => "poll" \in logins \/ timer # "off"
BatchMatches ==
  /\ batch \in Seq(Packets)
  /\ NamesOnce(batch)
  /\ Names(batch) => logins = {} /\ ~Online
  /\ status = "in progress" => "login" \in logins \/ mute \/ HasVerdict(batch)
SessionInv == StatusMatchesUid /\ RequestsMatch /\ BatchMatches

-----------------------------------------------------------------------------
(* What is left of a batch after its first packet: packets of the batch,   *)
(* and its verdict if the first packet was none.                            *)
LEMMA RestOfBatch ==
  ASSUME NEW b \in Seq(Packets), b # <<>>
  PROVE  /\ Head(b) \in Packets /\ Tail(b) \in Seq(Packets)
         /\ Head(b) = b[1] /\ 1 \in DOMAIN b
         /\ \A i \in DOMAIN Tail(b) : i + 1 \in DOMAIN b /\ Tail(b)[i] = b[i + 1]
         /\ \A i \in DOMAIN b : i = 1 \/ (i - 1 \in DOMAIN Tail(b) /\ Tail(b)[i - 1] = b[i])
  OBVIOUS

LEMMA EmptyBatch ==
  ASSUME NEW b, b = <<>>
  PROVE  ~Names(b) /\ ~HasVerdict(b) /\ NamesOnce(b) /\ b \in Seq(Packets)
  BY DEF Names, HasVerdict, NamesOnce

LEMMA RestNames ==
  ASSUME NEW b \in Seq(Packets), b # <<>>, NamesOnce(b)
  PROVE  /\ Names(Tail(b)) => Names(b) /\ Head(b) \notin Verdicts
         /\ NamesOnce(Tail(b))
         /\ HasVerdict(b) => HasVerdict(Tail(b)) \/ Head(b) \in {"accepted", "refused", "restricted"}
         /\ Head(b) \in Verdicts => Names(b)
  <1>1. ASSUME NEW i \in DOMAIN Tail(b)
        PROVE  i + 1 \in DOMAIN b /\ i + 1 # 1 /\ Tail(b)[i] = b[i + 1]
    BY <1>1, RestOfBatch
  <1>2. Names(Tail(b)) => Names(b) /\ Head(b) \notin Verdicts
    <2> SUFFICES ASSUME NEW i \in DOMAIN Tail(b), Tail(b)[i] \in Verdicts
                 PROVE  Names(b) /\ Head(b) \notin Verdicts
      BY DEF Names
    <2>1. i + 1 \in DOMAIN b /\ i + 1 # 1 /\ b[i + 1] \in Verdicts
      BY <1>1
    <2>2. 1 \in DOMAIN b /\ Head(b) = b[1]
      BY RestOfBatch
    <2> QED BY <2>1, <2>2 DEF Names, NamesOnce
  <1>3. NamesOnce(Tail(b))
    <2> SUFFICES ASSUME NEW i \in DOMAIN Tail(b), NEW j \in DOMAIN Tail(b),
                        Tail(b)[i] \in Verdicts, Tail(b)[j] \in Verdicts
                 PROVE  i = j
      BY DEF NamesOnce
    <2>1. i + 1 = j + 1
      BY <1>1 DEF NamesOnce
    <2>2. i \in Int /\ j \in Int
      OBVIOUS
    <2> QED BY <2>1, <2>2
  <1>4. HasVerdict(b) => HasVerdict(Tail(b)) \/ Head(b) \in {"accepted", "refused", "restricted"}
    BY RestOfBatch DEF HasVerdict
  <1>5. Head(b) \in Verdicts => Names(b)
    BY RestOfBatch DEF Names
  <1> QED BY <1>2, <1>3, <1>4, <1>5

(* After a disconnect only the requests of what follows it are in flight. *)
LEMMA LeaveClears ==
  ASSUME StatusMatchesUid, RequestsMatch, NEW to, NEW requests, Leave(to, requests)
  PROVE  logins' = requests /\ status' = to /\ uid' = "none"
  <1>1. ~Attempting => logins = {}
    BY DEF StatusMatchesUid, RequestsMatch, Attempting, Online
  <1> QED BY <1>1 DEF Leave

(* A packet that begins a batch, whatever it does. *)
LEMMA HandleStep ==
  ASSUME SessionInv, HandlePacket
  PROVE  SessionInv'
  <1> DEFINE p == Head(batch)
  <1> USE DEF Online, LoggingIn, Verdicts
  <1>1. batch \in Seq(Packets) /\ batch # <<>> /\ batch' = Tail(batch) /\ Handle(p)
    BY DEF HandlePacket, SessionInv, BatchMatches
  <1>2. batch' \in Seq(Packets)
    BY <1>1, RestOfBatch
  <1>3. /\ Names(batch') => Names(batch) /\ logins = {} /\ uid # "user" /\ p \notin Verdicts
        /\ HasVerdict(batch) => HasVerdict(batch') \/ p \in {"accepted", "refused", "restricted"}
        /\ p \in Verdicts => logins = {}
    BY <1>1, RestNames DEF SessionInv, BatchMatches
  <1>4. NamesOnce(batch')
    BY <1>1, RestNames DEF SessionInv, BatchMatches
  <1>5. ASSUME Disconnect PROVE SessionInv'
    <2>1. logins' = {} /\ status' = "logged out" /\ uid' = "none"
      BY <1>5, LeaveClears DEF Disconnect, SessionInv
    <2> QED BY <1>2, <1>4, <2>1 DEF SessionInv, StatusMatchesUid, RequestsMatch, BatchMatches
  <1>6. ASSUME UNCHANGED <<uid, status, logins, timer, mute>>,
               p \notin {"accepted", "refused", "restricted"}
        PROVE  SessionInv'
    <2>1. BatchMatches'
      BY <1>2, <1>3, <1>4, <1>6 DEF SessionInv, BatchMatches
    <2> QED BY <1>6, <2>1 DEF SessionInv, StatusMatchesUid, RequestsMatch
  <1>7. CASE p = "accepted"
    <2>1. CASE Disconnect
      BY <1>5, <2>1
    <2>2. CASE ~Disconnect
      <3>1. /\ uid' = "user" /\ logins' = logins
            /\ status' = IF status = "in progress" \/ uid # "user" THEN "logged in" ELSE status
        BY <1>1, <1>7, <2>2 DEF Handle, Accepted
      <3>2. status' = "logged in" /\ logins' = {} /\ ~Names(batch')
        BY <1>3, <1>7, <3>1 DEF SessionInv, StatusMatchesUid
      <3> QED BY <1>2, <1>4, <3>1, <3>2 DEF SessionInv, StatusMatchesUid, RequestsMatch, BatchMatches
    <2> QED BY <2>1, <2>2
  <1>8. CASE p = "refused"
    <2>1. /\ uid' = "code" /\ logins' = logins /\ timer' = timer
          /\ status' = IF status = "in progress" \/ uid # "code" THEN "logged out" ELSE status
      BY <1>1, <1>8 DEF Handle, Refused
    <2>2. logins' = {} /\ status' \notin {"in progress", "logged in"}
      BY <1>3, <1>8, <2>1 DEF SessionInv, StatusMatchesUid
    <2>3. RequestsMatch'
      BY <2>1, <2>2 DEF SessionInv, RequestsMatch
    <2> QED BY <1>2, <1>4, <2>1, <2>2, <2>3 DEF SessionInv, StatusMatchesUid, BatchMatches
  <1>9. CASE p = "restart"
    <2>1. CASE Online /\ Reconnect
      <3>1. CASE Leave("logged out", {})
        BY <1>5, <3>1 DEF Disconnect
      <3>2. CASE Leave("in progress", {"login"})
        <4>1. logins' = {"login"} /\ status' = "in progress" /\ uid' = "none"
          BY <3>2, LeaveClears DEF SessionInv
        <4>2. ~Names(batch')
          BY <1>3, <2>1
        <4> QED BY <1>2, <1>4, <4>1, <4>2 DEF SessionInv, StatusMatchesUid, RequestsMatch, BatchMatches
      <3> QED BY <2>1, <3>1, <3>2 DEF Reconnect
    <2>2. CASE UNCHANGED <<connection, login>>
      BY <1>6, <1>9, <2>2 DEF connection, login
    <2> QED BY <1>1, <1>9, <2>1, <2>2 DEF Handle
  <1>10. CASE p = "restricted"
    BY <1>1, <1>5, <1>10 DEF Handle
  <1>11. CASE p = "logout"
    <2>1. CASE Disconnect
      BY <1>5, <2>1
    <2>2. CASE UNCHANGED connection /\ UNCHANGED login
      BY <1>6, <1>11, <2>2 DEF connection, login
    <2> QED BY <1>1, <1>11, <2>1, <2>2 DEF Handle
  <1>12. CASE p \in {"switch", "data"}
    BY <1>1, <1>6, <1>12 DEF Handle, ReconnectWs, connection, login
  <1> QED BY <1>1, <1>7, <1>8, <1>9, <1>10, <1>11, <1>12, RestOfBatch DEF Packets

-----------------------------------------------------------------------------
(* One step for each action that the invariant notices.                     *)
LEMMA LoginAnswerStep ==
  ASSUME SessionInv, LoginAnswer
  PROVE  SessionInv'
  <1> USE DEF Online, LoggingIn
  <1>1. /\ logins' = logins \ {"login"} /\ "login" \in logins /\ uid' = uid /\ timer' = timer
        /\ batch = <<>>
    BY DEF LoginAnswer, Waiting
  <1>2. status = "in progress" /\ uid # "user" /\ logins' = {}
    BY <1>1 DEF SessionInv, StatusMatchesUid, RequestsMatch
  <1>3. CASE status' = "logged out" /\ batch' = batch
    BY <1>1, <1>2, <1>3 DEF SessionInv, StatusMatchesUid, RequestsMatch, BatchMatches, Names
  <1>4. CASE status' = status /\ \E body \in Bodies : Parse(body) /\ mute' = ~HasVerdict(body)
    <2>1. PICK body \in Bodies : batch' = body /\ mute' = ~HasVerdict(body)
      BY <1>4 DEF Parse
    <2>2. body \in Seq(Packets) /\ NamesOnce(body)
      BY <2>1, SessionAssumption, ServerAssumption DEF NamesOnce
    <2> QED BY <1>1, <1>2, <1>4, <2>1, <2>2 DEF SessionInv, StatusMatchesUid, RequestsMatch, BatchMatches
  <1> QED BY <1>3, <1>4 DEF LoginAnswer

(* An answer to a request with packets, or data from the websocket. *)
LEMMA PushStep ==
  ASSUME SessionInv, batch = <<>>, NEW packets \in Pushes, Parse(packets),
         UNCHANGED <<uid, status, logins, timer, mute>>
  PROVE  SessionInv'
  <1>1. batch' = packets /\ packets \in Seq(Packets) /\ ~Names(packets) /\ NamesOnce(packets)
    BY SessionAssumption, ServerAssumption DEF Parse, Names, NamesOnce
  <1>2. ~HasVerdict(batch)
    BY DEF HasVerdict
  <1> QED BY <1>1, <1>2 DEF SessionInv, StatusMatchesUid, RequestsMatch, BatchMatches, Online

LEMMA UnnoticedStep ==
  ASSUME SessionInv, UNCHANGED <<uid, status, logins, timer, mute, batch>>
  PROVE  SessionInv'
  BY DEF SessionInv, StatusMatchesUid, RequestsMatch, BatchMatches, Online, HasVerdict, Names, NamesOnce

(* A disconnect or a new attempt while no packets are being handled. *)
LEMMA LeaveStep ==
  ASSUME SessionInv, batch = <<>>, batch' = <<>>,
         \/ Leave("logged out", {})
         \/ Leave("in progress", {"login"})
  PROVE  SessionInv'
  <1>1. \/ logins' = {} /\ status' = "logged out" /\ uid' = "none"
        \/ logins' = {"login"} /\ status' = "in progress" /\ uid' = "none"
    BY LeaveClears DEF SessionInv
  <1>2. ~Names(batch') /\ NamesOnce(batch') /\ batch' \in Seq(Packets)
    BY EmptyBatch
  <1> QED BY <1>1, <1>2 DEF SessionInv, StatusMatchesUid, RequestsMatch, BatchMatches, Online

LEMMA OauthAnswerStep ==
  ASSUME SessionInv, OauthAnswer
  PROVE  SessionInv'
  <1> USE DEF Online, LoggingIn
  <1>1. batch = <<>> /\ batch' = <<>> /\ "poll" \in logins
    BY DEF OauthAnswer, Waiting
  <1>2. status = "polling" /\ uid # "user" /\ "login" \notin logins /\ ~Names(<<>>)
    BY <1>1 DEF SessionInv, StatusMatchesUid, RequestsMatch, Names
  <1>3. CASE Reconnect
    BY <1>1, <1>3, LeaveStep DEF Reconnect
  <1>4. CASE logins' = logins \ {"poll"} /\ status' = "logged out" /\ uid' = uid /\ mute' = mute
    BY <1>1, <1>2, <1>4 DEF SessionInv, StatusMatchesUid, RequestsMatch, BatchMatches
  <1>5. CASE timer' = "set" /\ logins' = logins \ {"poll"} /\ status' = status /\ uid' = uid /\ mute' = mute
    BY <1>1, <1>2, <1>5 DEF SessionInv, StatusMatchesUid, RequestsMatch, BatchMatches
  <1> QED BY <1>3, <1>4, <1>5 DEF OauthAnswer, login

LEMMA BeginUpdateStep ==
  ASSUME SessionInv, BeginUpdate
  PROVE  SessionInv'
  <1>1. batch = <<>> /\ batch' = <<>> /\ status' = status /\ uid' = uid /\ mute' = mute
    BY DEF BeginUpdate, Waiting, login
  <1>2. \/ timer = "due" /\ timer' = "off"
           /\ logins' = IF status = "polling" THEN logins \cup {"poll"} ELSE logins
        \/ timer # "due" /\ UNCHANGED <<timer, logins>>
    BY DEF BeginUpdate
  <1>3. ~Names(<<>>)
    BY DEF Names
  <1> QED BY <1>1, <1>2, <1>3 DEF SessionInv, StatusMatchesUid, RequestsMatch, BatchMatches, Online

LEMMA ClickLogInStep ==
  ASSUME SessionInv, ClickLogIn
  PROVE  SessionInv'
  <1>1. batch = <<>> /\ batch' = <<>> /\ ~Names(<<>>)
    BY DEF ClickLogIn, Waiting, Names
  <1>2. CASE Disconnect
    BY <1>1, <1>2, LeaveStep DEF Disconnect
  <1>3. CASE Reconnect
    BY <1>1, <1>3, LeaveStep DEF Reconnect
  <1>4. CASE /\ ~(LoggingIn \/ Online \/ status = "polling")
             /\ status' = "polling" /\ logins' = logins \cup {"poll"} /\ uid' = uid /\ timer' = timer
    BY <1>1, <1>4 DEF SessionInv, StatusMatchesUid, RequestsMatch, BatchMatches, Online, LoggingIn
  <1> QED BY <1>2, <1>3, <1>4 DEF ClickLogIn

(* An update has no packets of a response to handle before it reads the     *)
(* websocket, so that a time-out does not meet half a batch.                *)
UpdateInv == step # "idle" => batch = <<>>

LEMMA UpdateStep ==
  ASSUME UpdateInv, [Next]_vars
  PROVE  UpdateInv'
  <1> USE DEF UpdateInv
  <1>1. CASE UNCHANGED <<step, batch>>
    BY <1>1
  <1>2. CASE step' = "idle"
    BY <1>2
  <1>3. CASE BeginUpdate
    BY <1>3 DEF BeginUpdate, Waiting
  <1>4. CASE Ping
    BY <1>4 DEF Ping
  <1>5. CASE Timeout
    BY <1>5 DEF Timeout
  <1>6. CASE Send
    BY <1>6 DEF Send
  <1>7. ASSUME \/ LoginAnswer \/ OauthAnswer \/ Tick \/ ClickLogIn \/ SendPacket \/ ChangeRoom \/ ShowUsers
               \/ \E s \in sends : SendAnswer(s)
        PROVE  step = "idle" /\ step' = step
    BY <1>7 DEF LoginAnswer, OauthAnswer, Tick, ClickLogIn, SendPacket, ChangeRoom, ShowUsers, SendAnswer, Waiting, world
  <1>8. CASE HandlePacket
    BY <1>8 DEF HandlePacket
  <1> QED
    BY <1>1, <1>2, <1>3, <1>4, <1>5, <1>6, <1>7, <1>8
    DEF Next, Update, Read, Socket, ServerDies, vars

LEMMA TimeoutStep ==
  ASSUME SessionInv, UpdateInv, Timeout
  PROVE  SessionInv'
  <1>1. batch = <<>> /\ batch' = <<>>
    BY DEF UpdateInv, Timeout
  <1>2. CASE Disconnect
    BY <1>1, <1>2, LeaveStep DEF Disconnect
  <1>3. CASE UNCHANGED <<uid, status, timer, logins>>
    BY <1>1, <1>3, UnnoticedStep DEF Timeout, login
  <1> QED BY <1>2, <1>3 DEF Timeout, connection

(* The answers that come with packets but log nobody in. *)
LEMMA ReadStep ==
  ASSUME SessionInv, UpdateInv, Read \/ \E s \in sends : SendAnswer(s)
  PROVE  SessionInv'
  <1>1. batch = <<>> /\ UNCHANGED <<uid, status, timer, logins, mute>>
    BY DEF UpdateInv, Read, SendAnswer, Waiting, connection, login
  <1>2. CASE batch' = batch
    BY <1>1, <1>2, UnnoticedStep
  <1>3. CASE \E packets \in Pushes : Parse(packets)
    BY <1>1, <1>3, PushStep
  <1> QED BY <1>2, <1>3 DEF Read, SendAnswer

(* The clock moves a set timer on, and that is all the invariant sees. *)
LEMMA TickStep ==
  ASSUME SessionInv, Tick
  PROVE  SessionInv'
  <1>1. /\ UNCHANGED <<uid, status, logins, mute, batch>>
        /\ timer' = IF timer = "set" THEN "due" ELSE timer
    BY DEF Tick
  <1>2. timer # "off" => timer' # "off"
    BY <1>1
  <1> QED
    BY <1>1, <1>2
    DEF SessionInv, StatusMatchesUid, RequestsMatch, BatchMatches, Online, HasVerdict, Names, NamesOnce

LEMMA SessionStep ==
  ASSUME SessionInv, UpdateInv, [Next]_vars
  PROVE  SessionInv'
  <1>1. ASSUME \/ Ping \/ Send \/ SendPacket \/ ChangeRoom \/ ShowUsers \/ Socket \/ ServerDies \/ UNCHANGED vars
        PROVE  SessionInv'
    <2>1. UNCHANGED <<uid, status, logins, timer, mute, batch>>
      BY <1>1 DEF Ping, Send, SendPacket, ChangeRoom, ShowUsers, Socket, ServerDies, vars, connection, login
    <2> QED BY <2>1, UnnoticedStep
  <1> QED
    BY <1>1, HandleStep, LoginAnswerStep, OauthAnswerStep, BeginUpdateStep, ClickLogInStep, TimeoutStep,
       ReadStep, TickStep
    DEF Next, Update

-----------------------------------------------------------------------------
LEMMA SessionStarts == Init => SessionInv /\ UpdateInv
  BY EmptyBatch DEF Init, SessionInv, StatusMatchesUid, RequestsMatch, BatchMatches, UpdateInv, Online

(* The invariant behind the next two theorems holds of the specification.   *)
THEOREM SessionInvariance == Spec => [](SessionInv /\ UpdateInv)
  <1>1. SessionInv /\ UpdateInv /\ [Next]_vars => (SessionInv /\ UpdateInv)'
    BY SessionStep, UpdateStep
  <1> QED BY SessionStarts, <1>1, PTL DEF Spec

(* Whatever packets end or refuse a session, handled in the middle of a     *)
(* response or one session late, the user id (which lets update_networking  *)
(* send) and the online status (which the interface shows) agree.           *)
THEOREM UserIsWhoIsShown == Spec => []StatusMatchesUid
  <1>1. SessionInv => StatusMatchesUid
    BY DEF SessionInv
  <1> QED BY SessionInvariance, <1>1, PTL

(* Disconnecting stops the login in flight, so that no answer to it can      *)
(* change the state of a later session, and no attempt to log in is shown    *)
(* that nothing can end.                                                    *)
THEOREM LoginsAreAccounted == Spec => []LoginAccounted
  <1>1. SessionInv => LoginAccounted
    <2> SUFFICES ASSUME SessionInv PROVE LoginAccounted
      OBVIOUS
    <2>1. "login" \in logins => status = "in progress" /\ uid # "user" /\ "poll" \notin logins
      BY DEF SessionInv, RequestsMatch, StatusMatchesUid, Online
    <2>2. batch = <<>> => ~HasVerdict(batch)
      BY EmptyBatch
    <2> QED BY <2>1, <2>2 DEF SessionInv, RequestsMatch, BatchMatches, LoginAccounted, LoggingIn, Online
  <1> QED BY SessionInvariance, <1>1, PTL

-----------------------------------------------------------------------------
(* What waits is a matter of two sets, and of the websocket being a record. *)
Sockets == [status : {"null", "connecting", "connected", "unsupported", "disconnected"},
            out : SUBSET Nat, in : BOOLEAN, young : BOOLEAN]
PacketInv == PacketsStayInSession /\ ws \in Sockets /\ session \in Nat

Fresh == outgoing' = {} /\ ws' = NoSocket

LEMMA EmptySocket == NoSocket \in Sockets /\ NoSocket.out = {}
  BY DEF NoSocket, Sockets

LEMMA FilledSocket ==
  ASSUME NEW out \in SUBSET Nat
  PROVE  NewSocket(out) \in Sockets /\ NewSocket(out).out = out
  BY DEF NewSocket, Sockets

LEMMA ChangedSocket ==
  ASSUME ws \in Sockets
  PROVE  /\ \A s \in {"connected", "unsupported", "disconnected"} :
              [ws EXCEPT !.status = s] \in Sockets /\ [ws EXCEPT !.status = s].out = ws.out
         /\ \A out \in SUBSET Nat :
              [ws EXCEPT !.out = out] \in Sockets /\ [ws EXCEPT !.out = out].out = out
         /\ \A b \in BOOLEAN : [ws EXCEPT !.in = b] \in Sockets /\ [ws EXCEPT !.in = b].out = ws.out
         /\ [ws EXCEPT !.young = FALSE] \in Sockets /\ [ws EXCEPT !.young = FALSE].out = ws.out
         /\ ws.out \in SUBSET Nat
  BY DEF Sockets

LEMMA LeaveIsFresh ==
  ASSUME NEW to, NEW requests, Leave(to, requests)
  PROVE  Fresh
  BY DEF Leave, Fresh

LEMMA PacketStep ==
  ASSUME PacketInv, [Next]_vars
  PROVE  PacketInv'
  <1> USE DEF PacketInv, PacketsStayInSession, Fresh
  <1>1. ASSUME Fresh, session' \in {session, session + 1} PROVE PacketInv'
    BY <1>1, EmptySocket
  <1>2. CASE UNCHANGED <<session, ws, outgoing>>
    BY <1>2
  <1>3. ASSUME Disconnect, session' = session PROVE PacketInv'
    BY <1>1, <1>3, LeaveIsFresh DEF Disconnect
  <1>4. ASSUME Reconnect PROVE PacketInv'
    <2>1. Fresh /\ session' = session + 1
      BY <1>4, LeaveIsFresh DEF Reconnect
    <2> QED BY <1>1, <2>1
  <1>5. ASSUME ReconnectWs, session' = session PROVE PacketInv'
    <2>1. CASE ws' = ws
      BY <1>5, <2>1 DEF ReconnectWs
    <2>2. CASE ws' = NewSocket(ws.out)
      BY <1>5, <2>2, FilledSocket, ChangedSocket DEF ReconnectWs
    <2> QED BY <1>5, <2>1, <2>2 DEF ReconnectWs
  <1>6. CASE HandlePacket
    <2>1. Handle(Head(batch))
      BY <1>6 DEF HandlePacket
    <2>2. CASE Accepted
      BY <1>2, <1>3, <2>2 DEF Accepted, login
    <2>3. CASE Refused
      BY <1>2, <2>3 DEF Refused
    <2> QED BY <1>2, <1>3, <1>4, <1>5, <2>1, <2>2, <2>3 DEF Handle, connection, login
  <1>7. CASE OauthAnswer
    BY <1>2, <1>4, <1>7 DEF OauthAnswer, login
  <1>8. CASE Timeout
    <2>1. session' = session
      BY <1>8 DEF Timeout, login
    <2>2. CASE ws' = NoSocket /\ UNCHANGED outgoing
      BY <2>1, <2>2, EmptySocket
    <2> QED BY <1>2, <1>3, <1>8, <2>1, <2>2 DEF Timeout, connection
  <1>9. CASE Ping
    BY <1>9 DEF Ping, login
  <1>10. CASE Send
    <2>1. session' = session /\ outgoing' \subseteq outgoing
      BY <1>10 DEF Send
    <2>2. CASE UNCHANGED ws
      BY <2>1, <2>2
    <2>3. CASE ws' = NoSocket
      BY <2>1, <2>3, EmptySocket
    <2>4. CASE ws' = NewSocket(ws.out \cup outgoing) \/ ws' = [ws EXCEPT !.out = ws.out \cup outgoing]
      <3>1. ws.out \cup outgoing \in SUBSET Nat
        BY ChangedSocket
      <3>2. ws' \in Sockets /\ ws'.out = ws.out \cup outgoing
        BY <2>4, <3>1, FilledSocket, ChangedSocket
      <3> QED BY <2>1, <3>2
    <2> QED BY <1>10, <2>2, <2>3, <2>4 DEF Send, SendWs
  <1>11. CASE ClickLogIn
    BY <1>2, <1>3, <1>4, <1>11 DEF ClickLogIn
  <1>12. CASE SendPacket
    BY <1>12 DEF SendPacket, login
  <1>13. CASE Socket
    <2>1. session' = session /\ outgoing' = outgoing
      BY <1>13 DEF Socket, login
    <2>2. ws' \in Sockets /\ ws'.out \subseteq ws.out
      BY <1>13, ChangedSocket DEF Socket
    <2> QED BY <2>1, <2>2
  <1>14. CASE Tick
    BY <1>14, ChangedSocket DEF Tick
  <1>15. CASE BeginUpdate
    <2>1. session' = session /\ ws' = ws /\ outgoing' \subseteq outgoing \cup {session}
      BY <1>15 DEF BeginUpdate, login
    <2> QED BY <2>1
  <1>16. CASE Read
    BY <1>16, ChangedSocket DEF Read, login
  <1>17. ASSUME \/ LoginAnswer \/ ChangeRoom \/ ShowUsers \/ ServerDies
                \/ \E s \in sends : SendAnswer(s)
         PROVE  UNCHANGED <<session, ws, outgoing>>
    BY <1>17 DEF LoginAnswer, SendAnswer, ChangeRoom, ShowUsers, ServerDies, connection, login
  <1> QED
    BY <1>2, <1>6, <1>7, <1>8, <1>9, <1>10, <1>11, <1>12, <1>13, <1>14, <1>15, <1>16, <1>17
    DEF Next, Update, vars, connection, login

(* Nothing queued for one session is sent in another, however often the     *)
(* websocket is replaced and whenever the session ends.                     *)
THEOREM NoPacketCrosses == Spec => []PacketsStayInSession
  <1>1. Init => PacketInv
    <2>1. Init => outgoing = {} /\ ws = NoSocket /\ session = 0
      BY DEF Init
    <2> QED BY <2>1, EmptySocket DEF PacketInv, PacketsStayInSession
  <1>2. PacketInv /\ [Next]_vars => PacketInv'
    BY PacketStep
  <1>3. PacketInv => PacketsStayInSession
    BY DEF PacketInv
  <1> QED BY <1>1, <1>2, <1>3, PTL DEF Spec
==============================================================================
