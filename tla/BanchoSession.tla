---------------------------- MODULE BanchoSession ----------------------------
(***************************************************************************)
(* The session with a Bancho server: logging in with a password or through *)
(* the browser (oauth), polling over HTTP, the websocket and its fallback, *)
(* the packets that end a session, and the time-out of a silent server.    *)
(*                                                                         *)
(* All of it runs on the main thread: user input, the callbacks of HTTP    *)
(* responses, and update_networking, whose parts are steps of their own    *)
(* because the network thread changes the websocket's status meanwhile.    *)
(* The packets of a response are handled one by one, whatever they do to   *)
(* the session.  A stopped login request does not answer (NetworkHandler); *)
(* requests that carry packets cannot be stopped and answer at any time,   *)
(* also in the next session.  How many of them are in flight is not        *)
(* counted.  A token is the number of the attempt to log in that got it,   *)
(* and a packet the number of the attempt after which it was queued; how    *)
(* many there are does not matter.                                         *)
(***************************************************************************)
EXTENDS Integers, Sequences

CONSTANTS
  Bodies,       \* what the server may answer to a login, as sequences of packets
  Pushes,       \* what it may send later
  PongTimeout,  \* 10 s in ticks of the clock
  MaxInterval,  \* longest polling interval, 30 s
  RoomInterval, \* longest polling interval in a lobby or room
  Rooms,        \* whether the user enters lobbies and rooms
  MaxSessions,  \* bound: attempts to log in
  MaxSends      \* bound: packets the client sends of its own accord

Packets == {"accepted", "refused", "restart", "restricted", "logout", "switch", "data"}

ASSUME SessionAssumption ==
  /\ Bodies \subseteq Seq(Packets) /\ Pushes \subseteq Seq(Packets)
  /\ PongTimeout \in Nat \ {0} /\ RoomInterval \in 1 .. MaxInterval /\ MaxInterval \in Nat
  /\ Rooms \in BOOLEAN /\ MaxSessions \in Nat /\ MaxSends \in Nat

Verdicts == {"accepted", "refused"}

\* Who logged in is said in the answer to a login, once, and in nothing else.  That answer may ask
\* for another login before or after.
ASSUME ServerAssumption ==
  /\ \A body \in Bodies : \A i, j \in DOMAIN body : body[i] \in Verdicts /\ body[j] \in Verdicts => i = j
  /\ \A packets \in Pushes : \A i \in DOMAIN packets : packets[i] \notin Verdicts

VARIABLES
  uid,       \* "none", "user" or the "code" of a failed login
  status,    \* online_status
  auth, cho, \* auth_token and cho_token, 0 for the empty one
  useWs,     \* use_websockets
  ws,        \* the websocket
  outgoing,  \* packets to be sent with the next request
  interval,  \* seconds_between_pings
  since,     \* time since last_packet_ms
  pong,      \* time until pong_expected_before, -1 for none
  timer,     \* login_poll_timeout
  logins,    \* login and oauth requests in flight and not stopped
  sends,     \* sessions whose requests with packets are in flight
  oauth,     \* whether mp_oauth_token is set
  room,      \* whether the user is in a lobby, room or spectates
  asking,    \* whether users are on screen of whom presence or stats are missing
  step,      \* part of update_networking the main thread is at
  batch,     \* packets of the response being handled
  session,   \* attempts to log in so far
  sent,      \* packets queued so far
  dead,      \* whether the server has stopped answering
  fresh,     \* whether an update ran since the clock last moved
  mute       \* whether the last login was answered without a verdict (history)

connection == <<auth, useWs, ws, outgoing, uid, status, timer, logins>>
clock == <<interval, pong>>
login == <<cho, oauth, session, mute, since>>
world == <<room, asking, dead, sent, sends>>
vars == <<connection, clock, login, world, step, batch, fresh>>

\* out and in: packets to be sent, and whether something was received.
NoSocket == [status |-> "null", out |-> {}, in |-> FALSE, young |-> FALSE]
NewSocket(out) == [status |-> "connecting", out |-> out, in |-> FALSE, young |-> TRUE]

Online == uid = "user"
LoggingIn == status = "in progress"
Attempting == ~(Online /\ auth # 0) /\ status \in {"in progress", "polling"}
Waiting == step = "idle" /\ batch = <<>>

Init ==
  /\ uid = "none" /\ status = "logged out" /\ auth = 0 /\ cho = 0
  /\ useWs = FALSE /\ ws = NoSocket /\ outgoing = {}
  /\ interval = 1 /\ since = 0 /\ pong = -1 /\ timer = "off"
  /\ logins = {} /\ sends = {}
  /\ oauth = FALSE /\ room = FALSE /\ asking = FALSE
  /\ step = "idle" /\ batch = <<>> /\ session = 0 /\ sent = 0
  /\ dead = FALSE /\ fresh = FALSE /\ mute = FALSE

-----------------------------------------------------------------------------
\* disconnect and reconnect

\* Bug: the packets that were not sent yet stay for the next session.
LeaveKeepsPackets(to, requests) ==
  /\ auth' = IF Online THEN 0 ELSE auth
  /\ logins' = requests /\ timer' = "off"
  /\ ws' = NoSocket /\ useWs' = FALSE
  /\ uid' = "none" /\ status' = to
  /\ UNCHANGED outgoing

\* Bug: the login request in flight is not stopped.
LeaveKeepsLogin(to, requests) ==
  /\ auth' = IF Online THEN 0 ELSE auth
  /\ logins' = logins \cup requests
  /\ outgoing' = {} /\ ws' = NoSocket /\ useWs' = FALSE
  /\ uid' = "none" /\ status' = to
  /\ UNCHANGED timer

\* Bug: the user id outlives the session.
LeaveKeepsUser(to, requests) ==
  /\ auth' = IF Online THEN 0 ELSE auth
  /\ logins' = requests /\ timer' = "off"
  /\ outgoing' = {} /\ ws' = NoSocket /\ useWs' = FALSE
  /\ status' = to
  /\ UNCHANGED uid

\* disconnect: log out of a session that has a token, or else stop the attempt to log in; then
\* forget the packets, the websocket and the user.  What follows it gives status and requests.
Leave(to, requests) ==
  /\ auth' = IF Online THEN 0 ELSE auth
  /\ logins' = requests \cup (IF Attempting THEN {} ELSE logins)
  /\ timer' = IF Attempting THEN "off" ELSE timer
  /\ outgoing' = {} /\ ws' = NoSocket /\ useWs' = FALSE
  /\ uid' = "none" /\ status' = to

Disconnect == Leave("logged out", {})

\* reconnect: disconnect, and log in unless the server is on the list of those that want no clients.
Reconnect ==
  /\ session' = session + 1
  /\ mute' = FALSE
  /\ \/ Leave("logged out", {}) /\ UNCHANGED since
     \/ Leave("in progress", {"login"}) /\ since' = 0

\* reconnect_websocket: a new socket takes over what the old one had not sent.
ReconnectWs ==
  /\ ws' = IF useWs THEN NewSocket(ws.out) ELSE ws
  /\ UNCHANGED <<auth, useWs, outgoing, uid, status, timer, logins>>

-----------------------------------------------------------------------------
\* handle_packet

\* USER_ID with an error code.
Refused ==
  /\ uid' = "code"
  /\ status' = IF LoggingIn \/ uid # "code" THEN "logged out" ELSE status
  /\ oauth' = FALSE
  /\ UNCHANGED <<auth, useWs, ws, outgoing, timer, logins, cho, session, mute, since>>

\* USER_ID of a user, believed if there ever was a cho-token.
Accepted ==
  \/ cho = 0 /\ Disconnect /\ UNCHANGED login
  \/ /\ cho # 0
     /\ uid' = "user"
     /\ status' = IF LoggingIn \/ uid # "user" THEN "logged in" ELSE status
     /\ UNCHANGED <<auth, useWs, ws, outgoing, timer, logins, cho, oauth, session, mute, since>>

Handle(p) ==
  \/ p = "accepted" /\ Accepted
  \/ p = "refused" /\ Refused
  \/ /\ p = "restart"
     /\ \/ Online /\ Reconnect /\ UNCHANGED <<cho, oauth>>
        \/ ~Online /\ UNCHANGED <<connection, login>>
  \/ p = "restricted" /\ Disconnect /\ UNCHANGED login
  \/ /\ p = "logout"
     /\ \/ Online /\ Disconnect
        \/ ~Online /\ UNCHANGED connection
     /\ UNCHANGED login
  \/ p = "switch" /\ ReconnectWs /\ UNCHANGED login
  \/ p = "data" /\ UNCHANGED <<connection, login>>

\* The loop of parse_packets: every packet is actual data, so polling is fast again.
HandlePacket ==
  /\ batch # <<>>
  /\ Handle(Head(batch))
  /\ batch' = Tail(batch)
  /\ interval' = 1
  /\ UNCHANGED <<pong, world, step, fresh>>

-----------------------------------------------------------------------------
\* Responses

\* parse_packets begins: any answer is as good as a PONG.  (The server sends no restart in the last
\* session of the bound.)
Parse(packets) ==
  /\ session < MaxSessions \/ \A i \in DOMAIN packets : packets[i] # "restart"
  /\ batch' = packets /\ pong' = -1

HasVerdict(body) == \E i \in DOMAIN body : body[i] \in {"accepted", "refused", "restricted"}

\* The callback of attempt_logging_in.
LoginAnswer ==
  /\ Waiting /\ "login" \in logins
  /\ logins' = logins \ {"login"}
  /\ \/ /\ status' = "logged out"
        /\ UNCHANGED <<auth, cho, useWs, mute, batch, pong>>
     \/ /\ ~dead
        /\ \E body \in Bodies : Parse(body) /\ mute' = ~HasVerdict(body)
        /\ \/ auth' = session /\ cho' = session /\ useWs' \in BOOLEAN
           \/ UNCHANGED <<auth, cho, useWs>>
        /\ UNCHANGED status
  /\ UNCHANGED <<ws, outgoing, uid, timer, interval, since, oauth, session, world, step,
                 fresh>>

\* The callback of poll_login: a failure, not yet, or the token with which to log in.
OauthAnswer ==
  /\ Waiting /\ "poll" \in logins
  /\ \/ /\ logins' = logins \ {"poll"} /\ status' = "logged out"
        /\ UNCHANGED <<auth, useWs, ws, outgoing, uid, timer, login>>
     \/ /\ ~dead /\ timer' = "set" /\ logins' = logins \ {"poll"}
        /\ UNCHANGED <<auth, useWs, ws, outgoing, uid, status, login>>
     \/ /\ ~dead /\ session < MaxSessions
        /\ oauth' = TRUE /\ Reconnect /\ UNCHANGED cho
  /\ UNCHANGED <<clock, world, step, batch, fresh>>

\* The callback of send_bancho_packet_http, of whichever session.
SendAnswer(s) ==
  /\ Waiting /\ s \in sends
  /\ sends' \in {sends, sends \ {s}}
  /\ \/ UNCHANGED <<batch, pong>>
     \/ ~dead /\ \E packets \in Pushes : Parse(packets)
  /\ UNCHANGED <<connection, interval, login, room, asking, dead, sent, step, fresh>>

-----------------------------------------------------------------------------
\* update_networking

\* The login is polled for when it is time; the rest is for those who are online.  They ask for
\* the presence and stats that are missing once in a while: at most once a tick, and not at all
\* when those that are missing were asked for less than 5 s ago.
BeginUpdate ==
  /\ Waiting
  /\ step' = IF Online THEN "ping" ELSE "idle"
  /\ fresh' = TRUE
  /\ \/ /\ timer = "due" /\ timer' = "off"
        /\ logins' = IF status = "polling" THEN logins \cup {"poll"} ELSE logins
     \/ timer # "due" /\ UNCHANGED <<timer, logins>>
  /\ \/ UNCHANGED outgoing
     \/ Online /\ asking /\ ~fresh /\ outgoing' = outgoing \cup {session}
  /\ UNCHANGED <<auth, useWs, ws, uid, status, clock, login, world, batch>>

\* The interval that applies, and a PING when nothing else was or is to be sent.
Ping ==
  LET cap == IF useWs THEN MaxInterval ELSE IF room /\ interval > RoomInterval THEN RoomInterval ELSE interval
  IN
  /\ step = "ping" /\ step' = "timeout"
  /\ \/ /\ since > cap /\ outgoing = {}
        /\ outgoing' = {session}
        /\ pong' = PongTimeout
        /\ interval' = IF cap < MaxInterval THEN cap + 1 ELSE cap
     \/ ~(since > cap /\ outgoing = {}) /\ interval' = cap /\ UNCHANGED <<outgoing, pong>>
  /\ UNCHANGED <<auth, useWs, ws, uid, status, timer, logins, login, world, batch, fresh>>

\* Bug: the deadline passes without consequences.
TimeoutIgnored ==
  /\ step = "timeout" /\ step' = "send"
  /\ pong' = IF pong = 0 THEN -1 ELSE pong
  /\ UNCHANGED <<connection, interval, login, world, batch, fresh>>

\* No answer in time: another websocket, or the end of the session.
Timeout ==
  /\ step = "timeout"
  /\ pong' = IF pong = 0 THEN -1 ELSE pong
  /\ \/ pong # 0 /\ step' = "send" /\ UNCHANGED connection
     \/ /\ pong = 0 /\ useWs /\ step' = "send" /\ ws' = NoSocket
        /\ UNCHANGED <<auth, useWs, outgoing, uid, status, timer, logins>>
     \/ pong = 0 /\ ~useWs /\ step' = "idle" /\ Disconnect
  /\ UNCHANGED <<interval, login, world, batch, fresh>>

\* send_bancho_packet_http: nothing without a token.
SendHttp == sends' = IF auth = 0 THEN sends ELSE sends \cup {session}

\* send_bancho_packet_ws: onto the socket, onto a new one in place of one that is closed, or over
\* HTTP for good when that one was closed too soon or is not supported.
SendWs ==
  \/ auth = 0 /\ UNCHANGED <<ws, useWs, sends>>
  \/ /\ auth # 0 /\ ws.status = "disconnected" /\ ws.young
     /\ useWs' = FALSE /\ SendHttp /\ UNCHANGED ws
  \/ /\ auth # 0 /\ ws.status \in {"null", "disconnected"} /\ ~ws.young
     /\ ws' = NewSocket(ws.out \cup outgoing) /\ UNCHANGED <<useWs, sends>>
  \/ /\ auth # 0 /\ ws.status = "unsupported"
     /\ ws' = NoSocket /\ useWs' = FALSE /\ SendHttp
  \/ /\ auth # 0 /\ ws.status \in {"connecting", "connected"}
     /\ ws' = [ws EXCEPT !.out = @ \cup outgoing] /\ UNCHANGED <<useWs, sends>>

Send ==
  /\ step = "send" /\ step' = "read"
  /\ \/ outgoing = {} /\ UNCHANGED <<outgoing, since, ws, useWs, sends>>
     \/ /\ outgoing # {} /\ outgoing' = {} /\ since' = 0
        /\ \/ useWs /\ SendWs
           \/ ~useWs /\ SendHttp /\ UNCHANGED <<ws, useWs>>
  /\ UNCHANGED <<auth, uid, status, timer, logins, clock, cho, oauth, session, mute, room, asking,
                 dead, sent, batch, fresh>>

\* What the websocket has received, be it connected still or not.
Read ==
  /\ step = "read" /\ step' = "idle"
  /\ ws' = [ws EXCEPT !.in = FALSE]
  /\ \/ ~ws.in /\ UNCHANGED <<batch, pong>>
     \/ ws.in /\ \E packets \in Pushes \ {<<>>} : Parse(packets)
  /\ UNCHANGED <<auth, useWs, outgoing, uid, status, timer, logins, interval, login, world, fresh>>

-----------------------------------------------------------------------------
\* onLogInClicked, with either button.
ClickLogIn ==
  /\ Waiting
  /\ \/ /\ LoggingIn \/ Online \/ status = "polling"
        /\ Disconnect /\ oauth' = FALSE
        /\ UNCHANGED <<cho, session, mute, since>>
     \/ /\ ~(LoggingIn \/ Online \/ status = "polling") /\ session < MaxSessions
        /\ \/ Reconnect /\ oauth' \in {oauth, FALSE}
           \/ /\ ~oauth /\ status' = "polling" /\ logins' = logins \cup {"poll"}
              /\ UNCHANGED <<auth, useWs, ws, outgoing, uid, timer, oauth, session, mute,
                             since>>
        /\ UNCHANGED cho
  /\ UNCHANGED <<clock, world, step, batch, fresh>>

\* send_packet: only for those who are online.
SendPacket ==
  /\ Waiting /\ Online /\ sent < MaxSends
  /\ sent' = sent + 1
  /\ outgoing' = outgoing \cup {session}
  /\ UNCHANGED <<auth, useWs, ws, uid, status, timer, logins, clock, login, room, asking, dead, sends,
                 step, batch, fresh>>

ChangeRoom ==
  /\ Rooms /\ Waiting /\ room' = ~room
  /\ UNCHANGED <<connection, clock, login, asking, dead, sent, sends, step, batch, fresh>>

\* The chat's user list, a card or a spectated user comes on screen or goes.
ShowUsers ==
  /\ Waiting /\ asking' = ~asking
  /\ UNCHANGED <<connection, clock, login, room, dead, sent, sends, step, batch, fresh>>

\* The network thread: a websocket connects, sends, receives, or is closed or refused by the server.
Socket ==
  /\ ws.status \in {"connecting", "connected"}
  /\ \/ ws.status = "connecting" /\ ~dead /\ ws' \in {[ws EXCEPT !.status = s] : s \in {"connected", "unsupported"}}
     \/ ws.status = "connected" /\ ws' = [ws EXCEPT !.out = {}]
     \/ ws.status = "connected" /\ ~dead /\ ws' = [ws EXCEPT !.in = TRUE]
     \/ ws' = [ws EXCEPT !.status = "disconnected"]
  /\ UNCHANGED <<auth, useWs, outgoing, uid, status, timer, logins, clock, login, world, step, batch, fresh>>

\* Time passes; an update runs every millisecond, so one at least before the clock moves on.
Tick ==
  /\ Waiting /\ fresh /\ fresh' = FALSE
  /\ since' = IF since > MaxInterval THEN since ELSE since + 1
  /\ pong' = IF pong > 0 THEN pong - 1 ELSE pong
  /\ timer' = IF timer = "set" THEN "due" ELSE timer
  /\ ws' = [ws EXCEPT !.young = FALSE]
  /\ UNCHANGED <<auth, useWs, outgoing, uid, status, logins, interval, cho, oauth, session, mute, world, step,
                 batch>>

ServerDies ==
  /\ ~dead /\ dead' = TRUE
  /\ UNCHANGED <<connection, clock, login, room, asking, sent, sends, step, batch, fresh>>
-----------------------------------------------------------------------------
Update == BeginUpdate \/ Ping \/ Timeout \/ Send \/ Read

Next ==
  \/ Update \/ HandlePacket \/ LoginAnswer \/ OauthAnswer \/ Tick
  \/ \E s \in sends : SendAnswer(s)
  \/ ClickLogIn \/ SendPacket \/ ChangeRoom \/ ShowUsers
  \/ Socket \/ ServerDies

\* The main loop goes on, and so does the clock; nothing is assumed of the server, the network or
\* the user.
Fairness == WF_vars(Update) /\ WF_vars(HandlePacket) /\ SF_vars(Tick)

Spec == Init /\ [][Next]_vars
FairSpec == Spec /\ Fairness
-----------------------------------------------------------------------------
TypeOK ==
  /\ uid \in {"none", "user", "code"}
  /\ status \in {"logged out", "in progress", "polling", "logged in"}
  /\ session \in 0 .. MaxSessions /\ auth \in 0 .. session /\ cho \in 0 .. session
  /\ ws.status \in {"null", "connecting", "connected", "unsupported", "disconnected"}
  /\ outgoing \cup ws.out \subseteq 1 .. MaxSessions
  /\ interval \in 1 .. MaxInterval /\ since \in 0 .. MaxInterval + 1 /\ pong \in -1 .. PongTimeout
  /\ timer \in {"off", "set", "due"} /\ logins \subseteq {"login", "poll"}
  /\ sends \subseteq 1 .. MaxSessions /\ sent \in 0 .. MaxSends
  /\ step \in {"idle", "ping", "timeout", "send", "read"} /\ batch \in Seq(Packets)
  /\ {useWs, oauth, room, asking, dead, fresh, mute, ws.in, ws.young} \subseteq BOOLEAN

\* At most one request to log in is in flight, and it belongs to the attempt the user sees: none
\* outlives a disconnect to change the state of a later session.  Nor is the user shown an attempt
\* behind which there is nothing, unless the server answered a login without saying who logged in.
LoginAccounted ==
  /\ logins # {"login", "poll"}
  /\ "login" \in logins => LoggingIn /\ ~Online
  /\ "poll" \in logins => status = "polling"
  /\ LoggingIn => "login" \in logins \/ batch # <<>> \/ mute
  /\ status = "polling" => "poll" \in logins \/ timer # "off"

\* The two records of being logged in, the user id that guards the networking and the status that
\* the interface shows, agree in every state, whatever packets end or refuse a session.
StatusMatchesUid == Online <=> status = "logged in"

\* What was queued for one session is never sent in the next one, neither from the pile of packets
\* nor from the output of a websocket that is replaced.
PacketsStayInSession == outgoing \cup ws.out \subseteq {session}

\* Whoever is logged in has a token to send packets with.  False: disconnect forgets auth_token
\* but not cho_token, so that a later login answered without a token passes the check for one.
OnlineCanSend == Online => auth # 0

\* When the server stops answering over HTTP, the user is logged out in the end, but for what keeps
\* the deadline from passing: in a lobby or a room every PING comes before the deadline of the one
\* before and moves it; and while users are on screen of whom something is missing, the requests
\* for it take the place of the PING that would set a deadline, if none is set yet.  (So would
\* packets that the client keeps sending; here it sends MaxSends at most.)
DeadServerNoticed == dead /\ Online /\ ~useWs ~> ~Online \/ room \/ (asking /\ pong = -1)
=============================================================================
