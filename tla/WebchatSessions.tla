-------------------------- MODULE WebchatSessions --------------------------
(***************************************************************************)
(* connectors/webchat: chat sessions in the memory of one asyncio process  *)
(* and the browsers that reach them, panes of the dashboard and widgets.   *)
(*                                                                         *)
(* The server's code between two awaits is one action.  A session id that  *)
(* nobody holds any more stands for a fresh uuid, also when its session    *)
(* still waits for its time-out in the server.  A lost connection is       *)
(* seen by the browser at once, by the server's handler later.  Whether a  *)
(* message passes the rate limit and the validation is not told apart: a   *)
(* message touches its session either way.  Tabs of one browser share      *)
(* localStorage.  A reply for a session without a socket is dropped and    *)
(* changes nothing, and so does a request to create a session that fails.  *)
(***************************************************************************)
EXTENDS Naturals, FiniteSets

CONSTANTS
  Panes,        \* dashboard tabs, each with the pane of one agent
  Widgets,      \* widget tabs
  Sids, NoSid,  \* session ids
  Sockets, NoSocket,
  MaxWebFaults, MaxIdles, MaxReplies  \* bounds

ASSUME WebAssumption ==
  /\ Panes \cap Widgets = {} /\ NoSid \notin Panes \cup Widgets \cup Sids /\ NoSocket \notin Sockets
  /\ IsFiniteSet(Sids)
  /\ {MaxWebFaults, MaxIdles, MaxReplies} \subseteq Nat

VARIABLES
  sessions,   \* connector._sessions
  tabs,       \* the pages: place, sessionId, socket
  stored,     \* localStorage: the panes' session, the widgets' session
  sockets,    \* the handlers of /ws, with whether the connection stands
  cleanup,    \* _session_cleanup_loop: the expired ids left, the one being closed
  sending,    \* send: session and socket of a reply on its way
  webLog      \* raced, slips and the bounded events

webVars == <<sessions, tabs, stored, sockets, cleanup, sending, webLog>>

Tabs == Panes \cup Widgets
Kind(t) == IF t \in Panes THEN "pane" ELSE "widget"

NoSession == [exists |-> FALSE, agent |-> FALSE, lost |-> FALSE, ws |-> NoSocket, idle |-> FALSE]
NewSession(agent, lost, k) ==
  [exists |-> TRUE, agent |-> agent, lost |-> lost, ws |-> k, idle |-> FALSE]
FreeSocket == [pc |-> "free", open |-> FALSE, sid |-> NoSid, tab |-> NoSid]
WaitingTab == [pc |-> "wait", sid |-> NoSid]
Sleeping == [expired |-> {}, closing |-> NoSid]
NotSending == [sid |-> NoSid, ws |-> NoSocket]

WebInit ==
  /\ sessions = [s \in Sids |-> NoSession]
  /\ tabs = [t \in Tabs |-> WaitingTab]
  /\ stored = [pane |-> NoSid, widget |-> NoSid]
  /\ sockets = [k \in Sockets |-> FreeSocket]
  /\ cleanup = Sleeping /\ sending = NotSending
  /\ webLog = [raced |-> {}, slips |-> 0, faults |-> 0, idles |-> 0, replies |-> 0]

Fresh(s) ==
  /\ \A kind \in DOMAIN stored : stored[kind] # s
  /\ \A t \in Tabs : tabs[t].sid # s
  /\ \A k \in Sockets : sockets[k].sid # s
  /\ s \notin cleanup.expired \cup {cleanup.closing, sending.sid}

Faulty(log) ==
  /\ webLog.faults < MaxWebFaults
  /\ webLog' = [log EXCEPT !.faults = @ + 1]

\* A pane is about to open its socket on session s, or one of its sockets waits to be
\* attached to s, if only on a connection that is lost already: the pane relies on s.
Relying(s) ==
  \/ \E t \in Panes : tabs[t] = [pc |-> "connect", sid |-> s]
  \/ \E k \in Sockets : sockets[k].pc = "accept" /\ sockets[k].sid = s /\ sockets[k].tab \in Panes

Slip(log, ss) == [log EXCEPT !.slips = @ + Cardinality({s \in ss : Relying(s)})]

\* onclose of the pages whose sockets are in ks.
OnClose(ks) ==
  tabs' = [t \in Tabs |->
            IF \E k \in ks : sockets[k].open /\ sockets[k].tab = t
            THEN [tabs[t] EXCEPT !.pc = "wait"] ELSE tabs[t]]

-----------------------------------------------------------------------------
(* Pages.                                                                    *)

\* The page loads, or the reconnect timer fires: a pane ensures its session, a widget
\* connects with what it has.
TimerFires(t) ==
  /\ tabs[t].pc = "wait"
  /\ tabs' = [tabs EXCEPT ![t] =
      IF t \in Widgets
      THEN [pc |-> "connect", sid |-> IF tabs[t].sid = NoSid THEN stored.widget ELSE tabs[t].sid]
      ELSE [pc |-> IF stored.pane = NoSid THEN "create" ELSE "check", sid |-> stored.pane]]
  /\ UNCHANGED <<sessions, stored, sockets, cleanup, sending, webLog>>

\* get_session knows a session until it is removed, whether or not it has expired.
Known(s) == sessions[s].exists

\* Mutant of CheckSession: an unknown session is forgotten and asked for again.
CheckSessionMutant(t) ==
  LET known == Known(tabs[t].sid)
  IN  /\ tabs[t].pc = "check"
      /\ tabs' = IF known THEN [tabs EXCEPT ![t].pc = "connect"] ELSE tabs
      /\ stored' = IF known THEN stored ELSE [stored EXCEPT !.pane = NoSid]
      /\ UNCHANGED <<sessions, sockets, cleanup, sending, webLog>>

\* GET /v1/chat/sessions/{id}: an unknown session is forgotten and replaced.
CheckSession(t) ==
  LET known == Known(tabs[t].sid)
  IN  /\ tabs[t].pc = "check"
      /\ tabs' = [tabs EXCEPT ![t] = IF known THEN [@ EXCEPT !.pc = "connect"]
                                              ELSE [pc |-> "create", sid |-> NoSid]]
      /\ stored' = IF known THEN stored ELSE [stored EXCEPT !.pane = NoSid]
      /\ UNCHANGED <<sessions, sockets, cleanup, sending, webLog>>

\* The request fails: the stored session is used unchecked.
CheckSessionFails(t) ==
  /\ tabs[t].pc = "check" /\ Faulty([webLog EXCEPT !.slips = @ + 1])
  /\ tabs' = [tabs EXCEPT ![t].pc = "connect"]
  /\ UNCHANGED <<sessions, stored, sockets, cleanup, sending>>

\* POST /v1/chat/sessions with the pane's agent_id.
CreateSession(t, s) ==
  /\ tabs[t].pc = "create" /\ Fresh(s)
  /\ sessions' = [sessions EXCEPT ![s] = NewSession(TRUE, FALSE, NoSocket)]
  /\ stored' = [stored EXCEPT !.pane = s]
  /\ tabs' = [tabs EXCEPT ![t] = [pc |-> "connect", sid |-> s]]
  /\ webLog' = [webLog EXCEPT !.raced = @ \ {s}]
  /\ UNCHANGED <<sockets, cleanup, sending>>

OpenSocket(t, k) ==
  /\ tabs[t].pc = "connect" /\ sockets[k].pc = "free"
  /\ sockets' = [sockets EXCEPT ![k] =
                  [pc |-> "accept", open |-> TRUE, sid |-> tabs[t].sid, tab |-> t]]
  /\ tabs' = [tabs EXCEPT ![t].pc = "opening"]
  /\ UNCHANGED <<sessions, stored, cleanup, sending, webLog>>

\* The message {"type": "session"} of an automatic session arrives.
ReceiveSession(k) ==
  LET t == sockets[k].tab
  IN  /\ sockets[k].pc = "loop" /\ sockets[k].open /\ tabs[t].sid = NoSid
      /\ tabs' = [tabs EXCEPT ![t].sid = sockets[k].sid]
      /\ stored' = [stored EXCEPT ![Kind(t)] = sockets[k].sid]
      /\ UNCHANGED <<sessions, sockets, cleanup, sending, webLog>>

LoseSocket(k) ==
  /\ sockets[k].open /\ Faulty(webLog)
  /\ OnClose({k})
  /\ sockets' = [sockets EXCEPT ![k].open = FALSE]
  /\ UNCHANGED <<sessions, stored, cleanup, sending>>

-----------------------------------------------------------------------------
(* The handlers of /ws and /ws/{session_id}.                                 *)

Attached(s) == {k \in Sockets : sockets[k].pc = "loop" /\ sockets[k].sid = s}

\* After accept: attach to the session, or make one of that id without an agent; the
\* page's onopen comes with it.
AttachSocket(k) ==
  LET sock == sockets[k]
  IN  /\ sock.pc = "accept"
      /\ \E s \in IF sock.sid = NoSid THEN {f \in Sids : Fresh(f)} ELSE {sock.sid} :
           /\ sessions' = [sessions EXCEPT ![s] =
                IF @.exists THEN [@ EXCEPT !.ws = k, !.idle = FALSE]
                ELSE NewSession(FALSE, sock.tab \in Panes, k)]
           /\ sockets' = [sockets EXCEPT ![k].pc = "loop", ![k].sid = s]
           /\ webLog' = [webLog EXCEPT !.raced =
                IF Attached(s) # {} \/ s \in {cleanup.closing, sending.sid} THEN @ \cup {s}
                ELSE IF sessions[s].exists THEN @ ELSE @ \ {s}]
      /\ tabs' = IF sock.open THEN [tabs EXCEPT ![sock.tab].pc = "open"] ELSE tabs
      /\ UNCHANGED <<stored, cleanup, sending>>

\* handle_incoming touches the session; a ping does not get there.
MessageIn(k) ==
  /\ sockets[k].pc = "loop" /\ sockets[k].open /\ sessions[sockets[k].sid].exists
  /\ sessions' = [sessions EXCEPT ![sockets[k].sid].idle = FALSE]
  /\ UNCHANGED <<tabs, stored, sockets, cleanup, sending, webLog>>

\* POST /v1/chat/sessions/{id}/messages, from a page or any other client.
SendMessageRest(s) ==
  /\ Known(s)
  /\ sessions' = [sessions EXCEPT ![s].idle = FALSE]
  /\ UNCHANGED <<tabs, stored, sockets, cleanup, sending, webLog>>

\* Mutant of EndHandler: the session is dropped with its socket.
EndHandlerMutant(k) ==
  /\ sockets[k].pc = "loop" /\ ~sockets[k].open
  /\ sessions' = [sessions EXCEPT ![sockets[k].sid] = NoSession]
  /\ sockets' = [sockets EXCEPT ![k] = FreeSocket]
  /\ UNCHANGED <<tabs, stored, cleanup, sending, webLog>>

\* WebSocketDisconnect: finally takes the socket of the session away, whosever it is.
EndHandler(k) ==
  /\ sockets[k].pc = "loop" /\ ~sockets[k].open
  /\ sessions' = [sessions EXCEPT ![sockets[k].sid].ws = NoSocket]
  /\ sockets' = [sockets EXCEPT ![k] = FreeSocket]
  /\ UNCHANGED <<tabs, stored, cleanup, sending, webLog>>

-----------------------------------------------------------------------------
(* Replies.                                                                  *)

BeginSend(s) ==
  /\ sending = NotSending /\ webLog.replies < MaxReplies
  /\ sessions[s].exists /\ sessions[s].ws # NoSocket
  /\ sending' = [sid |-> s, ws |-> sessions[s].ws]
  /\ webLog' = [webLog EXCEPT !.replies = @ + 1]
  /\ UNCHANGED <<sessions, tabs, stored, sockets, cleanup>>

RemoveSession(s) == sessions' = [sessions EXCEPT ![s] = NoSession]

\* send_text raises on a connection that is gone: the session is removed.
EndSend ==
  /\ sending # NotSending
  /\ \/ UNCHANGED <<sessions, webLog>>
     \/ /\ ~sockets[sending.ws].open
        /\ RemoveSession(sending.sid) /\ webLog' = Slip(webLog, {sending.sid})
  /\ sending' = NotSending
  /\ UNCHANGED <<tabs, stored, sockets, cleanup>>

-----------------------------------------------------------------------------
(* The cleanup loop.                                                         *)

\* session_timeout_s passes since the last message, reply or attach.
GoIdle(s) ==
  /\ sessions[s].exists /\ ~sessions[s].idle /\ webLog.idles < MaxIdles
  /\ sessions' = [sessions EXCEPT ![s].idle = TRUE]
  /\ webLog' = [webLog EXCEPT !.idles = @ + 1]
  /\ UNCHANGED <<tabs, stored, sockets, cleanup, sending>>

WakeCleanup ==
  /\ cleanup = Sleeping
  /\ cleanup' = [Sleeping EXCEPT !.expired = {s \in Sids : sessions[s].exists /\ sessions[s].idle}]
  /\ cleanup' # cleanup
  /\ UNCHANGED <<sessions, tabs, stored, sockets, sending, webLog>>

\* The next of the list, without another look at its activity: its socket is closed,
\* which awaits; without a socket it is removed at once.
CleanupNext(s) ==
  LET k == sessions[s].ws
  IN  /\ cleanup.closing = NoSid /\ s \in cleanup.expired
      /\ IF k = NoSocket
         THEN /\ RemoveSession(s) /\ webLog' = Slip(webLog, {s})
              /\ cleanup' = [cleanup EXCEPT !.expired = @ \ {s}]
              /\ UNCHANGED <<tabs, sockets>>
         ELSE /\ OnClose({k}) /\ sockets' = [sockets EXCEPT ![k].open = FALSE]
              /\ cleanup' = [expired |-> cleanup.expired \ {s}, closing |-> s]
              /\ UNCHANGED <<sessions, webLog>>
      /\ UNCHANGED <<stored, sending>>

CleanupRemoves ==
  /\ cleanup.closing # NoSid
  /\ RemoveSession(cleanup.closing) /\ webLog' = Slip(webLog, {cleanup.closing})
  /\ cleanup' = [cleanup EXCEPT !.closing = NoSid]
  /\ UNCHANGED <<tabs, stored, sockets, sending>>

\* The process restarts: sessions and sockets are gone.
RestartWebchat ==
  /\ Faulty([Slip(webLog, Sids) EXCEPT !.raced = {}])
  /\ sessions' = [s \in Sids |-> NoSession]
  /\ OnClose(Sockets) /\ sockets' = [k \in Sockets |-> FreeSocket]
  /\ cleanup' = Sleeping /\ sending' = NotSending
  /\ UNCHANGED stored

Page(t) ==
  \/ TimerFires(t) \/ CheckSession(t)
  \/ \E s \in Sids : CreateSession(t, s)
  \/ \E k \in Sockets : OpenSocket(t, k)

Server ==
  \/ \E k \in Sockets : AttachSocket(k) \/ EndHandler(k)
  \/ EndSend \/ WakeCleanup \/ CleanupRemoves \/ \E s \in Sids : CleanupNext(s)

WebNext ==
  \/ \E t \in Tabs : Page(t) \/ CheckSessionFails(t)
  \/ Server
  \/ \E k \in Sockets : ReceiveSession(k) \/ LoseSocket(k) \/ MessageIn(k)
  \/ \E s \in Sids : BeginSend(s) \/ GoIdle(s) \/ SendMessageRest(s)
  \/ RestartWebchat

WebSpec == WebInit /\ [][WebNext]_webVars

-----------------------------------------------------------------------------
WebTypeOK ==
  /\ sessions \in [Sids -> [exists : BOOLEAN, agent : BOOLEAN, lost : BOOLEAN,
                           ws : Sockets \cup {NoSocket}, idle : BOOLEAN]]
  /\ tabs \in [Tabs -> [pc : {"wait", "check", "create", "connect", "opening", "open"},
                        sid : Sids \cup {NoSid}]]
  /\ stored \in [pane : Sids \cup {NoSid}, widget : Sids \cup {NoSid}]
  /\ sockets \in [Sockets -> [pc : {"free", "accept", "loop"}, open : BOOLEAN,
                              sid : Sids \cup {NoSid}, tab : Tabs \cup {NoSid}]]
  /\ cleanup \in [expired : SUBSET Sids, closing : Sids \cup {NoSid}]
  /\ sending \in [sid : Sids \cup {NoSid}, ws : Sockets \cup {NoSocket}]
  /\ webLog \in [raced : SUBSET Sids, slips : Nat, faults : Nat, idles : Nat, replies : Nat]

\* A page that is connected is heard and hears: the session of its socket exists and
\* holds that socket, but where the socket was attached while another handler of the
\* session had not ended, or while a close or a send of the session was awaited.
LiveSocketsServed ==
  \A k \in Sockets :
    LET s == sockets[k].sid
    IN  sockets[k].pc = "loop" /\ sockets[k].open /\ s \notin webLog.raced =>
          sessions[s].exists /\ sessions[s].ws = k

\* A pane loses its agent (the session was made anew by the socket) only when the
\* session was removed between the pane's check and its socket, or was not checked.
AgentsKept == Cardinality({s \in Sids : sessions[s].lost}) <= webLog.slips

WebchatExplained == LiveSocketsServed /\ AgentsKept

\* However often connections, the server and idle sessions go, every page is connected
\* in the end and stays so.
PagesConnect == <>[](\A t \in Tabs : tabs[t].pc = "open")

=============================================================================
