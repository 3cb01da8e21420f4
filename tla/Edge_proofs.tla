------------------------------ MODULE Edge_proofs ------------------------------
(***************************************************************************)
(* Proofs about the services at the edge, each for every value of its      *)
(* constants, and about their composition.                                 *)
(***************************************************************************)
EXTENDS MCEdge, FiniteSetTheorems, SequenceTheorems, WellFoundedInduction, TLAPS

-----------------------------------------------------------------------------
(* The webchat connector.                                                    *)

SessionType == [exists : BOOLEAN, agent : BOOLEAN, lost : BOOLEAN,
                ws : Sockets \cup {NoSocket}, idle : BOOLEAN]
TabType == [pc : {"wait", "check", "create", "connect", "opening", "open"}, sid : Sids \cup {NoSid}]
SocketType == [pc : {"free", "accept", "loop"}, open : BOOLEAN, sid : Sids \cup {NoSid},
               tab : Tabs \cup {NoSid}]
WebLogType == [raced : SUBSET Sids, slips : Nat, faults : Nat, idles : Nat, replies : Nat]

\* Socket k serves session s, and its connection stands.
On(k, s) == sockets[k].pc = "loop" /\ sockets[k].sid = s
LiveOn(k, s) == On(k, s) /\ sockets[k].open

\* A handler knows its page, and its session once it has attached; a pane that opens a
\* socket has a session.
PagesKnown ==
  /\ \A k \in Sockets :
       /\ sockets[k].pc # "free" => sockets[k].tab \in Tabs
       /\ sockets[k].pc = "loop" => sockets[k].sid \in Sids
       /\ sockets[k].pc = "accept" /\ sockets[k].tab \in Panes => sockets[k].sid \in Sids
  /\ \A t \in Panes : tabs[t].pc \in {"check", "connect"} => tabs[t].sid \in Sids

\* The socket a session holds is one that serves it.
HeldSockets == \A s \in Sids, k \in Sockets : sessions[s].ws = k => On(k, s)

\* But for the races named in the log, a session has one handler ...
OneHandler == \A s \in Sids \ webLog.raced : \A j, k \in Sockets : On(j, s) /\ On(k, s) => j = k

\* ... a reply under way is under way on the live socket ...
SendsToLive == sending.sid \notin webLog.raced =>
                 \A k \in Sockets : LiveOn(k, sending.sid) => sending.ws = k

\* ... and the session being closed has no live socket left.
ClosesLast == cleanup.closing \notin webLog.raced => \A k \in Sockets : ~LiveOn(k, cleanup.closing)

ServeInv == HeldSockets /\ OneHandler /\ SendsToLive /\ ClosesLast /\ LiveSocketsServed

\* Relying, with the record of the page taken apart.
PaneRelies(s) ==
  \/ \E t \in Panes : tabs[t].pc = "connect" /\ tabs[t].sid = s
  \/ \E k \in Sockets : sockets[k].pc = "accept" /\ sockets[k].sid = s /\ sockets[k].tab \in Panes

\* Sessions that lost their agent, and those that are gone while a pane relies on them:
\* each has its slip.
AtRisk == {s \in Sids : sessions[s].lost \/ (~sessions[s].exists /\ PaneRelies(s))}
RiskCounted == Cardinality(AtRisk) <= webLog.slips

WebInv == WebTypeOK /\ PagesKnown /\ ServeInv /\ RiskCounted

LEMMA WebTypeFolded ==
  WebTypeOK <=> /\ sessions \in [Sids -> SessionType] /\ tabs \in [Tabs -> TabType]
                /\ stored \in [pane : Sids \cup {NoSid}, widget : Sids \cup {NoSid}]
                /\ sockets \in [Sockets -> SocketType]
                /\ cleanup \in [expired : SUBSET Sids, closing : Sids \cup {NoSid}]
                /\ sending \in [sid : Sids \cup {NoSid}, ws : Sockets \cup {NoSocket}]
                /\ webLog \in WebLogType
BY DEF WebTypeOK, SessionType, TabType, SocketType, WebLogType

LEMMA WebTypeFoldedPrime ==
  WebTypeOK' <=> /\ sessions' \in [Sids -> SessionType] /\ tabs' \in [Tabs -> TabType]
                 /\ stored' \in [pane : Sids \cup {NoSid}, widget : Sids \cup {NoSid}]
                 /\ sockets' \in [Sockets -> SocketType]
                 /\ cleanup' \in [expired : SUBSET Sids, closing : Sids \cup {NoSid}]
                 /\ sending' \in [sid : Sids \cup {NoSid}, ws : Sockets \cup {NoSocket}]
                 /\ webLog' \in WebLogType
BY DEF WebTypeOK, SessionType, TabType, SocketType, WebLogType

LEMMA WebConstants ==
  /\ NoSid \notin Sids /\ NoSid \notin Tabs /\ NoSocket \notin Sockets /\ IsFiniteSet(Sids)
  /\ NoSession \in SessionType /\ NoSession.exists = FALSE /\ NoSession.lost = FALSE
  /\ NoSession.ws = NoSocket
  /\ FreeSocket \in SocketType /\ FreeSocket.pc = "free" /\ FreeSocket.open = FALSE
  /\ WaitingTab \in TabType /\ WaitingTab.pc = "wait"
BY WebAssumption
   DEF NoSession, FreeSocket, WaitingTab, SessionType, TabType, SocketType, Tabs

\* A slip counts sessions of the set it is given.
LEMMA SlipCounts ==
  ASSUME NEW log \in WebLogType, NEW ss, IsFiniteSet(ss)
  PROVE  /\ Cardinality({s \in ss : Relying(s)}) \in Nat /\ IsFiniteSet({s \in ss : Relying(s)})
         /\ Slip(log, ss) \in WebLogType
         /\ Slip(log, ss) = [log EXCEPT !.slips = log.slips + Cardinality({s \in ss : Relying(s)})]
         /\ Slip(log, ss).raced = log.raced
         /\ Slip(log, ss).slips = log.slips + Cardinality({s \in ss : Relying(s)})
<1>1. IsFiniteSet({s \in ss : Relying(s)})
  BY FS_Subset
<1>2. Cardinality({s \in ss : Relying(s)}) \in Nat
  BY <1>1, FS_CardinalityType
<1>3. /\ Slip(log, ss) = [log EXCEPT !.slips = log.slips + Cardinality({s \in ss : Relying(s)})]
  BY DEF Slip, WebLogType
<1> HIDE DEF Slip
<1> DEFINE n == Cardinality({s \in ss : Relying(s)})
<1>4. n \in Nat /\ Slip(log, ss) = [log EXCEPT !.slips = log.slips + n]
  BY <1>2, <1>3
<1> HIDE DEF n
<1>5. Slip(log, ss) \in WebLogType /\ Slip(log, ss).raced = log.raced /\ Slip(log, ss).slips = log.slips + n
  BY <1>4 DEF WebLogType
<1> QED BY <1>1, <1>2, <1>3, <1>5 DEF n

LEMMA FaultyLogs ==
  ASSUME NEW log \in WebLogType, webLog \in WebLogType, Faulty(log)
  PROVE  webLog' \in WebLogType /\ webLog'.raced = log.raced /\ webLog'.slips = log.slips
BY DEF Faulty, WebLogType

\* The pages after connections closed.
LEMMA OnCloseTabs ==
  ASSUME NEW ks \in SUBSET Sockets, OnClose(ks), tabs \in [Tabs -> TabType]
  PROVE  /\ tabs' \in [Tabs -> TabType]
         /\ \A t \in Tabs : /\ tabs'[t].sid = tabs[t].sid
                            /\ tabs'[t].pc = tabs[t].pc \/ tabs'[t].pc = "wait"
BY DEF OnClose, TabType

-----------------------------------------------------------------------------
(* Types and pages.                                                          *)

\* What the steps of a page do to the pages.
LEMMA PageTypes ==
  ASSUME WebTypeOK, PagesKnown, NEW t \in Tabs, Page(t) \/ CheckSessionFails(t)
  PROVE  WebTypeOK' /\ PagesKnown'
<1>1. /\ sessions \in [Sids -> SessionType] /\ tabs \in [Tabs -> TabType]
      /\ stored \in [pane : Sids \cup {NoSid}, widget : Sids \cup {NoSid}]
      /\ sockets \in [Sockets -> SocketType] /\ webLog \in WebLogType
  BY WebTypeFolded
<1>2. CASE TimerFires(t)
  <2>1. PICK tab \in TabType :
          /\ tabs' = [tabs EXCEPT ![t] = tab]
          /\ t \in Panes /\ tab.pc \in {"check", "connect"} => tab.sid \in Sids
    <3>1. CASE t \in Widgets
      <4> DEFINE tab == [pc |-> "connect", sid |-> IF tabs[t].sid = NoSid THEN stored.widget ELSE tabs[t].sid]
      <4>1. tab \in TabType
        BY <1>1 DEF TabType
      <4>2. tabs' = [tabs EXCEPT ![t] = tab] /\ t \notin Panes
        BY <1>2, <3>1, WebAssumption DEF TimerFires
      <4> QED BY <4>1, <4>2
    <3>2. CASE t \notin Widgets
      <4> DEFINE tab == [pc |-> IF stored.pane = NoSid THEN "create" ELSE "check", sid |-> stored.pane]
      <4>1. tab \in TabType /\ (tab.pc \in {"check", "connect"} => tab.sid \in Sids)
        BY <1>1 DEF TabType
      <4>2. tabs' = [tabs EXCEPT ![t] = tab]
        BY <1>2, <3>2 DEF TimerFires
      <4> QED BY <4>1, <4>2
    <3> QED BY <3>1, <3>2
  <2>2. tabs' \in [Tabs -> TabType]
    BY <1>1, <2>1
  <2>3. UNCHANGED <<sessions, stored, sockets, cleanup, sending, webLog>>
    BY <1>2 DEF TimerFires
  <2>4. PagesKnown'
    BY <1>1, <2>1, <2>3 DEF PagesKnown, Tabs
  <2> QED BY <2>2, <2>3, <2>4, WebTypeFolded, WebTypeFoldedPrime
<1>3. CASE CheckSession(t) \/ CheckSessionFails(t)
  <2>1. PICK tab \in TabType :
          /\ tabs' = [tabs EXCEPT ![t] = tab]
          /\ tab.pc \in {"check", "connect"} => tab.sid = tabs[t].sid
    <3>1. CASE CheckSession(t)
      <4> DEFINE tab == IF sessions[tabs[t].sid].exists THEN [tabs[t] EXCEPT !.pc = "connect"]
                        ELSE [pc |-> "create", sid |-> NoSid]
      <4>1. tab \in TabType /\ (tab.pc \in {"check", "connect"} => tab.sid = tabs[t].sid)
        BY <1>1 DEF TabType
      <4>2. tabs' = [tabs EXCEPT ![t] = tab]
        BY <1>1, <3>1 DEF CheckSession, Known
      <4> QED BY <4>1, <4>2
    <3>2. CASE CheckSessionFails(t)
      <4> DEFINE tab == [tabs[t] EXCEPT !.pc = "connect"]
      <4>1. tab \in TabType /\ tab.sid = tabs[t].sid
        BY <1>1 DEF TabType
      <4>2. tabs' = [tabs EXCEPT ![t] = tab]
        BY <1>1, <3>2 DEF CheckSessionFails
      <4> QED BY <4>1, <4>2
    <3> QED BY <1>3, <3>1, <3>2
  <2>2. tabs[t].pc = "check" /\ tabs' \in [Tabs -> TabType]
    BY <1>1, <1>3, <2>1 DEF CheckSession, Known, CheckSessionFails
  <2>3. UNCHANGED <<sessions, sockets, cleanup, sending>>
    BY <1>3 DEF CheckSession, Known, CheckSessionFails
  <2>4. stored' \in {stored, [stored EXCEPT !.pane = NoSid]}
    BY <1>3 DEF CheckSession, Known, CheckSessionFails
  <2>5. stored' \in [pane : Sids \cup {NoSid}, widget : Sids \cup {NoSid}]
    BY <1>1, <2>4
  <2>6. webLog' \in WebLogType
    <3>1. [webLog EXCEPT !.slips = @ + 1] \in WebLogType
      BY <1>1 DEF WebLogType
    <3> QED BY <1>1, <1>3, <3>1, FaultyLogs DEF CheckSession, Known, CheckSessionFails
  <2>7. PagesKnown'
    <3>1. t \in Panes => tabs[t].sid \in Sids
      BY <2>2 DEF PagesKnown
    <3> QED BY <1>1, <2>1, <2>3, <3>1 DEF PagesKnown, Tabs
  <2> QED BY <1>1, <2>2, <2>3, <2>5, <2>6, <2>7, WebTypeFolded, WebTypeFoldedPrime
<1>4. ASSUME NEW s \in Sids, CreateSession(t, s) PROVE WebTypeOK' /\ PagesKnown'
  <2> DEFINE new == NewSession(TRUE, FALSE, NoSocket)
             tab == [pc |-> "connect", sid |-> s]
  <2>1. new \in SessionType /\ tab \in TabType
    BY DEF SessionType, TabType, NewSession
  <2>2. /\ sessions' = [sessions EXCEPT ![s] = new] /\ tabs' = [tabs EXCEPT ![t] = tab]
        /\ stored' = [stored EXCEPT !.pane = s]
        /\ webLog' = [webLog EXCEPT !.raced = @ \ {s}]
        /\ UNCHANGED <<sockets, cleanup, sending>>
    BY <1>4 DEF CreateSession
  <2>3. sessions' \in [Sids -> SessionType] /\ tabs' \in [Tabs -> TabType]
    BY <1>1, <2>1, <2>2
  <2>4. webLog' \in WebLogType
    <3>1. webLog.raced \ {s} \in SUBSET Sids
      BY <1>1 DEF WebLogType
    <3> QED BY <1>1, <2>2, <3>1 DEF WebLogType
  <2>5. stored' \in [pane : Sids \cup {NoSid}, widget : Sids \cup {NoSid}]
    BY <1>1, <2>2
  <2>6. PagesKnown'
    <3>1. tab.sid \in Sids
      OBVIOUS
    <3> HIDE DEF tab
    <3> QED BY <1>1, <2>2, <3>1 DEF PagesKnown, Tabs
  <2> QED BY <2>2, <2>3, <2>4, <2>5, <2>6, WebTypeFolded, WebTypeFoldedPrime
<1>5. ASSUME NEW k \in Sockets, OpenSocket(t, k) PROVE WebTypeOK' /\ PagesKnown'
  <2> DEFINE sock == [pc |-> "accept", open |-> TRUE, sid |-> tabs[t].sid, tab |-> t]
             tab == [tabs[t] EXCEPT !.pc = "opening"]
  <2>1. sock \in SocketType /\ tab \in TabType /\ tab.pc = "opening"
    BY <1>1 DEF SocketType, TabType
  <2>2. /\ sockets' = [sockets EXCEPT ![k] = sock] /\ tabs' = [tabs EXCEPT ![t] = tab]
        /\ tabs[t].pc = "connect"
        /\ UNCHANGED <<sessions, stored, cleanup, sending, webLog>>
    BY <1>1, <1>5 DEF OpenSocket
  <2>3. sockets' \in [Sockets -> SocketType] /\ tabs' \in [Tabs -> TabType]
    BY <1>1, <2>1, <2>2
  <2>4. sock.pc = "accept" /\ sock.tab = t /\ (t \in Panes => sock.sid \in Sids)
    BY <2>2 DEF PagesKnown
  <2>5. PagesKnown'
    <3> HIDE DEF tab, sock
    <3> QED BY <1>1, <2>1, <2>2, <2>4 DEF PagesKnown, Tabs
  <2> QED BY <2>2, <2>3, <2>5, WebTypeFolded, WebTypeFoldedPrime
<1> QED BY <1>2, <1>3, <1>4, <1>5 DEF Page

\* What arrives at the pages, and what they lose.
LEMMA SocketTypes ==
  ASSUME WebTypeOK, PagesKnown, NEW k \in Sockets,
         ReceiveSession(k) \/ LoseSocket(k) \/ MessageIn(k) \/ EndHandler(k)
  PROVE  WebTypeOK' /\ PagesKnown'
<1>1. /\ sessions \in [Sids -> SessionType] /\ tabs \in [Tabs -> TabType]
      /\ stored \in [pane : Sids \cup {NoSid}, widget : Sids \cup {NoSid}]
      /\ sockets \in [Sockets -> SocketType] /\ webLog \in WebLogType
  BY WebTypeFolded
<1>2. CASE ReceiveSession(k)
  <2> DEFINE t == sockets[k].tab
             s == sockets[k].sid
  <2>1. t \in Tabs /\ s \in Sids
    BY <1>2 DEF ReceiveSession, PagesKnown
  <2>2. /\ tabs' = [tabs EXCEPT ![t].sid = s] /\ stored' = [stored EXCEPT ![Kind(t)] = s]
        /\ UNCHANGED <<sessions, sockets, cleanup, sending, webLog>>
    BY <1>2 DEF ReceiveSession
  <2>3. Kind(t) \in {"pane", "widget"}
    BY DEF Kind
  <2> HIDE DEF t, s
  <2>4. tabs' \in [Tabs -> TabType]
    BY <1>1, <2>1, <2>2 DEF TabType
  <2>5. stored' \in [pane : Sids \cup {NoSid}, widget : Sids \cup {NoSid}]
    BY <1>1, <2>1, <2>2, <2>3
  <2>6. PagesKnown'
    BY <1>1, <2>1, <2>2 DEF PagesKnown, Tabs, TabType
  <2> QED BY <2>2, <2>4, <2>5, <2>6, WebTypeFolded, WebTypeFoldedPrime
<1>3. CASE LoseSocket(k)
  <2>1. /\ sockets' = [sockets EXCEPT ![k].open = FALSE] /\ OnClose({k})
        /\ UNCHANGED <<sessions, stored, cleanup, sending>>
    BY <1>3 DEF LoseSocket
  <2>2. webLog' \in WebLogType
    BY <1>1, <1>3, FaultyLogs DEF LoseSocket
  <2>3. /\ tabs' \in [Tabs -> TabType]
        /\ \A t \in Tabs : /\ tabs'[t].sid = tabs[t].sid
                           /\ tabs'[t].pc = tabs[t].pc \/ tabs'[t].pc = "wait"
    BY <1>1, <2>1, OnCloseTabs
  <2>4. /\ sockets' \in [Sockets -> SocketType]
        /\ \A j \in Sockets : /\ sockets'[j].pc = sockets[j].pc /\ sockets'[j].sid = sockets[j].sid
                              /\ sockets'[j].tab = sockets[j].tab
    BY <1>1, <2>1 DEF SocketType
  <2>5. PagesKnown'
    BY <2>3, <2>4 DEF PagesKnown, Tabs
  <2> QED BY <2>1, <2>2, <2>3, <2>4, <2>5, WebTypeFolded, WebTypeFoldedPrime
<1>4. CASE MessageIn(k)
  <2>1. sessions' \in [Sids -> SessionType]
    BY ZenonT(30), <1>1, <1>4 DEF MessageIn, SessionType
  <2>2. UNCHANGED <<tabs, stored, sockets, cleanup, sending, webLog>>
    BY <1>4 DEF MessageIn
  <2> QED BY <2>1, <2>2, WebTypeFolded, WebTypeFoldedPrime DEF PagesKnown
<1>5. CASE EndHandler(k)
  <2>1. sessions' \in [Sids -> SessionType]
    BY ZenonT(30), <1>1, <1>5 DEF EndHandler, SessionType
  <2>2. sockets' = [sockets EXCEPT ![k] = FreeSocket] /\ UNCHANGED <<tabs, stored, cleanup, sending, webLog>>
    BY <1>5 DEF EndHandler
  <2>3. sockets' \in [Sockets -> SocketType]
    BY <1>1, <2>2, WebConstants
  <2>4. PagesKnown'
    BY <1>1, <2>2, WebConstants DEF PagesKnown
  <2> QED BY <2>1, <2>2, <2>3, <2>4, WebTypeFolded, WebTypeFoldedPrime
<1> QED BY <1>2, <1>3, <1>4, <1>5

\* What an attachment does: session s, held by socket k from now on, is the one the page
\* asked for, or a fresh one.
AttachTo(k, s, new, more) ==
  /\ s = sockets[k].sid \/ (sockets[k].sid = NoSid /\ Fresh(s))
  /\ sessions' = [sessions EXCEPT ![s] = new]
  /\ new = IF sessions[s].exists THEN [sessions[s] EXCEPT !.ws = k, !.idle = FALSE]
           ELSE NewSession(FALSE, sockets[k].tab \in Panes, k)
  /\ sockets' = [sockets EXCEPT ![k] = [sockets[k] EXCEPT !.pc = "loop", !.sid = s]]
  /\ webLog' = [webLog EXCEPT !.raced = more]
  /\ more = IF Attached(s) # {} \/ s \in {cleanup.closing, sending.sid} THEN webLog.raced \cup {s}
            ELSE IF sessions[s].exists THEN webLog.raced ELSE webLog.raced \ {s}

LEMMA AttachTypes ==
  ASSUME WebTypeOK, PagesKnown, NEW k \in Sockets, AttachSocket(k)
  PROVE  /\ WebTypeOK' /\ PagesKnown'
         /\ sockets[k].pc = "accept" /\ UNCHANGED <<stored, cleanup, sending>>
         /\ \E s \in Sids, new \in SessionType, more \in SUBSET Sids : AttachTo(k, s, new, more)
<1>1. /\ sessions \in [Sids -> SessionType] /\ tabs \in [Tabs -> TabType]
      /\ sockets \in [Sockets -> SocketType] /\ webLog \in WebLogType
  BY WebTypeFolded
<1>2. sockets[k].pc = "accept" /\ UNCHANGED <<stored, cleanup, sending>>
  BY DEF AttachSocket
<1>3. PICK s \in Sids :
        /\ s = sockets[k].sid \/ (sockets[k].sid = NoSid /\ Fresh(s))
        /\ sessions' = [sessions EXCEPT ![s] =
             IF @.exists THEN [@ EXCEPT !.ws = k, !.idle = FALSE]
             ELSE NewSession(FALSE, sockets[k].tab \in Panes, k)]
        /\ sockets' = [sockets EXCEPT ![k].pc = "loop", ![k].sid = s]
        /\ webLog' = [webLog EXCEPT !.raced =
             IF Attached(s) # {} \/ s \in {cleanup.closing, sending.sid} THEN @ \cup {s}
             ELSE IF sessions[s].exists THEN @ ELSE @ \ {s}]
  <2>1. sockets[k].sid \in Sids \cup {NoSid}
    BY <1>1 DEF SocketType
  <2>2. (IF sockets[k].sid = NoSid THEN {f \in Sids : Fresh(f)} ELSE {sockets[k].sid}) \subseteq Sids
    BY <2>1
  <2> QED BY <2>1, <2>2 DEF AttachSocket
<1> DEFINE new == IF sessions[s].exists THEN [sessions[s] EXCEPT !.ws = k, !.idle = FALSE]
                  ELSE NewSession(FALSE, sockets[k].tab \in Panes, k)
           more == IF Attached(s) # {} \/ s \in {cleanup.closing, sending.sid} THEN webLog.raced \cup {s}
                   ELSE IF sessions[s].exists THEN webLog.raced ELSE webLog.raced \ {s}
           sock == [sockets[k] EXCEPT !.pc = "loop", !.sid = s]
<1>4. new \in SessionType
  <2>1. sessions[s] \in SessionType
    BY <1>1
  <2>2. NewSession(FALSE, sockets[k].tab \in Panes, k) \in SessionType
    BY DEF NewSession, SessionType
  <2> QED BY <2>1, <2>2 DEF SessionType
<1>5. more \in SUBSET Sids
  BY <1>1 DEF WebLogType
<1>6. sock \in SocketType /\ sock.pc = "loop" /\ sock.sid = s /\ sock.tab = sockets[k].tab
  BY <1>1 DEF SocketType
<1>7. sockets' = [sockets EXCEPT ![k] = sock]
  BY <1>1, <1>3
<1>8. sessions' = [sessions EXCEPT ![s] = new] /\ webLog' = [webLog EXCEPT !.raced = more]
  <2>1. sessions' = [sessions EXCEPT ![s] = new]
    BY <1>1, <1>3
  <2>2. webLog' = [webLog EXCEPT !.raced = more]
    BY <1>1, <1>3 DEF WebLogType
  <2> QED BY <2>1, <2>2
<1>9. AttachTo(k, s, new, more)
  BY <1>3, <1>7, <1>8 DEF AttachTo
<1> HIDE DEF new, more, sock
<1>10. /\ tabs' \in [Tabs -> TabType]
       /\ \A t \in Tabs : tabs'[t] = tabs[t] \/ tabs'[t].pc = "open"
  <2>1. tabs' = tabs \/ tabs' = [tabs EXCEPT ![sockets[k].tab].pc = "open"]
    BY DEF AttachSocket
  <2> QED BY <1>1, <2>1 DEF TabType
<1>11. WebTypeOK'
  <2>1. sessions' \in [Sids -> SessionType] /\ sockets' \in [Sockets -> SocketType]
    BY <1>1, <1>4, <1>6, <1>7, <1>8
  <2>2. webLog' \in WebLogType
    BY <1>1, <1>5, <1>8 DEF WebLogType
  <2> QED BY <1>2, <1>10, <2>1, <2>2, WebTypeFolded, WebTypeFoldedPrime
<1>12. PagesKnown'
  BY <1>1, <1>2, <1>6, <1>7, <1>10 DEF PagesKnown, Tabs
<1> QED BY <1>2, <1>4, <1>5, <1>9, <1>11, <1>12

\* A session is removed, and what relied on it counted.
RemoveAny(s) == RemoveSession(s) /\ webLog' = Slip(webLog, {s})

LEMMA RemoveTypes ==
  ASSUME WebTypeOK, NEW s, RemoveAny(s)
  PROVE  sessions' \in [Sids -> SessionType] /\ webLog' \in WebLogType /\ webLog'.raced = webLog.raced
<1>1. sessions \in [Sids -> SessionType] /\ webLog \in WebLogType
  BY WebTypeFolded
<1>2. IsFiniteSet({s})
  BY FS_Singleton
<1> QED BY <1>1, <1>2, SlipCounts, WebConstants DEF RemoveAny, RemoveSession

LEMMA ServerTypes ==
  ASSUME WebTypeOK, PagesKnown,
         \/ EndSend \/ WakeCleanup \/ CleanupRemoves
         \/ \E s \in Sids : CleanupNext(s) \/ BeginSend(s) \/ GoIdle(s) \/ SendMessageRest(s)
  PROVE  WebTypeOK' /\ PagesKnown'
<1>1. /\ sessions \in [Sids -> SessionType] /\ tabs \in [Tabs -> TabType]
      /\ sockets \in [Sockets -> SocketType] /\ webLog \in WebLogType
      /\ cleanup \in [expired : SUBSET Sids, closing : Sids \cup {NoSid}]
      /\ sending \in [sid : Sids \cup {NoSid}, ws : Sockets \cup {NoSocket}]
  BY WebTypeFolded
<1>2. CASE EndSend
  <2>1. sessions' \in [Sids -> SessionType] /\ webLog' \in WebLogType
    BY <1>1, <1>2, RemoveTypes DEF EndSend, RemoveAny
  <2>2. UNCHANGED <<tabs, stored, sockets, cleanup>> /\ sending' = NotSending
    BY <1>2 DEF EndSend
  <2> QED BY <2>1, <2>2, WebTypeFolded, WebTypeFoldedPrime DEF PagesKnown, NotSending
<1>3. CASE WakeCleanup
  <2>1. UNCHANGED <<sessions, tabs, stored, sockets, sending, webLog>>
    BY <1>3 DEF WakeCleanup
  <2>2. cleanup' \in [expired : SUBSET Sids, closing : Sids \cup {NoSid}]
    BY <1>3 DEF WakeCleanup, Sleeping
  <2> QED BY <2>1, <2>2, WebTypeFolded, WebTypeFoldedPrime DEF PagesKnown
<1>4. CASE CleanupRemoves
  <2>1. sessions' \in [Sids -> SessionType] /\ webLog' \in WebLogType
    BY <1>4, RemoveTypes DEF CleanupRemoves, RemoveAny
  <2>2. UNCHANGED <<tabs, stored, sockets, sending>>
    BY <1>4 DEF CleanupRemoves
  <2>3. cleanup' \in [expired : SUBSET Sids, closing : Sids \cup {NoSid}]
    BY <1>1, <1>4 DEF CleanupRemoves
  <2> QED BY <2>1, <2>2, <2>3, WebTypeFolded, WebTypeFoldedPrime DEF PagesKnown
<1>5. ASSUME NEW s \in Sids, CleanupNext(s) PROVE WebTypeOK' /\ PagesKnown'
  <2>1. UNCHANGED <<stored, sending>>
        /\ cleanup' \in [expired : SUBSET Sids, closing : Sids \cup {NoSid}]
    <3>1. \/ cleanup' = [cleanup EXCEPT !.expired = @ \ {s}]
          \/ cleanup' = [expired |-> cleanup.expired \ {s}, closing |-> s]
      BY <1>5 DEF CleanupNext
    <3>2. cleanup.expired \ {s} \in SUBSET Sids
      BY <1>1
    <3> QED BY <1>1, <1>5, <3>1, <3>2 DEF CleanupNext
  <2>2. CASE RemoveAny(s) /\ UNCHANGED <<tabs, sockets>>
    BY <2>1, <2>2, RemoveTypes, WebTypeFolded, WebTypeFoldedPrime DEF PagesKnown
  <2>3. CASE /\ OnClose({sessions[s].ws}) /\ UNCHANGED <<sessions, webLog>>
             /\ sockets' = [sockets EXCEPT ![sessions[s].ws].open = FALSE]
             /\ sessions[s].ws # NoSocket
    <3>1. sessions[s].ws \in Sockets
      BY <1>1, <2>3 DEF SessionType
    <3>2. /\ tabs' \in [Tabs -> TabType]
          /\ \A t \in Tabs : /\ tabs'[t].sid = tabs[t].sid
                             /\ tabs'[t].pc = tabs[t].pc \/ tabs'[t].pc = "wait"
      BY <1>1, <2>3, <3>1, OnCloseTabs
    <3>3. PICK k \in Sockets : sockets' = [sockets EXCEPT ![k].open = FALSE]
      BY <2>3, <3>1
    <3>4. /\ sockets' \in [Sockets -> SocketType]
          /\ \A j \in Sockets : /\ sockets'[j].pc = sockets[j].pc /\ sockets'[j].sid = sockets[j].sid
                                /\ sockets'[j].tab = sockets[j].tab
      BY ZenonT(30), <1>1, <3>3 DEF SocketType
    <3>5. PagesKnown'
      BY <3>2, <3>4 DEF PagesKnown, Tabs
    <3> QED BY <2>1, <2>3, <3>2, <3>4, <3>5, WebTypeFolded, WebTypeFoldedPrime
  <2> QED BY <1>5, <2>2, <2>3 DEF CleanupNext, RemoveAny
<1>6. ASSUME NEW s \in Sids, BeginSend(s) PROVE WebTypeOK' /\ PagesKnown'
  <2>1. UNCHANGED <<sessions, tabs, stored, sockets, cleanup>>
    BY <1>6 DEF BeginSend
  <2>2. webLog' \in WebLogType
    BY <1>1, <1>6 DEF BeginSend, WebLogType
  <2>3. sending' \in [sid : Sids \cup {NoSid}, ws : Sockets \cup {NoSocket}]
    BY <1>1, <1>6 DEF BeginSend, SessionType
  <2> QED BY <2>1, <2>2, <2>3, WebTypeFolded, WebTypeFoldedPrime DEF PagesKnown
<1>7. ASSUME NEW s \in Sids, GoIdle(s) \/ SendMessageRest(s) PROVE WebTypeOK' /\ PagesKnown'
  <2>0. PICK b \in BOOLEAN : sessions' = [sessions EXCEPT ![s].idle = b]
    BY <1>7 DEF GoIdle, SendMessageRest
  <2>1. UNCHANGED <<tabs, stored, sockets, cleanup, sending>>
    BY <1>7 DEF GoIdle, SendMessageRest
  <2>2. webLog' \in WebLogType
    BY <1>1, <1>7 DEF GoIdle, SendMessageRest, WebLogType
  <2>3. sessions' \in [Sids -> SessionType]
    <3>1. [sessions[s] EXCEPT !.idle = b] \in SessionType
      BY <1>1 DEF SessionType
    <3>2. sessions' = [sessions EXCEPT ![s] = [sessions[s] EXCEPT !.idle = b]]
      BY <1>1, <1>7, <2>0 DEF SessionType
    <3> QED BY <1>1, <3>1, <3>2
  <2> QED BY <2>1, <2>2, <2>3, WebTypeFolded, WebTypeFoldedPrime DEF PagesKnown
<1> QED BY <1>2, <1>3, <1>4, <1>5, <1>6, <1>7

\* A restart slips for every session a pane relied on, and knows no race.
RestartLog(log) == /\ webLog'.raced = {} /\ webLog'.slips = Slip(log, Sids).slips

LEMMA RestartTypes ==
  ASSUME WebTypeOK, PagesKnown, RestartWebchat
  PROVE  /\ WebTypeOK' /\ PagesKnown' /\ RestartLog(webLog)
         /\ \A t \in Tabs : /\ tabs'[t].sid = tabs[t].sid
                            /\ tabs'[t].pc = tabs[t].pc \/ tabs'[t].pc = "wait"
<1>1. tabs \in [Tabs -> TabType] /\ webLog \in WebLogType
  BY WebTypeFolded
<1>2. Slip(webLog, Sids) \in WebLogType
  BY <1>1, SlipCounts, WebConstants
<1> DEFINE log == [Slip(webLog, Sids) EXCEPT !.raced = {}]
<1>3. log \in WebLogType /\ log.raced = {} /\ log.slips = Slip(webLog, Sids).slips
  BY <1>2 DEF WebLogType
<1>4. Faulty(log)
  BY DEF RestartWebchat
<1> HIDE DEF log
<1>5. webLog' \in WebLogType /\ RestartLog(webLog)
  BY <1>1, <1>3, <1>4, FaultyLogs DEF RestartLog
<1>6. /\ tabs' \in [Tabs -> TabType]
      /\ \A t \in Tabs : /\ tabs'[t].sid = tabs[t].sid
                         /\ tabs'[t].pc = tabs[t].pc \/ tabs'[t].pc = "wait"
  BY <1>1, OnCloseTabs DEF RestartWebchat
<1>7. /\ sessions' = [s \in Sids |-> NoSession] /\ sockets' = [k \in Sockets |-> FreeSocket]
      /\ cleanup' = Sleeping /\ sending' = NotSending /\ UNCHANGED stored
  BY DEF RestartWebchat
<1>8. sessions' \in [Sids -> SessionType] /\ sockets' \in [Sockets -> SocketType]
  BY <1>7, WebConstants
<1>9. cleanup' \in [expired : SUBSET Sids, closing : Sids \cup {NoSid}]
  BY <1>7 DEF Sleeping
<1>10. sending' \in [sid : Sids \cup {NoSid}, ws : Sockets \cup {NoSocket}]
  BY <1>7 DEF NotSending
<1>11. PagesKnown'
  BY <1>6, <1>7, WebConstants DEF PagesKnown, Tabs
<1> QED BY <1>5, <1>6, <1>7, <1>8, <1>9, <1>10, <1>11, WebTypeFolded, WebTypeFoldedPrime

-----------------------------------------------------------------------------
(* Live sockets are served.                                                  *)

\* A step that leaves what sessions hold, who serves them, the log of races, the send and
\* the close alone, and opens no serving socket again.
LEMMA ServeRests ==
  ASSUME ServeInv, PagesKnown,
         \A s \in Sids : sessions'[s].exists = sessions[s].exists /\ sessions'[s].ws = sessions[s].ws,
         \A k \in Sockets :
           /\ (sockets'[k].pc = "loop") <=> (sockets[k].pc = "loop")
           /\ sockets[k].pc = "loop" => /\ sockets'[k].sid = sockets[k].sid
                                        /\ sockets'[k].open => sockets[k].open,
         sending' = sending, cleanup'.closing = cleanup.closing, webLog'.raced = webLog.raced
  PROVE  ServeInv'
<1>1. \A k, s : k \in Sockets => (On(k, s)' <=> On(k, s))
  BY DEF On
<1>2. \A k, s : k \in Sockets /\ LiveOn(k, s)' => LiveOn(k, s)
  BY DEF On, LiveOn
<1>3. HeldSockets'
  BY <1>1 DEF ServeInv, HeldSockets
<1>4. OneHandler'
  BY <1>1 DEF ServeInv, OneHandler
<1>5. SendsToLive' /\ ClosesLast'
  BY <1>2 DEF ServeInv, SendsToLive, ClosesLast
<1>6. LiveSocketsServed'
  BY DEF ServeInv, LiveSocketsServed, PagesKnown
<1> QED BY <1>3, <1>4, <1>5, <1>6 DEF ServeInv

\* A session without a live socket, or one that races overtook, may go.
LEMMA RemoveServe ==
  ASSUME ServeInv, PagesKnown, WebTypeOK, NEW s,
         sessions' = [sessions EXCEPT ![s] = NoSession],
         s \notin webLog.raced => \A k \in Sockets : ~LiveOn(k, s),
         UNCHANGED sockets, sending' \in {sending, NotSending},
         cleanup'.closing \in {cleanup.closing, NoSid}, webLog'.raced = webLog.raced
  PROVE  ServeInv'
<1>1. sessions \in [Sids -> SessionType]
  BY WebTypeFolded
<1>2. \A k, x : k \in Sockets => (On(k, x)' <=> On(k, x)) /\ (LiveOn(k, x)' <=> LiveOn(k, x))
  BY DEF On, LiveOn
<1>3. \A x \in Sids : sessions'[x] = IF x = s THEN NoSession ELSE sessions[x]
  BY <1>1
<1>4. \A k \in Sockets : ~LiveOn(k, NoSid)
  BY WebConstants DEF LiveOn, On, PagesKnown
<1>5. HeldSockets'
  BY <1>2, <1>3, WebConstants DEF ServeInv, HeldSockets
<1>6. OneHandler'
  BY <1>2 DEF ServeInv, OneHandler
<1>7. SendsToLive' /\ ClosesLast'
  BY <1>2, <1>4 DEF ServeInv, SendsToLive, ClosesLast, NotSending
<1>8. LiveSocketsServed'
  BY <1>3 DEF ServeInv, LiveSocketsServed, LiveOn, On, PagesKnown
<1> QED BY <1>5, <1>6, <1>7, <1>8 DEF ServeInv

\* The page's steps but the creation of a session.
LEMMA PageServe ==
  ASSUME ServeInv, PagesKnown, WebTypeOK, NEW t \in Tabs, Page(t) \/ CheckSessionFails(t)
  PROVE  ServeInv'
<1>1. sessions \in [Sids -> SessionType] /\ sockets \in [Sockets -> SocketType] /\ webLog \in WebLogType
  BY WebTypeFolded
<1>2. CASE TimerFires(t) \/ CheckSession(t)
  <2>1. UNCHANGED <<sessions, sockets, sending, cleanup, webLog>>
    BY <1>2 DEF TimerFires, CheckSession, Known
  <2> QED BY <2>1, ServeRests
<1>3. CASE CheckSessionFails(t)
  <2>1. UNCHANGED <<sessions, sockets, sending, cleanup>>
    BY <1>3 DEF CheckSessionFails
  <2>2. webLog'.raced = webLog.raced
    <3>1. /\ [webLog EXCEPT !.slips = @ + 1] \in WebLogType
          /\ [webLog EXCEPT !.slips = @ + 1].raced = webLog.raced
      BY <1>1 DEF WebLogType
    <3> QED BY <1>1, <1>3, <3>1, FaultyLogs DEF CheckSessionFails
  <2> QED BY <2>1, <2>2, ServeRests
<1>4. ASSUME NEW s \in Sids, CreateSession(t, s) PROVE ServeInv'
  <2>1. /\ sessions' = [sessions EXCEPT ![s] = NewSession(TRUE, FALSE, NoSocket)]
        /\ webLog' = [webLog EXCEPT !.raced = @ \ {s}]
        /\ UNCHANGED <<sockets, cleanup, sending>>
    BY <1>4 DEF CreateSession
  <2>2. /\ s # cleanup.closing /\ s # sending.sid
        /\ \A k \in Sockets : sockets[k].sid # s
    BY <1>4 DEF CreateSession, Fresh
  <2>3. webLog'.raced = webLog.raced \ {s}
    BY <1>1, <2>1 DEF WebLogType
  <2>4. \A k, x : k \in Sockets => (On(k, x)' <=> On(k, x)) /\ (LiveOn(k, x)' <=> LiveOn(k, x))
    BY <2>1 DEF On, LiveOn
  <2>5. \A k \in Sockets : ~On(k, s)
    BY <2>2 DEF On
  <2>6. \A x \in Sids : IF x = s THEN sessions'[x].ws = NoSocket ELSE sessions'[x] = sessions[x]
    BY <1>1, <2>1 DEF NewSession
  <2>7. HeldSockets'
    BY <2>4, <2>6, WebConstants DEF ServeInv, HeldSockets
  <2>8. OneHandler'
    BY <2>3, <2>4, <2>5 DEF ServeInv, OneHandler
  <2>9. SendsToLive' /\ ClosesLast'
    BY <2>1, <2>2, <2>3, <2>4 DEF ServeInv, SendsToLive, ClosesLast
  <2>10. LiveSocketsServed'
    <3> SUFFICES ASSUME NEW j \in Sockets, sockets'[j].pc = "loop", sockets'[j].open,
                        sockets'[j].sid \notin webLog'.raced
                 PROVE  sessions'[sockets'[j].sid].exists /\ sessions'[sockets'[j].sid].ws = j
      BY DEF LiveSocketsServed
    <3>1. sockets' = sockets /\ sockets[j].sid \in Sids \ {s}
      BY <2>1, <2>2 DEF PagesKnown
    <3>2. sessions[sockets[j].sid].exists /\ sessions[sockets[j].sid].ws = j
      BY <2>3, <3>1 DEF ServeInv, LiveSocketsServed
    <3> QED BY <2>6, <3>1, <3>2
  <2> QED BY <2>7, <2>8, <2>9, <2>10 DEF ServeInv
<1>5. ASSUME NEW k \in Sockets, OpenSocket(t, k) PROVE ServeInv'
  <2>1. UNCHANGED <<sessions, cleanup, sending, webLog>>
    BY <1>5 DEF OpenSocket
  <2>2. \A j \in Sockets : IF j = k THEN sockets[j].pc = "free" /\ sockets'[j].pc = "accept"
                                    ELSE sockets'[j] = sockets[j]
    BY <1>1, <1>5 DEF OpenSocket
  <2> QED BY <2>1, <2>2, ServeRests
<1> QED BY <1>2, <1>3, <1>4, <1>5 DEF Page

\* An attachment that finds the session alone leaves it with the new socket; any other is
\* logged as a race.
LEMMA AttachServe ==
  ASSUME ServeInv, PagesKnown, WebTypeOK, NEW k \in Sockets, AttachSocket(k)
  PROVE  ServeInv'
<1>1. sessions \in [Sids -> SessionType] /\ sockets \in [Sockets -> SocketType] /\ webLog \in WebLogType
  BY WebTypeFolded
<1>2. PICK s \in Sids, new \in SessionType, more \in SUBSET Sids : AttachTo(k, s, new, more)
  BY AttachTypes
<1>3. sockets[k].pc = "accept" /\ UNCHANGED <<cleanup, sending>>
  BY AttachTypes
<1>4. /\ sessions' = [sessions EXCEPT ![s] = new]
      /\ sockets' = [sockets EXCEPT ![k] = [sockets[k] EXCEPT !.pc = "loop", !.sid = s]]
      /\ webLog'.raced = more
      /\ more = IF Attached(s) # {} \/ s \in {cleanup.closing, sending.sid} THEN webLog.raced \cup {s}
                ELSE IF sessions[s].exists THEN webLog.raced ELSE webLog.raced \ {s}
  BY <1>1, <1>2 DEF AttachTo, WebLogType
<1>5. new.exists /\ new.ws = k
  BY <1>1, <1>2 DEF AttachTo, NewSession, SessionType
<1>6. \A x \in Sids : sessions'[x] = IF x = s THEN new ELSE sessions[x]
  BY <1>1, <1>4
<1>7. \A j \in Sockets : IF j = k THEN sockets'[j].pc = "loop" /\ sockets'[j].sid = s
                                  ELSE sockets'[j] = sockets[j]
  BY <1>1, <1>4 DEF SocketType
<1>8. \A x : ~On(k, x)
  BY <1>3 DEF On
<1>9. \A j, x : j \in Sockets => /\ On(j, x)' <=> (IF j = k THEN x = s ELSE On(j, x))
                                 /\ j # k => (LiveOn(j, x)' <=> LiveOn(j, x))
  BY <1>7 DEF On, LiveOn
<1>10. Attached(s) = {j \in Sockets : On(j, s)}
  BY DEF Attached, On
<1>11. /\ \A x \in Sids \ {s} : x \in more <=> x \in webLog.raced
       /\ s \notin more => /\ \A j \in Sockets : ~On(j, s)
                           /\ s # cleanup.closing /\ s # sending.sid
  BY <1>4, <1>10
<1>12. HeldSockets'
  BY <1>5, <1>6, <1>8, <1>9 DEF ServeInv, HeldSockets
<1>13. OneHandler'
  BY <1>4, <1>9, <1>11 DEF ServeInv, OneHandler
<1>a. \A j, x : j \in Sockets /\ x # s /\ LiveOn(j, x)' => LiveOn(j, x)
  <2>1. \A j, x : j \in Sockets /\ x # s /\ On(j, x)' => j # k
    BY <1>9
  <2> QED BY <1>9, <2>1 DEF LiveOn
<1>14. SendsToLive'
  <2>1. CASE sending.sid = s
    BY <1>3, <1>4, <1>11, <2>1 DEF SendsToLive
  <2>2. CASE sending.sid # s
    <3>1. \A j \in Sockets : LiveOn(j, sending.sid)' => LiveOn(j, sending.sid)
      BY <1>3, <1>a, <2>2
    <3>2. sending.sid \in webLog.raced => sending.sid \in more
      BY <1>1, <1>11, <2>2 DEF WebLogType
    <3> QED BY <1>3, <1>4, <3>1, <3>2 DEF ServeInv, SendsToLive
  <2> QED BY <2>1, <2>2
<1>15. ClosesLast'
  <2>1. CASE cleanup.closing = s
    BY <1>3, <1>4, <1>11, <2>1 DEF ClosesLast
  <2>2. CASE cleanup.closing # s
    <3>1. \A j \in Sockets : LiveOn(j, cleanup.closing)' => LiveOn(j, cleanup.closing)
      BY <1>3, <1>a, <2>2
    <3>2. cleanup.closing \in webLog.raced => cleanup.closing \in more
      BY <1>1, <1>11, <2>2 DEF WebLogType
    <3> QED BY <1>3, <1>4, <3>1, <3>2 DEF ServeInv, ClosesLast
  <2> QED BY <2>1, <2>2
<1>16. LiveSocketsServed'
  <2> SUFFICES ASSUME NEW j \in Sockets, sockets'[j].pc = "loop", sockets'[j].open,
                      sockets'[j].sid \notin webLog'.raced
               PROVE  sessions'[sockets'[j].sid].exists /\ sessions'[sockets'[j].sid].ws = j
    BY DEF LiveSocketsServed
  <2>1. CASE j = k
    BY <1>5, <1>6, <1>7, <2>1
  <2>2. CASE j # k
    <3>1. sockets'[j] = sockets[j] /\ On(j, sockets[j].sid) /\ sockets[j].sid \in Sids
      BY <1>7, <2>2 DEF On, PagesKnown
    <3>2. sockets[j].sid # s
      BY <1>4, <1>11, <3>1
    <3>3. sockets[j].sid \notin webLog.raced
      BY <1>4, <1>11, <3>1, <3>2
    <3>4. sessions[sockets[j].sid].exists /\ sessions[sockets[j].sid].ws = j
      BY <3>1, <3>3 DEF ServeInv, LiveSocketsServed
    <3> QED BY <1>6, <3>1, <3>2, <3>4
  <2> QED BY <2>1, <2>2
<1> QED BY <1>12, <1>13, <1>14, <1>15, <1>16 DEF ServeInv

\* What comes over a socket, and the end of its handler.
LEMMA SocketServe ==
  ASSUME ServeInv, PagesKnown, WebTypeOK, NEW k \in Sockets,
         ReceiveSession(k) \/ LoseSocket(k) \/ MessageIn(k) \/ EndHandler(k)
  PROVE  ServeInv'
<1>1. sessions \in [Sids -> SessionType] /\ sockets \in [Sockets -> SocketType] /\ webLog \in WebLogType
  BY WebTypeFolded
<1>2. CASE ReceiveSession(k)
  <2>1. UNCHANGED <<sessions, sockets, sending, cleanup, webLog>>
    BY <1>2 DEF ReceiveSession
  <2> QED BY <2>1, ServeRests
<1>3. CASE LoseSocket(k)
  <2>1. /\ sockets' = [sockets EXCEPT ![k].open = FALSE]
        /\ UNCHANGED <<sessions, sending, cleanup>> /\ webLog'.raced = webLog.raced
    BY <1>1, <1>3, FaultyLogs DEF LoseSocket
  <2>2. \A j \in Sockets : /\ sockets'[j].pc = sockets[j].pc /\ sockets'[j].sid = sockets[j].sid
                           /\ sockets'[j].open => sockets[j].open
    BY <1>1, <2>1 DEF SocketType
  <2> QED BY <2>1, <2>2, ServeRests
<1>4. CASE MessageIn(k)
  <2>1. \A s \in Sids : sessions'[s].exists = sessions[s].exists /\ sessions'[s].ws = sessions[s].ws
    BY <1>1, <1>4 DEF MessageIn, SessionType
  <2>2. UNCHANGED <<sockets, sending, cleanup, webLog>>
    BY <1>4 DEF MessageIn
  <2> QED BY <2>1, <2>2, ServeRests
<1>5. CASE EndHandler(k)
  <2> DEFINE s == sockets[k].sid
  <2>1. /\ sockets[k].pc = "loop" /\ ~sockets[k].open
        /\ sessions' = [sessions EXCEPT ![s].ws = NoSocket]
        /\ sockets' = [sockets EXCEPT ![k] = FreeSocket]
        /\ UNCHANGED <<cleanup, sending, webLog>>
    BY <1>5 DEF EndHandler
  <2>2. On(k, s) /\ s \in Sids
    BY <2>1 DEF On, PagesKnown
  <2> HIDE DEF s
  <2>3. \A j \in Sockets : IF j = k THEN sockets'[j].pc = "free" ELSE sockets'[j] = sockets[j]
    BY <1>1, <2>1, WebConstants
  <2>4. \A j, x : j \in Sockets => /\ On(j, x)' => (On(j, x) /\ j # k)
                                   /\ (j # k /\ On(j, x)) => On(j, x)'
                                   /\ LiveOn(j, x)' => LiveOn(j, x)
    BY <2>3 DEF On, LiveOn
  <2>5. \A x \in Sids : IF x = s THEN sessions'[x].ws = NoSocket ELSE sessions'[x] = sessions[x]
    BY <1>1, <2>1 DEF SessionType
  <2>6. HeldSockets'
    <3> SUFFICES ASSUME NEW x \in Sids, NEW j \in Sockets, sessions'[x].ws = j PROVE On(j, x)'
      BY DEF HeldSockets
    <3>1. x # s /\ sessions[x].ws = j
      BY <2>5, WebConstants
    <3>2. On(j, x)
      BY <3>1 DEF ServeInv, HeldSockets
    <3>3. j # k
      BY <2>2, <3>1, <3>2 DEF On
    <3> QED BY <2>4, <3>2, <3>3
  <2>7. OneHandler'
    BY <2>1, <2>4 DEF ServeInv, OneHandler
  <2>8. SendsToLive' /\ ClosesLast'
    BY <2>1, <2>4 DEF ServeInv, SendsToLive, ClosesLast
  <2>9. LiveSocketsServed'
    <3> SUFFICES ASSUME NEW j \in Sockets, sockets'[j].pc = "loop", sockets'[j].open,
                        sockets'[j].sid \notin webLog'.raced
                 PROVE  sessions'[sockets'[j].sid].exists /\ sessions'[sockets'[j].sid].ws = j
      BY DEF LiveSocketsServed
    <3>1. j # k /\ sockets'[j] = sockets[j] /\ On(j, sockets[j].sid) /\ sockets[j].sid \in Sids
      BY <2>3 DEF On, PagesKnown
    <3>2. sockets[j].sid # s
      BY <2>1, <2>2, <3>1 DEF ServeInv, OneHandler
    <3> QED BY <2>1, <2>5, <3>1, <3>2 DEF ServeInv, LiveSocketsServed
  <2> QED BY <2>6, <2>7, <2>8, <2>9 DEF ServeInv
<1> QED BY <1>2, <1>3, <1>4, <1>5

\* Replies, idle sessions and their removal.
LEMMA ServerServe ==
  ASSUME ServeInv, PagesKnown, WebTypeOK,
         \/ EndSend \/ WakeCleanup \/ CleanupRemoves
         \/ \E s \in Sids : CleanupNext(s) \/ BeginSend(s) \/ GoIdle(s) \/ SendMessageRest(s)
  PROVE  ServeInv'
<1>1. /\ sessions \in [Sids -> SessionType] /\ sockets \in [Sockets -> SocketType] /\ webLog \in WebLogType
      /\ cleanup \in [expired : SUBSET Sids, closing : Sids \cup {NoSid}]
  BY WebTypeFolded
<1>2. CASE EndSend
  <2>1. UNCHANGED <<sockets, cleanup>> /\ sending' = NotSending
    BY <1>2 DEF EndSend
  <2>2. CASE UNCHANGED <<sessions, webLog>>
    <3>1. \A k, x : k \in Sockets => (On(k, x)' <=> On(k, x)) /\ (LiveOn(k, x)' <=> LiveOn(k, x))
      BY <2>1 DEF On, LiveOn
    <3>2. \A k \in Sockets : ~LiveOn(k, NoSid)
      BY WebConstants DEF LiveOn, On, PagesKnown
    <3>3. HeldSockets' /\ OneHandler' /\ ClosesLast'
      BY <2>1, <2>2, <3>1 DEF ServeInv, HeldSockets, OneHandler, ClosesLast
    <3>4. SendsToLive'
      BY <2>1, <3>1, <3>2 DEF SendsToLive, NotSending
    <3>5. LiveSocketsServed'
      BY <2>1, <2>2 DEF ServeInv, LiveSocketsServed
    <3> QED BY <3>3, <3>4, <3>5 DEF ServeInv
  <2>3. CASE RemoveAny(sending.sid) /\ ~sockets[sending.ws].open
    <3>1. sending.sid \notin webLog.raced => \A k \in Sockets : ~LiveOn(k, sending.sid)
      BY <2>3 DEF ServeInv, SendsToLive, LiveOn
    <3>2. webLog'.raced = webLog.raced
      BY <2>3, RemoveTypes
    <3> QED BY <2>1, <2>3, <3>1, <3>2, RemoveServe DEF RemoveAny, RemoveSession
  <2> QED BY <1>2, <2>2, <2>3 DEF EndSend, RemoveAny
<1>3. CASE WakeCleanup
  <2>1. UNCHANGED <<sessions, sockets, sending, webLog>> /\ cleanup'.closing = cleanup.closing
    BY <1>3 DEF WakeCleanup, Sleeping
  <2> QED BY <2>1, ServeRests
<1>4. CASE CleanupRemoves
  <2>1. RemoveAny(cleanup.closing) /\ UNCHANGED <<sockets, sending>>
    BY <1>4 DEF CleanupRemoves, RemoveAny
  <2>2. cleanup'.closing = NoSid
    BY <1>1, <1>4 DEF CleanupRemoves
  <2>3. webLog'.raced = webLog.raced
    BY <2>1, RemoveTypes
  <2> QED BY <2>1, <2>2, <2>3, RemoveServe DEF RemoveAny, RemoveSession, ServeInv, ClosesLast
<1>5. ASSUME NEW s \in Sids, CleanupNext(s) PROVE ServeInv'
  <2>1. CASE sessions[s].ws = NoSocket
    <3>1. RemoveAny(s) /\ UNCHANGED <<sockets, sending>> /\ cleanup'.closing = cleanup.closing
      BY <1>1, <1>5, <2>1 DEF CleanupNext, RemoveAny
    <3>2. s \notin webLog.raced => \A k \in Sockets : ~LiveOn(k, s)
      BY <2>1, WebConstants DEF ServeInv, LiveSocketsServed, LiveOn, On
    <3>3. webLog'.raced = webLog.raced
      BY <3>1, RemoveTypes
    <3> QED BY <3>1, <3>2, <3>3, RemoveServe DEF RemoveAny, RemoveSession
  <2>2. CASE sessions[s].ws # NoSocket
    <3>1. PICK k \in Sockets : k = sessions[s].ws /\ sockets' = [sockets EXCEPT ![k].open = FALSE]
      BY <1>1, <1>5, <2>2 DEF CleanupNext, SessionType
    <3>2. UNCHANGED <<sessions, webLog, sending>> /\ cleanup'.closing = s
      BY <1>5, <2>2 DEF CleanupNext
    <3>3. \A j \in Sockets : /\ sockets'[j].pc = sockets[j].pc /\ sockets'[j].sid = sockets[j].sid
                             /\ sockets'[j].open => sockets[j].open /\ j # k
      BY <1>1, <3>1 DEF SocketType
    <3>4. \A j, x : j \in Sockets => /\ On(j, x)' <=> On(j, x)
                                     /\ LiveOn(j, x)' => (LiveOn(j, x) /\ j # k)
      BY <3>3 DEF On, LiveOn
    <3>5. HeldSockets' /\ OneHandler' /\ SendsToLive'
      BY <3>2, <3>4 DEF ServeInv, HeldSockets, OneHandler, SendsToLive
    <3>6. LiveSocketsServed'
      BY <3>2, <3>3 DEF ServeInv, LiveSocketsServed
    <3>7. ClosesLast'
      <4> SUFFICES ASSUME s \notin webLog.raced, NEW j \in Sockets, LiveOn(j, s)' PROVE FALSE
        BY <3>2 DEF ClosesLast
      <4>1. LiveOn(j, s) /\ j # k
        BY <3>4
      <4> QED BY <3>1, <4>1 DEF ServeInv, LiveSocketsServed, LiveOn, On
    <3> QED BY <3>5, <3>6, <3>7 DEF ServeInv
  <2> QED BY <2>1, <2>2
<1>6. ASSUME NEW s \in Sids, BeginSend(s) PROVE ServeInv'
  <2>1. /\ UNCHANGED <<sessions, sockets, cleanup>> /\ sending' = [sid |-> s, ws |-> sessions[s].ws]
        /\ webLog'.raced = webLog.raced
    BY <1>1, <1>6 DEF BeginSend, WebLogType
  <2>2. \A k, x : k \in Sockets => (On(k, x)' <=> On(k, x)) /\ (LiveOn(k, x)' <=> LiveOn(k, x))
    BY <2>1 DEF On, LiveOn
  <2>3. HeldSockets' /\ OneHandler' /\ ClosesLast'
    BY <2>1, <2>2 DEF ServeInv, HeldSockets, OneHandler, ClosesLast
  <2>4. SendsToLive'
    <3> SUFFICES ASSUME s \notin webLog.raced, NEW k \in Sockets, LiveOn(k, s) PROVE sessions[s].ws = k
      BY <2>1, <2>2 DEF SendsToLive
    <3> QED BY DEF ServeInv, LiveSocketsServed, LiveOn, On
  <2>5. LiveSocketsServed'
    BY <2>1 DEF ServeInv, LiveSocketsServed
  <2> QED BY <2>3, <2>4, <2>5 DEF ServeInv
<1>7. ASSUME NEW s \in Sids, GoIdle(s) \/ SendMessageRest(s) PROVE ServeInv'
  <2>0. PICK b \in BOOLEAN : sessions' = [sessions EXCEPT ![s].idle = b]
    BY <1>7 DEF GoIdle, SendMessageRest
  <2>1. UNCHANGED <<sockets, sending, cleanup>> /\ webLog'.raced = webLog.raced
    BY <1>1, <1>7 DEF GoIdle, SendMessageRest, WebLogType
  <2>2. \A x \in Sids : sessions'[x].exists = sessions[x].exists /\ sessions'[x].ws = sessions[x].ws
    <3>1. sessions' = [sessions EXCEPT ![s] = [sessions[s] EXCEPT !.idle = b]]
      BY <1>1, <1>7, <2>0 DEF SessionType
    <3>2. /\ [sessions[s] EXCEPT !.idle = b].exists = sessions[s].exists
          /\ [sessions[s] EXCEPT !.idle = b].ws = sessions[s].ws
      BY <1>1 DEF SessionType
    <3> QED BY <1>1, <3>1, <3>2
  <2> QED BY <2>1, <2>2, ServeRests
<1> QED BY <1>2, <1>3, <1>4, <1>5, <1>6, <1>7

\* After a restart nothing is held and nobody serves.
LEMMA RestartServe ==
  ASSUME RestartWebchat
  PROVE  ServeInv'
<1>1. /\ \A s \in Sids : sessions'[s] = NoSession
      /\ \A k \in Sockets : sockets'[k] = FreeSocket
  BY DEF RestartWebchat
<1>2. \A k, x : k \in Sockets => ~On(k, x)' /\ ~LiveOn(k, x)'
  BY <1>1, WebConstants DEF On, LiveOn
<1>3. HeldSockets' /\ OneHandler' /\ SendsToLive' /\ ClosesLast'
  BY <1>1, <1>2, WebConstants DEF HeldSockets, OneHandler, SendsToLive, ClosesLast
<1>4. LiveSocketsServed'
  BY <1>1, WebConstants DEF LiveSocketsServed
<1> QED BY <1>3, <1>4 DEF ServeInv

-----------------------------------------------------------------------------
(* Lost agents are slips.                                                    *)

\* At risk after a step are sessions that were, and at most as many more as have slipped.
LEMMA RiskGrows ==
  ASSUME RiskCounted, WebTypeOK, NEW n \in Nat, NEW new \in SUBSET Sids,
         Cardinality(new) <= n, webLog'.slips = webLog.slips + n, AtRisk' \subseteq AtRisk \cup new
  PROVE  RiskCounted'
<1>1. IsFiniteSet(Sids) /\ webLog.slips \in Nat
  BY WebConstants, WebTypeFolded DEF WebLogType
<1>2. IsFiniteSet(AtRisk) /\ IsFiniteSet(new)
  BY <1>1, FS_Subset DEF AtRisk
<1>3. IsFiniteSet(AtRisk \cup new)
  BY <1>2, FS_Union
<1>4. Cardinality(AtRisk') <= Cardinality(AtRisk \cup new)
  BY <1>3, FS_Subset
<1>5. Cardinality(AtRisk \cup new) = Cardinality(AtRisk) + Cardinality(new) - Cardinality(AtRisk \cap new)
  BY <1>2, FS_Union
<1>6. IsFiniteSet(AtRisk \cap new) /\ IsFiniteSet(AtRisk')
  BY <1>2, <1>3, FS_Subset
<1>7. /\ Cardinality(AtRisk) \in Nat /\ Cardinality(new) \in Nat /\ Cardinality(AtRisk') \in Nat
      /\ Cardinality(AtRisk \cup new) \in Nat /\ Cardinality(AtRisk \cap new) \in Nat
  BY <1>2, <1>3, <1>6, FS_CardinalityType
<1> DEFINE a == Cardinality(AtRisk)
           b == Cardinality(new)
           c == Cardinality(AtRisk \cap new)
           u == Cardinality(AtRisk \cup new)
           z == Cardinality(AtRisk')
<1>8. /\ a \in Nat /\ b \in Nat /\ c \in Nat /\ u \in Nat /\ z \in Nat /\ z <= u /\ u = a + b - c
      /\ a <= webLog.slips /\ b <= n
  BY <1>4, <1>5, <1>7 DEF RiskCounted
<1> HIDE DEF a, b, c, u
<1>9. z <= webLog.slips + n
  BY <1>1, <1>8
<1> QED BY <1>9 DEF RiskCounted

LEMMA RiskRests ==
  ASSUME RiskCounted, WebTypeOK, webLog'.slips = webLog.slips, AtRisk' \subseteq AtRisk
  PROVE  RiskCounted'
<1>1. Cardinality({}) = 0 /\ webLog.slips \in Nat
  BY FS_EmptySet, WebTypeFolded DEF WebLogType
<1> QED BY <1>1, RiskGrows

\* Sessions that were not at risk and have not slipped are not at risk: with the sessions
\* as they were, a risk needs a pane that newly relies on a session that is gone.
LEMMA RiskKept ==
  ASSUME \A s \in Sids : sessions'[s].lost = sessions[s].lost /\ sessions'[s].exists = sessions[s].exists,
         \A s \in Sids : ~sessions[s].exists /\ PaneRelies(s)' => PaneRelies(s)
  PROVE  AtRisk' \subseteq AtRisk
BY DEF AtRisk

\* Pages that keep their session or stop connecting rely on nothing new.
LEMMA ReliesKept ==
  ASSUME \A t \in Panes : tabs'[t].pc = "connect" => tabs[t].pc = "connect" /\ tabs'[t].sid = tabs[t].sid,
         \A k \in Sockets : sockets'[k].pc = "accept" =>
           /\ sockets[k].pc = "accept" /\ sockets'[k].sid = sockets[k].sid
           /\ sockets'[k].tab = sockets[k].tab,
         NEW s, PaneRelies(s)'
  PROVE  PaneRelies(s)
BY DEF PaneRelies

LEMMA PageRisk ==
  ASSUME RiskCounted, WebTypeOK, PagesKnown, NEW t \in Tabs, Page(t) \/ CheckSessionFails(t)
  PROVE  RiskCounted'
<1>1. /\ sessions \in [Sids -> SessionType] /\ tabs \in [Tabs -> TabType]
      /\ sockets \in [Sockets -> SocketType] /\ webLog \in WebLogType
  BY WebTypeFolded
<1>2. Panes \subseteq Tabs /\ Panes \cap Widgets = {}
  BY WebAssumption DEF Tabs
<1>3. CASE TimerFires(t)
  <2>1. UNCHANGED <<sessions, sockets, webLog>>
    BY <1>3 DEF TimerFires
  <2>2. \A p \in Panes : tabs'[p] = tabs[p] \/ tabs'[p].pc # "connect"
    BY <1>1, <1>2, <1>3 DEF TimerFires
  <2> QED BY <2>1, <2>2, ReliesKept, RiskKept, RiskRests
<1>4. CASE CheckSession(t)
  <2>1. UNCHANGED <<sessions, sockets, webLog>>
    BY <1>4 DEF CheckSession, Known
  <2>2. \A p \in Panes : tabs'[p] = tabs[p] \/ tabs'[p].pc # "connect"
                         \/ (sessions[tabs'[p].sid].exists /\ tabs'[p].pc = "connect")
    BY <1>1, <1>2, <1>4 DEF CheckSession, Known, TabType
  <2>3. \A s \in Sids : ~sessions[s].exists /\ PaneRelies(s)' => PaneRelies(s)
    BY <2>1, <2>2 DEF PaneRelies
  <2> QED BY <2>1, <2>3, RiskKept, RiskRests
<1>5. CASE CheckSessionFails(t)
  <2> DEFINE new == {tabs[t].sid} \cap Sids
  <2>1. UNCHANGED <<sessions, sockets>> /\ tabs' = [tabs EXCEPT ![t].pc = "connect"]
    BY <1>5 DEF CheckSessionFails
  <2>2. webLog'.slips = webLog.slips + 1
    <3>1. /\ [webLog EXCEPT !.slips = @ + 1] \in WebLogType
          /\ [webLog EXCEPT !.slips = @ + 1].slips = webLog.slips + 1
      BY <1>1 DEF WebLogType
    <3> QED BY <1>1, <1>5, <3>1, FaultyLogs DEF CheckSessionFails
  <2>3. \A p \in Tabs : /\ tabs'[p].sid = tabs[p].sid /\ p # t => tabs'[p] = tabs[p]
    BY <1>1, <2>1 DEF TabType
  <2>4. \A s \in Sids : PaneRelies(s)' => PaneRelies(s) \/ s \in new
    BY <1>2, <2>1, <2>3 DEF PaneRelies
  <2>5. AtRisk' \subseteq AtRisk \cup new
    BY <2>1, <2>4 DEF AtRisk
  <2>6. Cardinality(new) <= 1
    <3>1. CASE new = {}
      BY <3>1, FS_EmptySet
    <3>2. CASE new = {tabs[t].sid}
      <4>1. Cardinality({tabs[t].sid}) = 1
        BY FS_Singleton
      <4> QED BY <3>2, <4>1
    <3> QED BY <3>1, <3>2
  <2>7. new \in SUBSET Sids
    OBVIOUS
  <2> HIDE DEF new
  <2> QED BY <2>2, <2>5, <2>6, <2>7, RiskGrows
<1>6. ASSUME NEW s \in Sids, CreateSession(t, s) PROVE RiskCounted'
  <2>1. /\ sessions' = [sessions EXCEPT ![s] = NewSession(TRUE, FALSE, NoSocket)]
        /\ tabs' = [tabs EXCEPT ![t] = [pc |-> "connect", sid |-> s]]
        /\ webLog' = [webLog EXCEPT !.raced = @ \ {s}] /\ UNCHANGED sockets
    BY <1>6 DEF CreateSession
  <2>2. webLog'.slips = webLog.slips
    BY <1>1, <2>1 DEF WebLogType
  <2>3. \A x \in Sids : IF x = s THEN sessions'[x].exists /\ ~sessions'[x].lost
                                 ELSE sessions'[x] = sessions[x]
    BY <1>1, <2>1 DEF NewSession
  <2>4. \A p \in Panes : tabs'[p] = tabs[p] \/ tabs'[p].sid = s
    BY <1>1, <1>2, <2>1
  <2>5. \A x \in Sids \ {s} : PaneRelies(x)' => PaneRelies(x)
    BY <2>1, <2>4 DEF PaneRelies
  <2>6. AtRisk' \subseteq AtRisk
    BY <2>3, <2>5 DEF AtRisk
  <2> QED BY <2>2, <2>6, RiskRests
<1>7. ASSUME NEW k \in Sockets, OpenSocket(t, k) PROVE RiskCounted'
  <2>1. /\ tabs[t].pc = "connect"
        /\ sockets' = [sockets EXCEPT ![k] =
                        [pc |-> "accept", open |-> TRUE, sid |-> tabs[t].sid, tab |-> t]]
        /\ tabs' = [tabs EXCEPT ![t].pc = "opening"] /\ UNCHANGED <<sessions, webLog>>
    BY <1>7 DEF OpenSocket
  <2>2. \A j \in Sockets : IF j = k THEN sockets'[j].sid = tabs[t].sid /\ sockets'[j].tab = t
                                    ELSE sockets'[j] = sockets[j]
    BY <1>1, <2>1
  <2>3. \A p \in Panes : tabs'[p] = tabs[p] \/ tabs'[p].pc # "connect"
    BY <1>1, <1>2, <2>1 DEF TabType
  <2>4. \A s \in Sids : PaneRelies(s)' => PaneRelies(s)
    BY <2>1, <2>2, <2>3 DEF PaneRelies
  <2> QED BY <2>1, <2>4, RiskKept, RiskRests
<1> QED BY <1>3, <1>4, <1>5, <1>6, <1>7 DEF Page

\* An attachment makes anew, without the agent, only sessions that were at risk.
LEMMA AttachRisk ==
  ASSUME RiskCounted, WebTypeOK, PagesKnown, NEW k \in Sockets, AttachSocket(k)
  PROVE  RiskCounted'
<1>1. /\ sessions \in [Sids -> SessionType] /\ tabs \in [Tabs -> TabType]
      /\ sockets \in [Sockets -> SocketType] /\ webLog \in WebLogType
  BY WebTypeFolded
<1>2. PICK s \in Sids, new \in SessionType, more \in SUBSET Sids : AttachTo(k, s, new, more)
  BY AttachTypes
<1>3. sockets[k].pc = "accept"
  BY DEF AttachSocket
<1>4. /\ s = sockets[k].sid \/ sockets[k].sid = NoSid
      /\ sessions' = [sessions EXCEPT ![s] = new]
      /\ new.exists
      /\ new.lost => sessions[s].lost \/ (~sessions[s].exists /\ sockets[k].tab \in Panes)
      /\ sockets' = [sockets EXCEPT ![k] = [sockets[k] EXCEPT !.pc = "loop", !.sid = s]]
      /\ webLog'.slips = webLog.slips
  BY <1>1, <1>2 DEF AttachTo, NewSession, SessionType, WebLogType
<1>5. \A x \in Sids : sessions'[x] = IF x = s THEN new ELSE sessions[x]
  BY <1>1, <1>4
<1>6. \A j \in Sockets : IF j = k THEN sockets'[j].pc = "loop" ELSE sockets'[j] = sockets[j]
  BY <1>1, <1>4 DEF SocketType
<1>7. \A p \in Panes : tabs'[p] = tabs[p] \/ tabs'[p].pc = "open"
  <2>1. tabs' = tabs \/ tabs' = [tabs EXCEPT ![sockets[k].tab].pc = "open"]
    BY DEF AttachSocket
  <2> QED BY <1>1, <2>1 DEF TabType, Tabs
<1>8. \A x \in Sids : PaneRelies(x)' => PaneRelies(x)
  BY <1>6, <1>7, ReliesKept
<1>9. new.lost => s \in AtRisk
  <2>1. sockets[k].tab \in Panes => sockets[k].sid \in Sids
    BY <1>3 DEF PagesKnown
  <2>2. sockets[k].tab \in Panes => PaneRelies(s)
    BY <1>3, <1>4, <2>1, WebConstants DEF PaneRelies
  <2> QED BY <1>4, <2>2 DEF AtRisk
<1>10. AtRisk' \subseteq AtRisk
  BY <1>4, <1>5, <1>8, <1>9 DEF AtRisk
<1> QED BY <1>4, <1>10, RiskRests

LEMMA SocketRisk ==
  ASSUME RiskCounted, WebTypeOK, PagesKnown, NEW k \in Sockets,
         ReceiveSession(k) \/ LoseSocket(k) \/ MessageIn(k) \/ EndHandler(k)
  PROVE  RiskCounted'
<1>1. /\ sessions \in [Sids -> SessionType] /\ tabs \in [Tabs -> TabType]
      /\ sockets \in [Sockets -> SocketType] /\ webLog \in WebLogType
  BY WebTypeFolded
<1>2. webLog'.slips = webLog.slips
  BY <1>1, FaultyLogs DEF ReceiveSession, LoseSocket, MessageIn, EndHandler
<1>3. \A s \in Sids : sessions'[s].lost = sessions[s].lost /\ sessions'[s].exists = sessions[s].exists
  BY <1>1 DEF ReceiveSession, LoseSocket, MessageIn, EndHandler, SessionType
<1>4. \A j \in Sockets : sockets'[j].pc = "accept" =>
        /\ sockets[j].pc = "accept" /\ sockets'[j].sid = sockets[j].sid
        /\ sockets'[j].tab = sockets[j].tab
  <2>1. CASE ReceiveSession(k) \/ MessageIn(k)
    BY <2>1 DEF ReceiveSession, MessageIn
  <2>2. CASE LoseSocket(k)
    BY <1>1, <2>2 DEF LoseSocket, SocketType
  <2>3. CASE EndHandler(k)
    BY <1>1, <2>3, WebConstants DEF EndHandler
  <2> QED BY <2>1, <2>2, <2>3
<1>5. \A t \in Panes : tabs'[t].pc = "connect" => tabs[t].pc = "connect" /\ tabs'[t].sid = tabs[t].sid
  <2>1. CASE MessageIn(k) \/ EndHandler(k)
    BY <2>1 DEF MessageIn, EndHandler
  <2>2. CASE LoseSocket(k)
    BY <1>1, <2>2, OnCloseTabs DEF LoseSocket, Tabs
  <2>3. CASE ReceiveSession(k)
    <3>1. tabs' = [tabs EXCEPT ![sockets[k].tab].sid = sockets[k].sid] /\ tabs[sockets[k].tab].sid = NoSid
      BY <2>3 DEF ReceiveSession
    <3>2. \A t \in Panes : tabs[t].pc = "connect" => tabs[t].sid # NoSid
      BY WebConstants DEF PagesKnown
    <3> QED BY <1>1, <3>1, <3>2 DEF Tabs, TabType
  <2> QED BY <2>1, <2>2, <2>3
<1> QED BY <1>2, <1>3, <1>4, <1>5, ReliesKept, RiskKept, RiskRests

\* A removal slips if a pane relies on the session.
LEMMA RemoveRisk ==
  ASSUME RiskCounted, WebTypeOK, NEW s, RemoveAny(s), UNCHANGED <<tabs, sockets>>
  PROVE  RiskCounted'
<1>1. /\ sessions \in [Sids -> SessionType] /\ tabs \in [Tabs -> TabType] /\ webLog \in WebLogType
  BY WebTypeFolded
<1> DEFINE slipped == {x \in {s} : Relying(x)}
           new == slipped \cap Sids
<1>2. IsFiniteSet({s})
  BY FS_Singleton
<1>3. /\ webLog'.slips = webLog.slips + Cardinality(slipped)
      /\ Cardinality(slipped) \in Nat /\ IsFiniteSet(slipped)
  BY <1>1, <1>2, SlipCounts DEF RemoveAny
<1>4. Cardinality(new) <= Cardinality(slipped)
  BY <1>3, FS_Subset
<1>5. \A x \in Sids : sessions'[x] = IF x = s THEN NoSession ELSE sessions[x]
  BY <1>1 DEF RemoveAny, RemoveSession
<1>6. \A x \in Sids : PaneRelies(x)' => PaneRelies(x)
  BY ReliesKept
<1>7. \A x \in Sids : PaneRelies(x) => Relying(x)
  BY <1>1 DEF PaneRelies, Relying, TabType, Tabs
<1>8. AtRisk' \subseteq AtRisk \cup new
  BY <1>5, <1>6, <1>7, WebConstants DEF AtRisk
<1>9. new \in SUBSET Sids
  OBVIOUS
<1> HIDE DEF new, slipped
<1> QED BY <1>3, <1>4, <1>8, <1>9, RiskGrows

LEMMA ServerRisk ==
  ASSUME RiskCounted, WebTypeOK, PagesKnown,
         \/ EndSend \/ WakeCleanup \/ CleanupRemoves
         \/ \E s \in Sids : CleanupNext(s) \/ BeginSend(s) \/ GoIdle(s) \/ SendMessageRest(s)
  PROVE  RiskCounted'
<1>1. /\ sessions \in [Sids -> SessionType] /\ tabs \in [Tabs -> TabType]
      /\ sockets \in [Sockets -> SocketType] /\ webLog \in WebLogType
  BY WebTypeFolded
<1>2. CASE \E s : RemoveAny(s) /\ UNCHANGED <<tabs, sockets>>
  BY <1>2, RemoveRisk
<1>3. CASE /\ UNCHANGED <<tabs, sockets>> /\ webLog'.slips = webLog.slips
           /\ \A s \in Sids : sessions'[s].lost = sessions[s].lost /\ sessions'[s].exists = sessions[s].exists
  BY <1>3, ReliesKept, RiskKept, RiskRests
<1>4. ASSUME NEW s \in Sids, CleanupNext(s), sessions[s].ws # NoSocket PROVE RiskCounted'
  <2>1. UNCHANGED <<sessions, webLog>> /\ OnClose({sessions[s].ws})
    BY <1>4 DEF CleanupNext
  <2>2. PICK k \in Sockets : k = sessions[s].ws /\ sockets' = [sockets EXCEPT ![k].open = FALSE]
    BY <1>1, <1>4 DEF CleanupNext, SessionType
  <2>3. \A t \in Panes : tabs'[t].pc = "connect" => tabs[t].pc = "connect" /\ tabs'[t].sid = tabs[t].sid
    BY <1>1, <2>1, <2>2, OnCloseTabs DEF Tabs
  <2>4. \A j \in Sockets : /\ sockets'[j].pc = sockets[j].pc /\ sockets'[j].sid = sockets[j].sid
                           /\ sockets'[j].tab = sockets[j].tab
    BY <1>1, <2>2 DEF SocketType
  <2> QED BY <2>1, <2>3, <2>4, ReliesKept, RiskKept, RiskRests
<1>5. ASSUME NEW s \in Sids, CleanupNext(s), sessions[s].ws = NoSocket PROVE RiskCounted'
  BY <1>2, <1>5 DEF CleanupNext, RemoveAny
<1>6. ASSUME NEW s \in Sids, BeginSend(s) PROVE RiskCounted'
  BY <1>1, <1>3, <1>6 DEF BeginSend, WebLogType
<1>7. ASSUME NEW s \in Sids, GoIdle(s) \/ SendMessageRest(s) PROVE RiskCounted'
  <2>0. PICK b \in BOOLEAN : sessions' = [sessions EXCEPT ![s].idle = b]
    BY <1>7 DEF GoIdle, SendMessageRest
  <2>1. webLog'.slips = webLog.slips /\ UNCHANGED <<tabs, sockets>>
    BY <1>1, <1>7 DEF GoIdle, SendMessageRest, WebLogType
  <2>2. \A x \in Sids : sessions'[x].lost = sessions[x].lost /\ sessions'[x].exists = sessions[x].exists
    <3>1. sessions' = [sessions EXCEPT ![s] = [sessions[s] EXCEPT !.idle = b]]
      BY <1>1, <1>7, <2>0 DEF SessionType
    <3>2. /\ [sessions[s] EXCEPT !.idle = b].exists = sessions[s].exists
          /\ [sessions[s] EXCEPT !.idle = b].lost = sessions[s].lost
      BY <1>1 DEF SessionType
    <3> QED BY <1>1, <3>1, <3>2
  <2> QED BY <1>3, <2>1, <2>2
<1>8. CASE EndSend \/ WakeCleanup \/ CleanupRemoves
  BY <1>2, <1>3, <1>8 DEF EndSend, WakeCleanup, CleanupRemoves, RemoveAny
<1> QED BY <1>4, <1>5, <1>6, <1>7, <1>8

LEMMA RestartRisk ==
  ASSUME RiskCounted, WebTypeOK, PagesKnown, RestartWebchat
  PROVE  RiskCounted'
<1>1. /\ tabs \in [Tabs -> TabType] /\ webLog \in WebLogType
      /\ \A s \in Sids : sessions'[s] = NoSession
      /\ \A k \in Sockets : sockets'[k] = FreeSocket
  BY WebTypeFolded DEF RestartWebchat
<1> DEFINE new == {s \in Sids : Relying(s)}
<1>2. webLog'.slips = webLog.slips + Cardinality(new) /\ Cardinality(new) \in Nat
  BY <1>1, SlipCounts, RestartTypes, WebConstants DEF RestartLog
<1>3. \A t \in Panes : tabs'[t].pc = "connect" => tabs[t].pc = "connect" /\ tabs'[t].sid = tabs[t].sid
  BY RestartTypes DEF Tabs
<1>4. \A s \in Sids : PaneRelies(s)' => Relying(s)
  BY <1>1, <1>3, WebConstants DEF PaneRelies, Relying, TabType, Tabs
<1>5. AtRisk' \subseteq AtRisk \cup new
  BY <1>1, <1>4, WebConstants DEF AtRisk
<1>6. new \in SUBSET Sids
  OBVIOUS
<1> HIDE DEF new
<1> QED BY <1>2, <1>5, <1>6, RiskGrows

-----------------------------------------------------------------------------
\* At the start nobody is connected.
LEMMA InitWebInv == WebInit => WebInv
<1> SUFFICES ASSUME WebInit PROVE WebInv
  OBVIOUS
<1>1. /\ sessions = [s \in Sids |-> NoSession] /\ tabs = [t \in Tabs |-> WaitingTab]
      /\ sockets = [k \in Sockets |-> FreeSocket]
  BY DEF WebInit
<1>2. WebTypeOK
  <2>1. /\ sessions \in [Sids -> SessionType] /\ tabs \in [Tabs -> TabType]
        /\ sockets \in [Sockets -> SocketType]
    BY <1>1, WebConstants
  <2>2. /\ stored \in [pane : Sids \cup {NoSid}, widget : Sids \cup {NoSid}]
        /\ cleanup \in [expired : SUBSET Sids, closing : Sids \cup {NoSid}]
        /\ sending \in [sid : Sids \cup {NoSid}, ws : Sockets \cup {NoSocket}]
        /\ webLog \in WebLogType
    BY DEF WebInit, Sleeping, NotSending, WebLogType
  <2> QED BY <2>1, <2>2, WebTypeFolded
<1>3. PagesKnown
  BY <1>1, WebConstants DEF PagesKnown, Tabs
<1>4. ServeInv
  BY <1>1, WebConstants
     DEF ServeInv, HeldSockets, OneHandler, SendsToLive, ClosesLast, LiveSocketsServed, LiveOn, On
<1>5. RiskCounted
  <2>1. AtRisk = {}
    BY <1>1, WebConstants DEF AtRisk, PaneRelies, Tabs
  <2>2. webLog.slips = 0
    BY DEF WebInit
  <2> QED BY <2>1, <2>2, FS_EmptySet DEF RiskCounted
<1> QED BY <1>2, <1>3, <1>4, <1>5 DEF WebInv

LEMMA NextWebInv == WebInv /\ [WebNext]_webVars => WebInv'
<1> SUFFICES ASSUME WebInv, [WebNext]_webVars PROVE WebInv'
  OBVIOUS
<1> USE DEF WebInv
<1>1. ASSUME NEW t \in Tabs, Page(t) \/ CheckSessionFails(t) PROVE WebInv'
  BY <1>1, PageTypes, PageServe, PageRisk
<1>2. ASSUME NEW k \in Sockets, AttachSocket(k) PROVE WebInv'
  BY <1>2, AttachTypes, AttachServe, AttachRisk
<1>3. ASSUME NEW k \in Sockets, ReceiveSession(k) \/ LoseSocket(k) \/ MessageIn(k) \/ EndHandler(k)
      PROVE  WebInv'
  BY <1>3, SocketTypes, SocketServe, SocketRisk
<1>4. CASE \/ EndSend \/ WakeCleanup \/ CleanupRemoves
           \/ \E s \in Sids : CleanupNext(s) \/ BeginSend(s) \/ GoIdle(s) \/ SendMessageRest(s)
  BY <1>4, ServerTypes, ServerServe, ServerRisk
<1>5. CASE RestartWebchat
  BY <1>5, RestartTypes, RestartServe, RestartRisk
<1>6. CASE UNCHANGED webVars
  <2>1. UNCHANGED <<sessions, tabs, stored, sockets, cleanup, sending, webLog>>
    BY <1>6 DEF webVars
  <2>2. WebTypeOK' /\ PagesKnown'
    BY <2>1 DEF WebTypeOK, PagesKnown
  <2>3. ServeInv'
    BY <2>1, ServeRests
  <2>4. RiskCounted'
    BY <2>1, ReliesKept, RiskKept, RiskRests
  <2> QED BY <2>2, <2>3, <2>4
<1> QED BY <1>1, <1>2, <1>3, <1>4, <1>5, <1>6 DEF WebNext, Server

\* What is proved of the sessions follows from what is counted.
LEMMA WebInvExplains == WebInv => WebchatExplained
<1> SUFFICES ASSUME WebInv PROVE WebchatExplained
  OBVIOUS
<1> DEFINE lost == {s \in Sids : sessions[s].lost}
<1>1. lost \subseteq AtRisk /\ AtRisk \subseteq Sids
  BY DEF AtRisk
<1>2. IsFiniteSet(AtRisk)
  BY <1>1, WebConstants, FS_Subset
<1>3. IsFiniteSet(lost) /\ Cardinality(lost) <= Cardinality(AtRisk)
  BY <1>1, <1>2, FS_Subset
<1>4. /\ Cardinality(lost) \in Nat /\ Cardinality(AtRisk) \in Nat /\ webLog.slips \in Nat
      /\ Cardinality(AtRisk) <= webLog.slips
  BY <1>2, <1>3, FS_CardinalityType, WebTypeFolded DEF WebInv, RiskCounted, WebLogType
<1>5. Cardinality(lost) <= webLog.slips
  BY <1>3, <1>4
<1>6. AgentsKept
  BY <1>5 DEF AgentsKept
<1> QED BY <1>6 DEF WebInv, ServeInv, WebchatExplained

\* Every variable of the webchat connector has its type, in every reachable state.
THEOREM WebchatTypeCorrect == WebSpec => []WebTypeOK
<1>1. WebInv => WebTypeOK
  BY DEF WebInv
<1> QED BY <1>1, InitWebInv, NextWebInv, PTL DEF WebSpec

\* Whoever is connected is served, and an agent lost has its slip, whatever pages, sockets,
\* time-outs and restarts do: the sessions of connector.py under any interleaving.
THEOREM WebchatCorrect == WebSpec => []WebchatExplained
BY InitWebInv, NextWebInv, WebInvExplains, PTL DEF WebSpec

-----------------------------------------------------------------------------
MapperType == [pc : {"idle", "asked", "read"}, sender : Senders, mapping : Mapped,
               raced : BOOLEAN]
AdminType == [pc : {"idle", "asked", "committed"}, sender : Senders, mapping : Mapped]
ChangeType == [at : Nat, here : BOOLEAN]

\* TypeOK, with the names of this module.
LEMMA IdentityFolded ==
  IdentityTypeOK <=> /\ mappingOf \in [Senders -> Mapped]
                     /\ changedAt \in [Senders -> ChangeType]
                     /\ idCache \in [Senders -> CacheEntry]
                     /\ mapper \in [Mappers -> MapperType]
                     /\ admin \in [Admins -> AdminType]
                     /\ idNow \in Nat /\ commits \in Nat
BY DEF IdentityTypeOK, MapperType, AdminType, ChangeType

\* The same after a step.
LEMMA IdentityFoldedPrime ==
  IdentityTypeOK' <=> /\ mappingOf' \in [Senders -> Mapped]
                      /\ changedAt' \in [Senders -> ChangeType]
                      /\ idCache' \in [Senders -> CacheEntry]
                      /\ mapper' \in [Mappers -> MapperType]
                      /\ admin' \in [Admins -> AdminType]
                      /\ idNow' \in Nat /\ commits' \in Nat
BY DEF IdentityTypeOK, MapperType, AdminType, ChangeType

\* The values a call starts with.
LEMMA IdleTypes ==
  /\ IdleMapper \in MapperType /\ IdleMapper.pc = "idle" /\ IdleMapper.raced = FALSE
  /\ IdleAdmin \in AdminType /\ IdleAdmin.pc = "idle"
  /\ NoEntry \in CacheEntry /\ NoEntry.filled = FALSE /\ NoEntry.expires = 0
<1>1. (CHOOSE s \in Senders : TRUE) \in Senders
  BY IdentityAssumption
<1> QED BY <1>1 DEF IdleMapper, IdleAdmin, NoEntry, MapperType, AdminType, CacheEntry, Mapped

-----------------------------------------------------------------------------
(* The inductive invariant.                                                  *)

\* A lookup that has read holds the row's value unless it was overtaken by a commit.
LookupInv ==
  \A c \in Mappers :
    mapper[c].pc = "read" /\ ~mapper[c].raced => mapper[c].mapping = mappingOf[mapper[c].sender]

\* No entry outlives the time to live, counted from now ...
ExpiryInv == \A s \in Senders : idCache[s].expires <= idNow + Ttl

\* ... and one that is wrong does not outlive it counted from the change, which,
\* when it was made here, is still to be followed by the removal of the entry.
EntryInv ==
  \A s \in Senders :
    idCache[s].filled /\ ~idCache[s].raced /\ idCache[s].mapping # mappingOf[s] =>
      /\ idCache[s].expires <= changedAt[s].at + Ttl
      /\ changedAt[s].here => Busting(s)

IdentityInv == IdentityTypeOK /\ LookupInv /\ ExpiryInv /\ EntryInv

\* Nothing is cached and nobody looks anything up at the start.
LEMMA InitIdentityInv == IdentityInit => IdentityInv
<1> SUFFICES ASSUME IdentityInit PROVE IdentityInv
  OBVIOUS
<1>1. IdentityTypeOK
  <2>1. mappingOf \in [Senders -> Mapped] /\ changedAt \in [Senders -> ChangeType]
    BY DEF IdentityInit, Mapped, ChangeType
  <2>2. /\ idCache \in [Senders -> CacheEntry] /\ mapper \in [Mappers -> MapperType]
        /\ admin \in [Admins -> AdminType]
    BY IdleTypes DEF IdentityInit
  <2> QED BY <2>1, <2>2, IdentityFolded DEF IdentityInit
<1>2. LookupInv
  BY IdleTypes DEF IdentityInit, LookupInv
<1>3. ExpiryInv
  <2>1. \A s \in Senders : idCache[s].expires = 0
    BY IdleTypes DEF IdentityInit
  <2>2. idNow = 0 /\ Ttl \in Nat
    BY IdentityAssumption DEF IdentityInit
  <2>3. 0 <= idNow + Ttl
    BY <2>2
  <2> QED BY <2>1, <2>3 DEF ExpiryInv
<1>4. EntryInv
  BY IdleTypes DEF IdentityInit, EntryInv
<1> QED BY <1>1, <1>2, <1>3, <1>4 DEF IdentityInv

-----------------------------------------------------------------------------
(* Lookups.                                                                  *)

\* Starting, answering and failing lookups leave the cache and the table alone.
LEMMA LookupSteps ==
  ASSUME IdentityInv, NEW c \in Mappers,
         (\E s \in Senders : MapSenderMiss(c, s)) \/ ReadMapping(c) \/ LookupFails(c)
  PROVE  IdentityInv'
<1>t. /\ mappingOf \in [Senders -> Mapped] /\ mapper \in [Mappers -> MapperType]
      /\ UNCHANGED <<mappingOf, changedAt, idCache, admin, idNow, commits>>
  BY IdentityFolded DEF IdentityInv, MapSenderMiss, ReadMapping, LookupFails
<1>1. mapper' \in [Mappers -> MapperType] /\ LookupInv'
  <2>1. CASE \E s \in Senders : MapSenderMiss(c, s)
    <3>1. PICK s \in Senders : MapSenderMiss(c, s)
      BY <2>1
    <3>2. mapper' = [mapper EXCEPT ![c] = [IdleMapper EXCEPT !.pc = "asked", !.sender = s]]
      BY <3>1 DEF MapSenderMiss
    <3>3. [IdleMapper EXCEPT !.pc = "asked", !.sender = s] \in MapperType
      BY IdleTypes DEF MapperType
    <3>4. [IdleMapper EXCEPT !.pc = "asked", !.sender = s].pc = "asked"
      BY IdleTypes DEF MapperType
    <3> QED BY <1>t, <3>2, <3>3, <3>4 DEF IdentityInv, LookupInv
  <2>2. CASE ReadMapping(c)
    <3>1. mapper' = [mapper EXCEPT ![c].pc = "read",
                                   ![c].mapping = mappingOf[mapper[c].sender]]
      BY <2>2 DEF ReadMapping
    <3>2. /\ mapper'[c] \in MapperType
          /\ mapper'[c].sender = mapper[c].sender
          /\ mapper'[c].mapping = mappingOf[mapper[c].sender]
          /\ \A d \in Mappers \ {c} : mapper'[d] = mapper[d]
          /\ mapper' = [d \in Mappers |-> mapper'[d]]
      BY <1>t, <3>1 DEF MapperType
    <3> QED BY <1>t, <3>2 DEF IdentityInv, LookupInv
  <2>3. CASE LookupFails(c)
    <3>1. mapper' = [mapper EXCEPT ![c] = IdleMapper]
      BY <2>3 DEF LookupFails
    <3> QED BY <1>t, <3>1, IdleTypes DEF IdentityInv, LookupInv
  <2> QED BY <2>1, <2>2, <2>3
<1>2. ExpiryInv' /\ EntryInv'
  BY <1>t DEF IdentityInv, ExpiryInv, EntryInv, Busting
<1> QED BY <1>t, <1>1, <1>2, IdentityFolded, IdentityFoldedPrime DEF IdentityInv

\* The fill: an entry that is wrong from the start was overtaken.
LEMMA FillStep ==
  ASSUME IdentityInv, NEW c \in Mappers, FillCache(c)
  PROVE  IdentityInv'
<1> DEFINE call == mapper[c]
           entry == [filled |-> TRUE, mapping |-> call.mapping, expires |-> idNow + Ttl,
                     raced |-> call.raced]
<1>t. /\ mapper \in [Mappers -> MapperType] /\ idCache \in [Senders -> CacheEntry]
      /\ idNow \in Nat /\ Ttl \in Nat
      /\ UNCHANGED <<mappingOf, changedAt, admin, idNow, commits>>
  BY IdentityFolded, IdentityAssumption DEF IdentityInv, FillCache
<1>1. /\ call.pc = "read" /\ call \in MapperType
      /\ idCache' = [idCache EXCEPT ![call.sender] = entry]
      /\ mapper' = [mapper EXCEPT ![c] = IdleMapper]
  BY <1>t DEF FillCache
<1>2. entry \in CacheEntry /\ call.sender \in Senders
  BY <1>t, <1>1 DEF CacheEntry, MapperType
<1>3. idCache' \in [Senders -> CacheEntry] /\ mapper' \in [Mappers -> MapperType]
  BY <1>t, <1>1, <1>2, IdleTypes
<1>4. LookupInv'
  BY <1>t, <1>1, IdleTypes DEF IdentityInv, LookupInv
<1>5. ExpiryInv'
  BY <1>t, <1>1, <1>2 DEF IdentityInv, ExpiryInv
<1>6. EntryInv'
  <2> SUFFICES ASSUME NEW s \in Senders, idCache'[s].filled, ~idCache'[s].raced,
                      idCache'[s].mapping # mappingOf[s]
               PROVE  /\ idCache'[s].expires <= changedAt[s].at + Ttl
                      /\ changedAt[s].here => Busting(s)
    BY <1>t DEF EntryInv, Busting
  <2>1. CASE s = call.sender
    BY <1>t, <1>1, <2>1 DEF IdentityInv, LookupInv
  <2>2. CASE s # call.sender
    BY <1>t, <1>1, <2>2 DEF IdentityInv, EntryInv
  <2> QED BY <2>1, <2>2
<1> QED BY <1>t, <1>3, <1>4, <1>5, <1>6, IdentityFolded, IdentityFoldedPrime DEF IdentityInv

-----------------------------------------------------------------------------
(* Commits.                                                                  *)

\* A commit overtakes the lookups of its sender and starts the time to live of
\* an entry it makes wrong; the caller says who will remove the entry.
LEMMA CommitStep ==
  ASSUME IdentityInv, NEW s \in Senders, NEW m \in Mapped, NEW here \in BOOLEAN,
         Commit(s, m, here), UNCHANGED <<idCache, idNow>>,
         admin' \in [Admins -> AdminType],
         here => Busting(s)',
         \A r \in Senders : Busting(r) => Busting(r)'
  PROVE  IdentityInv'
<1>t. /\ mappingOf \in [Senders -> Mapped] /\ changedAt \in [Senders -> ChangeType]
      /\ idCache \in [Senders -> CacheEntry] /\ mapper \in [Mappers -> MapperType]
      /\ idNow \in Nat /\ commits \in Nat /\ Ttl \in Nat
  BY IdentityFolded, IdentityAssumption DEF IdentityInv
<1>1. /\ mappingOf' = [mappingOf EXCEPT ![s] = m]
      /\ changedAt' = [changedAt EXCEPT ![s] = [at |-> idNow, here |-> here]]
      /\ mapper' = [c \in Mappers |-> IF mapper[c].pc = "read" /\ mapper[c].sender = s
                                      THEN [mapper[c] EXCEPT !.raced = TRUE] ELSE mapper[c]]
      /\ commits' = commits + 1 /\ idCache' = idCache /\ idNow' = idNow
  BY DEF Commit
<1>2. \A c \in Mappers :
        /\ mapper'[c] \in MapperType
        /\ mapper'[c].pc = mapper[c].pc /\ mapper'[c].sender = mapper[c].sender
        /\ mapper'[c].mapping = mapper[c].mapping
        /\ IF mapper[c].pc = "read" /\ mapper[c].sender = s
           THEN mapper'[c].raced ELSE mapper'[c].raced = mapper[c].raced
  BY <1>t, <1>1 DEF MapperType
<1>3. mapper' \in [Mappers -> MapperType]
  BY <1>1, <1>2
<1>4. [at |-> idNow, here |-> here] \in ChangeType
  BY <1>t DEF ChangeType
<1>5. mappingOf' \in [Senders -> Mapped] /\ changedAt' \in [Senders -> ChangeType]
  BY <1>t, <1>1, <1>4
<1>6. LookupInv'
  BY <1>t, <1>1, <1>2 DEF IdentityInv, LookupInv, MapperType
<1>7. ExpiryInv'
  BY <1>1 DEF IdentityInv, ExpiryInv
<1>8. EntryInv'
  <2> SUFFICES ASSUME NEW r \in Senders, idCache[r].filled, ~idCache[r].raced,
                      idCache[r].mapping # mappingOf'[r]
               PROVE  /\ idCache[r].expires <= changedAt'[r].at + Ttl
                      /\ changedAt'[r].here => Busting(r)'
    BY <1>1 DEF EntryInv
  <2>1. CASE r = s
    <3>1. changedAt'[r].at = idNow /\ changedAt'[r].here = here
      BY <1>t, <1>1, <2>1
    <3> QED BY <2>1, <3>1 DEF IdentityInv, ExpiryInv
  <2>2. CASE r # s
    <3>1. changedAt'[r] = changedAt[r] /\ mappingOf'[r] = mappingOf[r]
      BY <1>t, <1>1, <2>2
    <3> QED BY <3>1 DEF IdentityInv, EntryInv
  <2> QED BY <2>1, <2>2
<1>9. commits' \in Nat
  BY <1>t, <1>1
<1> QED BY <1>t, <1>1, <1>3, <1>5, <1>6, <1>7, <1>8, <1>9, IdentityFoldedPrime DEF IdentityInv

\* An update here, and one of another process.
LEMMA CommitSteps ==
  ASSUME IdentityInv,
         \/ \E a \in Admins : CommitUpdate(a)
         \/ \E s \in Senders, m \in Mapped : CommitElsewhere(s, m)
  PROVE  IdentityInv'
<1>t. admin \in [Admins -> AdminType]
  BY IdentityFolded DEF IdentityInv
<1>1. CASE \E a \in Admins : CommitUpdate(a)
  <2>1. PICK a \in Admins : CommitUpdate(a)
    BY <1>1
  <2>2. /\ admin[a] \in AdminType /\ admin[a].pc = "asked"
        /\ Commit(admin[a].sender, admin[a].mapping, TRUE)
        /\ admin' = [admin EXCEPT ![a].pc = "committed"] /\ UNCHANGED <<idCache, idNow>>
    BY <1>t, <2>1 DEF CommitUpdate
  <2>3. /\ admin' \in [Admins -> AdminType]
        /\ admin'[a].pc = "committed" /\ admin'[a].sender = admin[a].sender
        /\ \A b \in Admins \ {a} : admin'[b] = admin[b]
    BY <1>t, <2>2 DEF AdminType
  <2>4. admin[a].sender \in Senders /\ admin[a].mapping \in Mapped
    BY <2>2 DEF AdminType
  <2>5. Busting(admin[a].sender)'
    BY <2>3 DEF Busting
  <2>6. ASSUME NEW r \in Senders, Busting(r) PROVE Busting(r)'
    BY <2>2, <2>3, <2>6 DEF Busting
  <2> QED BY <2>2, <2>3, <2>4, <2>5, <2>6, CommitStep
<1>2. CASE \E s \in Senders, m \in Mapped : CommitElsewhere(s, m)
  <2>1. PICK s \in Senders, m \in Mapped : CommitElsewhere(s, m)
    BY <1>2
  <2>2. Commit(s, m, FALSE) /\ UNCHANGED <<idCache, admin, idNow>>
    BY <2>1 DEF CommitElsewhere
  <2>3. \A r \in Senders : Busting(r) => Busting(r)'
    BY <2>2 DEF Busting
  <2>4. admin' \in [Admins -> AdminType]
    BY <1>t, <2>2
  <2> QED BY <2>2, <2>3, <2>4, CommitStep
<1> QED BY <1>1, <1>2

-----------------------------------------------------------------------------
(* The other steps of an update.                                             *)

\* A new update changes nothing yet.
LEMMA BeginStep ==
  ASSUME IdentityInv, NEW a \in Admins, NEW s \in Senders, NEW m \in Mapped, BeginUpdate(a, s, m)
  PROVE  IdentityInv'
<1>1. /\ admin \in [Admins -> AdminType] /\ admin[a].pc = "idle"
      /\ admin' = [admin EXCEPT ![a] = [pc |-> "asked", sender |-> s, mapping |-> m]]
      /\ UNCHANGED <<mappingOf, changedAt, idCache, mapper, idNow, commits>>
  BY IdentityFolded DEF IdentityInv, BeginUpdate
<1>2. admin' \in [Admins -> AdminType]
  BY <1>1 DEF AdminType
<1>3. \A r \in Senders : Busting(r) => Busting(r)'
  BY <1>1 DEF Busting
<1> QED BY <1>1, <1>2, <1>3, IdentityFolded, IdentityFoldedPrime
        DEF IdentityInv, LookupInv, ExpiryInv, EntryInv

\* The end of an update removes the entry it may have made wrong.
LEMMA FinishStep ==
  ASSUME IdentityInv, NEW a \in Admins, FinishUpdate(a)
  PROVE  IdentityInv'
<1>t. /\ admin \in [Admins -> AdminType] /\ idCache \in [Senders -> CacheEntry]
      /\ idNow \in Nat /\ Ttl \in Nat
      /\ UNCHANGED <<mappingOf, changedAt, mapper, idNow, commits>>
  BY IdentityFolded, IdentityAssumption DEF IdentityInv, FinishUpdate
<1>1. /\ admin[a].sender \in Senders
      /\ idCache' = [idCache EXCEPT ![admin[a].sender] = NoEntry]
      /\ admin' = [admin EXCEPT ![a] = IdleAdmin]
  BY <1>t DEF FinishUpdate, AdminType
<1>2. admin' \in [Admins -> AdminType] /\ idCache' \in [Senders -> CacheEntry]
  BY <1>t, <1>1, IdleTypes
<1>3. ASSUME NEW r \in Senders, r # admin[a].sender, Busting(r) PROVE Busting(r)'
  BY <1>t, <1>1, <1>3 DEF Busting
<1>4. LookupInv'
  BY <1>t DEF IdentityInv, LookupInv
<1>5. ExpiryInv'
  BY <1>t, <1>1, IdleTypes DEF IdentityInv, ExpiryInv
<1>6. EntryInv'
  <2> SUFFICES ASSUME NEW r \in Senders, idCache'[r].filled, ~idCache'[r].raced,
                      idCache'[r].mapping # mappingOf[r]
               PROVE  /\ idCache'[r].expires <= changedAt[r].at + Ttl
                      /\ changedAt[r].here => Busting(r)'
    BY <1>t DEF EntryInv
  <2>1. r # admin[a].sender
    BY <1>t, <1>1, IdleTypes
  <2>2. idCache'[r] = idCache[r]
    BY <1>t, <1>1, <2>1
  <2> QED BY <1>3, <2>1, <2>2 DEF IdentityInv, EntryInv
<1> QED BY <1>t, <1>2, <1>4, <1>5, <1>6, IdentityFolded, IdentityFoldedPrime DEF IdentityInv

\* An update that raises after its commit leaves the row as if changed elsewhere.
LEMMA FailStep ==
  ASSUME IdentityInv, NEW a \in Admins, UpdateFails(a)
  PROVE  IdentityInv'
<1>t. /\ admin \in [Admins -> AdminType] /\ changedAt \in [Senders -> ChangeType]
      /\ UNCHANGED <<mappingOf, idCache, mapper, idNow, commits>>
  BY IdentityFolded DEF IdentityInv, UpdateFails
<1>1. /\ admin' = [admin EXCEPT ![a] = IdleAdmin]
      /\ admin[a] \in AdminType /\ admin[a].sender \in Senders
  BY <1>t DEF UpdateFails, AdminType
<1>2. admin' \in [Admins -> AdminType]
  BY <1>t, <1>1, IdleTypes
<1>3. \A r \in Senders :
        /\ changedAt'[r] \in ChangeType /\ changedAt'[r].at = changedAt[r].at
        /\ changedAt'[r].here =>
             changedAt[r].here /\ ~(admin[a].pc = "committed" /\ r = admin[a].sender)
  <2>1. CASE admin[a].pc = "committed"
    <3>1. changedAt' = [changedAt EXCEPT ![admin[a].sender].here = FALSE]
      BY <2>1 DEF UpdateFails
    <3> QED BY <1>t, <1>1, <3>1 DEF ChangeType
  <2>2. CASE admin[a].pc # "committed"
    <3>1. changedAt' = changedAt
      BY <2>2 DEF UpdateFails
    <3> QED BY <1>t, <2>2, <3>1
  <2> QED BY <2>1, <2>2
<1>4. changedAt' \in [Senders -> ChangeType]
  <2>1. \/ changedAt' = changedAt
        \/ changedAt' = [changedAt EXCEPT ![admin[a].sender].here = FALSE]
    BY DEF UpdateFails
  <2> QED BY <1>t, <1>1, <2>1 DEF ChangeType
<1>5. ASSUME NEW r \in Senders, Busting(r), changedAt'[r].here PROVE Busting(r)'
  BY <1>t, <1>1, <1>3, <1>5 DEF Busting
<1>6. EntryInv'
  BY <1>t, <1>3, <1>5 DEF IdentityInv, EntryInv
<1> QED BY <1>t, <1>2, <1>4, <1>6, IdentityFolded, IdentityFoldedPrime DEF IdentityInv, LookupInv, ExpiryInv

\* Time passes.
LEMMA TickStep ==
  ASSUME IdentityInv, IdentityTick
  PROVE  IdentityInv'
<1>1. /\ idNow \in Nat /\ idNow' = idNow + 1 /\ Ttl \in Nat
      /\ idCache \in [Senders -> CacheEntry]
      /\ UNCHANGED <<mappingOf, changedAt, idCache, mapper, admin, commits>>
  BY IdentityFolded, IdentityAssumption DEF IdentityInv, IdentityTick
<1>2. \A s \in Senders : idCache[s].expires \in Nat
  BY <1>1 DEF CacheEntry
<1>3. ExpiryInv'
  BY <1>1, <1>2 DEF IdentityInv, ExpiryInv
<1>4. LookupInv' /\ EntryInv'
  BY <1>1 DEF IdentityInv, LookupInv, EntryInv, Busting
<1> QED BY <1>1, <1>3, <1>4, IdentityFolded, IdentityFoldedPrime DEF IdentityInv

\* Every step.
LEMMA NextIdentityInv == IdentityInv /\ [IdentityNext]_identityVars => IdentityInv'
<1> SUFFICES ASSUME IdentityInv, [IdentityNext]_identityVars PROVE IdentityInv'
  OBVIOUS
<1>1. CASE UNCHANGED identityVars
  BY <1>1 DEF identityVars, IdentityInv, IdentityTypeOK, LookupInv, ExpiryInv, EntryInv, Busting
<1>2. CASE IdentityNext
  <2>1. CASE \E c \in Mappers, s \in Senders : MapSenderMiss(c, s)
    BY <2>1, LookupSteps
  <2>2. CASE \E c \in Mappers : ReadMapping(c) \/ FillCache(c) \/ LookupFails(c)
    BY <2>2, LookupSteps, FillStep
  <2>3. CASE \E a \in Admins, s \in Senders, m \in Mapped : BeginUpdate(a, s, m)
    BY <2>3, BeginStep
  <2>4. CASE \E a \in Admins : CommitUpdate(a) \/ FinishUpdate(a) \/ UpdateFails(a)
    BY <2>4, CommitSteps, FinishStep, FailStep
  <2>5. CASE \E s \in Senders, m \in Mapped : CommitElsewhere(s, m)
    BY <2>5, CommitSteps
  <2>6. CASE IdentityTick
    BY <2>6, TickStep
  <2> QED BY <1>2, <2>1, <2>2, <2>3, <2>4, <2>5, <2>6 DEF IdentityNext
<1> QED BY <1>1, <1>2

\* The variables of the identity mapper keep their types.
THEOREM IdentityTypeCorrect == IdentitySpec => []IdentityTypeOK
<1>1. IdentityInv => IdentityTypeOK
  BY DEF IdentityInv
<1> QED BY <1>1, InitIdentityInv, NextIdentityInv, PTL DEF IdentitySpec

\* map_sender answers with an identity the sender has lost only from an entry that
\* a lookup filled across the commit, or for less than the time to live, or, after
\* a change of its own process, until that update returns.
THEOREM MappingFreshCorrect == IdentitySpec => []MappingFresh
<1>1. IdentityInv => MappingFresh
  <2> SUFFICES ASSUME IdentityInv, NEW s \in Senders, Live(s), ~idCache[s].raced,
                      idCache[s].mapping # mappingOf[s]
               PROVE  /\ idNow < changedAt[s].at + Ttl
                      /\ changedAt[s].here => Busting(s)
    BY DEF MappingFresh
  <2>1. /\ idNow \in Nat /\ Ttl \in Nat
        /\ idCache[s].expires \in Nat /\ changedAt[s].at \in Nat
    BY IdentityFolded, IdentityAssumption DEF IdentityInv, CacheEntry, ChangeType
  <2>2. idCache[s].filled /\ idCache[s].expires > idNow
    BY DEF Live
  <2> QED BY <2>1, <2>2 DEF IdentityInv, EntryInv
<1> QED BY <1>1, InitIdentityInv, NextIdentityInv, PTL DEF IdentitySpec

-----------------------------------------------------------------------------
(* Connectors: events and replies.                                           *)

Log == [offered : SUBSET Inbound, sent : SUBSET Replies,
        missed : SUBSET (PlatformEvents \cup Replies), harmed : SUBSET PlatformEvents,
        logged : SUBSET PlatformEvents, broken : SUBSET Replies,
        refusals : [Replies -> Nat], resent : [Replies -> Nat], repeats : Nat, faults : Nat]
Jobs == [reply : Replies, via : {"main", "base"}, tries : 1..SendAttempts,
         again : 0..LibraryRepeats[connector]]

\* Only what was offered goes about; each copy of an event beyond the first is a redelivery.
Here(e, S) == IF e \in S THEN 1 ELSE 0
EventsCounted ==
  \A e \in PlatformEvents :
    /\ published[e] + Here(e, buffered) + Here(e, working) + Here(e, events)
         <= 1 + connectorLog.repeats
    /\ e \in events \cup InHand \/ published[e] > 0 => e[1] \in connectorLog.offered

\* What a handler still holds when it cannot reach NATS was held when that was lost.
\* Only the two email connectors poll, and they publish nothing.
CutOffHarmed ==
  /\ poll # "none" => connector \in {"email", "run"}
  /\ connector \notin {"email", "run"} /\ ~Sound => working \subseteq connectorLog.harmed

IngressInv == EventsCounted /\ CutOffHarmed /\ IngressKept

\* A job has posted its reply only in requests that the library repeated since, and has
\* repeated and been refused as often as its counters say.
JobCounted(j) ==
  /\ j.reply \in connectorLog.sent
  /\ posts[j.reply] <= connectorLog.resent[j.reply]
  /\ connectorLog.resent[j.reply] <= (j.tries - 1) * LibraryRepeats[connector] + j.again
  /\ IF connector = "slack" THEN connectorLog.refusals[j.reply] + 1 >= j.tries
     ELSE /\ j.tries = 1
          /\ connectorLog.refusals[j.reply] + connectorLog.resent[j.reply] >= j.again

\* A reply has one job, of the one handler that understands it.
JobsSingle ==
  /\ \A j, k \in jobs : j.reply = k.reply => j = k
  /\ \A j \in jobs : JobCounted(j)
  /\ \A r \in Replies \ connectorLog.sent : posts[r] = 0 /\ connectorLog.resent[r] = 0

EgressInv == JobsSingle /\ EgressOnce

ConnectorInv == ConnectorTypeOK /\ IngressInv /\ EgressInv

LEMMA OfferedEvents ==
  ASSUME NEW e
  PROVE  /\ e \in Offered <=> \E m \in connectorLog.offered \ Ignored : e \in Copies(m)
         /\ \A m : e \in Copies(m) => e[1] = m /\ e \in {m} \X {"message", "mention"}
BY DEF Offered, Copies

LEMMA InitConnectorInv == ConnectorInit => ConnectorInv
<1> SUFFICES ASSUME ConnectorInit PROVE ConnectorInv
  OBVIOUS
<1>1. ConnectorTypeOK
  <2>1. started \in 0..Len(Startup[connector])
    <3>1. connector \in {"email", "slack", "telegram", "discord", "run"}
      BY ConnectorsAssumption DEF ConnectorInit
    <3>2. Len(Startup[connector]) \in Nat
      BY <3>1 DEF Startup, EmailStart, SlackStart, TelegramStart, DiscordStart, BaseStart
    <3> QED BY <3>2 DEF ConnectorInit
  <2>2. connectorLog \in Log
    BY DEF ConnectorInit, Log
  <2> QED BY <2>1, <2>2 DEF ConnectorInit, ConnectorTypeOK, Log, InHand
<1>2. /\ events = {} /\ working = {} /\ buffered = {} /\ jobs = {} /\ poll = "none"
      /\ published = [e \in PlatformEvents |-> 0] /\ posts = [r \in Replies |-> 0]
      /\ connectorLog.offered = {} /\ connectorLog.sent = {} /\ connectorLog.repeats = 0
      /\ connectorLog.resent = [r \in Replies |-> 0]
      /\ server /\ client = "open"
  BY DEF ConnectorInit
<1>3. IngressInv
  <2>1. Offered = {}
    BY <1>2, OfferedEvents
  <2> QED BY <1>2, <2>1 DEF IngressInv, EventsCounted, CutOffHarmed, IngressKept, InHand, Here, Sound
<1>4. EgressInv
  BY <1>2 DEF EgressInv, JobsSingle, EgressOnce
<1> QED BY <1>1, <1>3, <1>4 DEF ConnectorInv

\* The parts of the log, and what the log operators do to them.
LEMMA LogSteps ==
  ASSUME ConnectorTypeOK
  PROVE  /\ connectorLog \in Log
         /\ Harm(connectorLog) \in Log
         /\ Harm(connectorLog).harmed = connectorLog.harmed \cup InHand
         /\ Harm(connectorLog).broken = connectorLog.broken \cup {j.reply : j \in jobs}
         /\ Harm(connectorLog).offered = connectorLog.offered
         /\ Harm(connectorLog).missed = connectorLog.missed
         /\ Harm(connectorLog).sent = connectorLog.sent
         /\ Harm(connectorLog).repeats = connectorLog.repeats
         /\ Harm(connectorLog).refusals = connectorLog.refusals
         /\ Harm(connectorLog).resent = connectorLog.resent
         /\ Harm(connectorLog).logged = connectorLog.logged
         /\ \A log \in Log : /\ WithFault(log) \in Log
                             /\ WithFault(log).harmed = log.harmed /\ WithFault(log).broken = log.broken
                             /\ WithFault(log).offered = log.offered /\ WithFault(log).missed = log.missed
                             /\ WithFault(log).sent = log.sent /\ WithFault(log).repeats = log.repeats
                             /\ WithFault(log).refusals = log.refusals
                             /\ WithFault(log).resent = log.resent /\ WithFault(log).logged = log.logged
<1>1. connectorLog \in Log /\ InHand \subseteq PlatformEvents
  BY DEF ConnectorTypeOK, Log
<1>2. {j.reply : j \in jobs} \subseteq Replies
  BY DEF ConnectorTypeOK
<1>3. \A log \in Log : log.faults + 1 \in Nat
  BY DEF Log
<1>4. \A log \in Log : /\ WithFault(log) \in Log
                       /\ WithFault(log).harmed = log.harmed /\ WithFault(log).broken = log.broken
                       /\ WithFault(log).offered = log.offered /\ WithFault(log).missed = log.missed
                       /\ WithFault(log).sent = log.sent /\ WithFault(log).repeats = log.repeats
                       /\ WithFault(log).refusals = log.refusals
                       /\ WithFault(log).resent = log.resent /\ WithFault(log).logged = log.logged
  BY <1>3 DEF WithFault, Log
<1> DEFINE hands == InHand
           left == {j.reply : j \in jobs}
<1>5. Harm(connectorLog) = [connectorLog EXCEPT !.harmed = @ \cup hands, !.broken = @ \cup left]
  BY DEF Harm
<1>6. hands \subseteq PlatformEvents /\ left \subseteq Replies
  BY <1>1, <1>2
<1> HIDE DEF hands, left
<1>7. /\ Harm(connectorLog) \in Log
      /\ Harm(connectorLog).harmed = connectorLog.harmed \cup hands
      /\ Harm(connectorLog).broken = connectorLog.broken \cup left
      /\ Harm(connectorLog).offered = connectorLog.offered
      /\ Harm(connectorLog).missed = connectorLog.missed
      /\ Harm(connectorLog).sent = connectorLog.sent
      /\ Harm(connectorLog).repeats = connectorLog.repeats
      /\ Harm(connectorLog).refusals = connectorLog.refusals
      /\ Harm(connectorLog).resent = connectorLog.resent
      /\ Harm(connectorLog).logged = connectorLog.logged
  BY <1>1, <1>5, <1>6 DEF Log
<1> QED BY <1>1, <1>4, <1>7 DEF hands, left

-----------------------------------------------------------------------------
\* Steps that leave the replies alone, but that a reply may be broken or missed by them.
LEMMA EgressRests ==
  ASSUME ConnectorInv, UNCHANGED <<connector, posts>>, jobs' \subseteq jobs,
         connectorLog'.sent = connectorLog.sent, connectorLog'.refusals = connectorLog.refusals,
         connectorLog'.resent = connectorLog.resent,
         connectorLog.missed \subseteq connectorLog'.missed,
         connectorLog.broken \subseteq connectorLog'.broken,
         jobs' = jobs \/ {j.reply : j \in jobs} \subseteq connectorLog'.broken
  PROVE  EgressInv'
<1>1. JobsSingle'
  <2>1. \A j \in jobs : JobCounted(j)'
    BY DEF ConnectorInv, EgressInv, JobsSingle, JobCounted
  <2> QED BY <2>1 DEF ConnectorInv, EgressInv, JobsSingle
<1>2. EgressOnce'
  <2>1. ResendBound' = ResendBound /\ \A r : RefusedEnough(r)' <=> RefusedEnough(r)
    BY DEF ResendBound, RefusedEnough
  <2> SUFFICES ASSUME NEW r \in connectorLog.sent
               PROVE  /\ posts[r] <= 1 + connectorLog.resent[r]
                      /\ connectorLog.resent[r] <= ResendBound
                      /\ \/ posts[r] > 0
                         \/ r \in connectorLog'.missed \cup connectorLog'.broken \cup {j.reply : j \in jobs'}
                         \/ RefusedEnough(r)
    BY <2>1 DEF EgressOnce
  <2>2. /\ posts[r] <= 1 + connectorLog.resent[r] /\ connectorLog.resent[r] <= ResendBound
        /\ \/ posts[r] > 0
           \/ r \in connectorLog.missed \cup connectorLog.broken \cup {j.reply : j \in jobs}
           \/ RefusedEnough(r)
    BY DEF ConnectorInv, EgressInv, EgressOnce
  <2>3. r \in {j.reply : j \in jobs} => r \in connectorLog'.broken \cup {j.reply : j \in jobs'}
    OBVIOUS
  <2> QED BY <2>2, <2>3
<1> QED BY <1>1, <1>2 DEF EgressInv

\* What a library repeats in the calls of one send stays below the bound.
LEMMA Repeats ==
  ASSUME NEW n \in Nat, NEW t \in 1..n, NEW l \in Nat, NEW a \in 0..l
  PROVE  (t - 1) * l + a <= t * l /\ t * l <= n * l /\ t * l \in Nat /\ n * l \in Nat
<1>1. (t - 1) * l + l = t * l
  OBVIOUS
<1>2. PICK d \in Nat : n = t + d
  <2>1. n - t \in Nat /\ n = t + (n - t)
    OBVIOUS
  <2> QED BY <2>1
<1>3. n * l = t * l + d * l /\ d * l \in Nat /\ t * l \in Nat /\ (t - 1) * l \in Nat
  BY <1>2
<1> QED BY <1>1, <1>3

LEMMA RepeatsTyped ==
  ASSUME ConnectorTypeOK
  PROVE  /\ LibraryRepeats[connector] \in Nat /\ ResendBound \in Nat
         /\ connector = "discord" => LibraryRepeats[connector] = DiscordRepeats
         /\ ResendBound = (IF connector = "slack" THEN SendAttempts ELSE 1) * LibraryRepeats[connector]
<1>1. connector \in {"email", "slack", "telegram", "discord", "run"}
  BY ConnectorsAssumption DEF ConnectorTypeOK
<1>2. LibraryRepeats[connector] \in Nat
  BY <1>1, ConnectorsAssumption DEF LibraryRepeats
<1>3. ResendBound \in Nat
  <2>1. \A a, b \in Nat : a * b \in Nat
    OBVIOUS
  <2> QED BY <1>2, <2>1, ConnectorsAssumption DEF ResendBound
<1>4. connector = "discord" => LibraryRepeats[connector] = DiscordRepeats
  BY DEF LibraryRepeats
<1> QED BY <1>2, <1>3, <1>4 DEF ResendBound

\* A reply comes: at most one handler understands it.
LEMMA ReplyStep ==
  ASSUME ConnectorInv, NEW r \in Replies, Reply(r)
  PROVE  EgressInv'
<1> DEFINE heard == {via \in subscribed : /\ server /\ (via = "main" => client = "open")
                                          /\ Understands(via, r)}
           new == {[reply |-> r, via |-> via, tries |-> 1, again |-> 0] : via \in heard}
<1>1. /\ r \notin connectorLog.sent /\ jobs' = jobs \cup new
      /\ connectorLog' = [connectorLog EXCEPT !.sent = @ \cup {r},
                             !.missed = @ \cup (IF heard = {} THEN {r} ELSE {})]
      /\ UNCHANGED <<connector, posts>>
  BY DEF Reply
<1>2. \A j \in new : j.reply = r /\ j.tries = 1 /\ j.again = 0
  OBVIOUS
<1>3. \A j, k \in new : j = k
  <2>1. \A v, w \in heard : v = w
    BY DEF Understands, ConnectorInv, ConnectorTypeOK
  <2> QED BY <2>1
<1>4. heard # {} => \E j \in new : j.reply = r
  <2>1. ASSUME NEW via \in heard PROVE \E j \in new : j.reply = r
    <3>1. [reply |-> r, via |-> via, tries |-> 1, again |-> 0] \in new
      OBVIOUS
    <3> QED BY <3>1
  <2> QED BY <2>1
<1>5. connectorLog \in Log /\ posts \in [Replies -> Nat] /\ jobs \subseteq Jobs
  BY DEF ConnectorInv, ConnectorTypeOK, Log, Jobs
<1> DEFINE lost == IF heard = {} THEN {r} ELSE {}
<1>6. (lost = {r} \/ \E j \in new : j.reply = r) /\ lost \subseteq {r}
  BY <1>4
<1>7. connectorLog' = [connectorLog EXCEPT !.sent = @ \cup {r}, !.missed = @ \cup lost]
  BY <1>1
<1> HIDE DEF heard, new, lost
<1>8. /\ connectorLog'.sent = connectorLog.sent \cup {r}
      /\ connectorLog'.missed = connectorLog.missed \cup lost
      /\ connectorLog'.broken = connectorLog.broken /\ connectorLog'.refusals = connectorLog.refusals
      /\ connectorLog'.resent = connectorLog.resent
      /\ connectorLog.refusals \in [Replies -> Nat]
  BY <1>5, <1>7 DEF Log
<1>9. posts[r] = 0 /\ connectorLog.resent[r] = 0 /\ \A j \in jobs : j.reply # r
  BY <1>1 DEF ConnectorInv, EgressInv, JobsSingle, JobCounted
<1>10. LibraryRepeats[connector] \in Nat /\ ResendBound \in Nat
  BY RepeatsTyped DEF ConnectorInv
<1>11. JobsSingle'
  <2>1. \A j, k \in jobs' : j.reply = k.reply => j = k
    BY <1>1, <1>2, <1>3, <1>9 DEF ConnectorInv, EgressInv, JobsSingle
  <2>2. ASSUME NEW j \in jobs' PROVE JobCounted(j)'
    <3>1. CASE j \in jobs
      BY <1>1, <1>8, <3>1 DEF ConnectorInv, EgressInv, JobsSingle, JobCounted
    <3>2. CASE j \in new
      <4>1. connectorLog.refusals[r] \in Nat /\ (1 - 1) * LibraryRepeats[connector] + 0 = 0
        BY <1>8, <1>10
      <4> QED BY <1>1, <1>2, <1>8, <1>9, <3>2, <4>1 DEF JobCounted
    <3> QED BY <1>1, <3>1, <3>2
  <2>3. \A x \in Replies \ connectorLog'.sent : posts[x] = 0 /\ connectorLog.resent[x] = 0
    BY <1>8 DEF ConnectorInv, EgressInv, JobsSingle
  <2> QED BY <1>1, <1>8, <2>1, <2>2, <2>3 DEF JobsSingle
<1>12. EgressOnce'
  <2>1. ResendBound' = ResendBound /\ \A x : RefusedEnough(x)' <=> RefusedEnough(x)
    BY <1>1, <1>8 DEF ResendBound, RefusedEnough
  <2> SUFFICES ASSUME NEW x \in connectorLog.sent \cup {r}
               PROVE  /\ posts[x] <= 1 + connectorLog.resent[x]
                      /\ connectorLog.resent[x] <= ResendBound
                      /\ \/ posts[x] > 0
                         \/ x \in connectorLog'.missed \cup connectorLog'.broken \cup {j.reply : j \in jobs'}
                         \/ RefusedEnough(x)
    BY <1>1, <1>8, <2>1 DEF EgressOnce
  <2>2. CASE x = r
    <3>1. r \in connectorLog'.missed \cup {j.reply : j \in jobs'}
      BY <1>1, <1>6, <1>8
    <3> QED BY <1>9, <1>10, <2>2, <3>1
  <2>3. CASE x \in connectorLog.sent
    <3>1. {j.reply : j \in jobs} \subseteq {j.reply : j \in jobs'}
      BY <1>1
    <3> QED BY <1>8, <2>3, <3>1 DEF ConnectorInv, EgressInv, EgressOnce
  <2> QED BY <2>2, <2>3
<1> QED BY <1>11, <1>12 DEF EgressInv

\* A step of one job, whose reply then has no job or the one job next.
LEMMA JobMoves ==
  ASSUME ConnectorInv, NEW j \in jobs, NEW next, UNCHANGED connector,
         jobs' = (jobs \ {j}) \cup next,
         \A k \in next : k.reply = j.reply /\ JobCounted(k)',
         \A k, l \in next : k = l,
         connectorLog'.sent = connectorLog.sent, connectorLog'.missed = connectorLog.missed,
         connectorLog.broken \subseteq connectorLog'.broken,
         connectorLog'.broken \subseteq connectorLog.broken \cup {j.reply},
         \A x \in Replies \ {j.reply} : /\ posts'[x] = posts[x]
                                        /\ connectorLog'.refusals[x] = connectorLog.refusals[x]
                                        /\ connectorLog'.resent[x] = connectorLog.resent[x],
         posts'[j.reply] <= 1 + connectorLog'.resent[j.reply],
         connectorLog'.resent[j.reply] <= ResendBound,
         \/ posts'[j.reply] > 0 \/ next # {} \/ j.reply \in connectorLog'.broken
         \/ RefusedEnough(j.reply)'
  PROVE  EgressInv'
<1>1. /\ connectorLog \in Log /\ jobs \subseteq Jobs /\ j.reply \in Replies
      /\ \A k \in jobs : k.reply \in Replies
  BY DEF ConnectorInv, ConnectorTypeOK, Log, Jobs
<1>2. /\ \A k, l \in jobs : k.reply = l.reply => k = l
      /\ \A k \in jobs : JobCounted(k)
      /\ \A x \in Replies \ connectorLog.sent : posts[x] = 0 /\ connectorLog.resent[x] = 0
  BY DEF ConnectorInv, EgressInv, JobsSingle
<1>3. \A k \in jobs \ {j} : k.reply \in Replies \ {j.reply}
  BY <1>1, <1>2
<1>4. JobsSingle'
  <2>1. \A k, l \in jobs' : k.reply = l.reply => k = l
    BY <1>2, <1>3
  <2>2. ASSUME NEW k \in jobs \ {j} PROVE JobCounted(k)'
    <3>1. /\ posts'[k.reply] = posts[k.reply]
          /\ connectorLog'.refusals[k.reply] = connectorLog.refusals[k.reply]
          /\ connectorLog'.resent[k.reply] = connectorLog.resent[k.reply]
      BY <1>3
    <3> QED BY <1>2, <3>1 DEF JobCounted
  <2>3. \A x \in Replies \ connectorLog'.sent : posts'[x] = 0 /\ connectorLog'.resent[x] = 0
    <3>1. j.reply \in connectorLog.sent
      BY <1>2 DEF JobCounted
    <3> QED BY <1>2, <3>1
  <2>4. \A k \in jobs' : JobCounted(k)'
    BY <2>2
  <2> QED BY <2>1, <2>3, <2>4 DEF JobsSingle
<1>5. EgressOnce'
  <2>1. ResendBound' = ResendBound
    BY DEF ResendBound
  <2> SUFFICES ASSUME NEW x \in connectorLog.sent
               PROVE  /\ posts'[x] <= 1 + connectorLog'.resent[x]
                      /\ connectorLog'.resent[x] <= ResendBound
                      /\ \/ posts'[x] > 0
                         \/ x \in connectorLog'.missed \cup connectorLog'.broken \cup {k.reply : k \in jobs'}
                         \/ RefusedEnough(x)'
    BY <2>1 DEF EgressOnce
  <2>2. CASE x = j.reply
    <3>1. ASSUME next # {} PROVE x \in {k.reply : k \in jobs'}
      <4>1. PICK k \in next : TRUE
        BY <3>1
      <4>2. k \in jobs' /\ k.reply = x
        BY <2>2, <4>1
      <4> QED BY <4>2
    <3> QED BY <2>2, <3>1
  <2>3. CASE x # j.reply
    <3>1. x \in Replies
      BY <1>1 DEF Log
    <3>2. /\ posts'[x] = posts[x] /\ connectorLog'.resent[x] = connectorLog.resent[x]
          /\ connectorLog'.refusals[x] = connectorLog.refusals[x]
      BY <2>3, <3>1
    <3>3. RefusedEnough(x)' <=> RefusedEnough(x)
      BY <3>2 DEF RefusedEnough
    <3>4. /\ posts[x] <= 1 + connectorLog.resent[x] /\ connectorLog.resent[x] <= ResendBound
          /\ \/ posts[x] > 0
             \/ x \in connectorLog.missed \cup connectorLog.broken \cup {k.reply : k \in jobs}
             \/ RefusedEnough(x)
      BY DEF ConnectorInv, EgressInv, EgressOnce
    <3>5. x \in {k.reply : k \in jobs} => x \in {k.reply : k \in jobs'}
      BY <2>3
    <3> QED BY <3>2, <3>3, <3>4, <3>5
  <2> QED BY <2>2, <2>3
<1> QED BY <1>4, <1>5 DEF EgressInv

\* A job ends, posted or failed or both; its library repeats the request; or the platform
\* refuses, and the connector or the library tries again.
LEMMA JobStep ==
  ASSUME ConnectorInv, NEW j \in jobs, Send(j) \/ Resend(j) \/ RateLimited(j)
  PROVE  EgressInv'
<1>1. /\ connectorLog \in Log /\ posts \in [Replies -> Nat] /\ jobs \subseteq Jobs /\ j \in Jobs
      /\ connectorLog.refusals \in [Replies -> Nat] /\ connectorLog.resent \in [Replies -> Nat]
      /\ SendAttempts \in Nat \ {0} /\ DiscordRepeats \in Nat
  BY ConnectorsAssumption DEF ConnectorInv, ConnectorTypeOK, Log, Jobs
<1> PICK r \in Replies, t \in 1..SendAttempts, a \in 0..LibraryRepeats[connector] :
      r = j.reply /\ t = j.tries /\ a = j.again
  BY <1>1 DEF Jobs
<1> PICK l \in Nat : l = LibraryRepeats[connector] /\ (connector = "discord" => l = DiscordRepeats)
  BY RepeatsTyped DEF ConnectorInv
<1>2. /\ r \in connectorLog.sent
      /\ posts[r] <= connectorLog.resent[r] /\ connectorLog.resent[r] <= (t - 1) * l + a
      /\ IF connector = "slack" THEN connectorLog.refusals[r] + 1 >= t
         ELSE t = 1 /\ connectorLog.refusals[r] + connectorLog.resent[r] >= a
      /\ posts[r] \in Nat /\ connectorLog.resent[r] \in Nat /\ connectorLog.refusals[r] \in Nat
      /\ a \in 0..l
  <2>1. JobCounted(j)
    BY DEF ConnectorInv, EgressInv, JobsSingle
  <2> QED BY <1>1, <2>1 DEF JobCounted
<1>3. /\ (t - 1) * l + a <= t * l /\ t * l \in Nat /\ (t - 1) * l \in Nat
      /\ t * l <= ResendBound /\ ResendBound \in Nat
  <2>1. SendAttempts \in Nat /\ (t - 1) * l + a <= t * l /\ t * l <= SendAttempts * l /\ t * l \in Nat
    BY <1>1, <1>2, Repeats
  <2>2. ResendBound \in Nat /\ ResendBound = (IF connector = "slack" THEN SendAttempts ELSE 1) * l
    BY RepeatsTyped DEF ConnectorInv
  <2>3. (t - 1) * l \in Nat
    <3>1. t - 1 \in Nat
      BY <1>1
    <3>2. \A m, n \in Nat : m * n \in Nat
      OBVIOUS
    <3> QED BY <3>1, <3>2
  <2>4. connector = "slack" \/ t = 1
    BY <1>2
  <2>5. t * l <= ResendBound
    BY <2>1, <2>2, <2>4
  <2> QED BY <2>1, <2>2, <2>3, <2>5
<1>4. ASSUME Send(j) PROVE EgressInv'
  <2> PICK posted \in BOOLEAN, failed \in BOOLEAN :
        /\ posted \/ failed
        /\ posts' = IF posted THEN [posts EXCEPT ![r] = @ + 1] ELSE posts
        /\ connectorLog' = [connectorLog EXCEPT
             !.broken = @ \cup (IF failed THEN {r} ELSE {}),
             !.faults = @ + (IF failed /\ CanPost THEN 1 ELSE 0)]
    BY <1>4 DEF Send, Posted
  <2>1. jobs' = (jobs \ {j}) \cup {} /\ connector' = connector
    BY <1>4 DEF Send
  <2>2. /\ connectorLog'.sent = connectorLog.sent /\ connectorLog'.missed = connectorLog.missed
        /\ connectorLog'.broken = connectorLog.broken \cup (IF failed THEN {r} ELSE {})
        /\ connectorLog'.refusals = connectorLog.refusals
        /\ connectorLog'.resent = connectorLog.resent
    BY <1>1 DEF Log
  <2>3. posts'[r] = posts[r] + (IF posted THEN 1 ELSE 0)
        /\ \A x \in Replies \ {r} : posts'[x] = posts[x]
    BY <1>1, <1>2
  <2>4. posts'[r] <= 1 + connectorLog'.resent[r] /\ connectorLog'.resent[r] <= ResendBound
    BY <1>2, <1>3, <2>2, <2>3
  <2>5. posts'[r] > 0 \/ r \in connectorLog'.broken
    BY <1>2, <2>2, <2>3
  <2> DEFINE none == {}
  <2>6. jobs' = (jobs \ {j}) \cup none /\ \A k, m \in none : k = m
    BY <2>1
  <2>7. \A k \in none : k.reply = j.reply /\ JobCounted(k)'
    OBVIOUS
  <2>8. r = j.reply /\ connectorLog'.broken \subseteq connectorLog.broken \cup {r}
    BY <2>2
  <2> HIDE DEF none
  <2> QED BY <2>1, <2>2, <2>3, <2>4, <2>5, <2>6, <2>7, <2>8, JobMoves
<1>5. ASSUME Resend(j) PROVE EgressInv'
  <2> DEFINE more == [j EXCEPT !.again = @ + 1]
             log == [connectorLog EXCEPT !.resent[r] = @ + 1]
  <2>1. /\ jobs' = (jobs \ {j}) \cup {more} /\ connector' = connector
        /\ posts' \in {posts, [posts EXCEPT ![r] = @ + 1]}
        /\ connectorLog' = WithFault(log) /\ a < l
    BY <1>5 DEF Resend, Posted
  <2>2. more.reply = r /\ more.tries = t /\ more.again = a + 1
    BY <1>1 DEF Jobs
  <2>3. /\ log \in Log /\ log.sent = connectorLog.sent /\ log.missed = connectorLog.missed
        /\ log.broken = connectorLog.broken /\ log.refusals = connectorLog.refusals
        /\ log.resent = [connectorLog.resent EXCEPT ![r] = @ + 1]
    <3> DEFINE counts == [connectorLog.resent EXCEPT ![r] = @ + 1]
    <3>1. counts \in [Replies -> Nat] /\ log = [connectorLog EXCEPT !.resent = counts]
      BY <1>1
    <3> HIDE DEF counts, log
    <3>2. /\ log \in Log /\ log.sent = connectorLog.sent /\ log.missed = connectorLog.missed
          /\ log.broken = connectorLog.broken /\ log.refusals = connectorLog.refusals
          /\ log.resent = counts
      BY <1>1, <3>1 DEF Log
    <3> QED BY <3>2 DEF counts
  <2> HIDE DEF more, log
  <2>4. /\ connectorLog'.sent = connectorLog.sent /\ connectorLog'.missed = connectorLog.missed
        /\ connectorLog'.broken = connectorLog.broken /\ connectorLog'.refusals = connectorLog.refusals
        /\ connectorLog'.resent = [connectorLog.resent EXCEPT ![r] = @ + 1]
    <3>1. ConnectorTypeOK
      BY DEF ConnectorInv
    <3> QED BY <2>1, <2>3, <3>1, LogSteps
  <2>5. /\ connectorLog'.resent[r] = connectorLog.resent[r] + 1
        /\ posts'[r] \in {posts[r], posts[r] + 1}
        /\ \A x \in Replies \ {r} : /\ posts'[x] = posts[x]
                                    /\ connectorLog'.resent[x] = connectorLog.resent[x]
    BY <1>1, <2>1, <2>4
  <2>6. /\ posts'[r] <= connectorLog'.resent[r] /\ connectorLog'.resent[r] <= (t - 1) * l + (a + 1)
        /\ connector # "slack" =>
             t = 1 /\ connectorLog'.refusals[r] + connectorLog'.resent[r] >= a + 1
    BY <1>2, <1>3, <2>4, <2>5
  <2>7. JobCounted(more)'
    BY <1>2, <2>1, <2>2, <2>4, <2>6 DEF JobCounted
  <2>8. posts'[r] <= 1 + connectorLog'.resent[r] /\ connectorLog'.resent[r] <= ResendBound
    <3>1. a + 1 \in 0..l
      BY <1>2, <2>1
    <3>2. (t - 1) * l + (a + 1) <= t * l
      BY <1>1, <3>1, Repeats
    <3> QED BY <1>2, <1>3, <2>5, <2>6, <3>2
  <2> DEFINE next == {more}
  <2>9. /\ jobs' = (jobs \ {j}) \cup next /\ (\A k, m \in next : k = m) /\ next # {}
        /\ \A k \in next : k.reply = j.reply /\ JobCounted(k)'
    BY <2>1, <2>2, <2>7
  <2> HIDE DEF next
  <2> QED BY <2>1, <2>4, <2>5, <2>8, <2>9, JobMoves
<1>6. ASSUME RateLimited(j) PROVE EgressInv'
  <2>1. /\ jobs' = (jobs \ {j}) \cup Retried(j) /\ connector' = connector
        /\ connectorLog' = [connectorLog EXCEPT !.refusals[r] = @ + 1]
        /\ posts' = posts
    BY <1>6 DEF RateLimited
  <2>2. /\ connectorLog'.sent = connectorLog.sent /\ connectorLog'.missed = connectorLog.missed
        /\ connectorLog'.broken = connectorLog.broken /\ connectorLog'.resent = connectorLog.resent
        /\ connectorLog'.refusals = [connectorLog.refusals EXCEPT ![r] = @ + 1]
    BY <1>1, <2>1 DEF Log
  <2>3. connectorLog'.refusals[r] = connectorLog.refusals[r] + 1
        /\ \A x \in Replies \ {r} : connectorLog'.refusals[x] = connectorLog.refusals[x]
    BY <1>1, <2>2
  <2>4. posts'[r] <= 1 + connectorLog'.resent[r] /\ connectorLog'.resent[r] <= ResendBound
    BY <1>2, <1>3, <2>1, <2>2
  <2>5. CASE connector = "slack" /\ t < SendAttempts
    <3> DEFINE more == [j EXCEPT !.tries = @ + 1, !.again = 0]
    <3>1. Retried(j) = {more}
      BY <2>5 DEF Retried
    <3>2. more.reply = r /\ more.tries = t + 1 /\ more.again = 0
      BY <1>1 DEF Jobs
    <3> HIDE DEF more
    <3>3. connectorLog.resent[r] <= (t + 1 - 1) * l + 0
      <4>1. (t + 1 - 1) * l + 0 = t * l
        BY <1>1
      <4> QED BY <1>2, <1>3, <4>1
    <3>4. connectorLog'.refusals[r] + 1 >= t + 1
      BY <1>1, <1>2, <2>3, <2>5
    <3>5. JobCounted(more)'
      BY <1>2, <2>1, <2>2, <2>5, <3>2, <3>3, <3>4 DEF JobCounted
    <3> QED BY <2>1, <2>2, <2>3, <2>4, <3>1, <3>2, <3>5, JobMoves
  <2>6. CASE connector = "discord" /\ a < DiscordRepeats
    <3> DEFINE more == [j EXCEPT !.again = @ + 1]
    <3>1. Retried(j) = {more}
      BY <2>6 DEF Retried
    <3>2. more.reply = r /\ more.tries = t /\ more.again = a + 1
      BY <1>1 DEF Jobs
    <3> HIDE DEF more
    <3>3. /\ connectorLog.resent[r] <= (t - 1) * l + (a + 1)
          /\ t = 1 /\ connectorLog'.refusals[r] + connectorLog.resent[r] >= a + 1
      BY <1>1, <1>2, <1>3, <2>3, <2>6
    <3>4. JobCounted(more)'
      BY <1>2, <2>1, <2>2, <2>6, <3>2, <3>3 DEF JobCounted
    <3> QED BY <2>1, <2>2, <2>3, <2>4, <3>1, <3>2, <3>4, JobMoves
  <2>7. CASE ~(connector = "slack" /\ t < SendAttempts) /\ ~(connector = "discord" /\ a < DiscordRepeats)
    <3>1. Retried(j) = {}
      BY <2>7 DEF Retried
    <3>2. connector = "slack" => connectorLog'.refusals[r] >= SendAttempts
      BY <1>1, <1>2, <2>3, <2>7
    <3>3. connector # "slack" => connectorLog'.refusals[r] + connectorLog'.resent[r] > l
      <4>1. connector \in {"email", "slack", "telegram", "discord", "run"}
        BY ConnectorsAssumption DEF ConnectorInv, ConnectorTypeOK
      <4>2. connector \notin {"slack", "discord"} => l = 0
        BY <4>1 DEF LibraryRepeats
      <4>3. connector # "slack" => a = l
        BY <1>1, <1>2, <2>7, <4>2
      <4> QED BY <1>2, <2>2, <2>3, <4>3
    <3>4. RefusedEnough(r)'
      BY <2>1, <3>2, <3>3 DEF RefusedEnough
    <3> QED BY <2>1, <2>2, <2>3, <2>4, <3>1, <3>4, JobMoves
  <2> QED BY <2>5, <2>6, <2>7
<1> QED BY <1>4, <1>5, <1>6

-----------------------------------------------------------------------------
\* Steps that only add to what is named as harmed or missed, and move no event.
LEMMA IngressRests ==
  ASSUME ConnectorInv, UNCHANGED <<connector, events, working, buffered, published>>,
         connectorLog'.offered = connectorLog.offered,
         connectorLog'.repeats = connectorLog.repeats,
         connectorLog.missed \subseteq connectorLog'.missed,
         connectorLog.logged \subseteq connectorLog'.logged,
         connectorLog.harmed \subseteq connectorLog'.harmed,
         poll' # "none" => connector \in {"email", "run"},
         Sound' = Sound \/ Sound' \/ working \subseteq connectorLog'.harmed
  PROVE  IngressInv'
<1>1. EventsCounted'
  BY DEF ConnectorInv, IngressInv, EventsCounted, InHand, Here
<1>2. CutOffHarmed'
  BY DEF ConnectorInv, IngressInv, CutOffHarmed
<1>3. Offered' = Offered
  BY DEF Offered, Copies
<1>4. IngressKept'
  BY <1>3 DEF ConnectorInv, IngressInv, IngressKept, InHand
<1> QED BY <1>1, <1>2, <1>4 DEF IngressInv

\* Facts about the invariant, for steps that move events.
LEMMA IngressFacts ==
  ASSUME ConnectorInv
  PROVE  /\ connectorLog \in Log /\ published \in [PlatformEvents -> Nat]
         /\ events \subseteq PlatformEvents /\ InHand \subseteq PlatformEvents
         /\ working \subseteq PlatformEvents /\ buffered \subseteq PlatformEvents
         /\ connectorLog.repeats \in Nat
         /\ \A e \in PlatformEvents :
              /\ published[e] \in Nat
              /\ published[e] + Here(e, buffered) + Here(e, working) + Here(e, events)
                   <= 1 + connectorLog.repeats
              /\ e \in events \cup InHand \/ published[e] > 0 => e[1] \in connectorLog.offered
         /\ \A e \in Offered :
              \/ e \in events \cup InHand \cup connectorLog.missed \cup connectorLog.harmed
              \/ connector = "run" /\ e \in connectorLog.logged
              \/ published[e] > 0
         /\ Offered \subseteq PlatformEvents
<1>1. connectorLog.offered \subseteq Inbound
  BY DEF ConnectorInv, ConnectorTypeOK
<1>2. Offered \subseteq PlatformEvents
  BY <1>1, OfferedEvents DEF PlatformEvents
<1>3. connectorLog.repeats \in Nat
  BY DEF ConnectorInv, ConnectorTypeOK
<1> QED BY <1>2, <1>3 DEF ConnectorInv, ConnectorTypeOK, Log, IngressInv, EventsCounted, IngressKept, InHand

\* A step that moves events keeps them, when each of those offered is still somewhere and
\* none has got more copies than redeliveries.
LEMMA EventsMove ==
  ASSUME ConnectorInv, connector' = connector, connectorLog'.offered = connectorLog.offered,
         published' \in [PlatformEvents -> Nat], connectorLog'.repeats \in Nat,
         \A e \in PlatformEvents :
           /\ published'[e] + Here(e, buffered') + Here(e, working') + Here(e, events')
                <= 1 + connectorLog'.repeats
           /\ e \in events' \cup InHand' \/ published'[e] > 0
                => e \in events \cup InHand \/ published[e] > 0
           /\ e \notin Filtered /\ e \in events \cup InHand =>
                \/ e \in events' \cup InHand' \cup connectorLog'.missed \cup connectorLog'.harmed
                \/ connector = "run" /\ e \in connectorLog'.logged
                \/ published'[e] > 0
           /\ published[e] > 0 => published'[e] > 0,
         connectorLog.missed \subseteq connectorLog'.missed,
         connectorLog.logged \subseteq connectorLog'.logged,
         connectorLog.harmed \subseteq connectorLog'.harmed
  PROVE  EventsCounted' /\ IngressKept'
<1>1. \A e \in PlatformEvents :
        e \in events' \cup InHand' \/ published'[e] > 0 => e[1] \in connectorLog.offered
  BY IngressFacts
<1>2. Offered' = Offered
  BY DEF Offered, Copies
<1>3. \A e \in Offered : e \in PlatformEvents /\ e \notin Filtered
  <2> SUFFICES ASSUME NEW e \in Offered PROVE e \notin Filtered
    BY IngressFacts
  <2>1. PICK m \in connectorLog.offered \ Ignored : e[1] = m
    BY OfferedEvents
  <2> QED BY <2>1 DEF Filtered
<1>4. \A e \in PlatformEvents : published'[e] <= 1 + connectorLog'.repeats
  <2> SUFFICES ASSUME NEW e \in PlatformEvents,
                      published'[e] + Here(e, buffered') + Here(e, working') + Here(e, events')
                        <= 1 + connectorLog'.repeats
               PROVE  published'[e] <= 1 + connectorLog'.repeats
    OBVIOUS
  <2>1. published'[e] \in Nat
    OBVIOUS
  <2> QED BY <2>1 DEF Here
<1> QED BY <1>1, <1>2, <1>3, <1>4, IngressFacts DEF EventsCounted, IngressKept

\* The process ends with what it had in hand, or gives up what it buffered.
LEMMA HandsEmptied ==
  ASSUME ConnectorInv,
         UNCHANGED <<connector, events, published>>,
         connectorLog'.offered = connectorLog.offered,
         connectorLog'.repeats = connectorLog.repeats,
         connectorLog.missed \subseteq connectorLog'.missed,
         connectorLog.logged \subseteq connectorLog'.logged,
         connectorLog'.harmed = connectorLog.harmed \cup InHand,
         working' \subseteq working, buffered' = {},
         poll' # "none" => poll # "none"
  PROVE  IngressInv'
<1>1. EventsCounted' /\ IngressKept'
  <2>1. ASSUME NEW e \in PlatformEvents
        PROVE  /\ published'[e] + Here(e, buffered') + Here(e, working') + Here(e, events')
                    <= 1 + connectorLog'.repeats
               /\ e \in events' \cup InHand' \/ published'[e] > 0
                    => e \in events \cup InHand \/ published[e] > 0
               /\ e \notin Filtered /\ e \in events \cup InHand =>
                    \/ e \in events' \cup InHand' \cup connectorLog'.missed \cup connectorLog'.harmed
                    \/ published'[e] > 0
               /\ published[e] > 0 => published'[e] > 0
    <3>1. /\ published[e] + Here(e, buffered) + Here(e, working) + Here(e, events)
               <= 1 + connectorLog.repeats
          /\ published[e] \in Nat /\ connectorLog.repeats \in Nat
      BY IngressFacts
    <3>2. published'[e] + Here(e, buffered') + Here(e, working') + Here(e, events')
            <= 1 + connectorLog'.repeats
      BY <3>1 DEF Here
    <3>3. /\ e \in events' \cup InHand' \/ published'[e] > 0
               => e \in events \cup InHand \/ published[e] > 0
          /\ e \in events \cup InHand =>
               e \in events' \cup InHand' \cup connectorLog'.missed \cup connectorLog'.harmed
      BY DEF InHand
    <3> QED BY <3>2, <3>3
  <2>2. published' \in [PlatformEvents -> Nat] /\ connectorLog'.repeats \in Nat
    BY IngressFacts
  <2> QED BY <2>1, <2>2, EventsMove
<1>2. CutOffHarmed'
  BY DEF ConnectorInv, IngressInv, CutOffHarmed, InHand
<1> QED BY <1>1, <1>2 DEF IngressInv

\* One event passes on: from the platform to a handler, to NATS, to the client's buffer,
\* or nowhere.
LEMMA EventPasses ==
  ASSUME ConnectorInv, NEW e \in PlatformEvents, e \in events \cup working,
         UNCHANGED <<connector, poll, server, client>>,
         connectorLog'.offered = connectorLog.offered,
         connectorLog'.repeats = connectorLog.repeats,
         connectorLog.missed \subseteq connectorLog'.missed,
         connectorLog.logged \subseteq connectorLog'.logged,
         connectorLog.harmed \subseteq connectorLog'.harmed,
         \/ /\ e \in events /\ events' = events \ {e} /\ UNCHANGED <<buffered, published>>
            /\ \/ working' = working /\ e \in Filtered
               \/ /\ working' = working \cup {e}
                  /\ connector \in {"email", "run"} \/ Sound \/ e \in connectorLog'.harmed
         \/ /\ e \in working /\ working' = working \ {e} /\ UNCHANGED events
            /\ \/ published' = [published EXCEPT ![e] = @ + 1] /\ UNCHANGED buffered
               \/ buffered' = buffered \cup {e} /\ UNCHANGED published
               \/ /\ UNCHANGED <<buffered, published>>
                  /\ \/ e \in connectorLog'.harmed
                     \/ connector = "run" /\ e \in connectorLog'.logged
  PROVE  IngressInv'
<1>1. ASSUME NEW x \in PlatformEvents
      PROVE  /\ published'[x] + Here(x, buffered') + Here(x, working') + Here(x, events')
                  <= 1 + connectorLog'.repeats
             /\ x \in events' \cup InHand' \/ published'[x] > 0
                  => x \in events \cup InHand \/ published[x] > 0
             /\ x \notin Filtered /\ x \in events \cup InHand =>
                  \/ x \in events' \cup InHand' \cup connectorLog'.missed \cup connectorLog'.harmed
                  \/ connector = "run" /\ x \in connectorLog'.logged
                  \/ published'[x] > 0
             /\ published[x] > 0 => published'[x] > 0
  <2>1. /\ published[x] + Here(x, buffered) + Here(x, working) + Here(x, events)
             <= 1 + connectorLog.repeats
        /\ published[x] \in Nat /\ connectorLog.repeats \in Nat
        /\ published \in [PlatformEvents -> Nat]
    BY IngressFacts
  <2>2. CASE x # e
    <3>1. /\ published'[x] = published[x]
          /\ x \in events' <=> x \in events
          /\ x \in working' <=> x \in working
          /\ x \in buffered' <=> x \in buffered
      BY <2>1, <2>2
    <3> QED BY <2>1, <3>1 DEF Here, InHand
  <2>3. CASE x = e
    <3>1. CASE e \in events /\ events' = events \ {e} /\ UNCHANGED <<buffered, published>>
               /\ working' \in {working, working \cup {e}}
               /\ (working' = working => e \in Filtered \/ e \in working)
      BY <2>1, <2>3, <3>1 DEF Here, InHand
    <3>2. CASE e \in working /\ working' = working \ {e} /\ UNCHANGED events
      BY <2>1, <2>3, <3>2 DEF Here, InHand
    <3> QED BY <3>1, <3>2
  <2> QED BY <2>2, <2>3
<1>2. published' \in [PlatformEvents -> Nat] /\ connectorLog'.repeats \in Nat
  BY IngressFacts
<1>3. EventsCounted' /\ IngressKept'
  BY <1>1, <1>2, EventsMove
<1>4. CutOffHarmed'
  BY DEF ConnectorInv, IngressInv, CutOffHarmed, Sound
<1> QED BY <1>3, <1>4 DEF IngressInv

\* Someone writes: new events, or ones that nobody receives.
LEMMA OfferStep ==
  ASSUME ConnectorInv, NEW m \in Inbound, Offer(m)
  PROVE  IngressInv'
<1> PICK lost \in BOOLEAN :
      /\ events' = IF lost THEN events ELSE events \cup Copies(m)
      /\ connectorLog' = [connectorLog EXCEPT !.offered = @ \cup {m},
                             !.missed = @ \cup (IF lost THEN Copies(m) ELSE {})]
  BY DEF Offer
<1>1. /\ m \notin connectorLog.offered
      /\ UNCHANGED <<connector, server, client, working, buffered, published, poll>>
  BY DEF Offer, processVars
<1>2. /\ connectorLog'.offered = connectorLog.offered \cup {m}
      /\ connectorLog'.missed = connectorLog.missed \cup (IF lost THEN Copies(m) ELSE {})
      /\ connectorLog'.harmed = connectorLog.harmed /\ connectorLog'.repeats = connectorLog.repeats
      /\ connectorLog'.logged = connectorLog.logged
  BY IngressFacts DEF Log
<1>3. Copies(m) \subseteq PlatformEvents /\ \A e \in Copies(m) : e[1] = m
  BY OfferedEvents DEF PlatformEvents
<1>4. ASSUME NEW e \in Copies(m)
      PROVE  published[e] = 0 /\ e \notin events \cup InHand
  BY <1>1, <1>3, IngressFacts
<1>5. EventsCounted'
  <2> SUFFICES ASSUME NEW e \in PlatformEvents
               PROVE  /\ published[e] + Here(e, buffered) + Here(e, working) + Here(e, events')
                           <= 1 + connectorLog.repeats
                      /\ e \in events' \cup InHand \/ published[e] > 0 => e[1] \in connectorLog'.offered
    BY <1>1, <1>2 DEF EventsCounted, InHand, Here
  <2>1. CASE e \in Copies(m)
    <3>1. connectorLog.repeats \in Nat
      BY IngressFacts
    <3> QED BY <1>2, <1>3, <1>4, <2>1, <3>1 DEF Here, InHand
  <2>2. CASE e \notin Copies(m)
    BY <1>2, <2>2, IngressFacts DEF Here
  <2> QED BY <2>1, <2>2
<1>6. CutOffHarmed'
  BY <1>1, <1>2 DEF ConnectorInv, IngressInv, CutOffHarmed, Sound
<1>7. IngressKept'
  <2>1. ASSUME NEW e \in Offered'
        PROVE  \/ e \in events' \cup InHand \cup connectorLog'.missed \cup connectorLog'.harmed
               \/ connector = "run" /\ e \in connectorLog.logged
               \/ published[e] > 0
    <3>1. CASE e \in Offered
      BY <1>2, <3>1, IngressFacts
    <3>2. CASE e \notin Offered
      <4>1. e \in Copies(m)
        <5>1. Offered' = Offered \cup UNION {Copies(n) : n \in {m} \ Ignored}
          BY <1>1, <1>2 DEF Offered, Copies
        <5> QED BY <3>2, <5>1
      <4> QED BY <1>2, <4>1
    <3> QED BY <3>1, <3>2
  <2>2. \A e \in PlatformEvents : published[e] <= 1 + connectorLog.repeats
    BY DEF ConnectorInv, IngressInv, IngressKept
  <2> QED BY <1>1, <1>2, <2>1, <2>2 DEF IngressKept, InHand
<1> QED BY <1>5, <1>6, <1>7 DEF IngressInv

\* Steps of the process and of the connections to both sides.
LEMMA ProcessIngress ==
  ASSUME ConnectorInv,
         \/ StartStep \/ Stop \/ Drain \/ Crash \/ ServerDown \/ ServerUp \/ ClientCloses
         \/ PollStarts
  PROVE  IngressInv'
<1>1. /\ connectorLog \in Log /\ Harm(connectorLog) \in Log /\ working \subseteq InHand
      /\ ConnectorTypeOK
  BY LogSteps DEF ConnectorInv, InHand
<1>2. CASE StartStep
  <2> PICK step : step = Startup[connector][started + 1]
    OBVIOUS
  <2>1. /\ UNCHANGED <<connector, server, working, buffered, published>>
        /\ client' \in {"open", client} /\ poll' \in {"scheduled", poll}
        /\ poll' # poll => connector \in {"email", "run"}
        /\ \/ UNCHANGED <<events, connectorLog>>
           \/ /\ events' = {} /\ connectorLog' = [connectorLog EXCEPT !.missed = @ \cup events]
    BY <1>2 DEF StartStep, SchedulesPoll, DropsPending
  <2>2. poll' # "none" => connector \in {"email", "run"}
    BY <2>1 DEF ConnectorInv, IngressInv, CutOffHarmed
  <2>3. Sound' = Sound \/ Sound'
    BY <2>1 DEF Sound
  <2>4. CASE UNCHANGED <<events, connectorLog>>
    BY <2>1, <2>2, <2>3, <2>4, IngressRests
  <2>5. CASE events' = {} /\ connectorLog' = [connectorLog EXCEPT !.missed = @ \cup events]
    <3>1. /\ connectorLog'.missed = connectorLog.missed \cup events
          /\ connectorLog'.harmed = connectorLog.harmed
          /\ connectorLog'.offered = connectorLog.offered
          /\ connectorLog'.repeats = connectorLog.repeats
          /\ connectorLog'.logged = connectorLog.logged
      BY <1>1, <2>5 DEF Log
    <3>2. EventsCounted' /\ IngressKept'
      <4>1. ASSUME NEW e \in PlatformEvents
            PROVE  /\ published'[e] + Here(e, buffered') + Here(e, working') + Here(e, events')
                        <= 1 + connectorLog'.repeats
                   /\ e \in events' \cup InHand' \/ published'[e] > 0
                        => e \in events \cup InHand \/ published[e] > 0
                   /\ e \notin Filtered /\ e \in events \cup InHand =>
                        \/ e \in events' \cup InHand' \cup connectorLog'.missed \cup connectorLog'.harmed
                        \/ published'[e] > 0
                   /\ published[e] > 0 => published'[e] > 0
        <5>1. /\ published[e] + Here(e, buffered) + Here(e, working) + Here(e, events)
                   <= 1 + connectorLog.repeats
              /\ published[e] \in Nat /\ connectorLog.repeats \in Nat
          BY IngressFacts
        <5> QED BY <2>1, <2>5, <3>1, <5>1 DEF Here, InHand
      <4>2. published' \in [PlatformEvents -> Nat] /\ connectorLog'.repeats \in Nat
        BY <2>1, <3>1, IngressFacts
      <4> QED BY <2>1, <3>1, <4>1, <4>2, EventsMove
    <3>3. CutOffHarmed'
      BY <2>1, <2>2, <2>3, <3>1 DEF ConnectorInv, IngressInv, CutOffHarmed
    <3> QED BY <3>2, <3>3 DEF IngressInv
  <2> QED BY <2>1, <2>4, <2>5
<1>3. CASE Stop
  <2>1. /\ UNCHANGED <<connector, events, working, buffered, published, poll, server, client>>
        /\ connectorLog' = Harm(connectorLog)
    BY <1>3 DEF Stop
  <2>2. Sound' = Sound
    BY <2>1 DEF Sound
  <2>3. poll' # "none" => connector \in {"email", "run"}
    BY <2>1 DEF ConnectorInv, IngressInv, CutOffHarmed
  <2> QED BY <1>1, <2>1, <2>2, <2>3, LogSteps, IngressRests
<1>4. CASE Drain \/ Crash
  <2>1. /\ UNCHANGED <<connector, events, published>> /\ working' = {} /\ buffered' = {}
        /\ poll' = "none"
        /\ connectorLog' \in {Harm(connectorLog), WithFault(Harm(connectorLog))}
    BY <1>4 DEF Drain, Crash, Ended
  <2>2. /\ connectorLog'.offered = connectorLog.offered
        /\ connectorLog'.repeats = connectorLog.repeats
        /\ connectorLog'.missed = connectorLog.missed
        /\ connectorLog'.harmed = connectorLog.harmed \cup InHand
        /\ connectorLog'.logged = connectorLog.logged
    BY <1>1, <2>1, LogSteps
  <2> QED BY <2>1, <2>2, HandsEmptied
<1>5. CASE ServerDown
  <2>1. /\ UNCHANGED <<connector, events, working, buffered, published, poll>>
        /\ connectorLog' = WithFault(Harm(connectorLog))
    BY <1>5 DEF ServerDown, processVars
  <2>2. /\ connectorLog'.offered = connectorLog.offered
        /\ connectorLog'.repeats = connectorLog.repeats
        /\ connectorLog'.missed = connectorLog.missed
        /\ connectorLog'.harmed = connectorLog.harmed \cup InHand
        /\ connectorLog'.logged = connectorLog.logged
    BY <1>1, <2>1, LogSteps
  <2>3. poll' # "none" => connector \in {"email", "run"}
    BY <2>1 DEF ConnectorInv, IngressInv, CutOffHarmed
  <2> QED BY <1>1, <2>1, <2>2, <2>3, IngressRests
<1>6. CASE ServerUp
  <2>1. /\ UNCHANGED <<connector, events, working, client, connectorLog, poll>>
        /\ ~server /\ buffered' = {}
        /\ published' = [e \in PlatformEvents |-> published[e] + (IF e \in buffered THEN 1 ELSE 0)]
    BY <1>6 DEF ServerUp, processVars
  <2>2. EventsCounted' /\ IngressKept'
    <3>1. ASSUME NEW e \in PlatformEvents
          PROVE  /\ published'[e] \in Nat
                 /\ published'[e] + Here(e, buffered') + Here(e, working') + Here(e, events')
                      <= 1 + connectorLog'.repeats
                 /\ e \in events' \cup InHand' \/ published'[e] > 0
                      => e \in events \cup InHand \/ published[e] > 0
                 /\ e \notin Filtered /\ e \in events \cup InHand =>
                      \/ e \in events' \cup InHand' \cup connectorLog'.missed \cup connectorLog'.harmed
                      \/ published'[e] > 0
                 /\ published[e] > 0 => published'[e] > 0
      <4>1. /\ published[e] + Here(e, buffered) + Here(e, working) + Here(e, events)
                 <= 1 + connectorLog.repeats
            /\ published[e] \in Nat /\ connectorLog.repeats \in Nat
        BY IngressFacts
      <4>2. published'[e] = published[e] + Here(e, buffered)
        BY <2>1 DEF Here
      <4> QED BY <2>1, <4>1, <4>2 DEF Here, InHand
    <3>2. published' \in [PlatformEvents -> Nat] /\ connectorLog'.repeats \in Nat
      BY <2>1, <3>1, IngressFacts
    <3> QED BY <2>1, <3>1, <3>2, EventsMove
  <2>3. CutOffHarmed'
    BY <2>1 DEF ConnectorInv, IngressInv, CutOffHarmed, Sound
  <2> QED BY <2>2, <2>3 DEF IngressInv
<1>7. CASE ClientCloses
  <2>1. /\ UNCHANGED <<connector, events, working, published, poll>> /\ buffered' = {}
        /\ connectorLog' = Harm(connectorLog)
    BY <1>7 DEF ClientCloses, processVars
  <2> QED BY <2>1, LogSteps, <1>1, HandsEmptied
<1>8. CASE PollStarts
  <2>1. /\ UNCHANGED <<connector, events, working, buffered, published, server, client, connectorLog>>
        /\ poll = "scheduled"
    BY <1>8 DEF PollStarts
  <2>2. Sound' = Sound /\ connector \in {"email", "run"}
    BY <2>1 DEF Sound, ConnectorInv, IngressInv, CutOffHarmed
  <2> QED BY <2>1, <2>2, IngressRests
<1> QED BY <1>2, <1>3, <1>4, <1>5, <1>6, <1>7, <1>8

\* Steps of one event.
LEMMA EventIngress ==
  ASSUME ConnectorInv, NEW e \in PlatformEvents,
         Redeliver(e) \/ Receive(e) \/ NormalizeFails(e) \/ Publish(e) \/ Fetch(e) \/ OnMessage(e)
  PROVE  IngressInv'
<1>1. connectorLog \in Log /\ UNCHANGED <<connector, poll, server, client>>
  BY IngressFacts DEF Redeliver, Receive, Normalize, NormalizeFails, Publish, Fetch, OnMessage, processVars
<1>2. CASE Redeliver(e)
  <2>1. /\ e \in working \ events /\ events' = events \cup {e}
        /\ connectorLog' = WithFault([connectorLog EXCEPT !.repeats = @ + 1])
        /\ UNCHANGED <<working, buffered, published>>
    BY <1>2 DEF Redeliver
  <2>2. /\ connectorLog.repeats \in Nat
        /\ [connectorLog EXCEPT !.repeats = @ + 1] \in Log
        /\ connectorLog'.repeats = connectorLog.repeats + 1
        /\ connectorLog'.offered = connectorLog.offered
        /\ connectorLog'.missed = connectorLog.missed /\ connectorLog'.harmed = connectorLog.harmed
        /\ connectorLog'.logged = connectorLog.logged
    <3> DEFINE again == [connectorLog EXCEPT !.repeats = @ + 1]
    <3>1. /\ connectorLog.repeats \in Nat /\ again \in Log /\ again.repeats = connectorLog.repeats + 1
          /\ again.offered = connectorLog.offered
          /\ again.missed = connectorLog.missed /\ again.harmed = connectorLog.harmed
          /\ again.logged = connectorLog.logged
      BY <1>1 DEF Log
    <3>2. connectorLog' = WithFault(again) /\ ConnectorTypeOK
      BY <2>1 DEF ConnectorInv
    <3> HIDE DEF again
    <3>3. /\ connectorLog'.repeats = again.repeats /\ connectorLog'.offered = again.offered
          /\ connectorLog'.missed = again.missed /\ connectorLog'.harmed = again.harmed
          /\ connectorLog'.logged = again.logged
      BY <3>1, <3>2, LogSteps
    <3> QED BY <3>1, <3>3 DEF again
  <2>3. EventsCounted' /\ IngressKept'
    <3>1. ASSUME NEW x \in PlatformEvents
          PROVE  /\ published'[x] + Here(x, buffered') + Here(x, working') + Here(x, events')
                      <= 1 + connectorLog'.repeats
                 /\ x \in events' \cup InHand' \/ published'[x] > 0
                      => x \in events \cup InHand \/ published[x] > 0
                 /\ x \notin Filtered /\ x \in events \cup InHand =>
                      \/ x \in events' \cup InHand' \cup connectorLog'.missed \cup connectorLog'.harmed
                      \/ published'[x] > 0
                 /\ published[x] > 0 => published'[x] > 0
      <4>1. /\ published[x] + Here(x, buffered) + Here(x, working) + Here(x, events)
                 <= 1 + connectorLog.repeats
            /\ published[x] \in Nat
        BY IngressFacts
      <4> QED BY <2>1, <2>2, <4>1 DEF Here, InHand
    <3>2. published' \in [PlatformEvents -> Nat] /\ connectorLog'.repeats \in Nat
      BY <2>1, <2>2, IngressFacts
    <3> QED BY <1>1, <2>2, <3>1, <3>2, EventsMove
  <2>4. CutOffHarmed'
    BY <1>1, <2>1, <2>2 DEF ConnectorInv, IngressInv, CutOffHarmed, Sound
  <2> QED BY <2>3, <2>4 DEF IngressInv
<1>3. CASE Receive(e)
  <2> DEFINE harm == IF Sound THEN {} ELSE {e}
  <2>1. /\ e \in events /\ events' = events \ {e} /\ working' = working \cup ({e} \ Filtered)
        /\ connectorLog' = [connectorLog EXCEPT !.harmed = @ \cup harm]
        /\ UNCHANGED <<buffered, published>>
    BY <1>3 DEF Receive, Normalize
  <2>2. Sound \/ e \in harm
    OBVIOUS
  <2> HIDE DEF harm
  <2>3. /\ connectorLog'.harmed = connectorLog.harmed \cup harm
        /\ connectorLog'.offered = connectorLog.offered
        /\ connectorLog'.missed = connectorLog.missed /\ connectorLog'.repeats = connectorLog.repeats
        /\ connectorLog'.logged = connectorLog.logged
    BY <1>1, <2>1 DEF Log
  <2>4. \/ working' = working /\ e \in Filtered
        \/ working' = working \cup {e}
    BY <2>1
  <2> QED BY <1>1, <2>1, <2>2, <2>3, <2>4, EventPasses
<1>4. CASE Publish(e)
  <2>1. /\ e \in working /\ working' = working \ {e} /\ UNCHANGED <<events, connectorLog>>
        /\ connector \in {"slack", "telegram", "discord"}
        /\ published' = IF Sound THEN [published EXCEPT ![e] = @ + 1] ELSE published
        /\ buffered' = IF Buffers THEN buffered \cup {e} ELSE buffered
    BY <1>4 DEF Publish
  <2>2. Sound => ~Buffers
    BY DEF Sound, Buffers
  <2>3. ~Sound => e \in connectorLog.harmed
    BY <2>1 DEF ConnectorInv, IngressInv, CutOffHarmed
  <2>4. \/ published' = [published EXCEPT ![e] = @ + 1] /\ UNCHANGED buffered
        \/ buffered' = buffered \cup {e} /\ UNCHANGED published
        \/ UNCHANGED <<buffered, published>> /\ e \in connectorLog'.harmed
    BY <2>1, <2>2, <2>3
  <2> QED BY <1>1, <2>1, <2>4, EventPasses
<1>5. CASE Fetch(e)
  <2> DEFINE harm == IF phase = "up" THEN {} ELSE {e}
  <2>1. /\ e \in events /\ events' = events \ {e} /\ working' = working \cup {e}
        /\ poll = "polling" /\ connectorLog' = [connectorLog EXCEPT !.harmed = @ \cup harm]
        /\ UNCHANGED <<buffered, published>>
    BY <1>5 DEF Fetch
  <2> HIDE DEF harm
  <2>2. connector \in {"email", "run"}
    BY <2>1 DEF ConnectorInv, IngressInv, CutOffHarmed
  <2>3. /\ connectorLog'.harmed = connectorLog.harmed \cup harm
        /\ connectorLog'.offered = connectorLog.offered
        /\ connectorLog'.missed = connectorLog.missed /\ connectorLog'.repeats = connectorLog.repeats
        /\ connectorLog'.logged = connectorLog.logged
    BY <1>1, <2>1 DEF Log
  <2> QED BY <1>1, <2>1, <2>2, <2>3, EventPasses
<1>6. CASE OnMessage(e)
  <2>1. /\ e \in working /\ working' = working \ {e} /\ UNCHANGED <<events, buffered, published>>
        /\ connectorLog' = [connectorLog EXCEPT !.logged = @ \cup {e}] /\ connector = "run"
    BY <1>6 DEF OnMessage
  <2>2. /\ connectorLog'.logged = connectorLog.logged \cup {e}
        /\ connectorLog'.missed = connectorLog.missed
        /\ connectorLog'.offered = connectorLog.offered
        /\ connectorLog'.harmed = connectorLog.harmed /\ connectorLog'.repeats = connectorLog.repeats
    BY <1>1, <2>1 DEF Log
  <2> QED BY <1>1, <2>1, <2>2, EventPasses
<1>7. CASE NormalizeFails(e)
  <2>1. /\ e \in working /\ working' = working \ {e} /\ UNCHANGED <<events, buffered, published>>
        /\ connectorLog' = WithFault([connectorLog EXCEPT !.harmed = @ \cup {e}])
    BY <1>7 DEF NormalizeFails
  <2>2. /\ connectorLog'.harmed = connectorLog.harmed \cup {e}
        /\ connectorLog'.offered = connectorLog.offered
        /\ connectorLog'.missed = connectorLog.missed /\ connectorLog'.repeats = connectorLog.repeats
        /\ connectorLog'.logged = connectorLog.logged
    BY <1>1, <2>1 DEF Log, WithFault
  <2> QED BY <1>1, <2>1, <2>2, EventPasses
<1> QED BY <1>2, <1>3, <1>4, <1>5, <1>6, <1>7

\* Steps of replies leave the events alone.
LEMMA ReplyIngress ==
  ASSUME ConnectorInv,
         (\E r \in Replies : Reply(r)) \/ \E j \in jobs : Send(j) \/ Resend(j) \/ RateLimited(j)
  PROVE  IngressInv'
<1>1. /\ UNCHANGED <<connector, events, working, buffered, published, poll, server, client>>
      /\ connectorLog \in Log
  BY IngressFacts DEF Reply, Send, Resend, Posted, RateLimited, processVars
<1>2. /\ connectorLog'.offered = connectorLog.offered /\ connectorLog'.repeats = connectorLog.repeats
      /\ connectorLog'.harmed = connectorLog.harmed /\ connectorLog'.logged = connectorLog.logged
      /\ connectorLog.missed \subseteq connectorLog'.missed
  <2>1. ASSUME NEW r \in Replies, Reply(r)
        PROVE  \E lost : connectorLog' = [connectorLog EXCEPT !.sent = @ \cup {r}, !.missed = @ \cup lost]
    BY <2>1 DEF Reply
  <2>2. ASSUME NEW j \in jobs, Send(j)
        PROVE  \E broken, faults : connectorLog' = [connectorLog EXCEPT !.broken = broken, !.faults = faults]
    BY <2>2 DEF Send
  <2>3. ASSUME NEW j \in jobs, Resend(j) \/ RateLimited(j)
        PROVE  \/ connectorLog' = [connectorLog EXCEPT !.refusals[j.reply] = @ + 1]
               \/ connectorLog' = WithFault([connectorLog EXCEPT !.resent[j.reply] = @ + 1])
    BY <2>3 DEF Resend, RateLimited
  <2> QED BY ZenonT(30), <1>1, <2>1, <2>2, <2>3 DEF Log, WithFault
<1>3. Sound' = Sound
  BY <1>1 DEF Sound
<1>4. poll' # "none" => connector \in {"email", "run"}
  BY <1>1 DEF ConnectorInv, IngressInv, CutOffHarmed
<1> QED BY <1>1, <1>2, <1>3, <1>4, IngressRests

\* Steps of events and of the process leave the replies alone, or break those under way.
LEMMA EventEgress ==
  ASSUME ConnectorInv,
         \/ StartStep \/ Stop \/ Drain \/ Crash \/ ServerDown \/ ServerUp \/ ClientCloses
         \/ PollStarts
         \/ \E m \in Inbound : Offer(m)
         \/ \E e \in PlatformEvents :
              Redeliver(e) \/ Receive(e) \/ NormalizeFails(e) \/ Publish(e) \/ Fetch(e) \/ OnMessage(e)
  PROVE  EgressInv'
<1>1. connectorLog \in Log /\ Harm(connectorLog) \in Log /\ ConnectorTypeOK
  BY LogSteps DEF ConnectorInv
<1>2. CASE \/ StartStep \/ ServerUp \/ PollStarts \/ (\E m \in Inbound : Offer(m))
           \/ \E e \in PlatformEvents :
                Redeliver(e) \/ Receive(e) \/ NormalizeFails(e) \/ Publish(e) \/ Fetch(e) \/ OnMessage(e)
  <2>1. UNCHANGED <<connector, jobs, posts>>
    BY <1>2 DEF StartStep, ServerUp, PollStarts, Offer, Redeliver, Receive, Normalize, NormalizeFails, Publish, Fetch, OnMessage
  <2>2. \/ connectorLog' = connectorLog
        \/ \E more : connectorLog' = [connectorLog EXCEPT !.missed = @ \cup more]
        \/ \E more : connectorLog' = [connectorLog EXCEPT !.harmed = @ \cup more]
        \/ \E more : connectorLog' = [connectorLog EXCEPT !.logged = @ \cup more]
        \/ \E new, more : connectorLog' = [connectorLog EXCEPT !.offered = new, !.missed = @ \cup more]
        \/ connectorLog' = WithFault([connectorLog EXCEPT !.repeats = @ + 1])
        \/ \E more : connectorLog' = WithFault([connectorLog EXCEPT !.harmed = @ \cup more])
    BY <1>2 DEF StartStep, ServerUp, PollStarts, Offer, Redeliver, Receive, Normalize, NormalizeFails, Publish, Fetch, OnMessage
  <2>3. /\ connectorLog'.sent = connectorLog.sent /\ connectorLog'.refusals = connectorLog.refusals
        /\ connectorLog'.resent = connectorLog.resent
        /\ connectorLog.missed \subseteq connectorLog'.missed
        /\ connectorLog'.broken = connectorLog.broken
    BY <1>1, <2>2 DEF Log, WithFault
  <2> QED BY <2>1, <2>3, EgressRests
<1>3. CASE Stop \/ Drain \/ Crash \/ ServerDown \/ ClientCloses
  <2>1. /\ UNCHANGED <<connector, posts>> /\ jobs' \in {jobs, {}}
        /\ connectorLog' \in {Harm(connectorLog), WithFault(Harm(connectorLog))}
    BY <1>3 DEF Stop, Drain, Crash, ServerDown, ClientCloses, Ended
  <2>2. /\ connectorLog'.sent = connectorLog.sent /\ connectorLog'.refusals = connectorLog.refusals
        /\ connectorLog'.resent = connectorLog.resent
        /\ connectorLog'.missed = connectorLog.missed
        /\ connectorLog'.broken = connectorLog.broken \cup {j.reply : j \in jobs}
    BY <1>1, <2>1, LogSteps
  <2> QED BY <2>1, <2>2, EgressRests
<1> QED BY <1>2, <1>3

-----------------------------------------------------------------------------
\* The log keeps its type.
LEMMA LogTyped ==
  ASSUME ConnectorTypeOK, [ConnectorNext]_connectorVars
  PROVE  connectorLog' \in Log
<1>1. /\ connectorLog \in Log /\ Harm(connectorLog) \in Log
      /\ WithFault(Harm(connectorLog)) \in Log
      /\ events \subseteq PlatformEvents
  BY LogSteps DEF ConnectorTypeOK
<1>2. CASE \/ UNCHANGED connectorVars \/ Stop \/ Drain \/ Crash \/ ServerDown \/ ServerUp
           \/ ClientCloses \/ PollStarts \/ \E e \in PlatformEvents : Publish(e)
  BY <1>1, <1>2 DEF connectorVars, Stop, Drain, Crash, ServerDown, ServerUp, ClientCloses, PollStarts, Publish
<1>3. CASE StartStep
  BY <1>1, <1>3 DEF StartStep, Log
<1>4. ASSUME NEW m \in Inbound, Offer(m) PROVE connectorLog' \in Log
  <2>1. PICK new : /\ connectorLog' = [connectorLog EXCEPT !.offered = @ \cup {m}, !.missed = @ \cup new]
                   /\ new \subseteq Copies(m)
    BY <1>4 DEF Offer
  <2>2. new \subseteq PlatformEvents
    BY <2>1, OfferedEvents DEF PlatformEvents
  <2> QED BY <1>1, <2>1, <2>2 DEF Log
<1>5. ASSUME NEW e \in PlatformEvents,
             Redeliver(e) \/ Receive(e) \/ NormalizeFails(e) \/ Fetch(e) \/ OnMessage(e)
      PROVE  connectorLog' \in Log
  <2>1. CASE Redeliver(e)
    <3>1. [connectorLog EXCEPT !.repeats = @ + 1] \in Log
      BY <1>1 DEF Log
    <3> QED BY <2>1, <3>1, LogSteps DEF Redeliver
  <2>2. CASE Receive(e) \/ Fetch(e)
    <3>1. \E more \in SUBSET {e} : connectorLog' = [connectorLog EXCEPT !.harmed = @ \cup more]
      BY <2>2 DEF Receive, Fetch
    <3> QED BY <1>1, <3>1 DEF Log
  <2>3. CASE OnMessage(e)
    BY <1>1, <2>3 DEF OnMessage, Log
  <2>4. CASE NormalizeFails(e)
    <3>1. [connectorLog EXCEPT !.harmed = @ \cup {e}] \in Log
      BY <1>1 DEF Log
    <3> QED BY <2>4, <3>1, LogSteps DEF NormalizeFails
  <2> QED BY <1>5, <2>1, <2>2, <2>3, <2>4
<1>6. ASSUME NEW r \in Replies, Reply(r) PROVE connectorLog' \in Log
  <2>1. PICK more \in SUBSET {r} :
          connectorLog' = [connectorLog EXCEPT !.sent = @ \cup {r}, !.missed = @ \cup more]
    BY <1>6 DEF Reply
  <2>2. /\ connectorLog.sent \cup {r} \in SUBSET Replies
        /\ connectorLog.missed \cup more \in SUBSET (PlatformEvents \cup Replies)
    BY <1>1 DEF Log
  <2> QED BY <1>1, <2>1, <2>2 DEF Log
<1>7. ASSUME NEW j \in jobs, Send(j) \/ Resend(j) \/ RateLimited(j) PROVE connectorLog' \in Log
  <2>1. j.reply \in Replies
    BY DEF ConnectorTypeOK
  <2>2. CASE Send(j)
    <3>1. PICK failed \in BOOLEAN :
            connectorLog' = [connectorLog EXCEPT
              !.broken = @ \cup (IF failed THEN {j.reply} ELSE {}),
              !.faults = @ + (IF failed /\ CanPost THEN 1 ELSE 0)]
      BY <2>2 DEF Send
    <3> DEFINE more == IF failed THEN {j.reply} ELSE {}
               n == IF failed /\ CanPost THEN 1 ELSE 0
    <3>2. /\ connectorLog.broken \cup more \in SUBSET Replies
          /\ connectorLog.faults + n \in Nat
      BY <1>1, <2>1 DEF Log
    <3>3. connectorLog' = [connectorLog EXCEPT !.broken = connectorLog.broken \cup more,
                                               !.faults = connectorLog.faults + n]
      BY <1>1, <3>1 DEF Log
    <3> HIDE DEF more, n
    <3> QED BY <1>1, <3>2, <3>3 DEF Log
  <2>3. CASE RateLimited(j)
    <3> DEFINE counts == [connectorLog.refusals EXCEPT ![j.reply] = @ + 1]
    <3>1. counts \in [Replies -> Nat]
      BY <1>1, <2>1 DEF Log
    <3>2. connectorLog' = [connectorLog EXCEPT !.refusals = counts]
      BY <2>3 DEF RateLimited
    <3> HIDE DEF counts
    <3> QED BY <1>1, <3>1, <3>2 DEF Log
  <2>4. CASE Resend(j)
    <3> DEFINE counts == [connectorLog.resent EXCEPT ![j.reply] = @ + 1]
    <3>1. counts \in [Replies -> Nat]
      BY <1>1, <2>1 DEF Log
    <3>2. connectorLog' = WithFault([connectorLog EXCEPT !.resent = counts])
      BY <2>4 DEF Resend
    <3> HIDE DEF counts
    <3>3. [connectorLog EXCEPT !.resent = counts] \in Log
      BY <1>1, <3>1 DEF Log
    <3> QED BY <3>2, <3>3, LogSteps
  <2> QED BY <1>7, <2>2, <2>3, <2>4
<1> QED BY <1>2, <1>3, <1>4, <1>5, <1>6, <1>7 DEF ConnectorNext

\* The jobs and what they count keep their types.
LEMMA JobsTyped ==
  ASSUME ConnectorTypeOK, [ConnectorNext]_connectorVars
  PROVE  jobs' \subseteq Jobs /\ posts' \in [Replies -> Nat]
<1>1. jobs \subseteq Jobs /\ posts \in [Replies -> Nat] /\ SendAttempts \in Nat \ {0}
      /\ subscribed \subseteq {"main", "base"} /\ LibraryRepeats[connector] \in Nat
  BY ConnectorsAssumption, RepeatsTyped DEF ConnectorTypeOK, Jobs
<1>2. CASE \/ UNCHANGED connectorVars \/ StartStep \/ Stop \/ Drain \/ Crash \/ ServerDown \/ ServerUp
           \/ ClientCloses \/ PollStarts \/ (\E m \in Inbound : Offer(m))
           \/ \E e \in PlatformEvents :
                Redeliver(e) \/ Receive(e) \/ NormalizeFails(e) \/ Publish(e) \/ Fetch(e) \/ OnMessage(e)
  <2>1. jobs' \in {jobs, {}} /\ posts' = posts
    BY <1>2 DEF connectorVars, StartStep, Stop, Drain, Crash, Ended, ServerDown, ServerUp, ClientCloses,
                PollStarts, Offer, Redeliver, Receive, Normalize, NormalizeFails, Publish, Fetch, OnMessage
  <2> QED BY <1>1, <2>1
<1>3. ASSUME NEW r \in Replies, Reply(r) PROVE jobs' \subseteq Jobs /\ posts' \in [Replies -> Nat]
  <2>1. \E heard \in SUBSET subscribed :
          jobs' = jobs \cup {[reply |-> r, via |-> via, tries |-> 1, again |-> 0] : via \in heard}
    BY <1>3 DEF Reply
  <2>2. \A via \in subscribed : [reply |-> r, via |-> via, tries |-> 1, again |-> 0] \in Jobs
    BY <1>1 DEF Jobs
  <2> QED BY <1>1, <1>3, <2>1, <2>2 DEF Reply
<1>4. ASSUME NEW j \in jobs, Send(j) \/ Resend(j) \/ RateLimited(j)
      PROVE  jobs' \subseteq Jobs /\ posts' \in [Replies -> Nat]
  <2>1. j \in Jobs /\ j.reply \in Replies
    BY <1>1 DEF Jobs
  <2>2. /\ j.tries < SendAttempts => [j EXCEPT !.tries = @ + 1, !.again = 0] \in Jobs
        /\ j.again < LibraryRepeats[connector] => [j EXCEPT !.again = @ + 1] \in Jobs
    <3>1. j.tries \in 1..SendAttempts /\ j.again \in 0..LibraryRepeats[connector]
      BY <2>1 DEF Jobs
    <3>2. /\ j.tries < SendAttempts => j.tries + 1 \in 1..SendAttempts
          /\ j.again < LibraryRepeats[connector] => j.again + 1 \in 0..LibraryRepeats[connector]
          /\ 0 \in 0..LibraryRepeats[connector]
      BY <1>1, <3>1
    <3> QED BY <2>1, <3>2 DEF Jobs
  <2>3. jobs' \subseteq Jobs
    <3>1. Retried(j) \subseteq Jobs
      BY <2>2, RepeatsTyped DEF Retried
    <3>2. CASE Send(j)
      BY <1>1, <3>2 DEF Send
    <3>3. CASE Resend(j)
      <4> DEFINE more == [j EXCEPT !.again = @ + 1]
      <4>1. jobs' = (jobs \ {j}) \cup {more} /\ j.again < LibraryRepeats[connector]
        BY <3>3 DEF Resend
      <4>2. more \in Jobs
        BY <2>2, <4>1
      <4> HIDE DEF more
      <4> QED BY <1>1, <4>1, <4>2
    <3>4. CASE RateLimited(j)
      <4>1. jobs' = (jobs \ {j}) \cup Retried(j)
        BY <3>4 DEF RateLimited
      <4> QED BY <1>1, <3>1, <4>1
    <3> QED BY <1>4, <3>2, <3>3, <3>4
  <2>4. posts' \in [Replies -> Nat]
    <3>1. [posts EXCEPT ![j.reply] = @ + 1] \in [Replies -> Nat]
      BY <1>1, <2>1
    <3>2. posts' \in {posts, [posts EXCEPT ![j.reply] = @ + 1]}
      BY <1>4 DEF Send, Resend, Posted, RateLimited
    <3> QED BY <1>1, <3>1, <3>2
  <2> QED BY <2>3, <2>4
<1> QED BY <1>2, <1>3, <1>4 DEF ConnectorNext

\* The events and their counts keep their types.
LEMMA EventsTyped ==
  ASSUME ConnectorTypeOK, [ConnectorNext]_connectorVars
  PROVE  /\ events' \subseteq PlatformEvents /\ InHand' \subseteq PlatformEvents
         /\ published' \in [PlatformEvents -> Nat]
<1>1. /\ events \subseteq PlatformEvents /\ working \subseteq PlatformEvents
      /\ buffered \subseteq PlatformEvents /\ published \in [PlatformEvents -> Nat]
  BY DEF ConnectorTypeOK, InHand
<1>2. CASE \/ UNCHANGED connectorVars \/ StartStep \/ Stop \/ Drain \/ Crash \/ ServerDown
           \/ ClientCloses \/ PollStarts \/ (\E r \in Replies : Reply(r))
           \/ \E j \in jobs : Send(j) \/ Resend(j) \/ RateLimited(j)
  <2>1. /\ events' \in {events, {}} /\ working' \in {working, {}} /\ buffered' \in {buffered, {}}
        /\ published' = published
    BY <1>2 DEF connectorVars, StartStep, Stop, Drain, Crash, Ended, ServerDown, ClientCloses,
                PollStarts, Reply, Send, Resend, Posted, RateLimited
  <2> QED BY <1>1, <2>1 DEF InHand
<1>3. CASE ServerUp
  BY <1>1, <1>3 DEF ServerUp, InHand
<1>4. ASSUME NEW m \in Inbound, Offer(m)
      PROVE  /\ events' \subseteq PlatformEvents /\ InHand' \subseteq PlatformEvents
             /\ published' \in [PlatformEvents -> Nat]
  <2>1. Copies(m) \subseteq PlatformEvents
    BY OfferedEvents DEF PlatformEvents
  <2> QED BY <1>1, <1>4, <2>1 DEF Offer, InHand
<1>5. ASSUME NEW e \in PlatformEvents,
             Redeliver(e) \/ Receive(e) \/ NormalizeFails(e) \/ Publish(e) \/ Fetch(e) \/ OnMessage(e)
      PROVE  /\ events' \subseteq PlatformEvents /\ InHand' \subseteq PlatformEvents
             /\ published' \in [PlatformEvents -> Nat]
  <2>1. /\ events' \subseteq events \cup {e} /\ working' \subseteq working \cup {e}
        /\ buffered' \subseteq buffered \cup {e}
        /\ published' \in {published, [published EXCEPT ![e] = @ + 1]}
    BY <1>5 DEF Redeliver, Receive, Normalize, NormalizeFails, Publish, Fetch, OnMessage
  <2> QED BY <1>1, <2>1 DEF InHand
<1> QED BY <1>2, <1>3, <1>4, <1>5 DEF ConnectorNext

\* The process and its connections keep their types.
LEMMA ProcessTyped ==
  ASSUME ConnectorTypeOK, [ConnectorNext]_connectorVars
  PROVE  /\ connector' \in Connectors /\ phase' \in {"down", "up", "closing"}
         /\ started' \in 0..Len(Startup[connector'])
         /\ running' \in BOOLEAN /\ link' \in BOOLEAN /\ server' \in BOOLEAN
         /\ poll' \in {"none", "scheduled", "polling", "ended"} /\ client' \in {"open", "closed"}
         /\ subscribed' \subseteq {"main", "base"}
<1>1. /\ connector \in Connectors /\ phase \in {"down", "up", "closing"}
      /\ started \in 0..Len(Startup[connector])
      /\ running \in BOOLEAN /\ link \in BOOLEAN /\ server \in BOOLEAN
      /\ poll \in {"none", "scheduled", "polling", "ended"} /\ client \in {"open", "closed"}
      /\ subscribed \subseteq {"main", "base"}
  BY DEF ConnectorTypeOK
<1>2. Len(Startup[connector]) \in Nat
  <2>1. connector \in {"email", "slack", "telegram", "discord", "run"}
    BY <1>1, ConnectorsAssumption
  <2> QED BY <2>1 DEF Startup, EmailStart, SlackStart, TelegramStart, DiscordStart, BaseStart
<1>3. connector' = connector
  BY DEF ConnectorNext, connectorVars, StartStep, Stop, Drain, Crash, Ended, ServerDown, ServerUp,
         ClientCloses, PollStarts, Offer, Redeliver, Receive, Normalize, NormalizeFails, Publish, Fetch, OnMessage, Reply, Send,
         Resend, RateLimited
<1>4. started' \in 0..Len(Startup[connector])
  <2>1. CASE StartStep
    <3>1. started' = started + 1 /\ started < Len(Startup[connector])
      BY <2>1 DEF StartStep
    <3> QED BY <1>1, <1>2, <3>1
  <2>2. CASE Drain \/ Crash
    BY <1>2, <2>2 DEF Drain, Crash, Ended
  <2>3. CASE ~(StartStep \/ Drain \/ Crash)
    <3>1. started' = started
      BY <2>3 DEF ConnectorNext, connectorVars, processVars, Stop, ServerDown, ServerUp,
             ClientCloses, PollStarts, Offer, Redeliver, Receive, Normalize, NormalizeFails, Publish, Fetch, OnMessage, Reply, Send,
             Resend, RateLimited
    <3> QED BY <1>1, <3>1
  <2> QED BY <2>1, <2>2, <2>3
<1>5. CASE StartStep
  <2> PICK step : step = Startup[connector][started + 1]
    OBVIOUS
  <2>1. /\ phase' = "up" /\ running' = (running \/ step = "base")
        /\ client' = IF step = "nats" THEN "open" ELSE client
        /\ subscribed' = subscribed \cup (IF step \in {"main", "base"} THEN {step} ELSE {})
        /\ link' = (link \/ (step = "link" /\ ~SchedulesPoll(step)))
        /\ poll' = IF SchedulesPoll(step) THEN "scheduled" ELSE poll
        /\ server' = server
    BY <1>5 DEF StartStep
  <2> QED BY <1>1, <1>3, <1>4, <2>1
<1>6. CASE Stop \/ Drain \/ Crash \/ PollStarts \/ ServerDown \/ ServerUp \/ ClientCloses
  BY <1>1, <1>3, <1>4, <1>6 DEF Stop, Drain, Crash, Ended, PollStarts, ServerDown, ServerUp, ClientCloses,
                                processVars
<1>7. CASE ~(\/ StartStep \/ Stop \/ Drain \/ Crash \/ PollStarts \/ ServerDown \/ ServerUp
             \/ ClientCloses)
  <2>1. UNCHANGED <<phase, running, poll, link, server, client, subscribed>>
    BY <1>7 DEF ConnectorNext, connectorVars, processVars, Offer, Redeliver, Receive, Normalize, NormalizeFails, Publish, Fetch,
                OnMessage, Reply, Send, Resend, Posted, RateLimited
  <2> QED BY <1>1, <1>3, <1>4, <2>1
<1> QED BY <1>5, <1>6, <1>7

LEMMA NextConnectorInv == ConnectorInv /\ [ConnectorNext]_connectorVars => ConnectorInv'
<1> SUFFICES ASSUME ConnectorInv, [ConnectorNext]_connectorVars PROVE ConnectorInv'
  OBVIOUS
<1>1. ConnectorTypeOK'
  <2>1. ConnectorTypeOK
    BY DEF ConnectorInv
  <2>2. connector' = connector
    BY DEF ConnectorNext, connectorVars, StartStep, Stop, Drain, Crash, Ended, ServerDown, ServerUp,
           ClientCloses, PollStarts, Offer, Redeliver, Receive, Normalize, NormalizeFails, Publish, Fetch,
           OnMessage, Reply, Send, Resend, RateLimited
  <2> QED BY <2>1, <2>2, LogTyped, JobsTyped, EventsTyped, ProcessTyped DEF ConnectorTypeOK, Log, Jobs
<1>2. CASE UNCHANGED connectorVars
  <2>1. UNCHANGED <<connector, events, working, buffered, published, jobs, posts, connectorLog, poll,
                    server, client>>
    BY <1>2 DEF connectorVars
  <2>2. Sound' = Sound /\ (poll' # "none" => connector \in {"email", "run"})
    BY <2>1 DEF Sound, ConnectorInv, IngressInv, CutOffHarmed
  <2>3. IngressInv'
    BY <2>1, <2>2, IngressRests
  <2>4. EgressInv'
    BY <2>1, EgressRests
  <2> QED BY <1>1, <2>3, <2>4 DEF ConnectorInv
<1>3. CASE ConnectorNext
  <2>1. IngressInv'
    BY <1>3, ProcessIngress, EventIngress, ReplyIngress, OfferStep DEF ConnectorNext
  <2>2. EgressInv'
    BY <1>3, EventEgress, ReplyStep, JobStep DEF ConnectorNext
  <2> QED BY <1>1, <2>1, <2>2 DEF ConnectorInv
<1> QED BY <1>2, <1>3

\* Type correctness of the connectors: start, stop, loss of NATS, events and replies.
THEOREM ConnectorTypeCorrect == ConnectorSpec => []ConnectorTypeOK
<1>1. ConnectorInv => ConnectorTypeOK
  BY DEF ConnectorInv
<1> QED BY <1>1, InitConnectorInv, NextConnectorInv, PTL DEF ConnectorSpec

\* For all five ways to run a connector, any number of messages, replies and faults: an event
\* reaches NATS once for each time the platform delivered it, or its loss has a named cause;
\* a reply is posted once and once more for each request that the client library repeated, or
\* its loss has a named cause.
THEOREM DeliveriesCorrect == ConnectorSpec => []DeliveriesExplained
<1>1. ConnectorInv => DeliveriesExplained
  BY DEF ConnectorInv, IngressInv, EgressInv, DeliveriesExplained
<1> QED BY <1>1, InitConnectorInv, NextConnectorInv, PTL DEF ConnectorSpec

-----------------------------------------------------------------------------
(* The DLP scanner.                                                          *)

DlpTaskType == [pc : {"wait", "publish", "ack", "dead"}, msg : SUBSET DlpMessages]
DlpResultsType == [sent : [DlpMessages -> Nat], faults : 0..MaxDlpFaults]

\* Messages with findings that are acknowledged, or about to be, without a result.
Unsent == {m \in Dirty : dlpResults.sent[m] = 0
                         /\ (dlpJs[m].st = "acked" \/ (dlpTask.pc = "ack" /\ m \in dlpTask.msg))}

\* The task holds one message or none, each result comes from a delivery, and each that
\* is missing from a fault.
DlpInv ==
  /\ DlpTypeOK
  /\ dlpTask.pc = "publish" => \E m \in DlpMessages : dlpTask.msg = {m}
  /\ \A m \in DlpMessages :
       dlpResults.sent[m] + (IF dlpTask.pc = "publish" /\ m \in dlpTask.msg THEN 1 ELSE 0)
         <= dlpJs[m].count
  /\ IsFiniteSet(Unsent) /\ Cardinality(Unsent) <= dlpResults.faults

LEMMA IngressSteps ==
  ASSUME NEW S, NEW c \in [S -> Delivery], NEW m \in S
  PROVE  /\ Delivered(c, m) \in [S -> Delivery] /\ Acked(c, m) \in [S -> Delivery]
         /\ Returned(c, m) \in [S -> Delivery]
         /\ Delivered(c, m)[m].count = c[m].count + 1 /\ Delivered(c, m)[m].st = "pending"
         /\ Acked(c, m)[m].count = c[m].count /\ Returned(c, m)[m].count = c[m].count
         /\ Acked(c, m)[m].st \in {c[m].st, "acked"}
         /\ Returned(c, m)[m].st = "acked" <=> c[m].st = "acked"
         /\ \A n \in S \ {m} : Delivered(c, m)[n] = c[n] /\ Acked(c, m)[n] = c[n] /\ Returned(c, m)[n] = c[n]
BY DEF Delivered, Acked, Returned, Moved, Delivery, DeliveryStates

\* The results missing after a step are some of those before, or one more and a fault.
LEMMA UnsentKept ==
  ASSUME DlpInv, dlpResults'.faults \in Nat, dlpResults'.faults >= dlpResults.faults, Unsent' \subseteq Unsent
  PROVE  IsFiniteSet(Unsent') /\ Cardinality(Unsent') <= dlpResults'.faults
<1>1. /\ IsFiniteSet(Unsent) /\ Cardinality(Unsent) <= dlpResults.faults
      /\ dlpResults.faults \in Nat
  BY DlpAssumption DEF DlpInv, DlpTypeOK
<1>2. IsFiniteSet(Unsent') /\ Cardinality(Unsent') <= Cardinality(Unsent)
  BY <1>1, FS_Subset
<1>3. Cardinality(Unsent') \in Nat /\ Cardinality(Unsent) \in Nat
  BY <1>1, <1>2, FS_CardinalityType
<1> DEFINE a == Cardinality(Unsent)
           b == Cardinality(Unsent')
<1>4. a \in Nat /\ b \in Nat /\ b <= a /\ a <= dlpResults.faults
  BY <1>1, <1>2, <1>3
<1> HIDE DEF a, b
<1>5. b <= dlpResults'.faults
  BY <1>1, <1>4
<1> QED BY <1>2, <1>5 DEF b

LEMMA UnsentGrows ==
  ASSUME DlpInv, NEW m, dlpResults'.faults = dlpResults.faults + 1, Unsent' \subseteq Unsent \cup {m}
  PROVE  IsFiniteSet(Unsent') /\ Cardinality(Unsent') <= dlpResults'.faults
<1>1. /\ IsFiniteSet(Unsent) /\ Cardinality(Unsent) <= dlpResults.faults
      /\ dlpResults.faults \in Nat
  BY DlpAssumption DEF DlpInv, DlpTypeOK
<1>2. /\ IsFiniteSet(Unsent \cup {m}) /\ Cardinality(Unsent \cup {m}) <= Cardinality(Unsent) + 1
  <2>1. Cardinality(Unsent) \in Nat
    BY <1>1, FS_CardinalityType
  <2>2. /\ IsFiniteSet(Unsent \cup {m})
        /\ Cardinality(Unsent \cup {m}) = IF m \in Unsent THEN Cardinality(Unsent)
                                          ELSE Cardinality(Unsent) + 1
    BY <1>1, FS_AddElement
  <2> DEFINE a == Cardinality(Unsent)
  <2>3. a \in Nat /\ Cardinality(Unsent \cup {m}) = IF m \in Unsent THEN a ELSE a + 1
    BY <2>1, <2>2
  <2> HIDE DEF a
  <2>4. Cardinality(Unsent \cup {m}) <= a + 1
    BY <2>3
  <2> QED BY <2>2, <2>4 DEF a
<1>3. IsFiniteSet(Unsent') /\ Cardinality(Unsent') <= Cardinality(Unsent \cup {m})
  BY <1>2, FS_Subset
<1>4. Cardinality(Unsent') \in Nat /\ Cardinality(Unsent) \in Nat /\ Cardinality(Unsent \cup {m}) \in Nat
  BY <1>1, <1>2, <1>3, FS_CardinalityType
<1> DEFINE a == Cardinality(Unsent)
           b == Cardinality(Unsent')
           c == Cardinality(Unsent \cup {m})
<1>5. a \in Nat /\ b \in Nat /\ c \in Nat /\ b <= c /\ c <= a + 1 /\ a <= dlpResults.faults
  BY <1>1, <1>2, <1>3, <1>4
<1> HIDE DEF a, b, c
<1>6. b <= dlpResults'.faults
  BY <1>1, <1>5
<1> QED BY <1>3, <1>6 DEF b

LEMMA DlpFaults ==
  ASSUME DlpTypeOK, DlpFault
  PROVE  /\ dlpResults' \in DlpResultsType
         /\ dlpResults'.faults = dlpResults.faults + 1 /\ dlpResults'.sent = dlpResults.sent
<1>1. /\ dlpResults \in DlpResultsType /\ dlpResults.faults \in 0..MaxDlpFaults
      /\ dlpResults.faults < MaxDlpFaults /\ MaxDlpFaults \in Nat
      /\ dlpResults' = [dlpResults EXCEPT !.faults = @ + 1]
  BY DlpAssumption DEF DlpTypeOK, DlpResultsType, DlpFault
<1>2. dlpResults.faults + 1 \in 0..MaxDlpFaults
  BY <1>1
<1> QED BY <1>1, <1>2 DEF DlpResultsType

LEMMA InitDlpInv == DlpInit => DlpInv
<1> SUFFICES ASSUME DlpInit PROVE DlpInv
  OBVIOUS
<1>1. DlpTypeOK
  BY DlpAssumption DEF DlpInit, DlpTypeOK, Stored, Delivery, DeliveryStates
<1>2. Unsent = {}
  BY DlpAssumption DEF DlpInit, Unsent, Stored
<1>3. IsFiniteSet(Unsent) /\ Cardinality(Unsent) <= dlpResults.faults
  BY <1>2, FS_EmptySet DEF DlpInit
<1>4. \A m \in DlpMessages : dlpResults.sent[m] = 0 /\ dlpJs[m].count = 0 /\ dlpTask.pc = "wait"
  BY DEF DlpInit, Stored
<1>5. \A m \in DlpMessages :
        dlpResults.sent[m] + (IF dlpTask.pc = "publish" /\ m \in dlpTask.msg THEN 1 ELSE 0)
          <= dlpJs[m].count
  BY <1>4
<1>6. dlpTask.pc # "publish"
  BY DEF DlpInit
<1> QED BY <1>1, <1>3, <1>5, <1>6 DEF DlpInv

LEMMA NextDlpInv == DlpInv /\ [DlpNext]_dlpVars => DlpInv'
<1> SUFFICES ASSUME DlpInv, [DlpNext]_dlpVars PROVE DlpInv'
  OBVIOUS
<1>1. /\ dlpJs \in [DlpMessages -> Delivery] /\ dlpTask \in DlpTaskType /\ dlpResults \in DlpResultsType
      /\ Dirty \subseteq DlpMessages /\ DlpTypeOK /\ Len(scan) <= 1
      /\ dlpResults.faults \in Nat
  BY DlpAssumption DEF DlpInv, DlpTypeOK, DlpTaskType, DlpResultsType
<1>2. CASE ScanRequest
  <2>1. PICK s : scan' = <<s>>
    BY <1>2 DEF ScanRequest, ScanContent
  <2>2. Len(scan') <= 1 /\ UNCHANGED <<dlpJs, dlpTask, dlpResults>>
    BY <1>2, <2>1 DEF ScanRequest, ScanContent
  <2>3. Unsent' = Unsent
    BY <2>2 DEF Unsent
  <2> QED BY <2>2, <2>3 DEF DlpInv, DlpTypeOK
<1>3. ASSUME NEW m \in DlpMessages, TakeIngress(m) PROVE DlpInv'
  <2>1. /\ dlpJs' = Delivered(dlpJs, m) /\ UNCHANGED <<scan, dlpResults>>
        /\ dlpTask.pc = "wait" /\ dlpJs[m].st # "acked"
        /\ dlpTask' = [pc |-> IF m \in Dirty THEN "publish" ELSE "ack", msg |-> {m}]
    BY <1>3 DEF TakeIngress, Deliverable
  <2>2. DlpTypeOK'
    BY SMTT(20), <1>1, <2>1, IngressSteps DEF DlpTypeOK
  <2>3. Unsent' \subseteq Unsent
    <3>1. dlpJs'[m].st = "pending" /\ \A x \in DlpMessages \ {m} : dlpJs'[x] = dlpJs[x]
      BY <1>1, <2>1, IngressSteps
    <3> QED BY <1>1, <2>1, <3>1 DEF Unsent
  <2>4. IsFiniteSet(Unsent') /\ Cardinality(Unsent') <= dlpResults'.faults
    BY <1>1, <2>1, <2>3, UnsentKept
  <2>5. \A x \in DlpMessages :
          dlpResults'.sent[x] + (IF dlpTask'.pc = "publish" /\ x \in dlpTask'.msg THEN 1 ELSE 0)
            <= dlpJs'[x].count
    <3> TAKE x \in DlpMessages
    <3>1. dlpResults.sent[x] \in Nat /\ dlpJs[x].count \in Nat /\ dlpResults.sent[x] <= dlpJs[x].count
      BY <1>1, <2>1 DEF DlpInv, DlpResultsType, Delivery
    <3>2. dlpJs'[x].count = IF x = m THEN dlpJs[x].count + 1 ELSE dlpJs[x].count
      BY <1>1, <2>1, IngressSteps
    <3> QED BY <2>1, <3>1, <3>2
  <2> QED BY <2>1, <2>2, <2>4, <2>5 DEF DlpInv
<1>4. CASE PublishResult
  <2>1. /\ dlpTask.pc = "publish" /\ UNCHANGED <<scan, dlpJs>>
        /\ dlpTask' = [dlpTask EXCEPT !.pc = "ack"]
        /\ dlpResults' = [dlpResults EXCEPT !.sent = [m \in DlpMessages |->
                            IF m \in dlpTask.msg THEN @[m] + 1 ELSE @[m]]]
    BY <1>4 DEF PublishResult
  <2> DEFINE sent == [m \in DlpMessages |-> IF m \in dlpTask.msg THEN dlpResults.sent[m] + 1
                                            ELSE dlpResults.sent[m]]
  <2>2. dlpResults.sent \in [DlpMessages -> Nat]
    BY <1>1 DEF DlpResultsType
  <2>3. sent \in [DlpMessages -> Nat]
    BY <2>2
  <2>4. \A x \in DlpMessages : sent[x] = dlpResults.sent[x] + (IF x \in dlpTask.msg THEN 1 ELSE 0)
    BY <2>2
  <2>5. dlpResults' = [dlpResults EXCEPT !.sent = sent]
    BY <1>1, <2>1 DEF DlpResultsType
  <2> HIDE DEF sent
  <2>6. dlpResults' \in DlpResultsType /\ dlpResults'.sent = sent /\ dlpResults'.faults = dlpResults.faults
    BY <1>1, <2>3, <2>5 DEF DlpResultsType
  <2>7. dlpTask' \in DlpTaskType /\ dlpTask'.pc = "ack" /\ dlpTask'.msg = dlpTask.msg
    BY <1>1, <2>1 DEF DlpTaskType
  <2>8. Unsent' \subseteq Unsent
    BY <1>1, <2>1, <2>2, <2>4, <2>6, <2>7 DEF Unsent
  <2>9. IsFiniteSet(Unsent') /\ Cardinality(Unsent') <= dlpResults'.faults
    BY <1>1, <2>6, <2>8, UnsentKept
  <2>10. \A x \in DlpMessages : sent[x] <= dlpJs[x].count
    BY <2>1, <2>4 DEF DlpInv
  <2>11. \A x \in DlpMessages : sent[x] + 0 <= dlpJs[x].count
    BY <2>3, <2>10
  <2>12. DlpTypeOK'
    BY <1>1, <2>1, <2>6, <2>7 DEF DlpTypeOK, DlpResultsType, DlpTaskType
  <2> QED BY <2>1, <2>6, <2>7, <2>9, <2>11, <2>12 DEF DlpInv
<1>5. CASE PublishResultFails
  <2>1. /\ dlpTask.pc = "publish" /\ UNCHANGED <<scan, dlpJs>> /\ DlpFault
        /\ dlpTask' = [dlpTask EXCEPT !.pc = "ack"]
    BY <1>5 DEF PublishResultFails
  <2>2. PICK m \in DlpMessages : dlpTask.msg = {m}
    BY <2>1 DEF DlpInv
  <2>3. dlpTask' \in DlpTaskType /\ dlpTask'.pc = "ack" /\ dlpTask'.msg = {m}
    BY <1>1, <2>1, <2>2 DEF DlpTaskType
  <2>4. /\ dlpResults' \in DlpResultsType
        /\ dlpResults'.faults = dlpResults.faults + 1 /\ dlpResults'.sent = dlpResults.sent
    BY <1>1, <2>1, DlpFaults
  <2>5. Unsent' \subseteq Unsent \cup {m}
    BY <2>1, <2>3, <2>4 DEF Unsent
  <2>6. IsFiniteSet(Unsent') /\ Cardinality(Unsent') <= dlpResults'.faults
    BY <2>4, <2>5, UnsentGrows
  <2>7. \A x \in DlpMessages : dlpResults.sent[x] + 0 <= dlpJs[x].count
    <3> TAKE x \in DlpMessages
    <3>1. dlpResults.sent[x] \in Nat /\ dlpJs[x].count \in Nat
      BY <1>1 DEF DlpResultsType, Delivery
    <3> QED BY <3>1 DEF DlpInv
  <2>8. DlpTypeOK'
    BY <1>1, <2>1, <2>3, <2>4 DEF DlpTypeOK, DlpResultsType, DlpTaskType
  <2> QED BY <2>1, <2>3, <2>4, <2>6, <2>7, <2>8 DEF DlpInv
<1>6. CASE AckIngress
  <2>1. PICK m \in dlpTask.msg : dlpJs' = Acked(dlpJs, m)
    BY <1>6 DEF AckIngress
  <2>2. /\ dlpTask.pc = "ack" /\ dlpTask' = [pc |-> "wait", msg |-> {}]
        /\ UNCHANGED <<scan, dlpResults>> /\ m \in DlpMessages
    BY <1>1, <1>6, <2>1 DEF AckIngress, DlpTaskType
  <2>3. DlpTypeOK'
    BY <1>1, <2>1, <2>2, IngressSteps DEF DlpTypeOK
  <2>4. Unsent' \subseteq Unsent
    <3>1. \A x \in DlpMessages : x = m \/ dlpJs'[x] = dlpJs[x]
      BY <1>1, <2>1, <2>2, IngressSteps
    <3> QED BY <1>1, <2>1, <2>2, <3>1 DEF Unsent
  <2>5. IsFiniteSet(Unsent') /\ Cardinality(Unsent') <= dlpResults'.faults
    BY <1>1, <2>2, <2>4, UnsentKept
  <2>6. \A x \in DlpMessages : dlpResults.sent[x] + 0 <= dlpJs'[x].count
    <3> TAKE x \in DlpMessages
    <3>1. dlpResults.sent[x] \in Nat /\ dlpResults.sent[x] <= dlpJs[x].count
      BY <1>1, <2>2 DEF DlpInv, DlpResultsType, Delivery
    <3>2. dlpJs'[x].count = dlpJs[x].count
      <4>1. CASE x = m
        BY <1>1, <2>1, <2>2, <4>1, IngressSteps
      <4>2. CASE x # m
        BY <1>1, <2>1, <2>2, <4>2, IngressSteps
      <4> QED BY <4>1, <4>2
    <3> QED BY <3>1, <3>2
  <2> QED BY <2>2, <2>3, <2>5, <2>6 DEF DlpInv
<1>7. CASE AckIngressFails \/ RestartDlp \/ \E m \in DlpMessages : ExpireIngress(m)
  <2>1. /\ DlpFault /\ scan' \in {scan, <<>>}
        /\ dlpTask' = dlpTask \/ \E pc \in {"wait", "dead"} : dlpTask' = [pc |-> pc, msg |-> {}]
        /\ dlpJs' = dlpJs \/ \E m \in DlpMessages : dlpJs' = Returned(dlpJs, m)
    BY <1>7 DEF AckIngressFails, RestartDlp, ExpireIngress
  <2>2. /\ dlpResults' \in DlpResultsType
        /\ dlpResults'.faults = dlpResults.faults + 1 /\ dlpResults'.sent = dlpResults.sent
    BY <1>1, <2>1, DlpFaults
  <2>3. /\ dlpJs' \in [DlpMessages -> Delivery]
        /\ \A x \in DlpMessages : dlpJs'[x].count = dlpJs[x].count
                                  /\ (dlpJs'[x].st = "acked" <=> dlpJs[x].st = "acked")
    <3>1. CASE dlpJs' = dlpJs
      BY <1>1, <3>1
    <3>2. ASSUME NEW m \in DlpMessages, dlpJs' = Returned(dlpJs, m)
          PROVE  /\ dlpJs' \in [DlpMessages -> Delivery]
                 /\ \A x \in DlpMessages : dlpJs'[x].count = dlpJs[x].count
                                           /\ (dlpJs'[x].st = "acked" <=> dlpJs[x].st = "acked")
      <4>1. /\ dlpJs' \in [DlpMessages -> Delivery] /\ dlpJs'[m].count = dlpJs[m].count
            /\ dlpJs'[m].st = "acked" <=> dlpJs[m].st = "acked"
            /\ \A n \in DlpMessages \ {m} : dlpJs'[n] = dlpJs[n]
        BY <1>1, <3>2, IngressSteps
      <4> QED BY <4>1
    <3> QED BY <2>1, <3>1, <3>2
  <2>4. dlpTask' \in DlpTaskType /\ (dlpTask' = dlpTask \/ dlpTask'.pc \in {"wait", "dead"})
    BY <1>1, <2>1 DEF DlpTaskType
  <2>5. Unsent' \subseteq Unsent
    BY <1>1, <2>2, <2>3, <2>4 DEF Unsent
  <2>6. IsFiniteSet(Unsent') /\ Cardinality(Unsent') <= dlpResults'.faults
    BY <1>1, <2>2, <2>5, UnsentKept
  <2>7. \A x \in DlpMessages :
          dlpResults'.sent[x] + (IF dlpTask'.pc = "publish" /\ x \in dlpTask'.msg THEN 1 ELSE 0)
            <= dlpJs'[x].count
    <3> TAKE x \in DlpMessages
    <3>1. dlpResults.sent[x] \in Nat /\ dlpJs[x].count \in Nat
      BY <1>1 DEF DlpResultsType, Delivery
    <3>2. dlpResults.sent[x] + (IF dlpTask.pc = "publish" /\ x \in dlpTask.msg THEN 1 ELSE 0)
            <= dlpJs[x].count
      BY DEF DlpInv
    <3> QED BY <2>2, <2>3, <2>4, <3>1, <3>2
  <2>8. Len(scan') <= 1
    BY <1>1, <2>1
  <2>9. DlpTypeOK'
    BY <2>2, <2>3, <2>4, <2>8 DEF DlpTypeOK, DlpResultsType, DlpTaskType
  <2> QED BY <2>4, <2>6, <2>7, <2>9 DEF DlpInv
<1>8. CASE UNCHANGED dlpVars
  <2>1. UNCHANGED <<scan, dlpJs, dlpTask, dlpResults>>
    BY <1>8 DEF dlpVars
  <2> QED BY <2>1 DEF DlpInv, DlpTypeOK, Unsent
<1> QED BY <1>2, <1>3, <1>4, <1>5, <1>6, <1>7, <1>8 DEF DlpNext, DlpLoop

\* Every variable of the DLP scanner has its type, in every reachable state.
THEOREM DlpTypeCorrect == DlpSpec => []DlpTypeOK
<1>1. DlpInv => DlpTypeOK
  BY DEF DlpInv
<1> QED BY <1>1, InitDlpInv, NextDlpInv, PTL DEF DlpSpec

\* Every result comes from a delivery, and a result is missing for an acknowledged message
\* with findings only after a fault (_nats_subscribe, main.py of the scanner).
THEOREM ResultsCorrect == DlpSpec => []ResultsExplained
<1>1. DlpInv => ResultsExplained
  <2> SUFFICES ASSUME DlpInv PROVE ResultsExplained
    OBVIOUS
  <2> DEFINE missing == {m \in Dirty : dlpJs[m].st = "acked" /\ dlpResults.sent[m] = 0}
  <2>1. missing \subseteq Unsent /\ IsFiniteSet(Unsent)
    BY DEF Unsent, DlpInv
  <2>2. IsFiniteSet(missing) /\ Cardinality(missing) <= Cardinality(Unsent)
    BY <2>1, FS_Subset
  <2>3. Cardinality(missing) \in Nat /\ Cardinality(Unsent) \in Nat
    BY <2>1, <2>2, FS_CardinalityType
  <2>4. Cardinality(Unsent) <= dlpResults.faults /\ dlpResults.faults \in Nat
    BY DlpAssumption DEF DlpInv, DlpTypeOK
  <2>5. Cardinality(missing) <= dlpResults.faults
    BY <2>2, <2>3, <2>4
  <2>6. \A m \in DlpMessages : dlpResults.sent[m] <= dlpJs[m].count
    <3> TAKE m \in DlpMessages
    <3>1. dlpResults.sent[m] \in Nat /\ dlpJs[m].count \in Nat
      BY DEF DlpInv, DlpTypeOK, Delivery
    <3>2. dlpResults.sent[m] + (IF dlpTask.pc = "publish" /\ m \in dlpTask.msg THEN 1 ELSE 0)
            <= dlpJs[m].count
      BY DEF DlpInv
    <3> QED BY <3>1, <3>2
  <2> QED BY <2>5, <2>6 DEF ResultsExplained
<1> QED BY <1>1, InitDlpInv, NextDlpInv, PTL DEF DlpSpec

LEMMA LeastNumber ==
  ASSUME NEW T \in SUBSET Nat, T # {}
  PROVE  \E n \in T : \A m \in T : n <= m
<1> DEFINE R == {ss \in Nat \X Nat : ss[1] < ss[2]}
<1>1. IsWellFoundedOn(R, Nat)
  BY NatLessThanWellFounded DEF OpToRel
<1> HIDE DEF R
<1>2. PICK n \in T : \A y \in T : <<y, n>> \notin R
  BY <1>1, WFMin
<1>3. \A y \in T : ~(y < n)
  BY <1>2 DEF R
<1> QED BY <1>3

\* What holds of zero and passes from each number to the next holds of all.
LEMMA NumbersBelow ==
  ASSUME NEW T, 0 \in T, \A n \in Nat : n \in T => n + 1 \in T
  PROVE  \A n \in Nat : n \in T
<1> DEFINE U == {n \in Nat : n \notin T}
<1> SUFFICES ASSUME U # {} PROVE FALSE
  OBVIOUS
<1>1. PICK n \in U : \A y \in U : n <= y
  BY LeastNumber
<1>2. n \in Nat /\ n # 0 /\ n - 1 \in Nat /\ ~(n <= n - 1) /\ n - 1 + 1 = n
  BY <1>1
<1>3. n - 1 \notin U
  BY <1>1, <1>2
<1> QED BY <1>1, <1>2, <1>3

LEMMA MaxUpTo ==
  ASSUME NEW n \in Nat \ {0}, NEW d \in SUBSET (1..n), n \in d
  PROVE  Max(d) = n
<1>1. \A y \in d : y \in 1..n
  OBVIOUS
<1>2. n \in d /\ \A y \in d : n >= y
  BY <1>1
<1>3. \A x \in d : (\A y \in d : x >= y) => x = n
  <2> TAKE x \in d
  <2> HAVE \A y \in d : x >= y
  <2>1. x >= n /\ x \in 1..n
    BY <1>1
  <2> QED BY <2>1
<1> QED BY <1>2, <1>3 DEF Max

\* The fold of Keep keeps the findings one after another.
LEMMA KeepFold ==
  ASSUME NEW S, NEW s \in Seq(S)
  PROVE  \E kept : /\ kept[0] = <<>> /\ kept[Len(s)] = FoldLeft(Keep, <<>>, s)
                   /\ \A n \in 1..Len(s) : kept[n] = Keep(kept[n - 1], s[n])
<1> DEFINE Step(h, d) == IF d = {} THEN <<>> ELSE Keep(h[d \ {Max(d)}], s[Max(d)])
           Rec(h, n) == h = [d \in SUBSET (1..n) |-> Step(h, d)]
           T == {n \in Nat : \E h : Rec(h, n)}
<1>1. 0 \in T
  <2> DEFINE h == [d \in SUBSET (1..0) |-> <<>>]
  <2>1. h = [d \in SUBSET (1..0) |-> Step(h, d)]
    OBVIOUS
  <2> QED BY <2>1
<1>2. ASSUME NEW n \in Nat, n \in T PROVE n + 1 \in T
  <2>1. PICK h : Rec(h, n)
    BY <1>2
  <2> DEFINE k == [d \in SUBSET (1..n + 1) |->
                     IF n + 1 \in d THEN Keep(h[d \ {n + 1}], s[n + 1]) ELSE h[d]]
  <2>2. ASSUME NEW d \in SUBSET (1..n + 1) PROVE k[d] = Step(k, d)
    <3>1. CASE n + 1 \in d
      <4>1. Max(d) = n + 1
        BY <3>1, MaxUpTo
      <4>2. d \ {n + 1} \in SUBSET (1..n + 1) /\ n + 1 \notin d \ {n + 1}
        OBVIOUS
      <4>3. k[d \ {n + 1}] = h[d \ {n + 1}]
        BY <4>2
      <4> QED BY <3>1, <4>1, <4>3
    <3>2. CASE n + 1 \notin d
      <4>1. d \in SUBSET (1..n)
        BY <3>2
      <4>2. h[d] = Step(h, d)
        BY <2>1, <4>1
      <4>3. d \ {Max(d)} \in SUBSET (1..n + 1) /\ n + 1 \notin d \ {Max(d)}
        BY <3>2
      <4>4. k[d \ {Max(d)}] = h[d \ {Max(d)}] /\ k[d] = h[d]
        BY <3>2, <4>3
      <4> QED BY <4>2, <4>4
    <3> QED BY <3>1, <3>2
  <2>3. Rec(k, n + 1)
    <3> DEFINE k2 == [d \in SUBSET (1..n + 1) |-> Step(k, d)]
    <3>1. \A d \in SUBSET (1..n + 1) : k[d] = k2[d]
      BY <2>2
    <3> QED BY <3>1
  <2>4. n + 1 \in Nat
    OBVIOUS
  <2> HIDE DEF Rec, k
  <2> QED BY <2>3, <2>4
<1>3. Len(s) \in Nat /\ DOMAIN s = 1..Len(s)
  BY LenProperties
<1>4. Len(s) \in T
  <2> HIDE DEF T
  <2> QED BY <1>1, <1>2, <1>3, NumbersBelow
<1> DEFINE iter == CHOOSE h : h = [d \in SUBSET DOMAIN s |-> Step(h, d)]
<1>5. FoldLeft(Keep, <<>>, s) = iter[DOMAIN s]
  BY Zenon DEF FoldLeft, MapThenFoldSet
<1>6. iter = [d \in SUBSET (1..Len(s)) |-> Step(iter, d)]
  BY <1>3, <1>4
<1> HIDE DEF iter, T
<1> DEFINE kept == [n \in 0..Len(s) |-> iter[1..n]]
<1>7. kept[0] = <<>> /\ kept[Len(s)] = FoldLeft(Keep, <<>>, s)
  <2>1. iter[{}] = <<>>
    BY <1>6
  <2> QED BY <1>3, <1>5, <2>1
<1>8. ASSUME NEW n \in 1..Len(s) PROVE kept[n] = Keep(kept[n - 1], s[n])
  <2>1. /\ Max(1..n) = n
        /\ (1..n) \ {n} = 1..n - 1 /\ 1..n \in SUBSET (1..Len(s)) /\ 1..n # {}
    <3>1. n \in Nat \ {0} /\ n \in 1..n
      BY <1>3
    <3>2. Max(1..n) = n
      BY <3>1, MaxUpTo
    <3>3. (1..n) \ {n} = 1..n - 1
      OBVIOUS
    <3>4. \A x \in 1..n : x \in 1..Len(s)
      BY <1>3, <3>1
    <3>5. 1..n \in SUBSET (1..Len(s)) /\ 1..n # {}
      BY <3>1, <3>4
    <3> QED BY <3>2, <3>3, <3>5
  <2>2. iter[1..n] = Step(iter, 1..n)
    BY <1>6, <2>1
  <2>3. n \in 0..Len(s) /\ n - 1 \in 0..Len(s)
    BY <1>3
  <2> QED BY <2>1, <2>2, <2>3
<1> QED BY <1>7, <1>8

Elems(s) == {s[i] : i \in 1..Len(s)}

LEMMA CutStep ==
  ASSUME NEW S, NEW s \in Seq(S), s # <<>>
  PROVE  /\ Front(s) \in Seq(S) /\ Len(Front(s)) = Len(s) - 1 /\ Last(s) \in S
         /\ Len(s) \in Nat \ {0}
         /\ \A i \in 1..Len(s) - 1 : Front(s)[i] = s[i]
<1>1. Len(s) \in Nat \ {0} /\ \A i \in 1..Len(s) : s[i] \in S
  BY EmptySeq, ElementOfSeq
<1>2. \A i \in 1..Len(s) - 1 : s[i] \in S
  BY <1>1
<1>3. Len(s) - 1 \in Int /\ 1 \in Int
  BY <1>1
<1>4. /\ Front(s) \in Seq(S)
      /\ Len(Front(s)) = IF 1 <= Len(s) - 1 THEN Len(s) - 1 - 1 + 1 ELSE 0
      /\ \A i \in 1..Len(s) - 1 - 1 + 1 : Front(s)[i] = s[1 + i - 1]
  BY <1>2, <1>3, SubSeqProperties DEF Front
<1>5. Len(Front(s)) = Len(s) - 1
  <2>1. \A l \in Nat \ {0} : (IF 1 <= l - 1 THEN l - 1 - 1 + 1 ELSE 0) = l - 1
    OBVIOUS
  <2> QED BY Zenon, <1>1, <1>4, <2>1
<1>6. \A i \in 1..Len(s) - 1 : Front(s)[i] = s[i]
  BY <1>1, <1>4
<1> QED BY <1>1, <1>4, <1>5, <1>6 DEF Last

\* What Keep does to findings kept in order, none of them after the next one.
LEMMA KeepStep ==
  ASSUME NEW S, \A f \in S : f.start \in Nat /\ f.end \in Nat /\ f.start < f.end /\ f.confidence \in Nat,
         NEW k \in Seq(S), NEW f \in S, f \notin Elems(k),
         \A i \in 1..Len(k) : k[i].start <= f.start,
         \A i, j \in 1..Len(k) : i < j => k[i].end <= k[j].start
  PROVE  LET n == Keep(k, f)
         IN  /\ n \in Seq(S) /\ n # <<>> /\ Elems(n) \subseteq Elems(k) \cup {f}
             /\ \A i, j \in 1..Len(n) : i < j => n[i].end <= n[j].start
             /\ \A g \in (Elems(k) \cup {f}) \ Elems(n) : \E h \in (Elems(k) \cup {f}) \ {g} :
                  Overlap(g, h) /\ h.confidence >= g.confidence
<1>0. Len(k) \in Nat /\ \A i \in 1..Len(k) : k[i] \in S
  BY EmptySeq, LenProperties, ElementOfSeq
<1>1. CASE k # <<>> /\ f.start < Last(k).end /\ f.confidence > Last(k).confidence
  <2> DEFINE n == Append(Front(k), f)
  <2>1. Keep(k, f) = n
    BY <1>1 DEF Keep
  <2>2. /\ Front(k) \in Seq(S) /\ Len(Front(k)) = Len(k) - 1 /\ Last(k) \in S
        /\ Len(k) \in Nat \ {0} /\ Last(k) = k[Len(k)]
        /\ \A i \in 1..Len(k) - 1 : Front(k)[i] = k[i]
    BY <1>1, CutStep DEF Last
  <2>3. /\ n \in Seq(S) /\ Len(n) = Len(k) /\ n[Len(k)] = f /\ n # <<>>
        /\ \A i \in 1..Len(k) - 1 : n[i] = k[i]
    <3> DEFINE c == Front(k)
    <3>1. c \in Seq(S) /\ Len(c) = Len(k) - 1 /\ Len(k) \in Nat \ {0}
      BY <2>2
    <3> HIDE DEF c
    <3>2. /\ Append(c, f) \in Seq(S) /\ Append(c, f) # <<>> /\ Len(Append(c, f)) = Len(c) + 1
          /\ \A i \in 1..Len(c) : Append(c, f)[i] = c[i]
          /\ Append(c, f)[Len(c) + 1] = f
      BY <3>1, AppendProperties
    <3>3. Len(k) - 1 + 1 = Len(k)
      BY <3>1
    <3> QED BY Zenon, <2>2, <3>1, <3>2, <3>3 DEF c
  <2> HIDE DEF n
  <2>4. \A g : g \in Elems(n) <=> g = f \/ \E i \in 1..Len(k) - 1 : g = k[i]
    <3>1. \A i : i \in 1..Len(k) <=> i = Len(k) \/ i \in 1..Len(k) - 1
      BY <2>2
    <3> QED BY <2>3, <3>1 DEF Elems
  <2>5. \A i, j \in 1..Len(n) : i < j => n[i].end <= n[j].start
    <3> SUFFICES ASSUME NEW i \in 1..Len(n), NEW j \in 1..Len(n), i < j
                 PROVE  n[i].end <= n[j].start
      OBVIOUS
    <3>1. i \in 1..Len(k) - 1 /\ n[i] = k[i]
      <4>1. i \in 1..Len(k) /\ j \in 1..Len(k) /\ Len(k) \in Nat
        BY <2>2, <2>3
      <4>2. i \in 1..Len(k) - 1
        BY <4>1
      <4> QED BY Zenon, <2>3, <4>2
    <3>2. CASE j = Len(k)
      <4>1. k[i].end <= k[Len(k)].start /\ k[Len(k)].start <= f.start /\ n[j] = f
        BY <2>2, <2>3, <3>1, <3>2
      <4>2. k[i] \in S /\ k[Len(k)] \in S
        BY <1>0, <2>2, <3>1
      <4> QED BY <3>1, <4>1, <4>2
    <3>3. CASE j # Len(k)
      <4>1. j \in 1..Len(k) - 1 /\ j \in 1..Len(k) /\ i \in 1..Len(k)
        BY <2>2, <2>3, <3>1, <3>3
      <4>2. n[j] = k[j]
        BY <2>3, <4>1
      <4> QED BY <3>1, <4>1, <4>2
    <3> QED BY <3>2, <3>3
  <2>6. ASSUME NEW g \in (Elems(k) \cup {f}) \ Elems(n)
        PROVE  \E h \in (Elems(k) \cup {f}) \ {g} : Overlap(g, h) /\ h.confidence >= g.confidence
    <3>1. g = Last(k)
      <4>1. PICK i \in 1..Len(k) : g = k[i]
        BY <2>4 DEF Elems
      <4>2. i \notin 1..Len(k) - 1
        BY <2>4, <4>1
      <4>3. i = Len(k)
        BY <2>2, <4>1, <4>2
      <4> QED BY <2>2, <4>1, <4>3
    <3>2. g # f /\ f \in Elems(k) \cup {f}
      BY <2>4
    <3>3. Overlap(g, f) /\ f.confidence >= g.confidence
      <4>1. g.start <= f.start /\ f.start < g.end /\ f.confidence > g.confidence /\ g \in S
        BY <1>1, <2>2, <3>1
      <4> QED BY <4>1 DEF Overlap
    <3> QED BY <3>2, <3>3
  <2>7. Elems(n) \subseteq Elems(k) \cup {f}
    <3>1. \A i \in 1..Len(k) - 1 : i \in 1..Len(k)
      BY <2>2
    <3> QED BY <2>4, <3>1 DEF Elems
  <2> QED BY <2>1, <2>3, <2>5, <2>6, <2>7
<1>2. CASE k # <<>> /\ f.start < Last(k).end /\ ~(f.confidence > Last(k).confidence)
  <2>1. Keep(k, f) = k
    BY <1>2 DEF Keep
  <2>2. Last(k) \in S /\ Len(k) \in Nat \ {0} /\ Last(k) = k[Len(k)]
    BY <1>2, CutStep DEF Last
  <2>3. Last(k) \in Elems(k) /\ Last(k) # f /\ Last(k).start <= f.start
    BY <2>2 DEF Elems
  <2>4. Overlap(f, Last(k)) /\ Last(k).confidence >= f.confidence
    BY <1>2, <2>2, <2>3 DEF Overlap
  <2> QED BY <1>2, <2>1, <2>3, <2>4
<1>3. CASE k = <<>> \/ ~(f.start < Last(k).end)
  <2> DEFINE n == Append(k, f)
  <2>1. Keep(k, f) = n
    BY <1>3 DEF Keep
  <2>2. /\ n \in Seq(S) /\ Len(n) = Len(k) + 1 /\ n[Len(k) + 1] = f /\ n # <<>>
        /\ \A i \in 1..Len(k) : n[i] = k[i]
    BY <1>0, AppendProperties
  <2> HIDE DEF n
  <2>3. Elems(n) = Elems(k) \cup {f}
    <3>1. \A i : i \in 1..Len(n) <=> i = Len(k) + 1 \/ i \in 1..Len(k)
      BY <1>0, <2>2
    <3>2. \A g : g \in Elems(n) <=> g = f \/ g \in Elems(k)
      BY <2>2, <3>1 DEF Elems
    <3> QED BY <3>2
  <2>4. \A i, j \in 1..Len(n) : i < j => n[i].end <= n[j].start
    <3> SUFFICES ASSUME NEW i \in 1..Len(n), NEW j \in 1..Len(n), i < j
                 PROVE  n[i].end <= n[j].start
      OBVIOUS
    <3>1. i \in 1..Len(k) /\ n[i] = k[i]
      BY <1>0, <2>2
    <3>2. CASE j = Len(k) + 1
      <4>1. k # <<>> /\ Last(k) \in S /\ Len(k) \in Nat \ {0} /\ Last(k) = k[Len(k)]
        <5>1. k # <<>>
          BY <3>1, EmptySeq
        <5> QED BY <5>1, CutStep DEF Last
      <4>2. Last(k).end <= f.start /\ n[j] = f
        BY <1>3, <2>2, <3>2, <4>1
      <4>3. k[i].end <= Last(k).end
        <5>1. CASE i = Len(k)
          BY <4>1, <5>1
        <5>2. CASE i # Len(k)
          <6>1. k[i].end <= k[Len(k)].start /\ k[i] \in S
            BY <1>0, <3>1, <4>1, <5>2
          <6> QED BY <4>1, <6>1
        <5> QED BY <5>1, <5>2
      <4>4. k[i] \in S
        BY <1>0, <3>1
      <4> QED BY <3>1, <4>1, <4>2, <4>3, <4>4
    <3>3. CASE j # Len(k) + 1
      <4>1. j \in 1..Len(k)
        <5>1. Len(n) = Len(k) + 1 /\ Len(k) \in Nat
          BY <1>0, <2>2
        <5> QED BY <3>3, <5>1
      <4>2. n[j] = k[j]
        BY <2>2, <4>1
      <4> QED BY <3>1, <4>1, <4>2
    <3> QED BY <3>2, <3>3
  <2> QED BY <2>1, <2>2, <2>3, <2>4
<1> QED BY <1>1, <1>2, <1>3

\* Findings of a text: finitely many, each of one pattern, none of them empty.
FindingSet(S) ==
  /\ IsFiniteSet(S)
  /\ \A f \in S : /\ f.start \in Nat /\ f.end \in 0..TextLength /\ f.start < f.end
                  /\ f.confidence \in Nat /\ f.pattern \in Nat
  /\ \A f, g \in S : f.pattern = g.pattern => f = g

LEMMA BeforeOrders ==
  ASSUME NEW S, FindingSet(S)
  PROVE  /\ \A f \in S : ~Before(f, f)
         /\ \A f, g \in S : Before(f, g) \/ Before(g, f) \/ f = g
         /\ \A f, g, h \in S : Before(f, g) /\ Before(g, h) => Before(f, h)
<1>1. \A f, g \in S : Before(f, g) \/ Before(g, f) \/ f = g
  BY DEF Before, FindingSet
<1>2. \A f \in S : ~Before(f, f)
  BY DEF Before, FindingSet
<1>3. \A f, g, h \in S : Before(f, g) /\ Before(g, h) => Before(f, h)
  BY DEF Before, FindingSet
<1> QED BY <1>1, <1>2, <1>3

LEMMA SameInterval ==
  ASSUME NEW n \in Nat, NEW m \in Nat, 1..n = 1..m
  PROVE  n = m
<1>1. \A i \in Int : i \in 1..n <=> i \in 1..m
  OBVIOUS
<1>2. n + 1 \notin 1..m /\ m + 1 \notin 1..n
  BY <1>1
<1> QED BY <1>2

\* InOrder sorts: every finding once, and each before the next.
LEMMA SortedOnce ==
  ASSUME NEW S, FindingSet(S)
  PROVE  LET s == InOrder(S)
         IN  /\ s \in Seq(S) /\ Len(s) = Cardinality(S)
             /\ \A f \in S : \E i \in 1..Len(s) : s[i] = f
             /\ \A i, j \in 1..Len(s) : i < j => Before(s[i], s[j]) /\ s[i] # s[j]
<1> DEFINE ahead(f) == {g \in S : Before(g, f)}
           N == Cardinality(S)
           rank == [f \in S |-> Cardinality(ahead(f)) + 1]
<1>1. IsFiniteSet(S) /\ N \in Nat
  BY FS_CardinalityType DEF FindingSet
<1>2. ASSUME NEW f \in S PROVE IsFiniteSet(ahead(f)) /\ Cardinality(ahead(f)) \in Nat
  <2>1. ahead(f) \in SUBSET S
    OBVIOUS
  <2> QED BY <1>1, <2>1, FS_Subset, FS_CardinalityType
<1>3. ASSUME NEW f \in S PROVE Cardinality(ahead(f)) < N
  <2>1. ahead(f) \in SUBSET S /\ f \notin ahead(f)
    BY BeforeOrders
  <2>2. Cardinality(ahead(f)) <= N /\ (N = Cardinality(ahead(f)) => S = ahead(f))
    BY <1>1, <2>1, FS_Subset
  <2> QED BY <1>1, <1>2, <2>1, <2>2
<1>4. ASSUME NEW f \in S, NEW g \in S, Before(f, g) PROVE Cardinality(ahead(f)) < Cardinality(ahead(g))
  <2>1. ahead(f) \in SUBSET ahead(g) /\ f \in ahead(g) /\ f \notin ahead(f)
    BY <1>4, BeforeOrders
  <2>2. /\ Cardinality(ahead(f)) <= Cardinality(ahead(g))
        /\ Cardinality(ahead(g)) = Cardinality(ahead(f)) => ahead(g) = ahead(f)
    BY <1>2, <2>1, FS_Subset
  <2>3. Cardinality(ahead(f)) \in Nat /\ Cardinality(ahead(g)) \in Nat
    BY <1>2
  <2> QED BY <2>1, <2>2, <2>3
<1>5. ASSUME NEW f \in S, NEW g \in S, Cardinality(ahead(f)) < Cardinality(ahead(g)) PROVE Before(f, g)
  <2>1. Cardinality(ahead(f)) \in Nat /\ Cardinality(ahead(g)) \in Nat
    BY <1>2
  <2>2. f # g /\ ~(Cardinality(ahead(g)) < Cardinality(ahead(f)))
    BY <1>5, <2>1
  <2> QED BY <1>4, <2>2, BeforeOrders
<1>6. rank \in Injection(S, 1..N)
  <2>1. ASSUME NEW f \in S PROVE rank[f] \in 1..N
    <3>1. rank[f] = Cardinality(ahead(f)) + 1
      OBVIOUS
    <3>2. Cardinality(ahead(f)) \in Nat /\ Cardinality(ahead(f)) < N
      BY <1>2, <1>3
    <3> HIDE DEF rank, ahead, N
    <3> QED BY <1>1, <3>1, <3>2
  <2>2. ASSUME NEW f \in S, NEW g \in S, rank[f] = rank[g] PROVE f = g
    <3>1. Cardinality(ahead(f)) = Cardinality(ahead(g)) /\ Cardinality(ahead(f)) \in Nat
      BY <1>2, <2>2
    <3>2. ~(Cardinality(ahead(f)) < Cardinality(ahead(g))) /\ ~(Cardinality(ahead(g)) < Cardinality(ahead(f)))
      BY <3>1
    <3> QED BY <1>4, <3>2, BeforeOrders
  <2> QED BY <2>1, <2>2 DEF Injection, IsInjective
<1>7. rank \in Surjection(S, 1..N)
  <2>1. IsFiniteSet(1..N) /\ Cardinality(1..N) = N
    BY <1>1, FS_Interval
  <2> HIDE DEF rank, N
  <2> QED BY <1>6, <2>1, FS_Injection DEF N
<1>8. ASSUME NEW k \in 1..N
      PROVE  InOrder(S)[k] \in S /\ Cardinality(ahead(InOrder(S)[k])) = k - 1
  <2>1. \E f \in S : Cardinality(ahead(f)) = k - 1
    <3>1. PICK f \in S : rank[f] = k
      BY <1>7 DEF Surjection
    <3>2. Cardinality(ahead(f)) + 1 = k /\ Cardinality(ahead(f)) \in Nat
      BY <1>2, <3>1
    <3>3. Cardinality(ahead(f)) = k - 1
      BY <3>2
    <3> QED BY <3>3
  <2>2. InOrder(S)[k] = CHOOSE f \in S : Cardinality(ahead(f)) = k - 1
    BY Zenon DEF InOrder
  <2> HIDE DEF ahead, N
  <2> QED BY <2>1, <2>2
<1> DEFINE s == InOrder(S)
<1>9. s = [k \in 1..N |-> s[k]]
  <2>1. s = [k \in 1..N |-> CHOOSE f \in S : Cardinality(ahead(f)) = k - 1]
    BY Zenon DEF InOrder
  <2> HIDE DEF s, N, ahead
  <2> QED BY <2>1
<1>10. s \in [1..N -> S]
  <2> HIDE DEF s, N
  <2> QED BY <1>8, <1>9 DEF s
<1>11. s \in Seq(S) /\ Len(s) = N
  <2> HIDE DEF s, N
  <2>1. s \in Seq(S)
    BY <1>1, <1>10, SeqDef
  <2>2. 1..Len(s) = 1..N /\ Len(s) \in Nat
    BY <1>10, <2>1, LenProperties
  <2>3. N \in Nat /\ Len(s) = N
    BY <1>1, <2>2, SameInterval
  <2> QED BY <2>1, <2>3
<1>12. ASSUME NEW f \in S PROVE \E i \in 1..N : s[i] = f
  <2>1. rank[f] \in 1..N /\ Cardinality(ahead(f)) = rank[f] - 1
    <3>1. rank[f] = Cardinality(ahead(f)) + 1 /\ Cardinality(ahead(f)) \in Nat
      BY <1>2
    <3>2. rank[f] \in 1..N
      BY <1>6 DEF Injection
    <3> HIDE DEF rank, ahead, N
    <3> QED BY <3>1, <3>2
  <2>2. s[rank[f]] \in S /\ Cardinality(ahead(s[rank[f]])) = rank[f] - 1
    BY <1>8, <2>1
  <2>3. rank[s[rank[f]]] = rank[f]
    BY <2>1, <2>2
  <2>4. s[rank[f]] = f
    BY <1>6, <2>2, <2>3 DEF Injection, IsInjective
  <2> QED BY <2>1, <2>4
<1>13. ASSUME NEW i \in 1..N, NEW j \in 1..N, i < j PROVE Before(s[i], s[j]) /\ s[i] # s[j]
  <2>1. /\ s[i] \in S /\ s[j] \in S
        /\ Cardinality(ahead(s[i])) = i - 1 /\ Cardinality(ahead(s[j])) = j - 1
    BY <1>8
  <2>2. Cardinality(ahead(s[i])) < Cardinality(ahead(s[j]))
    BY <1>1, <1>13, <2>1
  <2> QED BY <1>5, <2>1, <2>2, BeforeOrders
<1> QED BY <1>11, <1>12, <1>13

\* What the findings kept after some of them promise about those.
Resolved(kept, done) ==
  /\ Elems(kept) \subseteq done /\ (done # {} => kept # <<>>)
  /\ \A i, j \in 1..Len(kept) : i < j => kept[i].end <= kept[j].start
  /\ \A g \in done \ Elems(kept) : \E h \in done \ {g} : Overlap(g, h) /\ h.confidence >= g.confidence

\* _deduplicate: what is kept does not overlap, and each finding given up overlaps another
\* at least as certain.
LEMMA KeptFindings ==
  ASSUME NEW S, FindingSet(S)
  PROVE  Deduplicate(S) \in Seq(S) /\ Resolved(Deduplicate(S), S)
<1> DEFINE s == InOrder(S)
           done(n) == {s[m] : m \in 1..n}
<1>1. /\ s \in Seq(S) /\ Len(s) \in Nat
      /\ \A f \in S : \E i \in 1..Len(s) : s[i] = f
      /\ \A i, j \in 1..Len(s) : i < j => Before(s[i], s[j]) /\ s[i] # s[j]
      /\ \A i \in 1..Len(s) : s[i] \in S
  <2>1. s \in Seq(S)
    BY SortedOnce
  <2>2. Len(s) \in Nat /\ \A i \in 1..Len(s) : s[i] \in S
    <3> HIDE DEF s
    <3> QED BY <2>1, LenProperties, ElementOfSeq
  <2> QED BY <2>1, <2>2, SortedOnce
<1> HIDE DEF s
<1>2. PICK kept : /\ kept[0] = <<>> /\ kept[Len(s)] = FoldLeft(Keep, <<>>, s)
                  /\ \A n \in 1..Len(s) : kept[n] = Keep(kept[n - 1], s[n])
  BY <1>1, KeepFold
<1> DEFINE T == {n \in Nat : n <= Len(s) => kept[n] \in Seq(S) /\ Resolved(kept[n], done(n))}
<1>3. 0 \in T
  <2>1. kept[0] \in Seq(S) /\ Len(kept[0]) = 0 /\ done(0) = {} /\ Elems(kept[0]) = {}
    BY <1>2, EmptySeq DEF Elems
  <2>2. \A i, j \in 1..Len(kept[0]) : i < j => kept[0][i].end <= kept[0][j].start
    BY <2>1
  <2> QED BY <2>1, <2>2 DEF Resolved
<1>4. ASSUME NEW n \in Nat, n \in T PROVE n + 1 \in T
  <2> SUFFICES ASSUME n + 1 <= Len(s)
               PROVE  kept[n + 1] \in Seq(S) /\ Resolved(kept[n + 1], done(n + 1))
    OBVIOUS
  <2> DEFINE k == kept[n]
             f == s[n + 1]
  <2>1. /\ n <= Len(s) /\ n + 1 \in 1..Len(s) /\ \A m \in 1..n : m \in 1..Len(s) /\ m < n + 1
        /\ n + 1 - 1 = n
    BY <1>1
  <2>2. k \in Seq(S) /\ Resolved(k, done(n)) /\ f \in S /\ kept[n + 1] = Keep(k, f)
    <3>1. f \in S
      BY <1>1, <2>1
    <3>2. kept[n + 1] = Keep(k, f)
      BY <1>2, <2>1
    <3> HIDE DEF f, done
    <3>3. k \in Seq(S) /\ Resolved(k, done(n))
      BY <1>4, <2>1
    <3> QED BY <3>1, <3>2, <3>3
  <2>3. \A g \in done(n) : g.start <= f.start /\ g # f /\ g \in S
    <3> TAKE g \in done(n)
    <3>1. PICK m \in 1..n : g = s[m]
      OBVIOUS
    <3>2. m \in 1..Len(s) /\ g \in S /\ Before(g, f) /\ g # f
      BY <1>1, <2>1, <3>1
    <3>3. g.start \in Nat /\ f.start \in Nat
      BY <2>2, <3>2 DEF FindingSet
    <3> QED BY <3>2, <3>3 DEF Before
  <2>4. done(n + 1) = done(n) \cup {f}
    <3>1. \A m : m \in 1..n + 1 <=> m = n + 1 \/ m \in 1..n
      OBVIOUS
    <3>2. \A g : g \in done(n + 1) <=> g = f \/ g \in done(n)
      BY <3>1
    <3> HIDE DEF done
    <3> QED BY <3>2
  <2> DEFINE before == done(n)
  <2> HIDE DEF done, f, k
  <2>5. f \notin Elems(k) /\ \A i \in 1..Len(k) : k[i].start <= f.start
    BY <2>2, <2>3 DEF Resolved, Elems
  <2>6. \A i, j \in 1..Len(k) : i < j => k[i].end <= k[j].start
    BY <2>2 DEF Resolved
  <2>7. \A g \in S : g.start \in Nat /\ g.end \in Nat /\ g.start < g.end /\ g.confidence \in Nat
    <3>1. TextLength \in Nat
      BY DlpAssumption
    <3> QED BY <3>1 DEF FindingSet
  <2> DEFINE next == Keep(k, f)
  <2>8. /\ next \in Seq(S) /\ next # <<>> /\ Elems(next) \subseteq Elems(k) \cup {f}
        /\ \A i, j \in 1..Len(next) : i < j => next[i].end <= next[j].start
        /\ \A g \in (Elems(k) \cup {f}) \ Elems(next) : \E h \in (Elems(k) \cup {f}) \ {g} :
             Overlap(g, h) /\ h.confidence >= g.confidence
    BY Zenon, <2>2, <2>5, <2>6, <2>7, KeepStep
  <2> HIDE DEF next
  <2>9. \A g \in done(n + 1) \ Elems(next) : \E h \in done(n + 1) \ {g} :
          Overlap(g, h) /\ h.confidence >= g.confidence
    <3> TAKE g \in done(n + 1) \ Elems(next)
    <3>1. Elems(k) \cup {f} \subseteq done(n + 1) /\ done(n) \subseteq done(n + 1)
      BY <2>2, <2>4 DEF Resolved
    <3>2. CASE g \in Elems(k) \cup {f}
      BY <2>8, <3>1, <3>2
    <3>3. CASE g \in done(n) \ Elems(k)
      BY <2>2, <3>1, <3>3 DEF Resolved
    <3> QED BY <2>4, <3>2, <3>3
  <2>10. Elems(next) \subseteq done(n + 1)
    BY <2>2, <2>4, <2>8 DEF Resolved
  <2>11. kept[n + 1] = next
    BY <2>2 DEF next
  <2> QED BY <2>8, <2>9, <2>10, <2>11 DEF Resolved
<1>5. Len(s) \in T
  <2> HIDE DEF T
  <2> QED BY <1>1, <1>3, <1>4, NumbersBelow
<1>6. done(Len(s)) = S
  BY <1>1
<1>7. Deduplicate(S) = kept[Len(s)]
  BY <1>2 DEF Deduplicate, s
<1> HIDE DEF done
<1>8. kept[Len(s)] \in Seq(S) /\ Resolved(kept[Len(s)], done(Len(s)))
  <2>1. Len(s) <= Len(s)
    BY <1>1
  <2> QED BY <1>5, <2>1
<1> QED BY <1>6, <1>7, <1>8

LEMMA MinFrom ==
  ASSUME NEW n \in Nat, NEW m \in Nat, NEW d \in SUBSET (m..n), m \in d
  PROVE  Min(d) = m
<1>1. \A y \in d : y \in m..n
  OBVIOUS
<1>2. m \in d /\ \A y \in d : m <= y
  BY <1>1
<1>3. \A x \in d : (\A y \in d : x <= y) => x = m
  <2> TAKE x \in d
  <2> HAVE \A y \in d : x <= y
  <2>1. x <= m /\ x \in m..n
    BY <1>1
  <2> QED BY <2>1
<1> QED BY <1>2, <1>3 DEF Min

\* The fold of RedactOne redacts the findings one after another, the last one first.
LEMMA RedactFold ==
  ASSUME NEW S, NEW s \in Seq(S), NEW mode
  PROVE  \E chars : /\ chars[0] = Text /\ chars[Len(s)] = Redact(s, mode)
                    /\ \A n \in 1..Len(s) :
                         chars[n] = RedactOne(mode, s[Len(s) + 1 - n], chars[n - 1])
<1> DEFINE N == Len(s)
           Step(h, d) == IF d = {} THEN Text ELSE RedactOne(mode, s[Min(d)], h[d \ {Min(d)}])
           from(n) == N + 1 - n..N
           Rec(h, n) == h = [d \in SUBSET from(n) |-> Step(h, d)]
           T == {n \in Nat : n <= N => \E h : Rec(h, n)}
<1>0. N \in Nat /\ DOMAIN s = 1..N
  BY LenProperties
<1> HIDE DEF N
<1>1. 0 \in T
  <2>1. from(0) = {}
    BY <1>0
  <2> DEFINE h == [d \in SUBSET {} |-> Text]
  <2>2. h = [d \in SUBSET {} |-> Step(h, d)]
    OBVIOUS
  <2>3. Rec(h, 0)
    BY <2>1, <2>2
  <2> QED BY <2>3
<1>2. ASSUME NEW n \in Nat, n \in T PROVE n + 1 \in T
  <2> HIDE DEF Rec
  <2> SUFFICES ASSUME n + 1 <= N PROVE \E h : Rec(h, n + 1)
    OBVIOUS
  <2> USE DEF Rec
  <2>1. n <= N
    BY <1>0
  <2>2. PICK h : Rec(h, n)
    BY <1>2, <2>1
  <2> DEFINE c == N - n
             k == [d \in SUBSET from(n + 1) |->
                     IF c \in d THEN RedactOne(mode, s[c], h[d \ {c}]) ELSE h[d]]
  <2>3. c \in Nat \ {0} /\ from(n + 1) = c..N
    BY <1>0
  <2>4. \A d \in SUBSET from(n + 1) : c \notin d => d \in SUBSET from(n)
    <3>1. \A x \in from(n + 1) : x # c => x \in from(n)
      BY <1>0
    <3> HIDE DEF from, c
    <3> QED BY <3>1
  <2> HIDE DEF c, from
  <2>5. ASSUME NEW d \in SUBSET from(n + 1) PROVE k[d] = Step(k, d)
    <3>1. CASE c \in d
      <4>1. Min(d) = c
        BY <1>0, <2>3, <3>1, MinFrom
      <4>2. d \ {c} \in SUBSET from(n + 1) /\ c \notin d \ {c}
        OBVIOUS
      <4>3. k[d \ {c}] = h[d \ {c}]
        BY <4>2
      <4> QED BY <3>1, <4>1, <4>3
    <3>2. CASE c \notin d
      <4>1. d \in SUBSET from(n)
        BY <2>4, <3>2
      <4>2. h[d] = Step(h, d)
        BY <2>2, <4>1
      <4>3. d \ {Min(d)} \in SUBSET from(n + 1) /\ c \notin d \ {Min(d)}
        BY <3>2
      <4>4. k[d \ {Min(d)}] = h[d \ {Min(d)}] /\ k[d] = h[d]
        BY <3>2, <4>3
      <4> QED BY <4>2, <4>4
    <3> QED BY <3>1, <3>2
  <2>6. Rec(k, n + 1)
    <3> DEFINE k2 == [d \in SUBSET from(n + 1) |-> Step(k, d)]
    <3>1. \A d \in SUBSET from(n + 1) : k[d] = k2[d]
      BY <2>5
    <3> QED BY <3>1
  <2> HIDE DEF Rec, k
  <2> QED BY <2>6
<1>3. \E h : Rec(h, N)
  <2>1. N \in T
    <3> HIDE DEF T
    <3> QED BY <1>0, <1>1, <1>2, NumbersBelow
  <2>2. N <= N
    BY <1>0
  <2> HIDE DEF Rec
  <2> QED BY <2>1, <2>2
<1> DEFINE iter == CHOOSE h : h = [d \in SUBSET DOMAIN s |-> Step(h, d)]
<1>4. Redact(s, mode) = iter[DOMAIN s]
  BY Zenon DEF Redact, FoldRight, MapThenFoldSet
<1>5. iter = [d \in SUBSET (1..N) |-> Step(iter, d)]
  <2>1. from(N) = 1..N
    BY <1>0
  <2> HIDE DEF from
  <2> QED BY <1>0, <1>3, <2>1
<1> HIDE DEF iter, T
<1> DEFINE chars == [n \in 0..N |-> iter[from(n)]]
<1>6. chars[0] = Text /\ chars[N] = Redact(s, mode)
  <2>1. iter[{}] = Text
    BY <1>5
  <2>2. from(0) = {} /\ from(N) = 1..N /\ 0 \in 0..N /\ N \in 0..N
    BY <1>0
  <2> HIDE DEF from
  <2> QED BY <1>0, <1>4, <2>1, <2>2
<1>7. ASSUME NEW n \in 1..N PROVE chars[n] = RedactOne(mode, s[N + 1 - n], chars[n - 1])
  <2> DEFINE c == N + 1 - n
  <2>1. c \in Nat /\ c \in 1..N /\ n \in 0..N /\ n - 1 \in 0..N
    BY <1>0
  <2>2. \A x \in from(n) : x \in 1..N
    BY <1>0
  <2>3. from(n) \ {c} = from(n - 1)
    <3>1. \A x : x \in from(n - 1) <=> x \in from(n) /\ x # c
      BY <1>0
    <3> HIDE DEF from, c
    <3> QED BY <3>1
  <2>4. from(n) = c..N /\ c \in from(n)
    BY <1>0
  <2> HIDE DEF from, c
  <2>5. Min(from(n)) = c
    BY <1>0, <2>1, <2>4, MinFrom
  <2>6. from(n) \in SUBSET (1..N) /\ from(n) # {}
    BY <2>2, <2>4
  <2>7. iter[from(n)] = Step(iter, from(n))
    BY <1>5, <2>6
  <2>8. iter[from(n)] = RedactOne(mode, s[c], iter[from(n - 1)])
    BY <2>3, <2>5, <2>6, <2>7
  <2> QED BY <2>1, <2>8 DEF c
<1> QED BY <1>6, <1>7 DEF N

\* Findings kept, in the order of the text.
KeptSet(S, s) ==
  /\ FindingSet(S) /\ s \in Seq(S)
  /\ \A i, j \in 1..Len(s) : i < j => s[i].end <= s[j].start

\* The findings redact has dealt with after n of them, and the place it has come to.
LastOnes(s, n) == {s[m] : m \in Len(s) + 1 - n..Len(s)}

LEMMA LastOnesGrow ==
  ASSUME NEW S, NEW s \in Seq(S), NEW n \in Nat, n + 1 <= Len(s)
  PROVE  /\ LastOnes(s, 0) = {} /\ s[Len(s) - n] \in S
         /\ LastOnes(s, n + 1) = LastOnes(s, n) \cup {s[Len(s) - n]}
<1>1. Len(s) \in Nat /\ Len(s) - n \in 1..Len(s)
  BY LenProperties
<1>2. \A m : m \in Len(s) + 1 - (n + 1)..Len(s) <=> m = Len(s) - n \/ m \in Len(s) + 1 - n..Len(s)
  BY <1>1
<1>3. \A f : f \in LastOnes(s, n + 1) <=> f \in LastOnes(s, n) \/ f = s[Len(s) - n]
  BY <1>2 DEF LastOnes
<1>4. LastOnes(s, 0) = {}
  BY <1>1 DEF LastOnes
<1>5. s[Len(s) - n] \in S
  BY <1>1, ElementOfSeq
<1> QED BY <1>3, <1>4, <1>5

LEMMA LastOnesAll ==
  ASSUME NEW S, NEW s \in Seq(S)
  PROVE  LastOnes(s, Len(s)) = ToSet(s) /\ LastOnes(s, 0) = {}
<1>1. Len(s) \in Nat /\ DOMAIN s = 1..Len(s)
  BY LenProperties
<1>2. Len(s) + 1 - Len(s)..Len(s) = 1..Len(s)
  BY <1>1
<1>3. LastOnes(s, 0) = {}
  BY <1>1 DEF LastOnes
<1> QED BY <1>1, <1>2, <1>3 DEF LastOnes, ToSet

\* redact, mode "mask": a star for each character a finding covers.
LEMMA MaskExact ==
  ASSUME NEW S, NEW s, KeptSet(S, s)
  PROVE  Masked(Redact(s, "mask"), ToSet(s))
<1>1. s \in Seq(S) /\ Len(s) \in Nat /\ TextLength \in Nat
  BY LenProperties, DlpAssumption DEF KeptSet
<1>2. PICK chars : /\ chars[0] = Text /\ chars[Len(s)] = Redact(s, "mask")
                   /\ \A n \in 1..Len(s) :
                        chars[n] = RedactOne("mask", s[Len(s) + 1 - n], chars[n - 1])
  BY <1>1, RedactFold
<1> DEFINE Out(P) == [i \in 1..TextLength |-> IF Covers(P, i - 1) THEN Star ELSE i - 1]
           T == {n \in Nat : n <= Len(s) => chars[n] = Out(LastOnes(s, n))}
<1>3. 0 \in T
  <2>1. LastOnes(s, 0) = {}
    BY <1>1, LastOnesAll
  <2> QED BY <1>2, <2>1 DEF Text, Covers
<1>4. ASSUME NEW n \in Nat, n \in T PROVE n + 1 \in T
  <2> HIDE DEF Out
  <2> SUFFICES ASSUME n + 1 <= Len(s) PROVE chars[n + 1] = Out(LastOnes(s, n + 1))
    OBVIOUS
  <2> DEFINE f == s[Len(s) - n]
             P == LastOnes(s, n)
  <2>1. n <= Len(s) /\ n + 1 \in 1..Len(s) /\ n + 1 - 1 = n /\ Len(s) + 1 - (n + 1) = Len(s) - n
    BY <1>1
  <2>2. LastOnes(s, n + 1) = P \cup {f} /\ f \in S
    BY <1>1, LastOnesGrow
  <2>3. chars[n + 1] = RedactOne("mask", f, chars[n])
    BY <1>2, <2>1
  <2>4. chars[n] = Out(P)
    BY <1>4, <2>1
  <2>5. f.start \in Nat /\ f.end \in Nat
    BY <1>1, <2>2 DEF KeptSet, FindingSet
  <2> HIDE DEF f, P
  <2>6. \A i \in 1..TextLength : Covers(P \cup {f}, i - 1) <=> Covers(P, i - 1) \/ (f.start < i /\ i <= f.end)
    <3> TAKE i \in 1..TextLength
    <3>1. (f.start <= i - 1 /\ i - 1 < f.end) <=> (f.start < i /\ i <= f.end)
      BY <1>1, <2>5
    <3> QED BY <3>1 DEF Covers
  <2>7. chars[n + 1] = [i \in 1..TextLength |-> IF f.start < i /\ i <= f.end THEN Star ELSE Out(P)[i]]
    BY <2>3, <2>4 DEF RedactOne, Out
  <2>8. chars[n + 1] = Out(P \cup {f})
    BY <2>6, <2>7 DEF Out
  <2> QED BY <2>2, <2>8
<1>5. Redact(s, "mask") = Out(ToSet(s))
  <2>1. Len(s) \in T
    <3> HIDE DEF T
    <3> QED BY <1>1, <1>3, <1>4, NumbersBelow
  <2>2. Len(s) <= Len(s) /\ LastOnes(s, Len(s)) = ToSet(s)
    BY <1>1, LastOnesAll
  <2> HIDE DEF Out
  <2> QED BY <1>2, <2>1, <2>2
<1>6. Len(Out(ToSet(s))) = TextLength
  <2> DEFINE out == Out(ToSet(s))
  <2>1. out \in [1..TextLength -> {out[i] : i \in 1..TextLength}]
    OBVIOUS
  <2> HIDE DEF out
  <2>2. out \in Seq({out[i] : i \in 1..TextLength})
    BY <1>1, <2>1, SeqDef
  <2>3. Len(out) \in Nat /\ 1..Len(out) = 1..TextLength
    BY <2>1, <2>2, LenProperties
  <2> QED BY <1>1, <2>3, SameInterval DEF out
<1> QED BY <1>5, <1>6 DEF Masked

\* The text once the findings P are cut out of it, n of them, none before place a.
CutText(c, a, P, n) ==
  /\ c \in Seq(Nat) /\ a \in 0..Len(c) /\ a <= TextLength
  /\ \A i \in 1..a : c[i] = i - 1
  /\ \A f \in P : f.start \in Nat /\ a <= f.start
  /\ Removed(c, P) /\ Cardinality(Marks(c)) = n

\* What is left of a text, with a mark, when a span of it is cut out.
CutOut(c, st, en) == SubSeq(c, 1, st) \o <<Redacted>> \o SubSeq(c, en + 1, Len(c))

LEMMA SpanCut ==
  ASSUME NEW c \in Seq(Nat), NEW st \in Nat, NEW en \in Nat, st < en, en <= Len(c)
  PROVE  /\ CutOut(c, st, en) \in Seq(Nat) /\ Len(CutOut(c, st, en)) = Len(c) + st + 1 - en
         /\ \A i \in 1..st : CutOut(c, st, en)[i] = c[i]
         /\ CutOut(c, st, en)[st + 1] = Redacted
         /\ \A i \in st + 2..Len(CutOut(c, st, en)) : CutOut(c, st, en)[i] = c[i + en - st - 1]
<1> DEFINE L == Len(c)
<1>0. L \in Nat /\ en <= L /\ \A i \in 1..L : c[i] \in Nat
  BY LenProperties, ElementOfSeq
<1> HIDE DEF L
<1> DEFINE head == SubSeq(c, 1, st)
           tail == SubSeq(c, en + 1, L)
           mark == <<Redacted>>
<1>1. Redacted \in Nat /\ \A i \in 1..L : c[i] \in Nat
  BY <1>0, DlpAssumption DEF Redacted
<1>2. head \in Seq(Nat) /\ Len(head) = st /\ \A i \in 1..st : head[i] = c[i]
  <2>0. 1 \in Int /\ st \in Int
    OBVIOUS
  <2>1. \A i \in 1..st : c[i] \in Nat
    BY <1>0, <1>1
  <2>2. /\ head \in Seq(Nat) /\ Len(head) = IF 1 <= st THEN st - 1 + 1 ELSE 0
        /\ \A i \in 1..st - 1 + 1 : head[i] = c[1 + i - 1]
    BY <2>1, SubSeqProperties
  <2>3. st - 1 + 1 = st /\ \A i \in 1..st : 1 + i - 1 = i
    OBVIOUS
  <2>4. (IF 1 <= st THEN st - 1 + 1 ELSE 0) = st
    OBVIOUS
  <2> HIDE DEF head
  <2> QED BY <2>2, <2>3, <2>4
<1>3. /\ tail \in Seq(Nat) /\ Len(tail) = L - en
      /\ \A i \in 1..L - en : tail[i] = c[i + en]
  <2>0. en + 1 \in Int /\ L \in Int
    BY <1>0
  <2>1. \A i \in en + 1..L : c[i] \in Nat
    BY <1>0, <1>1
  <2>2. /\ tail \in Seq(Nat)
        /\ Len(tail) = IF en + 1 <= L THEN L - (en + 1) + 1 ELSE 0
        /\ \A i \in 1..L - (en + 1) + 1 : tail[i] = c[en + 1 + i - 1]
    BY <2>0, <2>1, SubSeqProperties
  <2>3. L - (en + 1) + 1 = L - en /\ \A i \in Int : en + 1 + i - 1 = i + en
    BY <1>0, <1>1
  <2>4. (IF en + 1 <= L THEN L - (en + 1) + 1 ELSE 0) = L - en
    BY <1>0, <1>1
  <2>5. 1..L - (en + 1) + 1 = 1..L - en
    BY <2>3
  <2>6. \A i \in 1..L - en : i \in Int
    OBVIOUS
  <2> HIDE DEF tail
  <2> QED BY Zenon, <2>2, <2>3, <2>4, <2>5, <2>6
<1>4. mark \in Seq(Nat) /\ Len(mark) = 1 /\ mark[1] = Redacted
  BY <1>0, <1>1
<1> HIDE DEF head, tail, mark
<1> DEFINE front == head \o mark
           d == front \o tail
<1>5. /\ front \in Seq(Nat) /\ Len(front) = st + 1
      /\ \A i \in 1..st : front[i] = c[i]
      /\ front[st + 1] = Redacted
  <2>1. /\ front \in Seq(Nat) /\ Len(front) = Len(head) + Len(mark)
        /\ \A i \in 1..Len(head) + Len(mark) :
             front[i] = IF i <= Len(head) THEN head[i] ELSE mark[i - Len(head)]
    <3>1. head \in Seq(Nat) /\ mark \in Seq(Nat)
      BY <1>2, <1>4
    <3> QED BY <3>1, ConcatProperties
  <2> HIDE DEF front
  <2>2. \A i \in 1..st : i \in 1..st + 1 /\ i <= st
    OBVIOUS
  <2>3. st + 1 \in 1..st + 1 /\ ~(st + 1 <= st) /\ st + 1 - st = 1
    OBVIOUS
  <2> QED BY SMTT(20), <1>2, <1>4, <2>1, <2>2, <2>3
<1>6. /\ d \in Seq(Nat) /\ Len(d) = st + 1 + (L - en)
      /\ \A i \in 1..st + 1 : d[i] = front[i]
      /\ \A i \in st + 2..Len(d) : d[i] = tail[i - (st + 1)]
  <2> HIDE DEF front
  <2>1. /\ d \in Seq(Nat) /\ Len(d) = Len(front) + Len(tail)
        /\ \A i \in 1..Len(front) + Len(tail) :
             d[i] = IF i <= Len(front) THEN front[i] ELSE tail[i - Len(front)]
    <3>1. front \in Seq(Nat) /\ tail \in Seq(Nat)
      BY <1>3, <1>5
    <3> QED BY <3>1, ConcatProperties
  <2> HIDE DEF d
  <2>2. Len(d) = st + 1 + (L - en)
    BY <1>3, <1>5, <2>1
  <2>3. \A i \in 1..st + 1 : i \in 1..st + 1 + (L - en) /\ i <= st + 1
    BY <1>0, <1>1
  <2>4. \A i \in st + 2..st + 1 + (L - en) :
          i \in 1..st + 1 + (L - en) /\ ~(i <= st + 1)
    BY <1>0, <1>1
  <2>5. \A i \in 1..st + 1 + (L - en) :
             d[i] = IF i <= st + 1 THEN front[i] ELSE tail[i - (st + 1)]
    BY <1>3, <1>5, <2>1
  <2> QED BY <2>1, <2>2, <2>3, <2>4, <2>5
<1>7. CutOut(c, st, en) = d
  BY Zenon DEF CutOut, head, tail, mark, L
<1> HIDE DEF front, d
<1>8. Len(d) = L + st + 1 - en
  <2>1. st + 1 + (L - en) = L + st + 1 - en
    BY <1>0
  <2> QED BY <1>6, <2>1
<1>9. \A i \in st + 2..Len(d) : d[i] = c[i + en - st - 1]
  <2> TAKE i \in st + 2..Len(d)
  <2>1. /\ i - (st + 1) \in 1..L - en
        /\ i - (st + 1) + en = i + en - st - 1
    <3>1. i \in st + 2..L + st + 1 - en
      BY <1>8
    <3> QED BY <1>0, <3>1
  <2> QED BY <1>3, <1>6, <2>1
<1>10. \A i \in 1..st : d[i] = c[i]
  <2> TAKE i \in 1..st
  <2>1. i \in 1..st + 1
    OBVIOUS
  <2> QED BY <1>5, <1>6, <2>1
<1>11. d[st + 1] = Redacted
  <2>1. st + 1 \in 1..st + 1
    OBVIOUS
  <2> QED BY <1>5, <1>6, <2>1
<1> QED BY <1>6, <1>7, <1>8, <1>9, <1>10, <1>11 DEF L

\* Cutting the next finding out of the text.
LEMMA CutOne ==
  ASSUME NEW c, NEW a, NEW P, NEW n \in Nat, CutText(c, a, P, n),
         NEW f, NEW st \in Nat, NEW en \in Nat, f.start = st, f.end = en, st < en, en <= a
  PROVE  CutText(RedactOne("remove", f, c), st, P \cup {f}, n + 1)
<1>0. PICK L \in Nat : L = Len(c)
  BY LenProperties DEF CutText
<1> DEFINE w == en - st - 1
           M == L - w
<1>1. /\ c \in Seq(Nat) /\ L \in Nat /\ a \in Nat /\ a <= L /\ a <= TextLength /\ TextLength \in Nat
      /\ \A i \in 1..L : c[i] \in Nat
      /\ \A i \in 1..a : c[i] = i - 1
      /\ \A g \in P : g.start \in Nat /\ a <= g.start
  BY <1>0, DlpAssumption, LenProperties, ElementOfSeq DEF CutText
<1>2. /\ {c[i] : i \in LeftIn(c)} = {i \in 0..TextLength - 1 : ~Covers(P, i)}
      /\ \A i, j \in LeftIn(c) : i < j => c[i] < c[j]
      /\ \A g \in P : \E m \in Marks(c) : \A i \in LeftIn(c) :
           IF i < m THEN c[i] < g.start ELSE c[i] >= g.end
      /\ Cardinality(Marks(c)) = n
  BY DEF CutText, Removed
<1> DEFINE d == CutOut(c, st, en)
<1>d. RedactOne("remove", f, c) = d
  BY <1>0 DEF RedactOne, CutOut
<1>3. /\ d \in Seq(Nat) /\ Len(d) = L + st + 1 - en
      /\ \A i \in 1..st : d[i] = c[i]
      /\ d[st + 1] = Redacted
      /\ \A i \in st + 2..Len(d) : d[i] = c[i + en - st - 1]
  <2>1. c \in Seq(Nat) /\ en <= Len(c)
    BY <1>0, <1>1
  <2> HIDE DEF w, M, d
  <2>2. /\ d \in Seq(Nat) /\ Len(d) = Len(c) + st + 1 - en
        /\ \A i \in 1..st : d[i] = c[i]
        /\ d[st + 1] = Redacted
        /\ \A i \in st + 2..Len(d) : d[i] = c[i + en - st - 1]
    BY <2>1, SpanCut DEF d
  <2> QED BY Zenon, <1>0, <2>2
<1> HIDE DEF d
<1>4. w \in Nat /\ M \in Nat /\ Len(d) = M /\ st + 1 <= M /\ \A i \in Int : i + en - st - 1 = i + w
  BY <1>1, <1>3
<1>5. \A i \in st + 2..M : d[i] = c[i + w]
  BY <1>3, <1>4
\* The positions of the text before and after.
<1>6. /\ \A i \in 1..M : i \in 1..st \/ i = st + 1 \/ i \in st + 2..M
      /\ st + 1 \in 1..M /\ \A i \in 1..st : i \in 1..M /\ i \in 1..a /\ i \in 1..L
      /\ \A i \in st + 2..M : i \in 1..M /\ i + w \in 1..L /\ i + w \in en + 1..L
      /\ \A j \in en + 1..L : j - w \in st + 2..M /\ j - w + w = j /\ j \in 1..L
  BY <1>1, <1>4
<1> HIDE DEF w, M
<1>7. /\ \A j \in 1..a : j \in LeftIn(c)
      /\ \A j \in LeftIn(c) : j \in 1..L /\ (j > a => c[j] >= a)
      /\ \A j \in Marks(c) : j \in a + 1..L /\ j \in en + 1..L
  <2>1. \A j \in 1..a : j \in 1..L /\ c[j] # Redacted
    BY <1>1 DEF Redacted
  <2>2. \A j \in 1..a : j \in LeftIn(c)
    BY <1>0, <2>1 DEF LeftIn, Marks
  <2>3. ASSUME NEW j \in LeftIn(c), j > a PROVE c[j] >= a
    <3>1. a \in 1..a /\ j \in 1..L
      BY <1>0, <1>1 DEF LeftIn
    <3>2. c[a] < c[j] /\ c[a] = a - 1 /\ c[j] \in Nat
      BY <1>1, <1>2, <2>2, <2>3, <3>1
    <3> QED BY <1>1, <3>2
  <2>4. ASSUME NEW j \in Marks(c) PROVE j \in a + 1..L /\ j \in en + 1..L
    <3>1. j \in 1..L /\ j \notin 1..a
      BY <1>0, <2>1 DEF Marks
    <3> QED BY <1>1, <3>1
  <2> QED BY <1>0, <2>2, <2>3, <2>4 DEF LeftIn
<1>8. \A i : i \in Marks(d) <=> i = st + 1 \/ (i \in st + 2..M /\ i + w \in Marks(c))
  <2>1. \A i \in 1..st : d[i] # Redacted
    BY <1>1, <1>3, <1>6 DEF Redacted
  <2>2. \A i \in st + 2..M : d[i] = Redacted <=> i + w \in Marks(c)
    BY <1>0, <1>5, <1>6 DEF Marks
  <2> QED BY <1>0, <1>3, <1>4, <1>6, <2>1, <2>2 DEF Marks
<1>9. \A i : i \in LeftIn(d) <=> i \in 1..st \/ (i \in st + 2..M /\ i + w \in LeftIn(c))
  <2>1. \A i \in st + 2..M : i + w \in Marks(c) <=> i + w \notin LeftIn(c)
    BY <1>0, <1>6 DEF LeftIn
  <2>2. \A i \in 1..st : i # st + 1 /\ i \notin st + 2..M
    OBVIOUS
  <2>3. \A i \in st + 2..M : i # st + 1
    OBVIOUS
  <2> QED BY <1>0, <1>4, <1>6, <1>8, <2>1, <2>2, <2>3 DEF LeftIn
\* What is left of the text.
<1>10. \A j \in LeftIn(c) : (st <= c[j] /\ c[j] < en) <=> j \in st + 1..en
  <2> TAKE j \in LeftIn(c)
  <2>1. j \in 1..L /\ c[j] \in Nat
    BY <1>1, <1>7
  <2>2. CASE j <= a
    <3>1. c[j] = j - 1
      BY <1>1, <2>1, <2>2
    <3> QED BY <1>1, <2>1, <3>1
  <2>3. CASE j > a
    <3>1. c[j] >= a
      BY <1>7, <2>3
    <3> QED BY <1>1, <2>1, <2>3, <3>1
  <2> QED BY <1>1, <2>1, <2>2, <2>3
<1>11. {d[i] : i \in LeftIn(d)} = {i \in 0..TextLength - 1 : ~Covers(P \cup {f}, i)}
  <2>1. \A x : Covers(P \cup {f}, x) <=> Covers(P, x) \/ (st <= x /\ x < en)
    BY DEF Covers
  <2>2. ASSUME NEW i \in LeftIn(d) PROVE d[i] \in 0..TextLength - 1 /\ ~Covers(P \cup {f}, d[i])
    <3>1. PICK j \in LeftIn(c) : d[i] = c[j] /\ j \notin st + 1..en
      <4>1. CASE i \in 1..st
        <5>1. i \in LeftIn(c) /\ d[i] = c[i] /\ i \notin st + 1..en
          BY <1>3, <1>6, <1>7, <4>1
        <5> QED BY <5>1
      <4>2. CASE i \in st + 2..M /\ i + w \in LeftIn(c)
        <5>1. i + w \in en + 1..L /\ d[i] = c[i + w]
          BY <1>5, <1>6, <4>2
        <5>2. i + w \notin st + 1..en
          BY <5>1
        <5> QED BY <4>2, <5>1, <5>2
      <4> QED BY <1>9, <4>1, <4>2
    <3>2. c[j] \in 0..TextLength - 1 /\ ~Covers(P, c[j])
      BY <1>2
    <3> QED BY <1>10, <2>1, <3>1, <3>2
  <2>3. ASSUME NEW x \in 0..TextLength - 1, ~Covers(P \cup {f}, x) PROVE \E i \in LeftIn(d) : d[i] = x
    <3>1. PICK j \in LeftIn(c) : c[j] = x
      BY <1>2, <2>1, <2>3
    <3>2. j \notin st + 1..en /\ j \in 1..L
      BY <1>7, <1>10, <2>1, <2>3, <3>1
    <3>3. CASE j \in 1..st
      BY <1>3, <1>9, <3>1, <3>3
    <3>4. CASE j \in en + 1..L
      <4>1. j - w \in st + 2..M /\ j - w + w = j
        BY <1>6, <3>4
      <4> QED BY <1>5, <1>9, <3>1, <4>1
    <3>5. j \in 1..st \/ j \in en + 1..L
      BY <1>1, <3>2
    <3> QED BY <3>3, <3>4, <3>5
  <2>4. \A x : x \in {d[i] : i \in LeftIn(d)} <=> x \in {i \in 0..TextLength - 1 : ~Covers(P \cup {f}, i)}
    BY <2>2, <2>3
  <2> QED BY <2>4
<1>12. ASSUME NEW i \in LeftIn(d), NEW j \in LeftIn(d), i < j PROVE d[i] < d[j]
  <2>1. CASE j \in 1..st
    <3>1. i \in 1..st
      BY <1>9, <1>12, <2>1
    <3> QED BY <1>1, <1>3, <1>6, <1>12, <2>1, <3>1
  <2>2. CASE i \in 1..st /\ j \in st + 2..M /\ j + w \in LeftIn(c)
    <3>1. i \in LeftIn(c) /\ i < j + w /\ d[i] = c[i] /\ d[j] = c[j + w]
      BY <1>3, <1>4, <1>5, <1>6, <1>7, <1>12, <2>2
    <3> QED BY <1>2, <2>2, <3>1
  <2>3. CASE i \in st + 2..M /\ i + w \in LeftIn(c) /\ j \in st + 2..M /\ j + w \in LeftIn(c)
    <3>1. i + w < j + w /\ d[i] = c[i + w] /\ d[j] = c[j + w]
      BY <1>4, <1>5, <1>12, <2>3
    <3> QED BY <1>2, <2>3, <3>1
  <2> QED BY <1>9, <2>1, <2>2, <2>3
<1>13. ASSUME NEW g \in P \cup {f}
       PROVE  \E m \in Marks(d) : \A i \in LeftIn(d) :
                IF i < m THEN d[i] < g.start ELSE d[i] >= g.end
  <2>1. CASE g = f
    <3>1. ASSUME NEW i \in LeftIn(d) PROVE IF i < st + 1 THEN d[i] < st ELSE d[i] >= en
      <4>1. CASE i \in 1..st
        <5>1. i < st + 1 /\ d[i] = i - 1
          BY <1>1, <1>3, <1>6, <4>1
        <5> QED BY <4>1, <5>1
      <4>2. CASE i \in st + 2..M /\ i + w \in LeftIn(c)
        <5>1. ~(i < st + 1) /\ d[i] = c[i + w] /\ i + w \in en + 1..L /\ c[i + w] \in Nat
          BY SMTT(20), <1>1, <1>5, <1>6, <4>2
        <5>2. CASE i + w <= a
          <6>1. i + w \in 1..a
            BY <1>1, <5>1, <5>2
          <6>2. PICK j \in 1..a : j = i + w
            BY <6>1
          <6>3. c[j] = j - 1 /\ j \in en + 1..L
            BY <1>1, <5>1, <6>2
          <6>4. d[i] = j - 1
            BY <5>1, <6>2, <6>3
          <6> QED BY <5>1, <6>3, <6>4
        <5>3. CASE i + w > a
          <6>1. c[i + w] >= a
            BY <1>7, <4>2, <5>3
          <6> QED BY <1>1, <5>1, <6>1
        <5> QED BY <1>1, <5>1, <5>2, <5>3
      <4> QED BY <1>9, <4>1, <4>2
    <3>2. st + 1 \in Marks(d)
      BY <1>8
    <3> QED BY <2>1, <3>1, <3>2
  <2>2. CASE g \in P
    <3>1. PICK m \in Marks(c) : \A i \in LeftIn(c) : IF i < m THEN c[i] < g.start ELSE c[i] >= g.end
      BY <1>2, <2>2
    <3>2. m - w \in st + 2..M /\ m - w + w = m /\ m - w \in Marks(d) /\ m \in en + 1..L
      BY <1>6, <1>7, <1>8
    <3>3. ASSUME NEW i \in LeftIn(d) PROVE IF i < m - w THEN d[i] < g.start ELSE d[i] >= g.end
      <4>1. CASE i \in 1..st
        <5>1. i \in LeftIn(c) /\ i < m /\ i < m - w /\ d[i] = c[i]
          BY <1>3, <1>4, <1>6, <1>7, <3>2, <4>1
        <5> QED BY <3>1, <5>1
      <4>2. CASE i \in st + 2..M /\ i + w \in LeftIn(c)
        <5>1. d[i] = c[i + w] /\ (i < m - w <=> i + w < m)
          BY <1>4, <1>5, <3>2, <4>2
        <5> QED BY <3>1, <4>2, <5>1
      <4> QED BY <1>9, <4>1, <4>2
    <3> QED BY <3>2, <3>3
  <2> QED BY <2>1, <2>2
\* One mark more.
<1>14. Cardinality(Marks(d)) = n + 1
  <2> DEFINE rest == Marks(d) \ {st + 1}
             shift == [m \in Marks(c) |-> m - w]
  <2>1. IsFiniteSet(Marks(c))
    <3>1. IsFiniteSet(1..L) /\ Marks(c) \in SUBSET (1..L)
      BY <1>0, <1>1, FS_Interval DEF Marks
    <3> QED BY <3>1, FS_Subset
  <2>2. \A m \in Marks(c) : m - w \in rest
    <3> TAKE m \in Marks(c)
    <3>1. m - w \in st + 2..M /\ m - w + w = m
      BY <1>6, <1>7
    <3>2. m - w # st + 1
      BY <3>1
    <3> QED BY <1>8, <3>1, <3>2
  <2>3. \A m, k \in Marks(c) : m - w = k - w => m = k
    BY <1>4, <1>7
  <2>4. \A i \in rest : \E m \in Marks(c) : m - w = i
    <3> TAKE i \in rest
    <3>1. i \in st + 2..M /\ i + w \in Marks(c)
      BY <1>8
    <3>2. \A x \in st + 2..M : x + w - w = x
      BY <1>4
    <3>3. i + w - w = i
      BY <3>1, <3>2
    <3>4. i + w \in Marks(c)
      BY <3>1
    <3> HIDE DEF rest
    <3> WITNESS i + w \in Marks(c)
    <3> QED BY <1>4, <3>1, <3>2
  <2> HIDE DEF rest
  <2>5. shift \in Bijection(Marks(c), rest)
    BY <2>2, <2>3, <2>4 DEF Bijection, Injection, Surjection, IsInjective
  <2>6. ExistsBijection(Marks(c), rest)
    BY <2>5 DEF ExistsBijection
  <2>7. IsFiniteSet(rest) /\ Cardinality(rest) = n
    BY <1>2, <2>1, <2>6, FS_Bijection
  <2>8. Marks(d) = rest \cup {st + 1} /\ st + 1 \notin rest
    BY <1>8 DEF rest
  <2> QED BY <2>7, <2>8, FS_AddElement
<1>15. /\ st \in 0..Len(d) /\ st <= TextLength /\ \A i \in 1..st : d[i] = i - 1
       /\ \A g \in P \cup {f} : g.start \in Nat /\ st <= g.start
  <2>1. st \in 0..Len(d) /\ st <= TextLength /\ st <= a
    BY <1>1, <1>4
  <2>2. \A i \in 1..st : d[i] = i - 1
    BY <1>1, <1>3, <1>6
  <2>3. ASSUME NEW g \in P \cup {f} PROVE g.start \in Nat /\ st <= g.start
    <3>1. CASE g = f
      BY <3>1
    <3>2. CASE g \in P
      <4>1. g.start \in Nat /\ a <= g.start
        BY <1>1, <3>2
      <4> QED BY <2>1, <1>1, <4>1
    <3> QED BY <3>1, <3>2
  <2> QED BY <2>1, <2>2, <2>3
<1>16. CutText(d, st, P \cup {f}, n + 1)
  BY <1>3, <1>11, <1>12, <1>13, <1>14, <1>15 DEF CutText, Removed
<1> QED BY Zenon, <1>16, <1>d

LEMMA WholeText == CutText(Text, TextLength, {}, 0)
<1>0. TextLength \in Nat
  BY DlpAssumption
<1>1. Text \in Seq(Nat) /\ Len(Text) = TextLength /\ \A i \in 1..TextLength : Text[i] = i - 1
  <2>1. \A i \in 1..TextLength : Text[i] = i - 1 /\ i - 1 \in Nat
    BY <1>0 DEF Text
  <2>2. Text \in [1..TextLength -> Nat]
    BY <2>1 DEF Text
  <2>3. Text \in Seq(Nat)
    BY <1>0, <2>2, SeqDef
  <2>4. Len(Text) \in Nat /\ 1..Len(Text) = 1..TextLength
    BY <2>2, <2>3, LenProperties
  <2> QED BY <1>0, <2>1, <2>3, <2>4, SameInterval
<1>2. Marks(Text) = {} /\ LeftIn(Text) = 1..TextLength
  <2>1. \A i \in 1..TextLength : Text[i] # Redacted
    BY <1>0, <1>1 DEF Redacted
  <2>2. Marks(Text) = {}
    BY <1>1, <2>1 DEF Marks
  <2> QED BY <1>1, <2>2 DEF LeftIn
<1>3. {Text[i] : i \in LeftIn(Text)} = {i \in 0..TextLength - 1 : ~Covers({}, i)}
  <2>1. ASSUME NEW x \in 0..TextLength - 1 PROVE \E i \in 1..TextLength : Text[i] = x
    <3>1. x + 1 \in 1..TextLength /\ x + 1 - 1 = x
      BY <1>0
    <3> QED BY <1>1, <3>1
  <2>2. \A i \in 1..TextLength : Text[i] \in 0..TextLength - 1
    BY <1>0, <1>1
  <2>3. \A x : x \in {Text[i] : i \in LeftIn(Text)} <=> x \in {i \in 0..TextLength - 1 : ~Covers({}, i)}
    BY <1>2, <2>1, <2>2 DEF Covers
  <2> QED BY <2>3
<1>4. \A i, j \in LeftIn(Text) : i < j => Text[i] < Text[j]
  BY <1>1, <1>2
<1>5. Cardinality(Marks(Text)) = 0
  BY <1>2, FS_EmptySet
<1>6. TextLength \in 0..Len(Text) /\ TextLength <= TextLength
  BY <1>0, <1>1
<1> QED BY <1>1, <1>3, <1>4, <1>5, <1>6 DEF CutText, Removed

\* redact, mode "remove": one mark in the place of each finding, all else left in order.
LEMMA RemoveExact ==
  ASSUME NEW S, NEW s, KeptSet(S, s)
  PROVE  Removed(Redact(s, "remove"), ToSet(s)) /\ Cardinality(Marks(Redact(s, "remove"))) = Len(s)
<1>1. s \in Seq(S) /\ Len(s) \in Nat /\ TextLength \in Nat
  BY LenProperties, DlpAssumption DEF KeptSet
<1>2. PICK chars : /\ chars[0] = Text /\ chars[Len(s)] = Redact(s, "remove")
                   /\ \A n \in 1..Len(s) :
                        chars[n] = RedactOne("remove", s[Len(s) + 1 - n], chars[n - 1])
  BY <1>1, RedactFold
<1> DEFINE at(n) == IF n = 0 THEN TextLength ELSE s[Len(s) + 1 - n].start
           T == {n \in Nat : n <= Len(s) => CutText(chars[n], at(n), LastOnes(s, n), n)}
<1>3. 0 \in T
  BY <1>1, <1>2, LastOnesAll, WholeText
<1>4. ASSUME NEW n \in Nat, n \in T PROVE n + 1 \in T
  <2> SUFFICES ASSUME n + 1 <= Len(s) PROVE CutText(chars[n + 1], at(n + 1), LastOnes(s, n + 1), n + 1)
    OBVIOUS
  <2> DEFINE f == s[Len(s) - n]
             P == LastOnes(s, n)
             a == at(n)
  <2>1. /\ n <= Len(s) /\ n + 1 \in 1..Len(s) /\ n + 1 - 1 = n /\ Len(s) + 1 - (n + 1) = Len(s) - n
        /\ n + 1 # 0 /\ Len(s) - n \in 1..Len(s)
    BY <1>1
  <2>2. LastOnes(s, n + 1) = P \cup {f} /\ f \in S
    BY <1>1, LastOnesGrow
  <2>3. chars[n + 1] = RedactOne("remove", f, chars[n])
    BY <1>2, <2>1
  <2>4. CutText(chars[n], a, P, n)
    BY <1>4, <2>1
  <2>5. f.start \in Nat /\ f.end \in 0..TextLength /\ f.start < f.end
    BY <2>2 DEF KeptSet, FindingSet
  <2>6. f.end <= a
    <3>1. CASE n = 0
      BY <1>1, <2>5, <3>1
    <3>2. CASE n # 0
      <4>1. Len(s) + 1 - n \in 1..Len(s) /\ Len(s) - n < Len(s) + 1 - n
        BY <1>1, <2>1, <3>2
      <4>2. a = s[Len(s) + 1 - n].start
        BY <3>2
      <4>3. \A i, j \in 1..Len(s) : i < j => s[i].end <= s[j].start
        BY DEF KeptSet
      <4> HIDE DEF a
      <4> QED BY <2>1, <4>1, <4>2, <4>3
    <3> QED BY <3>1, <3>2
  <2>7. at(n + 1) = f.start
    BY <2>1
  <2> HIDE DEF f, P, a, at, T
  <2>8. CutText(RedactOne("remove", f, chars[n]), f.start, P \cup {f}, n + 1)
    <3>1. f.end \in Nat
      BY <1>1, <2>5
    <3> QED BY <2>4, <2>5, <2>6, <3>1, CutOne
  <2> QED BY <2>2, <2>3, <2>7, <2>8
<1>5. CutText(chars[Len(s)], at(Len(s)), LastOnes(s, Len(s)), Len(s))
  <2>1. Len(s) \in T
    <3> HIDE DEF T
    <3> QED BY <1>1, <1>3, <1>4, NumbersBelow
  <2>2. Len(s) <= Len(s)
    BY <1>1
  <2> HIDE DEF at
  <2> QED BY <2>1, <2>2
<1> HIDE DEF at
<1>6. LastOnes(s, Len(s)) = ToSet(s)
  BY <1>1, LastOnesAll
<1> QED BY <1>2, <1>5, <1>6 DEF CutText

LEMMA TextFindings ==
  ASSUME NEW text \in Texts
  PROVE  FindingSet(Findings(text))
<1> DEFINE found == {q \in Patterns : text[q].found /\ (text[q].luhn \/ ~IsCard(q))}
           finding == [p \in found |-> Finding(p, text[p])]
<1>1. IsFiniteSet(found)
  BY DlpAssumption, FS_Subset
<1>2. finding \in Surjection(found, Findings(text))
  BY DEF Findings, Surjection
<1>3. IsFiniteSet(Findings(text))
  BY <1>1, <1>2, FS_Surjection
<1>4. ASSUME NEW p \in found
      PROVE  /\ Finding(p, text[p]).start \in Nat /\ Finding(p, text[p]).end \in 0..TextLength
             /\ Finding(p, text[p]).start < Finding(p, text[p]).end
             /\ Finding(p, text[p]).confidence \in Nat /\ Finding(p, text[p]).pattern = p /\ p \in Nat
  <2>1. p \in Patterns /\ p \in Nat /\ ConfidenceOf[p] \in Nat /\ text[p].found
    BY DlpAssumption
  <2>2. text[p] \in Hits /\ text[p].start < text[p].end
    BY <2>1 DEF Texts
  <2>3. text[p].start \in 0..TextLength /\ text[p].end \in 0..TextLength
    <3>1. text[p] \in [found : {TRUE}, start : 0..TextLength, end : 0..TextLength, luhn : BOOLEAN]
      <4>1. NoMatch.found = FALSE
        BY DEF NoMatch
      <4>2. text[p] # NoMatch
        BY <2>1, <4>1
      <4> QED BY <2>2, <4>2 DEF Hits
    <3> QED BY <3>1
  <2> QED BY <2>1, <2>2, <2>3 DEF Finding
<1>5. \A f \in Findings(text) : \E p \in found : f = Finding(p, text[p])
  BY DEF Findings
<1> HIDE DEF found
<1>6. \A f, g \in Findings(text) : f.pattern = g.pattern => f = g
  <2> TAKE f, g \in Findings(text)
  <2>1. PICK p \in found : f = Finding(p, text[p])
    BY <1>5
  <2>2. PICK q \in found : g = Finding(q, text[q])
    BY <1>5
  <2> QED BY <1>4, <2>1, <2>2
<1>7. \A f \in Findings(text) :
        /\ f.start \in Nat /\ f.end \in 0..TextLength /\ f.start < f.end
        /\ f.confidence \in Nat /\ f.pattern \in Nat
  BY <1>4, <1>5
<1> QED BY <1>3, <1>6, <1>7 DEF FindingSet

\* _risk_level: only a text without findings is harmless.
LEMMA RiskNone ==
  ASSUME NEW S
  PROVE  (RiskLevel(S) = "none") <=> (S = {})
<1>1. CASE S = {}
  BY <1>1 DEF RiskLevel
<1>2. CASE S # {}
  <2> DEFINE has(cats) == \E f \in S : f.category \in cats
             sure(c) == \E f \in S : f.confidence >= c
  <2>1. CASE has(Critical)
    BY <1>2, <2>1 DEF RiskLevel
  <2>2. CASE ~has(Critical) /\ has(High)
    BY <1>2, <2>2 DEF RiskLevel
  <2>3. CASE ~has(Critical) /\ ~has(High)
    <3>1. CASE has(Medium)
      BY <1>2, <2>3, <3>1 DEF RiskLevel
    <3>2. CASE ~has(Medium)
      BY <1>2, <2>3, <3>2 DEF RiskLevel
    <3> QED BY <3>1, <3>2
  <2> QED BY <2>1, <2>2, <2>3
<1> QED BY <1>1, <1>2

\* What the scanner answers about a text.
Answer(text, mode) ==
  LET kept == Deduplicate(Findings(text))
  IN  [text |-> text, mode |-> mode, kept |-> kept, redacted |-> Redact(kept, mode),
       risk |-> RiskLevel(ToSet(kept)), tags |-> Tags(ToSet(kept))]

LEMMA AnswerSound ==
  ASSUME NEW text \in Texts, NEW mode \in {"mask", "remove"}, NEW s, s = Answer(text, mode)
  PROVE  /\ OverlapsResolved(Findings(s.text), s.kept) /\ RedactionExact(s)
         /\ (s.risk = "none") = (Findings(s.text) = {})
<1> DEFINE S == Findings(text)
           kept == Deduplicate(S)
<1>1. FindingSet(S)
  BY TextFindings
<1>2. /\ s.text = text /\ s.mode = mode /\ s.kept = kept /\ s.redacted = Redact(kept, mode)
      /\ s.risk = RiskLevel(ToSet(kept))
  BY DEF Answer
<1> HIDE DEF S
<1>3. kept \in Seq(S) /\ Resolved(kept, S)
  BY <1>1, KeptFindings
<1> HIDE DEF kept
<1>4. Len(kept) \in Nat /\ DOMAIN kept = 1..Len(kept) /\ Elems(kept) = ToSet(kept)
  BY <1>3, LenProperties DEF Elems, ToSet
<1>5. OverlapsResolved(S, kept)
  BY <1>3, <1>4 DEF Resolved, OverlapsResolved
<1>6. KeptSet(S, kept)
  BY <1>1, <1>3 DEF KeptSet, Resolved
<1>7. RedactionExact(s)
  <2>1. CASE mode = "mask"
    BY <1>2, <1>6, <2>1, MaskExact DEF RedactionExact
  <2>2. CASE mode = "remove"
    BY <1>2, <1>6, <2>2, RemoveExact DEF RedactionExact
  <2> QED BY <2>1, <2>2
<1>8. ToSet(kept) = {} <=> S = {}
  <2>1. CASE S = {}
    BY <1>3, <1>4, <2>1 DEF Resolved
  <2>2. CASE S # {}
    <3>1. kept # <<>>
      BY <1>3, <2>2 DEF Resolved
    <3>2. Len(kept) # 0
      BY <1>3, <3>1, EmptySeq
    <3>3. 1 \in 1..Len(kept)
      BY <1>4, <3>2
    <3> QED BY <1>4, <2>2, <3>3 DEF Elems
  <2> QED BY <2>1, <2>2
<1>9. (s.risk = "none") <=> (S = {})
  BY <1>2, <1>8, RiskNone
<1> QED BY <1>2, <1>5, <1>7, <1>9 DEF S

\* The last answer is one to a text.
ScanInv ==
  \/ scan = <<>>
  \/ \E text \in Texts, mode \in {"mask", "remove"} : scan = <<Answer(text, mode)>>

LEMMA ScanInvSteps ==
  /\ DlpInit => ScanInv
  /\ ScanInv /\ [DlpNext]_dlpVars => ScanInv'
<1>1. DlpInit => ScanInv
  BY DEF DlpInit, ScanInv
<1>2. ASSUME ScanInv, [DlpNext]_dlpVars PROVE ScanInv'
  <2>1. CASE ScanRequest
    <3>1. PICK text \in Texts, mode \in {"mask", "remove"} : ScanContent(text, mode)
      BY <2>1 DEF ScanRequest
    <3>2. scan' = <<Answer(text, mode)>>
      BY <3>1 DEF ScanContent, Answer
    <3> QED BY <3>2 DEF ScanInv
  <2>2. CASE UNCHANGED scan \/ scan' = <<>>
    BY <1>2, <2>2 DEF ScanInv
  <2>3. DlpLoop => UNCHANGED scan \/ scan' = <<>>
    BY DEF DlpLoop, TakeIngress, ExpireIngress, PublishResult, PublishResultFails, AckIngress,
           AckIngressFails, RestartDlp
  <2> QED BY <1>2, <2>1, <2>2, <2>3 DEF DlpNext, dlpVars
<1> QED BY <1>1, <1>2

\* Every answer of the scanner, to every text: the findings kept do not overlap and give up
\* only what a finding as certain overlaps, the redacted text hides just what they cover, and
\* only a text without findings is called harmless (_deduplicate, redact, _risk_level).
THEOREM FindingsCorrect == DlpSpec => []FindingsSound
<1>1. ScanInv => FindingsSound
  <2> SUFFICES ASSUME ScanInv, NEW s \in ToSet(scan)
               PROVE  /\ OverlapsResolved(Findings(s.text), s.kept) /\ RedactionExact(s)
                      /\ (s.risk = "none") = (Findings(s.text) = {})
    BY DEF FindingsSound
  <2>1. PICK text \in Texts, mode \in {"mask", "remove"} : s = Answer(text, mode)
    BY DEF ScanInv, ToSet
  <2> QED BY <2>1, AnswerSound
<1> QED BY <1>1, ScanInvSteps, PTL DEF DlpSpec

\* What the scanner answers is sound and what it publishes explained, in every reachable state.
THEOREM DlpCorrect == DlpSpec => []DlpSound
<1>1. FindingsSound /\ ResultsExplained => DlpSound
  BY DEF DlpSound
<1> QED BY <1>1, FindingsCorrect, ResultsCorrect, PTL

-----------------------------------------------------------------------------
(* Event ids.                                                                *)

Binary == {0, 1}
Base32 == 0..31

\* Digits are a text.
LEMMA DigitText ==
  ASSUME NEW S, NEW n \in Nat, NEW s \in [1..n -> S]
  PROVE  s \in Seq(S) /\ Len(s) = n
<1>1. s \in Seq(S)
  BY SeqDef
<1>2. Len(s) \in Nat /\ DOMAIN s = 1..Len(s) /\ DOMAIN s = 1..n
  BY <1>1, LenProperties
<1> QED BY <1>1, <1>2

\* Five bits make a digit, wherever in a text of bits they stand.
LEMMA FiveDigit ==
  ASSUME NEW bits, NEW k \in Nat, \A i \in 5 * k - 4 .. 5 * k : bits[i] \in Binary
  PROVE  Five(bits, k) \in Base32
<1> DEFINE five == SubSeq(bits, 5 * k - 4, 5 * k)
<1>1. 5 * k - 4 \in Int /\ 5 * k \in Int /\ 5 * k - (5 * k - 4) + 1 = 5 /\ 5 * k - 4 <= 5 * k
  OBVIOUS
<1>2. five \in Seq(Binary) /\ Len(five) = 5
  BY <1>1, SubSeqProperties
<1>3. \A i \in 1..5 : five[i] \in Binary
  BY <1>2, ElementOfSeq
<1> HIDE DEF five
<1>4. five[1] \in Binary /\ five[2] \in Binary /\ five[3] \in Binary /\ five[4] \in Binary /\ five[5] \in Binary
  BY <1>3
<1>5. Digit(five) \in Base32
  BY <1>4 DEF Digit, Binary, Base32
<1> QED BY <1>5 DEF Five, five

LEMMA ByteBits ==
  ASSUME NEW byte \in 0..255, NEW i \in 1..8
  PROVE  Bits(byte)[i] \in Binary
<1> DEFINE weight == <<128, 64, 32, 16, 8, 4, 2, 1>>
<1>1. weight[i] \in Nat \ {0}
  <2>1. i = 1 \/ i = 2 \/ i = 3 \/ i = 4 \/ i = 5 \/ i = 6 \/ i = 7 \/ i = 8
    OBVIOUS
  <2> QED BY <2>1
<1>2. Bits(byte)[i] = (byte \div weight[i]) % 2
  BY DEF Bits
<1> HIDE DEF weight
<1>3. byte \div weight[i] \in Int
  BY <1>1
<1> QED BY <1>2, <1>3 DEF Binary

LEMMA RandomBits ==
  ASSUME NEW rnd \in [1..10 -> 0..255], NEW i \in 1..80
  PROVE  AllBits(rnd)[i] \in Binary
<1>1. (i + 7) \div 8 \in 1..10 /\ ((i - 1) % 8) + 1 \in 1..8
  OBVIOUS
<1>2. AllBits(rnd)[i] = Bits(rnd[(i + 7) \div 8])[((i - 1) % 8) + 1]
  BY DEF AllBits
<1> QED BY <1>1, <1>2, ByteBits

\* Both halves of Go's encoding are digits.
LEMMA GoDigits ==
  ASSUME NEW rnd \in [1..10 -> 0..255]
  PROVE  EncodeGo(rnd) \in [1..16 -> Base32]
<1> DEFINE bits == AllBits(rnd)
           v == SubSeq(bits, 1, 64)
           rest == SubSeq(bits, 65, 80)
           combined == Lowest(4, v) \o rest
<1>1. v \in Seq(Binary) /\ Len(v) = 64
  <2>1. \A i \in 1..80 : bits[i] \in Binary
    BY Zenon, RandomBits
  <2> HIDE DEF bits
  <2>2. \A i \in 1..64 : bits[i] \in Binary
    BY <2>1
  <2> QED BY <2>2, SubSeqProperties
<1>2. rest \in Seq(Binary) /\ Len(rest) = 16
  <2>1. \A i \in 1..80 : bits[i] \in Binary
    BY Zenon, RandomBits
  <2> HIDE DEF bits
  <2>2. \A i \in 65..80 : bits[i] \in Binary
    BY <2>1
  <2> QED BY <2>2, SubSeqProperties
<1>3. Lowest(4, v) \in Seq(Binary) /\ Len(Lowest(4, v)) = 4
  <2> HIDE DEF v
  <2>1. \A i \in 61..64 : v[i] \in Binary
    <3> TAKE i \in 61..64
    <3>1. i \in 1..Len(v)
      BY <1>1
    <3> QED BY <1>1, <3>1, ElementOfSeq
  <2>2. Lowest(4, v) = SubSeq(v, 61, 64)
    BY <1>1 DEF Lowest
  <2>3. SubSeq(v, 61, 64) \in Seq(Binary) /\ Len(SubSeq(v, 61, 64)) = 4
    BY <2>1, SubSeqProperties
  <2> QED BY <2>2, <2>3
<1>4. combined \in Seq(Binary) /\ Len(combined) = 20
  <2> DEFINE low == Lowest(4, v)
  <2>1. low \in Seq(Binary) /\ Len(low) = 4 /\ rest \in Seq(Binary) /\ Len(rest) = 16
    BY <1>2, <1>3
  <2> HIDE DEF low, rest
  <2>2. low \o rest \in Seq(Binary) /\ Len(low \o rest) = Len(low) + Len(rest)
    BY <2>1, ConcatProperties
  <2>3. Len(low \o rest) = 20
    BY <2>1, <2>2
  <2> QED BY <2>2, <2>3 DEF low, rest
<1>5. EncodeGo(rnd) = [k \in 1..16 |-> IF k <= 12 THEN Five(v, k) ELSE Five(combined, k - 12)]
  BY DEF EncodeGo
<1> HIDE DEF v, combined
<1>6. \A i \in 1..64 : v[i] \in Binary
  BY <1>1, ElementOfSeq
<1>7. \A i \in 1..20 : combined[i] \in Binary
  BY <1>4, ElementOfSeq
<1>8. \A k \in 1..16 : (IF k <= 12 THEN Five(v, k) ELSE Five(combined, k - 12)) \in Base32
  <2> TAKE k \in 1..16
  <2>1. CASE k <= 12
    <3>1. k \in Nat /\ \A i \in 5 * k - 4 .. 5 * k : v[i] \in Binary
      BY <1>6, <2>1
    <3> QED BY <2>1, <3>1, FiveDigit
  <2>2. CASE ~(k <= 12)
    <3>1. k - 12 \in Nat /\ \A i \in 5 * (k - 12) - 4 .. 5 * (k - 12) : combined[i] \in Binary
      BY <1>7, <2>2
    <3> QED BY <2>2, <3>1, FiveDigit
  <2> QED BY <2>1, <2>2
<1> QED BY <1>5, <1>8


\* The fold of PutByte puts one byte after another.
LEMMA PutFold ==
  ASSUME NEW S, NEW s \in Seq(S)
  PROVE  \E state : /\ state[0] = NoBits /\ state[Len(s)] = FoldLeft(PutByte, NoBits, s)
                   /\ \A n \in 1..Len(s) : state[n] = PutByte(state[n - 1], s[n])
<1> DEFINE Step(h, d) == IF d = {} THEN NoBits ELSE PutByte(h[d \ {Max(d)}], s[Max(d)])
           Rec(h, n) == h = [d \in SUBSET (1..n) |-> Step(h, d)]
           T == {n \in Nat : \E h : Rec(h, n)}
<1>1. 0 \in T
  <2> DEFINE h == [d \in SUBSET (1..0) |-> NoBits]
  <2>1. h = [d \in SUBSET (1..0) |-> Step(h, d)]
    OBVIOUS
  <2> QED BY <2>1
<1>2. ASSUME NEW n \in Nat, n \in T PROVE n + 1 \in T
  <2>1. PICK h : Rec(h, n)
    BY <1>2
  <2> DEFINE k == [d \in SUBSET (1..n + 1) |->
                     IF n + 1 \in d THEN PutByte(h[d \ {n + 1}], s[n + 1]) ELSE h[d]]
  <2>2. ASSUME NEW d \in SUBSET (1..n + 1) PROVE k[d] = Step(k, d)
    <3>1. CASE n + 1 \in d
      <4>1. Max(d) = n + 1
        BY <3>1, MaxUpTo
      <4>2. d \ {n + 1} \in SUBSET (1..n + 1) /\ n + 1 \notin d \ {n + 1}
        OBVIOUS
      <4>3. k[d \ {n + 1}] = h[d \ {n + 1}]
        BY <4>2
      <4> QED BY <3>1, <4>1, <4>3
    <3>2. CASE n + 1 \notin d
      <4>1. d \in SUBSET (1..n)
        BY <3>2
      <4>2. h[d] = Step(h, d)
        BY <2>1, <4>1
      <4>3. d \ {Max(d)} \in SUBSET (1..n + 1) /\ n + 1 \notin d \ {Max(d)}
        BY <3>2
      <4>4. k[d \ {Max(d)}] = h[d \ {Max(d)}] /\ k[d] = h[d]
        BY <3>2, <4>3
      <4> QED BY <4>2, <4>4
    <3> QED BY <3>1, <3>2
  <2>3. Rec(k, n + 1)
    <3> DEFINE k2 == [d \in SUBSET (1..n + 1) |-> Step(k, d)]
    <3>1. \A d \in SUBSET (1..n + 1) : k[d] = k2[d]
      BY <2>2
    <3> QED BY <3>1
  <2>4. n + 1 \in Nat
    OBVIOUS
  <2> HIDE DEF Rec, k
  <2> QED BY <2>3, <2>4
<1>3. Len(s) \in Nat /\ DOMAIN s = 1..Len(s)
  BY LenProperties
<1>4. Len(s) \in T
  <2> HIDE DEF T
  <2> QED BY <1>1, <1>2, <1>3, NumbersBelow
<1> DEFINE iter == CHOOSE h : h = [d \in SUBSET DOMAIN s |-> Step(h, d)]
<1>5. FoldLeft(PutByte, NoBits, s) = iter[DOMAIN s]
  BY Zenon DEF FoldLeft, MapThenFoldSet
<1>6. iter = [d \in SUBSET (1..Len(s)) |-> Step(iter, d)]
  BY <1>3, <1>4
<1> HIDE DEF iter, T
<1> DEFINE state == [n \in 0..Len(s) |-> iter[1..n]]
<1>7. state[0] = NoBits /\ state[Len(s)] = FoldLeft(PutByte, NoBits, s)
  <2>1. iter[{}] = NoBits
    BY <1>6
  <2> QED BY <1>3, <1>5, <2>1
<1>8. ASSUME NEW n \in 1..Len(s) PROVE state[n] = PutByte(state[n - 1], s[n])
  <2>1. /\ Max(1..n) = n
        /\ (1..n) \ {n} = 1..n - 1 /\ 1..n \in SUBSET (1..Len(s)) /\ 1..n # {}
    <3>1. n \in Nat \ {0} /\ n \in 1..n
      BY <1>3
    <3>2. Max(1..n) = n
      BY <3>1, MaxUpTo
    <3>3. (1..n) \ {n} = 1..n - 1
      OBVIOUS
    <3>4. \A x \in 1..n : x \in 1..Len(s)
      BY <1>3, <3>1
    <3>5. 1..n \in SUBSET (1..Len(s)) /\ 1..n # {}
      BY <3>1, <3>4
    <3> QED BY <3>2, <3>3, <3>5
  <2>2. iter[1..n] = Step(iter, 1..n)
    BY <1>6, <2>1
  <2>3. n \in 0..Len(s) /\ n - 1 \in 0..Len(s)
    BY <1>3
  <2> QED BY <2>1, <2>2, <2>3
<1> QED BY <1>7, <1>8

\* The five bits of a digit make it.
BitsDigit(bits, k) ==
  16 * bits[5 * k - 4] + 8 * bits[5 * k - 3] + 4 * bits[5 * k - 2] + 2 * bits[5 * k - 1] + bits[5 * k]

LEMMA CutDigit ==
  ASSUME NEW bits, NEW m \in Nat, \A i \in m + 1..m + 5 : bits[i] \in Binary
  PROVE  Digit(SubSeq(bits, m + 1, m + 5))
           = 16 * bits[m + 1] + 8 * bits[m + 2] + 4 * bits[m + 3] + 2 * bits[m + 4] + bits[m + 5]
<1> DEFINE five == SubSeq(bits, m + 1, m + 5)
<1>0. m + 1 \in Int /\ m + 5 \in Int
  OBVIOUS
<1>1. \A i \in 1..m + 5 - (m + 1) + 1 : five[i] = bits[m + 1 + i - 1]
  BY <1>0, SubSeqProperties
<1>2. m + 5 - (m + 1) + 1 = 5
  OBVIOUS
<1> HIDE DEF five
<1>3. \A i \in 1..5 : five[i] = bits[m + 1 + i - 1]
  BY <1>1, <1>2
<1>4. /\ m + 1 + 1 - 1 = m + 1 /\ m + 1 + 2 - 1 = m + 2 /\ m + 1 + 3 - 1 = m + 3
      /\ m + 1 + 4 - 1 = m + 4 /\ m + 1 + 5 - 1 = m + 5
  OBVIOUS
<1>5. /\ five[1] = bits[m + 1] /\ five[2] = bits[m + 2] /\ five[3] = bits[m + 3]
      /\ five[4] = bits[m + 4] /\ five[5] = bits[m + 5]
  BY <1>3, <1>4
<1>6. Digit(five) = 16 * bits[m + 1] + 8 * bits[m + 2] + 4 * bits[m + 3] + 2 * bits[m + 4] + bits[m + 5]
  BY Zenon, <1>5 DEF Digit
<1> QED BY <1>6 DEF five

LEMMA CutsDigit ==
  ASSUME NEW bits, NEW k \in Nat, k > 0, \A i \in 5 * k - 4..5 * k : bits[i] \in Binary
  PROVE  Five(bits, k) = BitsDigit(bits, k)
<1> DEFINE m == 5 * k - 5
<1>1. /\ m \in Nat /\ m + 1 = 5 * k - 4 /\ m + 2 = 5 * k - 3 /\ m + 3 = 5 * k - 2
      /\ m + 4 = 5 * k - 1 /\ m + 5 = 5 * k
  OBVIOUS
<1> HIDE DEF m
<1>2. Digit(SubSeq(bits, m + 1, m + 5))
        = 16 * bits[m + 1] + 8 * bits[m + 2] + 4 * bits[m + 3] + 2 * bits[m + 4] + bits[m + 5]
  BY <1>1, CutDigit
<1> QED BY Zenon, <1>1, <1>2 DEF Five, BitsDigit

\* Go's encodeRandom, for all that it takes the bits in two parts, makes a digit of each five.
LEMMA GoDigit ==
  ASSUME NEW rnd \in [1..10 -> 0..255], NEW k \in 1..16
  PROVE  EncodeGo(rnd)[k] = BitsDigit(AllBits(rnd), k)
<1> DEFINE bits == AllBits(rnd)
           v == SubSeq(bits, 1, 64)
           rest == SubSeq(bits, 65, 80)
           low == SubSeq(v, 61, 64)
           combined == low \o rest
<1>0. \A i \in 1..80 : bits[i] \in Binary
  BY Zenon, RandomBits
<1> HIDE DEF bits
<1>1. v \in Seq(Binary) /\ Len(v) = 64 /\ \A i \in 1..64 : v[i] = bits[i]
  <2>1. \A i \in 1..64 : bits[i] \in Binary
    BY <1>0
  <2>2. 1 \in Int /\ 64 \in Int
    OBVIOUS
  <2>3. v \in Seq(Binary) /\ Len(v) = 64 /\ \A i \in 1..64 - 1 + 1 : v[i] = bits[1 + i - 1]
    BY <2>1, <2>2, SubSeqProperties
  <2>4. \A i \in 1..64 : i \in 1..64 - 1 + 1 /\ 1 + i - 1 = i
    OBVIOUS
  <2> HIDE DEF v
  <2> QED BY <2>3, <2>4
<1>2. rest \in Seq(Binary) /\ Len(rest) = 16 /\ \A i \in 1..16 : rest[i] = bits[64 + i]
  <2>1. \A i \in 65..80 : bits[i] \in Binary
    BY <1>0
  <2>2. 65 \in Int /\ 80 \in Int
    OBVIOUS
  <2>3. rest \in Seq(Binary) /\ Len(rest) = 16 /\ \A i \in 1..80 - 65 + 1 : rest[i] = bits[65 + i - 1]
    BY <2>1, <2>2, SubSeqProperties
  <2>4. \A i \in 1..16 : i \in 1..80 - 65 + 1 /\ 65 + i - 1 = 64 + i
    OBVIOUS
  <2> HIDE DEF rest
  <2> QED BY <2>3, <2>4
<1> HIDE DEF v, rest
<1>3. low \in Seq(Binary) /\ Len(low) = 4 /\ \A i \in 1..4 : low[i] = bits[60 + i]
  <2>0. \A i \in 61..64 : i \in 1..64 /\ i \in 1..80
    OBVIOUS
  <2>1. \A i \in 61..64 : v[i] \in Binary /\ v[i] = bits[i]
    BY Zenon, <1>0, <1>1, <2>0
  <2>2. 61 \in Int /\ 64 \in Int
    OBVIOUS
  <2>3. low \in Seq(Binary) /\ Len(low) = 4 /\ \A i \in 1..64 - 61 + 1 : low[i] = v[61 + i - 1]
    BY <2>1, <2>2, SubSeqProperties
  <2>4. \A i \in 1..4 : i \in 1..64 - 61 + 1 /\ 61 + i - 1 = 60 + i /\ 60 + i \in 61..64
    OBVIOUS
  <2> HIDE DEF low
  <2> QED BY <2>1, <2>3, <2>4
<1>4. Lowest(4, v) = low
  <2>1. 64 - 4 + 1 = 61
    OBVIOUS
  <2> QED BY Zenon, <1>1, <2>1 DEF Lowest
<1> HIDE DEF low
<1>5. /\ combined \in Seq(Binary) /\ \A i \in 1..20 : combined[i] = bits[60 + i] /\ bits[60 + i] \in Binary
  <2>1. low \in Seq(Binary) /\ rest \in Seq(Binary)
    BY <1>2, <1>3
  <2>2. /\ combined \in Seq(Binary)
        /\ \A i \in 1..Len(low) + Len(rest) :
             combined[i] = IF i <= Len(low) THEN low[i] ELSE rest[i - Len(low)]
    BY <2>1, ConcatProperties
  <2> HIDE DEF combined
  <2>3. \A i \in 1..20 : combined[i] = IF i <= 4 THEN low[i] ELSE rest[i - 4]
    <3>1. Len(low) + Len(rest) = 20
      BY <1>2, <1>3
    <3> QED BY <1>3, <2>2, <3>1
  <2>4. \A i \in 1..20 : combined[i] = bits[60 + i]
    <3> TAKE i \in 1..20
    <3>1. CASE i <= 4
      <4>1. i \in 1..4
        BY <3>1
      <4>2. combined[i] = low[i]
        BY <2>3, <3>1
      <4>3. low[i] = bits[60 + i]
        BY Zenon, <1>3, <4>1
      <4> QED BY Zenon, <4>2, <4>3
    <3>2. CASE ~(i <= 4)
      <4>1. i - 4 \in 1..16 /\ 64 + (i - 4) = 60 + i
        BY <3>2
      <4> QED BY <1>2, <2>3, <3>2, <4>1
    <3> QED BY <3>1, <3>2
  <2> QED BY <1>0, <2>2, <2>4
<1>6. EncodeGo(rnd)[k] = IF k <= 12 THEN Five(v, k) ELSE Five(combined, k - 12)
  <2>1. EncodeGo(rnd) = [i \in 1..16 |-> IF i <= 12 THEN Five(v, i)
                                         ELSE Five(Lowest(4, v) \o rest, i - 12)]
    BY Zenon DEF EncodeGo, v, rest, bits
  <2> QED BY <1>4, <2>1
<1> HIDE DEF combined
<1>7. CASE k <= 12
  <2>1. k > 0 /\ k \in Nat /\ 5 * k - 4 \in 1..64 /\ 5 * k - 3 \in 1..64 /\ 5 * k - 2 \in 1..64 /\ 5 * k - 1 \in 1..64 /\ 5 * k \in 1..64
    BY <1>7
  <2>2. \A i \in 5 * k - 4..5 * k : i \in 1..64 /\ i \in 1..80
    BY <1>7
  <2>3. \A i \in 5 * k - 4..5 * k : v[i] \in Binary
    BY Zenon, <1>0, <1>1, <2>2
  <2>4. Five(v, k) = BitsDigit(v, k)
    BY <2>1, <2>3, CutsDigit
  <2>5. BitsDigit(v, k) = BitsDigit(bits, k)
    BY Zenon, <1>1, <2>1 DEF BitsDigit
  <2> QED BY <1>6, <1>7, <2>4, <2>5 DEF bits
<1>8. CASE ~(k <= 12)
  <2> DEFINE n == k - 12
  <2>1. /\ n > 0 /\ n \in Nat /\ 5 * n - 4 \in 1..20 /\ 5 * n - 3 \in 1..20 /\ 5 * n - 2 \in 1..20
        /\ 5 * n - 1 \in 1..20 /\ 5 * n \in 1..20
        /\ 60 + (5 * n - 4) = 5 * k - 4 /\ 60 + (5 * n - 3) = 5 * k - 3 /\ 60 + (5 * n - 2) = 5 * k - 2
        /\ 60 + (5 * n - 1) = 5 * k - 1 /\ 60 + 5 * n = 5 * k
    BY <1>8
  <2>2. \A i \in 5 * n - 4..5 * n : i \in 1..20
    BY <1>8
  <2> HIDE DEF n
  <2>3. \A i \in 5 * n - 4..5 * n : combined[i] \in Binary
    BY <1>5, <2>2
  <2>4. Five(combined, n) = BitsDigit(combined, n)
    BY <2>1, <2>3, CutsDigit
  <2>5. /\ combined[5 * n - 4] = bits[5 * k - 4] /\ combined[5 * n - 3] = bits[5 * k - 3]
        /\ combined[5 * n - 2] = bits[5 * k - 2] /\ combined[5 * n - 1] = bits[5 * k - 1]
        /\ combined[5 * n] = bits[5 * k]
    <3>1. \A i \in 1..20 : \A j : 60 + i = j => combined[i] = bits[j]
      BY Zenon, <1>5
    <3> QED BY ZenonT(30), <2>1, <3>1
  <2>6. BitsDigit(combined, n) = BitsDigit(bits, k)
    BY Zenon, <2>5 DEF BitsDigit
  <2> QED BY <1>6, <1>8, <2>4, <2>6 DEF bits, n
<1> QED BY <1>7, <1>8

\* encodeRandom of TypeScript after n bits: five of them in each digit written, the rest of
\* them last in the buffer.
Encoding(s, bits, n) ==
  /\ n \in 0..80 /\ s.left \in 0..12
  /\ s = [buffer |-> s.buffer, left |-> s.left, out |-> s.out]
  /\ s.buffer \in Seq(Binary) /\ Len(s.buffer) = 32
  /\ \A i \in 1..s.left : s.buffer[32 - s.left + i] = bits[n - s.left + i]
  /\ s.out \in Seq(Nat) /\ 5 * Len(s.out) + s.left = n
  /\ \A k \in 1..Len(s.out) : s.out[k] = BitsDigit(bits, k)

\* The bits of a byte are a text.
LEMMA EightText ==
  ASSUME NEW b \in [1..8 -> Binary]
  PROVE  b \in Seq(Binary) /\ Len(b) = 8
<1>1. 8 \in Nat
  OBVIOUS
<1> QED BY Zenon, <1>1, DigitText

LEMMA ByteOfBits ==
  ASSUME NEW byte \in 0..255
  PROVE  Bits(byte) \in Seq(Binary) /\ Len(Bits(byte)) = 8
<1>1. Bits(byte) \in [1..8 -> Binary]
  <2>1. \A i \in 1..8 : Bits(byte)[i] \in Binary
    BY ByteBits
  <2>2. Bits(byte) = [i \in 1..8 |-> Bits(byte)[i]]
    BY DEF Bits
  <2> QED BY <2>1, <2>2
<1> QED BY Zenon, <1>1, EightText

\* One turn of the loop over the bits left.
LEMMA TakeStep ==
  ASSUME NEW s, NEW bits, NEW n, Encoding(s, bits, n)
  PROVE  /\ Encoding(TakeDigit(s), bits, n)
         /\ TakeDigit(s).left = IF s.left < 5 THEN s.left ELSE s.left - 5
<1>1. CASE s.left < 5
  BY <1>1 DEF TakeDigit
<1>2. CASE ~(s.left < 5)
  <2> DEFINE l == s.left
             d == Digit(SubSeq(s.buffer, 33 - l, 37 - l))
             t == [buffer |-> s.buffer, left |-> l - 5, out |-> Append(s.out, d)]
             k == Len(s.out) + 1
             m == 32 - l
  <2>1. TakeDigit(s) = t
    BY <1>2 DEF TakeDigit
  <2>2. l \in 5..12 /\ n \in Nat /\ Len(s.out) \in Nat /\ 5 * Len(s.out) + l = n
    BY <1>2, LenProperties DEF Encoding
  <2>3. \A i \in 1..32 : s.buffer[i] \in Binary
    BY ElementOfSeq DEF Encoding
  <2>4. \A i \in 1..l : s.buffer[32 - l + i] = bits[n - l + i]
    BY DEF Encoding
  <2> HIDE DEF l
  <2>5. m \in Nat /\ m + 1 = 33 - l /\ m + 5 = 37 - l /\ \A i \in m + 1..m + 5 : i \in 1..32
    BY <2>2
  <2>6. d = 16 * s.buffer[m + 1] + 8 * s.buffer[m + 2] + 4 * s.buffer[m + 3] + 2 * s.buffer[m + 4]
              + s.buffer[m + 5]
    <3> HIDE DEF m
    <3>1. \A i \in m + 1..m + 5 : s.buffer[i] \in Binary
      BY Zenon, <2>3, <2>5
    <3> QED BY <2>5, <3>1, CutDigit
  <2>7. /\ n - l + 1 = 5 * k - 4 /\ n - l + 2 = 5 * k - 3 /\ n - l + 3 = 5 * k - 2
        /\ n - l + 4 = 5 * k - 1 /\ n - l + 5 = 5 * k
        /\ 1 \in 1..l /\ 2 \in 1..l /\ 3 \in 1..l /\ 4 \in 1..l /\ 5 \in 1..l
    BY <2>2
  <2>8. d = BitsDigit(bits, k)
    <3>1. /\ s.buffer[m + 1] = bits[5 * k - 4] /\ s.buffer[m + 2] = bits[5 * k - 3]
          /\ s.buffer[m + 3] = bits[5 * k - 2] /\ s.buffer[m + 4] = bits[5 * k - 1]
          /\ s.buffer[m + 5] = bits[5 * k]
      BY Zenon, <2>4, <2>7
    <3> QED BY Zenon, <2>6, <3>1 DEF BitsDigit
  <2>9. d \in Nat
    <3>1. \A i \in 1..5 : s.buffer[m + i] \in {0, 1}
      <4> TAKE i \in 1..5
      <4>1. m + i \in 1..32
        BY <2>2
      <4> QED BY Zenon, <2>3, <4>1 DEF Binary
    <3>2. s.buffer[m + 1] \in {0, 1} /\ s.buffer[m + 2] \in {0, 1} /\ s.buffer[m + 3] \in {0, 1}
          /\ s.buffer[m + 4] \in {0, 1} /\ s.buffer[m + 5] \in {0, 1}
      <4>1. 1 \in 1..5 /\ 2 \in 1..5 /\ 3 \in 1..5 /\ 4 \in 1..5 /\ 5 \in 1..5
        OBVIOUS
      <4> QED BY Zenon, <3>1, <4>1
    <3> HIDE DEF d, m
    <3> QED BY <2>6, <3>2
  <2> HIDE DEF d
  <2>10. /\ Append(s.out, d) \in Seq(Nat) /\ Len(Append(s.out, d)) = k
         /\ \A i \in 1..Len(s.out) : Append(s.out, d)[i] = s.out[i]
         /\ Append(s.out, d)[k] = d
    BY <2>9, AppendProperties DEF Encoding
  <2>11. \A i \in 1..k : Append(s.out, d)[i] = BitsDigit(bits, i)
    <3>1. \A i \in 1..k : i = k \/ i \in 1..Len(s.out)
      BY <2>2
    <3>2. \A i \in 1..Len(s.out) : s.out[i] = BitsDigit(bits, i)
      BY DEF Encoding
    <3> QED BY Zenon, <2>8, <2>10, <3>1, <3>2
  <2>12. /\ l - 5 \in 0..12 /\ 5 * k + (l - 5) = n
         /\ \A i \in 1..l - 5 : /\ i + 5 \in 1..l /\ 32 - l + (i + 5) = 32 - (l - 5) + i
                                /\ n - l + (i + 5) = n - (l - 5) + i
    BY <2>2
  <2>13. \A i \in 1..l - 5 : s.buffer[32 - (l - 5) + i] = bits[n - (l - 5) + i]
    <3> TAKE i \in 1..l - 5
    <3>1. s.buffer[32 - l + (i + 5)] = bits[n - l + (i + 5)]
      BY Zenon, <2>4, <2>12
    <3> QED BY <2>12, <3>1
  <2>14. t.left = l - 5 /\ t.buffer = s.buffer /\ t.out = Append(s.out, d) /\ t = [buffer |-> t.buffer, left |-> t.left, out |-> t.out]
    OBVIOUS
  <2> HIDE DEF t, k, m
  <2>15. Encoding(t, bits, n)
    <3>1. n \in 0..80 /\ s.buffer \in Seq(Binary) /\ Len(s.buffer) = 32
      BY DEF Encoding
    <3> QED BY Zenon, <2>10, <2>11, <2>12, <2>13, <2>14, <3>1 DEF Encoding
  <2> QED BY Zenon, <1>2, <2>1, <2>14, <2>15 DEF l
<1> QED BY <1>1, <1>2

\* A byte is put at the end of the buffer.
LEMMA ShiftStep ==
  ASSUME NEW rnd \in [1..10 -> 0..255], NEW j \in 1..10,
         NEW s, Encoding(s, AllBits(rnd), 8 * (j - 1)), s.left \in 0..4
  PROVE  Encoding(Filled(s, rnd[j]), AllBits(rnd), 8 * j) /\ Filled(s, rnd[j]).left = s.left + 8
<1> DEFINE bits == AllBits(rnd)
           byte == Bits(rnd[j])
           l == s.left
           n == 8 * (j - 1)
           long == s.buffer \o byte
           last == SubSeq(long, 9, 40)
           t == Filled(s, rnd[j])
<1>1. byte \in Seq(Binary) /\ Len(byte) = 8
  <2>1. rnd[j] \in 0..255
    OBVIOUS
  <2> QED BY Zenon, <2>1, ByteOfBits
<1>2. \A i \in 1..8 : byte[i] = bits[n + i]
  <2> TAKE i \in 1..8
  <2>1. n \in 0..72 /\ n + i \in 1..80 /\ (n + i + 7) \div 8 = j /\ ((n + i - 1) % 8) + 1 = i
    OBVIOUS
  <2> HIDE DEF n
  <2>2. PICK p \in 1..80 : p = n + i
    BY <2>1
  <2>3. bits[p] = Bits(rnd[(p + 7) \div 8])[((p - 1) % 8) + 1]
    BY DEF AllBits
  <2>4. (p + 7) \div 8 = j /\ ((p - 1) % 8) + 1 = i
    BY <2>1, <2>2
  <2>5. bits[p] = byte[i]
    BY Zenon, <2>3, <2>4
  <2> QED BY <2>2, <2>5
<1> HIDE DEF byte, bits
<1>3. /\ s.buffer \in Seq(Binary) /\ Len(s.buffer) = 32
      /\ s = [buffer |-> s.buffer, left |-> s.left, out |-> s.out]
      /\ s.out \in Seq(Nat) /\ 5 * Len(s.out) + l = n
  BY Zenon DEF Encoding, bits
<1>4. \A i \in 1..l : s.buffer[32 - l + i] = bits[n - l + i]
  BY Zenon DEF Encoding, bits
<1>5. \A k \in 1..Len(s.out) : s.out[k] = BitsDigit(bits, k)
  BY Zenon DEF Encoding, bits
<1>6. l \in 0..4 /\ n \in 0..72 /\ n + 8 = 8 * j
  OBVIOUS
<1> HIDE DEF l, n
<1>7. PICK z \in Nat : z = Len(s.out)
  BY <1>3, LenProperties
<1>8. l + 8 \in 0..12 /\ n + 8 \in 0..80 /\ 5 * z + (l + 8) = n + 8
  <2>1. 5 * z + l = n
    BY <1>3, <1>7
  <2> QED BY <1>6, <2>1
<1>9. long \in Seq(Binary) /\ Len(long) = 40 /\ \A i \in 1..40 : long[i] = IF i <= 32 THEN s.buffer[i] ELSE byte[i - 32]
  <2>1. /\ long \in Seq(Binary) /\ Len(long) = Len(s.buffer) + Len(byte)
        /\ \A i \in 1..Len(s.buffer) + Len(byte) :
             long[i] = IF i <= Len(s.buffer) THEN s.buffer[i] ELSE byte[i - Len(s.buffer)]
    <3>1. s.buffer \in Seq(Binary) /\ byte \in Seq(Binary)
      BY <1>1, <1>3
    <3> QED BY <3>1, ConcatProperties
  <2> HIDE DEF long
  <2>2. Len(s.buffer) + Len(byte) = 40
    BY <1>1, <1>3
  <2> QED BY <1>3, <2>1, <2>2
<1> HIDE DEF long
<1>10. last \in Seq(Binary) /\ Len(last) = 32 /\ \A i \in 1..32 : last[i] = long[i + 8]
  <2>1. \A i \in 1..40 : long[i] \in Binary
    BY <1>9, ElementOfSeq
  <2>2. \A i \in 9..40 : long[i] \in Binary
    BY <2>1
  <2>3. 9 \in Int /\ 40 \in Int
    OBVIOUS
  <2>4. last \in Seq(Binary) /\ Len(last) = 32 /\ \A i \in 1..40 - 9 + 1 : last[i] = long[9 + i - 1]
    BY <2>2, <2>3, SubSeqProperties
  <2> HIDE DEF last
  <2>5. \A i \in 1..32 : i \in 1..40 - 9 + 1 /\ 9 + i - 1 = i + 8
    OBVIOUS
  <2> QED BY <2>4, <2>5
<1>11. Lowest(32, s.buffer \o byte) = last
  <2>1. Len(long) - 32 + 1 = 9
    BY <1>9
  <2> QED BY Zenon, <1>9, <2>1 DEF Lowest, long, last
<1> HIDE DEF last
<1>12. t = [buffer |-> last, left |-> l + 8, out |-> s.out]
  <2>1. t = [s EXCEPT !.buffer = last, !.left = s.left + 8]
    BY Zenon, <1>11 DEF byte, Filled
  <2> HIDE DEF t
  <2> QED BY Zenon, <1>3, <2>1 DEF l
<1> HIDE DEF t
<1>13. PICK e \in Nat, m \in Nat : e = l + 8 /\ m = n + 8
  BY <1>6
<1>14. t.buffer = last /\ t.left = e /\ t.out = s.out /\ t = [buffer |-> t.buffer, left |-> t.left, out |-> t.out]
  BY <1>12, <1>13
<1>15. ASSUME NEW i \in 1..e
       PROVE  last[32 - e + i] = bits[m - e + i]
  <2>1. /\ 24 - l + i \in 1..32 /\ 32 - e + i = 24 - l + i /\ 24 - l + i + 8 = 32 - l + i
        /\ 32 - l + i \in 1..40 /\ m - e + i = n - l + i
    BY <1>6, <1>13
  <2>2. last[24 - l + i] = long[32 - l + i]
    BY Zenon, <1>10, <2>1
  <2>3. PICK p \in 1..40 : p = 32 - l + i
    BY <2>1
  <2>4. long[p] = IF p <= 32 THEN s.buffer[p] ELSE byte[p - 32]
    BY <1>9
  <2>5. CASE i <= l
    <3>1. p <= 32 /\ i \in 1..l
      BY <1>6, <2>3, <2>5
    <3>2. long[p] = s.buffer[p]
      BY <2>4, <3>1
    <3> QED BY Zenon, <1>4, <2>1, <2>2, <2>3, <3>1, <3>2
  <2>6. CASE ~(i <= l)
    <3>1. ~(p <= 32) /\ p - 32 \in 1..8 /\ n + (p - 32) = n - l + i
      BY <1>6, <2>3, <2>6
    <3>2. long[p] = byte[p - 32]
      BY <2>4, <3>1
    <3>3. byte[p - 32] = bits[n + (p - 32)]
      BY Zenon, <1>2, <3>1
    <3> QED BY Zenon, <2>1, <2>2, <2>3, <3>1, <3>2, <3>3
  <2> QED BY <2>5, <2>6
<1>16. Encoding(t, bits, m)
  <2>1. m \in 0..80 /\ t.left \in 0..12 /\ 5 * Len(t.out) + t.left = m
    BY ZenonT(30), <1>7, <1>8, <1>14, <1>13
  <2>2. \A i \in 1..t.left : t.buffer[32 - t.left + i] = bits[m - t.left + i]
    BY Zenon, <1>14, <1>15
  <2>3. /\ t.out \in Seq(Nat) /\ t.buffer \in Seq(Binary) /\ Len(t.buffer) = 32
        /\ \A k \in 1..Len(t.out) : t.out[k] = BitsDigit(bits, k)
    BY Zenon, <1>3, <1>5, <1>10, <1>14
  <2> QED BY Zenon, <1>14, <2>1, <2>2, <2>3 DEF Encoding
<1>17. l = s.left
  BY DEF l
<1> QED BY Zenon, <1>6, <1>14, <1>16, <1>17, <1>13 DEF bits, t

\* A byte leaves at most four of its bits in the buffer.
LEMMA PutStep ==
  ASSUME NEW rnd \in [1..10 -> 0..255], NEW j \in 1..10,
         NEW s, Encoding(s, AllBits(rnd), 8 * (j - 1)), s.left \in 0..4
  PROVE  Encoding(PutByte(s, rnd[j]), AllBits(rnd), 8 * j) /\ PutByte(s, rnd[j]).left \in 0..4
<1> DEFINE t == Filled(s, rnd[j])
           u == TakeDigit(t)
           v == TakeDigit(u)
<1>1. Encoding(t, AllBits(rnd), 8 * j) /\ t.left = s.left + 8
  BY ShiftStep
<1> HIDE DEF t
<1>2. /\ Encoding(u, AllBits(rnd), 8 * j)
      /\ u.left = IF t.left < 5 THEN t.left ELSE t.left - 5
  BY Zenon, <1>1, TakeStep
<1> HIDE DEF u
<1>3. /\ Encoding(v, AllBits(rnd), 8 * j)
      /\ v.left = IF u.left < 5 THEN u.left ELSE u.left - 5
  BY Zenon, <1>2, TakeStep
<1>4. v = PutByte(s, rnd[j])
  BY DEF PutByte, u, t
<1> HIDE DEF v
<1>5. v.left \in 0..4
  BY <1>1, <1>2, <1>3
<1> QED BY Zenon, <1>3, <1>4, <1>5

\* Ten bytes, put one after another.
LEMMA PutAll ==
  ASSUME NEW S, NEW s \in [1..10 -> S]
  PROVE  \E state : /\ state[0] = NoBits /\ state[10] = FoldLeft(PutByte, NoBits, s)
                    /\ \A n \in 1..10 : state[n] = PutByte(state[n - 1], s[n])
<1>1. 10 \in Nat
  OBVIOUS
<1>2. s \in Seq(S) /\ Len(s) = 10
  BY <1>1, DigitText
<1>3. \E state : /\ state[0] = NoBits /\ state[Len(s)] = FoldLeft(PutByte, NoBits, s)
                  /\ \A n \in 1..Len(s) : state[n] = PutByte(state[n - 1], s[n])
  BY <1>2, PutFold
<1> QED BY Zenon, <1>2, <1>3

LEMMA Long32 ==
  ASSUME NEW S, NEW s \in [1..32 -> S]
  PROVE  s \in Seq(S) /\ Len(s) = 32
<1>1. 32 \in Nat
  OBVIOUS
<1> QED BY <1>1, DigitText

\* The two encodings of ten bytes are the same text.
THEOREM EncodingsAgree ==
  ASSUME NEW rnd \in [1..10 -> 0..255]
  PROVE  EncodeGo(rnd) = EncodeTs(rnd)
<1> DEFINE bits == AllBits(rnd)
<1>2. Encoding(NoBits, bits, 0) /\ NoBits.left \in 0..4
  <2>1. NoBits.buffer \in Seq(Binary) /\ Len(NoBits.buffer) = 32
    <3>1. NoBits.buffer \in [1..32 -> Binary]
      BY DEF Binary, NoBits
    <3> QED BY Zenon, <3>1, Long32
  <2>2. NoBits.out \in Seq(Nat) /\ Len(NoBits.out) = 0 /\ NoBits.left = 0
    BY EmptySeq DEF NoBits
  <2>3. NoBits = [buffer |-> NoBits.buffer, left |-> NoBits.left, out |-> NoBits.out]
    BY DEF NoBits
  <2> HIDE DEF bits
  <2>4. /\ 0 \in 0..80 /\ NoBits.left \in 0..12 /\ 5 * Len(NoBits.out) + NoBits.left = 0
        /\ \A i \in 1..NoBits.left : NoBits.buffer[32 - NoBits.left + i] = bits[0 - NoBits.left + i]
        /\ \A k \in 1..Len(NoBits.out) : NoBits.out[k] = BitsDigit(bits, k)
        /\ NoBits.left \in 0..4
    BY <2>2
  <2> QED BY Zenon, <2>1, <2>2, <2>3, <2>4 DEF Encoding
<1> HIDE DEF bits
<1>3. PICK state : /\ state[0] = NoBits /\ state[10] = FoldLeft(PutByte, NoBits, rnd)
                   /\ \A n \in 1..10 : state[n] = PutByte(state[n - 1], rnd[n])
  BY Zenon, PutAll
<1> DEFINE T == {n \in Nat : n <= 10 => Encoding(state[n], bits, 8 * n) /\ state[n].left \in 0..4}
<1>4. 0 \in T
  <2>1. 8 * 0 = 0
    OBVIOUS
  <2> QED BY <1>2, <1>3, <2>1
<1>5. ASSUME NEW n \in Nat, n \in T PROVE n + 1 \in T
  <2> SUFFICES ASSUME n + 1 <= 10
               PROVE  Encoding(state[n + 1], bits, 8 * (n + 1)) /\ state[n + 1].left \in 0..4
    OBVIOUS
  <2>1. n <= 10 /\ n + 1 \in 1..10 /\ n + 1 - 1 = n
    OBVIOUS
  <2>2. Encoding(state[n], bits, 8 * n) /\ state[n].left \in 0..4
    BY <1>5, <2>1
  <2> HIDE DEF T
  <2>3. state[n + 1] = PutByte(state[n], rnd[n + 1])
    BY <1>3, <2>1
  <2>4. PICK j \in 1..10 : j = n + 1 /\ j - 1 = n
    BY <2>1
  <2>5. Encoding(PutByte(state[n], rnd[j]), bits, 8 * j) /\ PutByte(state[n], rnd[j]).left \in 0..4
    BY Zenon, <2>2, <2>4, PutStep DEF bits
  <2> QED BY Zenon, <2>3, <2>4, <2>5
<1>6. Encoding(state[10], bits, 80) /\ state[10].left \in 0..4
  <2>1. 10 \in T
    <3> HIDE DEF T
    <3>1. 10 \in Nat
      OBVIOUS
    <3> QED BY <1>4, <1>5, <3>1, NumbersBelow
  <2>2. 10 <= 10 /\ 8 * 10 = 80
    OBVIOUS
  <2> QED BY Zenon, <2>1, <2>2
<1> DEFINE out == state[10].out
<1>7. EncodeTs(rnd) = out
  BY Zenon, <1>3 DEF EncodeTs
<1>8. out \in Seq(Nat) /\ Len(out) = 16 /\ \A k \in 1..16 : out[k] = BitsDigit(bits, k)
  <2>1. /\ out \in Seq(Nat) /\ 5 * Len(out) + state[10].left = 80
        /\ \A k \in 1..Len(out) : out[k] = BitsDigit(bits, k)
    BY Zenon, <1>6 DEF Encoding
  <2> HIDE DEF out
  <2>2. PICK z \in Nat : z = Len(out)
    BY <2>1, LenProperties
  <2>3. 5 * z + state[10].left = 80
    BY <2>1, <2>2
  <2>4. z = 16
    BY <1>6, <2>3
  <2> QED BY <2>1, <2>2, <2>4
<1> HIDE DEF out
<1>9. EncodeGo(rnd) \in [1..16 -> Base32] /\ \A k \in 1..16 : EncodeGo(rnd)[k] = BitsDigit(bits, k)
  BY GoDigits, GoDigit DEF bits
<1>10. out = [k \in 1..16 |-> out[k]]
  BY <1>8, LenProperties
<1>11. EncodeGo(rnd) = out
  <2> DEFINE go == EncodeGo(rnd)
  <2>1. go = [k \in 1..16 |-> go[k]] /\ \A k \in 1..16 : go[k] = out[k]
    BY <1>8, <1>9
  <2> HIDE DEF go
  <2>2. go = out
    BY <1>10, <2>1
  <2> QED BY <2>2 DEF go
<1> QED BY <1>7, <1>11

\* What is left of the clock after each of its digits.
LEMMA ShiftedSteps ==
  ASSUME NEW ms \in Nat
  PROVE  /\ Shifted(ms)[0] = ms
         /\ \A i \in 1..9 : Shifted(ms)[i] = Shifted(ms)[i - 1] \div 32
         /\ \A i \in 0..9 : Shifted(ms)[i] \in Nat
<1> DEFINE Step(h, i) == IF i = 0 THEN ms ELSE h[i - 1] \div 32
           Rec(h, n) == h = [i \in 0..n |-> Step(h, i)]
           T == {n \in Nat : \E h : Rec(h, n)}
<1>1. 0 \in T
  <2> DEFINE h == [i \in 0..0 |-> ms]
  <2>1. h = [i \in 0..0 |-> Step(h, i)]
    <3>1. \A i \in 0..0 : i = 0
      OBVIOUS
    <3> QED BY <3>1
  <2> QED BY <2>1
<1>2. ASSUME NEW n \in Nat, n \in T PROVE n + 1 \in T
  <2>1. PICK h : Rec(h, n)
    BY <1>2
  <2> DEFINE k == [i \in 0..n + 1 |-> IF i = n + 1 THEN h[n] \div 32 ELSE h[i]]
  <2>2. ASSUME NEW i \in 0..n + 1 PROVE k[i] = Step(k, i)
    <3>1. CASE i = n + 1
      <4>1. i # 0 /\ i - 1 = n /\ n \in 0..n + 1 /\ n # n + 1
        BY <3>1
      <4>2. k[n] = h[n]
        BY <4>1
      <4> QED BY <3>1, <4>1, <4>2
    <3>2. CASE i # n + 1
      <4>1. i \in 0..n
        BY <3>2
      <4>2. h[i] = Step(h, i)
        BY <2>1, <4>1
      <4>3. CASE i = 0
        BY <3>2, <4>2, <4>3
      <4>4. CASE i # 0
        <5>1. i - 1 \in 0..n + 1 /\ i - 1 # n + 1
          BY <4>1, <4>4
        <5>2. k[i - 1] = h[i - 1]
          BY <5>1
        <5> QED BY <3>2, <4>2, <4>4, <5>2
      <4> QED BY <4>3, <4>4
    <3> QED BY <3>1, <3>2
  <2>3. Rec(k, n + 1)
    <3> DEFINE k2 == [i \in 0..n + 1 |-> Step(k, i)]
    <3>1. \A i \in 0..n + 1 : k[i] = k2[i]
      BY <2>2
    <3> QED BY <3>1
  <2>4. n + 1 \in Nat
    OBVIOUS
  <2> HIDE DEF Rec, k
  <2> QED BY <2>3, <2>4
<1>3. 9 \in T
  <2>1. 9 \in Nat
    OBVIOUS
  <2> HIDE DEF T
  <2> QED BY <1>1, <1>2, <2>1, NumbersBelow
<1> DEFINE left == CHOOSE h : h = [i \in 0..9 |-> Step(h, i)]
<1>4. Shifted(ms) = left
  BY Zenon DEF Shifted
<1>5. left = [i \in 0..9 |-> Step(left, i)]
  BY <1>3
<1> HIDE DEF left, T
<1>6. \A i \in 0..9 : left[i] = IF i = 0 THEN ms ELSE left[i - 1] \div 32
  BY <1>5
<1>7. /\ left[0] = ms
      /\ \A i \in 1..9 : left[i] = left[i - 1] \div 32
  <2>1. \A i \in 1..9 : i \in 0..9 /\ i # 0
    OBVIOUS
  <2>2. 0 \in 0..9
    OBVIOUS
  <2> QED BY <1>6, <2>1, <2>2
<1> DEFINE U == {n \in Nat : n <= 9 => left[n] \in Nat}
<1>8. \A i \in 0..9 : left[i] \in Nat
  <2>1. 0 \in U
    BY <1>7
  <2>2. ASSUME NEW n \in Nat, n \in U PROVE n + 1 \in U
    <3> SUFFICES ASSUME n + 1 <= 9 PROVE left[n + 1] \in Nat
      OBVIOUS
    <3>1. n + 1 \in 1..9 /\ n <= 9 /\ n + 1 - 1 = n
      OBVIOUS
    <3>2. left[n] \in Nat /\ left[n + 1] = left[n] \div 32
      BY <1>7, <2>2, <3>1
    <3>3. PICK x \in Nat : x = left[n]
      BY <3>2
    <3>4. x \div 32 \in Nat
      OBVIOUS
    <3> QED BY <3>2, <3>3, <3>4
  <2>3. \A n \in Nat : n \in U
    <3> HIDE DEF U
    <3> QED BY <2>1, <2>2, NumbersBelow
  <2>4. \A i \in 0..9 : i \in Nat /\ i <= 9
    OBVIOUS
  <2> QED BY <2>3, <2>4
<1> QED BY Zenon, <1>4, <1>7, <1>8

\* The text a of n digits comes before b.
Less(a, b, n) == \E k \in 1..n : a[k] < b[k] /\ \A j \in 1..k - 1 : a[j] = b[j]

\* The first of the places that have a property.
LEMMA FirstPlace ==
  ASSUME NEW n \in Nat, NEW P \in SUBSET (1..n), P # {}
  PROVE  \E k \in P : \A j \in 1..k - 1 : j \notin P
<1>1. P \in SUBSET Nat
  OBVIOUS
<1>2. PICK k \in P : \A m \in P : k <= m
  BY <1>1, LeastNumber
<1>3. \A j \in 1..k - 1 : ~(k <= j)
  BY <1>1
<1> QED BY <1>2, <1>3

\* encodeTime keeps the order of clocks that ten digits hold.
LEMMA TimeOrder ==
  ASSUME NEW a \in Clocks, NEW b \in Clocks, a < b
  PROVE  Less(EncodeTime(a), EncodeTime(b), 10)
<1> DEFINE A == Shifted(a)
           B == Shifted(b)
<1>1. /\ a \in Nat /\ b \in Nat /\ A[9] < 32 /\ B[9] < 32
  BY UlidAssumption, ClockAssumption
<1>2. /\ A[0] = a /\ \A i \in 1..9 : A[i] = A[i - 1] \div 32
      /\ \A i \in 0..9 : A[i] \in Nat
  BY <1>1, ShiftedSteps
<1>3. /\ B[0] = b /\ \A i \in 1..9 : B[i] = B[i - 1] \div 32
      /\ \A i \in 0..9 : B[i] \in Nat
  BY <1>1, ShiftedSteps
<1>4. /\ \A k \in 1..10 : EncodeTime(a)[k] = A[10 - k] % 32
      /\ \A k \in 1..10 : EncodeTime(b)[k] = B[10 - k] % 32
  BY Zenon DEF EncodeTime
<1> HIDE DEF A, B
<1>5. \A x, y \in Nat : x <= y => x \div 32 <= y \div 32
  OBVIOUS
<1> DEFINE T == {n \in Nat : n <= 9 => A[n] <= B[n]}
<1>6. \A i \in 0..9 : A[i] <= B[i]
  <2>1. 0 \in T
    BY <1>1, <1>2, <1>3
  <2>2. ASSUME NEW n \in Nat, n \in T PROVE n + 1 \in T
    <3> SUFFICES ASSUME n + 1 <= 9 PROVE A[n + 1] <= B[n + 1]
      OBVIOUS
    <3>1. n + 1 \in 1..9 /\ n \in 0..9 /\ n <= 9 /\ n + 1 - 1 = n
      OBVIOUS
    <3>2. A[n] <= B[n] /\ A[n] \in Nat /\ B[n] \in Nat
      BY <1>2, <1>3, <2>2, <3>1
    <3>3. A[n] \div 32 <= B[n] \div 32
      BY Zenon, <1>5, <3>2
    <3> QED BY <1>2, <1>3, <3>1, <3>3
  <2>3. \A n \in Nat : n \in T
    <3> HIDE DEF T
    <3> QED BY <2>1, <2>2, NumbersBelow
  <2>4. \A i \in 0..9 : i \in Nat /\ i <= 9
    OBVIOUS
  <2> QED BY <2>3, <2>4
<1> DEFINE P == {k \in 1..10 : A[10 - k] < B[10 - k]}
<1>7. PICK k \in P : \A j \in 1..k - 1 : j \notin P
  <2>1. 10 \in 1..10 /\ 10 - 10 = 0
    OBVIOUS
  <2>2. 10 \in P
    BY <1>2, <1>3, <2>1
  <2>3. P \in SUBSET (1..10) /\ 10 \in Nat
    OBVIOUS
  <2> HIDE DEF P
  <2> QED BY <2>2, <2>3, FirstPlace
<1>8. k \in 1..10 /\ A[10 - k] < B[10 - k]
  BY <1>7
<1>9. \A j \in 1..k - 1 : j \in 1..10 /\ A[10 - j] = B[10 - j]
  <2> TAKE j \in 1..k - 1
  <2>1. j \in 1..10 /\ 10 - j \in 0..9
    BY <1>8
  <2>2. ~(A[10 - j] < B[10 - j])
    BY <1>7, <2>1
  <2>3. A[10 - j] <= B[10 - j] /\ A[10 - j] \in Nat /\ B[10 - j] \in Nat
    BY <1>2, <1>3, <1>6, <2>1
  <2> QED BY <2>1, <2>2, <2>3
<1> HIDE DEF P, T
<1>10. A[10 - k] % 32 < B[10 - k] % 32
  <2>1. 10 - k \in 0..9
    BY <1>8
  <2>2. PICK x \in Nat, y \in Nat : x = A[10 - k] /\ y = B[10 - k]
    BY <1>2, <1>3, <2>1
  <2>3. x < y
    BY <1>8, <2>2
  <2>4. x \div 32 = y \div 32
    <3>1. CASE k = 1
      <4>1. x < 32 /\ y < 32
        BY <1>1, <2>2, <3>1
      <4> QED BY <4>1
    <3>2. CASE k # 1
      <4>1. k - 1 \in 1..k - 1 /\ 10 - (k - 1) \in 1..9 /\ 10 - (k - 1) - 1 = 10 - k
        BY <1>8, <3>2
      <4>2. A[10 - (k - 1)] = B[10 - (k - 1)]
        BY <1>9, <4>1
      <4>3. A[10 - (k - 1)] = x \div 32 /\ B[10 - (k - 1)] = y \div 32
        BY <1>2, <1>3, <2>2, <4>1
      <4> QED BY Zenon, <4>2, <4>3
    <3> QED BY <3>1, <3>2
  <2>5. x % 32 < y % 32
    BY <2>3, <2>4
  <2> QED BY <2>2, <2>5
<1>11. /\ EncodeTime(a)[k] < EncodeTime(b)[k]
       /\ \A j \in 1..k - 1 : EncodeTime(a)[j] = EncodeTime(b)[j]
  <2>1. EncodeTime(a)[k] = A[10 - k] % 32 /\ EncodeTime(b)[k] = B[10 - k] % 32
    BY Zenon, <1>4, <1>8
  <2>2. \A j \in 1..k - 1 : EncodeTime(a)[j] = EncodeTime(b)[j]
    BY Zenon, <1>4, <1>9
  <2> QED BY Zenon, <1>10, <2>1, <2>2
<1> QED BY Zenon, <1>8, <1>11 DEF Less

\* incrementRandom raises the first byte it changes, unless all of them wrap.
LEMMA IncrementRaises ==
  ASSUME NEW rnd \in [1..10 -> 0..255], Increment(rnd) # Zeros
  PROVE  /\ Increment(rnd) \in [1..10 -> 0..255]
         /\ \E i \in 1..10 : rnd[i] < Increment(rnd)[i] /\ \A j \in 1..i - 1 : rnd[j] = Increment(rnd)[j]
<1> DEFINE inc == Increment(rnd)
           P == {k \in 1..10 : \A j \in k + 1..10 : rnd[j] = 255}
<1>1. \A i \in 1..10 : rnd[i] \in 0..255
  OBVIOUS
<1>2. inc = [i \in 1..10 |-> IF i \in P THEN (rnd[i] + 1) % 256 ELSE rnd[i]]
  BY DEF Increment
<1> HIDE DEF inc
<1>3. PICK k \in P : \A j \in 1..k - 1 : j \notin P
  <2>1. \A j \in 10 + 1..10 : FALSE
    OBVIOUS
  <2>2. 10 \in P
    BY <2>1
  <2>3. P \in SUBSET (1..10) /\ 10 \in Nat
    OBVIOUS
  <2> HIDE DEF P
  <2> QED BY <2>2, <2>3, FirstPlace
<1>4. k \in 1..10 /\ inc[k] = (rnd[k] + 1) % 256 /\ rnd[k] \in 0..255
  <2>1. k \in 1..10
    OBVIOUS
  <2> HIDE DEF P
  <2> QED BY <1>1, <1>2, <2>1
<1>5. \A j \in 1..k - 1 : rnd[j] = inc[j]
  <2> TAKE j \in 1..k - 1
  <2> HIDE DEF P
  <2>1. j \in 1..10
    BY <1>4
  <2>2. j \notin P
    BY Zenon, <1>3
  <2> QED BY <1>2, <2>1, <2>2
<1>6. rnd[k] # 255
  <2> SUFFICES ASSUME rnd[k] = 255 PROVE FALSE
    OBVIOUS
  <2>1. \A j \in k + 1..10 : rnd[j] = 255
    BY <1>3
  <2>2. \A j \in k..10 : rnd[j] = 255
    <3>1. \A j \in k..10 : j = k \/ j \in k + 1..10
      BY <1>4
    <3> QED BY <2>1, <3>1
  <2>3. k = 1
    <3> SUFFICES ASSUME k # 1 PROVE FALSE
      OBVIOUS
    <3>1. k - 1 \in 1..10 /\ k - 1 \in 1..k - 1 /\ k - 1 + 1 = k
      BY <1>4
    <3>2. k - 1 \in P
      BY <2>2, <3>1
    <3> QED BY <1>3, <3>1, <3>2
  <2>4. \A i \in 1..10 : rnd[i] = 255
    BY <2>2, <2>3
  <2>5. \A i \in 1..10 : i \in P
    <3> TAKE i \in 1..10
    <3>1. \A j \in i + 1..10 : j \in 1..10
      OBVIOUS
    <3> QED BY <2>4, <3>1
  <2> HIDE DEF P
  <2>6. \A i \in 1..10 : inc[i] = 0
    <3> TAKE i \in 1..10
    <3>1. rnd[i] = 255 /\ i \in P
      BY Zenon, <2>4, <2>5
    <3>2. inc[i] = (rnd[i] + 1) % 256
      BY <1>2, <3>1
    <3> QED BY <3>1, <3>2
  <2>7. inc = [i \in 1..10 |-> inc[i]]
    BY <1>2
  <2>8. inc = Zeros
    BY <2>6, <2>7 DEF Zeros
  <2> QED BY <2>8 DEF inc
<1>7. rnd[k] < inc[k]
  BY <1>4, <1>6
<1>8. inc \in [1..10 -> 0..255]
  <2>1. \A x \in 0..255 : (x + 1) % 256 \in 0..255
    OBVIOUS
  <2> HIDE DEF P
  <2>2. \A i \in 1..10 : (IF i \in P THEN (rnd[i] + 1) % 256 ELSE rnd[i]) \in 0..255
    BY Zenon, <1>1, <2>1
  <2> QED BY Zenon, <1>2, <2>2
<1> QED BY Zenon, <1>4, <1>5, <1>7, <1>8 DEF inc

\* The bits of the smaller byte come first.
LEMMA ByteOrder ==
  ASSUME NEW x \in 0..255, NEW y \in 0..255, x < y
  PROVE  \E p \in 1..8 : /\ Bits(x)[p] = 0 /\ Bits(y)[p] = 1
                         /\ \A j \in 1..p - 1 : Bits(x)[j] = Bits(y)[j]
<1> DEFINE weight == <<128, 64, 32, 16, 8, 4, 2, 1>>
           X == [i \in 1..8 |-> x \div weight[i]]
           Y == [i \in 1..8 |-> y \div weight[i]]
           P == {k \in 1..8 : X[k] < Y[k]}
<1>1. \A k \in 1..8 : Bits(x)[k] = X[k] % 2 /\ Bits(y)[k] = Y[k] % 2
  BY Zenon DEF Bits
<1>2. \A i \in 1..8 : i = 1 \/ i = 2 \/ i = 3 \/ i = 4 \/ i = 5 \/ i = 6 \/ i = 7 \/ i = 8
  OBVIOUS
<1>3. \A i \in 1..8 : X[i] \in Nat /\ Y[i] \in Nat /\ X[i] <= Y[i]
  <2> TAKE i \in 1..8
  <2>1. weight[i] \in {128, 64, 32, 16, 8, 4, 2, 1}
    BY <1>2
  <2>2. \A w \in {128, 64, 32, 16, 8, 4, 2, 1} : x \div w \in Nat /\ y \div w \in Nat /\ x \div w <= y \div w
    OBVIOUS
  <2> HIDE DEF weight
  <2> QED BY ZenonT(30), <2>1, <2>2
<1>4. \A i \in 2..8 : X[i - 1] = X[i] \div 2 /\ Y[i - 1] = Y[i] \div 2
  <2> TAKE i \in 2..8
  <2>2. /\ X[1] = x \div 128 /\ X[2] = x \div 64 /\ X[3] = x \div 32 /\ X[4] = x \div 16
        /\ X[5] = x \div 8 /\ X[6] = x \div 4 /\ X[7] = x \div 2 /\ X[8] = x \div 1
        /\ Y[1] = y \div 128 /\ Y[2] = y \div 64 /\ Y[3] = y \div 32 /\ Y[4] = y \div 16
        /\ Y[5] = y \div 8 /\ Y[6] = y \div 4 /\ Y[7] = y \div 2 /\ Y[8] = y \div 1
    OBVIOUS
  <2> HIDE DEF X, Y
  <2>3. /\ X[1] = X[2] \div 2 /\ Y[1] = Y[2] \div 2
        /\ X[2] = X[3] \div 2 /\ Y[2] = Y[3] \div 2
        /\ X[3] = X[4] \div 2 /\ Y[3] = Y[4] \div 2
        /\ X[4] = X[5] \div 2 /\ Y[4] = Y[5] \div 2
        /\ X[5] = X[6] \div 2 /\ Y[5] = Y[6] \div 2
        /\ X[6] = X[7] \div 2 /\ Y[6] = Y[7] \div 2
        /\ X[7] = X[8] \div 2 /\ Y[7] = Y[8] \div 2
    BY <2>2
  <2>4. \/ (i = 2 /\ i - 1 = 1)
        \/ (i = 3 /\ i - 1 = 2)
        \/ (i = 4 /\ i - 1 = 3)
        \/ (i = 5 /\ i - 1 = 4)
        \/ (i = 6 /\ i - 1 = 5)
        \/ (i = 7 /\ i - 1 = 6)
        \/ (i = 8 /\ i - 1 = 7)
    OBVIOUS
  <2> QED BY Zenon, <2>3, <2>4
<1>5. X[8] = x /\ Y[8] = y /\ X[1] < 2 /\ Y[1] < 2
  OBVIOUS
<1> HIDE DEF X, Y
<1>6. PICK p \in P : \A j \in 1..p - 1 : j \notin P
  <2>1. 8 \in P /\ 8 \in Nat /\ P \in SUBSET (1..8)
    BY <1>5
  <2> HIDE DEF P
  <2> QED BY <2>1, FirstPlace
<1>7. p \in 1..8 /\ X[p] < Y[p]
  BY <1>6
<1>8. \A j \in 1..p - 1 : j \in 1..8 /\ X[j] = Y[j]
  <2> TAKE j \in 1..p - 1
  <2>1. j \in 1..8
    BY <1>7
  <2>2. ~(X[j] < Y[j])
    BY <1>6, <2>1
  <2> QED BY <1>3, <2>1, <2>2
<1> HIDE DEF P
<1>9. X[p] % 2 = 0 /\ Y[p] % 2 = 1
  <2>1. PICK u \in Nat, v \in Nat : u = X[p] /\ v = Y[p]
    BY <1>3, <1>7
  <2>2. u < v
    BY <1>7, <2>1
  <2>3. u \div 2 = v \div 2
    <3>1. CASE p = 1
      BY <1>5, <2>1, <3>1
    <3>2. CASE p # 1
      <4>1. p \in 2..8 /\ p - 1 \in 1..p - 1
        BY <1>7, <3>2
      <4> QED BY <1>4, <1>8, <2>1, <4>1
    <3> QED BY <3>1, <3>2
  <2>4. u % 2 = 0 /\ v % 2 = 1
    BY <2>2, <2>3
  <2> QED BY <2>1, <2>4
<1>10. Bits(x)[p] = 0 /\ Bits(y)[p] = 1 /\ \A j \in 1..p - 1 : Bits(x)[j] = Bits(y)[j]
  BY Zenon, <1>1, <1>7, <1>8, <1>9
<1> QED BY Zenon, <1>7, <1>10

LEMMA BitAt ==
  ASSUME NEW rnd \in [1..10 -> 0..255]
  PROVE  \A i \in 1..10, p \in 1..8 : AllBits(rnd)[8 * (i - 1) + p] = Bits(rnd[i])[p]
<1> TAKE i \in 1..10, p \in 1..8
<1>1. PICK e \in 1..80 : e = 8 * (i - 1) + p
  BY SMTT(20)
<1>2. (e + 7) \div 8 = i /\ ((e - 1) % 8) + 1 = p
  BY SMTT(20), <1>1
<1>3. AllBits(rnd)[e] = Bits(rnd[(e + 7) \div 8])[((e - 1) % 8) + 1]
  BY DEF AllBits
<1> QED BY Zenon, <1>1, <1>2, <1>3

\* The text of the random part keeps the order of its bytes.
LEMMA RandomOrder ==
  ASSUME NEW r \in [1..10 -> 0..255], NEW s \in [1..10 -> 0..255],
         NEW i \in 1..10, r[i] < s[i], \A j \in 1..i - 1 : r[j] = s[j]
  PROVE  Less(EncodeGo(r), EncodeGo(s), 16)
<1> DEFINE R == AllBits(r)
           S == AllBits(s)
<1>1. /\ \A h \in 1..10, q \in 1..8 : R[8 * (h - 1) + q] = Bits(r[h])[q]
      /\ \A h \in 1..10, q \in 1..8 : S[8 * (h - 1) + q] = Bits(s[h])[q]
  BY Zenon, BitAt
<1>2. \A e \in 1..80 : R[e] \in {0, 1} /\ S[e] \in {0, 1}
  BY Zenon, RandomBits DEF Binary
<1> HIDE DEF R, S
<1>3. PICK p \in 1..8 : /\ Bits(r[i])[p] = 0 /\ Bits(s[i])[p] = 1
                        /\ \A j \in 1..p - 1 : Bits(r[i])[j] = Bits(s[i])[j]
  <2>1. r[i] \in 0..255 /\ s[i] \in 0..255
    OBVIOUS
  <2> QED BY Zenon, <2>1, ByteOrder
<1>4. PICK d \in 1..80 : d = 8 * (i - 1) + p
  BY SMTT(20)
<1>5. R[d] = 0 /\ S[d] = 1
  <2>1. R[8 * (i - 1) + p] = Bits(r[i])[p] /\ S[8 * (i - 1) + p] = Bits(s[i])[p]
    BY Zenon, <1>1
  <2> QED BY Zenon, <1>3, <1>4, <2>1
<1>6. \A e \in 1..d - 1 : e \in 1..80 /\ R[e] = S[e]
  <2> TAKE e \in 1..d - 1
  <2>1. PICK h \in 1..i, q \in 1..8 : e = 8 * (h - 1) + q /\ (h = i => q \in 1..p - 1)
    <3> DEFINE h == (e + 7) \div 8
               q == ((e - 1) % 8) + 1
    <3>1. h \in 1..i /\ q \in 1..8 /\ e = 8 * (h - 1) + q /\ (h = i => q \in 1..p - 1)
      BY SMTT(20), <1>4
    <3> HIDE DEF h, q
    <3> QED BY Zenon, <3>1
  <2>2. h \in 1..10 /\ e \in 1..80 /\ (h # i => h \in 1..i - 1)
    BY SMTT(20), <1>4
  <2>3. R[e] = Bits(r[h])[q] /\ S[e] = Bits(s[h])[q]
    <3>1. R[8 * (h - 1) + q] = Bits(r[h])[q] /\ S[8 * (h - 1) + q] = Bits(s[h])[q]
      BY Zenon, <1>1, <2>2
    <3> QED BY Zenon, <2>1, <3>1
  <2>4. Bits(r[h])[q] = Bits(s[h])[q]
    <3>1. CASE h = i
      BY Zenon, <1>3, <2>1, <3>1
    <3>2. CASE h # i
      <4>1. r[h] = s[h]
        BY Zenon, <2>2, <3>2
      <4> QED BY Zenon, <4>1
    <3> QED BY <3>1, <3>2
  <2> QED BY Zenon, <2>2, <2>3, <2>4
<1>7. PICK k \in 1..16 : 5 * k - 4 <= d /\ d <= 5 * k
  <2> DEFINE k == (d + 4) \div 5
  <2>1. k \in 1..16 /\ 5 * k - 4 <= d /\ d <= 5 * k
    OBVIOUS
  <2> HIDE DEF k
  <2> QED BY Zenon, <2>1
<1>8. \A j \in 1..k - 1 : j \in 1..16 /\ BitsDigit(R, j) = BitsDigit(S, j)
  <2> TAKE j \in 1..k - 1
  <2>1. /\ 5 * j - 4 \in 1..d - 1 /\ 5 * j - 3 \in 1..d - 1 /\ 5 * j - 2 \in 1..d - 1
        /\ 5 * j - 1 \in 1..d - 1 /\ 5 * j \in 1..d - 1 /\ j \in 1..16
    BY SMTT(20), <1>7
  <2>2. /\ R[5 * j - 4] = S[5 * j - 4] /\ R[5 * j - 3] = S[5 * j - 3] /\ R[5 * j - 2] = S[5 * j - 2]
        /\ R[5 * j - 1] = S[5 * j - 1] /\ R[5 * j] = S[5 * j]
    BY Zenon, <1>6, <2>1
  <2> QED BY Zenon, <2>1, <2>2 DEF BitsDigit
<1>9. BitsDigit(R, k) < BitsDigit(S, k)
  <2>1. PICK a \in 1..80, b \in 1..80, c \in 1..80, e \in 1..80, f \in 1..80 :
          a = 5 * k - 4 /\ b = 5 * k - 3 /\ c = 5 * k - 2 /\ e = 5 * k - 1 /\ f = 5 * k
    <3>1. /\ 5 * k - 4 \in 1..80 /\ 5 * k - 3 \in 1..80 /\ 5 * k - 2 \in 1..80
          /\ 5 * k - 1 \in 1..80 /\ 5 * k \in 1..80
      OBVIOUS
    <3> QED BY Zenon, <3>1
  <2>2. /\ BitsDigit(R, k) = 16 * R[a] + 8 * R[b] + 4 * R[c] + 2 * R[e] + R[f]
        /\ BitsDigit(S, k) = 16 * S[a] + 8 * S[b] + 4 * S[c] + 2 * S[e] + S[f]
    BY Zenon, <2>1 DEF BitsDigit
  <2>3. d = a \/ d = b \/ d = c \/ d = e \/ d = f
    BY <1>7, <2>1
  <2>4. /\ a < d => R[a] = S[a]
        /\ b < d => R[b] = S[b]
        /\ c < d => R[c] = S[c]
        /\ e < d => R[e] = S[e]
    <3>1. \A x \in 1..80 : x < d => x \in 1..d - 1
      OBVIOUS
    <3> QED BY Zenon, <1>6, <3>1
  <2>5. a < b /\ a < c /\ b < c /\ a < e /\ b < e /\ c < e /\ a < f /\ b < f /\ c < f /\ e < f
    BY SMTT(20), <2>1
  <2>6. /\ R[a] \in {0, 1} /\ R[b] \in {0, 1} /\ R[c] \in {0, 1} /\ R[e] \in {0, 1} /\ R[f] \in {0, 1}
        /\ S[a] \in {0, 1} /\ S[b] \in {0, 1} /\ S[c] \in {0, 1} /\ S[e] \in {0, 1} /\ S[f] \in {0, 1}
    BY Zenon, <1>2
  <2>7. \/ R[a] = 0 /\ S[a] = 1
        \/ R[a] = S[a] /\ R[b] = 0 /\ S[b] = 1
        \/ R[a] = S[a] /\ R[b] = S[b] /\ R[c] = 0 /\ S[c] = 1
        \/ R[a] = S[a] /\ R[b] = S[b] /\ R[c] = S[c] /\ R[e] = 0 /\ S[e] = 1
        \/ R[a] = S[a] /\ R[b] = S[b] /\ R[c] = S[c] /\ R[e] = S[e] /\ R[f] = 0 /\ S[f] = 1
    <3>1. CASE d = a
      BY Zenon, <1>5, <3>1
    <3>2. CASE d = b
      BY Zenon, <1>5, <2>4, <2>5, <3>2
    <3>3. CASE d = c
      BY Zenon, <1>5, <2>4, <2>5, <3>3
    <3>4. CASE d = e
      BY Zenon, <1>5, <2>4, <2>5, <3>4
    <3>5. CASE d = f
      BY Zenon, <1>5, <2>4, <2>5, <3>5
    <3> QED BY Zenon, <2>3, <3>1, <3>2, <3>3, <3>4, <3>5
  <2>8. 16 * R[a] + 8 * R[b] + 4 * R[c] + 2 * R[e] + R[f]
          < 16 * S[a] + 8 * S[b] + 4 * S[c] + 2 * S[e] + S[f]
    <3> DEFINE Ra == R[a]  Rb == R[b]  Rc == R[c]  Re == R[e]  Rf == R[f]
               Sa == S[a]  Sb == S[b]  Sc == S[c]  Se == S[e]  Sf == S[f]
    <3>1. /\ Ra \in {0, 1} /\ Rb \in {0, 1} /\ Rc \in {0, 1} /\ Re \in {0, 1} /\ Rf \in {0, 1}
          /\ Sa \in {0, 1} /\ Sb \in {0, 1} /\ Sc \in {0, 1} /\ Se \in {0, 1} /\ Sf \in {0, 1}
      BY Zenon, <2>6
    <3>2. \/ Ra = 0 /\ Sa = 1
          \/ Ra = Sa /\ Rb = 0 /\ Sb = 1
          \/ Ra = Sa /\ Rb = Sb /\ Rc = 0 /\ Sc = 1
          \/ Ra = Sa /\ Rb = Sb /\ Rc = Sc /\ Re = 0 /\ Se = 1
          \/ Ra = Sa /\ Rb = Sb /\ Rc = Sc /\ Re = Se /\ Rf = 0 /\ Sf = 1
      BY Zenon, <2>7
    <3> HIDE DEF Ra, Rb, Rc, Re, Rf, Sa, Sb, Sc, Se, Sf
    <3>3. 16 * Ra + 8 * Rb + 4 * Rc + 2 * Re + Rf < 16 * Sa + 8 * Sb + 4 * Sc + 2 * Se + Sf
      BY SMTT(20), <3>1, <3>2
    <3> QED BY Zenon, <3>3 DEF Ra, Rb, Rc, Re, Rf, Sa, Sb, Sc, Se, Sf
  <2> QED BY SMTT(20), <2>2, <2>8
<1>10. \A j \in 1..16 : EncodeGo(r)[j] = BitsDigit(R, j) /\ EncodeGo(s)[j] = BitsDigit(S, j)
  BY Zenon, GoDigit DEF R, S
<1>11. EncodeGo(r)[k] < EncodeGo(s)[k] /\ \A j \in 1..k - 1 : EncodeGo(r)[j] = EncodeGo(s)[j]
  BY Zenon, <1>8, <1>9, <1>10
<1> QED BY Zenon, <1>11 DEF Less

LEMMA TimeDigits ==
  ASSUME NEW ms \in Nat
  PROVE  EncodeTime(ms) \in [1..10 -> Base32]
<1>1. \A k \in 1..10 : Shifted(ms)[10 - k] % 32 \in Base32
  <2> TAKE k \in 1..10
  <2>1. 10 - k \in 0..9
    OBVIOUS
  <2>2. PICK x \in Nat : x = Shifted(ms)[10 - k]
    BY <2>1, ShiftedSteps
  <2>3. x % 32 \in 0..31
    OBVIOUS
  <2> QED BY Zenon, <2>2, <2>3 DEF Base32
<1> QED BY Zenon, <1>1 DEF EncodeTime

\* The digits of a clock, and those of a random part, are texts.
LEMMA TimeText ==
  ASSUME NEW t \in [1..10 -> Base32]
  PROVE  t \in Seq(Base32) /\ Len(t) = 10
<1>1. 10 \in Nat
  OBVIOUS
<1> QED BY Zenon, <1>1, DigitText

LEMMA RandomText ==
  ASSUME NEW g \in [1..16 -> Base32]
  PROVE  g \in Seq(Base32) /\ Len(g) = 16
<1>1. 16 \in Nat
  OBVIOUS
<1> QED BY Zenon, <1>1, DigitText

\* An id is the digits of the clock and those of the random part.
LEMMA IdDigits ==
  ASSUME NEW t \in [1..10 -> Base32], NEW g \in [1..16 -> Base32]
  PROVE  /\ t \o g \in [1..26 -> Base32]
         /\ \A k \in 1..10 : (t \o g)[k] = t[k]
         /\ \A k \in 1..16 : (t \o g)[10 + k] = g[k]
<1>1. t \in Seq(Base32) /\ Len(t) = 10
  BY Zenon, TimeText
<1>2. g \in Seq(Base32) /\ Len(g) = 16
  BY Zenon, RandomText
<1> DEFINE id == t \o g
<1>3. /\ id \in Seq(Base32) /\ Len(id) = Len(t) + Len(g)
      /\ \A k \in 1..Len(t) + Len(g) : id[k] = IF k <= Len(t) THEN t[k] ELSE g[k - Len(t)]
  <2>1. t \in Seq(Base32) /\ g \in Seq(Base32)
    BY <1>1, <1>2
  <2> QED BY <2>1, ConcatProperties
<1> HIDE DEF id
<1>4. Len(t) + Len(g) = 26
  BY <1>1, <1>2
<1>5. Len(id) = 26 /\ \A k \in 1..26 : id[k] = IF k <= 10 THEN t[k] ELSE g[k - 10]
  BY <1>1, <1>3, <1>4
<1>6. id \in [1..26 -> Base32]
  BY <1>3, <1>5, LenProperties
<1>7. \A k \in 1..10 : id[k] = t[k]
  <2> TAKE k \in 1..10
  <2>1. k \in 1..26 /\ k <= 10
    OBVIOUS
  <2> QED BY <1>5, <2>1
<1>8. \A k \in 1..16 : id[10 + k] = g[k]
  <2> TAKE k \in 1..16
  <2>1. 10 + k \in 1..26 /\ ~(10 + k <= 10) /\ 10 + k - 10 = k
    OBVIOUS
  <2> QED BY <1>5, <2>1
<1> QED BY Zenon, <1>6, <1>7, <1>8 DEF id

\* Ids are ordered by the clock, then by the random part.
LEMMA IdOrder ==
  ASSUME NEW t \in [1..10 -> Base32], NEW g \in [1..16 -> Base32],
         NEW u \in [1..10 -> Base32], NEW h \in [1..16 -> Base32],
         Less(t, u, 10) \/ (t = u /\ Less(g, h, 16))
  PROVE  Precedes(t \o g, u \o h)
<1> DEFINE a == t \o g
           b == u \o h
<1>1. /\ \A k \in 1..10 : a[k] = t[k] /\ b[k] = u[k]
      /\ \A k \in 1..16 : a[10 + k] = g[k] /\ b[10 + k] = h[k]
  BY Zenon, IdDigits
<1> HIDE DEF a, b
<1>2. CASE Less(t, u, 10)
  <2>1. PICK k \in 1..10 : t[k] < u[k] /\ \A j \in 1..k - 1 : t[j] = u[j]
    BY Zenon, <1>2 DEF Less
  <2>2. k \in 1..26 /\ \A j \in 1..k - 1 : j \in 1..10
    OBVIOUS
  <2>3. a[k] < b[k] /\ \A j \in 1..k - 1 : a[j] = b[j]
    BY Zenon, <1>1, <2>1, <2>2
  <2> QED BY Zenon, <2>2, <2>3 DEF Precedes, a, b
<1>3. CASE t = u /\ Less(g, h, 16)
  <2>1. PICK k \in 1..16 : g[k] < h[k] /\ \A j \in 1..k - 1 : g[j] = h[j]
    BY Zenon, <1>3 DEF Less
  <2>2. PICK m \in 1..26 : m = 10 + k
    OBVIOUS
  <2>3. a[m] < b[m]
    BY Zenon, <1>1, <2>1, <2>2
  <2>4. \A j \in 1..m - 1 : a[j] = b[j]
    <3> TAKE j \in 1..m - 1
    <3>1. CASE j <= 10
      <4>1. j \in 1..10
        BY <3>1
      <4> QED BY Zenon, <1>1, <1>3, <4>1
    <3>2. CASE ~(j <= 10)
      <4>1. PICK i \in 1..16 : j = 10 + i /\ i \in 1..k - 1
        <5>1. j - 10 \in 1..16 /\ j = 10 + (j - 10) /\ j - 10 \in 1..k - 1
          BY <2>2, <3>2
        <5> QED BY Zenon, <5>1
      <4> QED BY Zenon, <1>1, <2>1, <4>1
    <3> QED BY <3>1, <3>2
  <2> QED BY Zenon, <2>3, <2>4 DEF Precedes, a, b
<1> QED BY <1>2, <1>3

LEMMA PrecedesOrders ==
  ASSUME NEW a \in [1..26 -> Base32], NEW b \in [1..26 -> Base32], NEW c \in [1..26 -> Base32]
  PROVE  /\ ~Precedes(a, a)
         /\ Precedes(a, b) /\ Precedes(b, c) => Precedes(a, c)
<1>1. \A i \in 1..26 : a[i] \in Nat /\ b[i] \in Nat /\ c[i] \in Nat
  BY DEF Base32
<1>2. ~Precedes(a, a)
  BY <1>1 DEF Precedes
<1>3. ASSUME Precedes(a, b), Precedes(b, c) PROVE Precedes(a, c)
  <2>1. PICK k \in 1..26 : a[k] < b[k] /\ \A j \in 1..k - 1 : a[j] = b[j]
    BY Zenon, <1>3 DEF Precedes
  <2>2. PICK m \in 1..26 : b[m] < c[m] /\ \A j \in 1..m - 1 : b[j] = c[j]
    BY Zenon, <1>3 DEF Precedes
  <2>3. CASE k < m
    <3>1. k \in 1..m - 1 /\ \A j \in 1..k - 1 : j \in 1..m - 1
      BY <2>3
    <3>2. a[k] < c[k] /\ \A j \in 1..k - 1 : a[j] = c[j]
      BY <2>1, <2>2, <3>1
    <3> QED BY Zenon, <3>2 DEF Precedes
  <2>4. CASE m < k
    <3>1. m \in 1..k - 1 /\ \A j \in 1..m - 1 : j \in 1..k - 1
      BY <2>4
    <3>2. a[m] < c[m] /\ \A j \in 1..m - 1 : a[j] = c[j]
      BY <2>1, <2>2, <3>1
    <3> QED BY Zenon, <3>2 DEF Precedes
  <2>5. CASE k = m
    <3>1. a[k] < c[k]
      BY <1>1, <2>1, <2>2, <2>5
    <3>2. \A j \in 1..k - 1 : a[j] = c[j]
      BY <2>1, <2>2, <2>5
    <3> QED BY Zenon, <3>1, <3>2 DEF Precedes
  <2> QED BY <2>3, <2>4, <2>5
<1> QED BY <1>2, <1>3

\* An id is a text of twenty-six digits, the clock before the random part.
IdType == [1..26 -> Base32]
IdOf(ms, rnd) == EncodeTime(ms) \o EncodeGo(rnd)

\* The last id is that of the clock and the random part kept, and no id drawn before follows
\* it unless the clock went back or the random part wrapped.
IdInv ==
  /\ UlidTypeOK
  /\ idCount = 0 => lastMs = 0 /\ ulidLog.ids = {}
  /\ idCount > 0 => lastMs \in Clocks /\ lastId = IdOf(lastMs, lastRnd)
  /\ ulidLog.ids \subseteq IdType
  /\ ~(ulidLog.back \/ ulidLog.wrapped) =>
       \A id \in ulidLog.ids : id = lastId \/ Precedes(id, lastId)

LEMMA IdIsText ==
  ASSUME NEW ms \in Nat, NEW rnd \in [1..10 -> 0..255]
  PROVE  IdOf(ms, rnd) \in IdType
<1>1. EncodeTime(ms) \in [1..10 -> Base32] /\ EncodeGo(rnd) \in [1..16 -> Base32]
  BY TimeDigits, GoDigits
<1> QED BY Zenon, <1>1, IdDigits DEF IdOf, IdType

LEMMA InitIdInv == UlidInit => IdInv
<1> SUFFICES ASSUME UlidInit PROVE IdInv
  OBVIOUS
<1>1. UlidTypeOK
  BY UlidAssumption DEF UlidInit, UlidTypeOK, Zeros
<1>2. idCount = 0 /\ lastMs = 0 /\ ulidLog.ids = {}
  BY DEF UlidInit
<1> QED BY <1>1, <1>2 DEF IdInv

\* What drawing an id does.
LEMMA DrawId ==
  ASSUME IdInv, NEW ms \in Clocks, NEW drawn \in Draws, NewULID(ms, drawn)
  PROVE  /\ lastMs' = ms /\ lastRnd' \in [1..10 -> 0..255] /\ idCount' \in 1..MaxIds
         /\ lastId' = IdOf(ms, lastRnd') /\ lastId' \in IdType
         /\ ulidLog'.ids = ulidLog.ids \cup {lastId'}
         /\ ulidLog'.back \/ ulidLog'.wrapped \/
              (/\ ~(ulidLog.back \/ ulidLog.wrapped)
               /\ idCount > 0 => Precedes(lastId, lastId'))
<1>1. /\ idCount \in 0..MaxIds /\ idCount < MaxIds /\ idCount' = idCount + 1 /\ MaxIds \in Nat
      /\ lastMs \in Nat /\ lastRnd \in [1..10 -> 0..255]
      /\ ms \in Nat \ {0} /\ drawn \in [1..10 -> 0..255]
  BY UlidAssumption DEF IdInv, UlidTypeOK, NewULID
<1>2. /\ lastMs' = ms
      /\ lastRnd' = IF ms = lastMs THEN Increment(lastRnd) ELSE drawn
      /\ lastId' = IdOf(ms, lastRnd')
      /\ ulidLog'.ids = ulidLog.ids \cup {lastId'}
      /\ ulidLog'.back = (ulidLog.back \/ ms < lastMs)
      /\ ulidLog'.wrapped = (ulidLog.wrapped \/ (ms = lastMs /\ lastRnd' = Zeros))
  BY DEF NewULID, IdOf
<1>3. Zeros \in [1..10 -> 0..255]
  BY DEF Zeros
<1>4. lastRnd' \in [1..10 -> 0..255]
  <2>1. CASE ms = lastMs /\ Increment(lastRnd) # Zeros
    BY <1>1, <1>2, <2>1, IncrementRaises
  <2>2. CASE ms = lastMs /\ Increment(lastRnd) = Zeros
    BY <1>2, <1>3, <2>2
  <2>3. CASE ms # lastMs
    BY <1>1, <1>2, <2>3
  <2> QED BY <2>1, <2>2, <2>3
<1>5. idCount' \in 1..MaxIds
  BY <1>1
<1>6. lastId' \in IdType
  BY <1>1, <1>2, <1>4, IdIsText
<1>7. ASSUME ~(ulidLog'.back \/ ulidLog'.wrapped), idCount > 0 PROVE Precedes(lastId, lastId')
  <2>1. lastMs \in Clocks /\ lastId = IdOf(lastMs, lastRnd)
    BY <1>7 DEF IdInv
  <2>2. /\ EncodeTime(lastMs) \in [1..10 -> Base32] /\ EncodeGo(lastRnd) \in [1..16 -> Base32]
        /\ EncodeTime(ms) \in [1..10 -> Base32] /\ EncodeGo(lastRnd') \in [1..16 -> Base32]
    BY <1>1, <1>4, TimeDigits, GoDigits
  <2>3. CASE ms = lastMs
    <3>1. lastRnd' = Increment(lastRnd) /\ Increment(lastRnd) # Zeros
      BY <1>2, <1>7, <2>3
    <3>2. Less(EncodeGo(lastRnd), EncodeGo(lastRnd'), 16)
      BY <1>1, <1>4, <3>1, IncrementRaises, RandomOrder
    <3> QED BY Zenon, <1>2, <2>1, <2>2, <2>3, <3>2, IdOrder DEF IdOf
  <2>4. CASE ms # lastMs
    <3>1. lastMs < ms
      <4>1. ~(ms < lastMs)
        BY Zenon, <1>2, <1>7
      <4>2. lastMs \in Nat /\ ms \in Nat /\ ms # lastMs
        BY Zenon, <1>1, <2>4
      <4> QED BY <4>1, <4>2
    <3>2. Less(EncodeTime(lastMs), EncodeTime(ms), 10)
      BY <2>1, <3>1, TimeOrder
    <3> QED BY Zenon, <1>2, <2>1, <2>2, <3>2, IdOrder DEF IdOf
  <2> QED BY <2>3, <2>4
<1>8. ~(ulidLog'.back \/ ulidLog'.wrapped) => ~(ulidLog.back \/ ulidLog.wrapped)
  BY Zenon, <1>2
<1> QED BY Zenon, <1>2, <1>4, <1>5, <1>6, <1>7, <1>8

LEMMA NextIdInv == IdInv /\ [UlidNext]_ulidVars => IdInv'
<1> SUFFICES ASSUME IdInv, [UlidNext]_ulidVars PROVE IdInv'
  OBVIOUS
<1>1. CASE UNCHANGED ulidVars
  BY <1>1 DEF ulidVars, IdInv, UlidTypeOK
<1>2. ASSUME NEW ms \in Clocks, NEW drawn \in Draws, NewULID(ms, drawn) PROVE IdInv'
  <2>1. /\ lastMs' = ms /\ lastRnd' \in [1..10 -> 0..255] /\ idCount' \in 1..MaxIds
        /\ lastId' = IdOf(ms, lastRnd') /\ lastId' \in IdType
        /\ ulidLog'.ids = ulidLog.ids \cup {lastId'}
        /\ ulidLog'.back \/ ulidLog'.wrapped \/
             (/\ ~(ulidLog.back \/ ulidLog.wrapped)
              /\ idCount > 0 => Precedes(lastId, lastId'))
    BY <1>2, DrawId
  <2>2. idCount \in Nat /\ idCount' \in 0..MaxIds /\ idCount' > 0 /\ idCount' # 0 /\ ms \in Nat
    BY SMTT(20), <2>1, UlidAssumption DEF IdInv, UlidTypeOK
  <2>3. UlidTypeOK'
    BY Zenon, <2>1, <2>2 DEF UlidTypeOK, IdType, Base32
  <2>4. (ulidLog.ids \subseteq IdType)'
    BY <2>1 DEF IdInv
  <2>5. ASSUME ~(ulidLog'.back \/ ulidLog'.wrapped), NEW id \in ulidLog'.ids
        PROVE  id = lastId' \/ Precedes(id, lastId')
    <3> SUFFICES ASSUME id # lastId' PROVE Precedes(id, lastId')
      OBVIOUS
    <3>1. id \in ulidLog.ids /\ id \in IdType
      BY <2>1 DEF IdInv
    <3>2. idCount > 0
      BY <2>2, <3>1 DEF IdInv
    <3>3. id = lastId \/ Precedes(id, lastId)
      BY <2>1, <2>5, <3>1 DEF IdInv
    <3>4. Precedes(lastId, lastId')
      BY <2>1, <2>5, <3>2
    <3>5. lastId \in IdType
      BY <3>2 DEF IdInv, UlidTypeOK, IdType, Base32
    <3>6. CASE id = lastId
      BY <3>4, <3>6
    <3>7. CASE Precedes(id, lastId)
      BY Zenon, <2>1, <3>1, <3>4, <3>5, <3>7, PrecedesOrders DEF IdType
    <3> QED BY <3>3, <3>6, <3>7
  <2> QED BY Zenon, <1>2, <2>1, <2>2, <2>3, <2>4, <2>5 DEF IdInv
<1> QED BY <1>1, <1>2 DEF UlidNext

\* Every variable of the id generator has its type, in every reachable state: each id is
\* twenty-six digits in base 32.
THEOREM UlidTypeCorrect == UlidSpec => []UlidTypeOK
<1>1. IdInv => UlidTypeOK
  BY DEF IdInv
<1> QED BY <1>1, InitIdInv, NextIdInv, PTL DEF UlidSpec

\* Each id drawn follows the one before and was never drawn, unless the clock was set back or
\* the random part wrapped, and both encodings write the same text (NewULID, newULID).
THEOREM IdsCorrect == UlidSpec => IdsIncrease
<1> DEFINE Step == idCount' # idCount =>
                     /\ EncodeGo(lastRnd') = EncodeTs(lastRnd')
                     /\ ~(ulidLog'.back \/ ulidLog'.wrapped) =>
                          /\ lastId' \notin ulidLog.ids
                          /\ idCount > 0 => Precedes(lastId, lastId')
<1>1. IdInv /\ [UlidNext]_ulidVars => [Step]_ulidVars
  <2> SUFFICES ASSUME IdInv, NEW ms \in Clocks, NEW drawn \in Draws, NewULID(ms, drawn) PROVE Step
    BY DEF UlidNext
  <2>1. /\ lastRnd' \in [1..10 -> 0..255] /\ lastId' \in IdType
        /\ ulidLog'.back \/ ulidLog'.wrapped \/
             (/\ ~(ulidLog.back \/ ulidLog.wrapped)
              /\ idCount > 0 => Precedes(lastId, lastId'))
    BY DrawId
  <2>2. EncodeGo(lastRnd') = EncodeTs(lastRnd')
    BY <2>1, EncodingsAgree
  <2>3. ASSUME ~(ulidLog'.back \/ ulidLog'.wrapped), lastId' \in ulidLog.ids PROVE FALSE
    <3>1. idCount > 0
      <4>1. idCount \in Nat /\ idCount # 0
        BY <2>3, UlidAssumption DEF IdInv, UlidTypeOK
      <4> QED BY <4>1
    <3>2. Precedes(lastId, lastId') /\ (lastId' = lastId \/ Precedes(lastId', lastId))
      BY <2>1, <2>3, <3>1 DEF IdInv
    <3>3. lastId \in IdType
      BY <3>1 DEF IdInv, UlidTypeOK, IdType, Base32
    <3>4. lastId \in [1..26 -> Base32] /\ lastId' \in [1..26 -> Base32]
      BY Zenon, <2>1, <3>3 DEF IdType
    <3>5. Precedes(lastId', lastId')
      <4>1. CASE lastId' = lastId
        BY Zenon, <3>2, <4>1
      <4>2. CASE Precedes(lastId', lastId)
        BY Zenon, <3>2, <3>4, <4>2, PrecedesOrders
      <4> QED BY Zenon, <3>2, <4>1, <4>2
    <3> QED BY Zenon, <3>4, <3>5, PrecedesOrders
  <2> QED BY Zenon, <2>1, <2>2, <2>3
<1> HIDE DEF Step
<1>2. UlidSpec => [][Step]_ulidVars
  BY <1>1, InitIdInv, NextIdInv, PTL DEF UlidSpec
<1> QED BY <1>2 DEF IdsIncrease, Step

-----------------------------------------------------------------------------
(* The composition.                                                          *)

\* Each service of the edge behaves in the composition as it does alone.
LEMMA ServiceBehaviours ==
  MCSpec => WebSpec /\ IdentitySpec /\ ConnectorSpec /\ DlpSpec /\ UlidSpec
<1>1. MCInit => WebInit /\ IdentityInit /\ ConnectorInit /\ DlpInit /\ UlidInit
  BY DEF MCInit
<1>2. [MCNext]_allVars => [WebNext]_webVars
  BY DEF MCNext, allVars
<1>3. [MCNext]_allVars => [IdentityNext]_identityVars
  BY DEF MCNext, allVars
<1>4. [MCNext]_allVars => [ConnectorNext]_connectorVars
  BY DEF MCNext, allVars
<1>5. [MCNext]_allVars => [DlpNext]_dlpVars
  BY DEF MCNext, allVars, DlpNext
<1>6. [MCNext]_allVars => [UlidNext]_ulidVars
  BY DEF MCNext, allVars
<1> QED BY <1>1, <1>2, <1>3, <1>4, <1>5, <1>6, PTL
        DEF MCSpec, WebSpec, IdentitySpec, ConnectorSpec, DlpSpec, UlidSpec

\* Every variable of the services keeps its type in the composition.
THEOREM EdgeTypeCorrect == MCSpec => []EdgeTypeOK
<1>1. WebTypeOK /\ IdentityTypeOK /\ ConnectorTypeOK /\ DlpTypeOK /\ UlidTypeOK => EdgeTypeOK
  BY DEF EdgeTypeOK
<1> QED BY <1>1, ServiceBehaviours, WebchatTypeCorrect, IdentityTypeCorrect, ConnectorTypeCorrect,
           DlpTypeCorrect, UlidTypeCorrect, PTL

\* The properties of the services hold in the composition, the form the run checks them in.
THEOREM EdgeCorrect ==
  MCSpec => [](WebchatExplained /\ MappingFresh /\ DeliveriesExplained /\ DlpSound)
BY ServiceBehaviours, WebchatCorrect, MappingFreshCorrect, DeliveriesCorrect, DlpCorrect, PTL

\* The ids increase in the composition too: the other services leave the generator alone.
THEOREM EdgeIdsCorrect == MCSpec => IdsIncrease
BY ServiceBehaviours, IdsCorrect
=============================================================================
