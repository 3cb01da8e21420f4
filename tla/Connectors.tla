----------------------------- MODULE Connectors -----------------------------
(***************************************************************************)
(* connectors/common, email, slack, telegram, discord: one connector       *)
(* process between its chat platform and NATS.                             *)
(*                                                                         *)
(* `connector' says which of the four it is; "run" is the email connector  *)
(* launched by ConnectorBase.run(), the entry point of the library, and    *)
(* not by its main.py.  A message is the events the platform makes of it;  *)
(* its content and attachments, the order of publication and the           *)
(* heartbeats are left out.  A failure while starting ends the process     *)
(* (Crash).  NATS keeps nothing for a subscriber that is away: the egress  *)
(* subscriptions are plain ones.  PTB works off its queue before it stops. *)
(* One send is several posts where the client library repeats a request    *)
(* by itself: slack_sdk after a connection error, discord.py after resets, *)
(* 5xx and 429.  PTB and aiosmtplib repeat nothing.                        *)
(***************************************************************************)
EXTENDS Naturals, Sequences, FiniteSets

CONSTANTS
  Connectors,      \* the connectors examined
  Inbound,         \* messages people send on the platform
  Mentions,        \* those that mention the bot
  Ignored,         \* those the filters drop: bots, other channels, subtypes
  Replies, Flat,   \* egress messages, and those in the main.py's own format
  SendAttempts,    \* _RATE_LIMIT_MAX_RETRIES
  SlackRepeats, DiscordRepeats,  \* repeats of slack_sdk and discord.py in one call: 1 and 4
  MaxConnectorFaults  \* bound

ASSUME ConnectorsAssumption ==
  /\ Connectors # {} /\ Connectors \subseteq {"email", "slack", "telegram", "discord", "run"}
  /\ Mentions \cup Ignored \subseteq Inbound /\ Flat \subseteq Replies
  /\ SendAttempts \in Nat \ {0} /\ SlackRepeats \in Nat /\ DiscordRepeats \in Nat
  /\ MaxConnectorFaults \in Nat

VARIABLES
  connector,
  started,     \* steps of the start that are done
  phase,       \* down, up (starting included) or closing
  running,     \* ConnectorBase._running
  poll,        \* the email connector's poll task
  link,        \* platform events reach the process
  server,      \* the NATS server is reachable
  client,      \* the main's NATS client: open, or closed for good
  subscribed,  \* the egress subscriptions: of base and of main
  events,      \* events the platform still holds
  working,     \* events in the hands of a handler or of the poll task
  buffered,    \* published while the client reconnects
  published,   \* how often each event was published
  jobs,        \* replies being sent
  posts,       \* how often each reply was posted on the platform
  connectorLog \* history: offered, sent, missed, harmed, logged, broken, refusals, resent,
               \* repeats, faults

connectorVars == <<connector, started, phase, running, poll, link, server, client,
  subscribed, events, working, buffered, published, jobs, posts, connectorLog>>
processVars == <<started, phase, running, poll, link, subscribed>>

\* The steps of a start that others can tell apart: the lifespan of each main.py, and
\* ConnectorBase.start.
EmailStart == <<"nats", "main", "link">>
SlackStart == <<"nats", "main", "link">>
TelegramStart == <<"nats", "base", "link", "main">>
DiscordStart == <<"nats", "link", "main">>
BaseStart == <<"base", "link">>

Startup == [email |-> EmailStart, slack |-> SlackStart, telegram |-> TelegramStart,
            discord |-> DiscordStart, run |-> BaseStart]

Copies(m) ==
  {<<m, "message">>} \cup (IF connector = "slack" /\ m \in Mentions THEN {<<m, "mention">>} ELSE {})

PlatformEvents == Inbound \X {"message", "mention"}

ConnectorInit ==
  /\ connector \in Connectors
  /\ started = 0 /\ phase = "down" /\ running = FALSE /\ poll = "none" /\ link = FALSE
  /\ server = TRUE /\ client = "open"
  /\ subscribed = {} /\ events = {} /\ working = {} /\ buffered = {} /\ jobs = {}
  /\ published = [e \in PlatformEvents |-> 0]
  /\ posts = [r \in Replies |-> 0]
  /\ connectorLog = [offered |-> {}, sent |-> {}, missed |-> {}, harmed |-> {}, logged |-> {},
                     broken |-> {}, refusals |-> [r \in Replies |-> 0],
                     resent |-> [r \in Replies |-> 0], repeats |-> 0, faults |-> 0]

InHand == working \cup buffered
WithFault(log) == [log EXCEPT !.faults = @ + 1]
MayFault == connectorLog.faults < MaxConnectorFaults
Harm(log) == [log EXCEPT !.harmed = @ \cup InHand, !.broken = @ \cup {j.reply : j \in jobs}]

\* _publish_to_nats: a client that was closed drops what it is given.
Sound == server /\ client = "open"

\* listen of the email connector schedules the poll loop and returns.
SchedulesPoll(step) == step = "link" /\ connector \in {"email", "run"}

\* listen of the Telegram connector drops the updates that waited.
DropsPending(step) == step = "link" /\ connector = "telegram"

StartStep ==
  /\ phase # "closing" /\ started < Len(Startup[connector])
  /\ LET step == Startup[connector][started + 1] IN
       /\ step \in {"nats", "base"} => server
       /\ phase' = "up" /\ started' = started + 1
       /\ running' = (running \/ step = "base")
       /\ client' = IF step = "nats" THEN "open" ELSE client
       /\ subscribed' = subscribed \cup (IF step \in {"main", "base"} THEN {step} ELSE {})
       /\ link' = (link \/ (step = "link" /\ ~SchedulesPoll(step)))
       /\ poll' = IF SchedulesPoll(step) THEN "scheduled" ELSE poll
       /\ events' = IF DropsPending(step) THEN {} ELSE events
       /\ connectorLog' = IF DropsPending(step)
                          THEN [connectorLog EXCEPT !.missed = @ \cup events] ELSE connectorLog
  /\ UNCHANGED <<connector, server, working, buffered, published, jobs, posts>>

Up == phase = "up" /\ started = Len(Startup[connector])

\* stop: the platform first (the poll task last), then the drain of NATS.  What run()
\* started is stopped as soon as start() returns.
Stop ==
  /\ Up /\ (connector = "run" => poll # "scheduled")
  /\ phase' = "closing" /\ running' = FALSE /\ link' = FALSE
  /\ connectorLog' = Harm(connectorLog)
  /\ UNCHANGED <<connector, started, poll, server, client, subscribed, events, working, buffered,
                 published, jobs, posts>>

Ended ==
  /\ phase' = "down" /\ started' = 0 /\ running' = FALSE /\ poll' = "none" /\ link' = FALSE
  /\ subscribed' = {} /\ working' = {} /\ buffered' = {} /\ jobs' = {}
  /\ UNCHANGED <<connector, server, client, events, published, posts>>

Drain ==
  /\ phase = "closing" /\ (connector = "telegram" => working = {})
  /\ Ended
  /\ connectorLog' = Harm(connectorLog)

Crash ==
  /\ phase # "down" /\ MayFault
  /\ Ended
  /\ connectorLog' = WithFault(Harm(connectorLog))

ServerDown ==
  /\ server /\ MayFault
  /\ server' = FALSE
  /\ connectorLog' = WithFault(Harm(connectorLog))
  /\ UNCHANGED <<connector, client, events, working, buffered, published, jobs, posts>>
  /\ UNCHANGED processVars

\* A client that reconnects sends what it buffered.
ServerUp ==
  /\ ~server
  /\ server' = TRUE
  /\ published' = [e \in PlatformEvents |-> published[e] + (IF e \in buffered THEN 1 ELSE 0)]
  /\ buffered' = {}
  /\ UNCHANGED <<connector, client, events, working, jobs, posts, connectorLog>>
  /\ UNCHANGED processVars

\* The main's client gives up after its attempts; nothing opens it again but a restart.
ClientCloses ==
  /\ ~server /\ client = "open" /\ started > 0 /\ connector # "run"
  /\ client' = "closed" /\ buffered' = {}
  /\ connectorLog' = Harm(connectorLog)
  /\ UNCHANGED <<connector, server, events, working, published, jobs, posts>>
  /\ UNCHANGED processVars

\* Someone writes a message.  Discord's gateway has no memory.
Offer(m) ==
  /\ m \notin connectorLog.offered
  /\ LET lost == connector = "discord" /\ ~link IN
       /\ events' = IF lost THEN events ELSE events \cup Copies(m)
       /\ connectorLog' = [connectorLog EXCEPT !.offered = @ \cup {m},
                             !.missed = @ \cup (IF lost THEN Copies(m) ELSE {})]
  /\ UNCHANGED <<connector, server, client, working, buffered, published, jobs, posts>>
  /\ UNCHANGED processVars

\* Slack sends an event again whose acknowledgement it missed.
Redeliver(e) ==
  /\ connector = "slack" /\ e \in working \ events /\ MayFault
  /\ events' = events \cup {e}
  /\ connectorLog' = WithFault([connectorLog EXCEPT !.repeats = @ + 1])
  /\ UNCHANGED <<connector, server, client, working, buffered, published, jobs, posts>>
  /\ UNCHANGED processVars

\* Bots, edits and other subtypes, empty messages, chats that are not allowed.
Filtered == Ignored \X {"message", "mention"}

\* What passes is normalised; the lookups of sender and attachments suspend the handler.
Normalize(e) == working' = working \cup ({e} \ Filtered)

\* A platform event starts a handler.
Receive(e) ==
  /\ link /\ e \in events
  /\ events' = events \ {e}
  /\ Normalize(e)
  /\ connectorLog' = [connectorLog EXCEPT !.harmed = @ \cup (IF Sound THEN {} ELSE {e})]
  /\ UNCHANGED <<connector, server, client, buffered, published, jobs, posts>>
  /\ UNCHANGED processVars

\* Telegram's lookup of a file raises, a file too big among others, and the handler ends;
\* Slack's lookup catches its errors, Discord looks nothing up.
NormalizeFails(e) ==
  /\ connector = "telegram" /\ e \in working /\ MayFault
  /\ working' = working \ {e}
  /\ connectorLog' = WithFault([connectorLog EXCEPT !.harmed = @ \cup {e}])
  /\ UNCHANGED <<connector, server, client, events, buffered, published, jobs, posts>>
  /\ UNCHANGED processVars

\* A client that reconnects keeps what it is given, but Telegram's main asks first
\* whether it is connected and drops the message.
Buffers == ~server /\ client = "open" /\ connector # "telegram"

\* The handler publishes the message.
Publish(e) ==
  /\ e \in working /\ connector \in {"slack", "telegram", "discord"}
  /\ working' = working \ {e}
  /\ published' = IF Sound THEN [published EXCEPT ![e] = @ + 1] ELSE published
  /\ buffered' = IF Buffers THEN buffered \cup {e} ELSE buffered
  /\ UNCHANGED <<connector, server, client, events, jobs, posts, connectorLog>>
  /\ UNCHANGED processVars

\* _poll_loop starts: the connector must be running, and only start() sets that.
PollStarts ==
  /\ poll = "scheduled"
  /\ poll' = IF running THEN "polling" ELSE "ended"
  /\ UNCHANGED <<connector, started, phase, running, link, server, client, subscribed, events,
                 working, buffered, published, jobs, posts, connectorLog>>

\* _fetch_unseen: FETCH marks a mail as seen, before anything is done with it.
Fetch(e) ==
  /\ poll = "polling" /\ e \in events
  /\ events' = events \ {e} /\ working' = working \cup {e}
  /\ connectorLog' = [connectorLog EXCEPT !.harmed = @ \cup (IF phase = "up" THEN {} ELSE {e})]
  /\ UNCHANGED <<connector, server, client, buffered, published, jobs, posts>>
  /\ UNCHANGED processVars

\* _on_message, which only main.py replaces by a publish: what run() has polled is logged.
OnMessage(e) ==
  /\ connector = "run" /\ e \in working
  /\ working' = working \ {e}
  /\ connectorLog' = [connectorLog EXCEPT !.logged = @ \cup {e}]
  /\ UNCHANGED <<connector, server, client, events, buffered, published, jobs, posts>>
  /\ UNCHANGED processVars

\* egress.<connector>.message reaches the handlers that are subscribed; base's reads
\* the envelope, main's its own fields, and each drops what it cannot read.
Understands(via, r) == (via = "main") <=> (r \in Flat)

Reply(r) ==
  /\ r \notin connectorLog.sent
  /\ LET heard == {via \in subscribed : /\ server /\ (via = "main" => client = "open")
                                        /\ Understands(via, r)}
     IN /\ jobs' = jobs \cup {[reply |-> r, via |-> via, tries |-> 1, again |-> 0] : via \in heard}
        /\ connectorLog' = [connectorLog EXCEPT !.sent = @ \cup {r},
                              !.missed = @ \cup (IF heard = {} THEN {r} ELSE {})]
  /\ UNCHANGED <<connector, server, client, events, working, buffered, published, posts>>
  /\ UNCHANGED processVars

\* Telegram and Discord post through the application that connect() builds and stop() ends.
CanPost == connector \in {"telegram", "discord"} => link

\* The platform takes the post: a mail with its headers and parts is submitted.
Posted(r) == posts' = [posts EXCEPT ![r] = @ + 1]

\* A send that tries again after any error, also when the post was made.
SendMutant(j) ==
  /\ j \in jobs
  /\ \E posted, failed \in BOOLEAN :
       /\ posted \/ failed
       /\ posted => CanPost
       /\ (failed /\ CanPost) => MayFault
       /\ jobs' = (jobs \ {j}) \cup (IF failed /\ j.tries < SendAttempts
                                     THEN {[j EXCEPT !.tries = @ + 1]} ELSE {})
       /\ IF posted THEN Posted(j.reply) ELSE UNCHANGED posts
       /\ connectorLog' = [connectorLog EXCEPT
            !.broken = @ \cup (IF failed THEN {j.reply} ELSE {}),
            !.faults = @ + (IF failed /\ CanPost THEN 1 ELSE 0)]
  /\ UNCHANGED <<connector, server, client, events, working, buffered, published>>
  /\ UNCHANGED processVars

\* send: the platform takes the post and answers, or fails, with the post or without.
Send(j) ==
  /\ j \in jobs
  /\ jobs' = jobs \ {j}
  /\ \E posted, failed \in BOOLEAN :
       /\ posted \/ failed
       /\ posted => CanPost
       /\ (failed /\ CanPost) => MayFault
       /\ IF posted THEN Posted(j.reply) ELSE UNCHANGED posts
       /\ connectorLog' = [connectorLog EXCEPT
            !.broken = @ \cup (IF failed THEN {j.reply} ELSE {}),
            !.faults = @ + (IF failed /\ CanPost THEN 1 ELSE 0)]
  /\ UNCHANGED <<connector, server, client, events, working, buffered, published>>
  /\ UNCHANGED processVars

\* How often the client library repeats a request within one call.
LibraryRepeats == [email |-> 0, slack |-> SlackRepeats, telegram |-> 0,
                   discord |-> DiscordRepeats, run |-> 0]

\* The connection breaks, or the platform answers 5xx, with the post made or without, and
\* the library repeats the request: the send goes on.
Resend(j) ==
  /\ j \in jobs /\ CanPost /\ MayFault /\ j.again < LibraryRepeats[connector]
  /\ jobs' = (jobs \ {j}) \cup {[j EXCEPT !.again = @ + 1]}
  /\ Posted(j.reply) \/ UNCHANGED posts
  /\ connectorLog' = WithFault([connectorLog EXCEPT !.resent[j.reply] = @ + 1])
  /\ UNCHANGED <<connector, server, client, events, working, buffered, published>>
  /\ UNCHANGED processVars

\* After a 429 Slack's send waits and calls again, discord.py waits and repeats the request,
\* and the others give up.
Retried(j) ==
  CASE connector = "slack" /\ j.tries < SendAttempts -> {[j EXCEPT !.tries = @ + 1, !.again = 0]}
    [] connector = "discord" /\ j.again < DiscordRepeats -> {[j EXCEPT !.again = @ + 1]}
    [] OTHER -> {}

\* The platform answers 429.
RateLimited(j) ==
  /\ j \in jobs /\ CanPost
  /\ jobs' = (jobs \ {j}) \cup Retried(j)
  /\ connectorLog' = [connectorLog EXCEPT !.refusals[j.reply] = @ + 1]
  /\ UNCHANGED <<connector, server, client, events, working, buffered, published, posts>>
  /\ UNCHANGED processVars

ConnectorNext ==
  \/ StartStep \/ Stop \/ Drain \/ Crash \/ ServerDown \/ ServerUp \/ ClientCloses \/ PollStarts
  \/ \E m \in Inbound : Offer(m)
  \/ \E e \in PlatformEvents : \/ Redeliver(e) \/ Receive(e) \/ NormalizeFails(e) \/ Publish(e)
                              \/ Fetch(e) \/ OnMessage(e)
  \/ \E r \in Replies : Reply(r)
  \/ \E j \in jobs : Send(j) \/ Resend(j) \/ RateLimited(j)

ConnectorSpec == ConnectorInit /\ [][ConnectorNext]_connectorVars

-----------------------------------------------------------------------------
\* Every variable has its type.
ConnectorTypeOK ==
  /\ connector \in Connectors /\ phase \in {"down", "up", "closing"}
  /\ started \in 0..Len(Startup[connector])
  /\ running \in BOOLEAN /\ link \in BOOLEAN /\ server \in BOOLEAN
  /\ poll \in {"none", "scheduled", "polling", "ended"} /\ client \in {"open", "closed"}
  /\ subscribed \subseteq {"main", "base"}
  /\ events \subseteq PlatformEvents /\ InHand \subseteq PlatformEvents
  /\ published \in [PlatformEvents -> Nat] /\ posts \in [Replies -> Nat]
  /\ jobs \subseteq [reply : Replies, via : {"main", "base"}, tries : 1..SendAttempts,
                      again : 0..LibraryRepeats[connector]]
  /\ connectorLog \in [offered : SUBSET Inbound, sent : SUBSET Replies,
                      missed : SUBSET (PlatformEvents \cup Replies), harmed : SUBSET PlatformEvents,
                      logged : SUBSET PlatformEvents, broken : SUBSET Replies,
                      refusals : [Replies -> Nat], resent : [Replies -> Nat], repeats : Nat,
                      faults : Nat]

Offered == UNION {Copies(m) : m \in connectorLog.offered \ Ignored}

\* An event is lost only if nobody listened when it came, if the process held it while it
\* crashed, stopped or was cut off from NATS, if its attachment could not be looked up, or if
\* it is a mail that the email connector polled under run(), whose _on_message only logs it;
\* and it is published more than once only if the platform delivered it again.
IngressKept ==
  /\ \A e \in Offered :
       \/ e \in events \cup InHand \cup connectorLog.missed \cup connectorLog.harmed
       \/ connector = "run" /\ e \in connectorLog.logged
       \/ published[e] > 0
  /\ \A e \in PlatformEvents : published[e] <= 1 + connectorLog.repeats

\* What a reply's posts may be repeated: in each call of its send as often as the library does.
ResendBound == (IF connector = "slack" THEN SendAttempts ELSE 1) * LibraryRepeats[connector]

\* The refusals that a send bears: Slack's counts its calls, a library its requests.
RefusedEnough(r) ==
  IF connector = "slack" THEN connectorLog.refusals[r] >= SendAttempts
  ELSE connectorLog.refusals[r] + connectorLog.resent[r] > LibraryRepeats[connector]

\* A reply is posted once and once more for each request that the client library repeated
\* after a broken connection or a 5xx, which only slack_sdk and discord.py do and no more
\* often than they allow; the connector itself repeats nothing that may have been posted.
\* One that a handler could read is lost only by a crash or a stop, a failure of the
\* platform, or as many refusals as the connector and its library bear.
EgressOnce ==
  \A r \in connectorLog.sent :
    /\ posts[r] <= 1 + connectorLog.resent[r]
    /\ connectorLog.resent[r] <= ResendBound
    /\ \/ posts[r] > 0
       \/ r \in connectorLog.missed \cup connectorLog.broken \cup {j.reply : j \in jobs}
       \/ RefusedEnough(r)

\* Events and replies pass a connector once; each repetition and each loss has one of the
\* causes named (publish and send paths of the four connectors and of their base).
DeliveriesExplained == IngressKept /\ EgressOnce

\* What connector.py:169 of the email connector says: the polling loop runs until stop().
PollsUntilStop == (connector = "email" /\ phase = "up") => poll # "ended"
=============================================================================
