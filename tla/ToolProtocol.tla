---------------------------- MODULE ToolProtocol ----------------------------
(***************************************************************************)
(* libs/tool-protocol: callers of a tool, by NATS request and reply or by  *)
(* HTTP, and the processes that serve it.                                  *)
(*                                                                         *)
(* All calls are of one tool.  Every NATSToolServer subscribes for itself, *)
(* with no queue group, so each gets a copy of a request; nats-py awaits   *)
(* the callback of a subscription before it takes the next message.  The   *)
(* HTTP server runs its handlers concurrently.  A handler's exception is   *)
(* answered like its result and is not told apart.  The idempotency key of *)
(* a request is sent and read by neither server: a caller that makes a     *)
(* call again, with the same request, makes another try of it.             *)
(***************************************************************************)
EXTENDS Naturals, FiniteSets

CONSTANTS
  ToolServers,   \* processes with a NATSToolServer
  HttpServer,    \* the process with the HTTPToolServer
  ToolCalls,     \* requests
  NatsCalls,     \* those made through NATSToolClient; the others are HTTP
  RefusedCalls,  \* HTTP calls of a tool that is not registered, and those of HTTPToolClient
  MaxTries       \* bound: how often a caller tries one call

ASSUME ToolAssumption ==
  /\ IsFiniteSet(ToolServers) /\ HttpServer \notin ToolServers
  /\ NatsCalls \subseteq ToolCalls /\ RefusedCalls \subseteq ToolCalls \ NatsCalls
  /\ MaxTries \in Nat

VARIABLES
  serving,  \* the servers that are up and subscribed
  queued,   \* copies of requests that wait for a subscription's callback
  working,  \* handlers that run
  caller,   \* for each call what its caller knows, and how often it tried
  began,    \* the tries for which some handler began
  runs      \* how often a handler was given the call

toolVars == <<serving, queued, working, caller, began, runs>>

Job(s, c, n) == [server |-> s, call |-> c, try |-> n]

ToolInit ==
  /\ serving = {} /\ queued = {} /\ working = {} /\ began = {}
  /\ caller = [c \in ToolCalls |-> [pc |-> "new", tries |-> 0]]
  /\ runs = [c \in ToolCalls |-> 0]

-----------------------------------------------------------------------------
(* Servers.                                                                  *)

\* start, and uvicorn's start of the HTTP router.
Serve(s) ==
  /\ s \notin serving
  /\ serving' = serving \cup {s}
  /\ UNCHANGED <<queued, working, caller, began, runs>>

Awaits(c) == caller[c].pc = "waiting"

\* close, or the process dies: unsubscribing cancels the callback that runs.  A broken
\* connection is an error at once for an HTTP caller and nothing for a NATS caller.
StopServing(s) ==
  /\ s \in serving
  /\ serving' = serving \ {s}
  /\ queued' = {j \in queued : j.server # s}
  /\ working' = {j \in working : j.server # s}
  /\ caller' = [c \in ToolCalls |->
                 IF s = HttpServer /\ c \notin NatsCalls /\ Awaits(c)
                 THEN [caller[c] EXCEPT !.pc = "raised"] ELSE caller[c]]
  /\ UNCHANGED <<began, runs>>

BeginHandler(j) ==
  /\ working' = working \cup {j}
  /\ began' = began \cup {<<j.call, j.try>>}
  /\ runs' = [runs EXCEPT ![j.call] = @ + 1]

\* Mutant of OnMessage: the message stays with the subscription.
OnMessageMutant(j) ==
  /\ j \in queued /\ \A k \in working : k.server # j.server
  /\ BeginHandler(j)
  /\ UNCHANGED <<serving, queued, caller>>

\* _on_message.
OnMessage(j) ==
  /\ j \in queued /\ \A k \in working : k.server # j.server
  /\ queued' = queued \ {j}
  /\ BeginHandler(j)
  /\ UNCHANGED <<serving, caller>>

\* The first reply to a try ends it; one that comes after it, or after the time-out, is
\* dropped.
Respond(j) ==
  /\ j \in working
  /\ working' = working \ {j}
  /\ caller' = IF Awaits(j.call) /\ caller[j.call].tries = j.try
               THEN [caller EXCEPT ![j.call].pc = "answered"] ELSE caller
  /\ UNCHANGED <<serving, queued, began, runs>>

-----------------------------------------------------------------------------
(* Callers.                                                                  *)

MayTry(c) == caller[c].pc \notin {"waiting", "answered"} /\ caller[c].tries < MaxTries
Tried(c, pc) == caller' = [caller EXCEPT ![c] = [pc |-> pc, tries |-> @.tries + 1]]

\* NATSToolClient.call: without a subscriber the request raises NoRespondersError.
NatsCall(c) ==
  LET heard == serving \cap ToolServers
  IN  /\ c \in NatsCalls /\ MayTry(c)
      /\ Tried(c, IF heard = {} THEN "raised" ELSE "waiting")
      /\ queued' = queued \cup {Job(s, c, caller[c].tries + 1) : s \in heard}
      /\ UNCHANGED <<serving, working, began, runs>>

\* _handle_call: 404 for a tool that is not registered.  The body HTTPToolClient sends
\* repeats tool_id, and the server answers the TypeError of its ToolRequest by 500.
Refuse(c) == Tried(c, "refused") /\ UNCHANGED <<working, began, runs>>

\* HTTPToolClient.call, or the POST of another client.
HttpCall(c) ==
  /\ c \in ToolCalls \ NatsCalls /\ MayTry(c)
  /\ \/ HttpServer \notin serving /\ Tried(c, "raised") /\ UNCHANGED <<working, began, runs>>
     \/ HttpServer \in serving /\ c \in RefusedCalls /\ Refuse(c)
     \/ /\ HttpServer \in serving /\ c \notin RefusedCalls
        /\ Tried(c, "waiting") /\ BeginHandler(Job(HttpServer, c, caller[c].tries + 1))
  /\ UNCHANGED <<serving, queued>>

\* Both clients turn a time-out into a response with an error.
TimeOut(c) ==
  /\ Awaits(c)
  /\ caller' = [caller EXCEPT ![c].pc = "timed_out"]
  /\ UNCHANGED <<serving, queued, working, began, runs>>

ToolNext ==
  \/ \E s \in ToolServers \cup {HttpServer} : Serve(s) \/ StopServing(s)
  \/ \E j \in queued : OnMessage(j)
  \/ \E j \in working : Respond(j)
  \/ \E c \in ToolCalls : NatsCall(c) \/ HttpCall(c) \/ TimeOut(c)

ToolSpec == ToolInit /\ [][ToolNext]_toolVars

-----------------------------------------------------------------------------
\* Every variable has its type.
ToolTypeOK ==
  /\ serving \subseteq ToolServers \cup {HttpServer}
  /\ queued \cup working \subseteq
       [server : ToolServers \cup {HttpServer}, call : ToolCalls, try : 1..MaxTries]
  /\ caller \in [ToolCalls -> [pc : {"new", "waiting", "answered", "timed_out", "raised", "refused"},
                              tries : 0..MaxTries]]
  /\ began \subseteq ToolCalls \X (1..MaxTries)
  /\ runs \in [ToolCalls -> Nat]

Replicas(c) == IF c \in NatsCalls THEN Cardinality(ToolServers) ELSE 1

\* A call is run at most once for each of its tries and each process that serves its tool
\* (server.py:73 subscribes without a queue group, client.py:27's key is read by nobody); an
\* answer comes of a run of that very try, an error of NATS without subscribers of none,
\* and what HTTPToolClient sends is never run.
CallsExplained ==
  \A c \in ToolCalls :
    /\ runs[c] <= caller[c].tries * Replicas(c)
    /\ caller[c].pc = "answered" => <<c, caller[c].tries>> \in began
    /\ caller[c].pc = "raised" /\ c \in NatsCalls => <<c, caller[c].tries>> \notin began
    /\ c \in RefusedCalls => runs[c] = 0
=============================================================================
