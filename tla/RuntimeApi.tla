----------------------------- MODULE RuntimeApi -----------------------------
(***************************************************************************)
(* The private API of the runtime: agent/api/runtime_private_api.py, with  *)
(* the facade it calls, agent/runtime/production_runtime_api.py.  Owners   *)
(* start, stop and close the API; each start makes a server on the one     *)
(* port and a thread that serves it, and each request that a server takes  *)
(* has a thread of its own, that nobody waits for.  What becomes of a      *)
(* request in the flow is RequestFlow, of a decision ManualReviewApproval. *)
(***************************************************************************)
EXTENDS Naturals

CONSTANTS
    Owners,       (* threads that start, stop and close the API               *)
    Handlers,     (* threads of requests, each with a request at a time       *)
    Lifecycle,    (* enable_lifecycle_endpoints, which production leaves off  *)
    MaxServers    (* bound on the servers that are made                       *)

NoServer == 0
Servers == 1..MaxServers
Routes == {"submit", "decide", "read"} \cup (IF Lifecycle THEN {"start", "stop"} ELSE {})

VARIABLES
    server,       (* _server; _server_thread is the thread made with it       *)
    made,         (* how many servers were made                               *)
    bound,        (* servers whose socket has the port                        *)
    thread,       (* of the thread made with each server: where it is         *)
    serves,       (* and the server it read from _server                      *)
    requested,    (* servers whose loop was asked to end                      *)
    down,         (* servers of which a loop has ended                        *)
    owner, has,   (* of each owner: where it is, with which server            *)
    running,      (* _running of the facade                                   *)
    handler, route, result, effect,   (* of each request                      *)
    halted,       (* history: a request whose decision came after the end     *)
    stopped,      (* history: servers that a stop() has seen the end of       *)
    crossed       (* history: servers a thread began on that was not made
                     with them                                                *)

server_vars == <<server, made, bound, thread, serves, requested, down, owner, has, stopped, crossed>>
request_vars == <<handler, route, result, effect, halted>>
vars == <<server_vars, running, request_vars>>

Init ==
    /\ server = NoServer /\ made = 0 /\ bound = {}
    /\ thread = [k \in Servers |-> "none"]
    /\ serves = [k \in Servers |-> NoServer]
    /\ requested = {} /\ down = {}
    /\ owner = [o \in Owners |-> "idle"]
    /\ has = [o \in Owners |-> NoServer]
    /\ running = TRUE
    /\ handler = [h \in Handlers |-> "idle"]
    /\ route = [h \in Handlers |-> "none"]
    /\ result = [h \in Handlers |-> "none"]
    /\ effect = [h \in Handlers |-> "none"]
    /\ halted = {} /\ stopped = {} /\ crossed = {}

Owner(o, place, k) ==
    /\ owner' = [owner EXCEPT ![o] = place]
    /\ has' = [has EXCEPT ![o] = k]

-----------------------------------------------------------------------------
(* start, under a lock; an API that has a server is taken to be started, and *)
(* one that cannot have the port raises and changes nothing.                 *)
Start(o) ==
    /\ owner[o] = "idle" /\ server = NoServer
    /\ bound = {} /\ made < MaxServers
    /\ made' = made + 1 /\ server' = made' /\ bound' = {made'}
    /\ thread' = [thread EXCEPT ![made'] = "new"]
    /\ UNCHANGED <<serves, requested, down, owner, has, stopped, crossed, running, request_vars>>

(* _serve_forever_internal reads _server when it gets to run: there may be   *)
(* none by then, or another.                                                 *)
BeginServing(k) ==
    /\ thread[k] = "new"
    /\ IF server = NoServer
       THEN thread' = [thread EXCEPT ![k] = "ended"] /\ UNCHANGED <<serves, down, crossed>>
       ELSE /\ serves' = [serves EXCEPT ![k] = server]
            /\ crossed' = IF server # k THEN crossed \cup {server} ELSE crossed
            /\ thread' = [thread EXCEPT ![k] = "serving"]
            /\ down' = down \ {server}
    /\ UNCHANGED <<server, made, bound, requested, owner, has, stopped, running, request_vars>>

(* serve_forever ends, and takes the request to end with it.                 *)
EndServing(k) ==
    /\ thread[k] = "serving" /\ serves[k] \in requested
    /\ thread' = [thread EXCEPT ![k] = "ended"]
    /\ requested' = requested \ {serves[k]}
    /\ down' = down \cup {serves[k]}
    /\ UNCHANGED <<server, made, bound, serves, owner, has, stopped, crossed, running, request_vars>>

(* stop: the loop is asked to end, without the lock...                       *)
Stop(o) ==
    /\ owner[o] = "idle" /\ server # NoServer
    /\ requested' = requested \cup {server}
    /\ Owner(o, "shutdown", server)
    /\ UNCHANGED <<server, made, bound, thread, serves, down, stopped, crossed, running, request_vars>>

(* ...waited for, and then the thread is, for some time.                     *)
EndStop(o) ==
    /\ owner[o] = "shutdown" /\ has[o] \in down
    /\ stopped' = IF thread[has[o]] = "ended" THEN stopped \cup {has[o]} ELSE stopped
    /\ Owner(o, "idle", NoServer)
    /\ UNCHANGED <<server, made, bound, thread, serves, requested, down, crossed, running, request_vars>>

(* close: the API has no server any more, and then the port is free.         *)
Close(o) ==
    /\ owner[o] = "idle" /\ server # NoServer
    /\ Owner(o, "close", server)
    /\ server' = NoServer
    /\ UNCHANGED <<made, bound, thread, serves, requested, down, stopped, crossed, running, request_vars>>

EndClose(o) ==
    /\ owner[o] = "close"
    /\ bound' = bound \ {has[o]}
    /\ Owner(o, "idle", NoServer)
    /\ UNCHANGED <<server, made, thread, serves, requested, down, stopped, crossed, running, request_vars>>

-----------------------------------------------------------------------------
(* The facade                                                                *)

(* main starts it before the API and stops it when the API is closed.        *)
StopRuntime ==
    /\ running /\ server = NoServer
    /\ running' = FALSE
    /\ UNCHANGED <<server_vars, request_vars>>

-----------------------------------------------------------------------------
(* Requests                                                                  *)

Go(h, place) == handler' = [handler EXCEPT ![h] = place]

Accept(h, r) ==
    /\ handler[h] = "idle"
    /\ \E k \in Servers : thread[k] = "serving" /\ serves[k] \in bound
    /\ Go(h, "authorize")
    /\ route' = [route EXCEPT ![h] = r]
    /\ result' = [result EXCEPT ![h] = "none"]
    /\ effect' = [effect EXCEPT ![h] = "none"]
    /\ halted' = halted \ {h}
    /\ UNCHANGED <<server_vars, running>>

(* Without the token, which is read from the environment when it is first    *)
(* needed, every route is refused.                                           *)
RequireAuth(h) ==
    /\ handler[h] = "authorize"
    /\ Go(h, "refused") \/ Go(h, IF route[h] \in {"submit", "decide"} THEN "body" ELSE "call")
    /\ UNCHANGED <<server_vars, running, route, result, effect, halted>>

(* A body that is no JSON object, is too long or does not come in time.      *)
ReadJsonBody(h) ==
    /\ handler[h] = "body"
    /\ Go(h, "refused") \/ Go(h, "call")
    /\ UNCHANGED <<server_vars, running, route, result, effect, halted>>

Called(h, res, eff) ==
    /\ handler[h] = "call"
    /\ Go(h, "answer")
    /\ result' = [result EXCEPT ![h] = res]
    /\ effect' = [effect EXCEPT ![h] = eff]
    /\ UNCHANGED <<server_vars, route>>

(* The flow answers, also when it was the planner or the queue that raised,  *)
(* and then may leave something of the request in the queue.                 *)
SubmitRequest(h) ==
    /\ route[h] = "submit"
    /\ IF running
       THEN \/ Called(h, "accepted", "done")
            \/ \E eff \in {"none", "part"} : Called(h, "blocked", eff)
       ELSE Called(h, "blocked", "none")
    /\ UNCHANGED <<running, halted>>

(* A decision is made, or raises, then or later.  A facade that is stopped   *)
(* returns that it was not processed.                                        *)
ProcessExecutionOutcome(h) ==
    /\ route[h] = "decide"
    /\ IF running
       THEN /\ Called(h, "processed", "done") \/ \E eff \in {"none", "part"} : Called(h, "raised", eff)
            /\ UNCHANGED halted
       ELSE /\ Called(h, "unprocessed", "none")
            /\ halted' = halted \cup {h}
    /\ UNCHANGED running

(* Missions, executions, requests and the status: read, or not found.        *)
Read(h) ==
    /\ route[h] = "read"
    /\ Called(h, "read", "none") \/ Called(h, "raised", "none")
    /\ UNCHANGED <<running, halted>>

(* The facade has no method for its components, and raises.                  *)
Switch(h) ==
    /\ route[h] \in {"start", "stop"}
    /\ \/ running' = (route[h] = "start") /\ Called(h, "switched", "done")
       \/ running' = running /\ Called(h, "raised", "none")
    /\ UNCHANGED halted

(* Mutant of Verdict: what a submission returns is not looked into either.   *)
VerdictOfRaise(h) == IF result[h] = "raised" THEN "error" ELSE "ok"

(* What the handler makes of it.  Only of a submission does it look into     *)
(* what was returned; of all others it matters that they return.             *)
Verdict(h) == IF result[h] \in {"raised", "blocked"} THEN "error" ELSE "ok"

(* What the client gets: this; an error in place of an answer that is too    *)
(* long; or nothing, when the answer cannot be written.                      *)
Answer(h) ==
    /\ handler[h] = "answer"
    /\ \E sent \in {Verdict(h), "cut", "lost"} :
          /\ sent = "cut" => Verdict(h) = "ok"
          /\ Go(h, sent)
    /\ UNCHANGED <<server_vars, running, route, result, effect, halted>>

Answered(h) == handler[h] \in {"ok", "error", "cut", "lost", "refused"}

(* The thread of the request ends.                                           *)
Leave(h) ==
    /\ Answered(h)
    /\ Go(h, "idle")
    /\ UNCHANGED <<server_vars, running, route, result, effect, halted>>

Next ==
    \/ \E o \in Owners : Start(o) \/ Stop(o) \/ EndStop(o) \/ Close(o) \/ EndClose(o)
    \/ \E k \in Servers : BeginServing(k) \/ EndServing(k)
    \/ StopRuntime
    \/ \E h \in Handlers :
          \/ \E r \in Routes : Accept(h, r)
          \/ RequireAuth(h) \/ ReadJsonBody(h)
          \/ SubmitRequest(h) \/ ProcessExecutionOutcome(h) \/ Read(h) \/ Switch(h)
          \/ Answer(h) \/ Leave(h)

Spec == Init /\ [][Next]_vars

-----------------------------------------------------------------------------
(* The inductive invariant of AnswersAreTrue.  What is about to be made of a *)
(* call is what became of it, a server a stop() has seen the end of had its  *)
(* own thread ended, and a thread serves another server than its own only if *)
(* that server was crossed.                                                  *)
ApiTypeOK ==
    /\ server \in {NoServer} \cup Servers
    /\ made \in Nat
    /\ thread \in [Servers -> {"none", "new", "serving", "ended"}]
    /\ serves \in [Servers -> {NoServer} \cup Servers]
    /\ owner \in [Owners -> {"idle", "shutdown", "close"}]
    /\ has \in [Owners -> {NoServer} \cup Servers]
    /\ handler \in [Handlers -> {"idle", "authorize", "body", "call", "answer", "ok", "error",
                                 "cut", "lost", "refused"}]
    /\ route \in [Handlers -> Routes \cup {"none"}]
    /\ result \in [Handlers -> {"none", "accepted", "blocked", "processed", "unprocessed",
                                "read", "raised", "switched"}]
    /\ effect \in [Handlers -> {"none", "part", "done"}]

Told(h) == IF handler[h] = "answer" THEN Verdict(h) ELSE handler[h]

Accounted ==
    \A h \in Handlers :
        /\ handler[h] \in {"authorize", "body", "call", "refused"} => effect[h] = "none"
        /\ Told(h) = "ok" => route[h] = "read" \/ effect[h] = "done" \/ h \in halted
        /\ Told(h) = "error" => effect[h] # "done"

OwnThreads ==
    /\ \A k \in Servers : k > made => thread[k] = "none"
    /\ \A o \in Owners : owner[o] = "shutdown" => has[o] \in Servers
    /\ \A k \in stopped : k \in Servers /\ thread[k] = "ended"
    /\ \A k \in Servers : thread[k] = "serving" => serves[k] \in {k} \cup crossed

ApiInv == ApiTypeOK /\ Accounted /\ OwnThreads

(* A client that is told its request was accepted, its decision processed or *)
(* the runtime switched finds that it was, and one that is refused finds     *)
(* that nothing was done, or a part: through every stop and close while      *)
(* requests are under way.  A decision that comes after the runtime stopped  *)
(* is the exception: it is answered as processed.  And when a stop() has     *)
(* seen its server end, no thread serves that server any more, except one    *)
(* that was so late that it took the server of a later start for its own.    *)
AnswersAreTrue ==
    /\ \A h \in Handlers :
          /\ handler[h] = "ok" /\ route[h] # "read" => effect[h] = "done" \/ h \in halted
          /\ handler[h] \in {"error", "refused"} => effect[h] # "done"
    /\ \A k \in stopped \ crossed, j \in Servers : ~(thread[j] = "serving" /\ serves[j] = k)
=============================================================================
