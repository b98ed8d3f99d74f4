------------------------ MODULE ApplicationContainer ------------------------
(***************************************************************************)
(* The application container: agent/app/application.py.  build_application *)
(* makes seventeen services, or takes those a caller brings, and registers *)
(* each; what is registered is closed in the opposite order, by the build  *)
(* itself when a service fails, or by whoever calls close(), which has no  *)
(* lock.  A service is a name; what serves it is the stub made for it,     *)
(* that has the same name, or an object that was brought.                  *)
(***************************************************************************)
EXTENDS Sequences, Naturals

CONSTANTS
    Closers,      (* threads that have the container                          *)
    Configs,      (* [identifiers, paths]: see Acceptable                     *)
    Overridings,  (* the overrides of a build: functions on service names     *)
    Refusing,     (* objects brought whose close() raises                     *)
    Projects, KnownProjects   (* known to a project registry that was brought *)

VARIABLES
    phase,        (* of the build                                             *)
    overrides,
    failing,      (* the services some override is marked to fail at          *)
    built,        (* _closables: the objects, in the order of Services        *)
    open,         (* objects that are not closed                              *)
    closed,       (* _closed                                                  *)
    position,     (* how far down built each closer is; 0 is none             *)
    seen,         (* of each closer                                           *)
    views,        (* projects a view was made for                             *)
    overlapped,   (* history: two threads were closing at a time              *)
    again         (* history: an object was closed twice, and not by two      *)
                  (* threads that were closing at a time                      *)

close_vars == <<open, closed, position, seen, overlapped, again>>
vars == <<phase, overrides, failing, built, views, close_vars>>

Builder == "builder"

Services ==
    <<"project_registry", "provider_registry", "usage_ledger", "budget_store",
      "budget_evaluator", "rate_limiter", "chat_gateway", "plan_builder",
      "queue_coordinator", "planner_queue_flow", "request_gate", "request_flow",
      "execution_report_writer", "execution_outcome_coordinator",
      "background_worker", "autonomous_controller", "private_admin_api">>

(* The services the stub of a name is given.                                 *)
StubUses(n) ==
    CASE n = "budget_evaluator" -> {"budget_store", "usage_ledger"}
      [] n = "rate_limiter" -> {"usage_ledger"}
      [] n = "chat_gateway" -> {"provider_registry", "rate_limiter", "budget_evaluator", "usage_ledger"}
      [] n = "plan_builder" -> {"chat_gateway", "provider_registry"}
      [] n = "planner_queue_flow" -> {"queue_coordinator", "plan_builder"}
      [] n = "request_gate" -> {"budget_evaluator", "rate_limiter", "provider_registry"}
      [] n = "request_flow" -> {"request_gate", "planner_queue_flow", "chat_gateway"}
      [] n = "execution_outcome_coordinator" -> {"execution_report_writer", "queue_coordinator"}
      [] n = "autonomous_controller" -> {"request_flow"}
      [] n = "private_admin_api" -> {"project_registry", "provider_registry", "request_flow"}
      [] OTHER -> {}

(* A worker is made for a controller that was brought, and for none else.    *)
MadeForController == "autonomous_controller" \in DOMAIN overrides
WorkerUses == IF MadeForController THEN {"autonomous_controller"} ELSE {"planner_queue_flow"}

Object(n) == IF n \in DOMAIN overrides THEN overrides[n] ELSE n

(* What a service is known to use: of objects that were brought, nothing.    *)
Uses(n) ==
    IF n \in DOMAIN overrides THEN {}
    ELSE IF n = "background_worker" THEN WorkerUses
    ELSE StubUses(n)

(* Ids without odd characters, and paths that stay under the data root, also *)
(* when their links are followed.                                            *)
Acceptable(config) == config.identifiers = "safe" /\ config.paths = {"inside"}

Init ==
    /\ phase = "called"
    /\ overrides \in Overridings
    /\ failing \in {{}} \cup (IF overrides = <<>> THEN {} ELSE {{Services[i]} : i \in DOMAIN Services})
    /\ built = <<>>
    /\ open = {overrides[n] : n \in DOMAIN overrides}
    /\ closed = FALSE
    /\ position = [t \in Closers \cup {Builder} |-> 0]
    /\ seen = [t \in Closers \cup {Builder} |-> {}]
    /\ views = {}
    /\ overlapped = FALSE /\ again = FALSE

-----------------------------------------------------------------------------
(* build_application                                                         *)

Begin(config) ==
    /\ phase = "called"
    /\ phase' = IF DOMAIN overrides \subseteq {Services[i] : i \in DOMAIN Services} /\ Acceptable(config)
                THEN "building" ELSE "refused"
    /\ UNCHANGED <<overrides, failing, built, views, close_vars>>

NextService == Services[Len(built) + 1]
Building == phase = "building" /\ Len(built) < Len(Services)

Construct ==
    /\ Building /\ NextService \notin failing
    /\ built' = Append(built, Object(NextService))
    /\ open' = open \cup {Object(NextService)}
    /\ UNCHANGED <<phase, overrides, failing, views, closed, position, seen, overlapped, again>>

(* An override is marked to fail here, or the queue of the worker's mission  *)
(* file cannot be read: what is registered is closed.                        *)
ConstructFails ==
    /\ Building
    /\ \/ NextService \in failing
       \/ NextService = "background_worker" /\ NextService \notin DOMAIN overrides /\ MadeForController
    /\ phase' = "failing"
    /\ position' = [position EXCEPT ![Builder] = Len(built)]
    /\ UNCHANGED <<overrides, failing, built, views, open, closed, seen, overlapped, again>>

Complete ==
    /\ phase = "building" /\ Len(built) = Len(Services)
    /\ phase' = "ready"
    /\ UNCHANGED <<overrides, failing, built, views, close_vars>>

-----------------------------------------------------------------------------
(* close()                                                                   *)

Closing(t) == position[t] > 0

BeginClose(t) ==
    /\ phase = "ready" /\ ~closed /\ t \in Closers /\ ~Closing(t)
    /\ position' = [position EXCEPT ![t] = Len(built)]
    /\ seen' = [seen EXCEPT ![t] = {}]
    /\ overlapped' = (overlapped \/ \E u \in Closers : Closing(u))
    /\ UNCHANGED <<phase, overrides, failing, built, views, open, closed, again>>

(* Mutant of CloseNext: in the order of construction.                        *)
CloseForwards(t) ==
    /\ Closing(t)
    /\ LET o == built[Len(built) + 1 - position[t]]
       IN  /\ seen' = [seen EXCEPT ![t] = @ \cup {o}]
           /\ IF o \in seen[t] \cup Refusing
              THEN UNCHANGED <<open, again>>
              ELSE open' = open \ {o} /\ again' = (again \/ (~overlapped /\ o \notin open))
    /\ position' = [position EXCEPT ![t] = @ - 1]
    /\ closed' = (closed \/ position[t] = 1)
    /\ phase' = IF t = Builder /\ position[t] = 1 THEN "failed" ELSE phase
    /\ UNCHANGED <<overrides, failing, built, views, overlapped>>

(* An object is closed once, at the last of the names it serves; one that    *)
(* refuses is passed over.  At the end the container is closed.              *)
CloseNext(t) ==
    /\ Closing(t)
    /\ LET o == built[position[t]]
       IN  /\ seen' = [seen EXCEPT ![t] = @ \cup {o}]
           /\ IF o \in seen[t] \cup Refusing
              THEN UNCHANGED <<open, again>>
              ELSE open' = open \ {o} /\ again' = (again \/ (~overlapped /\ o \notin open))
    /\ position' = [position EXCEPT ![t] = @ - 1]
    /\ closed' = (closed \/ position[t] = 1)
    /\ phase' = IF t = Builder /\ position[t] = 1 THEN "failed" ELSE phase
    /\ UNCHANGED <<overrides, failing, built, views, overlapped>>

(* The first service failed: there is nothing to close.                      *)
FailEmpty ==
    /\ phase = "failing" /\ built = <<>>
    /\ phase' = "failed" /\ closed' = TRUE
    /\ UNCHANGED <<overrides, failing, built, views, open, position, seen, overlapped, again>>

-----------------------------------------------------------------------------
(* for_project, also on a closed container.  The stub of the registry knows  *)
(* no projects and refuses none.                                             *)
ForProject(p) ==
    /\ phase = "ready"
    /\ "project_registry" \in DOMAIN overrides => p \in KnownProjects
    /\ views' = views \cup {p}
    /\ UNCHANGED <<phase, overrides, failing, built, close_vars>>

Next ==
    \/ \E c \in Configs : Begin(c)
    \/ Construct \/ ConstructFails \/ Complete \/ FailEmpty
    \/ \E t \in Closers \cup {Builder} : BeginClose(t) \/ CloseNext(t)
    \/ \E p \in Projects : ForProject(p)

Spec == Init /\ [][Next]_vars

-----------------------------------------------------------------------------
(* The inductive invariant of TornDownInOrder: before the first close() all  *)
(* that is registered is open; a thread that closes has left nothing behind  *)
(* it that could be closed, and what it has still to close is open while it  *)
(* is the only one; and an object that is closed went down at one of its     *)
(* places, after all that was made later.                                    *)
Places == 1..Len(Services)
CloserThreads == Closers \cup {Builder}
Down(o) == o \notin open \/ o \in Refusing

ContainerTypeOK ==
    /\ phase \in {"called", "refused", "building", "failing", "ready", "failed"}
    /\ built \in Seq({Object(Services[i]) : i \in Places})
    /\ Len(built) <= Len(Services)
    /\ \A i \in DOMAIN built : built[i] = Object(Services[i])
    /\ DOMAIN position = CloserThreads /\ \A t \in CloserThreads : position[t] \in 0..Len(built)
    /\ DOMAIN seen = CloserThreads
    /\ closed \in BOOLEAN /\ overlapped \in BOOLEAN /\ again \in BOOLEAN

NobodyCloses == \A t \in CloserThreads : ~Closing(t)

ClosedInPhase ==
    /\ phase \in {"called", "refused", "building"} => ~closed /\ NobodyCloses /\ seen[Builder] = {}
    /\ phase = "failing" => ~closed /\ (\A t \in Closers : ~Closing(t)) /\ (Closing(Builder) \/ built = <<>>)
    /\ phase = "ready" => ~Closing(Builder)
    /\ phase = "failed" => NobodyCloses

Untouched == ~closed /\ NobodyCloses => \A i \in DOMAIN built : built[i] \in open

LeftDown ==
    /\ \A t \in CloserThreads : Closing(t) =>
          /\ \A i \in DOMAIN built : i > position[t] => Down(built[i])
          /\ \A o \in seen[t] : Down(o)
    /\ closed => \A i \in DOMAIN built : Down(built[i])

Alone ==
    ~overlapped =>
        /\ \A t, u \in CloserThreads : Closing(t) /\ Closing(u) => t = u
        /\ \A t \in CloserThreads : \A i \in 1..position[t] : built[i] \in open \cup seen[t]

InOrder ==
    \A i \in DOMAIN built : built[i] \notin open =>
        \E j \in DOMAIN built : built[j] = built[i] /\ \A k \in j..Len(built) : Down(built[k])

TakenDown ==
    /\ ContainerTypeOK /\ ClosedInPhase /\ Untouched /\ LeftDown /\ Alone /\ InOrder
    /\ ~again

Registered == {Services[i] : i \in DOMAIN built}
Shared(o) == \E n, m \in Registered : n # m /\ Object(n) = o /\ Object(m) = o

(* Nothing is closed under a service that uses it: the services of a         *)
(* container go down in an order their uses allow, after a build that failed *)
(* half way as after a close(), also when several threads close at a time;   *)
(* and when the first of them is through each is closed that does not        *)
(* refuse.  No close() that begins later closes an object again.  Three      *)
(* exceptions: an object that serves two names goes down with the later one; *)
(* a controller that was brought goes down before the worker made for it;    *)
(* and two threads whose close() overlap both pass the test of _closed and   *)
(* may close every object twice.                                             *)
TornDownInOrder ==
    /\ \A n \in Registered : Object(n) \in open \ Refusing =>
          \A m \in Uses(n) \cap Registered :
             \/ Object(m) \in open
             \/ Shared(Object(m))
             \/ m = "autonomous_controller" /\ n = "background_worker"
    /\ closed => \A n \in Registered : Object(n) \in open => Object(n) \in Refusing
    /\ ~again
=============================================================================
