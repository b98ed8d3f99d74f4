-------------------------- MODULE MCRequestServices ---------------------------
(* The components a request meets between the private API and the queue, each *)
(* by itself: the mission queue, enqueue_batch, the request flow, the limiter, *)
(* the store and the evaluation of budgets, the registry of models and the     *)
(* choice of a provider, the bookkeeping of executions, their files, the usage *)
(* ledger, and the HTTP server in front of them.  A behaviour is one of the    *)
(* component chosen at its start; the variables s1, s2... hold that            *)
(* component's, in the order its module declares them, so one run checks all   *)
(* of them.                                                                    *)
EXTENDS DependencyDfs, FiniteSets

CONSTANTS
    BatchIds, LastSeq,     (* ids callers of enqueue_batch give their missions *)
    BatchCallers, CallBatches, RetryLimit, MaxRecoveries, MaxCallCrashes,
    ClientRequests, ApiThreads, PlannedIds, MaxSends, MaxApiRestarts,
    Spenders, Estimate, Priced, Spent, Days, PerRequest, Daily, Monthly,
    ServiceProcesses,      (* processes with a coordinator or a ledger        *)
    ServiceThreads,        (* threads of budget stores and of coordinators    *)
    LimiterThreads, ModelThreads,
    ProcessOf,             (* the process of each of these threads            *)
    LimitedRequests, LimiterConfigs, LimiterChanges, MaxClock,
    MaxSaves, MaxStoreCrashes,
    ModelNames, Chains, Suited, MaxCalls,
    Executions, MaxDeaths,
    RoutedCalls, Providers, Native, Rank, Capabilities, Provides, Threshold,
    RecordWorkers, Readers, Attempts, MissionOf, Queries,
    LastSequence, MaxRuns, MaxSecond, MaxRecordFailures,
    Usages, MaxLedgerFailures,
    Owners, Handlers, Lifecycle, MaxServers

VARIABLES
    component,    (* the one this behaviour is of *)
    s1, s2, s3, s4, s5, s6, s7, s8, s9, s10, s11, s12, s13, s14, s15, s16,
    s17, s18, s19, s20, s21, s22

(* Dependency graphs: all of up to four missions, and all of three that may  *)
(* depend on a fourth the queue does not hold.                               *)
MCNodes == 1..4
MCKnownSets == {1..4, 1..3}

(* Two batches; one with a repeated id is refused; a batch of the second     *)
(* call may depend on a mission of the first, which depends on another.      *)
Item(m, D) == [id |-> m, dependencies |-> D]
TwoCalls ==
    [s \in {"s1", "s2"} |->
        IF s = "s1"
        THEN {<<Item("m1", {}), Item("m2", {"m1"}), Item("m3", {})>>}
        ELSE {<<Item("m4", {})>>, <<Item("m4", {}), Item("m4", {})>>,
              <<Item("m4", {"m2"})>>}]

(* Two threads of one process and one of another.                            *)
MCProcessOf == [t \in {"a", "b", "c"} |-> IF t = "c" THEN "q" ELSE "p"]
MCMaxDeaths == [p \in {"p", "q"} |-> IF p = "p" THEN 2 ELSE 1]

(* A limit of one request, switched off, and on again with a longer window.   *)
MCLimiterConfigs == {[capacity |-> 1, window |-> 1, enabled |-> TRUE]}
MCLimiterChanges == {[enabled |-> FALSE], [enabled |-> TRUE, window |-> 2]}

(* Two models and one assignment of both.                                    *)
MCChains == {<<"m", "n">>}

(* Two providers of one capability; the native one has the later rank.       *)
MCRank == [p \in {"n", "x"} |-> IF p = "n" THEN 2 ELSE 1]
MCProvides == [p \in {"n", "x"} |-> {"c"}]

(* One request is sent twice, another once.                                  *)
MCMaxSends == [r \in {"r1", "r2"} |-> IF r = "r1" THEN 2 ELSE 1]

(* Estimates below, at and above the limit of a request.                     *)
MCEstimate == [r \in {"r1", "r2", "r3", "r4"} |->
                 CASE r = "r1" -> 1 [] r \in {"r2", "r3"} -> 2 [] r = "r4" -> 3]

(* Two attempts of one mission and one of another.                           *)
MCMissionOf == [a \in {"m.0", "m.1", "n.0"} |-> IF a = "n.0" THEN "n" ELSE "m"]
MCQueries == {{"m"}, {"m", "n"}}

Adapter == INSTANCE RequestQueueAdapter WITH
    Missions <- BatchIds, MaxSeq <- LastSeq, Submitters <- BatchCallers,
    Batches <- CallBatches, MaxCrashes <- MaxCallCrashes, missions <- s1, next_seq <- s2,
    definitions <- s3, phase <- s4, batch <- s5, position <- s6,
    enqueued <- s7, claimed <- s8, blind <- s9, torn <- s10,
    recoveries <- s11, crashes <- s12

Flow == INSTANCE RequestFlow WITH
    Requests <- ClientRequests, Threads <- ApiThreads, Missions <- PlannedIds,
    MaxRestarts <- MaxApiRestarts, MaxRecoveries <- 0,
    RetryLimit <- 0, missions <- s1, next_seq <- s2, definitions <- s3,
    phase <- s4, batch <- s5, position <- s6, enqueued <- s7,
    claimed <- s8, blind <- s9, torn <- s10, recoveries <- s11,
    crashes <- s12, pc <- s13, request <- s14, seen <- s15,
    limiting <- s16, registered <- s17, origin <- s18, sends <- s19,
    accepted <- s20, raced <- s21, restarts <- s22

Limiter == INSTANCE ProviderRateLimiter WITH
    Threads <- LimiterThreads, Requests <- LimitedRequests,
    Configs <- LimiterConfigs, Changes <- LimiterChanges, clock <- s1,
    file <- s2, mutex <- s3, stuck <- s4, lock <- s5, pc <- s6, call <- s7,
    seen <- s8, granted <- s9, terms <- s10, wiped <- s11

Store == INSTANCE BudgetConfigStore WITH
    Threads <- ServiceThreads, MaxCrashes <- MaxStoreCrashes, configs <- s1,
    memory <- s2, flock <- s3, handle <- s4, owner <- s5, pc <- s6, op <- s7,
    base <- s8, closed <- s9, saves <- s10, crashes <- s11, mixed <- s12,
    lost <- s13

Evaluation == INSTANCE BudgetEvaluation WITH
    Requests <- Spenders, Usages <- Spent, budget <- s1, today <- s2, ledger <- s3, pc <- s4, day <- s5,
    daily <- s6, monthly <- s7, known <- s8, excused <- s9

Models == INSTANCE ProviderModelRegistry WITH
    Threads <- ModelThreads, Models <- ModelNames, memory <- s1, disk <- s2,
    pc <- s3, call <- s4, copy <- s5, before <- s6, calls <- s7,
    off <- s8, crossed <- s9

Outcomes == INSTANCE ExecutionOutcomes WITH
    Processes <- ServiceProcesses, Workers <- ServiceThreads,
    MaxRestarts <- MaxDeaths,
    pc <- s1, outcome <- s2, inflight <- s3, results <- s4, usage <- s5,
    reported <- s6, holder <- s7, owner <- s8, leaked <- s9,
    rewritten <- s10, shared <- s11, restarts <- s12

Routing == INSTANCE CapabilityRouting WITH
    Calls <- RoutedCalls, registered <- s1, state <- s2, failures <- s3,
    pc <- s4, left <- s5, asked <- s6, gaps <- s7, out <- s8, reopened <- s9,
    late <- s10, passed <- s11

Records == INSTANCE ExecutionRecords WITH
    Workers <- RecordWorkers, MaxFailures <- MaxRecordFailures, pc <- s1,
    attempt <- s2, run <- s3, sequence <- s4, stamp <- s5, records <- s6,
    files <- s7, doing <- s8, told <- s9, withdrawn <- s10, runs <- s11,
    second <- s12, failures <- s13

Ledger == INSTANCE UsageLedger WITH
    Processes <- ServiceProcesses, MaxFailures <- MaxLedgerFailures,
    file <- s1, tmp <- s2, lock <- s3, events <- s4, pc <- s5,
    usage <- s6, data <- s7, failures <- s8, crossed <- s9

Api == INSTANCE RuntimeApi WITH
    server <- s1, made <- s2, bound <- s3, thread <- s4,
    serves <- s5, requested <- s6, down <- s7, owner <- s8, has <- s9,
    running <- s10, handler <- s11, route <- s12, result <- s13,
    effect <- s14, halted <- s15, stopped <- s16, crossed <- s17

(* The builder gives every mission an id of its own and orders a plan so     *)
(* that dependencies go before their dependents.                             *)
ASSUME BatchAssumption ==
    \A s \in BatchCallers : \A b \in CallBatches[s] :
        /\ b \in Seq([id : BatchIds, dependencies : SUBSET BatchIds])
        /\ \A i, j \in DOMAIN b : i <= j => b[j].id \notin b[i].dependencies
        /\ \A t \in BatchCallers \ {s} : \A c \in CallBatches[t] :
              \A i \in DOMAIN b, j \in DOMAIN c : b[i].id # c[j].id

(* The names of nobody are nobody's.  The ids of planned missions are points *)
(* in time.                                                                  *)
ASSUME FlowAssumption ==
    /\ Flow!None \notin ClientRequests
    /\ IsFiniteSet(ApiThreads)
    /\ IsFiniteSet(PlannedIds) /\ PlannedIds \subseteq Nat

(* What a request uses, and the limits, are counted in tokens, or in the     *)
(* smallest unit of money.                                                   *)
ASSUME EvaluationAssumption ==
    /\ Estimate \in [Spenders -> Nat] /\ Spent \subseteq Nat
    /\ Days \subseteq Nat
    /\ Daily \in Nat /\ Monthly \in Nat

(* What the limiter validates of a configuration, and of one with changes:   *)
(* windows are positive, a burst limit may be zero.  The names of nobody are *)
(* nobody's.                                                                 *)
ASSUME LimiterAssumption ==
    /\ Limiter!NoOne \notin LimiterThreads
    /\ LimiterConfigs \subseteq Limiter!Valid
    /\ \A c \in LimiterChanges :
          /\ "capacity" \in DOMAIN c => c["capacity"] \in Nat
          /\ "window" \in DOMAIN c => c["window"] \in Nat \ {0}
          /\ "enabled" \in DOMAIN c => c["enabled"] \in BOOLEAN
ASSUME StoreAssumption == Store!Nobody \notin ServiceThreads
ASSUME ModelsAssumption ==
    Chains \subseteq Seq(ModelNames) /\ Models!NoModel \notin ModelNames
ASSUME OutcomesAssumption ==
    /\ \A t \in ServiceThreads : ProcessOf[t] \in ServiceProcesses
    /\ Outcomes!Nobody \notin ServiceProcesses
ASSUME LedgerAssumption == Ledger!Free \notin ServiceProcesses /\ Usages # {}
ASSUME ApiAssumption == MaxServers \in Nat
ASSUME RecordsAssumption ==
    LastSequence \in Nat /\ Queries \subseteq SUBSET Records!Missions
ASSUME RoutingAssumption ==
    Native \subseteq Providers /\ Rank \in [Providers -> Nat] /\ Threshold \in Nat \ {0}

-----------------------------------------------------------------------------
(* A component with n variables leaves those after the n-th at 0.            *)

After17 == <<s18, s19, s20, s21, s22>>
After13 == <<s14, s15, s16, s17, After17>>
After12 == <<s13, After13>>
After11 == <<s12, After12>>
After9 == <<s10, s11, After11>>
After0 == <<s1, s2, s3, s4, s5, s6, s7, s8, s9, After9>>

Blank17 == s18 = 0 /\ s19 = 0 /\ s20 = 0 /\ s21 = 0 /\ s22 = 0
Blank13 == s14 = 0 /\ s15 = 0 /\ s16 = 0 /\ s17 = 0 /\ Blank17
Blank12 == s13 = 0 /\ Blank13
Blank11 == s12 = 0 /\ Blank12
Blank9 == s10 = 0 /\ s11 = 0 /\ Blank11
Blank0 == s1 = 0 /\ s2 = 0 /\ s3 = 0 /\ s4 = 0 /\ s5 = 0 /\ s6 = 0 /\ s7 = 0
    /\ s8 = 0 /\ s9 = 0 /\ Blank9

Idle == missions = <<>> /\ color = <<>> /\ stack = <<>> /\ verdict = "none" /\ path = <<>>

AnyInit ==
    \/ component = "search" /\ Init /\ Blank0
    \/ component = "adapter" /\ Adapter!Init /\ Idle /\ Blank12
    \/ component = "flow" /\ Flow!Init /\ Idle
    \/ component = "limiter" /\ Limiter!Init /\ Idle /\ Blank11
    \/ component = "store" /\ Store!Init /\ Idle /\ Blank13
    \/ component = "evaluation" /\ Evaluation!Init /\ Idle /\ Blank9
    \/ component = "models" /\ Models!Init /\ Idle /\ Blank9
    \/ component = "outcomes" /\ Outcomes!Init /\ Idle /\ Blank12
    \/ component = "routing" /\ Routing!Init /\ Idle /\ Blank11
    \/ component = "records" /\ Records!Init /\ Idle /\ Blank13
    \/ component = "ledger" /\ Ledger!Init /\ Idle /\ Blank9
    \/ component = "api" /\ Api!Init /\ Idle /\ Blank17

AnyNext ==
    /\ UNCHANGED component
    /\ \/ component = "search" /\ Next /\ UNCHANGED After0
       \/ component = "adapter" /\ Adapter!Next /\ UNCHANGED <<vars, After12>>
       \/ component = "flow" /\ Flow!Next /\ UNCHANGED <<vars>>
       \/ component = "limiter" /\ Limiter!Next /\ UNCHANGED <<vars, After11>>
       \/ component = "store" /\ Store!Next /\ UNCHANGED <<vars, After13>>
       \/ component = "evaluation" /\ Evaluation!Next /\ UNCHANGED <<vars, After9>>
       \/ component = "models" /\ Models!Next /\ UNCHANGED <<vars, After9>>
       \/ component = "outcomes" /\ Outcomes!Next /\ UNCHANGED <<vars, After12>>
       \/ component = "routing" /\ Routing!Next /\ UNCHANGED <<vars, After11>>
       \/ component = "records" /\ Records!Next /\ UNCHANGED <<vars, After13>>
       \/ component = "ledger" /\ Ledger!Next /\ UNCHANGED <<vars, After9>>
       \/ component = "api" /\ Api!Next /\ UNCHANGED <<vars, After17>>

AnySpec == AnyInit /\ [][AnyNext]_<<component, vars, After0>>

(* The limiter is not followed past a reader's wiping a configured limit, the  *)
(* registry past two changes that crossed, nor the budget store past two       *)
(* threads that entered its lock together (s11, s9 and s12): what they promise *)
(* is over.                                                                    *)
Explored ==
    /\ component = "limiter" => ~s11
    /\ component = "models" => ~s9
    /\ component = "store" => s12 = {}

-----------------------------------------------------------------------------
(* enqueue_batch: an accepted batch is queued as a whole, and never claimed   *)
(* without its definitions; a rejected one leaves only what was claimed.     *)
BatchIsAtomic == component = "adapter" => Adapter!BatchIsAtomic

(* Request flow: a request is queued once, unless its id was forgotten or    *)
(* raced, and a client can follow an accepted one for ever.                  *)
RequestsAreTracked == component = "flow" => Flow!RequestsAreTracked

(* Limiter: no window holds more admissions than the capacity.               *)
NeverOvercommitted == component = "limiter" => Limiter!NeverOvercommitted

(* Budget store: no saved configuration is overwritten unseen.               *)
NoLostUpdate == component = "store" => Store!NoLostUpdate

(* Budget checks: usage within estimates overspends only for a known reason. *)
OverspentForAReason == component = "evaluation" => Evaluation!OverspentForAReason

(* Model registry: no model that was disabled is chosen for a task.          *)
DisabledIsNotChosen == component = "models" => Models!DisabledIsNotChosen

(* Outcomes: an execution is processed once in the life of a coordinator, a  *)
(* report on the disk replaced only by threads that share the lock.          *)
OutcomesAreFinal == component = "outcomes" => Outcomes!OutcomesAreFinal

(* Providers: one that failed again and again is isolated.                   *)
CircuitStaysOpen == component = "routing" => Routing!CircuitStaysOpen

(* Records: a report that was in place, or told of, is not missed.           *)
AnswersAreRecent == component = "records" => Records!AnswersAreRecent

(* Usage: what was recorded is in the ledger, once.                          *)
RecordedOnce == component = "ledger" => Ledger!RecordedOnce

(* Runtime API: what a client is answered is what became of its call.        *)
AnswersAreTrue == component = "api" => Api!AnswersAreTrue
===============================================================================
