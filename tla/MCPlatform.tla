------------------------------ MODULE MCPlatform ------------------------------
(* The mission queue, and components that work beside it, each by itself: the  *)
(* runtime service and the container of the application, the mission runner,   *)
(* the patch engine and the autonomous controller, the supervisor of           *)
(* autonomous development, site operations, the technology registry, the       *)
(* registry and the memory of projects, and the chat gateway.  A behaviour is  *)
(* one of the component chosen at its start; the variables s1, s2... hold that *)
(* component's, in the order its module declares them.                         *)
EXTENDS MissionQueue, Sequences, TLC

CONSTANTS
    (* the mission runner                                                    *)
    RunnerMissions, Files, Deliverables, Tracked, UnderAgent, Ignored, MaxRepairs, MaxRuns,
    (* the runtime service, with the callers of the supervisor               *)
    AutoStart, StopOrder, MaxBuilds,
    (* the supervisor                                                        *)
    Callers, MissionPlan, DependsOn, Calculated, Requested, AutoMerge, AutoDeploy,
    MaxAttempts, MaxRetries,
    (* site operations                                                       *)
    Threads, Tasks, SiteApprovals, Cost, Budget, MaxTasks, MaxRegistrations,
    (* technologies                                                          *)
    Workers, Tools, Capabilities, Versions, Reasons,
    (* the registry of projects                                              *)
    RegistryProcesses, Projects, Times, MaxChanges, MaxFailures,
    (* patches, with MaxFailures                                             *)
    Paths, Patches,
    (* the autonomous controller                                             *)
    Branches, Protected, ControllerAttempts,
    (* the memory of a project, with the threads of the sites                *)
    Decisions, Accepted, Works, MaxWorks, Policies, Oversized, Supersedes, MaxRecords, MaxCalls,
    (* the chat gateway, with the same threads and MaxFailures               *)
    Conversations, Messages, Images, ImageContents,
    (* the container, with the projects of the registry                      *)
    Closers, Configs, Overridings, Refusing, KnownProjects

ASSUME RunnerAssumption ==
    /\ Deliverables \in [RunnerMissions -> SUBSET Files]
    /\ Ignored \cap Tracked = {}

ASSUME SitesAssumption ==
    /\ "nobody" \notin Threads
    /\ Cost \in [Tasks -> Int]
    /\ MaxRegistrations \in Nat

ASSUME RegistryAssumption == Times \subseteq Nat /\ "idle" \notin Projects

VARIABLES
    component,    (* the one this behaviour is of *)
    s1, s2, s3, s4, s5, s6, s7, s8, s9, s10, s11, s12, s13, s14

(* Missions of the queue are interchangeable, and so are threads: no operation *)
(* compares them.                                                             *)
Symmetry == Permutations(Missions) \cup Permutations(Threads) \cup Permutations(Capabilities)

(* Limits on both sides of zero: the code accepts any integer.               *)
MCRetryLimits == {-1, 1}

(* Two missions that deliver one file each of them alone and one both, and   *)
(* one with a file that is ignored.                                          *)
MCDeliverables ==
    [m \in {"m", "n", "o"} |-> IF m = "m" THEN {"f", "g"}
                               ELSE IF m = "n" THEN {"g", "h"} ELSE {"h", "i"}]

(* The worker is started with the runtime, the interface on request.         *)
MCAutoStart == <<"worker">>
MCStopOrder == <<"api", "worker">>

(* The second mission depends on the first.                                  *)
MCPlan == <<"m", "n">>
MCDependsOn == [m \in {"m", "n"} |-> IF m = "n" THEN {"m"} ELSE {}]

MCSupersedes == [d \in {"d", "e", "o"} |-> IF d = "e" THEN {"d"} ELSE {}]

MCCost == [t \in {"x", "z"} |-> 1]

(* A project whose paths are inside the root, and one with a path outside.   *)
MCConfigs ==
    {[identifiers |-> "safe", paths |-> {"inside"}],
     [identifiers |-> "safe", paths |-> {"inside", "outside"}]}

(* Services a build is given: none, one, two, one under a name the container *)
(* has no place for, and one whose close() raises.                           *)
MCOverridings ==
    {<<>>,
     [n \in {"autonomous_controller"} |-> "own"],
     [n \in {"budget_store", "private_admin_api"} |-> "own"],
     [n \in {"project_registry", "elsewhere"} |-> "own"],
     [n \in {"project_registry"} |-> "other"]}

(* Patches: a file made and one changed; two changes of one file; a file     *)
(* renamed and another removed; a file that is made with lines to remove; a  *)
(* change outside of the repository.                                         *)
Make == [old |-> "/dev/null", new |-> "g", context |-> {}, removes |-> {}, adds |-> {"d"}]
Remake == [Make EXCEPT !.removes = {"base"}]
Replace == [old |-> "f", new |-> "f", context |-> {"rest"}, removes |-> {"base"}, adds |-> {"c"}]
Extend == [old |-> "f", new |-> "f", context |-> {}, removes |-> {}, adds |-> {"e"}]
Rename == [Replace EXCEPT !.new = "g"]
Remove == [old |-> "g", new |-> "/dev/null", context |-> {}, removes |-> {"base", "rest"},
           adds |-> {}]
MCPatches ==
    {<<Make, Replace>>, <<Replace, Extend>>, <<Rename, Remove>>, <<Extend, Remake>>,
     <<Replace, [Extend EXCEPT !.old = "outside"]>>}

Service == INSTANCE RuntimeService WITH
    Order <- StopOrder, state <- s1, container <- s2, flag <- s3, builds <- s4,
    active <- s5, pc <- s6, held <- s7, todo <- s8, captured <- s9, crossed <- s10,
    stubborn <- s11

ASSUME ServiceAssumption == AutoStart \in Seq(Service!Components)

Runner == INSTANCE MissionRunner WITH
    Missions <- RunnerMissions, tree <- s1, head <- s2, definitions <- s3,
    mission <- s4, pc <- s5, round <- s6, left <- s7, validated <- s8,
    branch <- s9, pushed <- s10, runs <- s11, added <- s12

Supervisor == INSTANCE DevelopmentSupervisor WITH
    Plan <- MissionPlan, status <- s1, missions <- s2, stored_risk <- s3, approvals <- s4,
    requested <- s5, pc <- s6, mine <- s7, merges <- s8, sought <- s9,
    warned <- s10

ASSUME SupervisorAssumption ==
    /\ MissionPlan \in Seq(Supervisor!Planned)
    /\ Calculated \subseteq Supervisor!Levels
    /\ Requested \subseteq Supervisor!Levels \cup {Supervisor!Unasked}

Sites == INSTANCE SiteOperations WITH
    NeedsApproval <- SiteApprovals, current <- s1, last <- s2, automatic <- s3, observed <- s4,
    findings <- s5, task <- s6, eligible <- s7, manager_lock <- s8,
    project_lock <- s9, pc <- s10, mine <- s11, submissions <- s12,
    rejected <- s13, late <- s14

Technology == INSTANCE TechnologyLifecycle WITH
    file <- s1, memory <- s2, doing <- s3, queue <- s4, report <- s5,
    merged <- s6

Memory == INSTANCE ProjectMemory WITH
    log <- s1, handoff <- s2, pc <- s3, mine <- s4, begun <- s5, asked <- s6,
    due <- s7, overlapped <- s8

ASSUME MemoryAssumption ==
    /\ Policies \cap (Decisions \cup Works) = {} /\ Decisions \cap Works = {}
    /\ Accepted \subseteq Decisions /\ MaxWorks \in Nat
    /\ "truncated" \notin Memory!Recordable

Registry == INSTANCE ProjectRegistry WITH
    Processes <- RegistryProcesses, file <- s1, memory <- s2, latest <- s3, pc <- s4,
    changes <- s5, failures <- s6, told <- s7, unwritten <- s8, stale <- s9, apart <- s10

Chat == INSTANCE ChatGateway WITH
    Contents <- ImageContents,
    chats <- s1, images <- s2, chats_file <- s3, images_file <- s4,
    bytes <- s5, queued <- s6, up <- s7, pc <- s8, mine <- s9,
    failures <- s10, told <- s11, forced <- s12, raced <- s13

ASSUME ChatAssumption ==
    Chat!Nothing \notin Messages \cup Images \cup ImageContents

Container == INSTANCE ApplicationContainer WITH
    phase <- s1, overrides <- s2, failing <- s3, built <- s4, open <- s5, closed <- s6,
    position <- s7, seen <- s8, views <- s9, overlapped <- s10,
    again <- s11

ASSUME ContainerAssumption == Container!Builder \notin Closers

Patching == INSTANCE PatchEngine WITH
    files <- s1, phase <- s2, patch <- s3, dry <- s4, i <- s5,
    previews <- s6, backups <- s7, applied <- s8, failures <- s9,
    before <- s10, edited <- s11, unrestored <- s12

ASSUME PatchAssumption ==
    \A text \in Patches :
        /\ text \in Seq({text[k] : k \in DOMAIN text})
        /\ \A k \in DOMAIN text : "absent" \notin text[k].adds

Controller == INSTANCE AutonomousController WITH
    MaxAttempts <- ControllerAttempts, branch <- s1, status <- s2,
    attempt <- s3, stage <- s4, error <- s5, answers <- s6, reports <- s7,
    tree <- s8, reviewed <- s9, commits <- s10, pushed <- s11

-----------------------------------------------------------------------------
(* A component with n variables leaves those after the n-th at 0.            *)

After13 == <<s14>>
After12 == <<s13, After13>>
After11 == <<s12, After12>>
After10 == <<s11, After11>>
After8 == <<s9, s10, After10>>
After6 == <<s7, s8, After8>>
After0 == <<s1, s2, s3, s4, s5, s6, After6>>

Blank13 == s14 = 0
Blank12 == s13 = 0 /\ Blank13
Blank11 == s12 = 0 /\ Blank12
Blank10 == s11 = 0 /\ Blank11
Blank8 == s9 = 0 /\ s10 = 0 /\ Blank10
Blank6 == s7 = 0 /\ s8 = 0 /\ Blank8
Blank0 == s1 = 0 /\ s2 = 0 /\ s3 = 0 /\ s4 = 0 /\ s5 = 0 /\ s6 = 0 /\ Blank6

Idle == missions = <<>> /\ next_seq = 1

AnyInit ==
    \/ component = "queue" /\ Init /\ Blank0
    \/ component = "service" /\ Service!Init /\ Idle /\ Blank11
    \/ component = "runner" /\ Runner!Init /\ Idle /\ Blank12
    \/ component = "supervisor" /\ Supervisor!Init /\ Idle /\ Blank10
    \/ component = "sites" /\ Sites!Init /\ Idle
    \/ component = "technology" /\ Technology!Init /\ Idle /\ Blank6
    \/ component = "memory" /\ Memory!Init /\ Idle /\ Blank8
    \/ component = "projects" /\ Registry!Init /\ Idle /\ Blank10
    \/ component = "chat" /\ Chat!Init /\ Idle /\ Blank13
    \/ component = "container" /\ Container!Init /\ Idle /\ Blank11
    \/ component = "patching" /\ Patching!Init /\ Idle /\ Blank12
    \/ component = "controller" /\ Controller!Init /\ Idle /\ Blank11

AnyNext ==
    /\ UNCHANGED component
    /\ \/ component = "queue" /\ Next /\ UNCHANGED After0
       \/ component = "service" /\ Service!Next /\ UNCHANGED <<queue_vars, After11>>
       \/ component = "runner" /\ Runner!Next /\ UNCHANGED <<queue_vars, After12>>
       \/ component = "supervisor" /\ Supervisor!Next /\ UNCHANGED <<queue_vars, After10>>
       \/ component = "sites" /\ Sites!Next /\ UNCHANGED <<queue_vars>>
       \/ component = "technology" /\ Technology!Next /\ UNCHANGED <<queue_vars, After6>>
       \/ component = "memory" /\ Memory!Next /\ UNCHANGED <<queue_vars, After8>>
       \/ component = "projects" /\ Registry!Next /\ UNCHANGED <<queue_vars, After10>>
       \/ component = "chat" /\ Chat!Next /\ UNCHANGED <<queue_vars, After13>>
       \/ component = "container" /\ Container!Next /\ UNCHANGED <<queue_vars, After11>>
       \/ component = "patching" /\ Patching!Next /\ UNCHANGED <<queue_vars, After12>>
       \/ component = "controller" /\ Controller!Next /\ UNCHANGED <<queue_vars, After11>>

(* The gateway is not followed past the end of its conversation, which changes *)
(* nothing for the images; site operations not past two observations, of one   *)
(* registration or of both; a technology not past an evaluation that does not  *)
(* recommend it, nor a mission past its retry, which counts as its failure;    *)
(* nor the memory of a project past two records that are not all works or all  *)
(* policies, whose order matters.                                              *)
Explored ==
    /\ component = "chat" => \A c \in Conversations : s1.status[c] \in {"nothing", "active"}
    /\ component = "memory" =>
          \/ Len(s6) <= 2
          \/ {Memory!Kind(s6[i]) : i \in DOMAIN s6} \in {{"work"}, {"policy"}}
    /\ component = "sites" =>
          /\ Cardinality({o \in Sites!Registrations \X Tasks : o[2] \in s4[o[1]]}) <= 2
          /\ s2 = 2 => s3[2]
    /\ component = "technology" =>
          /\ \A v \in Versions : s5[Technology!Evaluation(v)] \in {"none", "merged"}
          /\ \A m \in Technology!LifecycleMissions : s5[m] # "retrying"
          /\ \A p \in Technology!Processes : s2[p].assimilation # "none" \/ s2[p].evaluated = <<>>

AnySpec == AnyInit /\ [][AnyNext]_<<component, queue_vars, After0>>

-----------------------------------------------------------------------------
(* Runtime service: what the status says of a component is so, and none runs *)
(* on in a container that was replaced.                                      *)
ComponentsAttended == component = "service" => Service!ComponentsAttended

(* Mission runner: what is pushed is what was validated, but for ignored     *)
(* files.                                                                    *)
PushedIsWhatPassed == component = "runner" => Runner!PushedIsWhatPassed

(* Supervisor: what is merged was validated, and approved where it had to be. *)
MergedWasCleared == component = "supervisor" => Supervisor!MergedWasCleared

(* Site operations: of one registration of its project a task is submitted   *)
(* once, and never after its rejection.                                      *)
SubmittedOnce == component = "sites" => Sites!SubmittedOnce

(* Technology: what was replaced had each capability merged into main.       *)
ReplacedIsNative == component = "technology" => Technology!ReplacedIsNative

(* Project memory: a handoff shows the accepted decisions and the works that *)
(* were recorded before it, as far as its lists reach, and the latest policy. *)
HandedOver == component = "memory" => Memory!HandedOver

(* Project registry: what a caller was told of a project is kept by processes *)
(* that take turns.                                                          *)
ToldIsKept == component = "projects" => Registry!ToldIsKept

(* Chat: the content of an image attached to a message can be read.          *)
AttachedIsReadable == component = "chat" => Chat!AttachedIsReadable

(* Application: what was built is closed, dependents before what they use,   *)
(* and not again by a later call.                                            *)
TornDownInOrder == component = "container" => Container!TornDownInOrder

(* Patches: one is applied as a whole or not at all.                         *)
WholeOrNothing == component = "patching" => Patching!WholeOrNothing

(* Autonomous controller: what is committed was approved by the review.      *)
CommittedWasReviewed == component = "controller" => Controller!CommittedWasReviewed
===============================================================================
