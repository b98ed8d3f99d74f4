-------------------------- MODULE CapabilityRouting -------------------------
(***************************************************************************)
(* Routing of capabilities: agent/resilience/capability_kernel.py.  A call *)
(* is given to the providers of its capability one after the other, native *)
(* ones first, until one of them does not raise; a provider that fails too *)
(* often in a row is isolated and left out of later calls.  Calls run at   *)
(* the same time, and nothing guards the health of a provider.             *)
(***************************************************************************)
EXTENDS Naturals

CONSTANTS
    Calls,          (* threads, each with a call at a time                    *)
    Providers, Native,
    Rank,           (* of each provider, by priority and id                   *)
    Capabilities,
    Provides,       (* the capabilities of each provider                      *)
    Threshold

VARIABLES
    registered,
    state, failures,     (* CapabilityHealth of each provider                 *)
    pc, left,            (* of each call: where it is, the providers to try   *)
    asked,               (* the capability of each call                       *)
    gaps,                (* capabilities a replacement mission was built for  *)
    out,                 (* history: providers that were isolated             *)
    reopened,            (* history: those a call in flight took out of it    *)
    late,                (* history: calls whose provider was isolated since
                            they found that it was not                        *)
    passed               (* history: providers each call began without or saw fail *)

health_vars == <<state, failures>>
call_vars == <<pc, left, asked, passed>>
history_vars == <<out, reopened, late>>
vars == <<registered, health_vars, call_vars, gaps, history_vars>>

NoCapability == "none"

Init ==
    /\ registered = {}
    /\ state = [p \in Providers |-> "healthy"]
    /\ failures = [p \in Providers |-> 0]
    /\ pc = [t \in Calls |-> "idle"]
    /\ left = [t \in Calls |-> {}]
    /\ asked = [t \in Calls |-> NoCapability]
    /\ gaps = {} /\ out = {} /\ reopened = {} /\ late = {}
    /\ passed = [t \in Calls |-> {}]

Register(p) ==
    /\ p \notin registered
    /\ registered' = registered \cup {p}
    /\ UNCHANGED <<health_vars, call_vars, gaps, history_vars>>

-----------------------------------------------------------------------------
(* CapabilityRegistry                                                        *)

Available(c) ==
    {p \in registered : c \in Provides[p] /\ state[p] \notin {"unavailable", "isolated"}}

(* The order providers_for sorts by: native ones first, then by rank.        *)
Sooner(p, q) ==
    \/ p \in Native /\ q \notin Native
    \/ (p \in Native <=> q \in Native) /\ Rank[p] <= Rank[q]

-----------------------------------------------------------------------------
(* FallbackRouter                                                            *)

Go(t, place, rest) == pc' = [pc EXCEPT ![t] = place] /\ left' = [left EXCEPT ![t] = rest]

(* What is available is read once; when there is nothing the call raises.    *)
Begin(t, c) ==
    /\ pc[t] = "idle"
    /\ Available(c) # {}
    /\ Go(t, "execute", Available(c))
    /\ asked' = [asked EXCEPT ![t] = c]
    /\ passed' = [passed EXCEPT ![t] = {p \in Providers : c \in Provides[p]} \ Available(c)]
    /\ UNCHANGED <<registered, health_vars, gaps, history_vars>>

Trying(t) == CHOOSE p \in left[t] : \A q \in left[t] : Sooner(p, q)

Return(t) ==
    /\ Go(t, "idle", {})
    /\ asked' = [asked EXCEPT ![t] = NoCapability]
    /\ passed' = [passed EXCEPT ![t] = {}]

(* The provider answers: record_success resets the count...                  *)
ResetFailures(t) ==
    /\ pc[t] = "execute"
    /\ failures' = [failures EXCEPT ![Trying(t)] = 0]
    /\ pc' = [pc EXCEPT ![t] = "answered"]
    /\ UNCHANGED <<registered, state, left, asked, passed, gaps, history_vars>>

(* Mutant of LookIsolated: it is not looked at.                              *)
LookAway(t) ==
    /\ pc[t] = "answered"
    /\ pc' = [pc EXCEPT ![t] = "well"]
    /\ UNCHANGED <<registered, health_vars, left, asked, passed, gaps, history_vars>>

(* ...and looks whether the provider is isolated...                          *)
LookIsolated(t) ==
    /\ pc[t] = "answered"
    /\ IF state[Trying(t)] = "isolated"
       THEN Return(t)
       ELSE pc' = [pc EXCEPT ![t] = "well"] /\ UNCHANGED <<left, asked, passed>>
    /\ UNCHANGED <<registered, health_vars, gaps, history_vars>>

(* ...and when it was not, it is well by now, whatever it has become.        *)
RecordSuccess(t) ==
    /\ pc[t] = "well"
    /\ state' = [state EXCEPT ![Trying(t)] = "healthy"]
    /\ reopened' = IF t \in late THEN reopened \cup {Trying(t)} ELSE reopened
    /\ late' = late \ {t}
    /\ Return(t)
    /\ UNCHANGED <<registered, failures, gaps, out>>

(* The calls that are about to make well what is being isolated.             *)
About(p) == {t \in Calls : pc[t] = "well" /\ Trying(t) = p}

(* It raises: record_failure counts this, and then looks at the count, which *)
(* other calls may have changed; the next provider is tried.                 *)
CountFailure(t) ==
    /\ pc[t] = "execute"
    /\ failures[Trying(t)] <= Threshold       (* bound: none counts further    *)
    /\ failures' = [failures EXCEPT ![Trying(t)] = @ + 1]
    /\ pc' = [pc EXCEPT ![t] = "failed"]
    /\ UNCHANGED <<registered, state, left, asked, passed, gaps, history_vars>>

RecordFailure(t) ==
    /\ pc[t] = "failed"
    /\ LET p == Trying(t)
           new == IF failures[p] >= Threshold THEN "isolated" ELSE "degraded"
       IN  /\ state' = [state EXCEPT ![p] = new]
           /\ IF new = "isolated"
              THEN out' = out \cup {p} /\ reopened' = reopened \ {p} /\ late' = late \cup About(p)
              ELSE /\ reopened' = IF state[p] = "isolated" THEN reopened \cup {p} ELSE reopened
                   /\ UNCHANGED <<out, late>>
           /\ IF left[t] = {p}
              THEN Return(t)
              ELSE /\ Go(t, "execute", left[t] \ {p})
                   /\ passed' = [passed EXCEPT ![t] = @ \cup {p}]
                   /\ UNCHANGED asked
    /\ UNCHANGED <<registered, failures, gaps>>

(* By hand                                                                   *)
Isolate(p) ==
    /\ p \in registered
    /\ state' = [state EXCEPT ![p] = "isolated"]
    /\ out' = out \cup {p} /\ reopened' = reopened \ {p} /\ late' = late \cup About(p)
    /\ UNCHANGED <<registered, failures, call_vars, gaps>>

(* CapabilityGapDetector and ReplacementMissionFactory: a native provider    *)
(* that is isolated for now counts as none.                                  *)
DetectGap(c) ==
    /\ Available(c) \cap Native = {}
    /\ gaps' = gaps \cup {c}
    /\ UNCHANGED <<registered, health_vars, call_vars, history_vars>>

Next ==
    \/ \E p \in Providers : Register(p) \/ Isolate(p)
    \/ \E t \in Calls : \/ ResetFailures(t) \/ LookIsolated(t) \/ RecordSuccess(t)
                        \/ CountFailure(t) \/ RecordFailure(t)
                        \/ \E c \in Capabilities : Begin(t, c)
    \/ \E c \in Capabilities : DetectGap(c)

Spec == Init /\ [][Next]_vars

-----------------------------------------------------------------------------
(* A provider that failed as often in a row as the breaker allows is         *)
(* isolated, as soon as none of its failures is still being recorded; one    *)
(* that was isolated stays so, whatever calls it was in by then; and no call *)
(* gets to an external provider before each native one was out or failed.    *)
(* The exceptions: the failure of a call that had begun before takes out of  *)
(* isolation a provider that has not failed that often, and the success of   *)
(* one that had found it not isolated.                                       *)
CircuitStaysOpen ==
    /\ \A p \in Providers :
          failures[p] >= Threshold => \/ state[p] = "isolated" \/ p \in reopened
                                      \/ \E t \in Calls : pc[t] = "failed" /\ Trying(t) = p
    /\ \A p \in out \ reopened : state[p] = "isolated"
    /\ \A t \in Calls : pc[t] # "idle" /\ Trying(t) \notin Native =>
          \A p \in Native : asked[t] \in Provides[p] => p \in passed[t]

-----------------------------------------------------------------------------
(* Its inductive invariant.                                                  *)

RoutingTypeOK ==
    /\ registered \subseteq Providers
    /\ state \in [Providers -> {"healthy", "degraded", "isolated"}]
    /\ failures \in [Providers -> Nat]
    /\ pc \in [Calls -> {"idle", "execute", "answered", "well", "failed"}]
    /\ left \in [Calls -> SUBSET Providers]
    /\ DOMAIN asked = Calls
    /\ passed \in [Calls -> SUBSET Providers]
    /\ out \subseteq Providers /\ reopened \subseteq Providers /\ late \subseteq Calls

(* A failure that has reached the threshold is being recorded, or was.       *)
Counted(p) ==
    failures[p] >= Threshold => \/ state[p] = "isolated" \/ p \in reopened
                                \/ \E t \in Calls : pc[t] = "failed" /\ Trying(t) = p

(* What was isolated is, unless a call took it out; and a call about to make *)
(* a provider well has found it not isolated since it was last.              *)
StaysOut ==
    /\ \A p \in Providers : (p \in out \ reopened => state[p] = "isolated")
                           /\ (state[p] = "isolated" => p \in out)
    /\ \A t \in Calls \ late : pc[t] = "well" => Trying(t) \notin out \ reopened

(* A call tries its providers or was not served by them.                     *)
Served(t) ==
    pc[t] # "idle" => /\ left[t] # {}
                      /\ {p \in Providers : asked[t] \in Provides[p]} \subseteq left[t] \cup passed[t]

RoutingInv ==
    /\ RoutingTypeOK /\ StaysOut
    /\ \A p \in Providers : Counted(p)
    /\ \A t \in Calls : Served(t)
=============================================================================
