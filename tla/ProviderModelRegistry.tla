---------------------- MODULE ProviderModelRegistry ------------------------
(***************************************************************************)
(* The registry of providers, models and assignments                       *)
(* (agent/providers/provider_model_registry.py).  It holds everything in   *)
(* memory and has no lock of its own: an operation changes the memory,     *)
(* copies it, saves the copy under a file lock and makes the copy the      *)
(* memory.  A refresh and a test of a provider wait for its adapter in     *)
(* between.  The event that follows every operation is saved the same way  *)
(* and left out; one provider and one task of one project are modelled.    *)
(***************************************************************************)
EXTENDS Naturals, Sequences, FiniteSets

CONSTANTS
    Threads,      (* threads that call the registry                           *)
    Models,       (* model ids of the provider                                *)
    Chains,       (* assignments: a primary model and its fallbacks           *)
    Suited,       (* models with the capabilities the task needs              *)
    MaxCalls      (* bound on the changing calls                              *)

NoModel == "none"
Absent == [status |-> "absent", enabled |-> FALSE]
Record(status, on) == [status |-> status, enabled |-> on]

VARIABLES
    memory, disk,      (* provider, models and assignment                     *)
    pc, call,          (* where each thread is, and in which call             *)
    copy,              (* the state it is saving                              *)
    before,            (* the models a refresh found                          *)
    calls,
    off,               (* history: models that were disabled, and the call
                          returned, with no later attempt to enable them      *)
    crossed            (* history: a change fell between two steps of another *)

vars == <<memory, disk, pc, call, copy, before, calls, off, crossed>>

Go(t, place) == pc' = [pc EXCEPT ![t] = place]
Saving == {"copy", "save", "install"}

(* A thread changes the memory on its way to save it.                        *)
Mutate(t, state) ==
    /\ memory' = state
    /\ Go(t, "copy")
    /\ crossed' = (crossed \/ \E u \in Threads \ {t} : pc[u] \in Saving)

Begin(t, c) ==
    /\ calls < MaxCalls
    /\ calls' = calls + 1
    /\ call' = [call EXCEPT ![t] = c]

WithModel(m, r) == [memory EXCEPT !.models[m] = r]
Registered(m) == memory.models[m] # Absent

Init ==
    /\ memory = [provider |-> Record("active", TRUE),
                 models |-> [m \in Models |-> Absent], chain |-> <<>>]
    /\ disk = memory
    /\ pc = [t \in Threads |-> "idle"]
    /\ call = [t \in Threads |-> <<>>]
    /\ copy = [t \in Threads |-> <<>>]
    /\ before = [t \in Threads |-> <<>>]
    /\ calls = 0
    /\ off = {} /\ crossed = FALSE

-----------------------------------------------------------------------------
(* The changing operations, up to _persist().                                *)

(* enable_provider(), disable_provider()                                     *)
UpdateProvider(t, on) ==
    /\ pc[t] = "idle"
    /\ Begin(t, <<"provider", on>>)
    /\ Mutate(t, [memory EXCEPT !.provider = Record(IF on THEN "active" ELSE "disabled", on)])
    /\ UNCHANGED <<disk, copy, before, off>>

RegisterModel(t, m, on) ==
    /\ pc[t] = "idle"
    /\ ~Registered(m)
    /\ Begin(t, <<"enable", m>>)
    /\ Mutate(t, WithModel(m, Record(IF on THEN "available" ELSE "disabled", on)))
    /\ off' = off \ {m}
    /\ UNCHANGED <<disk, copy, before>>

EnableModel(t, m) ==
    /\ pc[t] = "idle"
    /\ Registered(m)
    /\ Begin(t, <<"enable", m>>)
    /\ Mutate(t, WithModel(m, Record("available", TRUE)))
    /\ off' = off \ {m}
    /\ UNCHANGED <<disk, copy, before>>

DisableModel(t, m) ==
    /\ pc[t] = "idle"
    /\ Registered(m)
    /\ Begin(t, <<"disable", m>>)
    /\ Mutate(t, WithModel(m, Record("disabled", FALSE)))
    /\ UNCHANGED <<disk, copy, before, off>>

(* assign_model(), of models that are registered.                            *)
AssignModel(t, chain) ==
    /\ pc[t] = "idle"
    /\ \A i \in DOMAIN chain : Registered(chain[i])
    /\ Begin(t, <<"assign", chain>>)
    /\ Mutate(t, [memory EXCEPT !.chain = chain])
    /\ UNCHANGED <<disk, copy, before, off>>

RemoveAssignment(t) ==
    /\ pc[t] = "idle"
    /\ memory.chain # <<>>
    /\ Begin(t, <<"assign", <<>>>>)
    /\ Mutate(t, [memory EXCEPT !.chain = <<>>])
    /\ UNCHANGED <<disk, copy, before, off>>

(* refresh_models() and test_provider() call the adapter; a failure of the   *)
(* first changes nothing.                                                    *)
AskAdapter(t, what) ==
    /\ pc[t] = "idle"
    /\ Begin(t, <<what>>)
    /\ before' = [before EXCEPT ![t] = memory.models]
    /\ Go(t, what)
    /\ UNCHANGED <<memory, disk, copy, off, crossed>>

(* Mutant: A model that is listed again is enabled. *)
RefreshedOn(r, listed) ==
    CASE listed -> Record("available", TRUE)
      [] r = Absent /\ ~listed -> Absent
      [] OTHER -> Record("deprecated", r.enabled)

(* What a refresh makes of a model it found as r, if it is listed now.       *)
Refreshed(r, listed) ==
    CASE r = Absent /\ listed -> Record("available", TRUE)
      [] r # Absent /\ listed -> Record("available", r.enabled)
      [] r = Absent /\ ~listed -> Absent
      [] OTHER -> Record("deprecated", r.enabled)

RefreshModels(t, listed) ==
    LET old == before[t]
        Written(m) == old[m] # Absent \/ m \in listed
    IN  /\ pc[t] = "refresh"
        /\ memory' = [memory EXCEPT !.models =
               [m \in Models |-> IF Written(m) THEN Refreshed(old[m], m \in listed)
                                 ELSE memory.models[m]]]
        /\ Go(t, "copy")
        /\ crossed' = \/ crossed
                      \/ \E u \in Threads \ {t} : pc[u] \in Saving
                      \/ \E m \in Models : Written(m) /\ old[m] # memory.models[m]
        /\ UNCHANGED <<disk, call, copy, before, calls, off>>

AdapterFails(t) ==
    /\ pc[t] = "refresh"
    /\ Go(t, "idle")
    /\ UNCHANGED <<memory, disk, call, copy, before, calls, off, crossed>>

TestProvider(t, ok) ==
    /\ pc[t] = "test"
    /\ Mutate(t, [memory EXCEPT !.provider.status = IF ok THEN "active" ELSE "degraded"])
    /\ UNCHANGED <<disk, call, copy, before, calls, off>>

-----------------------------------------------------------------------------
(* _persist()                                                                *)

Copy(t) ==
    /\ pc[t] = "copy"
    /\ copy' = [copy EXCEPT ![t] = memory]
    /\ Go(t, "save")
    /\ UNCHANGED <<memory, disk, call, before, calls, off, crossed>>

Save(t) ==
    /\ pc[t] = "save"
    /\ disk' = copy[t]
    /\ Go(t, "install")
    /\ UNCHANGED <<memory, call, copy, before, calls, off, crossed>>

Forget(t) ==
    /\ Go(t, "idle")
    /\ call' = [call EXCEPT ![t] = <<>>]
    /\ copy' = [copy EXCEPT ![t] = <<>>]
    /\ before' = [before EXCEPT ![t] = <<>>]

(* The lock is not had in time, or the disk is full: the memory stays.       *)
SaveFails(t) ==
    /\ pc[t] = "save"
    /\ Forget(t)
    /\ UNCHANGED <<memory, disk, calls, off, crossed>>

Install(t) ==
    /\ pc[t] = "install"
    /\ memory' = copy[t]
    /\ off' = IF call[t][1] = "disable" THEN off \cup {call[t][2]} ELSE off
    /\ Forget(t)
    /\ UNCHANGED <<disk, calls, crossed>>

Restart ==
    /\ memory' = disk
    /\ pc' = [t \in Threads |-> "idle"]
    /\ call' = [t \in Threads |-> <<>>]
    /\ copy' = [t \in Threads |-> <<>>]
    /\ before' = [t \in Threads |-> <<>>]
    /\ UNCHANGED <<disk, calls, off, crossed>>

Step(t) ==
    \/ \E on \in BOOLEAN : UpdateProvider(t, on)
    \/ \E m \in Models :
        \/ \E on \in BOOLEAN : RegisterModel(t, m, on)
        \/ EnableModel(t, m) \/ DisableModel(t, m)
    \/ (\E chain \in Chains : AssignModel(t, chain)) \/ RemoveAssignment(t)
    \/ \E what \in {"refresh", "test"} : AskAdapter(t, what)
    \/ (\E listed \in SUBSET Models : RefreshModels(t, listed)) \/ AdapterFails(t)
    \/ \E ok \in BOOLEAN : TestProvider(t, ok)
    \/ Copy(t) \/ Save(t) \/ SaveFails(t) \/ Install(t)

Next == Restart \/ \E t \in Threads : Step(t)

Spec == Init /\ [][Next]_vars

-----------------------------------------------------------------------------
(* select_model() and select_fallback()                                      *)

(* _is_model_selectable()                                                    *)
Selectable(m) ==
    LET p == memory.provider  r == memory.models[m] IN
    /\ p.enabled /\ p.status # "disabled"
    /\ r.enabled /\ r.status = "available"
    /\ m \in Suited

(* The first model of the chain that is selectable and was not tried.        *)
Chosen(tried) ==
    LET usable == {i \in DOMAIN memory.chain :
                     Selectable(memory.chain[i]) /\ memory.chain[i] \notin tried}
    IN  IF usable = {} THEN NoModel
        ELSE memory.chain[CHOOSE i \in usable : \A j \in usable : i <= j]

SelectModel == Chosen({})
SelectFallback(failed) == Chosen({failed, memory.chain[1]})

-----------------------------------------------------------------------------
(* A model an administrator disabled is not selected, neither first nor as   *)
(* a fallback, until someone enables it: not after refreshes that list it,   *)
(* drop it and list it again, tests of its provider, failed saves and        *)
(* restarts.  What brings it back is a change that falls between the steps   *)
(* of another thread's call, whose older copy then becomes the memory.       *)
DisabledIsNotChosen ==
    \/ crossed \/ memory.chain = <<>>
    \/ /\ SelectModel \notin off
       /\ \A m \in Models : SelectFallback(m) \notin off

-----------------------------------------------------------------------------
(* Its inductive invariant.                                                  *)

Records == [status : {"absent", "active", "degraded", "available", "deprecated", "disabled"},
            enabled : BOOLEAN]
States == [provider : Records, models : [Models -> Records], chain : Chains \cup {<<>>}]

ModelsTypeOK ==
    /\ memory \in States /\ disk \in States
    /\ pc \in [Threads -> {"idle", "refresh", "test"} \cup Saving]
    /\ DOMAIN call = Threads /\ DOMAIN copy = Threads /\ DOMAIN before = Threads
    /\ \A t \in Threads :
          /\ pc[t] \in {"save", "install"} => copy[t] \in States
          /\ pc[t] = "refresh" => before[t] \in [Models -> Records]
          /\ pc[t] \in {"refresh", "test"} => call[t][1] # "disable"
          /\ pc[t] \in Saving /\ call[t][1] = "disable" => call[t][2] \in Models
    /\ off \subseteq Models /\ crossed \in BOOLEAN

Disabled(s, m) == s.models[m] # Absent /\ ~s.models[m].enabled

(* Of a change that nothing crosses, the memory is what is saved.            *)
SavedAsChanged ==
    \A t \in Threads :
        /\ pc[t] \in Saving => \A u \in Threads \ {t} : pc[u] \notin Saving
        /\ pc[t] \in {"save", "install"} => copy[t] = memory
        /\ pc[t] = "install" => disk = memory

OffIsDisabled ==
    /\ \A m \in off : Disabled(memory, m) /\ Disabled(disk, m)
    /\ \A t \in Threads :
          pc[t] \in Saving /\ call[t][1] = "disable" => Disabled(memory, call[t][2])

ModelsInv == ModelsTypeOK /\ (~crossed => SavedAsChanged /\ OffIsDisabled)

=============================================================================
