------------------------- MODULE BudgetEvaluation --------------------------
(***************************************************************************)
(* The budget check of a request (agent/providers/                         *)
(* provider_budget_limit_evaluator.py) and the usage it is checked         *)
(* against.  Requests of one project in one month are checked and executed *)
(* at the same time; a check reads the usage of the day and of the month   *)
(* from the ledger, and the usage of an admitted request is recorded when  *)
(* it is done.  The limits are of tokens or of money, which only differ in *)
(* that the price of a request may be unknown; what it really uses is      *)
(* known when it is done.  Requests that are not valid are left out, and   *)
(* warnings, which refuse nothing.                                         *)
(***************************************************************************)
EXTENDS Integers, FiniteSets, FiniteSetsExt

CONSTANTS
    Requests, Estimate,    (* requests, and what each is estimated to use     *)
    Priced,                (* those whose price is known                      *)
    Usages,                (* what a request may turn out to have used        *)
    Days,                  (* the days of the month                           *)
    PerRequest, Daily, Monthly    (* the limits of the configuration          *)

Unreadable == -1

(* What the project limits, and its policy for an unknown price: "warn"      *)
(* admits as "allow" does.                                                   *)
Budgets == [limits : {"nothing", "tokens", "money"}, unknown : {"allow", "block"}]

VARIABLES
    budget,       (* the project's budget                                     *)
    today,
    ledger,       (* usage recorded: requests, the day they started, and what they used *)
    pc,           (* where each request is                                    *)
    day,          (* request_timestamp's day                                  *)
    daily, monthly,        (* what the check read                             *)
    known,        (* history: the records it read both sums from              *)
    excused       (* history: why a sum was not what the check took it for    *)

read_vars == <<daily, monthly>>
vars == <<budget, today, ledger, pc, day, read_vars, known, excused>>

Go(r, place) == pc' = [pc EXCEPT ![r] = place]
Total(usage) == MapThenSumSet(LAMBDA e : usage[e], DOMAIN usage)
Used(entries) == Total([e \in entries |-> e.used])
OfDay(d) == {e \in ledger : e.day = d}

(* Whether a request is checked against the limits, and for how much.        *)
Counted(r) == budget.limits = "money" => r \in Priced
Promise(r) == IF Counted(r) THEN Estimate[r] ELSE 0

Init ==
    /\ budget \in Budgets
    /\ today = 1
    /\ ledger = {}
    /\ pc = [r \in Requests |-> "new"]
    /\ day = [r \in Requests |-> 1]
    /\ daily = [r \in Requests |-> 0]
    /\ monthly = [r \in Requests |-> 0]
    /\ known = [r \in Requests |-> {}]
    /\ excused = {}

Midnight ==
    /\ today + 1 \in Days
    /\ today' = today + 1
    /\ UNCHANGED <<budget, ledger, pc, day, read_vars, known, excused>>

(* check_request() until it reads the ledger: no configuration admits, an    *)
(* estimate above the limit of one request refuses.                          *)
Check(r) ==
    /\ pc[r] = "new"
    /\ day' = [day EXCEPT ![r] = today]
    /\ Go(r, CASE budget.limits = "nothing" -> "admitted"
               [] budget.limits # "nothing" /\ Promise(r) > PerRequest -> "refused"
               [] OTHER -> "daily")
    /\ UNCHANGED <<budget, today, ledger, read_vars, known, excused>>

(* _safe_summary(): a ledger that cannot be read stands for no usage at all. *)
ReadDaily(r) ==
    /\ pc[r] = "daily"
    /\ \/ /\ daily' = [daily EXCEPT ![r] = Used(OfDay(day[r]))]
          /\ excused' = excused
       \/ /\ daily' = [daily EXCEPT ![r] = Unreadable]
          /\ excused' = excused \cup {"daily_unread"}
    /\ known' = [known EXCEPT ![r] = ledger]
    /\ Go(r, "monthly")
    /\ UNCHANGED <<budget, today, ledger, day, monthly>>

ReadMonthly(r) ==
    /\ pc[r] = "monthly"
    /\ \/ /\ monthly' = [monthly EXCEPT ![r] = Used(ledger)]
          /\ excused' = excused
       \/ /\ monthly' = [monthly EXCEPT ![r] = Unreadable]
          /\ excused' = excused \cup {"monthly_unread"}
    /\ Go(r, "decide")
    /\ UNCHANGED <<budget, today, ledger, day, daily, known>>

(* Mutant: The request itself is not counted. *)
ExceedsBefore(used, r, limit) == used # Unreadable /\ used >= limit

(* The hard limits.                                                          *)
Exceeds(used, r, limit) == used # Unreadable /\ used + Promise(r) > limit

Underway == {r \in Requests : pc[r] \in {"admitted", "done"}}

(* A request whose price is not known is not checked against the limits of   *)
(* money; it is refused only if the policy says so, whatever is limited.     *)
Decide(r) ==
    LET refused == \/ /\ Counted(r)
                      /\ Exceeds(daily[r], r, Daily) \/ Exceeds(monthly[r], r, Monthly)
                   \/ r \notin Priced /\ budget.unknown = "block"
        missed == \E u \in Underway : \A e \in known[r] : e.request # u
    IN  /\ pc[r] = "decide"
        /\ Go(r, IF refused THEN "refused" ELSE "admitted")
        /\ excused' = IF Counted(r) /\ ~refused /\ missed
                      THEN excused \cup {"in_flight"} ELSE excused
        /\ daily' = [daily EXCEPT ![r] = 0]
        /\ monthly' = [monthly EXCEPT ![r] = 0]
        /\ known' = [known EXCEPT ![r] = {}]
        /\ UNCHANGED <<budget, today, ledger, day>>

(* record_usage() of a request that was admitted: what it used, on the day   *)
(* it started.                                                               *)
Record(r) ==
    /\ pc[r] = "admitted"
    /\ \E d \in day[r] .. today, u \in Usages :
        /\ ledger' = ledger \cup {[request |-> r, day |-> d, used |-> u]}
        /\ excused' = IF d # day[r] THEN excused \cup {"after_midnight"} ELSE excused
    /\ Go(r, "done")
    /\ UNCHANGED <<budget, today, day, read_vars, known>>

Step(r) == Check(r) \/ ReadDaily(r) \/ ReadMonthly(r) \/ Decide(r) \/ Record(r)

Next == Midnight \/ \E r \in Requests : Step(r)

Spec == Init /\ [][Next]_vars

-----------------------------------------------------------------------------
(* The part of the usage that was checked: what a request used beyond its    *)
(* estimate is not, and nothing of a request whose price was not known.      *)
Foreseen(entries) ==
    Total([e \in entries |-> IF e.used > Promise(e.request) THEN Promise(e.request) ELSE e.used])

(* A budget is overspent by no more than requests use beyond their estimate  *)
(* (for one of unknown price, by no more than it uses), or else for one of   *)
(* three reasons: a check that did not see a request admitted but not        *)
(* recorded yet, a ledger that could not be read (which admits), or, for the *)
(* limit of a day, a request that was checked before midnight and started    *)
(* after it.                                                                 *)
OverspentForAReason ==
    budget.limits # "nothing" =>
        /\ Foreseen(ledger) > Monthly => excused \cap {"in_flight", "monthly_unread"} # {}
        /\ \A d \in Days : Foreseen(OfDay(d)) > Daily =>
               excused \cap {"in_flight", "daily_unread", "after_midnight"} # {}

-----------------------------------------------------------------------------
(* Why it holds: the inductive invariant.                                    *)

Entries == [request : Requests, day : Nat, used : Nat]

SpendingShape ==
    /\ budget \in Budgets /\ today \in Nat /\ day \in [Requests -> Nat]
    /\ pc \in [Requests -> {"new", "refused", "daily", "monthly", "decide", "admitted", "done"}]
    /\ DOMAIN daily = Requests /\ DOMAIN monthly = Requests /\ DOMAIN known = Requests
    /\ ledger \subseteq Entries

(* The usage recorded, and that of the requests that were admitted.          *)
Promised ==
    {[request |-> u, day |-> day[u], used |-> Promise(u)] :
        u \in {v \in Requests : pc[v] = "admitted"}}
Committed == ledger \cup Promised

(* A request is recorded once, when it is done.                              *)
Recorded ==
    /\ IsFiniteSet(Committed)
    /\ \A e \in ledger : pc[e.request] = "done"
    /\ \A e, f \in ledger : e.request = f.request => e = f

(* What a check read, as long as nothing was recorded since.                 *)
ReadRight ==
    \A r \in Requests :
        /\ pc[r] \in {"monthly", "decide"} =>
               /\ known[r] \subseteq ledger
               /\ \/ daily[r] = Unreadable /\ "daily_unread" \in excused
                  \/ known[r] = ledger => daily[r] = Used(OfDay(day[r]))
        /\ pc[r] = "decide" =>
               \/ monthly[r] = Unreadable /\ "monthly_unread" \in excused
               \/ known[r] = ledger => monthly[r] = Used(ledger)

WithinBudget ==
    budget.limits # "nothing" =>
        /\ excused \cap {"in_flight", "monthly_unread"} = {} => Foreseen(Committed) <= Monthly
        /\ excused \cap {"in_flight", "daily_unread", "after_midnight"} = {} =>
               \A d \in Days : Foreseen({e \in Committed : e.day = d}) <= Daily

SpendingInv == SpendingShape /\ Recorded /\ ReadRight /\ WithinBudget

=============================================================================
