--------------------- MODULE ManualReviewApprovalProofs ---------------------
(***************************************************************************)
(* No decision takes effect before it is durable, what is approved is      *)
(* published, and what is not published is taken back, for any number of   *)
(* missions, reviewers and reconcilers (until two overlap for the second), *)
(* whatever commands fail and whichever calls end halfway.                 *)
(***************************************************************************)
EXTENDS ManualReviewApproval, SequenceTheorems, TLAPS

(* The fields the audit depends on are there.                                *)
AuditShape ==
    /\ DOMAIN pc = Deciders /\ DOMAIN job = Deciders
    /\ \A d \in Deciders : {"call", "mission"} \subseteq DOMAIN job[d]
    /\ \A m \in DOMAIN missions : "state" \in DOMAIN missions[m]
    /\ interventions \in Nat

(* A call that is about to settle its mission has written its line.          *)
LineWritten ==
    \A d \in Deciders :
        pc[d] = "audited" =>
            \E line \in history :
                line[1] = job[d].mission /\ line[2] = DecisionOf(job[d].call)

AuditInv == AuditShape /\ LineWritten /\ SettledIsAudited

LEMMA AuditInit == Init => AuditInv
BY DEF Init, AuditInv, AuditShape, LineWritten, SettledIsAudited, NoJob,
       Q!InState, Q!Known

(* What a queue operation that moves one mission does to the others.         *)
LEMMA MoveFacts ==
    ASSUME AuditShape, NEW m \in DOMAIN missions, NEW s, Q!MoveTo(m, s)
    PROVE  /\ DOMAIN missions' = DOMAIN missions
           /\ \A n \in DOMAIN missions : "state" \in DOMAIN missions'[n]
           /\ missions'[m].state = s
           /\ \A n \in DOMAIN missions \ {m} : missions'[n] = missions[n]
BY DEF AuditShape, Q!MoveTo

(* A step of d that leaves the queue alone and does not end in the place     *)
(* before the queue call.                                                    *)
LEMMA OtherSteps ==
    ASSUME AuditInv, NEW d \in Deciders,
           UNCHANGED <<missions, interventions>>, history \subseteq history',
           DOMAIN pc' = Deciders, DOMAIN job' = Deciders,
           \A u \in Deciders \ {d} : pc'[u] = pc[u] /\ job'[u] = job[u],
           {"call", "mission"} \subseteq DOMAIN job'[d],
           pc'[d] = "audited" =>
               \E line \in history' :
                   line[1] = job'[d].mission /\ line[2] = DecisionOf(job'[d].call)
    PROVE  AuditInv'
<1>1. AuditShape'
  BY DEF AuditInv, AuditShape
<1>2. LineWritten'
  BY DEF AuditInv, LineWritten, DecisionOf
<1>3. SettledIsAudited'
  BY DEF AuditInv, SettledIsAudited, Q!InState, Q!Known
<1> QED
  BY <1>1, <1>2, <1>3 DEF AuditInv

(* A step of nobody's call that leaves the queue and the audit alone.        *)
LEMMA QuietSteps ==
    AuditInv /\ UNCHANGED <<missions, interventions, history, pc, job>> => AuditInv'
BY DEF AuditInv, AuditShape, LineWritten, SettledIsAudited, Q!InState, Q!Known

LEMMA SettleStep == ASSUME AuditInv, NEW d \in Deciders, Settle(d) PROVE AuditInv'
<1> DEFINE m == job[d].mission
<1>1. /\ pc[d] = "audited" /\ UNCHANGED <<history, interventions>>
      /\ pc' = [pc EXCEPT ![d] = "idle"] /\ job' = [job EXCEPT ![d] = NoJob]
  BY DEF Settle, End, Go, audit_vars, bound_vars
<1>2. CASE UNCHANGED missions
  BY <1>1, <1>2, OtherSteps DEF AuditInv, AuditShape, NoJob
<1>3. CASE ~UNCHANGED missions
  <2>1. PICK line \in history : line[1] = m /\ line[2] = DecisionOf(job[d].call)
    BY <1>1 DEF AuditInv, LineWritten
  <2>2. /\ m \in DOMAIN missions
        /\ \/ job[d].call = "reject" /\ Q!MoveTo(m, "cancelled")
           \/ job[d].call # "reject" /\ Q!MoveTo(m, "completed")
    BY <1>3 DEF Settle, queue_vars, Q!RejectManualReview, Q!ApproveManualReview,
                Q!InState, Q!Known
  <2>3. AuditShape /\ SettledIsAudited /\ LineWritten
    BY DEF AuditInv
  <2>4. PICK s : Q!MoveTo(m, s) /\ s \in {"cancelled", "completed"}
                 /\ (s = "cancelled" <=> job[d].call = "reject")
    BY <2>2
  <2>5. /\ DOMAIN missions' = DOMAIN missions
        /\ \A n \in DOMAIN missions : "state" \in DOMAIN missions'[n]
        /\ missions'[m].state = s
        /\ \A n \in DOMAIN missions \ {m} : missions'[n] = missions[n]
    BY <2>2, <2>3, <2>4, MoveFacts
  <2>6. AuditShape'
    BY <1>1, <2>3, <2>5 DEF AuditShape, NoJob
  <2>7. LineWritten'
    BY <1>1, <2>3 DEF LineWritten, AuditShape
  <2>8. IF s = "cancelled" THEN line[2] = "rejected" ELSE line[2] \in {"approved", "reconciled"}
    BY <2>1, <2>4 DEF DecisionOf
  <2>9. SettledIsAudited'
    BY <1>1, <2>1, <2>3, <2>4, <2>5, <2>8 DEF SettledIsAudited, Q!InState, Q!Known
  <2> QED
    BY <2>6, <2>7, <2>9 DEF AuditInv
<1> QED
  BY <1>2, <1>3

LEMMA InterveneStep == ASSUME AuditInv, NEW m \in Missions, Intervene(m) PROVE AuditInv'
<1>1. UNCHANGED <<history, pc, job>> /\ interventions' = interventions + 1
  BY DEF Intervene, call_vars, audit_vars
<1>2. AuditShape /\ SettledIsAudited /\ LineWritten
  BY DEF AuditInv
<1>3. LineWritten'
  BY <1>1, <1>2 DEF LineWritten
<1>4. interventions' \in Nat /\ interventions' # 0
  BY <1>1, <1>2 DEF AuditShape
<1>5. PICK s : Q!MoveTo(m, s) /\ s \in {"cancelled", "pending"} /\ m \in DOMAIN missions
  BY DEF Intervene, Q!Cancel, Q!Resume, Q!InState, Q!Known
<1>6. /\ DOMAIN missions' = DOMAIN missions
      /\ \A n \in DOMAIN missions : "state" \in DOMAIN missions'[n]
      /\ missions'[m].state = s
      /\ \A n \in DOMAIN missions \ {m} : missions'[n] = missions[n]
  BY <1>2, <1>5, MoveFacts
<1>7. AuditShape'
  BY <1>1, <1>2, <1>4, <1>6 DEF AuditShape
<1>8. SettledIsAudited'
  BY <1>1, <1>2, <1>4, <1>5, <1>6 DEF SettledIsAudited, Q!InState, Q!Known
<1> QED
  BY <1>3, <1>7, <1>8 DEF AuditInv

LEMMA AuditNext == AuditInv /\ [Next]_vars => AuditInv'
<1> SUFFICES ASSUME AuditInv, [Next]_vars PROVE AuditInv'
  OBVIOUS
<1> USE DEF AuditInv, AuditShape, Go, End, NoJob, queue_vars, git_vars, call_vars,
            audit_vars, bound_vars
<1>1. ASSUME NEW d \in Deciders, Step(d) \/ PushFails(d) \/ Die(d) PROVE AuditInv'
  <2>1. CASE Validate(d)
    BY <2>1, OtherSteps DEF Validate
  <2>2. CASE Inspect(d)
    BY <2>2, OtherSteps DEF Inspect
  <2>3. CASE Survey(d)
    BY <2>3, OtherSteps DEF Survey
  <2>4. CASE Merge(d)
    BY <2>4, OtherSteps DEF Merge
  <2>5. CASE Push(d)
    BY <2>5, OtherSteps DEF Push
  <2>6. CASE Verify(d)
    BY <2>6, OtherSteps DEF Verify
  <2>7. CASE Reset(d)
    BY <2>7, OtherSteps DEF Reset
  <2>8. CASE Record(d)
    BY <2>8, OtherSteps DEF Record
  <2>9. CASE AppendHistory(d)
    <3> DEFINE line == <<job[d].mission, DecisionOf(job[d].call), job[d].after>>
    <3>1. line \in history' /\ line[1] = job[d].mission /\ line[2] = DecisionOf(job[d].call)
      BY <2>9 DEF AppendHistory
    <3>2. history \subseteq history' /\ UNCHANGED <<missions, interventions, job>>
          /\ pc' = [pc EXCEPT ![d] = "audited"]
      BY <2>9 DEF AppendHistory
    <3> HIDE DEF line
    <3> QED
      BY <3>1, <3>2, OtherSteps
  <2>10. CASE Settle(d)
    BY <2>10, SettleStep
  <2>11. CASE PushFails(d)
    BY <2>11, OtherSteps DEF PushFails
  <2>12. CASE Die(d)
    BY <2>12, OtherSteps DEF Die
  <2> QED
    BY <1>1, <2>1, <2>2, <2>3, <2>4, <2>5, <2>6, <2>7, <2>8, <2>9, <2>10, <2>11,
       <2>12 DEF Step
<1>2. CASE PushUpstream \/ Pull \/ EndDeployment \/ RollBack \/ UNCHANGED vars
  BY <1>2, QuietSteps DEF PushUpstream, Pull, EndDeployment, RollBack, vars
<1>3. ASSUME NEW m \in Missions, Intervene(m) PROVE AuditInv'
  BY <1>3, InterveneStep
<1> QED
  BY <1>1, <1>2, <1>3 DEF Next

(* A mission leaves blocked for completed or cancelled only with its line in *)
(* the history.                                                              *)
THEOREM SettledAlwaysAudited == Spec => []SettledIsAudited
<1>1. AuditInv => SettledIsAudited
  BY DEF AuditInv
<1> QED
  BY AuditInit, AuditNext, <1>1, PTL DEF Spec

-----------------------------------------------------------------------------
(* Revisions.                                                                *)

LEMMA PrefixIsPointwise ==
    ASSUME NEW r \in Revisions, NEW s \in Revisions
    PROVE  IsPrefix(r, s) <=> Len(r) <= Len(s) /\ \A i \in 1..Len(r) : s[i] = r[i]
<1> DEFINE E == Missions \cup {Upstream, NoRun}
<1>1. r \in Seq(E) /\ s \in Seq(E)
  BY DEF Revisions
<1> HIDE DEF E
<1>2. Len(r) \in Nat /\ Len(s) \in Nat
  BY <1>1
<1>3. ASSUME Len(r) <= Len(s)
      PROVE  SubSeq(s, 1, Len(r)) = r <=> \A i \in 1..Len(r) : s[i] = r[i]
  <2>1. /\ SubSeq(s, 1, Len(r)) \in Seq(E)
        /\ Len(SubSeq(s, 1, Len(r))) = Len(r)
        /\ \A i \in 1..Len(r) : SubSeq(s, 1, Len(r))[i] = s[i]
    BY <1>1, <1>2, <1>3
  <2> QED
    BY <2>1, <1>1, SeqEqual
<1> QED
  BY <1>2, <1>3 DEF IsPrefix

LEMMA PrefixIsReflexive == ASSUME NEW r \in Revisions PROVE IsPrefix(r, r)
<1>1. Len(r) \in Nat
  BY DEF Revisions
<1> QED
  BY <1>1, PrefixIsPointwise

LEMMA PrefixIsTransitive ==
    ASSUME NEW r \in Revisions, NEW s \in Revisions, NEW t \in Revisions,
           IsPrefix(r, s), IsPrefix(s, t)
    PROVE  IsPrefix(r, t)
<1>1. Len(r) \in Nat /\ Len(s) \in Nat /\ Len(t) \in Nat
  BY DEF Revisions
<1>2. /\ Len(r) <= Len(s) /\ \A i \in 1..Len(r) : s[i] = r[i]
      /\ Len(s) <= Len(t) /\ \A i \in 1..Len(s) : t[i] = s[i]
  BY PrefixIsPointwise
<1>3. Len(r) <= Len(t) /\ \A i \in 1..Len(r) : t[i] = r[i]
  BY <1>1, <1>2
<1> QED
  BY <1>3, PrefixIsPointwise

(* A commit on top of a revision.                                            *)
LEMMA CommitOnTop ==
    ASSUME NEW r \in Revisions, NEW c \in Missions \cup {Upstream}
    PROVE  /\ Append(r, c) \in Revisions
           /\ IsPrefix(r, Append(r, c))
           /\ Commits(Append(r, c)) = Commits(r) \cup {c}
<1> DEFINE E == Missions \cup {Upstream, NoRun}
<1>0. r \in Seq(E) /\ c \in E
  BY DEF Revisions
<1> HIDE DEF E
<1>1. /\ Append(r, c) \in Seq(E) /\ Len(r) \in Nat
      /\ Len(Append(r, c)) = Len(r) + 1
      /\ \A i \in 1..Len(r) : Append(r, c)[i] = r[i]
      /\ Append(r, c)[Len(r) + 1] = c
  BY <1>0
<1>5. Append(r, c) \in Revisions
  BY <1>1 DEF Revisions, E
<1>2. IsPrefix(r, Append(r, c))
  <2>1. PICK s \in Revisions : s = Append(r, c)
    BY <1>5
  <2>2. Len(r) <= Len(s) /\ \A i \in 1..Len(r) : s[i] = r[i]
    BY <1>1, <2>1
  <2>3. IsPrefix(r, s)
    BY <2>2, PrefixIsPointwise
  <2> QED
    BY <2>1, <2>3
<1>3. DOMAIN r = 1..Len(r) /\ DOMAIN Append(r, c) = 1..(Len(r) + 1)
  BY <1>0, <1>1
<1>4. Commits(Append(r, c)) = Commits(r) \cup {c}
  <2>1. 1..(Len(r) + 1) = 1..Len(r) \cup {Len(r) + 1}
    BY <1>1
  <2> QED
    BY <2>1, <1>1, <1>3 DEF Commits
<1> QED
  BY <1>5, <1>2, <1>4

LEMMA PrefixHasFewer ==
    ASSUME NEW r \in Revisions, NEW s \in Revisions, IsPrefix(r, s)
    PROVE  Commits(r) \subseteq Commits(s)
<1>1. DOMAIN r = 1..Len(r) /\ DOMAIN s = 1..Len(s) /\ Len(r) \in Nat /\ Len(s) \in Nat
  BY DEF Revisions
<1>2. Len(r) <= Len(s) /\ \A i \in 1..Len(r) : s[i] = r[i]
  BY PrefixIsPointwise
<1> QED
  BY <1>1, <1>2 DEF Commits

LEMMA MergedHasIt ==
    ASSUME ApprovalTypeOK, NEW m \in Missions
    PROVE  Merged(m) \in Revisions /\ m \in Commits(Merged(m))
BY CommitOnTop DEF Merged, ApprovalTypeOK

-----------------------------------------------------------------------------
(* The types.                                                                *)

LEMMA ApprovalTypeInit == Init => ApprovalTypeOK
<1> SUFFICES ASSUME Init PROVE ApprovalTypeOK
  OBVIOUS
<1>1. <<>> \in Revisions /\ <<NoRun>> \in Revisions
  BY DEF Revisions
<1>2. NoJob \in Jobs
  BY <1>1 DEF NoJob, Jobs
<1>3. /\ {main, origin, deploying} \subseteq Revisions
      /\ pc \in [Deciders -> Places] /\ job \in [Deciders -> Jobs]
  BY <1>1, <1>2 DEF Init, Places
<1> QED
  BY <1>3 DEF Init, ApprovalTypeOK

(* A step of one call, which is somewhere on its way afterwards or over.     *)
LEMMA TypedCall ==
    ASSUME ApprovalTypeOK, NEW d \in Deciders, NEW place \in Places, Go(d, place),
           NEW j \in Jobs, job' = [job EXCEPT ![d] = j],
           place # "idle" => j.call \in Calls /\ j.mission \in Missions
    PROVE  /\ pc' \in [Deciders -> Places] /\ job' \in [Deciders -> Jobs]
           /\ pc'[d] = place /\ job'[d] = j
           /\ \A e \in Deciders \ {d} : pc'[e] = pc[e] /\ job'[e] = job[e]
           /\ \A e \in Deciders :
                 pc'[e] # "idle" => job'[e].call \in Calls /\ job'[e].mission \in Missions
BY DEF ApprovalTypeOK, Go

LEMMA ApprovalTypeNext == ApprovalTypeOK /\ [Next]_vars => ApprovalTypeOK'
<1> SUFFICES ASSUME ApprovalTypeOK, [Next]_vars PROVE ApprovalTypeOK'
  OBVIOUS
<1> USE DEF queue_vars, git_vars, call_vars, audit_vars, bound_vars
<1>n. NoJob \in Jobs
  BY DEF NoJob, Jobs, Revisions
<1>1. ASSUME NEW d \in Deciders, Step(d) \/ PushFails(d) \/ Die(d) PROVE ApprovalTypeOK'
  <2>t. /\ {main, origin, deploying} \subseteq Revisions
        /\ pc[d] \in Places /\ job[d] \in Jobs /\ job \in [Deciders -> Jobs]
        /\ pc[d] # "idle" => job[d].call \in Calls /\ job[d].mission \in Missions
        /\ DOMAIN record = Missions
        /\ \A m \in DOMAIN missions : "state" \in DOMAIN missions[m]
        /\ rollbacks \in Nat /\ deaths \in Nat
        /\ job[d].before \in Revisions /\ job[d].after \in Revisions
    BY DEF ApprovalTypeOK, Jobs
  <2>e. End(d) => /\ pc' \in [Deciders -> Places] /\ job' \in [Deciders -> Jobs]
                  /\ \A e \in Deciders :
                        pc'[e] # "idle" => job'[e].call \in Calls /\ job'[e].mission \in Missions
    BY <1>n, TypedCall DEF End, Places
  <2>g. ASSUME NEW place \in Places, Go(d, place), UNCHANGED job, pc[d] # "idle"
        PROVE  /\ pc' \in [Deciders -> Places] /\ job' \in [Deciders -> Jobs]
               /\ \A e \in Deciders :
                     pc'[e] # "idle" => job'[e].call \in Calls /\ job'[e].mission \in Missions
    <3>1. job' = [job EXCEPT ![d] = job[d]]
      BY <2>g, <2>t
    <3> QED
      BY <2>g, <2>t, <3>1, TypedCall
  <2>r. ASSUME NEW place \in Places, Go(d, place), pc[d] # "idle",
               NEW b \in Revisions, NEW a \in Revisions,
               job' = [job EXCEPT ![d] = [job[d] EXCEPT !.before = b, !.after = a]]
        PROVE  /\ pc' \in [Deciders -> Places] /\ job' \in [Deciders -> Jobs]
               /\ \A e \in Deciders :
                     pc'[e] # "idle" => job'[e].call \in Calls /\ job'[e].mission \in Missions
    <3> DEFINE j == [job[d] EXCEPT !.before = b, !.after = a]
    <3>1. j \in Jobs /\ j.call \in Calls /\ j.mission \in Missions
      BY <2>r, <2>t DEF Jobs
    <3> HIDE DEF j
    <3>2. job' = [job EXCEPT ![d] = j]
      BY <2>r DEF j
    <3> QED
      BY <2>r, <3>1, <3>2, TypedCall
  <2>1. CASE Validate(d)
    <3>1. PICK call \in Calls, m \in Missions :
              job' = [job EXCEPT ![d] = [NoJob EXCEPT !.call = call, !.mission = m]]
      BY <2>1 DEF Validate
    <3> DEFINE j == [NoJob EXCEPT !.call = call, !.mission = m]
    <3>2. j \in Jobs /\ j.call \in Calls /\ j.mission \in Missions
      BY <1>n DEF NoJob, Jobs
    <3> HIDE DEF j
    <3>3. job' = [job EXCEPT ![d] = j]
      BY <3>1 DEF j
    <3>4. /\ pc' \in [Deciders -> Places] /\ job' \in [Deciders -> Jobs]
          /\ \A e \in Deciders :
                pc'[e] # "idle" => job'[e].call \in Calls /\ job'[e].mission \in Missions
      BY <2>1, <3>2, <3>3, TypedCall DEF Validate, Places
    <3> QED
      BY <2>1, <2>t, <3>4 DEF Validate, ApprovalTypeOK
  <2>2. CASE Inspect(d)
    <3>1. CASE End(d)
      BY <2>2, <2>t, <2>e, <3>1 DEF Inspect, ApprovalTypeOK
    <3>2. CASE ~End(d)
      <4>1. job' = [job EXCEPT ![d] = [job[d] EXCEPT !.before = main, !.after = main]]
        BY <2>2, <2>t, <3>2 DEF Inspect
      <4>2. \E place \in Places : Go(d, place)
        BY <2>2, <3>2 DEF Inspect, Places
      <4> QED
        BY <2>2, <2>t, <2>r, <4>1, <4>2 DEF Inspect, ApprovalTypeOK
    <3> QED
      BY <3>1, <3>2
  <2>3. CASE Survey(d)
    <3>1. CASE End(d)
      BY <2>3, <2>t, <2>e, <3>1 DEF Survey, ApprovalTypeOK
    <3>2. CASE Go(d, "merge") /\ UNCHANGED job
      BY <2>3, <2>t, <2>g, <3>2 DEF Survey, ApprovalTypeOK, Places
    <3>3. CASE /\ Go(d, "decided")
               /\ job' = [job EXCEPT ![d].after =
                             IF job[d].call = "approve" THEN main ELSE @]
      <4>1. PICK a \in Revisions : a = IF job[d].call = "approve" THEN main ELSE job[d].after
        BY <2>t
      <4>2. job' = [job EXCEPT ![d] = [job[d] EXCEPT !.before = job[d].before, !.after = a]]
        <5>1. [job[d] EXCEPT !.before = job[d].before, !.after = a] = [job[d] EXCEPT !.after = a]
          BY <2>t DEF Jobs
        <5> QED
          BY <3>3, <4>1, <5>1
      <4> QED
        BY <2>3, <2>t, <2>r, <3>3, <4>2 DEF Survey, ApprovalTypeOK, Places
    <3> QED
      BY <2>3, <3>1, <3>2, <3>3 DEF Survey
  <2>4. CASE Merge(d)
    <3>1. CASE End(d) /\ UNCHANGED <<main, unmerged>>
      BY <2>4, <2>t, <2>e, <3>1 DEF Merge, ApprovalTypeOK
    <3>2. CASE Go(d, "reset") /\ UNCHANGED <<main, job>>
      BY <2>4, <2>t, <2>g, <3>2 DEF Merge, ApprovalTypeOK, Places
    <3>3. CASE /\ main' = Merged(job[d].mission)
               /\ job' = [job EXCEPT ![d].after = Merged(job[d].mission)]
               /\ Go(d, "push")
      <4>1. PICK a \in Revisions : a = Merged(job[d].mission)
        BY <2>4, <2>t, MergedHasIt DEF Merge
      <4>2. job' = [job EXCEPT ![d] = [job[d] EXCEPT !.before = job[d].before, !.after = a]]
        <5>1. [job[d] EXCEPT !.before = job[d].before, !.after = a] = [job[d] EXCEPT !.after = a]
          BY <2>t DEF Jobs
        <5> QED
          BY <3>3, <4>1, <5>1
      <4> QED
        BY <2>4, <2>t, <2>r, <3>3, <4>1, <4>2 DEF Merge, ApprovalTypeOK, Places
    <3> QED
      BY <2>4, <3>1, <3>2, <3>3 DEF Merge
  <2>5. CASE Push(d)
    BY <2>5, <2>t, <2>g DEF Push, ApprovalTypeOK, Places
  <2>6. CASE Verify(d)
    BY <2>6, <2>t, <2>g DEF Verify, ApprovalTypeOK, Places
  <2>7. CASE Reset(d)
    BY <2>7, <2>t, <2>e DEF Reset, ApprovalTypeOK
  <2>8. CASE Record(d)
    BY <2>8, <2>t, <2>g DEF Record, ApprovalTypeOK, Places
  <2>9. CASE AppendHistory(d)
    BY <2>9, <2>t, <2>g DEF AppendHistory, ApprovalTypeOK, Places
  <2>10. CASE Settle(d)
    <3>1. \A m \in DOMAIN missions' : "state" \in DOMAIN missions'[m]
      BY <2>10, <2>t DEF Settle, Q!RejectManualReview, Q!ApproveManualReview, Q!MoveTo
    <3> QED
      BY <2>10, <2>t, <2>e, <3>1 DEF Settle, ApprovalTypeOK
  <2>11. CASE PushFails(d)
    BY <2>11, <2>t, <2>g DEF PushFails, ApprovalTypeOK, Places
  <2>12. CASE Die(d)
    BY <2>12, <2>t, <2>e DEF Die, ApprovalTypeOK
  <2> QED
    BY <1>1, <2>1, <2>2, <2>3, <2>4, <2>5, <2>6, <2>7, <2>8, <2>9, <2>10, <2>11,
       <2>12 DEF Step
<1>2. CASE PushUpstream
  BY <1>2, CommitOnTop DEF PushUpstream, ApprovalTypeOK
<1>3. CASE Pull \/ EndDeployment \/ RollBack \/ UNCHANGED vars
  <2>1. <<NoRun>> \in Revisions
    BY DEF Revisions
  <2> QED
    BY <1>3, <2>1 DEF Pull, EndDeployment, RollBack, vars, ApprovalTypeOK
<1>4. ASSUME NEW m \in Missions, Intervene(m) PROVE ApprovalTypeOK'
  <2>1. \A n \in DOMAIN missions' : "state" \in DOMAIN missions'[n]
    BY <1>4 DEF Intervene, Q!Cancel, Q!Resume, Q!MoveTo, ApprovalTypeOK
  <2> QED
    BY <1>4, <2>1 DEF Intervene, ApprovalTypeOK
<1> QED
  BY <1>1, <1>2, <1>3, <1>4 DEF Next

-----------------------------------------------------------------------------
(* What is completed is published.                                           *)

(* Origin keeps what it has, so what was satisfied stays so.                 *)
LEMMA OriginGrows ==
    ASSUME ApprovalTypeOK, [Next]_vars
    PROVE  IsPrefix(origin, origin') /\ Commits(origin) \subseteq Commits(origin')
<1>1. ApprovalTypeOK' /\ origin \in Revisions /\ origin' \in Revisions /\ main \in Revisions
  BY ApprovalTypeNext DEF ApprovalTypeOK
<1>2. IsPrefix(origin, origin)
  BY <1>1, PrefixIsReflexive
<1>3. \/ UNCHANGED origin
      \/ origin' = Append(origin, Upstream)
      \/ IsPrefix(origin, main) /\ origin' = main
  <2>1. ASSUME NEW d \in Deciders, Step(d) \/ PushFails(d) \/ Die(d)
        PROVE  UNCHANGED origin \/ (IsPrefix(origin, main) /\ origin' = main)
    BY <2>1 DEF Step, Validate, Inspect, Survey, Merge, Push, Verify, Reset, Record,
                AppendHistory, Settle, PushFails, Die, git_vars
  <2>2. ASSUME NEW m \in Missions, Intervene(m) PROVE UNCHANGED origin
    BY <2>2 DEF Intervene, git_vars
  <2> QED
    BY <2>1, <2>2 DEF Next, PushUpstream, Pull, EndDeployment, RollBack, vars, git_vars
<1>4. IsPrefix(origin, origin')
  BY <1>1, <1>2, <1>3, CommitOnTop
<1> QED
  BY <1>1, <1>4, PrefixHasFewer

(* A step after which the queue and the records of decisions say no more     *)
(* than before, except of one mission that is on origin.                     *)
LEMMA StillPublished ==
    ASSUME Published, [Next]_vars, rollbacks = 0, ~crossed, NEW good,
           good \in Missions => Satisfied(good),
           \A m \in Missions \ {good} :
               /\ Q!InState(m, {"completed"})' => Q!InState(m, {"completed"})
               /\ record'[m] = record[m]
    PROVE  CompletedIsPublished'
<1>1. \A m \in Missions : Satisfied(m) => Satisfied(m)'
  BY OriginGrows DEF Published, Satisfied
<1> QED
  BY <1>1 DEF Published, CompletedIsPublished, ApprovedIsPublished

LEMMA SomethingElse == \E x : x \notin Missions
BY NoSetContainsEverything

LEMMA QueueMoves ==
    ASSUME ApprovalTypeOK, NEW m \in DOMAIN missions, NEW s, Q!MoveTo(m, s),
           NEW n, n # m \/ s # "completed", Q!InState(n, {"completed"})'
    PROVE  Q!InState(n, {"completed"})
BY DEF ApprovalTypeOK, Q!MoveTo, Q!InState, Q!Known

LEMMA PublishedInit == Init => Published
<1> SUFFICES ASSUME Init PROVE Published
  OBVIOUS
<1>1. CompletedIsPublished
  BY DEF Init, CompletedIsPublished, ApprovedIsPublished, NoRecord, Q!InState, Q!Known
<1>2. (\A d \in Deciders : OnItsWay(d)) /\ OneAtATime
  BY DEF Init, OnItsWay, OneAtATime
<1> QED
  BY <1>1, <1>2, ApprovalTypeInit DEF Published

LEMMA CallStaysPublished ==
    ASSUME Published, [Next]_vars, rollbacks = 0, ~crossed, NEW d \in Deciders,
           Step(d) \/ PushFails(d) \/ Die(d)
    PROVE  CompletedIsPublished' /\ OnItsWay(d)'
<1> DEFINE m == job[d].mission
<1> USE DEF queue_vars, git_vars, call_vars, audit_vars, bound_vars
<1>t. /\ ApprovalTypeOK /\ ApprovalTypeOK'
      /\ OnItsWay(d) /\ pc \in [Deciders -> Places] /\ job \in [Deciders -> Jobs]
      /\ pc[d] # "idle" => job[d].call \in Calls /\ m \in Missions
      /\ job[d] \in Jobs /\ DOMAIN record = Missions
      /\ \A c \in Missions : Satisfied(c) => Satisfied(c)'
  BY ApprovalTypeNext, OriginGrows DEF Published, ApprovalTypeOK, Satisfied
<1>e. End(d) => OnItsWay(d)'
  BY <1>t DEF End, Go, OnItsWay
<1>q. UNCHANGED <<missions, record>> => CompletedIsPublished'
  BY StillPublished, <1>t, SomethingElse DEF Q!InState, Q!Known, Published
<1>1. CASE Validate(d)
  BY <1>1, <1>t, <1>q DEF Validate, Go, OnItsWay
<1>2. CASE Inspect(d)
  BY <1>2, <1>t, <1>q, <1>e DEF Inspect, Fit, Go, OnItsWay, Jobs
<1>3. CASE Survey(d)
  BY <1>3, <1>t, <1>q, <1>e DEF Survey, Go, OnItsWay, Jobs, Satisfied
<1>4. CASE Merge(d)
  BY <1>4, <1>t, <1>q, <1>e, MergedHasIt DEF Merge, Go, OnItsWay, Jobs
<1>5. CASE Push(d)
  BY <1>5, <1>t, <1>q DEF Push, Go, OnItsWay
<1>6. CASE Verify(d)
  BY <1>6, <1>t, <1>q DEF Verify, Go, OnItsWay, Satisfied
<1>7. CASE Reset(d)
  BY <1>7, <1>t, <1>q, <1>e DEF Reset
<1>8. CASE Record(d)
  <2>1. OnItsWay(d)'
    BY <1>8, <1>t DEF Record, Go, OnItsWay, Satisfied
  <2>2. CASE job[d].call = "reject"
    <3>1. ~ record'[m].decision \in {"approved", "reconciled"}
      BY <1>8, <1>t, <2>2 DEF Record, DecisionOf
    <3>2. \A n \in Missions \ {m} : record'[n] = record[n]
      BY <1>8, <1>t DEF Record
    <3>3. UNCHANGED <<missions, origin>> /\ UNCHANGED rollbacks
      BY <1>8 DEF Record
    <3> QED
      BY <2>1, <3>1, <3>2, <3>3
        DEF CompletedIsPublished, ApprovedIsPublished, Published, Satisfied, Q!InState, Q!Known
  <2>3. CASE job[d].call # "reject"
    <3>1. Satisfied(m) /\ UNCHANGED missions
          /\ \A n \in Missions \ {m} : record'[n] = record[n]
      BY <1>8, <1>t, <2>3 DEF Record, OnItsWay
    <3> QED
      BY <2>1, <3>1, StillPublished DEF Q!InState, Q!Known
  <2> QED
    BY <2>2, <2>3
<1>9. CASE AppendHistory(d)
  BY <1>9, <1>t, <1>q DEF AppendHistory, Go, OnItsWay, Satisfied
<1>10. CASE Settle(d)
  <2>1. OnItsWay(d)' /\ UNCHANGED record
    BY <1>10, <1>e DEF Settle
  <2>2. CASE UNCHANGED missions
    BY <2>1, <2>2, <1>q
  <2>3. CASE ~UNCHANGED missions
    <3>1. /\ m \in DOMAIN missions
          /\ \/ job[d].call = "reject" /\ Q!MoveTo(m, "cancelled")
             \/ job[d].call # "reject" /\ Q!MoveTo(m, "completed")
      BY <1>10, <2>3 DEF Settle, Q!RejectManualReview, Q!ApproveManualReview,
                  Q!InState, Q!Known
    <3>2. job[d].call # "reject" => Satisfied(m)
      BY <1>10, <1>t DEF Settle, OnItsWay
    <3>3. CASE job[d].call # "reject"
      <4>1. \A n \in Missions \ {m} : Q!InState(n, {"completed"})' => Q!InState(n, {"completed"})
        BY <3>1, <3>3, <1>t, QueueMoves
      <4> QED
        BY <2>1, <3>2, <3>3, <4>1, StillPublished
    <3>4. CASE job[d].call = "reject"
      <4>1. \A n \in Missions : Q!InState(n, {"completed"})' => Q!InState(n, {"completed"})
        BY <3>1, <3>4, <1>t, QueueMoves
      <4> QED
        BY <2>1, <4>1, StillPublished, SomethingElse
    <3> QED
      BY <3>3, <3>4
  <2> QED
    BY <2>2, <2>3
<1>11. CASE PushFails(d)
  BY <1>11, <1>t, <1>q DEF PushFails, Go, OnItsWay
<1>12. CASE Die(d)
  BY <1>12, <1>t, <1>q, <1>e DEF Die
<1> QED
  BY <1>1, <1>2, <1>3, <1>4, <1>5, <1>6, <1>7, <1>8, <1>9, <1>10, <1>11, <1>12 DEF Step

LEMMA OthersStayPublished ==
    ASSUME Published, [Next]_vars, rollbacks = 0, ~crossed, rollbacks' = 0,
           PushUpstream \/ Pull \/ EndDeployment \/ RollBack \/ UNCHANGED vars
              \/ \E m \in Missions : Intervene(m)
    PROVE  CompletedIsPublished' /\ \A d \in Deciders : OnItsWay(d)'
<1> USE DEF queue_vars, git_vars, call_vars, audit_vars, bound_vars
<1>t. /\ ApprovalTypeOK /\ ApprovalTypeOK'
      /\ \A d \in Deciders : OnItsWay(d)
      /\ Commits(origin) \subseteq Commits(origin')
  BY ApprovalTypeNext, OriginGrows DEF Published
<1>1. UNCHANGED <<pc, job, record>>
  BY DEF PushUpstream, Pull, EndDeployment, RollBack, Intervene, vars
<1>2. Commits(main) \subseteq Commits(origin) => Commits(main') \subseteq Commits(origin')
  <2>1. CASE Pull
    BY <2>1 DEF Pull
  <2>2. CASE RollBack
    BY <2>2, <1>t DEF RollBack, ApprovalTypeOK
  <2> QED
    BY <1>t, <2>1, <2>2 DEF PushUpstream, EndDeployment, Intervene, vars
<1>3. \A d \in Deciders : OnItsWay(d)'
  BY <1>t, <1>1, <1>2 DEF OnItsWay, Satisfied
<1>4. \A n \in Missions : Q!InState(n, {"completed"})' => Q!InState(n, {"completed"})
  <2>1. CASE UNCHANGED missions
    BY <2>1 DEF Q!InState, Q!Known
  <2>2. ASSUME NEW m \in Missions, Intervene(m)
        PROVE  \A n \in Missions : Q!InState(n, {"completed"})' => Q!InState(n, {"completed"})
    <3>1. PICK s : Q!MoveTo(m, s) /\ s \in {"cancelled", "pending"} /\ m \in DOMAIN missions
      BY <2>2 DEF Intervene, Q!Cancel, Q!Resume, Q!InState, Q!Known
    <3> QED
      BY <3>1, <1>t, QueueMoves
  <2> QED
    BY <2>1, <2>2 DEF PushUpstream, Pull, EndDeployment, RollBack, vars
<1>5. CompletedIsPublished'
  BY <1>1, <1>4, StillPublished, SomethingElse
<1> QED
  BY <1>3, <1>5

(* A call of one decider leaves what the others do alone, and only its first *)
(* step makes it overlap another.                                            *)
LEMMA CallAlone ==
    ASSUME ApprovalTypeOK, NEW d \in Deciders, Step(d) \/ PushFails(d) \/ Die(d)
    PROVE  /\ \A e \in Deciders \ {d} : pc'[e] = pc[e]
           /\ pc[d] # "idle" => UNCHANGED crossed
           /\ pc[d] = "idle" => crossed' = (crossed \/ ~AtRest)
<1>t. pc \in [Deciders -> Places]
  BY DEF ApprovalTypeOK
<1>1. CASE Validate(d)
  BY <1>t, <1>1 DEF Validate, Go
<1>2. CASE ~Validate(d)
  BY <1>t, <1>2 DEF Step, Inspect, Survey, Merge, Push, Verify, Reset, Record,
         AppendHistory, Settle, PushFails, Die, End, Go
<1> QED
  BY <1>1, <1>2

LEMMA OneAtATimeNext ==
    ASSUME ApprovalTypeOK, OneAtATime, [Next]_vars
    PROVE  OneAtATime' /\ (~crossed' => ~crossed)
<1>t. crossed \in BOOLEAN
  BY DEF ApprovalTypeOK
<1>1. ASSUME NEW d \in Deciders, Step(d) \/ PushFails(d) \/ Die(d)
      PROVE  OneAtATime' /\ (~crossed' => ~crossed)
  <2>1. /\ \A e \in Deciders \ {d} : pc'[e] = pc[e]
        /\ ~crossed' => ~crossed
        /\ pc[d] = "idle" /\ ~crossed' => AtRest
    BY <1>t, <1>1, CallAlone
  <2>2. pc[d] = "idle" /\ ~crossed' => OneAtATime'
    BY <2>1 DEF OneAtATime, AtRest
  <2>3. pc[d] # "idle" /\ ~crossed' => OneAtATime'
    BY <2>1 DEF OneAtATime
  <2>4. crossed' => OneAtATime'
    BY DEF OneAtATime
  <2> QED
    BY <2>1, <2>2, <2>3, <2>4
<1>2. CASE UNCHANGED <<pc, crossed>>
  BY <1>2 DEF OneAtATime
<1> QED
  BY <1>1, <1>2 DEF Next, PushUpstream, Pull, EndDeployment, RollBack, Intervene, vars, call_vars

LEMMA PublishedNext == Published /\ [Next]_vars => Published'
<1> SUFFICES ASSUME Published, [Next]_vars PROVE Published'
  OBVIOUS
<1>1. ApprovalTypeOK' /\ OneAtATime' /\ (~crossed' => ~crossed)
  BY ApprovalTypeNext, OneAtATimeNext DEF Published
<1>2. CASE rollbacks' # 0 \/ crossed'
  BY <1>1, <1>2 DEF Published, CompletedIsPublished
<1>3. CASE rollbacks' = 0 /\ ~crossed'
  <2>1. rollbacks = 0 /\ ~crossed
    <3>1. rollbacks \in Nat
      BY DEF Published, ApprovalTypeOK
    <3>2. UNCHANGED rollbacks \/ rollbacks' = rollbacks + 1
      BY DEF Next, Step, Validate, Inspect, Survey, Merge, Push, Verify, Reset, Record,
             AppendHistory, Settle, PushFails, Die, PushUpstream, Pull, EndDeployment,
             RollBack, Intervene, vars, bound_vars
    <3> QED
      BY <1>1, <1>3, <3>1, <3>2
  <2>2. ASSUME NEW d \in Deciders, Step(d) \/ PushFails(d) \/ Die(d)
        PROVE  CompletedIsPublished' /\ \A e \in Deciders : OnItsWay(e)'
    <3>1. CompletedIsPublished' /\ OnItsWay(d)'
      BY <2>1, <2>2, CallStaysPublished
    <3>2. ASSUME NEW e \in Deciders \ {d} PROVE OnItsWay(e)'
      <4>1. pc[e] = "idle"
        BY <1>1, <1>3, <2>1, <2>2, CallAlone DEF Published, OneAtATime, AtRest
      <4>2. pc'[e] = "idle"
        BY <2>2, <4>1, CallAlone DEF Published
      <4> QED
        BY <4>2 DEF OnItsWay
    <3> QED
      BY <3>1, <3>2
  <2>3. CompletedIsPublished' /\ \A e \in Deciders : OnItsWay(e)'
    BY <1>3, <2>1, <2>2, OthersStayPublished DEF Next
  <2> QED
    BY <1>1, <2>3 DEF Published
<1> QED
  BY <1>2, <1>3

(* Until decisions overlap or a deployment is rolled back, what the service  *)
(* completed or recorded as approved is on origin's main.                    *)
THEOREM CompletedAlwaysPublished == Spec => []CompletedIsPublished
<1>1. Published => CompletedIsPublished
  BY DEF Published
<1>2. Published /\ [Next]_vars => Published'
  BY PublishedNext
<1> QED
  BY PublishedInit, <1>1, <1>2, PTL DEF Spec

-----------------------------------------------------------------------------
(* What is not published is undone.                                          *)

LEMMA UndoneInit == Init => Undone
<1> SUFFICES ASSUME Init PROVE Undone
  OBVIOUS
<1>1. ApprovalTypeOK
  BY ApprovalTypeInit
<1>2. IsPrefix(main, origin)
  BY <1>1, PrefixIsReflexive DEF Init, ApprovalTypeOK
<1>3. ~unmerged /\ \A d \in Deciders : pc[d] = "idle"
  BY DEF Init
<1> QED
  BY <1>1, <1>2, <1>3 DEF Undone, Accounted

(* A revision on origin stays there, and origin itself is there.             *)
LEMMA StaysOnOrigin ==
    ASSUME ApprovalTypeOK, [Next]_vars, NEW r \in Revisions, IsPrefix(r, origin)
    PROVE  IsPrefix(r, origin')
<1>1. origin \in Revisions /\ origin' \in Revisions /\ IsPrefix(origin, origin')
  BY OriginGrows, ApprovalTypeNext DEF ApprovalTypeOK
<1> QED
  BY <1>1, PrefixIsTransitive

LEMMA CallIsAccounted ==
    ASSUME ApprovalTypeOK, Accounted, [Next]_vars, NEW d \in Deciders, Step(d) \/ PushFails(d)
    PROVE  Accounted'
<1> USE DEF queue_vars, git_vars, call_vars, audit_vars, bound_vars
<1>t. /\ main \in Revisions /\ origin \in Revisions /\ main' \in Revisions /\ origin' \in Revisions
      /\ pc \in [Deciders -> Places] /\ job \in [Deciders -> Jobs]
      /\ \A e \in Deciders : job[e].before \in Revisions
      /\ IsPrefix(main, main) /\ IsPrefix(origin, origin)
  BY ApprovalTypeNext, PrefixIsReflexive DEF ApprovalTypeOK, Jobs
<1>a. /\ ~IsPrefix(main, origin) => \E e \in Deciders : pc[e] \in {"push", "reset"}
      /\ unmerged => \E e \in Deciders : pc[e] = "reset"
      /\ \A e \in Deciders :
            pc[e] \in {"inspected", "merge", "push", "verify", "reset"} =>
               IsPrefix(job[e].before, origin)
  BY DEF Accounted
<1> DEFINE At(e) == pc[e] \in {"inspected", "merge", "push", "verify", "reset"}
<1>f. /\ \A e \in Deciders \ {d} : pc'[e] = pc[e] /\ job'[e] = job[e]
      /\ pc'[d] \in Places
  <2>1. \/ End(d)
        \/ \E place \in Places : /\ Go(d, place)
                                 /\ \/ UNCHANGED job
                                    \/ \E j : job' = [job EXCEPT ![d] = j]
    BY <1>t DEF Step, Validate, Inspect, Survey, Merge, Push, Verify, Reset, Record,
                AppendHistory, Settle, PushFails, Places
  <2> QED
    BY <1>t, <2>1 DEF End, Go, Places
<1>g. At(d)' => IsPrefix(job'[d].before, origin')
  <2>1. CASE Inspect(d) /\ At(d)'
    <3>1. job'[d].before = main /\ main = origin /\ UNCHANGED origin
      BY <1>t, <2>1 DEF Inspect, Fit, End, Go, Jobs
    <3> QED
      BY <1>t, <3>1
  <2>2. CASE ~Inspect(d) /\ At(d)'
    <3>1. At(d) /\ job'[d].before = job[d].before
      BY <1>t, <2>2 DEF Step, Validate, Survey, Merge, Push, Verify, Reset, Record,
                 AppendHistory, Settle, PushFails, End, Go, Jobs
    <3>2. IsPrefix(job[d].before, origin)
      BY <1>a, <3>1
    <3>3. IsPrefix(job[d].before, origin')
      BY <1>t, <3>2, StaysOnOrigin
    <3> QED
      BY <3>1, <3>3
  <2> QED
    BY <2>1, <2>2
<1>h. \A e \in Deciders : At(e)' => IsPrefix(job'[e].before, origin')
  <2> SUFFICES ASSUME NEW e \in Deciders \ {d}, At(e)' PROVE IsPrefix(job'[e].before, origin')
    BY <1>g
  <2>1. At(e) /\ job'[e].before = job[e].before
    BY <1>f
  <2>2. IsPrefix(job[e].before, origin)
    BY <1>a, <2>1
  <2> QED
    BY <1>t, <2>1, <2>2, StaysOnOrigin
<1>u. unmerged' => \E e \in Deciders : pc'[e] = "reset"
  <2>1. CASE Merge(d)
    BY <1>t, <1>a, <1>f, <2>1 DEF Merge, End, Go
  <2>2. CASE Reset(d)
    BY <2>2 DEF Reset
  <2>3. CASE ~Merge(d) /\ ~Reset(d)
    <3>1. UNCHANGED unmerged /\ pc[d] # "reset"
      BY <2>3 DEF Step, Validate, Inspect, Survey, Push, Verify, Record,
                 AppendHistory, Settle, PushFails
    <3> QED
      BY <1>a, <1>f, <3>1
  <2> QED
    BY <2>1, <2>2, <2>3
<1>m. ~IsPrefix(main', origin') => \E e \in Deciders : pc'[e] \in {"push", "reset"}
  <2>1. CASE Merge(d)
    <3>1. \/ pc'[d] \in {"push", "reset"}
          \/ /\ pc[d] = "merge" /\ UNCHANGED <<main, origin>>
      BY <1>t, <2>1 DEF Merge, End, Go
    <3> QED
      BY <1>a, <1>f, <3>1
  <2>2. CASE Reset(d)
    <3>1. main' = job[d].before /\ pc[d] = "reset" /\ UNCHANGED origin
      BY <2>2 DEF Reset
    <3> QED
      BY <1>a, <3>1
  <2>3. CASE Push(d) \/ PushFails(d)
    <3>1. \/ main' = main /\ origin' = main
          \/ pc'[d] = "reset"
      BY <1>t, <2>3 DEF Push, PushFails, Go
    <3> QED
      BY <1>t, <3>1
  <2>4. CASE ~Merge(d) /\ ~Reset(d) /\ ~Push(d) /\ ~PushFails(d)
    <3>1. UNCHANGED <<main, origin>> /\ pc[d] \notin {"push", "reset"}
      BY <2>4 DEF Step, Validate, Inspect, Survey, Verify, Record, AppendHistory, Settle
    <3> QED
      BY <1>a, <1>f, <3>1
  <2> QED
    BY <2>1, <2>2, <2>3, <2>4
<1> QED
  BY <1>h, <1>u, <1>m DEF Accounted

LEMMA OthersAreAccounted ==
    ASSUME ApprovalTypeOK, Accounted, [Next]_vars, rollbacks = 0, rollbacks' = 0,
           PushUpstream \/ Pull \/ EndDeployment \/ RollBack \/ UNCHANGED vars
              \/ \E m \in Missions : Intervene(m)
    PROVE  Accounted'
<1>t. /\ main \in Revisions /\ origin \in Revisions /\ origin' \in Revisions
      /\ \A e \in Deciders : job[e].before \in Revisions
      /\ IsPrefix(origin, origin)
  BY ApprovalTypeNext, PrefixIsReflexive DEF ApprovalTypeOK, Jobs
<1>1. UNCHANGED <<pc, job, unmerged>>
  BY <1>t DEF PushUpstream, Pull, EndDeployment, RollBack, Intervene, vars, git_vars, call_vars,
         ApprovalTypeOK
<1>2. IsPrefix(main, origin) => IsPrefix(main', origin')
  <2>1. CASE Pull
    BY <1>t, <2>1 DEF Pull
  <2>2. CASE ~Pull
    <3>1. UNCHANGED main
      BY <2>2 DEF PushUpstream, EndDeployment, RollBack, Intervene, vars, git_vars,
                 ApprovalTypeOK
    <3> QED
      BY <1>t, <3>1, StaysOnOrigin
  <2> QED
    BY <2>1, <2>2
<1>3. \A e \in Deciders : IsPrefix(job[e].before, origin) => IsPrefix(job[e].before, origin')
  BY <1>t, StaysOnOrigin
<1> QED
  BY <1>1, <1>2, <1>3 DEF Accounted

LEMMA UndoneNext == Undone /\ [Next]_vars => Undone'
<1> SUFFICES ASSUME Undone, [Next]_vars PROVE Undone'
  OBVIOUS
<1>1. ApprovalTypeOK /\ ApprovalTypeOK' /\ rollbacks \in Nat /\ deaths \in Nat
  BY ApprovalTypeNext DEF Undone, ApprovalTypeOK
<1>2. /\ UNCHANGED rollbacks \/ rollbacks' = rollbacks + 1
      /\ UNCHANGED deaths \/ deaths' = deaths + 1
      /\ (\E d \in Deciders : Die(d)) => deaths' = deaths + 1
  BY DEF Next, Step, Validate, Inspect, Survey, Merge, Push, Verify, Reset, Record,
         AppendHistory, Settle, PushFails, Die, PushUpstream, Pull, EndDeployment,
         RollBack, Intervene, vars, bound_vars
<1> SUFFICES ASSUME deaths' = 0, rollbacks' = 0 PROVE Accounted'
  BY <1>1 DEF Undone
<1>3. deaths = 0 /\ rollbacks = 0 /\ Accounted /\ ~ \E d \in Deciders : Die(d)
  BY <1>1, <1>2 DEF Undone
<1>4. ASSUME NEW d \in Deciders, Step(d) \/ PushFails(d) PROVE Accounted'
  BY <1>1, <1>3, <1>4, CallIsAccounted
<1> QED
  BY <1>1, <1>3, <1>4, OthersAreAccounted DEF Next

(* When no decision is being taken, the checkout holds nothing that was not  *)
(* published, unless a call ended halfway or a deployment was rolled back.   *)
THEOREM AtRestAlwaysPublished == Spec => []AtRestPublished
<1>1. Undone => AtRestPublished
  BY DEF Undone, Accounted, AtRestPublished, AtRest
<1> QED
  BY UndoneInit, UndoneNext, <1>1, PTL DEF Spec
=============================================================================
