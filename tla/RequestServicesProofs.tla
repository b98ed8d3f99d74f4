------------------------- MODULE RequestServicesProofs -------------------------
(***************************************************************************)
(* Proofs, for every value of the constants, of invariants TLC checks on   *)
(* the components of MCRequestServices.  A behaviour is one of the         *)
(* component it was chosen for at its start, so that each proof is about   *)
(* the steps of one component, with the inductive invariant its module     *)
(* states, over the variables s1, s2... the module is given.               *)
(***************************************************************************)
EXTENDS MCRequestServices, FiniteSetTheorems, WellFoundedInduction, TLAPS

AnyVars == <<component, vars, After0>>

(* A step of the sum is a step of its component, or changes nothing.         *)
LEMMA Selected ==
    ASSUME [AnyNext]_AnyVars
    PROVE  /\ component' = component
           /\ component = "limiter" => Limiter!Next \/ UNCHANGED Limiter!vars
           /\ component = "store" => Store!Next \/ UNCHANGED Store!vars
           /\ component = "records" => Records!Next \/ UNCHANGED Records!vars
           /\ component = "api" => Api!Next \/ UNCHANGED Api!vars
           /\ component = "ledger" => Ledger!Next \/ UNCHANGED Ledger!vars
           /\ component = "outcomes" => Outcomes!Next \/ UNCHANGED Outcomes!vars
           /\ component = "models" => Models!Next \/ UNCHANGED Models!vars
           /\ component = "routing" => Routing!Next \/ UNCHANGED Routing!vars
<1>1. CASE AnyNext
  BY <1>1, Zenon DEF AnyNext
<1>2. CASE UNCHANGED AnyVars
  BY <1>2 DEF AnyVars, After0, After9, After11, After12, After13, After17,
              Limiter!vars, Limiter!limits_vars, Limiter!history_vars,
              Store!vars, Store!file_vars, Store!lock_vars, Store!history_vars,
              Outcomes!vars, Outcomes!coordinator_vars, Outcomes!writer_vars,
              Ledger!vars, Models!vars,
              Routing!vars, Routing!health_vars, Routing!call_vars, Routing!history_vars,
              Api!vars, Api!server_vars, Api!request_vars,
              Records!vars, Records!worker_vars, Records!disk_vars, Records!reader_vars,
              Records!bound_vars
<1> QED
  BY <1>1, <1>2

-----------------------------------------------------------------------------
(* The limiter of requests; s1 clock, s2 file, s3 mutex, s4 stuck, s5 lock,  *)
(* s6 pc, s7 call, s8 seen, s9 granted, s10 terms, s11 wiped.                *)

(* Sets are counted alike in the limiter and here.                           *)
LEMMA SameSets ==
    /\ \A S : Limiter!IsFiniteSet(S) <=> IsFiniteSet(S)
    /\ \A S : Limiter!Cardinality(S) = Cardinality(S)
BY Zenon DEF Limiter!IsFiniteSet, IsFiniteSet, Limiter!Cardinality, Cardinality

LEMMA BlankIsState ==
    /\ Limiter!Blank \in Limiter!States /\ Limiter!Blank # Limiter!Missing
    /\ Limiter!Missing \notin Limiter!States
    /\ Limiter!Blank.config = Limiter!NoConfig /\ Limiter!Missing.config = Limiter!NoConfig
    /\ Limiter!Blank.entries = {} /\ ~Limiter!NoConfig.enabled
<1>1. Limiter!Blank \in Limiter!States
  BY FS_EmptySet, SameSets DEF Limiter!Blank, Limiter!States
<1>2. "entries" \in DOMAIN Limiter!Blank /\ "entries" \notin DOMAIN Limiter!Missing
  BY DEF Limiter!Blank, Limiter!Missing
<1>3. \A s \in Limiter!States : "entries" \in DOMAIN s
  BY DEF Limiter!States
<1>4. /\ Limiter!Blank.config = Limiter!NoConfig /\ Limiter!Missing.config = Limiter!NoConfig
      /\ Limiter!Blank.entries = {} /\ ~Limiter!NoConfig.enabled
  BY DEF Limiter!Blank, Limiter!Missing, Limiter!NoConfig
<1> QED
  BY <1>1, <1>2, <1>3, <1>4

(* A valid configuration is one, and stays valid when it changes.            *)
LEMMA ValidChanges ==
    /\ Limiter!NoConfig \notin Limiter!Valid
    /\ \A d \in Limiter!Valid, c \in LimiterChanges : Limiter!Changed(d, c) \in Limiter!Valid
<1>1. Limiter!NoConfig \notin Limiter!Valid
  BY DEF Limiter!NoConfig, Limiter!Valid
<1>2. ASSUME NEW d \in Limiter!Valid, NEW c \in LimiterChanges
      PROVE  Limiter!Changed(d, c) \in Limiter!Valid
  <2>1. /\ DOMAIN d = {"capacity", "window", "enabled"}
        /\ d["capacity"] \in Nat /\ d["window"] \in Nat \ {0} /\ d["enabled"] \in BOOLEAN
    BY DEF Limiter!Valid
  <2>2. /\ "capacity" \in DOMAIN c => c["capacity"] \in Nat
        /\ "window" \in DOMAIN c => c["window"] \in Nat \ {0}
        /\ "enabled" \in DOMAIN c => c["enabled"] \in BOOLEAN
    BY LimiterAssumption
  <2> QED
    BY <2>1, <2>2 DEF Limiter!Changed, Limiter!Valid
<1> QED
  BY <1>1, <1>2

LEMMA LimiterBegins == Limiter!Init => Limiter!LimiterInv
<1> SUFFICES ASSUME Limiter!Init PROVE Limiter!LimiterInv
  OBVIOUS
<1>1. Limiter!NoConfig \in Limiter!Terms
  BY DEF Limiter!NoConfig, Limiter!Terms
<1>2. s1 \in Int
  BY DEF Limiter!Init
<1>3. Limiter!LimiterShape
  BY <1>1, <1>2 DEF Limiter!Init, Limiter!LimiterShape
<1>4. Limiter!WritersAlone
  BY DEF Limiter!Init, Limiter!WritersAlone
<1>5. Limiter!FileCounts
  BY BlankIsState DEF Limiter!Init, Limiter!FileCounts
<1> QED
  BY <1>3, <1>4, <1>5 DEF Limiter!LimiterInv

(* Places and calls a step of t leaves as they are.                          *)
OthersStay(t) ==
    /\ DOMAIN s6' = LimiterThreads /\ DOMAIN s7' = LimiterThreads /\ DOMAIN s8' = LimiterThreads
    /\ \A u \in LimiterThreads \ {t} : s6'[u] = s6[u] /\ s7'[u] = s7[u] /\ s8'[u] = s8[u]

(* A step that returns from a call.                                          *)
LEMMA Released ==
    ASSUME Limiter!LimiterShape, NEW t \in LimiterThreads, Limiter!Release(t)
    PROVE  OthersStay(t) /\ s6'[t] = "idle" /\ s5' \in {s5, Limiter!NoOne}
           /\ (s5 # t => s5' = s5)
BY DEF Limiter!LimiterShape, OthersStay, Limiter!Release, Limiter!Go

(* What keeps the shape of the others' calls.                                *)
LEMMA ShapeKept ==
    ASSUME Limiter!LimiterShape, NEW t \in LimiterThreads, OthersStay(t), UNCHANGED s1,
           s10' \in Limiter!Terms, s9' \subseteq Limiter!Entries,
              s2' = Limiter!Missing \/ s2' \in Limiter!States,
           s6'[t] # "idle" => Limiter!CallOK(t)',
           s6'[t] \in {"blank", "loaded"} => s8'[t] \in Limiter!States
    PROVE  Limiter!LimiterShape'
BY DEF Limiter!LimiterShape, OthersStay, Limiter!CallOK

(* The steps before a call has its locks, and those of readers, change       *)
(* nothing but the caller.                                                   *)
LEMMA QuietSteps ==
    ASSUME Limiter!LimiterInv, NEW t \in LimiterThreads, OthersStay(t),
           UNCHANGED <<s1, s2, s9, s10, s11>>,
           s6'[t] # "idle" => Limiter!CallOK(t)',
           s6'[t] \in {"blank", "loaded"} => s8'[t] \in Limiter!States,
           \/ s5' = s5
           \/ s5 = Limiter!NoOne
           \/ s5 = t,
           ~s11 => (Limiter!Writing(t)' =>
               /\ s6'[t] \in {"look", "blank", "loaded"} => s5' = t
               /\ s6'[t] = "blank" => s8'[t] = Limiter!Blank /\ s2 \in {Limiter!Missing,
                  Limiter!Blank}
               /\ s6'[t] = "loaded" => s8'[t] = s2)
    PROVE  Limiter!LimiterInv'
<1>1. Limiter!LimiterShape'
  BY ShapeKept DEF Limiter!LimiterInv, Limiter!LimiterShape
<1>2. ASSUME ~s11 PROVE Limiter!WritersAlone' /\ Limiter!FileCounts'
  <2>1. Limiter!WritersAlone /\ Limiter!FileCounts
    BY <1>2 DEF Limiter!LimiterInv
  <2>2. Limiter!FileCounts'
    BY <2>1 DEF Limiter!FileCounts
  <2>3. Limiter!WritersAlone'
    BY <1>2, <2>1, LimiterAssumption DEF Limiter!WritersAlone, OthersStay, Limiter!Writing
  <2> QED
    BY <2>2, <2>3
<1> QED
  BY <1>1, <1>2 DEF Limiter!LimiterInv

LEMMA TickStep == ASSUME Limiter!LimiterInv, Limiter!Tick PROVE Limiter!LimiterInv'
<1> DEFINE window == s10.window
<1>1. s1' = s1 + 1 /\ s1 \in Int /\ window \in Int
  BY DEF Limiter!Tick, Limiter!LimiterInv, Limiter!LimiterShape, Limiter!Terms
<1>2. UNCHANGED <<s2, s5, s6, s7, s8, s9, s10, s11>>
  BY DEF Limiter!Tick, Limiter!limits_vars, Limiter!history_vars
<1>3. Limiter!LimiterShape'
  BY <1>1, <1>2 DEF Limiter!LimiterInv, Limiter!LimiterShape, Limiter!CallOK
<1>4. ASSUME ~s11 PROVE Limiter!WritersAlone' /\ Limiter!FileCounts'
  <2>1. Limiter!WritersAlone'
    BY <1>2, <1>4 DEF Limiter!LimiterInv, Limiter!WritersAlone, Limiter!Writing
  <2>2. \A g \in s9 : g.at \in Int
    BY DEF Limiter!LimiterInv, Limiter!LimiterShape, Limiter!Entries
  <2>3. {g \in s9 : g.at > s1' - window} \subseteq {g \in s9 : g.at > s1 - window}
    <3> HIDE DEF window
    <3> QED
      BY <1>1, <2>2
  <2>4. Limiter!FileCounts'
    BY <1>2, <1>4, <2>3 DEF Limiter!LimiterInv, Limiter!FileCounts
  <2> QED
    BY <2>1, <2>4
<1> QED
  BY <1>2, <1>3, <1>4 DEF Limiter!LimiterInv

(* Steps of a call before it has loaded the file, and returns without a      *)
(* change.                                                                   *)
LEMMA ReadingStep ==
    ASSUME Limiter!LimiterInv, NEW t \in LimiterThreads,
           \/ Limiter!Call(t) \/ Limiter!EnterProcess(t) \/ Limiter!EnterFile(t)
           \/ Limiter!LockTimesOut(t)
           \/ Limiter!Load(t) \/ Limiter!Return(t)
    PROVE  Limiter!LimiterInv'
<1>0. Limiter!LimiterShape /\ (~s11 => Limiter!WritersAlone)
  BY DEF Limiter!LimiterInv
<1>1. CASE Limiter!Call(t)
  <2>1. PICK c \in Limiter!Calls :
            /\ s7' = [s7 EXCEPT ![t] =
                           [op |-> c.op, id |-> c.id, config |-> c.config,
                            changes |-> c.changes, now |-> s1]]
            /\ s6' = [s6 EXCEPT ![t] = IF c.op = "read" THEN "look" ELSE "enter"]
    BY <1>1 DEF Limiter!Call, Limiter!Go
  <2>2. UNCHANGED <<s1, s2, s5, s8, s9, s10, s11>>
    BY <1>1 DEF Limiter!Call, Limiter!limits_vars, Limiter!history_vars
  <2>3. /\ c.op = "register" => c.id \in LimitedRequests
        /\ c.op = "configure" => c.config \in LimiterConfigs
        /\ c.op = "update" => c.changes \in LimiterChanges
        /\ c.op = "remove" => c.config = Limiter!NoConfig
    BY DEF Limiter!Calls
  <2>4. OthersStay(t) /\ Limiter!CallOK(t)'
    BY <1>0, <2>1, <2>2, <2>3 DEF Limiter!LimiterShape, OthersStay, Limiter!CallOK
  <2>5. s6'[t] \in {"look", "enter"} /\ (s6'[t] = "look" => s7'[t].op = "read")
    BY <1>0, <2>1 DEF Limiter!LimiterShape
  <2> QED
    BY <2>2, <2>4, <2>5, QuietSteps DEF Limiter!Writing
<1>2. CASE Limiter!EnterProcess(t)
  <2>1. /\ s6[t] = "enter" /\ s6' = [s6 EXCEPT ![t] = IF Limiter!Writing(t) THEN "lock" ELSE "look"]
        /\ UNCHANGED <<s1, s2, s5, s7, s8, s9, s10, s11>>
    BY <1>2 DEF Limiter!EnterProcess, Limiter!Go, Limiter!history_vars
  <2>2. OthersStay(t) /\ Limiter!CallOK(t)'
    BY <1>0, <2>1 DEF Limiter!LimiterShape, OthersStay, Limiter!CallOK
  <2>3. s6'[t] = IF Limiter!Writing(t) THEN "lock" ELSE "look"
    BY <1>0, <2>1 DEF Limiter!LimiterShape
  <2> QED
    BY <2>1, <2>2, <2>3, QuietSteps DEF Limiter!Writing
<1>3. CASE Limiter!EnterFile(t)
  <2>1. /\ s6[t] = "lock" /\ s6' = [s6 EXCEPT ![t] = "look"] /\ s5 = Limiter!NoOne /\ s5' = t
        /\ UNCHANGED <<s1, s2, s7, s8, s9, s10, s11>>
    BY <1>3 DEF Limiter!EnterFile, Limiter!Go, Limiter!history_vars
  <2>2. OthersStay(t) /\ Limiter!CallOK(t)' /\ s6'[t] = "look"
    BY <1>0, <2>1 DEF Limiter!LimiterShape, OthersStay, Limiter!CallOK
  <2> QED
    BY <2>1, <2>2, QuietSteps
<1>4. CASE Limiter!LockTimesOut(t)
  <2>1. /\ s6' = [s6 EXCEPT ![t] = "idle"] /\ s7' = [s7 EXCEPT ![t] = Limiter!NoCall]
        /\ UNCHANGED <<s1, s2, s5, s8, s9, s10, s11>>
    BY <1>4 DEF Limiter!LockTimesOut, Limiter!Go, Limiter!history_vars
  <2>2. OthersStay(t) /\ s6'[t] = "idle"
    BY <1>0, <2>1 DEF Limiter!LimiterShape, OthersStay
  <2> QED
    BY <2>1, <2>2, QuietSteps
<1>5. CASE Limiter!Load(t)
  <2>1. /\ s6[t] = "look"
        /\ s8' = [s8 EXCEPT ![t] = IF s2 = Limiter!Missing THEN Limiter!Blank ELSE s2]
        /\ s6' = [s6 EXCEPT ![t] = IF s2 = Limiter!Missing THEN "blank" ELSE "loaded"]
        /\ UNCHANGED <<s1, s2, s5, s7, s9, s10, s11>>
    BY <1>5 DEF Limiter!Load, Limiter!Go, Limiter!limits_vars, Limiter!history_vars
  <2>2. OthersStay(t) /\ Limiter!CallOK(t)'
    BY <1>0, <2>1 DEF Limiter!LimiterShape, OthersStay, Limiter!CallOK
  <2>3. /\ s8'[t] = IF s2 = Limiter!Missing THEN Limiter!Blank ELSE s2
        /\ s6'[t] = IF s2 = Limiter!Missing THEN "blank" ELSE "loaded"
    BY <1>0, <2>1 DEF Limiter!LimiterShape
  <2>4. s8'[t] \in Limiter!States
    BY <1>0, <2>3, BlankIsState DEF Limiter!LimiterShape
  <2>5. ~s11 /\ Limiter!Writing(t)' => s5' = t
    BY <1>0, <2>1 DEF Limiter!WritersAlone, Limiter!Writing
  <2> QED
    BY <2>1, <2>2, <2>3, <2>4, <2>5, QuietSteps
<1>6. CASE Limiter!Return(t)
  <2>1. Limiter!Release(t) /\ UNCHANGED <<s1, s2, s9, s10, s11>>
    BY <1>6 DEF Limiter!Return, Limiter!history_vars
  <2>2. OthersStay(t) /\ s6'[t] = "idle" /\ (s5' = s5 \/ s5 = t)
    BY <1>0, <2>1, Released
  <2> QED
    BY <2>1, <2>2, QuietSteps
<1> QED
  BY <1>1, <1>2, <1>3, <1>4, <1>5, <1>6

(* The second step of loading a file that was missing.                       *)
LEMMA BlankStep ==
    ASSUME Limiter!LimiterInv, NEW t \in LimiterThreads, Limiter!WriteBlank(t)
    PROVE  Limiter!LimiterInv'
<1>1. /\ s6[t] = "blank" /\ s6' = [s6 EXCEPT ![t] = "loaded"] /\ s2' = Limiter!Blank
      /\ s11' = (s11 \/ s2 \notin {Limiter!Missing, Limiter!Blank})
      /\ UNCHANGED <<s1, s5, s7, s8, s9, s10>>
  BY DEF Limiter!WriteBlank, Limiter!Go, Limiter!limits_vars
<1>2. OthersStay(t) /\ Limiter!CallOK(t)' /\ s8'[t] \in Limiter!States /\ s6'[t] = "loaded"
  BY <1>1 DEF Limiter!LimiterInv, Limiter!LimiterShape, OthersStay, Limiter!CallOK
<1>3. Limiter!LimiterShape'
  BY <1>1, <1>2, BlankIsState, ShapeKept DEF Limiter!LimiterInv, Limiter!LimiterShape
<1>4. ASSUME ~s11' PROVE Limiter!WritersAlone' /\ Limiter!FileCounts'
  <2>1. ~s11 /\ s2 \in {Limiter!Missing,
     Limiter!Blank} /\ Limiter!WritersAlone /\ Limiter!FileCounts /\ Limiter!LimiterShape
    BY <1>1, <1>4 DEF Limiter!LimiterInv
  <2>2. s10 = Limiter!NoConfig /\ ~s10.enabled
    BY <2>1, BlankIsState DEF Limiter!FileCounts
  <2>3. Limiter!FileCounts'
    BY <1>1, <2>2, BlankIsState DEF Limiter!FileCounts
  <2>4. ASSUME NEW u \in LimiterThreads, Limiter!Writing(u)'
        PROVE  /\ s6'[u] \in {"look", "blank", "loaded"} => s5' = u
               /\ s6'[u] = "blank" => s8'[u] = Limiter!Blank /\ s2' \in {Limiter!Missing,
                  Limiter!Blank}
               /\ s6'[u] = "loaded" => s8'[u] = s2'
    <3>1. Limiter!Writing(u)
      BY <1>1, <2>4 DEF Limiter!Writing
    <3>2. CASE u = t
      BY <1>1, <1>2, <2>1, <3>1, <3>2 DEF Limiter!WritersAlone
    <3>3. CASE u # t
      <4>1. s6'[u] = s6[u] /\ s8'[u] = s8[u]
        BY <1>1, <1>2, <3>3 DEF OthersStay
      <4>2. s6[u] = "loaded" => s2 # Limiter!Missing
        BY <2>1, <3>1, BlankIsState DEF Limiter!WritersAlone, Limiter!LimiterShape
      <4> QED
        BY <1>1, <2>1, <3>1, <4>1, <4>2 DEF Limiter!WritersAlone
    <3> QED
      BY <3>2, <3>3
  <2> QED
    BY <2>3, <2>4 DEF Limiter!WritersAlone
<1> QED
  BY <1>3, <1>4 DEF Limiter!LimiterInv

(* Whoever may write is alone past the lock: what it does to the file        *)
(* concerns no other call.                                                   *)
LEMMA WriterStep ==
    ASSUME Limiter!LimiterInv, NEW t \in LimiterThreads, Limiter!Release(t),
           s6[t] = "loaded", Limiter!Writing(t), UNCHANGED <<s1, s11>>,
           s10' \in Limiter!Terms, s9' \subseteq Limiter!Entries,
              s2' = Limiter!Missing \/ s2' \in Limiter!States,
           ~s11 => Limiter!FileCounts'
    PROVE  Limiter!LimiterInv'
<1>1. OthersStay(t) /\ s6'[t] = "idle"
  BY Released DEF Limiter!LimiterInv
<1>2. Limiter!LimiterShape'
  BY <1>1, ShapeKept DEF Limiter!LimiterInv
<1>3. ASSUME ~s11 PROVE Limiter!WritersAlone'
  <2>1. Limiter!WritersAlone /\ s5 = t
    BY <1>3 DEF Limiter!LimiterInv, Limiter!WritersAlone
  <2>2. ASSUME NEW u \in LimiterThreads, Limiter!Writing(u)'
        PROVE  s6'[u] \notin {"look", "blank", "loaded"}
    <3>1. CASE u = t
      BY <1>1, <3>1
    <3>2. CASE u # t
      BY <1>1, <2>1, <2>2, <3>2 DEF OthersStay, Limiter!Writing, Limiter!WritersAlone
    <3> QED
      BY <3>1, <3>2
  <2> QED
    BY <2>2 DEF Limiter!WritersAlone
<1> QED
  BY <1>2, <1>3 DEF Limiter!LimiterInv

LEMMA WritingStep ==
    ASSUME Limiter!LimiterInv, NEW t \in LimiterThreads,
           Limiter!AdmitFreely(t) \/ Limiter!Register(t) \/ Limiter!Replace(t) \/ Limiter!Update(t)
    PROVE  Limiter!LimiterInv'
<1> DEFINE c == s7[t]
           config == s8[t].config
<1>1. s6[t] = "loaded" /\ Limiter!Release(t) /\ Limiter!Writing(t) /\ UNCHANGED <<s1, s11>>
  BY DEF Limiter!AdmitFreely, Limiter!Register, Limiter!Replace, Limiter!Update, Limiter!Writing
<1>2. Limiter!CallOK(t) /\ s8[t] \in Limiter!States
  BY <1>1 DEF Limiter!LimiterInv, Limiter!LimiterShape
<1>3. /\ s1 \in Int /\ s10 \in Limiter!Terms /\ s9 \subseteq Limiter!Entries
      /\ s2 = Limiter!Missing \/ s2 \in Limiter!States
  BY DEF Limiter!LimiterInv, Limiter!LimiterShape
<1>4. ~s11 => s8[t] = s2 /\ s2 # Limiter!Missing /\ Limiter!FileCounts
  BY <1>1, <1>2, BlankIsState DEF Limiter!LimiterInv, Limiter!WritersAlone
<1>5. CASE Limiter!AdmitFreely(t)
  <2>1. /\ ~config.enabled /\ UNCHANGED <<s2, s10>> /\ c.op = "register"
        /\ s9' = IF s10.enabled THEN s9 \cup {[id |-> c.id, at |-> c.now]} ELSE s9
    BY <1>5 DEF Limiter!AdmitFreely
  <2>2. [id |-> c.id, at |-> c.now] \in Limiter!Entries
    BY <1>2, <2>1 DEF Limiter!CallOK, Limiter!Entries
  <2>3. ~s11 => Limiter!FileCounts'
    BY <1>1, <1>4, <2>1 DEF Limiter!FileCounts
  <2> QED
    BY <1>1, <1>3, <2>1, <2>2, <2>3, WriterStep
<1>6. CASE Limiter!Register(t)
  <2> DEFINE entries == Limiter!Pruned(s8[t].entries, c.now, config.window)
             entry == [id |-> c.id, at |-> c.now]
  <2>1. /\ config.enabled /\ Cardinality(entries) < config.capacity
        /\ s2' = [config |-> config, entries |-> entries \cup {entry}]
        /\ s9' = s9 \cup {entry} /\ s10' = s10 /\ c.op = "register"
    BY <1>6, SameSets DEF Limiter!Register
  <2>2. entry \in Limiter!Entries /\ entry.at = c.now /\ c.now \in Int /\ c.now <= s1
    BY <1>2, <2>1 DEF Limiter!CallOK, Limiter!Entries
  <2>3. /\ config \in Limiter!Valid \cup {Limiter!NoConfig} /\ s8[t].entries \subseteq Limiter!Entries
        /\ IsFiniteSet(s8[t].entries)
    BY <1>2, SameSets DEF Limiter!States
  <2>4. /\ entries \subseteq s8[t].entries
        /\ \A e \in s8[t].entries : e.at > c.now - config.window => e \in entries
    BY DEF Limiter!Pruned
  <2>5. config.capacity \in Nat /\ config.window \in Int
    BY <2>3 DEF Limiter!Valid, Limiter!NoConfig
  <2> HIDE DEF c, entries, entry, config
  <2>6. IsFiniteSet(entries) /\ Cardinality(entries) \in Nat
    BY <2>3, <2>4, FS_Subset, FS_CardinalityType
  <2>7. /\ IsFiniteSet(entries \cup {entry})
        /\ Cardinality(entries \cup {entry}) <= Cardinality(entries) + 1
    <3>1. /\ IsFiniteSet(entries \cup {entry})
          /\ \/ Cardinality(entries \cup {entry}) = Cardinality(entries)
             \/ Cardinality(entries \cup {entry}) = Cardinality(entries) + 1
      BY <2>6, FS_AddElement, Zenon
    <3> QED
      BY <2>6, <3>1
  <2>8. /\ Cardinality(entries \cup {entry}) \in Nat
        /\ Cardinality(entries \cup {entry}) <= config.capacity
    BY <2>1, <2>5, <2>6, <2>7, FS_CardinalityType
  <2>9. s2' \in Limiter!States /\ s2'.config = config /\ s2'.entries = entries \cup {entry}
    BY <2>1, <2>2, <2>3, <2>4, <2>7, SameSets DEF Limiter!States
  <2>10. ASSUME ~s11 PROVE Limiter!FileCounts'
    <3>1. Limiter!FileCounts /\ s2.config = config /\ s2.entries = s8[t].entries
      BY <1>4, <2>10 DEF config
    <3>2. s10 # Limiter!NoConfig /\ s10.enabled
      BY <2>1, <3>1, BlankIsState DEF Limiter!FileCounts
    <3>3. config.capacity <= s10.capacity /\ config.window >= s10.window
          /\ s10.capacity \in Nat /\ s10.window \in Int
      BY <1>3, <3>1, <3>2 DEF Limiter!FileCounts, Limiter!Terms
    <3>4. ASSUME NEW g \in s9', g.at > s1 - s10.window PROVE g \in s2'.entries
      <4>1. CASE g = entry
        BY <2>9, <4>1
      <4>2. CASE g \in s9
        <5>1. g.at \in Int
          BY <1>3, <4>2 DEF Limiter!Entries
        <5>2. g \in s8[t].entries
          BY <3>1, <3>2, <3>4, <4>2 DEF Limiter!FileCounts
        <5>3. g.at > c.now - config.window
          <6> DEFINE w == config.window
                     v == s10.window
                     a == g.at
          <6> HIDE DEF w, v, a
          <6>1. w \in Int /\ v \in Int /\ a \in Int /\ w >= v /\ a > s1 - v
            BY <2>5, <3>3, <3>4, <5>1 DEF w, v, a
          <6>2. a > c.now - w
            BY <1>3, <2>2, <6>1
          <6> QED
            BY <6>2 DEF w, a
        <5> QED
          BY <2>4, <2>9, <5>2, <5>3
      <4> QED
        BY <2>1, <3>4, <4>1, <4>2
    <3>5. Cardinality(s2'.entries) <= s10.capacity
      BY <2>5, <2>8, <2>9, <3>3
    <3> QED
      BY <1>1, <2>1, <2>9, <3>1, <3>2, <3>3, <3>4, <3>5, SameSets DEF Limiter!FileCounts
  <2> QED
    BY <1>1, <1>3, <2>1, <2>2, <2>9, <2>10, WriterStep
<1>7. CASE Limiter!Replace(t)
  <2>1. /\ c.op \in {"configure", "remove"} /\ s9' = {} /\ s10' = c.config
        /\ s2' = [config |-> c.config, entries |-> {}]
    BY <1>7 DEF Limiter!Replace
  <2>2. c.config \in Limiter!Valid \cup {Limiter!NoConfig} /\ c.config \in Limiter!Terms
    <3>1. c.config \in Limiter!Valid \cup {Limiter!NoConfig}
      BY <1>2, <2>1, LimiterAssumption DEF Limiter!CallOK
    <3>2. Limiter!Valid \subseteq Limiter!Terms /\ Limiter!NoConfig \in Limiter!Terms
      BY DEF Limiter!Valid, Limiter!Terms, Limiter!NoConfig
    <3> QED
      BY <3>1, <3>2
  <2>3. s2' \in Limiter!States /\ s2'.config = c.config /\ s2'.entries = {}
    <3>1. s2'.config = c.config /\ s2'.entries = {}
      BY <2>1
    <3>2. Limiter!IsFiniteSet({}) /\ {} \in SUBSET Limiter!Entries
      BY FS_EmptySet, SameSets
    <3> HIDE DEF c
    <3>3. s2' \in Limiter!States
      BY <2>1, <2>2, <3>2 DEF Limiter!States
    <3> QED
      BY <3>1, <3>3
  <2>4. Limiter!FileCounts'
    <3>1. c.config # Limiter!NoConfig =>
              c.config \in Limiter!Valid /\ c.config.capacity \in Nat /\ c.config.window \in Int
      BY <2>2 DEF Limiter!Valid
    <3> HIDE DEF c
    <3>2. Cardinality({}) = 0
      BY FS_EmptySet
    <3> QED
      BY <2>1, <2>3, <3>1, <3>2, SameSets DEF Limiter!FileCounts
  <2> QED
    BY <1>1, <2>1, <2>2, <2>3, <2>4, WriterStep
<1>8. CASE Limiter!Update(t)
  <2> DEFINE new == Limiter!Changed(config, c.changes)
  <2>1. /\ c.op = "update" /\ config # Limiter!NoConfig /\ s9' = s9
        /\ s2' = [s8[t] EXCEPT !.config = new]
        /\ s10' = [capacity |-> IF new.capacity > s10.capacity
                                THEN new.capacity ELSE s10.capacity,
                   window |-> IF new.window < s10.window THEN new.window ELSE s10.window,
                   enabled |-> new.enabled]
    BY <1>8 DEF Limiter!Update
  <2>2. new \in Limiter!Valid
    <3>1. config \in Limiter!Valid
      BY <1>2, <2>1 DEF Limiter!States
    <3>2. c.changes \in LimiterChanges
      BY <1>2, <2>1 DEF Limiter!CallOK
    <3> QED
      BY <3>1, <3>2, ValidChanges
  <2> HIDE DEF new, c
  <2>3. s2' \in Limiter!States /\ s2'.config = new /\ s2'.entries = s8[t].entries
    BY <1>2, <2>1, <2>2 DEF Limiter!States
  <2>4. /\ new.capacity \in Nat /\ new.window \in Nat \ {0} /\ new.enabled \in BOOLEAN
        /\ new # Limiter!NoConfig
    BY <2>2, ValidChanges DEF Limiter!Valid
  <2>5. s10.capacity \in Nat /\ s10.window \in Nat
    BY <1>3 DEF Limiter!Terms
  <2>6. /\ s10'.capacity \in Nat /\ s10'.window \in Nat /\ s10'.enabled = new.enabled
        /\ s10.capacity <= s10'.capacity /\ new.capacity <= s10'.capacity
        /\ s10'.window <= s10.window /\ s10'.window <= new.window
        /\ s10'.window \in {s10.window, new.window}
    BY <2>1, <2>4, <2>5
  <2>7. s10' \in Limiter!Terms
    BY <2>1, <2>4, <2>5 DEF Limiter!Terms
  <2>8. ASSUME ~s11 PROVE Limiter!FileCounts'
    <3>1. Limiter!FileCounts /\ s2.entries = s8[t].entries /\ s2.config = config
      BY <1>4, <2>8
    <3>2. s10 # Limiter!NoConfig
      BY <2>1, <3>1 DEF Limiter!FileCounts
    <3>3. s10' \in Limiter!Valid /\ s10' # Limiter!NoConfig
      <4>1. s10 \in Limiter!Valid
        BY <3>1, <3>2 DEF Limiter!FileCounts
      <4>2. s10.window \in Nat \ {0}
        BY <4>1 DEF Limiter!Valid
      <4>3. s10' \in Limiter!Valid
        BY <2>1, <2>4, <2>5, <4>2 DEF Limiter!Valid
      <4> QED
        BY <4>3, ValidChanges
    <3>4. Cardinality(s2'.entries) <= s10'.capacity
      <4>1. Cardinality(s8[t].entries) \in Nat
        BY <1>2, FS_CardinalityType, SameSets DEF Limiter!States
      <4>2. Cardinality(s8[t].entries) <= s10.capacity
        BY <3>1, <3>2, SameSets DEF Limiter!FileCounts
      <4> QED
        BY <2>3, <2>5, <2>6, <4>1, <4>2
    <3>5. ASSUME NEW g \in s9, g.at > s1 - s10'.window PROVE g \in s2'.entries
      <4>1. g.at \in Int
        BY <1>3 DEF Limiter!Entries
      <4>2. g.at > s1 - s10.window
        BY <1>3, <2>5, <2>6, <3>5, <4>1
      <4> QED
        BY <2>3, <3>1, <3>2, <4>2 DEF Limiter!FileCounts
    <3> QED
      BY <1>1, <2>1, <2>3, <2>4, <2>6, <3>3, <3>4, <3>5, SameSets DEF Limiter!FileCounts
  <2> QED
    BY <1>1, <1>3, <2>1, <2>3, <2>7, <2>8, WriterStep
<1> QED
  BY <1>5, <1>6, <1>7, <1>8

LEMMA LimiterKeeps ==
    ASSUME Limiter!LimiterInv, Limiter!Next \/ UNCHANGED Limiter!vars
    PROVE  Limiter!LimiterInv'
<1>1. CASE Limiter!Tick
  BY <1>1, TickStep
<1>2. ASSUME NEW t \in LimiterThreads, Limiter!Step(t) PROVE Limiter!LimiterInv'
  BY <1>2, ReadingStep, BlankStep, WritingStep DEF Limiter!Step
<1>3. CASE UNCHANGED Limiter!vars
  <2>1. UNCHANGED <<s1, s2, s5, s6, s7, s8, s9, s10, s11>>
    BY <1>3 DEF Limiter!vars, Limiter!limits_vars, Limiter!history_vars
  <2>2. Limiter!LimiterShape'
    BY <2>1 DEF Limiter!LimiterInv, Limiter!LimiterShape, Limiter!CallOK
  <2>3. ~s11 => Limiter!WritersAlone' /\ Limiter!FileCounts'
    BY <2>1 DEF Limiter!LimiterInv, Limiter!WritersAlone, Limiter!FileCounts, Limiter!Writing
  <2> QED
    BY <2>1, <2>2, <2>3 DEF Limiter!LimiterInv
<1> QED
  BY <1>1, <1>2, <1>3 DEF Limiter!Next

(* The entries of the file count what was admitted in the window.            *)
LEMMA LimiterCounts ==
    ASSUME Limiter!LimiterInv
    PROVE  Limiter!NeverOvercommitted
<1> DEFINE live == {g \in s9 : g.at > s1 - s10.window}
           capacity == s10.capacity
<1> SUFFICES ASSUME ~s11, s10 # Limiter!NoConfig
             PROVE  Cardinality(live) <= capacity
  BY SameSets DEF Limiter!NeverOvercommitted
<1>1. live \subseteq s2.entries /\ Cardinality(s2.entries) <= capacity
  BY SameSets DEF Limiter!LimiterInv, Limiter!FileCounts
<1>2. s2 # Limiter!Missing
  BY BlankIsState DEF Limiter!LimiterInv, Limiter!FileCounts
<1>3. s2 \in Limiter!States /\ capacity \in Nat
  BY <1>2 DEF Limiter!LimiterInv, Limiter!LimiterShape, Limiter!Terms
<1>4. IsFiniteSet(s2.entries) /\ Cardinality(s2.entries) \in Nat
  BY <1>3, FS_CardinalityType, SameSets DEF Limiter!States
<1> HIDE DEF live, capacity
<1>5. Cardinality(live) \in Nat /\ Cardinality(live) <= Cardinality(s2.entries)
  BY <1>1, <1>4, FS_Subset, FS_CardinalityType
<1> QED
  BY <1>1, <1>3, <1>4, <1>5

(* "Registration must be atomic and ensure no over-commit": for any threads, *)
(* processes, requests, configurations and changes of them, on and off       *)
(* included, and whatever readings of the clock reach the file in whatever   *)
(* order, until a reader wipes a configured limit.                           *)
THEOREM WindowsAreNotOvercommitted == AnySpec => []NeverOvercommitted
<1> DEFINE Inv == component = "limiter" => Limiter!LimiterInv
<1>1. AnyInit => Inv
  BY LimiterBegins DEF AnyInit
<1>2. Inv /\ [AnyNext]_AnyVars => Inv'
  BY Selected, LimiterKeeps
<1>3. Inv => NeverOvercommitted
  BY LimiterCounts DEF NeverOvercommitted
<1> QED
  BY <1>1, <1>2, <1>3, PTL DEF AnySpec, AnyVars

-----------------------------------------------------------------------------
(* The store of budgets; s1 configs, s2 memory, s3 flock, s4 handle,         *)
(* s5 owner, s6 pc, s7 op, s8 base, s9 closed, s12 mixed, s13 lost.          *)

LEMMA StoreBegins == Store!Init => Store!StoreInv
BY StoreAssumption DEF Store!Init, Store!StoreInv, Store!StoreTypeOK, Store!Unmixed,
                       Store!OneInCall, Store!HandleIsOwn,
       Store!InsideHasLock, Store!BaseIsCurrent, Store!Inside, Store!Processes

LEMMA StoreTyped == Store!StoreTypeOK /\ [Store!Next]_Store!vars => Store!StoreTypeOK'
<1> SUFFICES ASSUME Store!StoreTypeOK, [Store!Next]_Store!vars PROVE Store!StoreTypeOK'
  OBVIOUS
<1> USE DEF Store!StoreTypeOK, Store!Go, Store!Idle
<1>1. ASSUME NEW t \in ServiceThreads, Store!Step(t) PROVE Store!StoreTypeOK'
  <2>0. Store!P(t) \in Store!Processes
    BY DEF Store!P, Store!Processes
  <2>1. CASE Store!Call(t) \/ Store!Reload(t) \/ Store!Leave(t) \/ Store!Change(t)
    BY <2>1 DEF Store!Call, Store!Reload, Store!Leave, Store!Change, Store!lock_vars
  <2>2. CASE Store!Open(t) \/ Store!Lock(t)
    BY <2>0, <2>2 DEF Store!Open, Store!Lock
  <2>3. CASE Store!GiveUp(t)
    <3>1. /\ s4' = [s4 EXCEPT ![Store!P(t)] = Store!Nobody] /\ s5' = s5
          /\ s6' = [s6 EXCEPT ![t] = "idle"] /\ s8' = [s8 EXCEPT ![t] = 0]
      BY <2>3 DEF Store!GiveUp
    <3> QED
      BY <2>0, <3>1
  <2>4. CASE Store!SaveConfigs(t) \/ Store!SaveEvents(t) \/ Store!SaveFails(t)
    BY <2>4 DEF Store!SaveConfigs, Store!SaveEvents, Store!SaveFails, Store!lock_vars
  <2>5. CASE Store!Release(t)
    <3>1. /\ s4' = s4 \/ s4' = [s4 EXCEPT ![Store!P(t)] = Store!Nobody]
          /\ s5' = s5 \/ s5' = [s5 EXCEPT ![Store!P(t)] = Store!Nobody]
          /\ s6' = [s6 EXCEPT ![t] = "idle"] /\ s8' = [s8 EXCEPT ![t] = 0]
      BY <2>5 DEF Store!Release, Store!lock_vars
    <3> QED
      BY <2>0, <3>1
  <2> QED
    BY <1>1, <2>1, <2>2, <2>3, <2>4, <2>5 DEF Store!Step
<1>2. ASSUME NEW p \in Store!Processes, Store!Crash(p) PROVE Store!StoreTypeOK'
  <2>1. /\ s6' = [t \in ServiceThreads |-> IF Store!P(t) = p THEN "idle" ELSE s6[t]]
        /\ s8' = [t \in ServiceThreads |-> IF Store!P(t) = p THEN 0 ELSE s8[t]]
        /\ s4' = [s4 EXCEPT ![p] = Store!Nobody]
        /\ s5' = [s5 EXCEPT ![p] = Store!Nobody]
    BY <1>2 DEF Store!Crash
  <2> QED
    BY <2>1
<1>3. CASE UNCHANGED Store!vars
  BY <1>3 DEF Store!vars, Store!lock_vars
<1> QED
  BY <1>1, <1>2, <1>3 DEF Store!Next

(* A thread that leaves the lock, or gives up, leaves the others as they are.*)
LEMMA GoneIdle ==
    ASSUME Store!StoreTypeOK, Store!Unmixed, NEW t \in ServiceThreads,
           s6' = [s6 EXCEPT ![t] = "idle"], s8' = [s8 EXCEPT ![t] = 0],
           s4' = [s4 EXCEPT ![Store!P(t)] = Store!Nobody],
           \A u \in ServiceThreads \ {t} : Store!P(u) = Store!P(t) => s6[u] = "idle",
           UNCHANGED <<s1, s13>>,
           \/ s3' = s3 /\ s5' = s5
           \/ \A u \in ServiceThreads \ {t} : ~Store!Inside(u)
    PROVE  Store!Unmixed'
<1> USE DEF Store!StoreTypeOK, Store!Unmixed
<1>1. \A u \in ServiceThreads :
          /\ Store!P(u) \in Store!Processes
          /\ s6'[u] = IF u = t THEN "idle" ELSE s6[u]
          /\ s8'[u] = IF u = t THEN 0 ELSE s8[u]
  BY DEF Store!P, Store!Processes
<1>2. \A p \in Store!Processes : s4'[p] = IF p = Store!P(t) THEN Store!Nobody ELSE s4[p]
  OBVIOUS
<1>3. Store!OneInCall' /\ Store!BaseIsCurrent' /\ ~s13'
  BY <1>1 DEF Store!OneInCall, Store!BaseIsCurrent
<1>4. \A u \in ServiceThreads :
         Store!Inside(u)' => u # t /\ Store!Inside(u) /\ Store!P(u) # Store!P(t)
  BY <1>1 DEF Store!Inside
<1>5. Store!HandleIsOwn'
  BY <1>1, <1>2, <1>4, StoreAssumption DEF Store!HandleIsOwn
<1>6. Store!InsideHasLock'
  BY <1>1, <1>4 DEF Store!InsideHasLock
<1> QED
  BY <1>3, <1>5, <1>6

(* Every step of the store keeps them apart, unless it mixes two threads.    *)
LEMMA StoreStep ==
    ASSUME Store!StoreTypeOK, Store!Unmixed, [Store!Next]_Store!vars, s12' = {}
    PROVE  Store!Unmixed'
<1> USE DEF Store!StoreTypeOK, Store!Unmixed, Store!Go, Store!Idle
<1>1. ASSUME NEW t \in ServiceThreads, Store!Step(t) PROVE Store!Unmixed'
  <2>0. Store!P(t) \in Store!Processes /\ s4[Store!P(t)] \in ServiceThreads \cup {Store!Nobody}
    BY DEF Store!P, Store!Processes
  <2> USE DEF Store!OneInCall, Store!HandleIsOwn, Store!InsideHasLock, Store!BaseIsCurrent,
              Store!Inside
  <2>1. CASE Store!Call(t)
    <3>1. \A u \in ServiceThreads \ {t} : Store!P(u) = Store!P(t) => s6[u] = "idle"
      BY <2>1 DEF Store!Call
    <3>2. /\ s6' = [s6 EXCEPT ![t] = "open"]
          /\ UNCHANGED <<s4, s5, s3, s8, s1, s13>>
      BY <2>1 DEF Store!Call, Store!file_vars, Store!lock_vars, Store!history_vars
    <3> QED
      BY <3>1, <3>2
  <2>2. CASE Store!Open(t)
    <3>1. /\ s6[t] = "open" /\ s6' = [s6 EXCEPT ![t] = "try"]
          /\ s4' = [s4 EXCEPT ![Store!P(t)] = t]
          /\ UNCHANGED <<s5, s8, s1, s13>>
      BY <2>2 DEF Store!Open, Store!file_vars, Store!history_vars
    <3>2. ~(s4[Store!P(t)] \in ServiceThreads /\ Store!Inside(s4[Store!P(t)]))
      BY <2>0, <3>1
    <3>3. s3' = s3
      BY <2>2, <3>2 DEF Store!Open
    <3>4. \A u \in ServiceThreads : s6'[u] = IF u = t THEN "try" ELSE s6[u]
      BY <3>1
    <3>5. \A p \in Store!Processes : s4'[p] = IF p = Store!P(t) THEN t ELSE s4[p]
      BY <3>1
    <3>6. \A u \in ServiceThreads : Store!P(u) \in Store!Processes
      BY DEF Store!P, Store!Processes
    <3>7. Store!OneInCall'
      BY <3>1, <3>4
    <3>8. Store!HandleIsOwn'
      BY <3>1, <3>4, <3>5, <3>6
    <3>9. Store!InsideHasLock' /\ Store!BaseIsCurrent'
      BY <3>1, <3>3, <3>4
    <3> QED
      BY <3>1, <3>7, <3>8, <3>9
  <2>3. CASE Store!Lock(t)
    <3>1. /\ s6[t] = "try" /\ s6' = [s6 EXCEPT ![t] = "reload"] /\ s3 = Store!Nobody
          /\ s4[Store!P(t)] = t /\ s3' = t
          /\ s5' = [s5 EXCEPT ![Store!P(t)] = t]
          /\ UNCHANGED <<s4, s8, s1, s13>>
      BY <2>3 DEF Store!Lock, Store!file_vars, Store!history_vars
    <3>2. \A u \in ServiceThreads : ~Store!Inside(u)
      BY <3>1, StoreAssumption
    <3> QED
      BY <2>0, <3>1, <3>2
  <2>4. CASE Store!GiveUp(t)
    <3>1. /\ s6[t] = "try" /\ s6' = [s6 EXCEPT ![t] = "idle"] /\ s4[Store!P(t)] = t
          /\ s4' = [s4 EXCEPT ![Store!P(t)] = Store!Nobody]
          /\ s8' = [s8 EXCEPT ![t] = 0]
          /\ UNCHANGED <<s5, s1, s13>>
      BY <2>4 DEF Store!GiveUp, Store!file_vars, Store!history_vars
    <3>2. s3' = s3
      BY <2>4, <3>1 DEF Store!GiveUp
    <3>3. \A u \in ServiceThreads \ {t} : Store!P(u) = Store!P(t) => s6[u] = "idle"
      BY <3>1
    <3> QED
      BY <3>1, <3>2, <3>3, GoneIdle
  <2>5. CASE Store!Reload(t)
    <3>1. /\ s6[t] = "reload" /\ s6' = [s6 EXCEPT ![t] = "change"]
          /\ s8' = [s8 EXCEPT ![t] = s1]
          /\ UNCHANGED <<s4, s5, s3, s1, s13>>
      BY <2>5 DEF Store!Reload, Store!Loaded, Store!file_vars, Store!lock_vars,
                  Store!history_vars
    <3> QED
      BY <3>1
  <2>6. CASE Store!Leave(t) \/ Store!Change(t) \/ Store!SaveEvents(t) \/ Store!SaveFails(t)
    <3>1. /\ Store!Inside(t)
          /\ \/ s6' = [s6 EXCEPT ![t] = "release"]
             \/ s6[t] = "change" /\ s6' = [s6 EXCEPT ![t] = "save configs"]
          /\ UNCHANGED <<s4, s5, s3, s8, s1, s13>>
      BY <2>6 DEF Store!Leave, Store!Change, Store!SaveEvents, Store!SaveFails,
                  Store!file_vars, Store!lock_vars, Store!history_vars
    <3> QED
      BY <3>1
  <2>7. CASE Store!SaveConfigs(t)
    <3>1. /\ s6[t] = "save configs" /\ s6' = [s6 EXCEPT ![t] = "save events"]
          /\ s13' = (s13 \/ s1 # s8[t])
          /\ UNCHANGED <<s4, s5, s3, s8>>
      BY <2>7 DEF Store!SaveConfigs, Store!lock_vars
    <3>2. \A u \in ServiceThreads : Store!Inside(u) => u = t
      BY <3>1
    <3> QED
      BY <3>1, <3>2
  <2>8. CASE Store!Release(t)
    <3>1. /\ s6[t] = "release" /\ s6' = [s6 EXCEPT ![t] = "idle"]
          /\ s4[Store!P(t)] = t /\ s5[Store!P(t)] = t /\ s3 = t
          /\ UNCHANGED <<s1, s13>>
      BY <2>8 DEF Store!Release, Store!file_vars, Store!history_vars
    <3>2. /\ s3' = Store!Nobody
          /\ s4' = [s4 EXCEPT ![Store!P(t)] = Store!Nobody]
          /\ s5' = [s5 EXCEPT ![Store!P(t)] = Store!Nobody]
          /\ s8' = [s8 EXCEPT ![t] = 0]
      <4> HIDE DEF Store!StoreTypeOK, Store!Unmixed, Store!OneInCall, Store!HandleIsOwn,
                   Store!InsideHasLock,
                   Store!BaseIsCurrent, Store!Inside
      <4> QED
        BY <2>8, <3>1, StoreAssumption DEF Store!Release, Store!Dropped
    <3>3. \A u \in ServiceThreads : Store!Inside(u) => u = t
      BY <3>1
    <3>4. \A u \in ServiceThreads \ {t} : Store!P(u) = Store!P(t) => s6[u] = "idle"
      BY <3>1
    <3>5. \A u \in ServiceThreads \ {t} : ~Store!Inside(u)
      BY <3>3
    <3> QED
      BY <3>1, <3>2, <3>4, <3>5, GoneIdle
  <2> QED
    BY <1>1, <2>1, <2>2, <2>3, <2>4, <2>5, <2>6, <2>7, <2>8 DEF Store!Step
<1>2. ASSUME NEW p \in Store!Processes, Store!Crash(p) PROVE Store!Unmixed'
  <2>1. /\ s6' = [t \in ServiceThreads |-> IF Store!P(t) = p THEN "idle" ELSE s6[t]]
        /\ s8' = [t \in ServiceThreads |-> IF Store!P(t) = p THEN 0 ELSE s8[t]]
        /\ s3' = IF s3 \in ServiceThreads /\ Store!P(s3) = p THEN Store!Nobody ELSE s3
        /\ s4' = [s4 EXCEPT ![p] = Store!Nobody]
        /\ s5' = [s5 EXCEPT ![p] = Store!Nobody]
        /\ UNCHANGED <<s1, s13>>
    BY <1>2 DEF Store!Crash, Store!file_vars
  <2>2. \A t \in ServiceThreads : Store!P(t) \in Store!Processes
    BY DEF Store!P, Store!Processes
  <2> USE DEF Store!OneInCall, Store!HandleIsOwn, Store!InsideHasLock, Store!BaseIsCurrent,
              Store!Inside
  <2>3. Store!OneInCall' /\ Store!BaseIsCurrent' /\ ~s13'
    BY <2>1
  <2>4. Store!HandleIsOwn'
    BY <2>1, <2>2, StoreAssumption
  <2>5. Store!InsideHasLock'
    BY <2>1, <2>2
  <2> QED
    BY <2>3, <2>4, <2>5
<1>3. CASE UNCHANGED Store!vars
  BY <1>3 DEF Store!vars, Store!file_vars, Store!lock_vars, Store!history_vars,
              Store!OneInCall, Store!HandleIsOwn,
              Store!InsideHasLock, Store!BaseIsCurrent, Store!Inside
<1> QED
  BY <1>1, <1>2, <1>3 DEF Store!Next

(* Threads that were mixed once stay on record.                              *)
LEMMA MixedGrows == ASSUME [Store!Next]_Store!vars PROVE s12 \subseteq s12'
BY DEF Store!Next, Store!Step, Store!Call, Store!Open, Store!Lock, Store!GiveUp,
       Store!Reload, Store!Leave, Store!Change, Store!SaveConfigs,
       Store!SaveEvents, Store!SaveFails, Store!Release, Store!Crash, Store!vars

LEMMA StoreKeeps ==
    ASSUME Store!StoreInv, Store!Next \/ UNCHANGED Store!vars
    PROVE  Store!StoreInv'
<1>1. Store!StoreTypeOK'
  BY StoreTyped DEF Store!StoreInv
<1>2. ASSUME s12' = {} PROVE Store!Unmixed'
  <2>1. s12 = {}
    BY <1>2, MixedGrows
  <2> QED
    BY <1>2, <2>1, StoreStep DEF Store!StoreInv
<1> QED
  BY <1>1, <1>2 DEF Store!StoreInv

(* A configuration one call saved is never overwritten by a call that had    *)
(* not seen it, unless two threads of one process shared the lock's handle:  *)
(* for any processes, saves, failures and crashes.                           *)
THEOREM UpdatesAreNotLost == AnySpec => []NoLostUpdate
<1> DEFINE Inv == component = "store" => Store!StoreInv
<1>1. AnyInit => Inv
  BY StoreBegins DEF AnyInit
<1>2. Inv /\ [AnyNext]_AnyVars => Inv'
  BY Selected, StoreKeeps
<1>3. Inv => NoLostUpdate
  BY DEF NoLostUpdate, Store!NoLostUpdate, Store!StoreInv, Store!Unmixed
<1> QED
  BY <1>1, <1>2, <1>3, PTL DEF AnySpec, AnyVars

-----------------------------------------------------------------------------
(* What becomes of an outcome; s1 pc, s2 outcome, s3 inflight, s4 results,   *)
(* s5 usage, s6 reported, s7 holder, s8 owner, s9 leaked, s10 rewritten,     *)
(* s11 shared, s12 restarts.                                                 *)

(* A thread goes to a place with an execution, or with none.                 *)
Goes(t, place, e) ==
    /\ s1' = [s1 EXCEPT ![t] = place]
    /\ s2' = [s2 EXCEPT ![t] = e]

LEMMA OutcomesBegin ==
    ASSUME Outcomes!Init
    PROVE  Outcomes!SettledOnce
<1> USE DEF Outcomes!Init
<1>1. Outcomes!OutcomesTypeOK
  BY DEF Outcomes!OutcomesTypeOK
<1>2. /\ \A t \in ServiceThreads : s1[t] = "idle"
      /\ \A p \in ServiceProcesses : s3[p] = {} /\ s4[p] = {} /\ s12[p] = 0
      /\ \A p \in ServiceProcesses, e \in Executions : s5[p][e] = 0
  OBVIOUS
<1>3. Outcomes!WithOneThread /\ Outcomes!InFlight
  BY <1>2 DEF Outcomes!WithOneThread, Outcomes!InFlight, Outcomes!WorkedOn, Outcomes!Processing,
              Outcomes!Counted, Outcomes!Locked
<1>4. Outcomes!CountedOnce
  BY <1>2 DEF Outcomes!CountedOnce
<1>5. Outcomes!StoredAlone
  BY <1>2 DEF Outcomes!StoredAlone, Outcomes!Locked
<1> QED
  BY <1>1, <1>3, <1>4, <1>5 DEF Outcomes!SettledOnce

(* Everything else stays as it is: a thread moves on with its execution, or  *)
(* ends a call of which nothing is in flight.                                *)
LEMMA MovesKeep ==
    ASSUME Outcomes!SettledOnce, NEW t \in ServiceThreads, NEW e \in Executions \cup {Outcomes!Nothing},
           NEW place \in {"idle", "validating"} \cup Outcomes!Processing,
           Goes(t, place, e), place # "idle" => e \in Executions,
           UNCHANGED <<s3, s4, s5, s6, s7, s8, s9, s10, s11, s12>>,
           \/ s1[t] \notin Outcomes!Processing /\ place \notin Outcomes!Processing
           \/ /\ s1[t] \in Outcomes!Processing /\ place \in Outcomes!Processing /\ e = s2[t]
              /\ s1[t] \in Outcomes!Counted => place \in Outcomes!Counted
              /\ place \in Outcomes!Locked => s1[t] \in Outcomes!Locked
              /\ place = "writing" => e \notin s6
    PROVE  Outcomes!SettledOnce'
<1> USE DEF Outcomes!SettledOnce
<1>1. /\ s1' \in [ServiceThreads -> {"idle", "validating"} \cup Outcomes!Processing]
      /\ s2' \in [ServiceThreads -> Executions \cup {Outcomes!Nothing}]
      /\ \A u \in ServiceThreads : s1'[u] = IF u = t THEN place ELSE s1[u]
      /\ \A u \in ServiceThreads : s2'[u] = IF u = t THEN e ELSE s2[u]
  BY DEF Goes, Outcomes!OutcomesTypeOK
<1>2. Outcomes!OutcomesTypeOK'
  BY <1>1 DEF Outcomes!OutcomesTypeOK
<1>3. Outcomes!WithOneThread'
  BY <1>1 DEF Outcomes!WithOneThread
<1>4. \A p \in ServiceProcesses, x \in Executions :
          Outcomes!WorkedOn(p, x)' <=> Outcomes!WorkedOn(p, x)
  BY <1>1 DEF Outcomes!WorkedOn
<1>5. Outcomes!InFlight'
  BY <1>4 DEF Outcomes!InFlight
<1>6. Outcomes!CountedOnce'
  <2> SUFFICES ASSUME NEW p \in ServiceProcesses, NEW x \in Executions, ~(s5[p][x] <= s12[p])
               PROVE  /\ s5[p][x] = s12[p] + 1
                      /\ \/ x \in s4[p]
                         \/ \E u \in ServiceThreads :
                               Outcomes!P(u) = p /\ s2'[u] = x /\ s1'[u] \in Outcomes!Counted
    BY DEF Outcomes!CountedOnce
  <2>1. /\ s5[p][x] = s12[p] + 1
        /\ \/ x \in s4[p]
           \/ \E u \in ServiceThreads :
                 Outcomes!P(u) = p /\ s2[u] = x /\ s1[u] \in Outcomes!Counted
    BY DEF Outcomes!CountedOnce
  <2>2. \A u \in ServiceThreads : s1[u] \in Outcomes!Counted => s1'[u] \in Outcomes!Counted /\ s2'[u] = s2[u]
    BY <1>1 DEF Outcomes!Processing
  <2> QED
    BY <2>1, <2>2
<1>7. Outcomes!StoredAlone'
  <2>1. \A u \in ServiceThreads : s1'[u] \in Outcomes!Locked => s1[u] \in Outcomes!Locked
    BY <1>1 DEF Outcomes!Processing, Outcomes!Counted
  <2>2. \A u \in ServiceThreads : s1'[u] = "writing" => s2'[u] \notin s6 \/ (s1[u] = "writing" /\ s2'[u] = s2[u])
    BY <1>1 DEF Outcomes!Processing, Outcomes!Counted, Outcomes!Locked
  <2> QED
    BY <2>1, <2>2 DEF Outcomes!StoredAlone
<1> QED
  BY <1>2, <1>3, <1>5, <1>6, <1>7

(* A call that has reserved its execution gives the final result of it.      *)
LEMMA FinalizeKeeps ==
    ASSUME Outcomes!SettledOnce, NEW t \in ServiceThreads, s1[t] \in Outcomes!Processing,
           Outcomes!Finalize(t), UNCHANGED <<s5, s6, s8, s10, s11>>,
           s7' = s7 \/ s1[t] \in Outcomes!Locked
    PROVE  Outcomes!SettledOnce'
<1> USE DEF Outcomes!SettledOnce
<1> DEFINE p == Outcomes!P(t)
           e == s2[t]
<1>1. /\ s4' = [s4 EXCEPT ![p] = @ \cup {e}] /\ s3' = [s3 EXCEPT ![p] = @ \ {e}]
      /\ Goes(t, "idle", Outcomes!Nothing) /\ UNCHANGED <<s9, s12>>
  BY DEF Outcomes!Finalize, Outcomes!Leave, Outcomes!Go, Goes
<1>2. p \in ServiceProcesses /\ e \in Executions /\ e \in s3[p]
  BY OutcomesAssumption
  DEF Outcomes!OutcomesTypeOK, Outcomes!WithOneThread, Outcomes!P, Outcomes!Processing,
      Outcomes!Counted, Outcomes!Locked
<1>3. /\ s1' \in [ServiceThreads -> {"idle", "validating"} \cup Outcomes!Processing]
      /\ s2' \in [ServiceThreads -> Executions \cup {Outcomes!Nothing}]
      /\ \A u \in ServiceThreads : s1'[u] = IF u = t THEN "idle" ELSE s1[u]
      /\ \A u \in ServiceThreads : s2'[u] = IF u = t THEN Outcomes!Nothing ELSE s2[u]
      /\ "idle" \notin Outcomes!Processing
  BY <1>1 DEF Goes, Outcomes!OutcomesTypeOK, Outcomes!Processing, Outcomes!Counted, Outcomes!Locked
<1>4. /\ s3' \in [ServiceProcesses -> SUBSET Executions]
      /\ s4' \in [ServiceProcesses -> SUBSET Executions]
      /\ \A q \in ServiceProcesses : s3'[q] = IF q = p THEN s3[p] \ {e} ELSE s3[q]
      /\ \A q \in ServiceProcesses : s4'[q] = IF q = p THEN s4[p] \cup {e} ELSE s4[q]
  BY <1>1, <1>2 DEF Outcomes!OutcomesTypeOK
<1>5. Outcomes!OutcomesTypeOK'
  BY <1>1, <1>3, <1>4 DEF Outcomes!OutcomesTypeOK
<1>6. Outcomes!WithOneThread'
  <2>1. \A u \in ServiceThreads \ {t} :
           s1[u] \in Outcomes!Processing => Outcomes!P(u) # p \/ s2[u] # e
    BY DEF Outcomes!WithOneThread
  <2>2. \A u \in ServiceThreads : Outcomes!P(u) \in ServiceProcesses
    BY OutcomesAssumption DEF Outcomes!P
  <2> QED
    BY <1>3, <1>4, <2>1, <2>2 DEF Outcomes!WithOneThread
<1>7. \A q \in ServiceProcesses, x \in Executions :
          /\ q = p /\ x = e => ~Outcomes!WorkedOn(q, x)' /\ Outcomes!WorkedOn(q, x)
          /\ ~(q = p /\ x = e) => (Outcomes!WorkedOn(q, x)' <=> Outcomes!WorkedOn(q, x))
  BY <1>3 DEF Outcomes!WorkedOn, Outcomes!WithOneThread
<1>8. Outcomes!InFlight'
  BY <1>1, <1>2, <1>4, <1>7 DEF Outcomes!InFlight
<1>9. Outcomes!CountedOnce'
  <2> SUFFICES ASSUME NEW q \in ServiceProcesses, NEW x \in Executions, ~(s5[q][x] <= s12[q])
               PROVE  /\ s5[q][x] = s12[q] + 1
                      /\ \/ x \in s4'[q]
                         \/ \E u \in ServiceThreads :
                               Outcomes!P(u) = q /\ s2'[u] = x /\ s1'[u] \in Outcomes!Counted
    BY <1>1 DEF Outcomes!CountedOnce
  <2>1. /\ s5[q][x] = s12[q] + 1
        /\ \/ x \in s4[q]
           \/ \E u \in ServiceThreads :
                 Outcomes!P(u) = q /\ s2[u] = x /\ s1[u] \in Outcomes!Counted
    BY DEF Outcomes!CountedOnce
  <2> QED
    BY <1>3, <1>4, <2>1
<1>10. Outcomes!StoredAlone'
  <2>1. "idle" \notin Outcomes!Locked
    BY DEF Outcomes!Locked
  <2> QED
    BY <1>3, <2>1 DEF Outcomes!StoredAlone
<1> QED
  BY <1>5, <1>6, <1>8, <1>9, <1>10

(* An execution that is neither in flight nor finished is reserved.          *)
LEMMA ReserveKeeps ==
    ASSUME Outcomes!SettledOnce, NEW t \in ServiceThreads, Outcomes!Reserve(t)
    PROVE  Outcomes!SettledOnce'
<1> USE DEF Outcomes!SettledOnce
<1> DEFINE p == Outcomes!P(t)
           e == s2[t]
<1>1. /\ s1[t] = "validating" /\ UNCHANGED <<s4, s5, s6, s7, s8, s9, s10, s11, s12>>
      /\ "validating" \notin Outcomes!Processing
  BY DEF Outcomes!Reserve, Outcomes!writer_vars, Outcomes!Processing, Outcomes!Counted, Outcomes!Locked
<1>2. p \in ServiceProcesses /\ e \in Executions
  BY <1>1, OutcomesAssumption DEF Outcomes!OutcomesTypeOK, Outcomes!P
<1>3. CASE e \in s4[p] \cup s3[p]
  <2>1. Goes(t, "idle", Outcomes!Nothing) /\ UNCHANGED s3
    BY <1>3 DEF Outcomes!Reserve, Outcomes!Leave, Outcomes!Go, Goes
  <2>2. "idle" \notin Outcomes!Processing
    BY DEF Outcomes!Processing, Outcomes!Counted, Outcomes!Locked
  <2> QED
    BY <1>1, <2>1, <2>2, MovesKeep
<1>4. CASE e \notin s4[p] \cup s3[p]
  <2>1. /\ s3' = [s3 EXCEPT ![p] = @ \cup {e}] /\ s1' = [s1 EXCEPT ![t] = "resolving"]
        /\ UNCHANGED s2
    BY <1>4 DEF Outcomes!Reserve, Outcomes!Go
  <2>2. /\ s1' \in [ServiceThreads -> {"idle", "validating"} \cup Outcomes!Processing]
        /\ \A u \in ServiceThreads : s1'[u] = IF u = t THEN "resolving" ELSE s1[u]
        /\ "resolving" \in Outcomes!Processing /\ "resolving" \notin Outcomes!Locked
        /\ "validating" \notin Outcomes!Counted
    BY <2>1 DEF Outcomes!OutcomesTypeOK, Outcomes!Processing, Outcomes!Counted, Outcomes!Locked
  <2>3. /\ s3' \in [ServiceProcesses -> SUBSET Executions]
        /\ \A q \in ServiceProcesses : s3'[q] = IF q = p THEN s3[p] \cup {e} ELSE s3[q]
    BY <1>2, <2>1 DEF Outcomes!OutcomesTypeOK
  <2>4. Outcomes!OutcomesTypeOK'
    BY <1>1, <1>2, <2>1, <2>2, <2>3 DEF Outcomes!OutcomesTypeOK
  <2>5. \A u \in ServiceThreads : Outcomes!P(u) \in ServiceProcesses
    BY OutcomesAssumption DEF Outcomes!P
  <2>6. \A u \in ServiceThreads : s1[u] \in Outcomes!Processing => Outcomes!P(u) # p \/ s2[u] # e
    BY <1>4 DEF Outcomes!WithOneThread
  <2>7. Outcomes!WithOneThread'
    BY <1>2, <2>1, <2>2, <2>3, <2>5, <2>6 DEF Outcomes!WithOneThread
  <2>8. \A q \in ServiceProcesses, x \in Executions :
            /\ q = p /\ x = e => Outcomes!WorkedOn(q, x)' /\ <<q, x>> \notin s9
            /\ ~(q = p /\ x = e) => (Outcomes!WorkedOn(q, x)' <=> Outcomes!WorkedOn(q, x))
    <3>1. <<p, e>> \notin s9
      BY <1>2, <1>4 DEF Outcomes!InFlight
    <3>2. \A q, x : q = p /\ x = e => Outcomes!WorkedOn(q, x)'
      BY <2>1, <2>2 DEF Outcomes!WorkedOn
    <3>3. \A u \in ServiceThreads : u # t => s1'[u] = s1[u]
      BY <2>2
    <3>4. \A q \in ServiceProcesses, x \in Executions :
             ~(q = p /\ x = e) => (Outcomes!WorkedOn(q, x)' <=> Outcomes!WorkedOn(q, x))
      BY <1>1, <2>1, <3>3 DEF Outcomes!WorkedOn
    <3> QED
      BY <3>1, <3>2, <3>4
  <2>9. Outcomes!InFlight'
    BY <1>1, <1>2, <1>4, <2>3, <2>8 DEF Outcomes!InFlight
  <2>10. Outcomes!CountedOnce'
    BY <1>1, <2>1, <2>2 DEF Outcomes!CountedOnce
  <2>11. Outcomes!StoredAlone'
    <3>1. \A u \in ServiceThreads : /\ s1'[u] \in Outcomes!Locked => s1[u] \in Outcomes!Locked
                                    /\ s1'[u] = "writing" => s1[u] = "writing"
      BY <2>2
    <3> QED
      BY <1>1, <2>1, <3>1 DEF Outcomes!StoredAlone
  <2> QED
    BY <2>4, <2>7, <2>9, <2>10, <2>11
<1> QED
  BY <1>3, <1>4

(* A step that moves a thread on and changes nothing that is shared.         *)
LEMMA QuietOutcomes ==
    ASSUME Outcomes!SettledOnce, NEW t \in ServiceThreads,
           \/ \E e \in Executions : Outcomes!Receive(t, e)
           \/ Outcomes!Refuse(t)
           \/ Outcomes!Look(t)
    PROVE  Outcomes!SettledOnce'
<1>1. /\ UNCHANGED <<s3, s4, s5, s6, s7, s8, s9, s10, s11, s12>>
      /\ "idle" \notin Outcomes!Processing /\ "validating" \notin Outcomes!Processing
  BY DEF Outcomes!Receive, Outcomes!Refuse, Outcomes!Look, Outcomes!coordinator_vars,
         Outcomes!writer_vars, Outcomes!Processing, Outcomes!Counted, Outcomes!Locked
<1>2. CASE \E e \in Executions : Outcomes!Receive(t, e)
  <2>1. PICK e \in Executions : s1[t] = "idle" /\ Goes(t, "validating", e)
    BY <1>2 DEF Outcomes!Receive, Outcomes!Go, Goes
  <2> QED
    BY <1>1, <2>1, MovesKeep
<1>3. CASE Outcomes!Refuse(t)
  <2>1. s1[t] = "validating" /\ Goes(t, "idle", Outcomes!Nothing)
    BY <1>3 DEF Outcomes!Refuse, Outcomes!Leave, Outcomes!Go, Goes
  <2> QED
    BY <1>1, <2>1, MovesKeep
<1>4. CASE Outcomes!Look(t)
  <2> DEFINE place == IF s2[t] \in s6 THEN "releasing" ELSE "writing"
  <2>1. s1[t] = "looking" /\ s1' = [s1 EXCEPT ![t] = place] /\ s2' = s2
    BY <1>4 DEF Outcomes!Look, Outcomes!Go
  <2>2. s2[t] \in Executions /\ s2' = [s2 EXCEPT ![t] = s2[t]]
    BY <2>1 DEF Outcomes!SettledOnce, Outcomes!OutcomesTypeOK
  <2>3. place \in Outcomes!Locked /\ s1[t] \in Outcomes!Locked
    BY <2>1 DEF Outcomes!Locked
  <2>4. \A x \in Outcomes!Locked : x \in Outcomes!Counted /\ x \in Outcomes!Processing
    BY DEF Outcomes!Counted, Outcomes!Processing
  <2>5. place = "writing" => s2[t] \notin s6
    OBVIOUS
  <2>6. Goes(t, place, s2[t])
    BY <2>1, <2>2 DEF Goes
  <2> HIDE DEF place
  <2> QED
    BY <1>1, <2>2, <2>3, <2>4, <2>5, <2>6, MovesKeep
<1> QED
  BY <1>2, <1>3, <1>4

(* The mission was moved: the usage is next.                                 *)
LEMMA StatusKeeps ==
    ASSUME Outcomes!SettledOnce, NEW t \in ServiceThreads, Outcomes!UpdateStatus(t)
    PROVE  Outcomes!SettledOnce'
<1>1. s1[t] = "resolving" /\ UNCHANGED <<s5, s6, s7, s8, s10, s11>>
  BY DEF Outcomes!UpdateStatus, Outcomes!writer_vars
<1>2. /\ "resolving" \in Outcomes!Processing /\ "recording" \in Outcomes!Processing
      /\ "resolving" \notin Outcomes!Counted /\ "recording" \notin Outcomes!Locked
  BY DEF Outcomes!Processing, Outcomes!Counted, Outcomes!Locked
<1>3. CASE Outcomes!Finalize(t)
  BY <1>1, <1>2, <1>3, FinalizeKeeps
<1>4. CASE ~Outcomes!Finalize(t)
  <2>1. /\ s1' = [s1 EXCEPT ![t] = "recording"] /\ s2' = s2
        /\ UNCHANGED <<s3, s4, s9, s12>>
    BY <1>4 DEF Outcomes!UpdateStatus, Outcomes!Go, Outcomes!coordinator_vars
  <2>2. s2[t] \in Executions /\ s2' = [s2 EXCEPT ![t] = s2[t]]
    BY <1>1, <2>1 DEF Outcomes!SettledOnce, Outcomes!OutcomesTypeOK
  <2>3. Goes(t, "recording", s2[t])
    BY <2>1, <2>2 DEF Goes
  <2> QED
    BY <1>1, <1>2, <2>1, <2>2, <2>3, MovesKeep
<1> QED
  BY <1>3, <1>4

(* An exception leaves the execution in flight, with no thread.              *)
LEMMA RaisingKeeps ==
    ASSUME Outcomes!SettledOnce, NEW t \in ServiceThreads, Outcomes!StatusRaises(t)
    PROVE  Outcomes!SettledOnce'
<1> USE DEF Outcomes!SettledOnce
<1> DEFINE p == Outcomes!P(t)
           e == s2[t]
<1>1. /\ s1[t] = "resolving" /\ s9' = s9 \cup {<<p, e>>} /\ Goes(t, "idle", Outcomes!Nothing)
      /\ UNCHANGED <<s3, s4, s5, s6, s7, s8, s10, s11, s12>>
  BY DEF Outcomes!StatusRaises, Outcomes!Leave, Outcomes!Go, Goes, Outcomes!writer_vars
<1>2. /\ "resolving" \in Outcomes!Processing /\ "resolving" \notin Outcomes!Counted
      /\ "idle" \notin Outcomes!Processing /\ "idle" \notin Outcomes!Locked
  BY DEF Outcomes!Processing, Outcomes!Counted, Outcomes!Locked
<1>3. p \in ServiceProcesses /\ e \in Executions /\ e \in s3[p]
  BY <1>1, <1>2, OutcomesAssumption DEF Outcomes!OutcomesTypeOK, Outcomes!WithOneThread, Outcomes!P
<1>4. /\ s1' \in [ServiceThreads -> {"idle", "validating"} \cup Outcomes!Processing]
      /\ s2' \in [ServiceThreads -> Executions \cup {Outcomes!Nothing}]
      /\ \A u \in ServiceThreads : s1'[u] = IF u = t THEN "idle" ELSE s1[u]
      /\ \A u \in ServiceThreads : s2'[u] = IF u = t THEN Outcomes!Nothing ELSE s2[u]
  BY <1>1 DEF Goes, Outcomes!OutcomesTypeOK
<1>5. Outcomes!OutcomesTypeOK'
  BY <1>1, <1>4 DEF Outcomes!OutcomesTypeOK
<1>6. Outcomes!WithOneThread'
  BY <1>1, <1>2, <1>4 DEF Outcomes!WithOneThread
<1>7. \A q, x : q = p /\ x = e => ~Outcomes!WorkedOn(q, x)'
  <2>1. \A u \in ServiceThreads \ {t} :
           s1[u] \in Outcomes!Processing => Outcomes!P(u) # p \/ s2[u] # e
    BY <1>1, <1>2 DEF Outcomes!WithOneThread
  <2> QED
    BY <1>2, <1>4, <2>1 DEF Outcomes!WorkedOn
<1>8. \A q \in ServiceProcesses, x \in Executions :
          ~(q = p /\ x = e) => (Outcomes!WorkedOn(q, x)' <=> Outcomes!WorkedOn(q, x))
  BY <1>2, <1>4 DEF Outcomes!WorkedOn
<1>9. Outcomes!InFlight'
  <2>1. \A q \in ServiceProcesses, x \in Executions :
            <<q, x>> \in s9' <=> <<q, x>> \in s9 \/ (q = p /\ x = e)
    BY <1>1
  <2> QED
    BY <1>1, <1>3, <1>7, <1>8, <2>1 DEF Outcomes!InFlight
<1>10. Outcomes!CountedOnce'
  <2>1. \A u \in ServiceThreads : s1[u] \in Outcomes!Counted => s1'[u] = s1[u] /\ s2'[u] = s2[u]
    BY <1>1, <1>2, <1>4
  <2> QED
    BY <1>1, <2>1 DEF Outcomes!CountedOnce
<1>11. Outcomes!StoredAlone'
  BY <1>1, <1>2, <1>4 DEF Outcomes!StoredAlone
<1> QED
  BY <1>5, <1>6, <1>9, <1>10, <1>11

(* The ledger takes the record: the execution is counted once more, by the   *)
(* only thread that has it.                                                  *)
LEMMA RecordingKeeps ==
    ASSUME Outcomes!SettledOnce, NEW t \in ServiceThreads, Outcomes!RecordUsage(t)
    PROVE  Outcomes!SettledOnce'
<1> USE DEF Outcomes!SettledOnce
<1> DEFINE p == Outcomes!P(t)
           e == s2[t]
<1>1. s1[t] = "recording" /\ UNCHANGED <<s6, s7, s8, s10, s11>>
  BY DEF Outcomes!RecordUsage, Outcomes!writer_vars
<1>2. /\ "recording" \in Outcomes!Processing /\ "recording" \notin Outcomes!Counted
      /\ "reporting" \in Outcomes!Processing /\ "reporting" \in Outcomes!Counted
      /\ "reporting" \notin Outcomes!Locked
  BY DEF Outcomes!Processing, Outcomes!Counted, Outcomes!Locked
<1>3. p \in ServiceProcesses /\ e \in Executions /\ e \in s3[p]
  BY <1>1, <1>2, OutcomesAssumption DEF Outcomes!OutcomesTypeOK, Outcomes!WithOneThread, Outcomes!P
<1>4. CASE Outcomes!Finalize(t) /\ UNCHANGED s5
  BY <1>1, <1>2, <1>4, FinalizeKeeps
<1>5. CASE ~(Outcomes!Finalize(t) /\ UNCHANGED s5)
  <2>1. /\ s5' = [s5 EXCEPT ![p][e] = @ + 1] /\ s1' = [s1 EXCEPT ![t] = "reporting"]
        /\ UNCHANGED <<s2, s3, s4, s9, s12>>
    BY <1>5 DEF Outcomes!RecordUsage, Outcomes!Go, Outcomes!coordinator_vars
  <2>2. /\ s1' \in [ServiceThreads -> {"idle", "validating"} \cup Outcomes!Processing]
        /\ \A u \in ServiceThreads : s1'[u] = IF u = t THEN "reporting" ELSE s1[u]
    BY <1>2, <2>1 DEF Outcomes!OutcomesTypeOK
  <2>3. /\ s5' \in [ServiceProcesses -> [Executions -> Nat]]
        /\ \A q \in ServiceProcesses, x \in Executions :
              s5'[q][x] = IF q = p /\ x = e THEN s5[p][e] + 1 ELSE s5[q][x]
    BY <1>3, <2>1 DEF Outcomes!OutcomesTypeOK
  <2>4. Outcomes!OutcomesTypeOK'
    BY <1>1, <2>1, <2>2, <2>3 DEF Outcomes!OutcomesTypeOK
  <2>5. \A u \in ServiceThreads : s1'[u] \in Outcomes!Processing <=> s1[u] \in Outcomes!Processing
    BY <1>1, <1>2, <2>2
  <2>6. Outcomes!WithOneThread' /\ \A q, x : Outcomes!WorkedOn(q, x)' <=> Outcomes!WorkedOn(q, x)
    BY <2>1, <2>5 DEF Outcomes!WithOneThread, Outcomes!WorkedOn
  <2>7. Outcomes!InFlight'
    BY <2>1, <2>6 DEF Outcomes!InFlight
  <2>8. s5[p][e] <= s12[p] /\ s5[p][e] \in Nat /\ s12[p] \in Nat
    <3>1. e \notin s4[p]
      BY <1>3 DEF Outcomes!InFlight
    <3>2. \A u \in ServiceThreads : ~(Outcomes!P(u) = p /\ s2[u] = e /\ s1[u] \in Outcomes!Counted)
      BY <1>1, <1>2 DEF Outcomes!WithOneThread, Outcomes!Processing
    <3> QED
      BY <1>3, <3>1, <3>2 DEF Outcomes!CountedOnce, Outcomes!OutcomesTypeOK
  <2>9. Outcomes!CountedOnce'
    <3> SUFFICES ASSUME NEW q \in ServiceProcesses, NEW x \in Executions, ~(s5'[q][x] <= s12[q])
                 PROVE  /\ s5'[q][x] = s12[q] + 1
                        /\ \/ x \in s4[q]
                           \/ \E u \in ServiceThreads :
                                 Outcomes!P(u) = q /\ s2[u] = x /\ s1'[u] \in Outcomes!Counted
      BY <2>1 DEF Outcomes!CountedOnce
    <3>1. CASE q = p /\ x = e
      <4>1. s5'[q][x] = s12[q] + 1
        BY <2>3, <2>8, <3>1
      <4>2. Outcomes!P(t) = q /\ s2[t] = x /\ s1'[t] \in Outcomes!Counted
        BY <1>2, <2>2, <3>1
      <4> QED
        BY <4>1, <4>2
    <3>2. CASE ~(q = p /\ x = e)
      <4>1. s5'[q][x] = s5[q][x]
        BY <2>3, <3>2
      <4>2. /\ s5[q][x] = s12[q] + 1
            /\ \/ x \in s4[q]
               \/ \E u \in ServiceThreads :
                     Outcomes!P(u) = q /\ s2[u] = x /\ s1[u] \in Outcomes!Counted
        BY <4>1 DEF Outcomes!CountedOnce
      <4> QED
        BY <1>2, <2>2, <4>1, <4>2
    <3> QED
      BY <3>1, <3>2
  <2>10. Outcomes!StoredAlone'
    <3>1. \A u \in ServiceThreads : s1'[u] \in Outcomes!Locked => s1'[u] = s1[u]
      BY <1>2, <2>2
    <3>2. "writing" \in Outcomes!Locked
      BY DEF Outcomes!Locked
    <3> QED
      BY <1>1, <2>1, <3>1, <3>2 DEF Outcomes!StoredAlone
  <2> QED
    BY <2>4, <2>6, <2>7, <2>9, <2>10
<1> QED
  BY <1>4, <1>5

(* The report is refused, or stored and the lock left.                       *)
LEMMA ReportingKeeps ==
    ASSUME Outcomes!SettledOnce, NEW t \in ServiceThreads,
           Outcomes!ReportRefused(t) \/ Outcomes!Release(t)
    PROVE  Outcomes!SettledOnce'
<1>1. /\ Outcomes!Finalize(t) /\ UNCHANGED <<s5, s6, s8, s10, s11>>
      /\ \/ s1[t] = "reporting" /\ s7' = s7
         \/ s1[t] = "releasing"
  BY DEF Outcomes!ReportRefused, Outcomes!Release, Outcomes!writer_vars
<1> QED
  BY <1>1, FinalizeKeeps DEF Outcomes!Processing, Outcomes!Counted, Outcomes!Locked

(* A thread that takes the lock is alone with it, or met one of its process. *)
LEMMA AcquireKeeps ==
    ASSUME Outcomes!SettledOnce, NEW t \in ServiceThreads, Outcomes!Acquire(t)
    PROVE  Outcomes!SettledOnce'
<1> USE DEF Outcomes!SettledOnce
<1> DEFINE p == Outcomes!P(t)
<1>1. /\ s1[t] = "reporting" /\ s7 \in {Outcomes!Nobody, p} /\ s7' = p
      /\ s11' = (s11 \/ s7 = p) /\ s8' = [s8 EXCEPT ![p] = t]
      /\ s1' = [s1 EXCEPT ![t] = "looking"]
      /\ UNCHANGED <<s2, s3, s4, s5, s6, s9, s10, s12>>
  BY DEF Outcomes!Acquire, Outcomes!Go, Outcomes!coordinator_vars
<1>2. /\ {"reporting", "looking"} \subseteq Outcomes!Processing
      /\ {"reporting", "looking"} \subseteq Outcomes!Counted
  BY DEF Outcomes!Processing, Outcomes!Counted, Outcomes!Locked
<1>3. /\ s1' \in [ServiceThreads -> {"idle", "validating"} \cup Outcomes!Processing]
      /\ \A u \in ServiceThreads : s1'[u] = IF u = t THEN "looking" ELSE s1[u]
  BY <1>1, <1>2 DEF Outcomes!OutcomesTypeOK
<1>4. p \in ServiceProcesses
  BY OutcomesAssumption DEF Outcomes!P
<1>5. /\ s8' \in [ServiceProcesses -> ServiceThreads \cup {Outcomes!Nobody}]
      /\ \A q \in ServiceProcesses : s8'[q] = IF q = p THEN t ELSE s8[q]
  BY <1>1, <1>4 DEF Outcomes!OutcomesTypeOK
<1>6. Outcomes!OutcomesTypeOK'
  BY <1>1, <1>3, <1>5 DEF Outcomes!OutcomesTypeOK
<1>7. \A u \in ServiceThreads : /\ s1'[u] \in Outcomes!Processing <=> s1[u] \in Outcomes!Processing
                                /\ s1'[u] \in Outcomes!Counted <=> s1[u] \in Outcomes!Counted
  BY <1>1, <1>2, <1>3
<1>8. Outcomes!WithOneThread' /\ \A q, x : Outcomes!WorkedOn(q, x)' <=> Outcomes!WorkedOn(q, x)
  BY <1>1, <1>7 DEF Outcomes!WithOneThread, Outcomes!WorkedOn
<1>9. Outcomes!InFlight'
  BY <1>1, <1>8 DEF Outcomes!InFlight
<1>10. Outcomes!CountedOnce'
  BY <1>1, <1>7 DEF Outcomes!CountedOnce
<1>11. Outcomes!StoredAlone'
  <2> SUFFICES ASSUME ~s11'
               PROVE  /\ s10 = {}
                      /\ \A u \in ServiceThreads :
                            s1'[u] \in Outcomes!Locked => s7' = Outcomes!P(u) /\ s8'[Outcomes!P(u)] = u
                      /\ \A u \in ServiceThreads : s1'[u] = "writing" => s2[u] \notin s6
    BY <1>1 DEF Outcomes!StoredAlone
  <2>1. ~s11 /\ s7 = Outcomes!Nobody
    BY <1>1
  <2>2. \A u \in ServiceThreads : s1[u] \notin Outcomes!Locked
    <3>1. \A u \in ServiceThreads : Outcomes!P(u) # Outcomes!Nobody
      BY OutcomesAssumption DEF Outcomes!P
    <3> QED
      BY <2>1, <3>1 DEF Outcomes!StoredAlone
  <2>3. \A u \in ServiceThreads : s1'[u] \in Outcomes!Locked => u = t
    BY <1>3, <2>2
  <2>4. "writing" \in Outcomes!Locked
    BY DEF Outcomes!Locked
  <2>5. s7' = Outcomes!P(t) /\ s8'[Outcomes!P(t)] = t /\ s1'[t] # "writing"
    BY <1>1, <1>3, <1>4, <1>5
  <2>6. s10 = {}
    BY <2>1 DEF Outcomes!StoredAlone
  <2> QED
    BY <2>3, <2>4, <2>5, <2>6
<1> QED
  BY <1>6, <1>8, <1>9, <1>10, <1>11

(* A report is written, where none was if the writer has the lock alone.     *)
LEMMA WriteKeeps ==
    ASSUME Outcomes!SettledOnce, NEW t \in ServiceThreads, Outcomes!Write(t)
    PROVE  Outcomes!SettledOnce'
<1> USE DEF Outcomes!SettledOnce
<1>1. /\ s1[t] = "writing" /\ s1' = [s1 EXCEPT ![t] = "releasing"]
      /\ UNCHANGED <<s2, s3, s4, s5, s7, s8, s9, s11, s12>>
      /\ \/ s6' = s6 \cup {s2[t]} /\ s10' = s10 \cup ({s2[t]} \cap s6)
         \/ s6' = s6 /\ s10' = s10
  BY DEF Outcomes!Write, Outcomes!Go, Outcomes!coordinator_vars
<1>2. /\ {"writing", "releasing"} \subseteq Outcomes!Processing
      /\ {"writing", "releasing"} \subseteq Outcomes!Counted
      /\ {"writing", "releasing"} \subseteq Outcomes!Locked
  BY DEF Outcomes!Processing, Outcomes!Counted, Outcomes!Locked
<1>3. /\ s1' \in [ServiceThreads -> {"idle", "validating"} \cup Outcomes!Processing]
      /\ \A u \in ServiceThreads : s1'[u] = IF u = t THEN "releasing" ELSE s1[u]
  BY <1>1, <1>2 DEF Outcomes!OutcomesTypeOK
<1>4. Outcomes!OutcomesTypeOK'
  BY <1>1, <1>3 DEF Outcomes!OutcomesTypeOK
<1>5. \A u \in ServiceThreads : /\ s1'[u] \in Outcomes!Processing <=> s1[u] \in Outcomes!Processing
                                /\ s1'[u] \in Outcomes!Counted <=> s1[u] \in Outcomes!Counted
                                /\ s1'[u] \in Outcomes!Locked <=> s1[u] \in Outcomes!Locked
  BY <1>1, <1>2, <1>3
<1>6. Outcomes!WithOneThread' /\ \A q, x : Outcomes!WorkedOn(q, x)' <=> Outcomes!WorkedOn(q, x)
  BY <1>1, <1>5 DEF Outcomes!WithOneThread, Outcomes!WorkedOn
<1>7. Outcomes!InFlight'
  BY <1>1, <1>6 DEF Outcomes!InFlight
<1>8. Outcomes!CountedOnce'
  BY <1>1, <1>5 DEF Outcomes!CountedOnce
<1>9. Outcomes!StoredAlone'
  <2> SUFFICES ASSUME ~s11
               PROVE  /\ s10' = {}
                      /\ \A u \in ServiceThreads :
                            s1'[u] \in Outcomes!Locked => s7 = Outcomes!P(u) /\ s8[Outcomes!P(u)] = u
                      /\ \A u \in ServiceThreads : s1'[u] = "writing" => s2[u] \notin s6'
    BY <1>1 DEF Outcomes!StoredAlone
  <2>1. /\ s10 = {} /\ s2[t] \notin s6
        /\ \A u \in ServiceThreads :
              s1[u] \in Outcomes!Locked => s7 = Outcomes!P(u) /\ s8[Outcomes!P(u)] = u
    BY <1>1 DEF Outcomes!StoredAlone
  <2>2. \A u \in ServiceThreads : s1[u] \in Outcomes!Locked => u = t
    BY <1>1, <1>2, <2>1
  <2>3. \A u \in ServiceThreads : s1'[u] # "writing"
    BY <1>2, <1>3, <2>2
  <2> QED
    BY <1>1, <1>5, <2>1, <2>3
<1> QED
  BY <1>4, <1>6, <1>7, <1>8, <1>9

(* A process dies: what it had in flight, finished and locked is forgotten.  *)
LEMMA RestartKeeps ==
    ASSUME Outcomes!SettledOnce, NEW p \in ServiceProcesses, Outcomes!Restart(p)
    PROVE  Outcomes!SettledOnce'
<1> USE DEF Outcomes!SettledOnce
<1>1. /\ s12' = [s12 EXCEPT ![p] = @ + 1] /\ s3' = [s3 EXCEPT ![p] = {}]
      /\ s4' = [s4 EXCEPT ![p] = {}] /\ s9' = {x \in s9 : x[1] # p}
      /\ s1' = [t \in ServiceThreads |-> IF Outcomes!P(t) = p THEN "idle" ELSE s1[t]]
      /\ s2' = [t \in ServiceThreads |-> IF Outcomes!P(t) = p THEN Outcomes!Nothing ELSE s2[t]]
      /\ s7' = IF s7 = p THEN Outcomes!Nobody ELSE s7
      /\ UNCHANGED <<s5, s6, s8, s10, s11>>
  BY DEF Outcomes!Restart
<1>2. "idle" \notin Outcomes!Processing /\ "idle" \notin Outcomes!Counted /\ "idle" \notin Outcomes!Locked
  BY DEF Outcomes!Processing, Outcomes!Counted, Outcomes!Locked
<1>3. /\ s12' \in [ServiceProcesses -> Nat] /\ s3' \in [ServiceProcesses -> SUBSET Executions]
      /\ s4' \in [ServiceProcesses -> SUBSET Executions]
      /\ \A q \in ServiceProcesses : /\ s12'[q] = IF q = p THEN s12[p] + 1 ELSE s12[q]
                                     /\ s3'[q] = IF q = p THEN {} ELSE s3[q]
                                     /\ s4'[q] = IF q = p THEN {} ELSE s4[q]
  BY <1>1 DEF Outcomes!OutcomesTypeOK
<1>4. \A t \in ServiceThreads : /\ s1'[t] = IF Outcomes!P(t) = p THEN "idle" ELSE s1[t]
                                /\ s2'[t] = IF Outcomes!P(t) = p THEN Outcomes!Nothing ELSE s2[t]
  BY <1>1
<1>5. Outcomes!OutcomesTypeOK'
  BY <1>1, <1>3 DEF Outcomes!OutcomesTypeOK
<1>6. Outcomes!WithOneThread'
  <2>1. \A t \in ServiceThreads : Outcomes!P(t) \in ServiceProcesses
    BY OutcomesAssumption DEF Outcomes!P
  <2> QED
    BY <1>2, <1>3, <1>4, <2>1 DEF Outcomes!WithOneThread
<1>7. \A q \in ServiceProcesses \ {p}, x \in Executions :
         /\ Outcomes!WorkedOn(q, x)' <=> Outcomes!WorkedOn(q, x)
         /\ <<q, x>> \in s9' <=> <<q, x>> \in s9
  BY <1>1, <1>2, <1>4 DEF Outcomes!WorkedOn
<1>8. \A x \in Executions : <<p, x>> \notin s9'
  BY <1>1
<1>9. Outcomes!InFlight'
  BY <1>3, <1>7, <1>8 DEF Outcomes!InFlight
<1>10. Outcomes!CountedOnce'
  <2> SUFFICES ASSUME NEW q \in ServiceProcesses, NEW x \in Executions, ~(s5[q][x] <= s12'[q])
               PROVE  /\ s5[q][x] = s12'[q] + 1
                      /\ \/ x \in s4'[q]
                         \/ \E u \in ServiceThreads :
                               Outcomes!P(u) = q /\ s2'[u] = x /\ s1'[u] \in Outcomes!Counted
    BY <1>1 DEF Outcomes!CountedOnce
  <2>1. s5[q][x] \in Nat /\ s12[q] \in Nat
    BY DEF Outcomes!OutcomesTypeOK
  <2>2. \/ s5[q][x] <= s12[q]
        \/ /\ s5[q][x] = s12[q] + 1
           /\ \/ x \in s4[q]
              \/ \E u \in ServiceThreads :
                    Outcomes!P(u) = q /\ s2[u] = x /\ s1[u] \in Outcomes!Counted
    BY DEF Outcomes!CountedOnce
  <2>3. q # p
    <3>1. SUFFICES ASSUME q = p PROVE FALSE
      OBVIOUS
    <3>2. s12'[q] = s12[q] + 1
      BY <1>3, <3>1
    <3> QED
      BY <2>1, <2>2, <3>2
  <2>4. s12'[q] = s12[q] /\ s4'[q] = s4[q]
    BY <1>3, <2>3
  <2>5. \A u \in ServiceThreads : Outcomes!P(u) = q => s1'[u] = s1[u] /\ s2'[u] = s2[u]
    BY <1>4, <2>3
  <2> QED
    BY <2>2, <2>4, <2>5
<1>11. Outcomes!StoredAlone'
  <2>1. \A t \in ServiceThreads :
           s1'[t] \in Outcomes!Locked => s1'[t] = s1[t] /\ s2'[t] = s2[t] /\ Outcomes!P(t) # p
    BY <1>2, <1>4
  <2>2. "writing" \in Outcomes!Locked
    BY DEF Outcomes!Locked
  <2> QED
    BY <1>1, <2>1, <2>2 DEF Outcomes!StoredAlone
<1> QED
  BY <1>5, <1>6, <1>9, <1>10, <1>11

LEMMA OutcomesKeep ==
    ASSUME Outcomes!SettledOnce, Outcomes!Next \/ UNCHANGED Outcomes!vars
    PROVE  Outcomes!SettledOnce'
<1>1. ASSUME NEW t \in ServiceThreads, Outcomes!Step(t) PROVE Outcomes!SettledOnce'
  BY <1>1, QuietOutcomes, ReserveKeeps, StatusKeeps, RaisingKeeps, RecordingKeeps, ReportingKeeps,
     AcquireKeeps, WriteKeeps DEF Outcomes!Step
<1>2. CASE UNCHANGED Outcomes!vars
  BY <1>2 DEF Outcomes!vars, Outcomes!coordinator_vars, Outcomes!writer_vars, Outcomes!SettledOnce,
              Outcomes!OutcomesTypeOK, Outcomes!WithOneThread, Outcomes!InFlight,
              Outcomes!WorkedOn, Outcomes!CountedOnce, Outcomes!StoredAlone
<1> QED
  BY <1>1, <1>2, RestartKeeps DEF Outcomes!Next

(* An outcome that is delivered again, after any crashes, is counted once in *)
(* each life of a process, and a report that is on the disk is replaced only *)
(* after two threads of one process shared the lock: for any processes,      *)
(* threads and executions.                                                   *)
THEOREM OutcomesAreSettledOnce == AnySpec => []OutcomesAreFinal
<1> DEFINE Inv == component = "outcomes" => Outcomes!SettledOnce
<1>1. AnyInit => Inv
  BY OutcomesBegin DEF AnyInit
<1>2. Inv /\ [AnyNext]_AnyVars => Inv'
  BY Selected, OutcomesKeep
<1>3. Inv => OutcomesAreFinal
  <2> SUFFICES ASSUME Outcomes!SettledOnce PROVE Outcomes!OutcomesAreFinal
    BY DEF OutcomesAreFinal
  <2>1. ASSUME NEW p \in ServiceProcesses, NEW e \in Executions PROVE s5[p][e] <= 1 + s12[p]
    <3>1. s5[p][e] \in Nat /\ s12[p] \in Nat
      BY DEF Outcomes!SettledOnce, Outcomes!OutcomesTypeOK
    <3> QED
      BY <3>1 DEF Outcomes!SettledOnce, Outcomes!CountedOnce
  <2>2. ASSUME NEW p \in ServiceProcesses, NEW e \in s3[p]
        PROVE  <<p, e>> \in s9 \/ \E t \in ServiceThreads : Outcomes!P(t) = p /\ s2[t] = e
    <3>1. e \in Executions
      BY DEF Outcomes!SettledOnce, Outcomes!OutcomesTypeOK
    <3> QED
      BY <3>1 DEF Outcomes!SettledOnce, Outcomes!InFlight, Outcomes!WorkedOn
  <2>3. Outcomes!ReportIsFinal
    BY DEF Outcomes!ReportIsFinal, Outcomes!SettledOnce, Outcomes!StoredAlone
  <2> QED
    BY <2>1, <2>2, <2>3 DEF Outcomes!OutcomesAreFinal, Outcomes!ProcessedOnce
<1> QED
  BY <1>1, <1>2, <1>3, PTL DEF AnySpec, AnyVars

-----------------------------------------------------------------------------
(* The ledger of usage; s1 file, s2 tmp, s3 lock, s4 events, s5 pc, s6 usage,*)
(* s7 data, s8 failures, s9 crossed.                                         *)

LEMMA MissingHasNone ==
    /\ \A f \in [Usages -> Nat] : f # Ledger!Missing
    /\ Ledger!EmptyLedger \in [Usages -> Nat]
    /\ \A u \in Usages : Ledger!EmptyLedger[u] = 0
BY LedgerAssumption DEF Ledger!Missing, Ledger!EmptyLedger

LEMMA LedgerBegins == Ledger!Init => Ledger!LedgerInv
BY MissingHasNone DEF Ledger!Init, Ledger!LedgerInv, Ledger!LedgerTypeOK, Ledger!Placed, Ledger!FileGrows,
   Ledger!WithLock, Ledger!WithoutFile, Ledger!WithUsage

(* A process looks for the file, begins, or takes the lock.                  *)
LEMMA ApproachKeeps ==
    ASSUME Ledger!LedgerInv, NEW p \in ServiceProcesses,
           \/ Ledger!CheckFiles(p) \/ Ledger!Acquire(p)
           \/ \E u \in Usages : Ledger!Begin(p, u)
    PROVE  Ledger!LedgerInv'
<1> USE DEF Ledger!LedgerInv, Ledger!WithLock, Ledger!WithoutFile, Ledger!WithUsage
<1>1. CASE Ledger!CheckFiles(p)
  <2>1. /\ s5[p] = "new" /\ s5' = [s5 EXCEPT ![p] = IF s1 = Ledger!Missing THEN "create" ELSE "ready"]
        /\ s7' = [s7 EXCEPT ![p] = Ledger!EmptyLedger]
        /\ UNCHANGED <<s1, s2, s3, s4, s6, s8, s9>>
    BY <1>1 DEF Ledger!CheckFiles, Ledger!Go, Ledger!Prepare
  <2>2. /\ \A q \in ServiceProcesses :
              s5'[q] = IF q = p THEN IF s1 = Ledger!Missing THEN "create" ELSE "ready" ELSE s5[q]
        /\ \A q \in ServiceProcesses : s7'[q] = IF q = p THEN Ledger!EmptyLedger ELSE s7[q]
    BY <2>1 DEF Ledger!LedgerTypeOK
  <2>3. Ledger!LedgerTypeOK'
    BY <2>1, MissingHasNone DEF Ledger!LedgerTypeOK
  <2>4. Ledger!Placed'
    BY <2>1, <2>2 DEF Ledger!Placed
  <2>5. ~s9 => Ledger!FileGrows'
    BY <2>1, <2>2 DEF Ledger!FileGrows
  <2> QED
    BY <2>1, <2>3, <2>4, <2>5
<1>2. CASE Ledger!Acquire(p)
  <2>1. /\ s5[p] = "acquire" /\ s5' = [s5 EXCEPT ![p] = "load"] /\ s3 = Ledger!Free /\ s3' = p
        /\ UNCHANGED <<s1, s2, s4, s6, s7, s8, s9>>
    BY <1>2 DEF Ledger!Acquire, Ledger!Go
  <2>2. \A q \in ServiceProcesses : s5'[q] = IF q = p THEN "load" ELSE s5[q]
    BY <2>1 DEF Ledger!LedgerTypeOK
  <2>3. Ledger!LedgerTypeOK'
    BY <2>1 DEF Ledger!LedgerTypeOK
  <2>4. Ledger!Placed'
    BY <2>1, <2>2, LedgerAssumption DEF Ledger!Placed
  <2>5. ~s9 => Ledger!FileGrows'
    BY <2>1, <2>2 DEF Ledger!FileGrows
  <2> QED
    BY <2>1, <2>3, <2>4, <2>5
<1>3. CASE \E u \in Usages : Ledger!Begin(p, u)
  <2>1. PICK u \in Usages : s6' = [s6 EXCEPT ![p] = u]
    BY <1>3 DEF Ledger!Begin
  <2>2. /\ s5[p] = "ready" /\ s5' = [s5 EXCEPT ![p] = "acquire"]
        /\ UNCHANGED <<s1, s2, s3, s4, s7, s8, s9>>
    BY <1>3 DEF Ledger!Begin, Ledger!Go
  <2>3. /\ \A q \in ServiceProcesses : s5'[q] = IF q = p THEN "acquire" ELSE s5[q]
        /\ \A q \in ServiceProcesses : s6'[q] = IF q = p THEN u ELSE s6[q]
    BY <2>1, <2>2 DEF Ledger!LedgerTypeOK
  <2>4. Ledger!LedgerTypeOK'
    BY <2>1, <2>2 DEF Ledger!LedgerTypeOK
  <2>5. Ledger!Placed'
    BY <2>1, <2>2, <2>3 DEF Ledger!Placed
  <2>6. ~s9 => Ledger!FileGrows'
    BY <2>2, <2>3 DEF Ledger!FileGrows
  <2> QED
    BY <2>2, <2>4, <2>5, <2>6
<1> QED
  BY <1>1, <1>2, <1>3

(* A process that has the lock reads the file, and prepares one usage more.  *)
LEMMA LoadKeeps ==
    ASSUME Ledger!LedgerInv, NEW p \in ServiceProcesses, Ledger!Load(p)
    PROVE  Ledger!LedgerInv'
<1> USE DEF Ledger!LedgerInv, Ledger!WithLock, Ledger!WithoutFile, Ledger!WithUsage
<1> DEFINE u == s6[p]
<1>1. s5[p] = "load" /\ UNCHANGED <<s1, s2, s4, s6, s8, s9>>
  BY DEF Ledger!Load
<1>2. s1 \in [Usages -> Nat] /\ u \in Usages /\ s3 = p
  BY <1>1 DEF Ledger!LedgerTypeOK, Ledger!Placed
<1>3. CASE s1[u] > 0
  <2>1. s3' = Ledger!Free /\ s5' = [s5 EXCEPT ![p] = "ready"] /\ s7' = s7
    BY <1>3 DEF Ledger!Load, Ledger!Go
  <2>2. \A q \in ServiceProcesses : s5'[q] = IF q = p THEN "ready" ELSE s5[q]
    BY <2>1 DEF Ledger!LedgerTypeOK
  <2>3. Ledger!LedgerTypeOK'
    BY <1>1, <2>1 DEF Ledger!LedgerTypeOK
  <2>4. Ledger!Placed'
    BY <1>1, <1>2, <2>1, <2>2 DEF Ledger!Placed
  <2>5. ~s9 => Ledger!FileGrows'
    BY <1>1, <2>1, <2>2 DEF Ledger!FileGrows
  <2> QED
    BY <1>1, <2>3, <2>4, <2>5
<1>4. CASE ~(s1[u] > 0)
  <2> DEFINE d == [s1 EXCEPT ![u] = @ + 1]
  <2>1. s7' = [s7 EXCEPT ![p] = d] /\ s5' = [s5 EXCEPT ![p] = "write"] /\ s3' = s3
    BY <1>4 DEF Ledger!Load, Ledger!Go, Ledger!Prepare
  <2>2. d \in [Usages -> Nat] /\ s1[u] = 0 /\ d = [s1 EXCEPT ![u] = 1]
    <3>1. s1[u] = 0 /\ s1[u] + 1 = 1
      BY <1>2, <1>4
    <3>2. d = [s1 EXCEPT ![u] = 1]
      BY <3>1
    <3>3. [s1 EXCEPT ![u] = 1] \in [Usages -> Nat]
      BY <1>2
    <3> QED
      BY <3>1, <3>2, <3>3
  <2> HIDE DEF d
  <2>3. /\ \A q \in ServiceProcesses : s5'[q] = IF q = p THEN "write" ELSE s5[q]
        /\ \A q \in ServiceProcesses : s7'[q] = IF q = p THEN d ELSE s7[q]
    BY <2>1 DEF Ledger!LedgerTypeOK
  <2>4. Ledger!LedgerTypeOK'
    BY <1>1, <2>1, <2>2 DEF Ledger!LedgerTypeOK
  <2>5. Ledger!Placed'
    BY <1>1, <1>2, <2>1, <2>3 DEF Ledger!Placed
  <2>6. ~s9 => Ledger!FileGrows'
    <3> SUFFICES ASSUME ~s9
                 PROVE  Ledger!FileGrows'
      OBVIOUS
    <3>1. Ledger!FileGrows
      OBVIOUS
    <3>2. /\ s1 = Ledger!Missing => s4 = {} /\ s2 \in {Ledger!Missing, Ledger!EmptyLedger}
          /\ s1 # Ledger!Missing => \A v \in Usages : s1[v] \in {0, 1}
          /\ \A v \in s4 : s1[v] = 1
      BY <3>1 DEF Ledger!FileGrows
    <3>3. ASSUME NEW q \in ServiceProcesses
          PROVE  /\ s5'[q] = "event" => s1[s6[q]] = 1
                 /\ s5'[q] \in {"write", "move"} =>
                       s1[s6[q]] = 0 /\ s7'[q] = [s1 EXCEPT ![s6[q]] = 1]
                 /\ s5'[q] = "move" => s2 \in {Ledger!Missing, s7'[q]}
      <4>1. CASE q = p
        BY <2>2, <2>3, <4>1
      <4>2. CASE q # p
        BY <2>3, <3>1, <4>2 DEF Ledger!FileGrows
      <4> QED
        BY <4>1, <4>2
    <3> QED
      BY <1>1, <3>2, <3>3 DEF Ledger!FileGrows
  <2> QED
    BY <1>1, <2>4, <2>5, <2>6
<1> QED
  BY <1>3, <1>4

(* The temporary file is written, over what another left there.              *)
LEMMA WriteTmpKeeps ==
    ASSUME Ledger!LedgerInv, NEW p \in ServiceProcesses, Ledger!WriteTmp(p)
    PROVE  Ledger!LedgerInv'
<1> USE DEF Ledger!LedgerInv, Ledger!WithLock, Ledger!WithoutFile, Ledger!WithUsage
<1> DEFINE place == IF s5[p] = "create" THEN "install" ELSE "move"
<1>1. /\ s5[p] \in {"create", "write"} /\ s2' = s7[p] /\ s5' = [s5 EXCEPT ![p] = place]
      /\ s9' = (s9 \/ (s5[p] = "create" /\ ~(s1 = Ledger!Missing /\ s2 = Ledger!Missing)))
      /\ UNCHANGED <<s1, s3, s4, s6, s7, s8>>
  BY DEF Ledger!WriteTmp, Ledger!Go
<1>2. \A q \in ServiceProcesses : s5'[q] = IF q = p THEN place ELSE s5[q]
  BY <1>1 DEF Ledger!LedgerTypeOK
<1>3. Ledger!LedgerTypeOK'
  BY <1>1 DEF Ledger!LedgerTypeOK
<1>4. Ledger!Placed'
  BY <1>1, <1>2 DEF Ledger!Placed
<1>5. ASSUME ~s9' PROVE Ledger!FileGrows'
  <2>1. ~s9 /\ (s5[p] = "create" => s1 = Ledger!Missing /\ s7[p] = Ledger!EmptyLedger)
    BY <1>1, <1>5 DEF Ledger!Placed
  <2>2. Ledger!FileGrows
    BY <2>1
  <2>3. s5[p] = "write" => s1 # Ledger!Missing /\ s3 = p
    BY DEF Ledger!Placed
  <2>4. s1 = Ledger!Missing => s4' = {} /\ s2' \in {Ledger!Missing, Ledger!EmptyLedger}
    BY <1>1, <2>1, <2>2, <2>3 DEF Ledger!FileGrows
  <2>5. \A q \in ServiceProcesses : s5'[q] = "move" => s2' \in {Ledger!Missing, s7[q]}
    BY <1>1, <1>2, <2>1, <2>3 DEF Ledger!Placed
  <2> QED
    BY <1>1, <1>2, <2>2, <2>4, <2>5 DEF Ledger!FileGrows
<1> QED
  BY <1>3, <1>4, <1>5

(* What the temporary name leads to is moved into place, by one who has the  *)
(* lock or where no file was.                                                *)
LEMMA LedgerMoveKeeps ==
    ASSUME Ledger!LedgerInv, NEW p \in ServiceProcesses, Ledger!Move(p)
    PROVE  Ledger!LedgerInv'
<1> USE DEF Ledger!LedgerInv, Ledger!WithLock, Ledger!WithoutFile, Ledger!WithUsage
<1>1. /\ s5[p] \in {"move", "install"} /\ s2' = Ledger!Missing
      /\ s3' = (IF s3 = p THEN Ledger!Free ELSE s3)
      /\ s9' = (s9 \/ (s5[p] = "install" /\ s1 # Ledger!Missing))
      /\ UNCHANGED <<s4, s6, s7, s8>>
  BY DEF Ledger!Move, Ledger!Release
<1>2. CASE s2 = Ledger!Missing
  <2> DEFINE place == IF s5[p] = "move" THEN "ready" ELSE "new"
  <2>1. s1' = s1 /\ s5' = [s5 EXCEPT ![p] = place]
    BY <1>2 DEF Ledger!Move, Ledger!Go
  <2>2. \A q \in ServiceProcesses : s5'[q] = IF q = p THEN place ELSE s5[q]
    BY <2>1 DEF Ledger!LedgerTypeOK
  <2>3. Ledger!LedgerTypeOK'
    BY <1>1, <2>1 DEF Ledger!LedgerTypeOK
  <2>4. Ledger!Placed'
    BY <1>1, <2>1, <2>2, LedgerAssumption DEF Ledger!Placed
  <2>5. ASSUME ~s9' PROVE Ledger!FileGrows'
    <3>1. Ledger!FileGrows
      BY <1>1, <2>5
    <3>2. \A q \in ServiceProcesses : s5'[q] \in {"write", "move", "event"} => s5'[q] = s5[q]
      BY <2>2
    <3> QED
      BY <1>1, <2>1, <3>1, <3>2 DEF Ledger!FileGrows
  <2> QED
    BY <2>3, <2>4, <2>5
<1>3. CASE s2 # Ledger!Missing
  <2> DEFINE place == IF s5[p] = "move" THEN "event" ELSE "ready"
  <2>1. s1' = s2 /\ s5' = [s5 EXCEPT ![p] = place]
    BY <1>3 DEF Ledger!Move, Ledger!Go
  <2>2. \A q \in ServiceProcesses : s5'[q] = IF q = p THEN place ELSE s5[q]
    BY <2>1 DEF Ledger!LedgerTypeOK
  <2>3. Ledger!LedgerTypeOK'
    BY <1>1, <1>3, <2>1 DEF Ledger!LedgerTypeOK
  <2>4. Ledger!Placed'
    BY <1>1, <1>3, <2>1, <2>2, LedgerAssumption DEF Ledger!Placed
  <2>5. ASSUME ~s9' PROVE Ledger!FileGrows'
    <3>1. ~s9 /\ (s5[p] = "install" => s1 = Ledger!Missing) /\ Ledger!FileGrows
      BY <1>1, <2>5
    <3>2. CASE s5[p] = "install"
      <4>1. /\ s1 = Ledger!Missing /\ s2 = Ledger!EmptyLedger /\ s4 = {}
            /\ \A q \in ServiceProcesses : s5[q] \in Ledger!WithoutFile
        BY <1>3, <3>1, <3>2 DEF Ledger!FileGrows, Ledger!Placed
      <4>2. \A q \in ServiceProcesses : s5'[q] \in Ledger!WithoutFile \cup {"ready"}
        BY <2>2, <3>2, <4>1
      <4> QED
        BY <1>1, <1>3, <2>1, <4>1, <4>2, MissingHasNone DEF Ledger!FileGrows
    <3>3. CASE s5[p] = "move"
      <4> DEFINE u == s6[p]
      <4>1. /\ s1 \in [Usages -> Nat] /\ u \in Usages /\ s3 = p
            /\ s2 = [s1 EXCEPT ![u] = 1] /\ s1[u] = 0
        BY <1>3, <3>1, <3>3 DEF Ledger!FileGrows, Ledger!Placed, Ledger!LedgerTypeOK
      <4>2. /\ s1' # Ledger!Missing
            /\ \A v \in Usages : s1'[v] = IF v = u THEN 1 ELSE s1[v]
        BY <1>3, <2>1, <4>1
      <4>3. s4 \subseteq Usages /\ \A v \in s4 : s1[v] = 1
        BY <3>1 DEF Ledger!FileGrows, Ledger!LedgerTypeOK
      <4>4. \A v \in s4 : s1'[v] = 1
        BY <4>2, <4>3
      <4>5. \A v \in Usages : s1'[v] \in {0, 1}
        BY <3>1, <4>1, <4>2, MissingHasNone DEF Ledger!FileGrows
      <4>6. ASSUME NEW q \in ServiceProcesses, s5'[q] = "event" PROVE s1'[s6[q]] = 1
        <5>1. CASE q = p
          BY <4>1, <4>2, <5>1
        <5>2. CASE q # p
          <6>1. s5[q] = "event" /\ s6[q] \in Usages /\ s1[s6[q]] = 1
            BY <2>2, <3>1, <4>6, <5>2 DEF Ledger!FileGrows, Ledger!Placed
          <6> QED
            BY <4>2, <6>1
        <5> QED
          BY <5>1, <5>2
      <4>7. \A q \in ServiceProcesses : s5'[q] \notin {"write", "move"}
        BY <2>2, <3>3, <4>1 DEF Ledger!Placed
      <4> QED
        BY <1>1, <4>2, <4>4, <4>5, <4>6, <4>7 DEF Ledger!FileGrows
    <3> QED
      BY <1>1, <3>2, <3>3
  <2> QED
    BY <2>3, <2>4, <2>5
<1> QED
  BY <1>2, <1>3

(* A process is told that its usage was recorded, raises or dies.            *)
LEMMA LedgerEndKeeps ==
    ASSUME Ledger!LedgerInv, NEW p \in ServiceProcesses,
           Ledger!EmitRecorded(p) \/ Ledger!Raise(p) \/ Ledger!Crash(p)
    PROVE  Ledger!LedgerInv'
<1> USE DEF Ledger!LedgerInv, Ledger!WithLock, Ledger!WithoutFile, Ledger!WithUsage
<1>1. CASE Ledger!EmitRecorded(p)
  <2>1. /\ s5[p] = "event" /\ s5' = [s5 EXCEPT ![p] = "ready"] /\ s4' = s4 \cup {s6[p]}
        /\ UNCHANGED <<s1, s2, s3, s6, s7, s8, s9>>
    BY <1>1 DEF Ledger!EmitRecorded, Ledger!Go
  <2>2. \A q \in ServiceProcesses : s5'[q] = IF q = p THEN "ready" ELSE s5[q]
    BY <2>1 DEF Ledger!LedgerTypeOK
  <2>3. s6[p] \in Usages /\ s1 # Ledger!Missing
    BY <2>1 DEF Ledger!Placed
  <2>4. Ledger!LedgerTypeOK'
    BY <2>1, <2>3 DEF Ledger!LedgerTypeOK
  <2>5. Ledger!Placed'
    BY <2>1, <2>2 DEF Ledger!Placed
  <2>6. ASSUME ~s9 PROVE Ledger!FileGrows'
    <3>1. Ledger!FileGrows /\ s1[s6[p]] = 1
      BY <2>1, <2>6 DEF Ledger!FileGrows
    <3>2. \A u \in s4' : s1[u] = 1
      BY <2>1, <3>1 DEF Ledger!FileGrows
    <3>3. \A q \in ServiceProcesses : s5'[q] \in {"write", "move", "event"} => s5'[q] = s5[q]
      BY <2>2
    <3> QED
      BY <2>1, <2>3, <3>1, <3>2, <3>3 DEF Ledger!FileGrows
  <2> QED
    BY <2>1, <2>4, <2>5, <2>6
<1>2. CASE Ledger!Raise(p) \/ Ledger!Crash(p)
  <2>1. PICK place \in {"new", "ready"} : s5' = [s5 EXCEPT ![p] = place]
    BY <1>2 DEF Ledger!Raise, Ledger!Crash, Ledger!Go
  <2>2. /\ s2' \in {s2, Ledger!Missing} /\ s3' = (IF s3 = p THEN Ledger!Free ELSE s3)
        /\ UNCHANGED <<s1, s4, s6, s7, s9>>
    BY <1>2 DEF Ledger!Raise, Ledger!Crash, Ledger!Release
  <2>3. place = "ready" => s5[p] \in Ledger!WithUsage
    <3>1. \A x \in {"new", "ready"} : s5' = [s5 EXCEPT ![p] = x] => s5'[p] = x
      BY DEF Ledger!LedgerTypeOK
    <3>2. s5'[p] = "ready" => s5[p] \in Ledger!WithUsage
      BY <1>2 DEF Ledger!Raise, Ledger!Crash, Ledger!Go, Ledger!LedgerTypeOK
    <3> QED
      BY <2>1, <3>1, <3>2
  <2>4. \A q \in ServiceProcesses : s5'[q] = IF q = p THEN place ELSE s5[q]
    BY <2>1 DEF Ledger!LedgerTypeOK
  <2>5. Ledger!LedgerTypeOK'
    BY <2>1, <2>2 DEF Ledger!LedgerTypeOK
  <2>6. Ledger!Placed'
    <3>1. \A q \in ServiceProcesses \ {p} : s5[q] \in Ledger!WithLock => s3 # p
      BY DEF Ledger!Placed
    <3> QED
      BY <2>1, <2>2, <2>3, <2>4, <3>1 DEF Ledger!Placed
  <2>7. ~s9 => Ledger!FileGrows'
    BY <2>1, <2>2, <2>4 DEF Ledger!FileGrows
  <2> QED
    BY <2>2, <2>5, <2>6, <2>7
<1> QED
  BY <1>1, <1>2

LEMMA LedgerKeeps ==
    ASSUME Ledger!LedgerInv, Ledger!Next \/ UNCHANGED Ledger!vars
    PROVE  Ledger!LedgerInv'
<1>1. CASE UNCHANGED Ledger!vars
  BY <1>1 DEF Ledger!vars, Ledger!LedgerInv, Ledger!LedgerTypeOK, Ledger!Placed, Ledger!FileGrows
<1> QED
  BY <1>1, ApproachKeeps, LoadKeeps, WriteTmpKeeps, LedgerMoveKeeps, LedgerEndKeeps DEF Ledger!Next

(* Usage that was reported as recorded is in the file, and nothing is in it  *)
(* twice, unless a file was created over another: for any processes and      *)
(* usages, and failures and crashes between any two steps.                   *)
THEOREM UsageIsRecordedOnce == AnySpec => []RecordedOnce
<1> DEFINE Inv == component = "ledger" => Ledger!LedgerInv
<1>1. AnyInit => Inv
  BY LedgerBegins DEF AnyInit
<1>2. Inv /\ [AnyNext]_AnyVars => Inv'
  BY Selected, LedgerKeeps
<1>3. Inv => RecordedOnce
  <2> SUFFICES ASSUME Ledger!LedgerInv, ~s9
               PROVE  /\ \A u \in s4 : s1[u] = 1
                      /\ \A p \in ServiceProcesses : s5[p] = "event" => s1[s6[p]] = 1
                      /\ s1 # Ledger!Missing => \A u \in Usages : s1[u] <= 1
    BY DEF RecordedOnce, Ledger!RecordedOnce
  <2>1. s1 # Ledger!Missing => \A u \in Usages : s1[u] \in {0, 1}
    BY DEF Ledger!LedgerInv, Ledger!FileGrows
  <2>2. \A n \in {0, 1} : n <= 1
    OBVIOUS
  <2> QED
    BY <2>1, <2>2 DEF Ledger!LedgerInv, Ledger!FileGrows
<1> QED
  BY <1>1, <1>2, <1>3, PTL DEF AnySpec, AnyVars

-----------------------------------------------------------------------------
(* The API of the runtime; s1 server, s2 made, s3 bound, s4 thread,          *)
(* s5 serves, s6 requested, s7 down, s8 owner, s9 has, s10 running,          *)
(* s11 handler, s12 route, s13 result, s14 effect, s15 halted, s16 stopped,  *)
(* s17 crossed.                                                              *)

LEMMA ApiBegins == Api!Init => Api!ApiInv
BY ApiAssumption DEF Api!Init, Api!ApiInv, Api!ApiTypeOK, Api!Accounted, Api!OwnThreads, Api!Told,
   Api!NoServer

(* What the requests promise is not touched by the servers.                  *)
LEMMA ServersKeep ==
    ASSUME Api!ApiInv, UNCHANGED Api!request_vars,
           s1' \in {Api!NoServer} \cup Api!Servers, s2' \in Nat,
           s4' \in [Api!Servers -> {"none", "new", "serving", "ended"}],
           s5' \in [Api!Servers -> {Api!NoServer} \cup Api!Servers],
           s8' \in [Owners -> {"idle", "shutdown", "close"}],
           s9' \in [Owners -> {Api!NoServer} \cup Api!Servers],
           Api!OwnThreads'
    PROVE  Api!ApiInv'
<1>1. UNCHANGED <<s11, s12, s13, s14, s15>>
  BY DEF Api!request_vars
<1>2. Api!ApiTypeOK'
  BY <1>1 DEF Api!ApiInv, Api!ApiTypeOK
<1>3. Api!Accounted'
  BY <1>1 DEF Api!ApiInv, Api!Accounted, Api!Told, Api!Verdict
<1> QED
  BY <1>2, <1>3 DEF Api!ApiInv

LEMMA OwnersKeep ==
    ASSUME Api!ApiInv, NEW o \in Owners,
           Api!Start(o) \/ Api!Stop(o) \/ Api!EndStop(o) \/ Api!Close(o) \/ Api!EndClose(o)
    PROVE  Api!ApiInv'
<1> USE DEF Api!ApiTypeOK
<1>0. Api!ApiTypeOK /\ Api!OwnThreads
  BY DEF Api!ApiInv
<1>1. CASE Api!Start(o)
  <2>1. /\ s2 < MaxServers /\ s2' = s2 + 1 /\ s1' = s2' /\ s4' = [s4 EXCEPT ![s2'] = "new"]
        /\ UNCHANGED <<s5, s8, s9, s16, s17, Api!request_vars>>
    BY <1>1 DEF Api!Start
  <2>2. s2 \in Nat /\ s2' \in Nat /\ s2' \in Api!Servers /\ s2' > s2
    BY <1>0, <2>1, ApiAssumption DEF Api!Servers
  <2>3. /\ s4' \in [Api!Servers -> {"none", "new", "serving", "ended"}]
        /\ \A k \in Api!Servers : s4'[k] = IF k = s2' THEN "new" ELSE s4[k]
    BY <1>0, <2>1, <2>2
  <2>4. s4[s2'] = "none"
    BY <1>0, <2>2 DEF Api!OwnThreads
  <2>5. \A k \in Api!Servers : k > s2' => k > s2 /\ k # s2'
    BY <2>1, <2>2 DEF Api!Servers
  <2>6. Api!OwnThreads'
    BY <1>0, <2>1, <2>3, <2>4, <2>5 DEF Api!OwnThreads
  <2> QED
    BY <1>0, <2>1, <2>2, <2>3, <2>6, ServersKeep
<1>2. CASE Api!Stop(o) \/ Api!Close(o)
  <2>1. PICK place \in {"shutdown", "close"} : s8' = [s8 EXCEPT ![o] = place]
    BY <1>2 DEF Api!Stop, Api!Close, Api!Owner
  <2>2. /\ s1 # Api!NoServer /\ s1' \in {s1, Api!NoServer} /\ s9' = [s9 EXCEPT ![o] = s1]
        /\ UNCHANGED <<s2, s4, s5, s16, s17, Api!request_vars>>
    BY <1>2 DEF Api!Stop, Api!Close, Api!Owner
  <2>3. s1 \in Api!Servers
    BY <1>0, <2>2
  <2>4. Api!OwnThreads'
    BY <1>0, <2>1, <2>2, <2>3 DEF Api!OwnThreads
  <2> QED
    BY <1>0, <2>1, <2>2, <2>3, <2>4, ServersKeep
<1>3. CASE Api!EndStop(o)
  <2>1. /\ s8[o] = "shutdown" /\ s8' = [s8 EXCEPT ![o] = "idle"]
        /\ s9' = [s9 EXCEPT ![o] = Api!NoServer]
        /\ s16' = IF s4[s9[o]] = "ended" THEN s16 \cup {s9[o]} ELSE s16
        /\ UNCHANGED <<s1, s2, s4, s5, s17, Api!request_vars>>
    BY <1>3 DEF Api!EndStop, Api!Owner
  <2>2. s9[o] \in Api!Servers
    BY <1>0, <2>1 DEF Api!OwnThreads
  <2>3. Api!OwnThreads'
    BY <1>0, <2>1, <2>2 DEF Api!OwnThreads
  <2> QED
    BY <1>0, <2>1, <2>3, ServersKeep
<1>4. CASE Api!EndClose(o)
  <2>1. /\ s8' = [s8 EXCEPT ![o] = "idle"] /\ s9' = [s9 EXCEPT ![o] = Api!NoServer]
        /\ UNCHANGED <<s1, s2, s4, s5, s16, s17, Api!request_vars>>
    BY <1>4 DEF Api!EndClose, Api!Owner
  <2>2. Api!OwnThreads'
    BY <1>0, <2>1 DEF Api!OwnThreads
  <2> QED
    BY <1>0, <2>1, <2>2, ServersKeep
<1> QED
  BY <1>1, <1>2, <1>3, <1>4

(* A thread takes the server there is, and crosses it if it was not made     *)
(* with it; a thread that has ended does not begin again.                    *)
LEMMA ServingKeeps ==
    ASSUME Api!ApiInv, NEW k \in Api!Servers, Api!BeginServing(k) \/ Api!EndServing(k)
    PROVE  Api!ApiInv'
<1> USE DEF Api!ApiTypeOK
<1>0. /\ Api!ApiTypeOK /\ Api!OwnThreads
      /\ UNCHANGED <<s1, s2, s8, s9, s16, Api!request_vars>>
  BY DEF Api!ApiInv, Api!BeginServing, Api!EndServing
<1>1. s4[k] \in {"new", "serving"} /\ k \notin s16 /\ ~(k > s2)
  BY <1>0 DEF Api!OwnThreads, Api!BeginServing, Api!EndServing
<1>2. CASE s4' = [s4 EXCEPT ![k] = "ended"] /\ s5' = s5 /\ s17' = s17
  <2>1. \A j \in Api!Servers : s4'[j] = IF j = k THEN "ended" ELSE s4[j]
    BY <1>0, <1>2
  <2>2. Api!OwnThreads'
    BY <1>0, <1>1, <1>2, <2>1 DEF Api!OwnThreads
  <2> QED
    BY <1>0, <1>2, <2>2, ServersKeep
<1>3. CASE /\ s1 # Api!NoServer /\ s5' = [s5 EXCEPT ![k] = s1]
           /\ s4' = [s4 EXCEPT ![k] = "serving"]
           /\ s17' = IF s1 # k THEN s17 \cup {s1} ELSE s17
  <2>1. /\ \A j \in Api!Servers : s4'[j] = IF j = k THEN "serving" ELSE s4[j]
        /\ \A j \in Api!Servers : s5'[j] = IF j = k THEN s1 ELSE s5[j]
    BY <1>0, <1>3
  <2>2. Api!OwnThreads'
    BY <1>0, <1>1, <1>3, <2>1 DEF Api!OwnThreads
  <2> QED
    BY <1>0, <1>3, <2>2, ServersKeep
<1>4. CASE Api!BeginServing(k)
  BY <1>2, <1>3, <1>4 DEF Api!BeginServing
<1>5. CASE Api!EndServing(k)
  BY <1>2, <1>5 DEF Api!EndServing
<1> QED
  BY <1>4, <1>5

Places == {"idle", "authorize", "body", "call", "answer", "ok", "error", "cut", "lost",
           "refused"}
Results == {"none", "accepted", "blocked", "processed", "unprocessed", "read", "raised",
            "switched"}

(* A request is at a place, of a route, with a result and an effect, and the *)
(* others are where they were.                                               *)
Becomes(h, place, r, res, eff) ==
    /\ s11' = [s11 EXCEPT ![h] = place] /\ s12' = [s12 EXCEPT ![h] = r]
    /\ s13' = [s13 EXCEPT ![h] = res] /\ s14' = [s14 EXCEPT ![h] = eff]
    /\ \A g \in Handlers \ {h} : g \in s15 => g \in s15'

(* What it is told, or is about to be, is what became of it.                 *)
Honest(h, place, r, res, eff) ==
    /\ place \in {"authorize", "body", "call", "refused"} => eff = "none"
    /\ place = "ok" \/ (place = "answer" /\ res \notin {"raised", "blocked"}) =>
          r = "read" \/ eff = "done" \/ h \in s15'
    /\ place = "error" \/ (place = "answer" /\ res \in {"raised", "blocked"}) => eff # "done"

(* A step of a request: the others are not concerned.                        *)
LEMMA RequestKeeps ==
    ASSUME Api!ApiInv, NEW h \in Handlers, UNCHANGED Api!server_vars,
           NEW place \in Places, NEW r \in Api!Routes \cup {"none"}, NEW res \in Results,
           NEW eff \in {"none", "part", "done"},
           Becomes(h, place, r, res, eff), Honest(h, place, r, res, eff)
    PROVE  Api!ApiInv'
<1>0. Api!ApiTypeOK /\ Api!Accounted /\ Api!OwnThreads
  BY DEF Api!ApiInv
<1>1. UNCHANGED <<s1, s2, s4, s5, s8, s9, s16, s17>>
  BY DEF Api!server_vars
<1>2. Api!ApiTypeOK'
  BY <1>0, <1>1 DEF Api!ApiTypeOK, Becomes, Places, Results
<1>3. \A g \in Handlers : /\ s11'[g] = IF g = h THEN place ELSE s11[g]
                          /\ s12'[g] = IF g = h THEN r ELSE s12[g]
                          /\ s13'[g] = IF g = h THEN res ELSE s13[g]
                          /\ s14'[g] = IF g = h THEN eff ELSE s14[g]
  BY <1>0 DEF Api!ApiTypeOK, Becomes
<1>4. Api!Accounted'
  <2> SUFFICES ASSUME NEW g \in Handlers
               PROVE  /\ s11'[g] \in {"authorize", "body", "call", "refused"} => s14'[g] = "none"
                      /\ Api!Told(g)' = "ok" => s12'[g] = "read" \/ s14'[g] = "done" \/ g \in s15'
                      /\ Api!Told(g)' = "error" => s14'[g] # "done"
    BY DEF Api!Accounted
  <2>1. CASE g = h
    BY <1>3, <2>1 DEF Api!Told, Api!Verdict, Honest
  <2>2. CASE g # h
    <3>1. /\ s11'[g] = s11[g] /\ s12'[g] = s12[g] /\ s14'[g] = s14[g]
          /\ Api!Told(g)' = Api!Told(g)
      BY <1>3, <2>2 DEF Api!Told, Api!Verdict
    <3> QED
      BY <1>0, <2>2, <3>1 DEF Api!Accounted, Becomes
  <2> QED
    BY <2>1, <2>2
<1>5. Api!OwnThreads'
  BY <1>0, <1>1 DEF Api!OwnThreads
<1> QED
  BY <1>2, <1>4, <1>5 DEF Api!ApiInv

(* A request until it is called, when it is answered, and when it is over.   *)
LEMMA AroundCall ==
    ASSUME Api!ApiInv, NEW h \in Handlers,
           \/ \E r \in Api!Routes : Api!Accept(h, r)
           \/ Api!RequireAuth(h) \/ Api!ReadJsonBody(h) \/ Api!Answer(h) \/ Api!Leave(h)
    PROVE  Api!ApiInv'
<1>0. /\ Api!ApiTypeOK /\ Api!Accounted /\ UNCHANGED Api!server_vars
      /\ s12[h] \in Api!Routes \cup {"none"} /\ s14[h] \in {"none", "part", "done"}
      /\ s13[h] \in Results
  BY DEF Results, Api!ApiInv, Api!ApiTypeOK, Api!Accept, Api!RequireAuth, Api!ReadJsonBody, Api!Answer,
         Api!Leave
<1>1. CASE \E r \in Api!Routes : Api!Accept(h, r)
  <2>1. PICK r \in Api!Routes : s12' = [s12 EXCEPT ![h] = r]
    BY <1>1 DEF Api!Accept
  <2>2. /\ s11' = [s11 EXCEPT ![h] = "authorize"] /\ s13' = [s13 EXCEPT ![h] = "none"]
        /\ s14' = [s14 EXCEPT ![h] = "none"] /\ s15' = s15 \ {h}
    BY <1>1 DEF Api!Accept, Api!Go
  <2>3. Becomes(h, "authorize", r, "none", "none") /\ Honest(h, "authorize", r, "none", "none")
    BY <2>1, <2>2 DEF Becomes, Honest
  <2> QED
    BY <1>0, <2>3, RequestKeeps DEF Places, Results
<1>2. CASE ~\E r \in Api!Routes : Api!Accept(h, r)
  <2>1. /\ UNCHANGED <<s12, s13, s14, s15>>
        /\ s12' = [s12 EXCEPT ![h] = s12[h]] /\ s13' = [s13 EXCEPT ![h] = s13[h]]
        /\ s14' = [s14 EXCEPT ![h] = s14[h]]
    BY <1>0, <1>2 DEF Api!RequireAuth, Api!ReadJsonBody, Api!Answer, Api!Leave, Api!ApiTypeOK
  <2>2. CASE Api!RequireAuth(h) \/ Api!ReadJsonBody(h) \/ Api!Leave(h)
    <3>1. PICK place \in {"refused", "body", "call", "idle"} :
             /\ s11' = [s11 EXCEPT ![h] = place]
             /\ place = "idle" \/ s11[h] \in {"authorize", "body"}
      BY <2>2 DEF Api!RequireAuth, Api!ReadJsonBody, Api!Leave, Api!Go
    <3>2. s11[h] \in {"authorize", "body"} => s14[h] = "none"
      BY <1>0 DEF Api!Accounted
    <3>3. Becomes(h, place, s12[h], s13[h], s14[h]) /\ Honest(h, place, s12[h], s13[h], s14[h])
      BY <2>1, <3>1, <3>2 DEF Becomes, Honest
    <3> QED
      BY <1>0, <3>3, RequestKeeps DEF Places
  <2>3. CASE Api!Answer(h)
    <3>1. PICK sent \in {Api!Verdict(h), "cut", "lost"} : s11' = [s11 EXCEPT ![h] = sent]
      BY <2>3 DEF Api!Answer, Api!Go
    <3>2. s11[h] = "answer"
      BY <2>3 DEF Api!Answer
    <3>3. /\ Api!Verdict(h) = "ok" => s12[h] = "read" \/ s14[h] = "done" \/ h \in s15
          /\ Api!Verdict(h) = "error" => s14[h] # "done"
      BY <1>0, <3>2 DEF Api!Accounted, Api!Told
    <3>4. sent \in {"ok", "error", "cut", "lost"}
      BY <3>1 DEF Api!Verdict
    <3>5. sent \in {"ok", "error"} => sent = Api!Verdict(h)
      BY <3>1
    <3>6. Becomes(h, sent, s12[h], s13[h], s14[h]) /\ Honest(h, sent, s12[h], s13[h], s14[h])
      BY <2>1, <3>1, <3>3, <3>4, <3>5 DEF Becomes, Honest
    <3> QED
      BY <1>0, <3>4, <3>6, RequestKeeps DEF Places
  <2> QED
    BY <1>2, <2>2, <2>3
<1> QED
  BY <1>1, <1>2

(* The facade is called: what it returns says what it did, except that a     *)
(* stopped facade returns from a decision it did not make.                   *)
LEMMA CallKeeps ==
    ASSUME Api!ApiInv, NEW h \in Handlers,
           \/ Api!SubmitRequest(h) \/ Api!ProcessExecutionOutcome(h) \/ Api!Read(h)
           \/ Api!Switch(h)
    PROVE  Api!ApiInv'
<1>0. /\ Api!ApiTypeOK /\ s12[h] \in Api!Routes \cup {"none"} /\ s12 = [s12 EXCEPT ![h] = s12[h]]
  BY DEF Api!ApiInv, Api!ApiTypeOK
<1>1. PICK res \in {"accepted", "blocked", "processed", "unprocessed", "read", "raised",
                    "switched"},
           eff \in {"none", "part", "done"} :
          /\ Api!Called(h, res, eff)
          /\ res \in {"raised", "blocked"} => eff # "done"
          /\ res \in {"accepted", "processed", "switched"} => eff = "done"
          /\ res = "read" => s12[h] = "read"
          /\ res = "unprocessed" => s15' = s15 \cup {h}
          /\ res # "unprocessed" => s15' = s15
  <2>1. CASE Api!SubmitRequest(h)
    <3>1. s15' = s15
      BY <2>1 DEF Api!SubmitRequest
    <3>2. CASE Api!Called(h, "accepted", "done")
      BY <3>1, <3>2
    <3>3. CASE \E eff \in {"none", "part"} : Api!Called(h, "blocked", eff)
      BY <3>1, <3>3
    <3> QED
      BY <2>1, <3>2, <3>3 DEF Api!SubmitRequest
  <2>2. CASE Api!ProcessExecutionOutcome(h)
    <3>1. CASE s10
      <4>1. s15' = s15
        BY <2>2, <3>1 DEF Api!ProcessExecutionOutcome
      <4>2. CASE Api!Called(h, "processed", "done")
        BY <4>1, <4>2
      <4>3. CASE \E eff \in {"none", "part"} : Api!Called(h, "raised", eff)
        BY <4>1, <4>3
      <4> QED
        BY <2>2, <3>1, <4>2, <4>3 DEF Api!ProcessExecutionOutcome
    <3>2. CASE ~s10
      <4>1. Api!Called(h, "unprocessed", "none") /\ s15' = s15 \cup {h}
        BY <2>2, <3>2 DEF Api!ProcessExecutionOutcome
      <4> QED
        BY <4>1
    <3> QED
      BY <3>1, <3>2
  <2>3. CASE Api!Read(h)
    <3>1. s15' = s15 /\ s12[h] = "read"
      BY <2>3 DEF Api!Read
    <3>2. Api!Called(h, "read", "none") \/ Api!Called(h, "raised", "none")
      BY <2>3 DEF Api!Read
    <3> QED
      BY <3>1, <3>2
  <2>4. CASE Api!Switch(h)
    <3>1. s15' = s15
      BY <2>4 DEF Api!Switch
    <3>2. Api!Called(h, "switched", "done") \/ Api!Called(h, "raised", "none")
      BY <2>4 DEF Api!Switch
    <3> QED
      BY <3>1, <3>2
  <2> QED
    BY <2>1, <2>2, <2>3, <2>4
<1>2. /\ s11' = [s11 EXCEPT ![h] = "answer"] /\ s13' = [s13 EXCEPT ![h] = res]
      /\ s14' = [s14 EXCEPT ![h] = eff] /\ s12' = [s12 EXCEPT ![h] = s12[h]]
      /\ UNCHANGED Api!server_vars
  BY <1>0, <1>1 DEF Api!Called, Api!Go
<1>3. /\ s15 \subseteq s15'
      /\ res \notin {"raised", "blocked"} => s12[h] = "read" \/ eff = "done" \/ h \in s15'
  BY <1>1
<1>4. Becomes(h, "answer", s12[h], res, eff) /\ Honest(h, "answer", s12[h], res, eff)
  BY <1>1, <1>2, <1>3 DEF Becomes, Honest
<1> QED
  BY <1>0, <1>2, <1>4, RequestKeeps DEF Places, Results

LEMMA ApiKeeps ==
    ASSUME Api!ApiInv, Api!Next \/ UNCHANGED Api!vars
    PROVE  Api!ApiInv'
<1>1. CASE Api!StopRuntime \/ UNCHANGED Api!vars
  <2>1. UNCHANGED <<Api!server_vars, Api!request_vars>>
    BY <1>1 DEF Api!StopRuntime, Api!vars
  <2>2. UNCHANGED <<s1, s2, s4, s5, s8, s9, s16, s17>>
    BY <2>1 DEF Api!server_vars
  <2>3. Api!OwnThreads'
    BY <2>2 DEF Api!ApiInv, Api!OwnThreads
  <2> QED
    BY <2>1, <2>2, <2>3, ServersKeep DEF Api!ApiInv, Api!ApiTypeOK
<1> QED
  BY <1>1, OwnersKeep, ServingKeeps, AroundCall, CallKeeps DEF Api!Next

(* A client is told what became of its call, but for decisions that come     *)
(* after the runtime stopped, and a server a stop() has seen the end of is   *)
(* served no more, but for one a late thread took: for any owners, servers   *)
(* and requests.                                                             *)
THEOREM ClientsAreToldTheTruth == AnySpec => []AnswersAreTrue
<1> DEFINE Inv == component = "api" => Api!ApiInv
<1>1. AnyInit => Inv
  BY ApiBegins DEF AnyInit
<1>2. Inv /\ [AnyNext]_AnyVars => Inv'
  BY Selected, ApiKeeps
<1>3. Inv => AnswersAreTrue
  <2> SUFFICES ASSUME Api!ApiInv PROVE Api!AnswersAreTrue
    BY DEF AnswersAreTrue
  <2>1. ASSUME NEW h \in Handlers
        PROVE  /\ s11[h] = "ok" /\ s12[h] # "read" => s14[h] = "done" \/ h \in s15
               /\ s11[h] \in {"error", "refused"} => s14[h] # "done"
    <3>1. s11[h] # "answer" => Api!Told(h) = s11[h]
      BY DEF Api!Told
    <3> QED
      BY <3>1 DEF Api!ApiInv, Api!Accounted
  <2>2. ASSUME NEW k \in s16 \ s17, NEW j \in Api!Servers, s4[j] = "serving", s5[j] = k PROVE FALSE
    BY <2>2 DEF Api!ApiInv, Api!OwnThreads
  <2> QED
    BY <2>1, <2>2 DEF Api!AnswersAreTrue
<1> QED
  BY <1>1, <1>2, <1>3, PTL DEF AnySpec, AnyVars

-----------------------------------------------------------------------------
(* The files of an execution; s1 pc, s2 attempt, s3 run, s4 sequence,        *)
(* s5 stamp, s6 records, s7 files, s8 doing, s9 told, s10 withdrawn,         *)
(* s11 runs, s12 second, s13 failures.                                       *)

(* A set of numbers with a bound has a greatest one: of the sets of those    *)
(* greater than one of them, which are finite, one includes no other.        *)
LEMMA GreatestThereIs ==
    ASSUME NEW S, S \subseteq Nat, S # {}, NEW n \in Nat, \A x \in S : x <= n
    PROVE  \E x \in S : \A y \in S : y <= x
<1> DEFINE Above(x) == {y \in S : y > x}
           T == {Above(x) : x \in S}
<1>1. IsFiniteSet(S)
  BY FS_BoundedSetOfNaturals
<1>2. T \subseteq FiniteSubsetsOf(S)
  <2>1. \A x \in S : Above(x) \subseteq S /\ IsFiniteSet(Above(x))
    BY <1>1, FS_Subset
  <2> HIDE DEF Above
  <2> QED
    BY <2>1 DEF FiniteSubsetsOf
<1>3. PICK a \in T : \A b \in T : <<b, a>> \notin StrictSubsetOrdering(S)
  <2> HIDE DEF T
  <2>1. IsWellFoundedOn(StrictSubsetOrdering(S), FiniteSubsetsOf(S))
    BY FS_StrictSubsetOrderingWellFounded
  <2>2. T # {}
    BY DEF T
  <2> QED
    BY <1>2, <2>1, <2>2, WFMin
<1>4. PICK x \in S : a = Above(x)
  BY <1>3
<1>5. ASSUME NEW y \in S, ~(y <= x) PROVE FALSE
  <2>1. x \in Nat /\ y \in Nat /\ y > x
    BY <1>5
  <2>2. Above(y) \subseteq Above(x) /\ y \in Above(x) /\ y \notin Above(y)
    <3>1. \A z \in S : z \in Nat /\ (z > y => z > x)
      BY <2>1
    <3>2. ~(y > y)
      BY <2>1
    <3> QED
      BY <2>1, <3>1, <3>2
  <2>3. Above(y) \in SUBSET S /\ Above(x) \in SUBSET S /\ Above(y) \in T
    OBVIOUS
  <2> HIDE DEF Above, T
  <2>4. Above(y) # Above(x)
    BY <2>2
  <2>5. <<Above(y), Above(x)>> \in StrictSubsetOrdering(S)
    BY <2>2, <2>3, <2>4 DEF StrictSubsetOrdering
  <2> QED
    BY <1>3, <1>4, <2>3, <2>5
<1> QED
  BY <1>5

LEMMA NewestOf ==
    ASSUME NEW S, S \subseteq Nat, NEW n \in Nat, \A x \in S : x <= n
    PROVE  /\ Records!Newest(S) \in Nat
           /\ S = {} => Records!Newest(S) = 0
           /\ S # {} => Records!Newest(S) \in S /\ \A x \in S : x <= Records!Newest(S)
<1>1. CASE S = {}
  BY <1>1 DEF Records!Newest
<1>2. CASE S # {}
  <2>1. \E x \in S : \A y \in S : y <= x
    BY <1>2, GreatestThereIs
  <2>2. Records!Newest(S) = CHOOSE x \in S : \A y \in S : y <= x
    BY <1>2 DEF Records!Newest
  <2>3. Records!Newest(S) \in S /\ \A y \in S : y <= Records!Newest(S)
    BY <2>1, <2>2
  <2> QED
    BY <1>2, <2>3
<1> QED
  BY <1>1, <1>2

LEMMA RecordsBegin == Records!Init => Records!RecordsInv
<1> SUFFICES ASSUME Records!Init PROVE Records!RecordsInv
  OBVIOUS
<1> USE DEF Records!Init, Records!Idle
<1>1. Records!RecordsTypeOK
  BY RecordsAssumption DEF Records!RecordsTypeOK
<1>2. Records!NoneLater /\ Records!CheckpointsKept
  BY DEF Records!NoneLater, Records!CheckpointsKept
<1>3. Records!FoundOnDisk /\ \A r \in Readers : s8[r].call # "reports"
  BY DEF Records!FoundOnDisk
<1> QED
  BY <1>1, <1>2, <1>3 DEF Records!RecordsInv

(* No reader is concerned while the files stay as they are.                  *)
LEMMA FilesAsTheyAre ==
    ASSUME Records!RecordsInv, UNCHANGED <<s7, s8, s9, s10>>, Records!RecordsTypeOK',
           s12 <= s12', \A w \in RecordWorkers : s5'[w] <= s12', Records!CheckpointsKept'
    PROVE  Records!RecordsInv'
<1>1. Records!NoneLater'
  BY DEF Records!RecordsInv, Records!NoneLater, Records!RecordsTypeOK, Records!Reports
<1>2. ~s10' => Records!FoundOnDisk' /\ \A r \in Readers : s8'[r].call = "reports" => Records!FoundInTime(r)'
  <2> SUFFICES ASSUME ~s10
               PROVE  Records!FoundOnDisk' /\ \A r \in Readers : s8[r].call = "reports" =>
                                                 Records!FoundInTime(r)'
    OBVIOUS
  <2>1. Records!FoundOnDisk'
    BY DEF Records!RecordsInv, Records!FoundOnDisk, Records!OnDisk
  <2>2. ASSUME NEW r \in Readers, s8[r].call = "reports" PROVE Records!FoundInTime(r)'
    BY <2>2 DEF Records!RecordsInv, Records!FoundInTime, Records!Name
  <2> QED
    BY <2>1, <2>2
<1> QED
  BY <1>1, <1>2 DEF Records!RecordsInv

(* The mission of an execution, and the report it makes.                     *)
LEMMA ReportIsOne ==
    ASSUME Records!RecordsTypeOK, NEW w \in RecordWorkers, s1[w] # "idle"
    PROVE  /\ s2[w] \in Attempts /\ Records!ReportOf(w) \in Records!Reports
           /\ Records!ReportOf(w).second = s5[w] /\ s3[w] \in Nat \ {0}
BY DEF Records!RecordsTypeOK, Records!ReportOf, Records!Reports, Records!Missions

(* An execution up to its report, and when it is over: the files stay.       *)
LEMMA CheckpointsKeep ==
    ASSUME Records!RecordsInv, NEW w \in RecordWorkers,
           \/ \E a \in Attempts : Records!Begin(w, a)
           \/ Records!OpenCheckpoint(w) \/ Records!ReplaceCheckpoint(w)
    PROVE  Records!RecordsInv'
<1>0. Records!RecordsTypeOK /\ Records!NoneLater /\ Records!CheckpointsKept /\ LastSequence \in Nat
  BY RecordsAssumption DEF Records!RecordsInv
<1>1. /\ UNCHANGED <<s5, s7, s8, s9, s10, s12>>
  BY DEF Records!Begin, Records!OpenCheckpoint, Records!ReplaceCheckpoint, Records!disk_vars,
         Records!reader_vars
<1>2. Records!RecordsTypeOK' /\ Records!CheckpointsKept'
  <2>1. CASE \E a \in Attempts : Records!Begin(w, a)
    <3>1. PICK a \in Attempts : s2' = [s2 EXCEPT ![w] = a]
      BY <2>1 DEF Records!Begin
    <3>2. /\ s11' = s11 + 1 /\ s3' = [s3 EXCEPT ![w] = s11 + 1] /\ s4' = [s4 EXCEPT ![w] = 0]
          /\ s1' = [s1 EXCEPT ![w] = "saving"] /\ UNCHANGED <<s6, s13>>
      BY <2>1 DEF Records!Begin, Records!Go, Records!disk_vars
    <3>3. s11 + 1 \in Nat \ {0} /\ 0 \in 0..LastSequence
      BY <1>0 DEF Records!RecordsTypeOK
    <3>4. Records!RecordsTypeOK'
      BY <1>0, <1>1, <3>1, <3>2, <3>3 DEF Records!RecordsTypeOK
    <3>5. Records!CheckpointsKept'
      BY <1>0, <1>1, <3>1, <3>2 DEF Records!RecordsTypeOK, Records!CheckpointsKept
    <3> QED
      BY <3>4, <3>5
  <2>2. CASE Records!OpenCheckpoint(w) \/ Records!ReplaceCheckpoint(w)
    <3>1. s1[w] \in {"saving", "replacing"} /\ UNCHANGED <<s2, s3, s11>>
      BY <2>2 DEF Records!OpenCheckpoint, Records!ReplaceCheckpoint
    <3>2. s2[w] \in Attempts /\ s4[w] \in 0..LastSequence /\ s13 \in Nat
      BY <1>0, <3>1 DEF Records!RecordsTypeOK
    <3>3. PICK place \in {"saving", "replacing", "completed", "idle"},
               n \in 0..LastSequence :
             /\ s1' = [s1 EXCEPT ![w] = place] /\ s4' = [s4 EXCEPT ![w] = n]
             /\ \/ n = s4[w]
                \/ n = s4[w] + 1
      <4>1. s4 = [s4 EXCEPT ![w] = s4[w]]
        BY <1>0 DEF Records!RecordsTypeOK
      <4>2. CASE Records!Onward(w)
        <5>1. CASE s4[w] < LastSequence
          <6>1. s4[w] + 1 \in 0..LastSequence
            BY <1>0, <3>2, <5>1
          <6> QED
            BY <4>2, <5>1, <6>1 DEF Records!Onward, Records!Go
        <5>2. CASE ~(s4[w] < LastSequence)
          BY <3>2, <4>1, <4>2, <5>2 DEF Records!Onward, Records!Go
        <5> QED
          BY <5>1, <5>2
      <4>3. CASE ~Records!Onward(w)
        <5>1. s1' = [s1 EXCEPT ![w] = "replacing"] /\ s4' = s4
          BY <2>2, <4>3 DEF Records!OpenCheckpoint, Records!ReplaceCheckpoint, Records!Go
        <5> QED
          BY <3>2, <4>1, <5>1
      <4> QED
        BY <4>2, <4>3
    <3>4. \/ s13' = s13 + 1 /\ s6' = s6
          \/ s13' = s13 /\ s6' = s6 /\ s4' = s4 /\ s1[w] = "saving"
          \/ s13' = s13 /\ s6' = [s6 EXCEPT ![s2[w]] = @ \cup {s4[w]}]
      BY <2>2 DEF Records!OpenCheckpoint, Records!ReplaceCheckpoint, Records!Fail,
                  Records!disk_vars
    <3>5. s6' \in [Attempts -> SUBSET (0..LastSequence)] /\ s13' \in Nat
      BY <1>0, <3>2, <3>4 DEF Records!RecordsTypeOK
    <3>6. Records!RecordsTypeOK'
      BY <1>0, <1>1, <3>1, <3>2, <3>3, <3>5 DEF Records!RecordsTypeOK
    <3>7. Records!CheckpointsKept'
      <4> SUFFICES ASSUME s13' = 0, NEW v \in RecordWorkers, s1'[v] \in {"saving", "replacing"},
                          s4'[v] # 0
                   PROVE  s4'[v] - 1 \in s6'[s2[v]]
        BY <3>1 DEF Records!CheckpointsKept
      <4>1. s13 = 0 /\ s13' = s13
        BY <3>2, <3>4
      <4>2. \A a \in Attempts : s6[a] \subseteq s6'[a]
        BY <1>0, <3>4, <4>1 DEF Records!RecordsTypeOK
      <4>3. CASE v # w
        <5>1. s1'[v] = s1[v] /\ s4'[v] = s4[v]
          BY <1>0, <3>3, <4>3 DEF Records!RecordsTypeOK
        <5>2. s2[v] \in Attempts /\ s4[v] - 1 \in s6[s2[v]]
          BY <1>0, <4>1, <5>1 DEF Records!CheckpointsKept, Records!RecordsTypeOK
        <5> QED
          BY <4>2, <5>1, <5>2
      <4>4. CASE v = w
        <5>1. s4'[w] = n
          BY <1>0, <3>3 DEF Records!RecordsTypeOK
        <5>2. CASE n = s4[w]
          <6>1. s4[w] - 1 \in s6[s2[w]]
            BY <1>0, <3>1, <4>1, <4>4, <5>1, <5>2 DEF Records!CheckpointsKept
          <6> QED
            BY <3>2, <4>2, <4>4, <5>1, <5>2, <6>1
        <5>3. CASE n # s4[w]
          <6>1. n = s4[w] + 1 /\ s4' # s4
            BY <3>3, <5>1, <5>3
          <6>2. s6' = [s6 EXCEPT ![s2[w]] = @ \cup {s4[w]}]
            BY <3>2, <3>4, <4>1, <6>1
          <6>3. s4[w] \in s6'[s2[w]]
            BY <1>0, <3>2, <6>2 DEF Records!RecordsTypeOK
          <6>4. s4[w] \in Int /\ n - 1 = s4[w]
            BY <3>2, <6>1
          <6> QED
            BY <4>4, <5>1, <6>3, <6>4
        <5> QED
          BY <5>2, <5>3
      <4> QED
        BY <4>3, <4>4
    <3> QED
      BY <3>6, <3>7
  <2> QED
    BY <2>1, <2>2
<1>3. \A v \in RecordWorkers : s5'[v] <= s12'
  BY <1>0, <1>1 DEF Records!NoneLater
<1>4. s12 <= s12'
  BY <1>0, <1>1 DEF Records!RecordsTypeOK
<1> QED
  BY <1>1, <1>2, <1>3, <1>4, FilesAsTheyAre

LEMMA IdlingKeeps ==
    ASSUME Records!RecordsInv, NEW w \in RecordWorkers,
           Records!Stamp(w) \/ Records!Look(w) \/ Records!Die(w)
    PROVE  Records!RecordsInv'
<1>0. Records!RecordsTypeOK /\ Records!NoneLater /\ Records!CheckpointsKept
  BY DEF Records!RecordsInv
<1>1. UNCHANGED <<s2, s3, s4, s6, s7, s8, s9, s10, s11, s12>>
  BY DEF Records!Stamp, Records!Look, Records!Die, Records!disk_vars, Records!reader_vars,
         Records!bound_vars
<1>2. PICK place \in {"stamped", "idle", "creating"} : s1' = [s1 EXCEPT ![w] = place]
  BY DEF Records!Stamp, Records!Look, Records!Die, Records!Go
<1>3. s1[w] # "idle" /\ s13' \in {s13, s13 + 1} /\ s5' \in {s5, [s5 EXCEPT ![w] = s12]}
  BY DEF Records!Stamp, Records!Look, Records!Die, Records!Fail, Records!bound_vars
<1>4. s13 \in Nat /\ s12 \in Nat /\ s13' \in Nat
  BY <1>0, <1>3 DEF Records!RecordsTypeOK
<1>5. Records!RecordsTypeOK'
  BY <1>0, <1>1, <1>2, <1>3, <1>4 DEF Records!RecordsTypeOK, Records!InLock
<1>6. Records!CheckpointsKept'
  <2>1. s13' = 0 => s13 = 0
    BY <1>3, <1>4
  <2>2. \A v \in RecordWorkers : s1'[v] \in {"saving", "replacing"} => s1[v] = s1'[v]
    BY <1>0, <1>2 DEF Records!RecordsTypeOK
  <2> QED
    BY <1>0, <1>1, <2>1, <2>2 DEF Records!CheckpointsKept
<1>7. \A v \in RecordWorkers : s5'[v] <= s12'
  BY <1>0, <1>1, <1>3, <1>4 DEF Records!NoneLater, Records!RecordsTypeOK
<1> QED
  BY <1>1, <1>4, <1>5, <1>6, <1>7, FilesAsTheyAre

LEMMA TimeKeeps == ASSUME Records!RecordsInv, Records!Tick PROVE Records!RecordsInv'
<1>0. Records!RecordsTypeOK /\ Records!NoneLater /\ Records!CheckpointsKept
  BY DEF Records!RecordsInv
<1>1. s12' = s12 + 1 /\ UNCHANGED <<s1, s2, s3, s4, s5, s6, s7, s8, s9, s10, s11, s13>>
  BY DEF Records!Tick, Records!worker_vars, Records!disk_vars, Records!reader_vars
<1>2. s12 \in Nat /\ s12' \in Nat /\ s12 <= s12'
  BY <1>0, <1>1 DEF Records!RecordsTypeOK
<1>3. Records!RecordsTypeOK'
  BY <1>0, <1>1, <1>2 DEF Records!RecordsTypeOK
<1>4. Records!CheckpointsKept'
  BY <1>0, <1>1 DEF Records!CheckpointsKept
<1>5. \A v \in RecordWorkers : s5'[v] <= s12'
  BY <1>0, <1>1, <1>2 DEF Records!NoneLater, Records!RecordsTypeOK
<1> QED
  BY <1>1, <1>2, <1>3, <1>4, <1>5, FilesAsTheyAre

(* The file of a report is created, and written: whole files stay.           *)
LEMMA WritingKeeps ==
    ASSUME Records!RecordsInv, NEW w \in RecordWorkers,
           Records!Create(w) \/ Records!Write(w)
    PROVE  Records!RecordsInv'
<1>0. Records!RecordsTypeOK /\ Records!NoneLater /\ Records!CheckpointsKept
  BY DEF Records!RecordsInv
<1>1. UNCHANGED <<s2, s3, s4, s5, s6, s8, s9, s10, s11, s12>>
  BY DEF Records!Create, Records!Write, Records!reader_vars, Records!bound_vars
<1>2. PICK place \in {"writing", "moving", "idle"} : s1' = [s1 EXCEPT ![w] = place]
  BY DEF Records!Create, Records!Write, Records!Go
<1>3. s1[w] \in {"creating", "writing"} /\ s13' \in {s13, s13 + 1}
  BY DEF Records!Create, Records!Write, Records!Fail, Records!bound_vars
<1>4. s13 \in Nat /\ s12 \in Nat /\ s13' \in Nat
  BY <1>0, <1>3 DEF Records!RecordsTypeOK
<1>5. /\ Records!ReportOf(w) \in Records!Reports /\ Records!ReportOf(w).second = s5[w]
      /\ s3[w] \in Nat \ {0} /\ s5[w] <= s12
  BY <1>0, <1>3, ReportIsOne DEF Records!NoneLater
<1>6. \A b \in BOOLEAN :
         /\ Records!Temp(w, b) \in [report : Records!Reports, run : Nat, whole : BOOLEAN]
         /\ Records!Temp(w, b).run # 0 /\ Records!Temp(w, b).whole = b
         /\ Records!Temp(w, b).report.second <= s12
  BY <1>5 DEF Records!Temp
<1>7. /\ s7' \subseteq s7 \cup {Records!Temp(w, b) : b \in BOOLEAN}
      /\ s7 \ {Records!Temp(w, FALSE)} \subseteq s7'
  BY DEF Records!Create, Records!Write
<1>8. \A f \in s7 : f.whole => f \in s7'
  BY <1>6, <1>7
<1>9. \A f \in s7' : /\ f \in [report : Records!Reports, run : Nat, whole : BOOLEAN]
                     /\ f.run = 0 => f.whole
                     /\ f.report.second <= s12
  <2>1. ASSUME NEW f \in s7 PROVE /\ f \in [report : Records!Reports, run : Nat, whole : BOOLEAN]
                                  /\ f.run = 0 => f.whole
                                  /\ f.report.second <= s12
    BY <1>0 DEF Records!RecordsTypeOK, Records!NoneLater
  <2>2. ASSUME NEW b \in BOOLEAN, NEW f, f = Records!Temp(w, b)
        PROVE  /\ f \in [report : Records!Reports, run : Nat, whole : BOOLEAN]
               /\ f.run = 0 => f.whole
               /\ f.report.second <= s12
    BY <1>6, <2>2
  <2> QED
    BY <1>7, <2>1, <2>2
<1>10. Records!RecordsTypeOK'
  <2>1. s1' \in [RecordWorkers -> {"idle", "saving", "replacing", "completed",
     "stamped"} \cup Records!InLock]
    BY <1>0, <1>2 DEF Records!RecordsTypeOK, Records!InLock
  <2>2. \A v \in RecordWorkers : s1'[v] # "idle" => s1[v] # "idle"
    BY <1>0, <1>2, <1>3 DEF Records!RecordsTypeOK
  <2>3. s7' \subseteq [report : Records!Reports, run : Nat, whole : BOOLEAN]
    BY <1>9
  <2> QED
    BY <1>0, <1>1, <1>4, <1>9, <2>1, <2>2, <2>3 DEF Records!RecordsTypeOK
<1>11. Records!CheckpointsKept'
  <2>1. s13' = 0 => s13 = 0
    BY <1>3, <1>4
  <2>2. \A v \in RecordWorkers : s1'[v] \in {"saving", "replacing"} => s1[v] = s1'[v]
    BY <1>0, <1>2 DEF Records!RecordsTypeOK
  <2> QED
    BY <1>0, <1>1, <2>1, <2>2 DEF Records!CheckpointsKept
<1>12. Records!NoneLater'
  BY <1>0, <1>1, <1>9 DEF Records!NoneLater
<1>13. ASSUME ~s10 PROVE /\ Records!FoundOnDisk'
                         /\ \A r \in Readers : s8'[r].call = "reports" => Records!FoundInTime(r)'
  <2>1. \A p : Records!OnDisk(p) => Records!OnDisk(p)'
    BY <1>8 DEF Records!OnDisk
  <2>2. Records!FoundOnDisk'
    BY <1>1, <1>13, <2>1 DEF Records!RecordsInv, Records!FoundOnDisk
  <2>3. ASSUME NEW r \in Readers, s8[r].call = "reports" PROVE Records!FoundInTime(r)'
    BY <1>1, <1>8, <1>13, <2>3 DEF Records!RecordsInv, Records!FoundInTime, Records!Name
  <2> QED
    BY <1>1, <2>2, <2>3
<1> QED
  BY <1>1, <1>10, <1>11, <1>12, <1>13 DEF Records!RecordsInv

(* The report is in place under its own name, or withdrawn; who had listed   *)
(* the temporary one has lost it.                                            *)
LEMMA RecordsMoveKeeps ==
    ASSUME Records!RecordsInv, NEW w \in RecordWorkers, Records!Move(w)
    PROVE  Records!RecordsInv'
<1> DEFINE temp == Records!Temp(w, TRUE)
           final == Records!Final(Records!ReportOf(w))
<1>0. Records!RecordsTypeOK /\ Records!NoneLater /\ Records!CheckpointsKept
  BY DEF Records!RecordsInv
<1>1. /\ UNCHANGED <<s2, s3, s4, s5, s6, s9, s11, s12>> /\ s1[w] = "moving"
      /\ s1' = [s1 EXCEPT ![w] = "idle"]
      /\ s8' = [r \in Readers |-> IF Records!Name(temp) \in s8[r].listing
                                  THEN [s8[r] EXCEPT !.slipped = TRUE] ELSE s8[r]]
  BY DEF Records!Move, Records!Go
<1>2. \/ s7' = (s7 \ {temp}) \cup {final} /\ s10' = s10 /\ s13' = s13
      \/ s7' = s7 \ {temp} /\ s10' = TRUE /\ s13' = s13 + 1
  <2>1. \/ s7' = (s7 \ {temp}) \cup {final} /\ UNCHANGED <<s10, s13>>
        \/ Records!Fail /\ s7' = s7 \ {temp} /\ s10' = TRUE
    BY Zenon DEF Records!Move
  <2> HIDE DEF temp, final
  <2>2. UNCHANGED <<s10, s13>> => s10' = s10 /\ s13' = s13
    OBVIOUS
  <2>3. Records!Fail => s13' = s13 + 1
    BY DEF Records!Fail
  <2> QED
    BY Zenon, <2>1, <2>2, <2>3
<1>3. s13 \in Nat /\ s12 \in Nat /\ s13' \in Nat
  <2>1. s13 \in Nat /\ s12 \in Nat
    BY <1>0 DEF Records!RecordsTypeOK
  <2>2. s13' = s13 \/ s13' = s13 + 1
    BY Zenon, <1>2
  <2> HIDE DEF temp, final
  <2> QED
    BY <2>1, <2>2
<1>4. /\ Records!ReportOf(w) \in Records!Reports /\ Records!ReportOf(w).second = s5[w]
      /\ s5[w] <= s12
  BY <1>0, <1>1, ReportIsOne DEF Records!NoneLater
<1>5. /\ final \in [report : Records!Reports, run : Nat, whole : BOOLEAN]
      /\ final.whole /\ final.report.second <= s12 /\ final.report = temp.report
  BY <1>4 DEF Records!Final, Records!Temp
<1>6. \A r \in Readers :
         /\ s8'[r] \in [call : {"none", "reports"}, listing : SUBSET (Records!Reports \X Nat),
                        found : SUBSET Records!Reports, floor : Nat, slipped : BOOLEAN]
         /\ s8'[r].call = s8[r].call /\ s8'[r].listing = s8[r].listing
         /\ s8'[r].found = s8[r].found /\ s8'[r].floor = s8[r].floor
         /\ s8[r].slipped => s8'[r].slipped
         /\ Records!Name(temp) \in s8[r].listing => s8'[r].slipped
  <2> SUFFICES ASSUME NEW r \in Readers
               PROVE  /\ s8'[r] \in [call : {"none", "reports"}, listing : SUBSET (Records!Reports \X Nat),
                                     found : SUBSET Records!Reports, floor : Nat, slipped : BOOLEAN]
                      /\ s8'[r].call = s8[r].call /\ s8'[r].listing = s8[r].listing
                      /\ s8'[r].found = s8[r].found /\ s8'[r].floor = s8[r].floor
                      /\ s8[r].slipped => s8'[r].slipped
                      /\ Records!Name(temp) \in s8[r].listing => s8'[r].slipped
    OBVIOUS
  <2>1. s8[r] \in [call : {"none", "reports"}, listing : SUBSET (Records!Reports \X Nat),
                   found : SUBSET Records!Reports, floor : Nat, slipped : BOOLEAN]
    BY <1>0 DEF Records!RecordsTypeOK
  <2> HIDE DEF temp
  <2>2. CASE Records!Name(temp) \in s8[r].listing
    <3>1. s8'[r] = [s8[r] EXCEPT !.slipped = TRUE]
      BY <1>1, <2>2
    <3> QED
      BY <2>1, <3>1
  <2>3. CASE ~(Records!Name(temp) \in s8[r].listing)
    <3>1. s8'[r] = s8[r]
      BY <1>1, <2>3
    <3> QED
      BY <2>1, <2>3, <3>1
  <2> QED
    BY <2>2, <2>3
<1> HIDE DEF temp, final
<1>7. \A f \in s7' : /\ f \in [report : Records!Reports, run : Nat, whole : BOOLEAN]
                     /\ f.run = 0 => f.whole
                     /\ f.report.second <= s12
  <2>1. \A f \in s7' : f \in s7 \/ f = final
    BY <1>2
  <2>2. \A f \in s7 : /\ f \in [report : Records!Reports, run : Nat, whole : BOOLEAN]
                      /\ f.run = 0 => f.whole
                      /\ f.report.second <= s12
    BY <1>0 DEF Records!RecordsTypeOK, Records!NoneLater
  <2> QED
    BY <1>5, <2>1, <2>2
<1>8. Records!RecordsTypeOK'
  <2>1. s1' \in [RecordWorkers -> {"idle", "saving", "replacing", "completed",
     "stamped"} \cup Records!InLock]
    BY <1>0, <1>1 DEF Records!RecordsTypeOK
  <2>2. \A v \in RecordWorkers : s1'[v] # "idle" => s1[v] # "idle"
    BY <1>0, <1>1 DEF Records!RecordsTypeOK
  <2>3. s7' \subseteq [report : Records!Reports, run : Nat, whole : BOOLEAN]
    BY <1>7
  <2>4. s8' \in [Readers -> [call : {"none", "reports"}, listing : SUBSET (Records!Reports \X Nat),
                             found : SUBSET Records!Reports, floor : Nat, slipped : BOOLEAN]]
    BY <1>1, <1>6
  <2> QED
    BY <1>0, <1>1, <1>3, <1>7, <2>1, <2>2, <2>3, <2>4 DEF Records!RecordsTypeOK
<1>9. Records!CheckpointsKept'
  <2>1. s13' = 0 => s13 = 0
    BY <1>2, <1>3
  <2>2. \A v \in RecordWorkers : s1'[v] \in {"saving", "replacing"} => s1[v] = s1'[v]
    BY <1>0, <1>1 DEF Records!RecordsTypeOK
  <2> QED
    BY <1>0, <1>1, <2>1, <2>2 DEF Records!CheckpointsKept
<1>10. Records!NoneLater'
  BY <1>0, <1>1, <1>6, <1>7 DEF Records!NoneLater
<1>11. ASSUME ~s10' PROVE /\ Records!FoundOnDisk'
                          /\ \A r \in Readers : s8'[r].call = "reports" => Records!FoundInTime(r)'
  <2>1. ~s10 /\ s7' = (s7 \ {temp}) \cup {final}
    BY <1>2, <1>11
  <2>2. \A p : Records!OnDisk(p) => Records!OnDisk(p)'
    BY <1>5, <2>1 DEF Records!OnDisk
  <2>3. Records!FoundOnDisk'
    BY <1>1, <1>6, <2>1, <2>2 DEF Records!RecordsInv, Records!FoundOnDisk
  <2>4. ASSUME NEW r \in Readers, s8'[r].call = "reports" PROVE Records!FoundInTime(r)'
    <3>1. Records!FoundInTime(r)
      BY <1>6, <2>1, <2>4 DEF Records!RecordsInv
    <3>2. ASSUME NEW f \in s7, Records!Name(f) \in s8[r].listing, ~s8'[r].slipped PROVE f \in s7'
      BY <1>6, <2>1, <3>2
    <3> QED
      BY <1>6, <3>1, <3>2 DEF Records!FoundInTime, Records!Name
  <2> QED
    BY <2>3, <2>4
<1> QED
  BY <1>8, <1>9, <1>10, <1>11 DEF Records!RecordsInv

(* Readers change nothing but what they have and were told.                  *)
LEMMA ReaderKeeps ==
    ASSUME Records!RecordsInv, NEW r \in Readers,
           UNCHANGED <<s1, s2, s3, s4, s5, s6, s7, s10, s11, s12, s13>>,
           NEW d \in [call : {"none", "reports"}, listing : SUBSET (Records!Reports \X Nat),
                      found : SUBSET Records!Reports, floor : Nat, slipped : BOOLEAN],
           s8' = [s8 EXCEPT ![r] = d],
           s9' \in [Records!Missions -> Nat],
           \A m \in Records!Missions : s9'[m] <= s12,
           \A p \in d.found : p.second <= s12,
           ~s10 => /\ \A p \in d.found : Records!OnDisk(p)
                   /\ \A m \in Records!Missions :
                         s9'[m] # 0 => Records!OnDisk([mission |-> m, second |-> s9'[m]])
                   /\ d.call = "reports" => Records!FoundInTime(r)'
    PROVE  Records!RecordsInv'
<1>0. Records!RecordsTypeOK /\ Records!NoneLater /\ Records!CheckpointsKept
  BY DEF Records!RecordsInv
<1>1. \A q \in Readers : s8'[q] = IF q = r THEN d ELSE s8[q]
  BY <1>0 DEF Records!RecordsTypeOK
<1>2. Records!RecordsTypeOK'
  BY <1>0 DEF Records!RecordsTypeOK
<1>3. Records!CheckpointsKept'
  BY <1>0 DEF Records!CheckpointsKept
<1>4. Records!NoneLater'
  BY <1>0, <1>1 DEF Records!NoneLater
<1>5. ASSUME ~s10 PROVE /\ Records!FoundOnDisk'
                        /\ \A q \in Readers : s8'[q].call = "reports" => Records!FoundInTime(q)'
  <2>1. \A p : Records!OnDisk(p)' <=> Records!OnDisk(p)
    BY DEF Records!OnDisk
  <2>2. \A q \in Readers : \A p \in s8'[q].found : Records!OnDisk(p)
    BY <1>1, <1>5 DEF Records!RecordsInv, Records!FoundOnDisk
  <2>3. Records!FoundOnDisk'
    <3> SUFFICES ASSUME TRUE
                 PROVE  /\ \A q \in Readers : \A p \in s8'[q].found : Records!OnDisk(p)'
                        /\ \A m \in Records!Missions :
                              s9'[m] # 0 => Records!OnDisk([mission |-> m, second |-> s9[m]])'
      BY DEF Records!FoundOnDisk
    <3>1. \A m \in Records!Missions :
             s9'[m] # 0 => Records!OnDisk([mission |-> m, second |-> s9[m]])'
      BY <1>5 DEF Records!OnDisk
    <3> QED
      BY <2>1, <2>2, <3>1
  <2>4. ASSUME NEW q \in Readers, s8'[q].call = "reports" PROVE Records!FoundInTime(q)'
    <3>1. CASE q = r
      BY <1>1, <1>5, <2>4, <3>1
    <3>2. CASE q # r
      <4>1. s8'[q] = s8[q] /\ s8[q].call = "reports"
        BY <1>1, <2>4, <3>2
      <4> QED
        BY <1>5, <4>1 DEF Records!RecordsInv, Records!FoundInTime
    <3> QED
      BY <3>1, <3>2
  <2> QED
    BY <2>3, <2>4
<1> QED
  BY <1>2, <1>3, <1>4, <1>5 DEF Records!RecordsInv

(* What a call must find is in the listing it makes.                         *)
LEMMA ListingKeeps ==
    ASSUME Records!RecordsInv, NEW r \in Readers, NEW asking \in Queries,
           Records!ListReports(r, asking)
    PROVE  Records!RecordsInv'
<1> DEFINE asked == {f \in s7 : f.report.mission \in asking}
           known == {f.report.second : f \in {g \in asked : g.run = 0}} \cup {s9[m] : m \in asking}
           floor == Records!Newest(known)
           listing == {Records!Name(f) : f \in asked}
           d == [Records!Idle EXCEPT !.call = "reports", !.listing = listing, !.floor = floor]
<1>0. Records!RecordsTypeOK /\ Records!NoneLater /\ s12 \in Nat
  BY DEF Records!RecordsInv, Records!RecordsTypeOK
<1>1. /\ UNCHANGED <<s1, s2, s3, s4, s5, s6, s7, s9, s10, s11, s12, s13>>
      /\ s8' = [s8 EXCEPT ![r] = [Records!Idle EXCEPT !.call = "reports",
                   !.listing = listing, !.floor = floor]]
  BY DEF Records!ListReports, Records!worker_vars, Records!disk_vars, Records!bound_vars
<1>2. asking \subseteq Records!Missions
  BY RecordsAssumption
<1>3. \A f \in asked : /\ f \in [report : Records!Reports, run : Nat, whole : BOOLEAN]
                       /\ f.report \in Records!Reports /\ f.run \in Nat
                       /\ f.report.second \in Nat /\ f.report.second <= s12
                       /\ f.run = 0 => f.whole
  BY <1>0 DEF Records!RecordsTypeOK, Records!NoneLater, Records!Reports
<1>4. \A m \in asking : s9[m] \in Nat /\ s9[m] <= s12
  BY <1>0, <1>2 DEF Records!RecordsTypeOK, Records!NoneLater
<1>5. known \subseteq Nat /\ \A x \in known : x <= s12
  BY <1>3, <1>4
<1>6. floor \in Nat /\ (floor = 0 \/ floor \in known)
  <2> HIDE DEF known
  <2> QED
    BY <1>0, <1>5, NewestOf
<1>7. listing \subseteq Records!Reports \X Nat
  <2> HIDE DEF asked
  <2> QED
    BY <1>3 DEF Records!Name
<1>8. /\ d \in [call : {"none", "reports"}, listing : SUBSET (Records!Reports \X Nat),
                found : SUBSET Records!Reports, floor : Nat, slipped : BOOLEAN]
      /\ d.call = "reports" /\ d.listing = listing /\ d.found = {} /\ d.floor = floor
  <2>1. Records!Idle \in [call : {"none", "reports"}, listing : SUBSET (Records!Reports \X Nat),
                          found : SUBSET Records!Reports, floor : Nat, slipped : BOOLEAN]
    BY DEF Records!Idle
  <2>2. Records!Idle.found = {}
    BY DEF Records!Idle
  <2> HIDE DEF listing, floor
  <2> QED
    BY <1>6, <1>7, <2>1, <2>2
<1>9. s8' = [s8 EXCEPT ![r] = d]
  BY <1>1
<1>10. ASSUME ~s10 PROVE Records!FoundInTime(r)'
  <2>1. Records!FoundOnDisk
    BY <1>10 DEF Records!RecordsInv
  <2>2. s8'[r] = d
    BY <1>0, <1>1 DEF Records!RecordsTypeOK
  <2>3. floor = 0 \/ \E f \in asked : f.whole /\ f.report.second >= floor
    <3>1. CASE \E f \in asked : f.run = 0 /\ floor = f.report.second
      <4>1. PICK f \in asked : f.run = 0 /\ floor = f.report.second
        BY <3>1
      <4>2. f.whole /\ f.report.second \in Nat
        BY <1>3, <4>1
      <4> HIDE DEF asked, floor
      <4> QED
        BY <4>1, <4>2
    <3>2. CASE \E m \in asking : floor = s9[m] /\ floor # 0
      <4>1. PICK m \in asking : floor = s9[m] /\ floor # 0
        BY <3>2
      <4>2. Records!OnDisk([mission |-> m, second |-> floor])
        BY <1>2, <2>1, <4>1 DEF Records!FoundOnDisk
      <4>3. PICK f \in s7 : f.whole /\ f.report = [mission |-> m, second |-> floor]
        BY <4>2 DEF Records!OnDisk
      <4>4. f \in asked /\ f.report.second = floor
        BY <4>1, <4>3
      <4> HIDE DEF asked, floor
      <4> QED
        BY <1>6, <4>3, <4>4
    <3> QED
      BY <1>6, <3>1, <3>2
  <2>4. \A f \in asked : f \in s7 /\ Records!Name(f) \in listing
    OBVIOUS
  <2> HIDE DEF asked, listing, floor, d
  <2> QED
    BY <1>1, <1>8, <2>2, <2>3, <2>4 DEF Records!FoundInTime, Records!Name
<1> HIDE DEF d, asked, known, listing, floor
<1>12. \A m \in Records!Missions : s9'[m] <= s12
  BY <1>0, <1>1 DEF Records!NoneLater
<1>13. s9' \in [Records!Missions -> Nat]
  BY <1>0, <1>1 DEF Records!RecordsTypeOK
<1>14. ~s10 => \A m \in Records!Missions :
                  s9'[m] # 0 => Records!OnDisk([mission |-> m, second |-> s9'[m]])
  BY <1>1 DEF Records!RecordsInv, Records!FoundOnDisk
<1> QED
  BY <1>1, <1>8, <1>9, <1>10, <1>12, <1>13, <1>14, ReaderKeeps

(* A file of the listing is read, if it is there and whole.                  *)
LEMMA ReadingKeeps ==
    ASSUME Records!RecordsInv, NEW r \in Readers, Records!ReadReport(r)
    PROVE  Records!RecordsInv'
<1>0. Records!RecordsTypeOK /\ Records!NoneLater
  BY DEF Records!RecordsInv
<1>1. PICK n \in s8[r].listing :
         s8' = [s8 EXCEPT ![r].listing = @ \ {n},
             ![r].found = @ \cup {f.report : f \in {g \in s7 : g.whole /\ Records!Name(g) = n}}]
  BY DEF Records!ReadReport
<1>2. UNCHANGED <<s1, s2, s3, s4, s5, s6, s7, s9, s10, s11, s12, s13>>
  BY DEF Records!ReadReport, Records!worker_vars, Records!disk_vars, Records!bound_vars
<1> DEFINE there == {g \in s7 : g.whole /\ Records!Name(g) = n}
           new == {f.report : f \in there}
           d == [s8[r] EXCEPT !.listing = @ \ {n}, !.found = @ \cup new]
<1>3. \A f \in there : f \in s7 /\ f.whole /\ Records!Name(f) = n
  OBVIOUS
<1>4. \A f \in s7 : f.report \in Records!Reports /\ f.report.second <= s12
  BY <1>0 DEF Records!RecordsTypeOK, Records!NoneLater
<1>5. new \subseteq Records!Reports /\ \A p \in new : p.second <= s12
  BY <1>3, <1>4
<1>6. \A p \in new : Records!OnDisk(p)
  BY <1>3 DEF Records!OnDisk
<1>7. s8[r] \in [call : {"none", "reports"}, listing : SUBSET (Records!Reports \X Nat),
                 found : SUBSET Records!Reports, floor : Nat, slipped : BOOLEAN]
  BY <1>0 DEF Records!RecordsTypeOK
<1>8. s8' = [s8 EXCEPT ![r] = d]
  <2> DEFINE once == [s8 EXCEPT ![r] = [s8[r] EXCEPT !.listing = @ \ {n}]]
  <2>1. s8' = [once EXCEPT ![r] = [once[r] EXCEPT !.found = @ \cup new]]
    BY Zenon, <1>1
  <2>2. once[r] = [s8[r] EXCEPT !.listing = @ \ {n}]
    BY <1>0 DEF Records!RecordsTypeOK
  <2>3. once[r].found = s8[r].found
    BY <1>7, <2>2
  <2> HIDE DEF new
  <2>4. [once[r] EXCEPT !.found = @ \cup new] = d
    BY <1>7, <2>2, <2>3
  <2>5. [once EXCEPT ![r] = d] = [s8 EXCEPT ![r] = d]
    <3> HIDE DEF d
    <3> QED
      BY <1>0 DEF Records!RecordsTypeOK
  <2> HIDE DEF once, d
  <2> QED
    BY <2>1, <2>4, <2>5
<1> HIDE DEF new
<1>9. /\ d \in [call : {"none", "reports"}, listing : SUBSET (Records!Reports \X Nat),
                found : SUBSET Records!Reports, floor : Nat, slipped : BOOLEAN]
      /\ d.call = s8[r].call /\ d.listing = s8[r].listing \ {n}
      /\ d.found = s8[r].found \cup new /\ d.floor = s8[r].floor /\ d.slipped = s8[r].slipped
  BY <1>5, <1>7
<1> HIDE DEF d
<1>10. s8'[r] = d
  BY <1>0, <1>8 DEF Records!RecordsTypeOK
<1>11. ASSUME ~s10, d.call = "reports" PROVE Records!FoundInTime(r)'
  <2>1. Records!FoundInTime(r)
    BY <1>9, <1>11 DEF Records!RecordsInv
  <2>2. CASE \E f \in s7 : /\ f.whole /\ f.report.second >= s8[r].floor
                           /\ Records!Name(f) \in s8[r].listing
    <3>1. PICK f \in s7 : /\ f.whole /\ f.report.second >= s8[r].floor
                          /\ Records!Name(f) \in s8[r].listing
      BY <2>2
    <3>2. CASE Records!Name(f) = n
      <4>1. f \in there
        BY <3>1, <3>2
      <4>2. f.report \in d.found
        BY <1>9, <4>1 DEF new
      <4> QED
        BY <1>9, <1>10, <3>1, <4>2 DEF Records!FoundInTime
    <3>3. CASE Records!Name(f) # n
      <4>1. Records!Name(f) \in d.listing /\ f \in s7'
        BY <1>2, <1>9, <3>1, <3>3
      <4> QED
        BY <1>9, <1>10, <3>1, <4>1 DEF Records!FoundInTime, Records!Name
    <3> QED
      BY <3>2, <3>3
  <2>3. CASE \/ s8[r].slipped \/ s8[r].floor = 0
             \/ \E p \in s8[r].found : p.second >= s8[r].floor
    BY <1>9, <1>10, <2>3 DEF Records!FoundInTime
  <2> QED
    BY <2>1, <2>2, <2>3 DEF Records!FoundInTime
<1>12. \A p \in d.found : p.second <= s12
  BY <1>0, <1>5, <1>9 DEF Records!NoneLater
<1>13. ~s10 => \A p \in d.found : Records!OnDisk(p)
  BY <1>6, <1>9 DEF Records!RecordsInv, Records!FoundOnDisk
<1>14. s9' \in [Records!Missions -> Nat] /\ \A m \in Records!Missions : s9'[m] <= s12
  BY <1>0, <1>2 DEF Records!RecordsTypeOK, Records!NoneLater
<1>15. ~s10 => \A m \in Records!Missions :
                  s9'[m] # 0 => Records!OnDisk([mission |-> m, second |-> s9'[m]])
  BY <1>2 DEF Records!RecordsInv, Records!FoundOnDisk
<1> QED
  BY <1>2, <1>8, <1>9, <1>11, <1>12, <1>13, <1>14, <1>15, ReaderKeeps

(* A call returns: what it tells is of a report it found, or was told before.*)
LEMMA ReturningKeeps ==
    ASSUME Records!RecordsInv, NEW r \in Readers, Records!ReturnReports(r)
    PROVE  Records!RecordsInv'
<1> DEFINE Of(m) == {p \in s8[r].found : p.mission = m}
           S(m) == {s9[m]} \cup Records!Seconds(Of(m))
<1>0. Records!RecordsTypeOK /\ Records!NoneLater /\ s12 \in Nat
  BY DEF Records!RecordsInv, Records!RecordsTypeOK
<1>1. /\ UNCHANGED <<s1, s2, s3, s4, s5, s6, s7, s10, s11, s12, s13>>
      /\ s9' = [m \in Records!Missions |-> Records!Newest(S(m))]
      /\ s8' = [s8 EXCEPT ![r] = Records!Idle]
  BY DEF Records!ReturnReports, Records!worker_vars, Records!disk_vars, Records!bound_vars
<1>2. /\ Records!Idle \in [call : {"none", "reports"}, listing : SUBSET (Records!Reports \X Nat),
                           found : SUBSET Records!Reports, floor : Nat, slipped : BOOLEAN]
      /\ Records!Idle.found = {} /\ Records!Idle.call = "none"
  BY DEF Records!Idle
<1>3. s8[r].found \subseteq Records!Reports /\ \A p \in s8[r].found : p.second <= s12
  BY <1>0 DEF Records!RecordsTypeOK, Records!NoneLater
<1>4. ASSUME NEW m \in Records!Missions
      PROVE  /\ s9'[m] \in Nat /\ s9'[m] <= s12
             /\ s9'[m] = s9[m] \/ [mission |-> m, second |-> s9'[m]] \in s8[r].found
  <2>1. s9[m] \in Nat /\ s9[m] <= s12
    BY <1>0 DEF Records!RecordsTypeOK, Records!NoneLater
  <2>2. \A x \in S(m) : \/ x = s9[m]
                        \/ \E p \in s8[r].found : p.mission = m /\ x = p.second
    BY DEF Records!Seconds
  <2>3. \A p \in s8[r].found : p \in Records!Reports /\ p.second \in Nat /\ p.second <= s12
    BY <1>3 DEF Records!Reports
  <2>4. S(m) \subseteq Nat /\ S(m) # {} /\ \A x \in S(m) : x <= s12
    BY <2>1, <2>2, <2>3
  <2>5. s9'[m] = Records!Newest(S(m))
    BY <1>1
  <2>6. s9'[m] \in S(m)
    <3> HIDE DEF S
    <3> QED
      BY <1>0, <2>4, <2>5, NewestOf
  <2>7. ASSUME NEW p \in s8[r].found, p.mission = m, s9'[m] = p.second
        PROVE  [mission |-> m, second |-> s9'[m]] \in s8[r].found
    <3>1. p = [mission |-> p.mission, second |-> p.second]
      BY <2>3 DEF Records!Reports
    <3> QED
      BY <2>7, <3>1
  <2> QED
    BY <2>2, <2>4, <2>6, <2>7
<1>5. s9' \in [Records!Missions -> Nat]
  <2> HIDE DEF S
  <2> QED
    BY <1>1, <1>4
<1>6. ~s10 => \A m \in Records!Missions :
                 s9'[m] # 0 => Records!OnDisk([mission |-> m, second |-> s9'[m]])
  BY <1>4 DEF Records!RecordsInv, Records!FoundOnDisk
<1> QED
  BY <1>1, <1>2, <1>4, <1>5, <1>6, ReaderKeeps

LEMMA RecordsKeep ==
    ASSUME Records!RecordsInv, Records!Next \/ UNCHANGED Records!vars
    PROVE  Records!RecordsInv'
<1>1. CASE UNCHANGED Records!vars
  <2>1. UNCHANGED <<s1, s2, s3, s4, s5, s6, s7, s8, s9, s10, s11, s12, s13>>
    BY <1>1 DEF Records!vars, Records!worker_vars, Records!disk_vars, Records!reader_vars,
                Records!bound_vars
  <2>2. Records!RecordsTypeOK' /\ Records!CheckpointsKept'
    BY <2>1 DEF Records!RecordsInv, Records!RecordsTypeOK, Records!CheckpointsKept
  <2>3. s12 <= s12' /\ \A w \in RecordWorkers : s5'[w] <= s12'
    BY <2>1 DEF Records!RecordsInv, Records!RecordsTypeOK, Records!NoneLater
  <2> QED
    BY <2>1, <2>2, <2>3, FilesAsTheyAre
<1>2. ASSUME NEW w \in RecordWorkers, Records!Step(w) PROVE Records!RecordsInv'
  BY <1>2, CheckpointsKeep, IdlingKeeps, WritingKeeps, RecordsMoveKeeps DEF Records!Step
<1>3. ASSUME NEW r \in Readers, Records!Read(r) PROVE Records!RecordsInv'
  BY <1>3, ListingKeeps, ReadingKeeps, ReturningKeeps DEF Records!Read
<1> QED
  BY <1>1, <1>2, <1>3, TimeKeeps DEF Records!Next

(* A call about to return was told as late a report as any it must know of,  *)
(* unless a file was renamed under it or a report was withdrawn; and until a *)
(* write fails no execution runs ahead of the latest checkpoint of its       *)
(* attempt: for any workers, readers, attempts, reports and times.           *)
THEOREM ReadersAreToldTheLatest == AnySpec => []AnswersAreRecent
<1> DEFINE Inv == component = "records" => Records!RecordsInv
<1>1. AnyInit => Inv
  BY RecordsBegin DEF AnyInit
<1>2. Inv /\ [AnyNext]_AnyVars => Inv'
  BY Selected, RecordsKeep
<1>3. Inv => AnswersAreRecent
  <2> SUFFICES ASSUME Records!RecordsInv PROVE Records!AnswersAreRecent
    BY DEF AnswersAreRecent
  <2>0. Records!RecordsTypeOK /\ Records!NoneLater /\ s12 \in Nat
    BY DEF Records!RecordsInv, Records!RecordsTypeOK
  <2>1. ASSUME NEW r \in Readers, s8[r].call = "reports", s8[r].listing = {}, ~s8[r].slipped, ~s10
        PROVE  Records!Answer(s8[r].found) >= s8[r].floor
    <3> DEFINE S == Records!Seconds(s8[r].found)
    <3>1. s8[r].found \subseteq Records!Reports /\ s8[r].floor \in Nat
      BY <2>0 DEF Records!RecordsTypeOK
    <3>2. S \subseteq Nat /\ \A x \in S : x <= s12
      BY <2>0, <3>1 DEF Records!Seconds, Records!Reports, Records!NoneLater
    <3>3. s8[r].floor = 0 \/ \E x \in S : x >= s8[r].floor
      BY <2>1 DEF Records!RecordsInv, Records!FoundInTime, Records!Seconds
    <3> HIDE DEF S
    <3>4. Records!Newest(S) \in Nat /\ \A x \in S : x <= Records!Newest(S)
      BY <2>0, <3>2, NewestOf
    <3>5. Records!Newest(S) >= s8[r].floor
      BY <3>1, <3>2, <3>3, <3>4
    <3> QED
      BY <3>5 DEF Records!Answer, S
  <2>2. ASSUME NEW w \in RecordWorkers, s13 = 0, s1[w] \in {"saving", "replacing"}
        PROVE  Records!Latest(s2[w]) >= s4[w] - 1
    <3> DEFINE S == s6[s2[w]]
    <3>1. s4[w] \in Nat /\ S \subseteq 0..LastSequence
      BY <2>0, <2>2 DEF Records!RecordsTypeOK
    <3>2. s4[w] # 0 => s4[w] - 1 \in S
      BY <2>2 DEF Records!RecordsInv, Records!CheckpointsKept
    <3>3. Records!Latest(s2[w]) = IF S = {} THEN -1
                                  ELSE CHOOSE n \in S : \A k \in S : k <= n
      BY DEF Records!Latest
    <3> HIDE DEF S
    <3>4. CASE S = {}
      BY <3>1, <3>2, <3>3, <3>4
    <3>5. CASE S # {}
      <4>1. S \subseteq Nat /\ LastSequence \in Nat /\ \A x \in S : x <= LastSequence
        BY <3>1, RecordsAssumption
      <4>2. PICK x \in S : \A y \in S : y <= x
        BY <3>5, <4>1, GreatestThereIs
      <4>3. /\ Records!Latest(s2[w]) \in S
            /\ \A k \in S : k <= Records!Latest(s2[w])
        BY <3>3, <3>5, <4>2
      <4>4. PICK latest \in S : latest = Records!Latest(s2[w])
        BY <4>3
      <4>5. latest \in Nat
        BY <4>1
      <4>6. s4[w] # 0 => s4[w] - 1 <= latest
        BY <3>2, <4>3, <4>4
      <4> QED
        BY <3>1, <4>4, <4>5, <4>6
    <3> QED
      BY <3>4, <3>5
  <2> QED
    BY <2>1, <2>2 DEF Records!AnswersAreRecent
<1> QED
  BY <1>1, <1>2, <1>3, PTL DEF AnySpec, AnyVars

-----------------------------------------------------------------------------
(* The registry of models; s1 memory, s2 disk, s3 pc, s4 call, s5 copy,      *)
(* s6 before, s8 off, s9 crossed.                                            *)

(* A set of numbers has a smallest one, which is the greatest seen from one  *)
(* of them downwards.                                                        *)
LEMMA SmallestThereIs ==
    ASSUME NEW S, S \subseteq Nat, S # {}
    PROVE  \E x \in S : \A y \in S : x <= y
<1>1. PICK n \in S : TRUE
  OBVIOUS
<1> DEFINE D == {k \in 0..n : n - k \in S}
<1>2. n \in Nat /\ 0 \in D /\ D \subseteq Nat /\ \A k \in D : k <= n
  BY <1>1
<1>3. PICK k \in D : \A j \in D : j <= k
  <2> HIDE DEF D
  <2> QED
    BY <1>2, GreatestThereIs
<1>4. n - k \in S /\ k \in 0..n
  BY <1>3
<1>5. ASSUME NEW y \in S PROVE n - k <= y
  <2>1. y \in Nat
    OBVIOUS
  <2>2. CASE y <= n
    <3>1. n - y \in D
      BY <1>2, <2>1, <2>2
    <3> QED
      BY <1>2, <1>3, <1>4, <2>1, <3>1
  <2>3. CASE y > n
    BY <1>2, <1>4, <2>1, <2>3
  <2> QED
    BY <1>2, <2>1, <2>2, <2>3
<1> QED
  BY <1>4, <1>5

LEMMA ModelsBegin == Models!Init => Models!ModelsInv
<1> SUFFICES ASSUME Models!Init PROVE Models!ModelsInv
  OBVIOUS
<1>1. Models!Record("active", TRUE) \in Models!Records /\ Models!Absent \in Models!Records
  BY DEF Models!Record, Models!Records, Models!Absent
<1>2. s1 \in Models!States /\ s2 = s1
  BY <1>1 DEF Models!Init, Models!States
<1>3. Models!ModelsTypeOK
  BY <1>2 DEF Models!Init, Models!ModelsTypeOK, Models!Saving
<1>4. Models!SavedAsChanged /\ Models!OffIsDisabled
  BY DEF Models!Init, Models!SavedAsChanged, Models!OffIsDisabled, Models!Saving
<1> QED
  BY <1>3, <1>4 DEF Models!ModelsInv

(* A change of the memory that keeps what is disabled.                       *)
LEMMA ChangeKeeps ==
    ASSUME Models!ModelsInv, NEW t \in ModelThreads, s3[t] \notin Models!Saving,
           s3' = [s3 EXCEPT ![t] = "copy"],
           s1' \in Models!States, s2' = s2, s5' = s5, s6' = s6,
           DOMAIN s4' = ModelThreads, \A u \in ModelThreads \ {t} : s4'[u] = s4[u],
           s4'[t][1] = "disable" => s4'[t][2] \in ModelNames /\ Models!Disabled(s1', s4'[t][2]),
           s8' \subseteq s8, s9' \in BOOLEAN,
           s9 \/ (\E u \in ModelThreads \ {t} : s3[u] \in Models!Saving) => s9',
           ~s9' => \A m \in s8' : Models!Disabled(s1, m) => Models!Disabled(s1', m)
    PROVE  Models!ModelsInv'
<1>1. Models!ModelsTypeOK
  BY DEF Models!ModelsInv
<1>2. s3'[t] = "copy" /\ \A u \in ModelThreads \ {t} : s3'[u] = s3[u]
  BY <1>1 DEF Models!ModelsTypeOK
<1>3. Models!ModelsTypeOK'
  <2>1. /\ s3' \in [ModelThreads -> {"idle", "refresh", "test"} \cup Models!Saving]
        /\ DOMAIN s5' = ModelThreads /\ DOMAIN s6' = ModelThreads
        /\ s2' \in Models!States /\ s8' \subseteq ModelNames
    BY <1>1 DEF Models!ModelsTypeOK, Models!Saving
  <2>2. ASSUME NEW u \in ModelThreads
        PROVE  /\ s3'[u] \in {"save", "install"} => s5'[u] \in Models!States
               /\ s3'[u] = "refresh" => s6'[u] \in [ModelNames -> Models!Records]
               /\ s3'[u] \in {"refresh", "test"} => s4'[u][1] # "disable"
               /\ s3'[u] \in Models!Saving /\ s4'[u][1] = "disable" => s4'[u][2] \in ModelNames
    <3>1. CASE u = t
      BY <1>2, <3>1
    <3>2. CASE u # t
      BY <1>1, <1>2, <2>2, <3>2 DEF Models!ModelsTypeOK
    <3> QED
      BY <3>1, <3>2
  <2> QED
    BY <2>1, <2>2 DEF Models!ModelsTypeOK
<1>4. ASSUME ~s9' PROVE Models!SavedAsChanged' /\ Models!OffIsDisabled'
  <2>1. ~s9 /\ \A u \in ModelThreads : s3[u] \notin Models!Saving
    BY <1>4
  <2>2. \A u \in ModelThreads \ {t} : s3'[u] \notin Models!Saving
    BY <1>2, <2>1
  <2>3. Models!SavedAsChanged'
    BY <1>2, <2>2 DEF Models!SavedAsChanged, Models!Saving
  <2>4. Models!OffIsDisabled
    BY <2>1 DEF Models!ModelsInv
  <2>5. ASSUME NEW m \in s8' PROVE Models!Disabled(s1', m) /\ Models!Disabled(s2', m)
    BY <1>4, <2>4, <2>5 DEF Models!OffIsDisabled
  <2>6. ASSUME NEW u \in ModelThreads, s3'[u] \in Models!Saving, s4'[u][1] = "disable"
        PROVE  Models!Disabled(s1', s4'[u][2])
    BY <2>2, <2>6
  <2> QED
    BY <2>3, <2>5, <2>6 DEF Models!OffIsDisabled
<1> QED
  BY <1>3, <1>4 DEF Models!ModelsInv

(* What a change makes of the model it is about.                             *)
LEMMA WithModelIs ==
    ASSUME s1 \in Models!States, NEW m \in ModelNames, NEW r \in Models!Records
    PROVE  /\ Models!WithModel(m, r) \in Models!States
           /\ Models!WithModel(m, r).models[m] = r
           /\ \A n \in ModelNames \ {m} : Models!WithModel(m, r).models[n] = s1.models[n]
<1> DEFINE d == [s1 EXCEPT !.models[m] = r]
<1>1. s1.models \in [ModelNames -> Models!Records] /\ DOMAIN s1 = {"provider", "models", "chain"}
  BY DEF Models!States
<1>2. d.models = [s1.models EXCEPT ![m] = r] /\ d \in Models!States
  BY <1>1 DEF Models!States
<1> HIDE DEF d
<1>3. d.models[m] = r /\ \A n \in ModelNames \ {m} : d.models[n] = s1.models[n]
  BY <1>1, <1>2
<1> QED
  BY <1>2, <1>3 DEF d, Models!WithModel

(* Changes of one model.                                                     *)
LEMMA ModelChangesKeep ==
    ASSUME Models!ModelsInv, NEW t \in ModelThreads, NEW m \in ModelNames,
           \/ \E on \in BOOLEAN : Models!RegisterModel(t, m, on)
           \/ Models!EnableModel(t, m) \/ Models!DisableModel(t, m)
    PROVE  Models!ModelsInv'
<1>1. PICK r \in Models!Records, c \in {"enable", "disable"} :
        /\ s1' = Models!WithModel(m, r) /\ s4' = [s4 EXCEPT ![t] = <<c, m>>]
        /\ \/ c = "enable" /\ s8' = s8 \ {m}
           \/ c = "disable" /\ s8' = s8 /\ r = Models!Record("disabled", FALSE)
  <2>1. \A on \in BOOLEAN : Models!Record(IF on THEN "available" ELSE "disabled", on) \in Models!Records
    BY DEF Models!Record, Models!Records
  <2>2. Models!Record("available", TRUE) \in Models!Records /\ Models!Record("disabled", FALSE) \in Models!Records
    BY DEF Models!Record, Models!Records
  <2>3. CASE \E on \in BOOLEAN : Models!RegisterModel(t, m, on)
    BY <2>1, <2>3 DEF Models!RegisterModel, Models!Begin, Models!Mutate
  <2>4. CASE Models!EnableModel(t, m)
    BY <2>2, <2>4 DEF Models!EnableModel, Models!Begin, Models!Mutate
  <2>5. CASE Models!DisableModel(t, m)
    BY <2>2, <2>5 DEF Models!DisableModel, Models!Begin, Models!Mutate
  <2> QED
    BY <2>3, <2>4, <2>5
<1>2. /\ s3[t] = "idle" /\ s3' = [s3 EXCEPT ![t] = "copy"] /\ UNCHANGED <<s2, s5, s6>>
      /\ s9' = (s9 \/ \E u \in ModelThreads \ {t} : s3[u] \in Models!Saving)
  BY DEF Models!RegisterModel, Models!EnableModel, Models!DisableModel, Models!Mutate, Models!Go
<1>3. Models!ModelsTypeOK
  BY DEF Models!ModelsInv
<1>4. /\ s1' \in Models!States /\ s1'.models[m] = r
      /\ \A n \in ModelNames \ {m} : s1'.models[n] = s1.models[n]
  BY <1>1, <1>3, WithModelIs DEF Models!ModelsTypeOK
<1>5. /\ DOMAIN s4' = ModelThreads /\ s4'[t] = <<c, m>>
      /\ \A u \in ModelThreads \ {t} : s4'[u] = s4[u]
  BY <1>1, <1>3 DEF Models!ModelsTypeOK
<1>6. c = "disable" => Models!Disabled(s1', m)
  <2>1. Models!Record("disabled", FALSE) # Models!Absent /\ ~Models!Record("disabled", FALSE).enabled
    BY DEF Models!Record, Models!Absent
  <2> QED
    BY <1>1, <1>4, <2>1 DEF Models!Disabled
<1>7. ASSUME NEW n \in s8', Models!Disabled(s1, n) PROVE Models!Disabled(s1', n)
  BY <1>1, <1>3, <1>4, <1>6, <1>7 DEF Models!Disabled, Models!ModelsTypeOK
<1>8. s9' \in BOOLEAN /\ s3[t] \notin Models!Saving /\ s8' \subseteq s8
  BY <1>1, <1>2 DEF Models!Saving
<1> QED
  BY <1>1, <1>2, <1>4, <1>5, <1>6, <1>7, <1>8, ChangeKeeps

(* Changes that leave the models as they are.                                *)
LEMMA OtherChangesKeep ==
    ASSUME Models!ModelsInv, NEW t \in ModelThreads,
           \/ \E on \in BOOLEAN : Models!UpdateProvider(t, on)
           \/ \E chain \in Chains : Models!AssignModel(t, chain)
           \/ Models!RemoveAssignment(t)
           \/ \E ok \in BOOLEAN : Models!TestProvider(t, ok)
    PROVE  Models!ModelsInv'
<1>1. Models!ModelsTypeOK /\ s1 \in Models!States
  BY DEF Models!ModelsInv, Models!ModelsTypeOK
<1>2. s1' \in Models!States /\ s1'.models = s1.models
  <2>1. CASE \E on \in BOOLEAN : Models!UpdateProvider(t, on)
    BY <1>1, <2>1 DEF Models!UpdateProvider, Models!Mutate, Models!States, Models!Record, Models!Records
  <2>2. CASE (\E chain \in Chains : Models!AssignModel(t, chain)) \/ Models!RemoveAssignment(t)
    BY <1>1, <2>2 DEF Models!AssignModel, Models!RemoveAssignment, Models!Mutate, Models!States
  <2>3. CASE \E ok \in BOOLEAN : Models!TestProvider(t, ok)
    <3>1. PICK st \in {"active", "degraded"} : s1' = [s1 EXCEPT !.provider.status = st]
      BY <2>3 DEF Models!TestProvider, Models!Mutate
    <3> QED
      BY <1>1, <3>1 DEF Models!States, Models!Records
  <2> QED
    BY <2>1, <2>2, <2>3
<1>3. /\ s3[t] \in {"idle", "test"} /\ s3' = [s3 EXCEPT ![t] = "copy"] /\ UNCHANGED <<s2, s5, s6, s8>>
      /\ s9' = (s9 \/ \E u \in ModelThreads \ {t} : s3[u] \in Models!Saving)
  BY DEF Models!UpdateProvider, Models!AssignModel, Models!RemoveAssignment, Models!TestProvider,
         Models!Mutate, Models!Go
<1>4. /\ DOMAIN s4' = ModelThreads /\ s4'[t][1] # "disable"
      /\ \A u \in ModelThreads \ {t} : s4'[u] = s4[u]
  <2>1. CASE \E on \in BOOLEAN : Models!UpdateProvider(t, on)
    BY <1>1, <2>1 DEF Models!UpdateProvider, Models!Begin, Models!ModelsTypeOK
  <2>2. CASE \E chain \in Chains : Models!AssignModel(t, chain)
    BY <1>1, <2>2 DEF Models!AssignModel, Models!Begin, Models!ModelsTypeOK
  <2>3. CASE Models!RemoveAssignment(t)
    BY <1>1, <2>3 DEF Models!RemoveAssignment, Models!Begin, Models!ModelsTypeOK
  <2>4. CASE \E ok \in BOOLEAN : Models!TestProvider(t, ok)
    BY <1>1, <2>4 DEF Models!TestProvider, Models!ModelsTypeOK
  <2> QED
    BY <2>1, <2>2, <2>3, <2>4
<1>5. \A m \in s8' : Models!Disabled(s1, m) => Models!Disabled(s1', m)
  BY <1>2 DEF Models!Disabled
<1>6. s9' \in BOOLEAN /\ s3[t] \notin Models!Saving /\ s8' \subseteq s8
  BY <1>3 DEF Models!Saving
<1> QED
  BY <1>2, <1>3, <1>4, <1>5, <1>6, ChangeKeeps

(* A refresh that finds the models as they were leaves what was disabled so. *)
LEMMA RefreshKeeps ==
    ASSUME Models!ModelsInv, NEW t \in ModelThreads,
           \E listed \in SUBSET ModelNames : Models!RefreshModels(t, listed)
    PROVE  Models!ModelsInv'
<1>1. Models!ModelsTypeOK /\ s1 \in Models!States
  BY DEF Models!ModelsInv, Models!ModelsTypeOK
<1> PICK listed \in SUBSET ModelNames : Models!RefreshModels(t, listed)
  OBVIOUS
<1> DEFINE old == s6[t]
           Written(m) == old[m] # Models!Absent \/ m \in listed
           new == [m \in ModelNames |-> IF Written(m) THEN Models!Refreshed(old[m], m \in listed)
                                        ELSE s1.models[m]]
<1>2. /\ s3[t] = "refresh" /\ s1' = [s1 EXCEPT !.models = new] /\ s3' = [s3 EXCEPT ![t] = "copy"]
      /\ UNCHANGED <<s2, s4, s5, s6, s8>>
      /\ s9' = \/ s9 \/ \E u \in ModelThreads \ {t} : s3[u] \in Models!Saving
               \/ \E m \in ModelNames : Written(m) /\ old[m] # s1.models[m]
  BY DEF Models!RefreshModels, Models!Go
<1>3. old \in [ModelNames -> Models!Records] /\ s4[t][1] # "disable" /\ DOMAIN s4 = ModelThreads
  BY <1>1, <1>2 DEF Models!ModelsTypeOK
<1>4. \A r \in Models!Records, b \in BOOLEAN :
        /\ Models!Refreshed(r, b) \in Models!Records
        /\ r # Models!Absent => Models!Refreshed(r, b) # Models!Absent
                                /\ Models!Refreshed(r, b).enabled = r.enabled
  BY DEF Models!Refreshed, Models!Records, Models!Record, Models!Absent
<1>5. new \in [ModelNames -> Models!Records]
  <2>1. s1.models \in [ModelNames -> Models!Records]
    BY <1>1 DEF Models!States
  <2>2. ASSUME NEW m \in ModelNames
        PROVE  (IF Written(m) THEN Models!Refreshed(old[m], m \in listed) ELSE s1.models[m])
                  \in Models!Records
    <3>1. old[m] \in Models!Records /\ s1.models[m] \in Models!Records /\ (m \in listed) \in BOOLEAN
      BY <1>3, <2>1
    <3> HIDE DEF old, Written
    <3>2. Models!Refreshed(old[m], m \in listed) \in Models!Records
      BY <1>4, <3>1
    <3> QED
      BY <3>1, <3>2
  <2> HIDE DEF old, Written
  <2> QED
    BY <2>2
<1>6. \A m \in ModelNames : new[m] = IF Written(m) THEN Models!Refreshed(old[m], m \in listed)
                                     ELSE s1.models[m]
  OBVIOUS
<1> HIDE DEF new, Written, old
<1>7. s1' \in Models!States /\ s1'.models = new
  BY <1>1, <1>2, <1>5 DEF Models!States
<1>8. ASSUME ~s9', NEW m \in s8', Models!Disabled(s1, m) PROVE Models!Disabled(s1', m)
  <2>1. m \in ModelNames
    BY <1>1, <1>2, <1>8 DEF Models!ModelsTypeOK
  <2>2. CASE Written(m)
    <3>1. old[m] = s1.models[m] /\ old[m] \in Models!Records
      BY <1>2, <1>3, <1>8, <2>1, <2>2
    <3>2. new[m] = Models!Refreshed(old[m], m \in listed) /\ (m \in listed) \in BOOLEAN
      BY <1>6, <2>1, <2>2
    <3> QED
      BY <1>4, <1>7, <1>8, <3>1, <3>2 DEF Models!Disabled
  <2>3. CASE ~Written(m)
    BY <1>6, <1>7, <1>8, <2>1, <2>3 DEF Models!Disabled
  <2> QED
    BY <2>2, <2>3
<1>9. /\ s9' \in BOOLEAN /\ s3[t] \notin Models!Saving /\ s8' \subseteq s8
      /\ (s9 \/ (\E u \in ModelThreads \ {t} : s3[u] \in Models!Saving) => s9')
  BY <1>1, <1>2 DEF Models!Saving, Models!ModelsTypeOK
<1> QED
  BY <1>2, <1>3, <1>7, <1>8, <1>9, ChangeKeeps

(* A thread that begins or gives up leaves the memory and the disk as they   *)
(* are, and saves nothing.                                                   *)
LEMMA AsideKeeps ==
    ASSUME Models!ModelsInv, NEW t \in ModelThreads, NEW place \in {"idle", "refresh", "test"},
           s3' = [s3 EXCEPT ![t] = place], UNCHANGED <<s1, s2, s8, s9>>,
           DOMAIN s4' = ModelThreads, DOMAIN s5' = ModelThreads, DOMAIN s6' = ModelThreads,
           \A u \in ModelThreads \ {t} : s4'[u] = s4[u] /\ s5'[u] = s5[u] /\ s6'[u] = s6[u],
           place = "refresh" => s6'[t] \in [ModelNames -> Models!Records],
           place # "idle" => s4'[t][1] # "disable"
    PROVE  Models!ModelsInv'
<1>1. Models!ModelsTypeOK
  BY DEF Models!ModelsInv
<1>2. s3'[t] = place /\ place \notin Models!Saving /\ \A u \in ModelThreads \ {t} : s3'[u] = s3[u]
  BY <1>1 DEF Models!ModelsTypeOK, Models!Saving
<1>3. Models!ModelsTypeOK'
  <2>1. s3' \in [ModelThreads -> {"idle", "refresh", "test"} \cup Models!Saving]
    BY <1>1 DEF Models!ModelsTypeOK
  <2>2. ASSUME NEW u \in ModelThreads
        PROVE  /\ s3'[u] \in {"save", "install"} => s5'[u] \in Models!States
               /\ s3'[u] = "refresh" => s6'[u] \in [ModelNames -> Models!Records]
               /\ s3'[u] \in {"refresh", "test"} => s4'[u][1] # "disable"
               /\ s3'[u] \in Models!Saving /\ s4'[u][1] = "disable" => s4'[u][2] \in ModelNames
    <3>1. CASE u = t
      BY <1>2, <3>1 DEF Models!Saving
    <3>2. CASE u # t
      BY <1>1, <1>2, <2>2, <3>2 DEF Models!ModelsTypeOK
    <3> QED
      BY <3>1, <3>2
  <2> QED
    BY <1>1, <2>1, <2>2 DEF Models!ModelsTypeOK
<1>4. ASSUME ~s9' PROVE Models!SavedAsChanged' /\ Models!OffIsDisabled'
  <2>1. Models!SavedAsChanged /\ Models!OffIsDisabled
    BY <1>4 DEF Models!ModelsInv
  <2>2. Models!SavedAsChanged'
    BY <1>2, <2>1 DEF Models!SavedAsChanged, Models!Saving
  <2>3. Models!OffIsDisabled'
    BY <1>2, <2>1 DEF Models!OffIsDisabled
  <2> QED
    BY <2>2, <2>3
<1> QED
  BY <1>3, <1>4 DEF Models!ModelsInv

LEMMA AsideStep ==
    ASSUME Models!ModelsInv, NEW t \in ModelThreads,
           \/ \E what \in {"refresh", "test"} : Models!AskAdapter(t, what)
           \/ Models!AdapterFails(t) \/ Models!SaveFails(t)
    PROVE  Models!ModelsInv'
<1>1. Models!ModelsTypeOK /\ s1.models \in [ModelNames -> Models!Records]
  BY DEF Models!ModelsInv, Models!ModelsTypeOK, Models!States
<1>2. CASE \E what \in {"refresh", "test"} : Models!AskAdapter(t, what)
  <2>1. PICK what \in {"refresh", "test"} : Models!AskAdapter(t, what)
    BY <1>2
  <2>2. /\ s3' = [s3 EXCEPT ![t] = what] /\ UNCHANGED <<s1, s2, s5, s8, s9>>
        /\ s4' = [s4 EXCEPT ![t] = <<what>>] /\ s6' = [s6 EXCEPT ![t] = s1.models]
    BY <2>1 DEF Models!AskAdapter, Models!Begin, Models!Go
  <2>3. /\ DOMAIN s4' = ModelThreads /\ DOMAIN s5' = ModelThreads /\ DOMAIN s6' = ModelThreads
        /\ \A u \in ModelThreads \ {t} : s4'[u] = s4[u] /\ s5'[u] = s5[u] /\ s6'[u] = s6[u]
        /\ s6'[t] \in [ModelNames -> Models!Records] /\ s4'[t][1] # "disable"
    BY <1>1, <2>2 DEF Models!ModelsTypeOK
  <2> QED
    BY <2>2, <2>3, AsideKeeps
<1>3. CASE Models!AdapterFails(t) \/ Models!SaveFails(t)
  <2>1. s3' = [s3 EXCEPT ![t] = "idle"] /\ UNCHANGED <<s1, s2, s8, s9>>
    BY <1>3 DEF Models!AdapterFails, Models!SaveFails, Models!Forget, Models!Go
  <2>2. /\ DOMAIN s4' = ModelThreads /\ DOMAIN s5' = ModelThreads /\ DOMAIN s6' = ModelThreads
        /\ \A u \in ModelThreads \ {t} : s4'[u] = s4[u] /\ s5'[u] = s5[u] /\ s6'[u] = s6[u]
    BY <1>1, <1>3 DEF Models!AdapterFails, Models!SaveFails, Models!Forget, Models!ModelsTypeOK
  <2> QED
    BY <2>1, <2>2, AsideKeeps
<1> QED
  BY <1>2, <1>3

LEMMA CopyKeeps ==
    ASSUME Models!ModelsInv, NEW t \in ModelThreads, Models!Copy(t) \/ Models!Save(t)
    PROVE  Models!ModelsInv'
<1>1. Models!ModelsTypeOK
  BY DEF Models!ModelsInv
<1>2. PICK place \in {"save", "install"} :
        /\ s3' = [s3 EXCEPT ![t] = place] /\ s3[t] \in Models!Saving
        /\ UNCHANGED <<s1, s4, s6, s8, s9>>
        /\ place = "save" => s5' = [s5 EXCEPT ![t] = s1] /\ s2' = s2
        /\ place = "install" => s3[t] = "save" /\ s5' = s5 /\ s2' = s5[t]
  BY DEF Models!Copy, Models!Save, Models!Go, Models!Saving
<1>3. /\ s3'[t] = place /\ place \in Models!Saving
      /\ \A u \in ModelThreads \ {t} : s3'[u] = s3[u] /\ s5'[u] = s5[u]
      /\ s3[t] = "save" => s5[t] \in Models!States
      /\ s5'[t] \in Models!States /\ (place = "save" => s5'[t] = s1) /\ DOMAIN s5' = ModelThreads
  BY <1>1, <1>2 DEF Models!ModelsTypeOK, Models!Saving
<1>4. Models!ModelsTypeOK'
  <2>1. /\ s3' \in [ModelThreads -> {"idle", "refresh", "test"} \cup Models!Saving]
        /\ s1' \in Models!States /\ s2' \in Models!States
    BY <1>1, <1>2, <1>3 DEF Models!ModelsTypeOK
  <2>2. ASSUME NEW u \in ModelThreads
        PROVE  /\ s3'[u] \in {"save", "install"} => s5'[u] \in Models!States
               /\ s3'[u] = "refresh" => s6'[u] \in [ModelNames -> Models!Records]
               /\ s3'[u] \in {"refresh", "test"} => s4'[u][1] # "disable"
               /\ s3'[u] \in Models!Saving /\ s4'[u][1] = "disable" => s4'[u][2] \in ModelNames
    <3>1. CASE u = t
      BY <1>1, <1>2, <1>3, <3>1 DEF Models!ModelsTypeOK
    <3>2. CASE u # t
      BY <1>1, <1>2, <1>3, <2>2, <3>2 DEF Models!ModelsTypeOK
    <3> QED
      BY <3>1, <3>2
  <2> QED
    BY <1>1, <1>2, <1>3, <2>1, <2>2 DEF Models!ModelsTypeOK
<1>5. ASSUME ~s9' PROVE Models!SavedAsChanged' /\ Models!OffIsDisabled'
  <2>1. Models!SavedAsChanged /\ Models!OffIsDisabled
    BY <1>2, <1>5 DEF Models!ModelsInv
  <2>2. \A u \in ModelThreads \ {t} : s3'[u] \notin Models!Saving
    BY <1>2, <1>3, <2>1 DEF Models!SavedAsChanged
  <2>3. s3[t] = "save" => s5[t] = s1
    BY <2>1 DEF Models!SavedAsChanged
  <2>4. Models!SavedAsChanged'
    BY <1>2, <1>3, <2>2, <2>3 DEF Models!SavedAsChanged, Models!Saving
  <2>5. s2' = s2 \/ s2' = s1
    BY <1>2, <2>3
  <2>6. Models!OffIsDisabled'
    BY <1>2, <2>1, <2>2, <2>5 DEF Models!OffIsDisabled
  <2> QED
    BY <2>4, <2>6
<1> QED
  BY <1>4, <1>5 DEF Models!ModelsInv

LEMMA InstallKeeps ==
    ASSUME Models!ModelsInv, NEW t \in ModelThreads, Models!Install(t)
    PROVE  Models!ModelsInv'
<1>1. Models!ModelsTypeOK
  BY DEF Models!ModelsInv
<1>2. /\ s3[t] = "install" /\ s3' = [s3 EXCEPT ![t] = "idle"] /\ s1' = s5[t]
      /\ s4' = [s4 EXCEPT ![t] = <<>>] /\ s5' = [s5 EXCEPT ![t] = <<>>]
      /\ s6' = [s6 EXCEPT ![t] = <<>>] /\ UNCHANGED <<s2, s9>>
      /\ s8' = IF s4[t][1] = "disable" THEN s8 \cup {s4[t][2]} ELSE s8
  BY DEF Models!Install, Models!Forget, Models!Go
<1>3. /\ s3'[t] = "idle" /\ s3[t] \in Models!Saving /\ s1' \in Models!States
      /\ \A u \in ModelThreads \ {t} : /\ s3'[u] = s3[u] /\ s4'[u] = s4[u]
                                       /\ s5'[u] = s5[u] /\ s6'[u] = s6[u]
      /\ s8' \subseteq ModelNames
      /\ DOMAIN s4' = ModelThreads /\ DOMAIN s5' = ModelThreads /\ DOMAIN s6' = ModelThreads
  BY <1>1, <1>2 DEF Models!ModelsTypeOK, Models!Saving
<1>4. Models!ModelsTypeOK'
  <2>1. /\ s3' \in [ModelThreads -> {"idle", "refresh", "test"} \cup Models!Saving]
    BY <1>1, <1>2 DEF Models!ModelsTypeOK
  <2>2. ASSUME NEW u \in ModelThreads
        PROVE  /\ s3'[u] \in {"save", "install"} => s5'[u] \in Models!States
               /\ s3'[u] = "refresh" => s6'[u] \in [ModelNames -> Models!Records]
               /\ s3'[u] \in {"refresh", "test"} => s4'[u][1] # "disable"
               /\ s3'[u] \in Models!Saving /\ s4'[u][1] = "disable" => s4'[u][2] \in ModelNames
    <3>1. CASE u = t
      BY <1>3, <3>1 DEF Models!Saving
    <3>2. CASE u # t
      BY <1>1, <1>3, <2>2, <3>2 DEF Models!ModelsTypeOK
    <3> QED
      BY <3>1, <3>2
  <2> QED
    BY <1>1, <1>2, <1>3, <2>1, <2>2 DEF Models!ModelsTypeOK
<1>5. ASSUME ~s9' PROVE Models!SavedAsChanged' /\ Models!OffIsDisabled'
  <2>1. Models!SavedAsChanged /\ Models!OffIsDisabled
    BY <1>2, <1>5 DEF Models!ModelsInv
  <2>2. \A u \in ModelThreads : s3'[u] \notin Models!Saving
    BY <1>3, <2>1 DEF Models!SavedAsChanged, Models!Saving
  <2>3. s1' = s1 /\ s2' = s1
    BY <1>2, <2>1 DEF Models!SavedAsChanged
  <2>4. Models!SavedAsChanged'
    BY <2>2 DEF Models!SavedAsChanged, Models!Saving
  <2>5. ASSUME NEW m \in s8' PROVE Models!Disabled(s1, m)
    BY <1>2, <1>3, <2>1, <2>5 DEF Models!OffIsDisabled
  <2>6. Models!OffIsDisabled'
    BY <2>2, <2>3, <2>5 DEF Models!OffIsDisabled
  <2> QED
    BY <2>4, <2>6
<1> QED
  BY <1>4, <1>5 DEF Models!ModelsInv

LEMMA RestartModels ==
    ASSUME Models!ModelsInv, Models!Restart
    PROVE  Models!ModelsInv'
<1>1. Models!ModelsTypeOK
  BY DEF Models!ModelsInv
<1>2. /\ s1' = s2 /\ s3' = [t \in ModelThreads |-> "idle"]
      /\ s4' = [t \in ModelThreads |-> <<>>] /\ s5' = [t \in ModelThreads |-> <<>>]
      /\ s6' = [t \in ModelThreads |-> <<>>] /\ UNCHANGED <<s2, s8, s9>>
  BY DEF Models!Restart
<1>3. \A t \in ModelThreads : s3'[t] = "idle" /\ s3'[t] \notin Models!Saving
  BY <1>2 DEF Models!Saving
<1>4. Models!ModelsTypeOK'
  BY <1>1, <1>2, <1>3 DEF Models!ModelsTypeOK
<1>5. Models!SavedAsChanged'
  BY <1>3 DEF Models!SavedAsChanged
<1>6. ~s9' => Models!OffIsDisabled'
  BY <1>2, <1>3 DEF Models!OffIsDisabled, Models!ModelsInv
<1> QED
  BY <1>4, <1>5, <1>6 DEF Models!ModelsInv

LEMMA ModelsKeep ==
    ASSUME Models!ModelsInv, Models!Next \/ UNCHANGED Models!vars
    PROVE  Models!ModelsInv'
<1>1. CASE UNCHANGED Models!vars
  BY <1>1 DEF Models!vars, Models!ModelsInv, Models!ModelsTypeOK, Models!SavedAsChanged, Models!OffIsDisabled
<1>2. ASSUME NEW t \in ModelThreads, Models!Step(t) PROVE Models!ModelsInv'
  BY <1>2, ModelChangesKeep, OtherChangesKeep, RefreshKeeps, AsideStep, CopyKeeps, InstallKeeps
     DEF Models!Step
<1> QED
  BY <1>1, <1>2, RestartModels DEF Models!Next

(* The model a chain is asked for is selectable, or there is none.           *)
LEMMA ChosenIs ==
    ASSUME Models!ModelsTypeOK, NEW tried
    PROVE  \/ Models!Chosen(tried) = Models!NoModel
           \/ Models!Selectable(Models!Chosen(tried))
<1> DEFINE usable == {i \in DOMAIN s1.chain :
                        Models!Selectable(s1.chain[i]) /\ s1.chain[i] \notin tried}
<1>1. s1.chain \in Chains \cup {<<>>}
  BY DEF Models!ModelsTypeOK, Models!States
<1>2. s1.chain \in Seq(ModelNames)
  <2>1. <<>> \in Seq(ModelNames)
    OBVIOUS
  <2>2. Chains \subseteq Seq(ModelNames)
    BY Zenon, ModelsAssumption
  <2> QED
    BY <1>1, <2>1, <2>2
<1>3. DOMAIN s1.chain \subseteq Nat
  BY <1>2
<1>4. CASE usable = {}
  BY <1>4 DEF Models!Chosen
<1>5. CASE usable # {}
  <2> DEFINE i == CHOOSE i \in usable : \A j \in usable : i <= j
  <2>1. usable \subseteq Nat
    BY <1>3
  <2>2. \E k \in usable : \A j \in usable : k <= j
    <3> HIDE DEF usable
    <3> QED
      BY <1>5, <2>1, SmallestThereIs
  <2>3. i \in usable
    <3> HIDE DEF usable
    <3> QED
      BY <2>2
  <2>4. Models!Chosen(tried) = s1.chain[i]
    BY <1>5 DEF Models!Chosen
  <2> HIDE DEF i
  <2> QED
    BY <2>3, <2>4
<1> QED
  BY <1>4, <1>5

(* A model that was disabled is not chosen unless two changes crossed: for   *)
(* any threads, models and chains.                                           *)
THEOREM DisabledStaysOut == AnySpec => []DisabledIsNotChosen
<1> DEFINE Inv == component = "models" => Models!ModelsInv
<1>1. AnyInit => Inv
  BY ModelsBegin DEF AnyInit
<1>2. Inv /\ [AnyNext]_AnyVars => Inv'
  BY Selected, ModelsKeep
<1>3. Inv => DisabledIsNotChosen
  <2> SUFFICES ASSUME Models!ModelsInv, ~s9 PROVE Models!DisabledIsNotChosen
    BY DEF DisabledIsNotChosen, Models!DisabledIsNotChosen
  <2>1. Models!ModelsTypeOK /\ s8 \subseteq ModelNames /\ \A m \in s8 : Models!Disabled(s1, m)
    BY DEF Models!ModelsInv, Models!ModelsTypeOK, Models!OffIsDisabled
  <2>2. \A m \in s8 : m # Models!NoModel /\ ~Models!Selectable(m)
    BY <2>1, ModelsAssumption DEF Models!Disabled, Models!Selectable
  <2>3. \A tried : Models!Chosen(tried) \notin s8
    BY <2>1, <2>2, ChosenIs
  <2> QED
    BY <2>3 DEF Models!DisabledIsNotChosen, Models!SelectModel, Models!SelectFallback
<1> QED
  BY <1>1, <1>2, <1>3, PTL DEF AnySpec, AnyVars

-----------------------------------------------------------------------------
(* Providers of capabilities; s1 registered, s2 state, s3 failures, s4 pc,   *)
(* s5 left, s6 asked, s8 out, s9 reopened, s10 late, s11 passed.             *)

(* Of some providers one goes first, and it is a native one if any is.       *)
LEMMA FirstOf ==
    ASSUME NEW S, S \subseteq Providers, S # {}
    PROVE  \E p \in S : \A q \in S : Routing!Sooner(p, q)
<1> DEFINE L == IF S \cap Native = {} THEN S ELSE S \cap Native
           ranks == {Rank[p] : p \in L}
<1>1. L \subseteq S /\ L # {} /\ (L \subseteq Native \/ S \cap Native = {})
  OBVIOUS
<1>2. \A q \in S \ L : L \subseteq Native /\ q \notin Native
  OBVIOUS
<1> HIDE DEF L
<1>3. ranks \subseteq Nat /\ ranks # {}
  BY <1>1, RoutingAssumption
<1>4. PICK p \in L : \A r \in ranks : Rank[p] <= r
  <2>1. \E x \in ranks : \A y \in ranks : x <= y
    <3> HIDE DEF ranks
    <3> QED
      BY <1>3, SmallestThereIs
  <2> QED
    BY <2>1
<1>5. ASSUME NEW q \in S PROVE Routing!Sooner(p, q)
  <2>1. CASE q \in L
    BY <1>1, <1>4, <2>1 DEF Routing!Sooner
  <2>2. CASE q \notin L
    BY <1>2, <2>2 DEF Routing!Sooner
  <2> QED
    BY <2>1, <2>2
<1> QED
  BY <1>1, <1>5

LEMMA TryingOne ==
    ASSUME NEW t, s5[t] \subseteq Providers, s5[t] # {}
    PROVE  /\ Routing!Trying(t) \in s5[t]
           /\ \A q \in s5[t] : Routing!Sooner(Routing!Trying(t), q)
BY FirstOf DEF Routing!Trying

(* A call whose providers stay the same goes on with the same one.           *)
LEMMA TryingSame ==
    ASSUME NEW t, s5'[t] = s5[t]
    PROVE  Routing!Trying(t)' = Routing!Trying(t)
BY DEF Routing!Trying

LEMMA RoutingBegins == Routing!Init => Routing!RoutingInv
BY RoutingAssumption DEF Routing!Init, Routing!RoutingInv, Routing!RoutingTypeOK,
                         Routing!Counted, Routing!StaysOut, Routing!Served

LEMMA RegistrationKeeps ==
    ASSUME Routing!RoutingInv,
           UNCHANGED <<s2, s3, s4, s5, s6, s8, s9, s10, s11>>,
           s1' \subseteq Providers
    PROVE  Routing!RoutingInv'
<1>1. \A t : Routing!Trying(t)' = Routing!Trying(t)
  BY TryingSame
<1>2. Routing!RoutingTypeOK' /\ \A t \in RoutedCalls : Routing!Served(t)'
  BY DEF Routing!RoutingInv, Routing!RoutingTypeOK, Routing!Served
<1>3. Routing!StaysOut'
  BY <1>1 DEF Routing!RoutingInv, Routing!StaysOut
<1>4. ASSUME NEW p \in Providers PROVE Routing!Counted(p)'
  BY <1>1, <1>4 DEF Routing!RoutingInv, Routing!Counted
<1> QED
  BY <1>2, <1>3, <1>4 DEF Routing!RoutingInv

(* A call that begins, or looks at the health of the provider it tries.      *)
LEMMA CallBegins ==
    ASSUME Routing!RoutingInv, NEW t \in RoutedCalls, NEW c \in Capabilities, Routing!Begin(t, c)
    PROVE  Routing!RoutingInv'
<1> USE DEF Routing!RoutingInv
<1>1. /\ s4[t] = "idle" /\ s4' = [s4 EXCEPT ![t] = "execute"]
      /\ s5' = [s5 EXCEPT ![t] = Routing!Available(c)]
      /\ s6' = [s6 EXCEPT ![t] = c]
      /\ s11' = [s11 EXCEPT ![t] = {p \in Providers : c \in Provides[p]} \ Routing!Available(c)]
      /\ Routing!Available(c) # {} /\ UNCHANGED <<s1, s2, s3, s8, s9, s10>>
  BY DEF Routing!Begin, Routing!Go, Routing!health_vars, Routing!history_vars
<1>2. Routing!Available(c) \subseteq Providers
  BY DEF Routing!Available, Routing!RoutingTypeOK
<1>3. Routing!RoutingTypeOK'
  BY <1>1, <1>2 DEF Routing!RoutingTypeOK
<1>4. /\ s4'[t] = "execute" /\ s5'[t] = Routing!Available(c) /\ s6'[t] = c
      /\ s11'[t] = {p \in Providers : c \in Provides[p]} \ Routing!Available(c)
      /\ \A u \in RoutedCalls \ {t} : /\ s4'[u] = s4[u] /\ s5'[u] = s5[u]
                                      /\ s6'[u] = s6[u] /\ s11'[u] = s11[u]
  BY <1>1 DEF Routing!RoutingTypeOK
<1>5. \A u \in RoutedCalls \ {t} : Routing!Trying(u)' = Routing!Trying(u)
  BY <1>4, TryingSame
<1>6. Routing!StaysOut'
  BY <1>1, <1>4, <1>5 DEF Routing!StaysOut
<1>7. ASSUME NEW p \in Providers PROVE Routing!Counted(p)'
  BY <1>1, <1>4, <1>5, <1>7 DEF Routing!Counted
<1>8. ASSUME NEW u \in RoutedCalls PROVE Routing!Served(u)'
  <2>1. CASE u = t
    BY <1>1, <1>4, <2>1 DEF Routing!Served
  <2>2. CASE u # t
    BY <1>4, <1>8, <2>2 DEF Routing!Served
  <2> QED
    BY <2>1, <2>2
<1> QED
  BY <1>3, <1>6, <1>7, <1>8

(* Where a step leaves the providers and the capability of every call alone  *)
(* but for those of a call that returns.                                     *)
LEMMA CallsStay ==
    ASSUME Routing!RoutingInv, NEW t \in RoutedCalls, NEW place,
           s4' = [s4 EXCEPT ![t] = place],
           s4[t] # "idle",
           place = "idle" \/ UNCHANGED <<s5, s6, s11>>,
           place # "idle" \/ Routing!Return(t)
    PROVE  /\ s4'[t] = place
           /\ \A u \in RoutedCalls \ {t} : s4'[u] = s4[u] /\ Routing!Trying(u)' = Routing!Trying(u)
           /\ place # "idle" => Routing!Trying(t)' = Routing!Trying(t)
           /\ s5' \in [RoutedCalls -> SUBSET Providers] /\ DOMAIN s6' = RoutedCalls
           /\ s11' \in [RoutedCalls -> SUBSET Providers]
           /\ \A u \in RoutedCalls : Routing!Served(u)'
<1> USE DEF Routing!RoutingInv
<1>1. CASE place = "idle"
  <2>1. /\ s5' = [s5 EXCEPT ![t] = {}] /\ s6' = [s6 EXCEPT ![t] = Routing!NoCapability]
        /\ s11' = [s11 EXCEPT ![t] = {}]
    BY <1>1 DEF Routing!Return, Routing!Go
  <2>2. /\ s5' \in [RoutedCalls -> SUBSET Providers] /\ DOMAIN s6' = RoutedCalls
        /\ s11' \in [RoutedCalls -> SUBSET Providers] /\ s4'[t] = "idle"
        /\ \A u \in RoutedCalls \ {t} : /\ s4'[u] = s4[u] /\ s5'[u] = s5[u]
                                        /\ s6'[u] = s6[u] /\ s11'[u] = s11[u]
    BY <1>1, <2>1 DEF Routing!RoutingTypeOK
  <2>3. \A u \in RoutedCalls : Routing!Served(u)'
    BY <2>2 DEF Routing!Served
  <2> QED
    BY <1>1, <2>2, <2>3, TryingSame
<1>2. CASE place # "idle"
  <2>1. UNCHANGED <<s5, s6, s11>> /\ s4'[t] = place /\ \A u \in RoutedCalls \ {t} : s4'[u] = s4[u]
    BY <1>2 DEF Routing!RoutingTypeOK
  <2>2. \A u : Routing!Trying(u)' = Routing!Trying(u)
    BY <2>1, TryingSame
  <2>3. ASSUME NEW u \in RoutedCalls PROVE Routing!Served(u)'
    BY <2>1, <2>3 DEF Routing!Served
  <2> QED
    BY <2>1, <2>2, <2>3 DEF Routing!RoutingTypeOK
<1> QED
  BY <1>1, <1>2

LEMMA SuccessKeeps ==
    ASSUME Routing!RoutingInv, NEW t \in RoutedCalls,
           Routing!ResetFailures(t) \/ Routing!LookIsolated(t) \/ Routing!RecordSuccess(t)
    PROVE  Routing!RoutingInv'
<1> DEFINE q == Routing!Trying(t)
<1>0. /\ Routing!RoutingTypeOK /\ Routing!StaysOut /\ \A p \in Providers : Routing!Counted(p)
      /\ s4[t] # "idle" => q \in Providers
  BY TryingOne DEF Routing!RoutingInv, Routing!Served, Routing!RoutingTypeOK
<1>1. CASE Routing!ResetFailures(t)
  <2>1. /\ s4[t] = "execute" /\ s3' = [s3 EXCEPT ![q] = 0] /\ s4' = [s4 EXCEPT ![t] = "answered"]
        /\ UNCHANGED <<s1, s2, s5, s6, s8, s9, s10, s11>>
    BY <1>1 DEF Routing!ResetFailures, Routing!history_vars
  <2>2. /\ s4'[t] = "answered"
        /\ \A u \in RoutedCalls \ {t} : s4'[u] = s4[u] /\ Routing!Trying(u)' = Routing!Trying(u)
        /\ \A u \in RoutedCalls : Routing!Served(u)'
    BY <2>1, CallsStay
  <2> HIDE DEF q
  <2>3. Routing!RoutingTypeOK' /\ s3'[q] = 0 /\ \A p \in Providers \ {q} : s3'[p] = s3[p]
    BY <1>0, <2>1 DEF Routing!RoutingTypeOK
  <2>4. Routing!StaysOut'
    BY <1>0, <2>1, <2>2 DEF Routing!StaysOut
  <2>5. ASSUME NEW p \in Providers PROVE Routing!Counted(p)'
    BY <1>0, <2>1, <2>2, <2>3, <2>5, RoutingAssumption DEF Routing!Counted
  <2> QED
    BY <2>2, <2>3, <2>4, <2>5 DEF Routing!RoutingInv
<1>2. CASE Routing!LookIsolated(t)
  <2>1. PICK place \in {"idle", "well"} :
          /\ s4' = [s4 EXCEPT ![t] = place]
          /\ place = "idle" => Routing!Return(t)
          /\ place = "well" => s2[q] # "isolated" /\ UNCHANGED <<s5, s6, s11>>
    BY <1>2 DEF Routing!LookIsolated, Routing!Return, Routing!Go
  <2>2. s4[t] = "answered" /\ UNCHANGED <<s1, s2, s3, s8, s9, s10>>
    BY <1>2 DEF Routing!LookIsolated, Routing!health_vars, Routing!history_vars
  <2>3. /\ s4'[t] = place
        /\ \A u \in RoutedCalls \ {t} : s4'[u] = s4[u] /\ Routing!Trying(u)' = Routing!Trying(u)
        /\ place # "idle" => Routing!Trying(t)' = q
        /\ s5' \in [RoutedCalls -> SUBSET Providers] /\ DOMAIN s6' = RoutedCalls
        /\ s11' \in [RoutedCalls -> SUBSET Providers]
        /\ \A u \in RoutedCalls : Routing!Served(u)'
    BY <2>1, <2>2, CallsStay
  <2> HIDE DEF q
  <2>4. Routing!RoutingTypeOK'
    BY <1>0, <2>1, <2>2, <2>3 DEF Routing!RoutingTypeOK
  <2>5. Routing!StaysOut'
    BY <1>0, <2>1, <2>2, <2>3 DEF Routing!StaysOut
  <2>6. ASSUME NEW p \in Providers PROVE Routing!Counted(p)'
    BY <1>0, <2>2, <2>3, <2>6 DEF Routing!Counted
  <2> QED
    BY <2>3, <2>4, <2>5, <2>6 DEF Routing!RoutingInv
<1>3. CASE Routing!RecordSuccess(t)
  <2>1. /\ s4[t] = "well" /\ s4' = [s4 EXCEPT ![t] = "idle"] /\ Routing!Return(t)
        /\ s2' = [s2 EXCEPT ![q] = "healthy"]
        /\ s9' = IF t \in s10 THEN s9 \cup {q} ELSE s9
        /\ s10' = s10 \ {t} /\ UNCHANGED <<s1, s3, s8>>
    BY <1>3 DEF Routing!RecordSuccess, Routing!Return, Routing!Go
  <2>2. /\ s4'[t] = "idle"
        /\ \A u \in RoutedCalls \ {t} : s4'[u] = s4[u] /\ Routing!Trying(u)' = Routing!Trying(u)
        /\ s5' \in [RoutedCalls -> SUBSET Providers] /\ DOMAIN s6' = RoutedCalls
        /\ s11' \in [RoutedCalls -> SUBSET Providers]
        /\ \A u \in RoutedCalls : Routing!Served(u)'
    BY <2>1, CallsStay
  <2>q. q \in Providers /\ (t \in s10 \/ q \notin s8 \ s9)
    BY <1>0, <2>1 DEF Routing!StaysOut
  <2> HIDE DEF q
  <2>3. Routing!RoutingTypeOK' /\ s2'[q] = "healthy" /\ \A p \in Providers \ {q} : s2'[p] = s2[p]
    BY <1>0, <2>1, <2>2, <2>q DEF Routing!RoutingTypeOK
  <2>4. Routing!StaysOut'
    BY <1>0, <2>1, <2>2, <2>3, <2>q DEF Routing!StaysOut
  <2>5. ASSUME NEW p \in Providers PROVE Routing!Counted(p)'
    <3>1. CASE p = q
      <4>1. s2[p] = "isolated" => p \in s8
        BY <1>0, <2>5 DEF Routing!StaysOut
      <4> QED
        BY <1>0, <2>1, <2>2, <2>q, <2>5, <3>1, <4>1 DEF Routing!Counted
    <3>2. CASE p # q
      BY <1>0, <2>1, <2>2, <2>3, <2>5, <3>2 DEF Routing!Counted
    <3> QED
      BY <3>1, <3>2
  <2> QED
    BY <2>2, <2>3, <2>4, <2>5 DEF Routing!RoutingInv
<1> QED
  BY <1>1, <1>2, <1>3

LEMMA FailureKeeps ==
    ASSUME Routing!RoutingInv, NEW t \in RoutedCalls,
           Routing!CountFailure(t) \/ Routing!RecordFailure(t)
    PROVE  Routing!RoutingInv'
<1> DEFINE q == Routing!Trying(t)
<1>0. /\ Routing!RoutingTypeOK /\ Routing!StaysOut /\ \A p \in Providers : Routing!Counted(p)
      /\ \A u \in RoutedCalls : Routing!Served(u)
      /\ s4[t] # "idle" => q \in Providers /\ q \in s5[t]
  BY TryingOne DEF Routing!RoutingInv, Routing!Served, Routing!RoutingTypeOK
<1>1. CASE Routing!CountFailure(t)
  <2>1. /\ s4[t] = "execute" /\ s3' = [s3 EXCEPT ![q] = @ + 1] /\ s4' = [s4 EXCEPT ![t] = "failed"]
        /\ UNCHANGED <<s1, s2, s5, s6, s8, s9, s10, s11>>
    BY <1>1 DEF Routing!CountFailure, Routing!history_vars
  <2>2. /\ s4'[t] = "failed" /\ Routing!Trying(t)' = q
        /\ \A u \in RoutedCalls \ {t} : s4'[u] = s4[u] /\ Routing!Trying(u)' = Routing!Trying(u)
        /\ \A u \in RoutedCalls : Routing!Served(u)'
    BY <2>1, CallsStay
  <2> HIDE DEF q
  <2>3. Routing!RoutingTypeOK' /\ \A p \in Providers \ {q} : s3'[p] = s3[p]
    BY <1>0, <2>1 DEF Routing!RoutingTypeOK
  <2>4. Routing!StaysOut'
    BY <1>0, <2>1, <2>2 DEF Routing!StaysOut
  <2>5. ASSUME NEW p \in Providers PROVE Routing!Counted(p)'
    BY <1>0, <2>1, <2>2, <2>3, <2>5 DEF Routing!Counted
  <2> QED
    BY <2>2, <2>3, <2>4, <2>5 DEF Routing!RoutingInv
<1>2. CASE Routing!RecordFailure(t)
  <2> DEFINE new == IF s3[q] >= Threshold THEN "isolated" ELSE "degraded"
  <2>1. /\ s4[t] = "failed" /\ s2' = [s2 EXCEPT ![q] = new] /\ UNCHANGED <<s1, s3>>
        /\ \/ /\ new = "isolated" /\ s8' = s8 \cup {q} /\ s9' = s9 \ {q}
              /\ s10' = s10 \cup Routing!About(q)
           \/ /\ new # "isolated" /\ UNCHANGED <<s8, s10>>
              /\ s9' = IF s2[q] = "isolated" THEN s9 \cup {q} ELSE s9
        /\ \/ Routing!Return(t)
           \/ /\ s5[t] # {q} /\ UNCHANGED s6 /\ s4' = [s4 EXCEPT ![t] = "execute"]
              /\ s5' = [s5 EXCEPT ![t] = s5[t] \ {q}]
              /\ s11' = [s11 EXCEPT ![t] = @ \cup {q}]
    BY <1>2 DEF Routing!RecordFailure, Routing!Go
  <2>2. /\ s4'[t] \in {"idle", "execute"} /\ s4' \in [RoutedCalls -> {"idle", "execute", "answered", "well", "failed"}]
        /\ \A u \in RoutedCalls \ {t} : s4'[u] = s4[u] /\ Routing!Trying(u)' = Routing!Trying(u)
        /\ s5' \in [RoutedCalls -> SUBSET Providers] /\ DOMAIN s6' = RoutedCalls
        /\ s11' \in [RoutedCalls -> SUBSET Providers]
        /\ \A u \in RoutedCalls : Routing!Served(u)'
    <3>1. CASE Routing!Return(t)
      <4>1. s4' = [s4 EXCEPT ![t] = "idle"]
        BY <3>1 DEF Routing!Return, Routing!Go
      <4>2. /\ s4'[t] = "idle"
            /\ \A u \in RoutedCalls \ {t} : s4'[u] = s4[u] /\ Routing!Trying(u)' = Routing!Trying(u)
            /\ s5' \in [RoutedCalls -> SUBSET Providers] /\ DOMAIN s6' = RoutedCalls
            /\ s11' \in [RoutedCalls -> SUBSET Providers]
            /\ \A u \in RoutedCalls : Routing!Served(u)'
        BY <2>1, <3>1, <4>1, CallsStay
      <4> QED
        BY <1>0, <4>1, <4>2 DEF Routing!RoutingTypeOK
    <3>2. CASE ~Routing!Return(t)
      <4>1. /\ s5[t] # {q} /\ UNCHANGED s6 /\ s4' = [s4 EXCEPT ![t] = "execute"]
            /\ s5' = [s5 EXCEPT ![t] = s5[t] \ {q}]
            /\ s11' = [s11 EXCEPT ![t] = s11[t] \cup {q}]
        BY <2>1, <3>2
      <4> HIDE DEF q, new
      <4>2. /\ s4'[t] = "execute" /\ s5'[t] = s5[t] \ {q} /\ s11'[t] = s11[t] \cup {q} /\ s6'[t] = s6[t]
            /\ \A u \in RoutedCalls \ {t} : s4'[u] = s4[u] /\ s5'[u] = s5[u] /\ s11'[u] = s11[u] /\ s6'[u] = s6[u]
            /\ s5' \in [RoutedCalls -> SUBSET Providers] /\ DOMAIN s6' = RoutedCalls
            /\ s11' \in [RoutedCalls -> SUBSET Providers]
            /\ s4' \in [RoutedCalls -> {"idle", "execute", "answered", "well", "failed"}]
        BY <1>0, <2>1, <4>1 DEF Routing!RoutingTypeOK
      <4>3. ASSUME NEW u \in RoutedCalls PROVE Routing!Served(u)'
        BY <1>0, <2>1, <4>1, <4>2, <4>3 DEF Routing!Served
      <4> QED
        BY <4>2, <4>3, TryingSame
    <3> QED
      BY <3>1, <3>2
  <2>q. /\ q \in Providers /\ new \in {"isolated", "degraded"}
        /\ (new # "isolated" => ~(s3[q] >= Threshold))
        /\ \A u \in RoutedCalls : s4[u] = "well" /\ Routing!Trying(u) = q /\ new = "isolated" => u \in s10'
        /\ s10' \subseteq RoutedCalls /\ s10 \subseteq s10'
    BY <1>0, <2>1 DEF Routing!About, Routing!RoutingTypeOK
  <2> HIDE DEF q, new
  <2>r. /\ s8' \subseteq Providers /\ s9' \subseteq Providers
        /\ s2' = [s2 EXCEPT ![q] = new] /\ UNCHANGED <<s1, s3>>
        /\ \A p \in s9 : p \in s9' \/ (p = q /\ new = "isolated")
    BY <1>0, <2>1, <2>q DEF Routing!RoutingTypeOK
  <2>3. Routing!RoutingTypeOK' /\ s2'[q] = new /\ \A p \in Providers \ {q} : s2'[p] = s2[p]
    BY <1>0, <2>2, <2>q, <2>r DEF Routing!RoutingTypeOK
  <2>4. Routing!StaysOut'
    <3>1. ASSUME NEW p \in Providers
          PROVE  (p \in s8' \ s9' => s2'[p] = "isolated") /\ (s2'[p] = "isolated" => p \in s8')
      BY <1>0, <2>1, <2>3, <2>q, <3>1 DEF Routing!StaysOut
    <3>2. ASSUME NEW u \in RoutedCalls \ s10', s4'[u] = "well"
          PROVE  Routing!Trying(u)' \notin s8' \ s9'
      BY <1>0, <2>1, <2>2, <2>q, <3>2 DEF Routing!StaysOut
    <3> QED
      BY <3>1, <3>2 DEF Routing!StaysOut
  <2>5. ASSUME NEW p \in Providers PROVE Routing!Counted(p)'
    <3>1. CASE p = q
      BY <2>3, <2>q, <2>r, <3>1 DEF Routing!Counted
    <3>2. CASE p # q
      <4>1. \A u \in RoutedCalls : s4[u] = "failed" /\ Routing!Trying(u) = p => u # t
        BY <3>2 DEF q
      <4> QED
        BY <1>0, <2>2, <2>3, <2>r, <2>5, <3>2, <4>1 DEF Routing!Counted
    <3> QED
      BY <3>1, <3>2
  <2> QED
    BY <2>2, <2>3, <2>4, <2>5 DEF Routing!RoutingInv
<1> QED
  BY <1>1, <1>2

LEMMA IsolationKeeps ==
    ASSUME Routing!RoutingInv, NEW q \in Providers, Routing!Isolate(q)
    PROVE  Routing!RoutingInv'
<1>0. /\ Routing!RoutingTypeOK /\ Routing!StaysOut /\ \A p \in Providers : Routing!Counted(p)
      /\ \A u \in RoutedCalls : Routing!Served(u)
  BY DEF Routing!RoutingInv
<1>1. /\ s2' = [s2 EXCEPT ![q] = "isolated"] /\ s8' = s8 \cup {q} /\ s9' = s9 \ {q}
      /\ s10' = s10 \cup Routing!About(q) /\ UNCHANGED <<s1, s3, s4, s5, s6, s11>>
  BY DEF Routing!Isolate, Routing!call_vars
<1>2. /\ \A u : Routing!Trying(u)' = Routing!Trying(u)
      /\ s10' \subseteq RoutedCalls /\ s10 \subseteq s10'
      /\ \A u \in RoutedCalls : s4[u] = "well" /\ Routing!Trying(u) = q => u \in s10'
  BY <1>0, <1>1, TryingSame DEF Routing!About, Routing!RoutingTypeOK
<1>3. Routing!RoutingTypeOK' /\ s2'[q] = "isolated" /\ \A p \in Providers \ {q} : s2'[p] = s2[p]
  BY <1>0, <1>1, <1>2 DEF Routing!RoutingTypeOK
<1>4. Routing!StaysOut'
  BY <1>0, <1>1, <1>2, <1>3 DEF Routing!StaysOut
<1>5. ASSUME NEW p \in Providers PROVE Routing!Counted(p)'
  BY <1>0, <1>1, <1>2, <1>3, <1>5 DEF Routing!Counted
<1>6. \A u \in RoutedCalls : Routing!Served(u)'
  BY <1>0, <1>1 DEF Routing!Served
<1> QED
  BY <1>3, <1>4, <1>5, <1>6 DEF Routing!RoutingInv

LEMMA RoutingKeeps ==
    ASSUME Routing!RoutingInv, Routing!Next \/ UNCHANGED Routing!vars
    PROVE  Routing!RoutingInv'
<1>1. CASE UNCHANGED Routing!vars
  BY <1>1, RegistrationKeeps DEF Routing!vars, Routing!health_vars, Routing!call_vars,
     Routing!history_vars, Routing!RoutingInv, Routing!RoutingTypeOK
<1>2. ASSUME NEW p \in Providers, Routing!Register(p) \/ Routing!Isolate(p)
      PROVE  Routing!RoutingInv'
  <2>1. CASE Routing!Register(p)
    BY <2>1, RegistrationKeeps DEF Routing!Register, Routing!health_vars, Routing!call_vars,
       Routing!history_vars, Routing!RoutingInv, Routing!RoutingTypeOK
  <2> QED
    BY <1>2, <2>1, IsolationKeeps
<1>3. ASSUME NEW t \in RoutedCalls,
             \/ Routing!ResetFailures(t) \/ Routing!LookIsolated(t) \/ Routing!RecordSuccess(t)
             \/ Routing!CountFailure(t) \/ Routing!RecordFailure(t)
             \/ \E c \in Capabilities : Routing!Begin(t, c)
      PROVE  Routing!RoutingInv'
  BY <1>3, SuccessKeeps, FailureKeeps, CallBegins
<1>4. ASSUME NEW c \in Capabilities, Routing!DetectGap(c) PROVE Routing!RoutingInv'
  BY <1>4, RegistrationKeeps DEF Routing!DetectGap, Routing!health_vars, Routing!call_vars,
     Routing!history_vars, Routing!RoutingInv, Routing!RoutingTypeOK
<1> QED
  BY <1>1, <1>2, <1>3, <1>4 DEF Routing!Next

(* A provider whose failures in a row have reached the threshold is          *)
(* isolated, one that was isolated stays so, and external providers are the  *)
(* last resort, but for calls in flight: for any providers and calls.        *)
THEOREM IsolatedStaysOut == AnySpec => []CircuitStaysOpen
<1> DEFINE Inv == component = "routing" => Routing!RoutingInv
<1>1. AnyInit => Inv
  BY RoutingBegins DEF AnyInit
<1>2. Inv /\ [AnyNext]_AnyVars => Inv'
  BY Selected, RoutingKeeps
<1>3. Inv => CircuitStaysOpen
  <2> SUFFICES ASSUME Routing!RoutingInv PROVE Routing!CircuitStaysOpen
    BY DEF CircuitStaysOpen
  <2>1. ASSUME NEW t \in RoutedCalls, s4[t] # "idle", Routing!Trying(t) \notin Native,
               NEW p \in Native, s6[t] \in Provides[p]
        PROVE  p \in s11[t]
    <3>1. s5[t] \subseteq Providers /\ s5[t] # {} /\ p \in s5[t] \cup s11[t]
      BY <2>1, RoutingAssumption DEF Routing!RoutingInv, Routing!RoutingTypeOK, Routing!Served
    <3>2. \A r \in s5[t] : Routing!Sooner(Routing!Trying(t), r)
      BY <3>1, TryingOne
    <3> QED
      BY <2>1, <3>1, <3>2 DEF Routing!Sooner
  <2>2. ASSUME NEW p \in Providers, s3[p] >= Threshold
        PROVE  \/ s2[p] = "isolated" \/ p \in s9
               \/ \E t \in RoutedCalls : s4[t] = "failed" /\ Routing!Trying(t) = p
    BY <2>2 DEF Routing!RoutingInv, Routing!Counted
  <2>3. ASSUME NEW p \in s8 \ s9 PROVE s2[p] = "isolated"
    BY <2>3 DEF Routing!RoutingInv, Routing!RoutingTypeOK, Routing!StaysOut
  <2> QED
    BY <2>1, <2>2, <2>3 DEF Routing!CircuitStaysOpen
<1> QED
  BY <1>1, <1>2, <1>3, PTL DEF AnySpec, AnyVars
===============================================================================
