--------------------------- MODULE PlaybookProofs ---------------------------
(***************************************************************************)
(* Proofs about PlaybookRuns: the order of the phases is one in which each *)
(* comes after those it depends on, agents start in that order and in time, *)
(* and what the engine and the route report of a run is what happened.     *)
(***************************************************************************)
EXTENDS PlaybookRuns, OrdersProofs

-----------------------------------------------------------------------------
(* The order of the phases *)

IsOrderOf(order, phases) ==
    /\ order \in Seq(DOMAIN phases) /\ Len(order) = Len(phases)
    /\ Elements(order) = DOMAIN phases
    /\ \A i, j \in DOMAIN order : order[i] = order[j] => i = j
    /\ \A j \in DOMAIN order : \A d \in phases[order[j]].deps :
         \E i \in DOMAIN order : i < j /\ order[i] = d

(* getPhaseOrder: every phase once, after those it depends on.              *)
THEOREM PhasesAreOrdered ==
    ASSUME NEW b \in Playbooks
    PROVE  IsOrderOf(GetPhaseOrder(b), b.phases)
<1>1. PICK phases : phases = b.phases
  OBVIOUS
<1>2. /\ phases \in Seq(Phase)
      /\ \A p \in DOMAIN phases : phases[p].deps \subseteq DOMAIN phases
      /\ Acyclic(phases)
  BY <1>1, PlaybookAssumption
<1>3. PICK n \in Nat : n = Len(phases)
  BY <1>2
<1>4. DOMAIN phases = 1..n
  BY <1>2, <1>3
<1> DEFINE S == 1..n
<1>5. PICK ts : ts = [p \in S |-> [id |-> p, needs |-> phases[p].deps]]
  OBVIOUS
<1>6. GetPhaseOrder(b) = PostOrder(ts)
  BY <1>1, <1>4, <1>5 DEF GetPhaseOrder
<1>7. /\ DOMAIN ts = S
      /\ \A p \in S : ts[p].id = p /\ ts[p].needs = phases[p].deps
      /\ \A p \in S : ts[p] \in [id : S, needs : SUBSET S]
  BY <1>2, <1>4, <1>5
<1>8. ts \in TaskLists(S)
  <2>1. PICK R : R = [id : S, needs : SUBSET S]
    OBVIOUS
  <2>2. ts \in [1..n -> R]
    BY <1>5, <1>7, <2>1
  <2>3. \A m \in Nat : \A f \in [1..m -> R] : f \in Seq(R)
    OBVIOUS
  <2>4. QED
    BY <1>3, <2>1, <2>2, <2>3 DEF TaskLists
<1>9. IsFiniteSet(S) /\ Cardinality(S) = n
  <2>1. 1 \in Int /\ n \in Int
    BY <1>3
  <2>2. IsFiniteSet(S) /\ Cardinality(S) = IF 1 > n THEN 0 ELSE n - 1 + 1
    BY <2>1, FS_Interval
  <2>3. QED
    BY <1>3, <2>2
<1> HIDE DEF S
<1>10. Named(ts) = S /\ UniqueIds(ts)
  BY <1>7 DEF Named, UniqueIds
<1>11. ASSUME NEW p \in S PROVE Direct(ts, p) = phases[p].deps
  <2>0. p \in DOMAIN ts /\ UniqueIds(ts) /\ ts \in TaskLists(S)
    BY <1>7, <1>8, <1>10
  <2>1. Direct(ts, ts[p].id) = ts[p].needs \cap Named(ts)
    BY <2>0, DirectIs, Zenon
  <2>2. phases[p].deps \subseteq S
    BY <1>2, <1>4 DEF S
  <2>3. QED
    BY <1>7, <1>10, <2>1, <2>2
<1>12. ASSUME NEW p \in S, Reaches(ts, p, p) PROVE FALSE
  <2> DEFINE T == {q \in S : Reaches(ts, q, p)}
  <2>1. p \in T
    BY <1>12
  <2>2. ASSUME NEW q \in T PROVE phases[q].deps \cap T # {}
    <3>1. PICK d \in Direct(ts, q) : d = p \/ Reaches(ts, d, p)
      BY FirstStep
    <3>2. d \in phases[q].deps /\ d \in S
      BY <1>2, <1>4, <1>11, <3>1 DEF S
    <3>3. d \in T
      BY <2>1, <3>1, <3>2
    <3>4. QED
      BY <3>2, <3>3
  <2>3. T \in SUBSET DOMAIN phases /\ T # {}
    BY <1>4, <2>1 DEF S
  <2>4. QED
    BY <1>2, <2>2, <2>3 DEF Acyclic
<1>13. PICK o : o = PostOrder(ts)
  OBVIOUS
<1>14. /\ o \in Seq(S) /\ Elements(o) = S
       /\ \A i, j \in DOMAIN o : o[i] = o[j] => i = j
       /\ \A j \in DOMAIN o, d \in S :
            Reaches(ts, o[j], d) /\ ~Reaches(ts, o[j], o[j]) => \E i \in DOMAIN o : i < j /\ o[i] = d
  BY <1>8, <1>9, <1>10, <1>13, PostOrderSorts
<1>15. ASSUME NEW j \in DOMAIN o, NEW d \in phases[o[j]].deps
       PROVE  \E i \in DOMAIN o : i < j /\ o[i] = d
  <2>1. o[j] \in S
    BY <1>14 DEF Elements
  <2>2. Reaches(ts, o[j], d) /\ d \in S
    BY <1>2, <1>4, <1>11, <2>1, ReachesDirectly DEF S
  <2>3. ~Reaches(ts, o[j], o[j])
    BY <1>12, <2>1
  <2>4. QED
    BY <1>14, <2>2, <2>3
<1>16. Len(o) = n
  <2>1. PICK m \in Nat : m = Len(o)
    BY <1>14
  <2>2. DOMAIN o = 1..m /\ o \in [1..m -> S]
    BY <1>14, <2>1
  <2>3. o \in Injection(1..m, S)
    BY <1>14, <2>2 DEF Injection, IsInjective
  <2>4. o \in Surjection(1..m, S)
    BY <1>14, <2>2 DEF Surjection, Elements
  <2>5. Cardinality(1..m) = Cardinality(S)
    BY <1>9, <2>3, <2>4, FS_Injection
  <2>6. 1 \in Int /\ m \in Int
    BY <2>1
  <2>7. Cardinality(1..m) = IF 1 > m THEN 0 ELSE m - 1 + 1
    BY <2>6, FS_Interval
  <2>8. QED
    BY <1>3, <1>9, <2>1, <2>5, <2>7
<1>17. QED
  BY <1>1, <1>3, <1>4, <1>6, <1>13, <1>14, <1>15, <1>16 DEF IsOrderOf, S

-----------------------------------------------------------------------------
(* The invariant *)

Places      == {"idle", "refused", "checked", "hooks", "next", "work", "waiting", "landing", "over", "gone"}
PhaseStates == {"pending", "running", "completed", "failed", "skipped"}
AgentStates == {"pending", "running", "completed", "failed", "rejected"}
RunStates   == {"none", "running", "paused", "completed", "failed"}
Ends        == {"landing", "over", "gone"}
Busy        == {"hooks", "next", "work", "waiting", "landing"}

Tables == {t \in [Ids -> UNION {[Slots(p) -> AgentStates] : p \in Ids}] :
             \A p \in Ids : t[p] \in [Slots(p) -> AgentStates]}

Typed ==
    /\ playbook \in Playbooks
    /\ pc \in [Runs -> Places]
    /\ at \in [Runs -> 0..Len(Phases)]
    /\ phase \in [Runs -> [Ids -> PhaseStates]]
    /\ agent \in [Runs -> Tables]
    /\ status \in [Runs -> RunStates]
    /\ aborted \in [Runs -> BOOLEAN]
    /\ gate \in [Runs -> {"none", "gate", "human"}]
    /\ live \in [Runs -> RunStates]
    /\ active \in BOOLEAN

OrderOK == IsOrderOf(phaseOrder, Phases)

(* What a phase has that is behind a run.                                   *)
Behind == {"completed", "skipped"} \cup (IF playbook.skip THEN {"failed"} ELSE {})

(* The agents of a phase that may end as completed.                         *)
Fine(r, p) ==
    /\ AgentsIn(r, p, "running") \cup AgentsIn(r, p, "failed") = {}
    /\ AgentsIn(r, p, "rejected") # {} => Type(p) = "parallel"
    /\ AgentsIn(r, p, "pending") # {} => Type(p) = "handoff"

Past(r) ==
    /\ \A p \in Ids : phase[r][p] = "completed" => Fine(r, p)
    /\ \A k \in 1..at[r] : phase[r][phaseOrder[k]] \in Behind

Now(r) ==
    /\ pc[r] \in {"work", "waiting"} => at[r] < Len(Phases) /\ phase[r][Cur(r)] = "running"
    /\ gate[r] # "none" <=> pc[r] = "waiting"
    /\ pc[r] = "waiting" => Fine(r, Cur(r))

Said(r) ==
    /\ status[r] = "completed" => AllDone(r)
    /\ status[r] = "failed" => aborted[r] \/ \E p \in Ids : phase[r][p] = "failed"
    /\ status[r] \in {"completed", "failed"} => pc[r] \in Ends
    /\ live[r] = "completed" => status[r] = "completed"

RunOK(r) == Past(r) /\ Now(r) /\ Said(r)

(* What a step of run r does to the others, and to the lock.                *)
Rest(r) == \A q \in Runs \ {r} :
    /\ pc'[q] = pc[q] /\ at'[q] = at[q] /\ phase'[q] = phase[q] /\ agent'[q] = agent[q]
    /\ status'[q] = status[q] /\ aborted'[q] = aborted[q] /\ gate'[q] = gate[q] /\ live'[q] = live[q]

Locks(r) == active' => pc'[r] \in Busy \/ (active /\ pc[r] \notin Busy)

Phased(r) ==
    /\ Fixed
    /\ Typed' /\ Rest(r) /\ RunOK(r)' /\ Locks(r)

LEMMA FixedIs ==
    ASSUME Fixed
    PROVE  /\ Phases' = Phases /\ Ids' = Ids /\ Tables' = Tables /\ Behind' = Behind
           /\ phaseOrder' = phaseOrder /\ playbook' = playbook /\ Len(Phases)' = Len(Phases)
           /\ OrderOK => OrderOK'
BY DEF Fixed, Phases, Ids, Tables, Behind, Slots, Type, OrderOK

LEMMA FineKept ==
    ASSUME Fixed, NEW r, NEW p, agent'[r][p] = agent[r][p], Fine(r, p)
    PROVE  Fine(r, p)'
<1>1. \A st : AgentsIn(r, p, st)' = AgentsIn(r, p, st)
  BY DEF Fixed, AgentsIn, Slots, Type, Phases
<1>2. Type(p)' = Type(p)
  BY DEF Fixed, Type, Phases
<1>3. /\ AgentsIn(r, p, "running")' = AgentsIn(r, p, "running")
      /\ AgentsIn(r, p, "failed")' = AgentsIn(r, p, "failed")
      /\ AgentsIn(r, p, "rejected")' = AgentsIn(r, p, "rejected")
      /\ AgentsIn(r, p, "pending")' = AgentsIn(r, p, "pending")
  BY <1>1
<1>4. QED
  BY <1>2, <1>3 DEF Fine

LEMMA OthersKept ==
    ASSUME Fixed, NEW r \in Runs, Rest(r), NEW q \in Runs, q # r, RunOK(q)
    PROVE  RunOK(q)'
<1>1. /\ pc'[q] = pc[q] /\ at'[q] = at[q] /\ phase'[q] = phase[q] /\ agent'[q] = agent[q]
      /\ status'[q] = status[q] /\ aborted'[q] = aborted[q] /\ gate'[q] = gate[q] /\ live'[q] = live[q]
  BY DEF Rest
<1>2. Cur(q)' = Cur(q) /\ Ids' = Ids /\ Len(Phases)' = Len(Phases) /\ Behind' = Behind
      /\ phaseOrder' = phaseOrder
  BY <1>1, FixedIs DEF Cur
<1>3. \A p : Fine(q, p) => Fine(q, p)'
  BY <1>1, FineKept
<1>4. Past(q)'
  BY <1>1, <1>2, <1>3 DEF RunOK, Past
<1>5. Now(q)'
  <2>1. Fine(q, Cur(q)) => Fine(q, Cur(q))'
    <3>1. PICK c : c = Cur(q)
      OBVIOUS
    <3>2. Fine(q, c) => Fine(q, c)'
      BY <1>3
    <3>3. QED
      BY <1>2, <3>1, <3>2 DEF Fine
  <2>2. QED
    BY <1>1, <1>2, <2>1 DEF RunOK, Now
<1>6. Said(q)'
  BY <1>1, <1>2 DEF RunOK, Said, AllDone
<1>7. QED
  BY <1>4, <1>5, <1>6 DEF RunOK

-----------------------------------------------------------------------------
(* Steps from phase to phase *)

LEMMA CurIs ==
    ASSUME Typed, OrderOK, NEW r \in Runs, at[r] < Len(Phases)
    PROVE  /\ at[r] \in Nat /\ Len(Phases) \in Nat /\ at[r] + 1 \in DOMAIN phaseOrder /\ Cur(r) \in Ids
           /\ \A k \in 1..at[r] : k \in DOMAIN phaseOrder /\ phaseOrder[k] \in Ids /\ phaseOrder[k] # Cur(r)
<1>1. phaseOrder \in Seq(Ids) /\ Len(phaseOrder) = Len(Phases)
  BY DEF OrderOK, IsOrderOf, Ids
<1>2. Len(phaseOrder) \in Nat /\ DOMAIN phaseOrder = 1..Len(phaseOrder)
  BY <1>1
<1>3. at[r] \in 0..Len(Phases)
  BY DEF Typed
<1>4. at[r] \in Nat /\ at[r] + 1 \in DOMAIN phaseOrder /\ \A k \in 1..at[r] : k \in DOMAIN phaseOrder /\ k # at[r] + 1
  BY <1>1, <1>2, <1>3
<1>5. \A k \in DOMAIN phaseOrder : phaseOrder[k] \in Ids
  BY <1>1
<1>6. QED
  BY <1>1, <1>2, <1>4, <1>5 DEF Cur, OrderOK, IsOrderOf

LEMMA OrderIsOnto ==
    ASSUME OrderOK, NEW r, at[r] = Len(Phases), NEW p \in Ids
    PROVE  \E k \in 1..at[r] : phaseOrder[k] = p
<1>1. /\ phaseOrder \in Seq(Ids) /\ Len(phaseOrder) = Len(Phases) /\ Elements(phaseOrder) = Ids
  BY DEF OrderOK, IsOrderOf, Ids
<1>2. DOMAIN phaseOrder = 1..Len(Phases)
  BY <1>1
<1>3. QED
  BY <1>1, <1>2 DEF Elements

LEMMA PhaseStep ==
    ASSUME Typed, OrderOK, NEW r \in Runs, Past(r), at[r] < Len(Phases),
           NEW st \in PhaseStates, PhaseIs(r, st), Fixed, agent' = agent,
           st = "completed" => Fine(r, Cur(r)),
           at' = at \/ (Passed(r) /\ st \in Behind)
    PROVE  /\ phase' \in [Runs -> [Ids -> PhaseStates]] /\ at' \in [Runs -> 0..Len(Phases)]
           /\ phase'[r][Cur(r)] = st
           /\ \A q \in Runs \ {r} : phase'[q] = phase[q] /\ at'[q] = at[q]
           /\ Past(r)'
<1>1. PICK c : c = Cur(r)
  OBVIOUS
<1>2. /\ at[r] \in Nat /\ Len(Phases) \in Nat /\ c \in Ids /\ c = phaseOrder[at[r] + 1]
      /\ \A k \in 1..at[r] : phaseOrder[k] \in Ids /\ phaseOrder[k] # c
  BY <1>1, CurIs DEF Cur
<1>3. phase' = [phase EXCEPT ![r][c] = st]
  BY <1>1 DEF PhaseIs
<1>4. /\ phase' \in [Runs -> [Ids -> PhaseStates]]
      /\ phase'[r][c] = st
      /\ \A p \in Ids : p # c => phase'[r][p] = phase[r][p]
      /\ \A q \in Runs \ {r} : phase'[q] = phase[q]
  BY <1>2, <1>3 DEF Typed
<1>5. /\ at' \in [Runs -> 0..Len(Phases)]
      /\ at'[r] = at[r] \/ (at'[r] = at[r] + 1 /\ st \in Behind)
      /\ \A q \in Runs \ {r} : at'[q] = at[q]
  BY <1>2 DEF Typed, Passed
<1>6. Behind' = Behind /\ phaseOrder' = phaseOrder /\ Ids' = Ids
  BY FixedIs
<1>7. ASSUME NEW p \in Ids, phase'[r][p] = "completed" PROVE Fine(r, p)'
  <2>1. Fine(r, p)
    BY <1>1, <1>4, <1>7 DEF Past
  <2>2. QED
    BY <2>1, FineKept
<1>8. ASSUME NEW k \in 1..at'[r] PROVE phase'[r][phaseOrder[k]] \in Behind
  <2>1. CASE k \in 1..at[r]
    BY <1>2, <1>4, <2>1 DEF Past
  <2>2. CASE k \notin 1..at[r]
    <3>1. k = at[r] + 1 /\ st \in Behind
      BY <1>2, <1>5, <2>2
    <3>2. QED
      BY <1>2, <1>4, <3>1
  <2>3. QED
    BY <2>1, <2>2
<1>9. Past(r)'
  BY <1>6, <1>7, <1>8 DEF Past
<1>10. QED
  BY <1>1, <1>4, <1>5, <1>9

LEMMA SamePast ==
    ASSUME NEW r, Past(r), Fixed, at'[r] = at[r], phase'[r] = phase[r],
           \A p \in Ids : phase[r][p] = "completed" => agent'[r][p] = agent[r][p]
    PROVE  Past(r)'
<1>1. Behind' = Behind /\ phaseOrder' = phaseOrder /\ Ids' = Ids
  BY FixedIs
<1>2. \A p \in Ids : phase[r][p] = "completed" => Fine(r, p)'
  BY FineKept DEF Past
<1>3. QED
  BY <1>1, <1>2 DEF Past

(* Steps that change neither phases nor agents.                             *)
LEMMA QuietRun ==
    ASSUME NEW r \in Runs, RunOK(r), Fixed, UNCHANGED <<at, phase, agent>>,
           gate'[r] = gate[r],
           \/ pc'[r] = pc[r]
           \/ pc[r] \notin {"work", "waiting"} /\ pc'[r] \notin {"work", "waiting"},
           aborted[r] => aborted'[r],
           \/ status'[r] = status[r] /\ (pc[r] \in Ends => pc'[r] \in Ends)
           \/ status'[r] = "running" /\ status[r] # "completed"
           \/ /\ status[r] # "completed" /\ pc'[r] \in Ends
              /\ status'[r] = "completed" => AllDone(r)
              /\ status'[r] = "failed" => aborted'[r] \/ \E p \in Ids : phase[r][p] = "failed",
           live'[r] \in {live[r], status[r], "none", "running", "failed"}
    PROVE  RunOK(r)'
<1>1. Past(r)'
  BY SamePast DEF RunOK
<1>2. Cur(r)' = Cur(r) /\ Ids' = Ids /\ Len(Phases)' = Len(Phases)
  BY FixedIs DEF Cur
<1>3. Now(r)'
  <2>1. Fine(r, Cur(r)) => Fine(r, Cur(r))'
    <3>1. PICK c : c = Cur(r)
      OBVIOUS
    <3>2. Fine(r, c) => Fine(r, c)'
      BY FineKept
    <3>3. QED
      BY <1>2, <3>1, <3>2 DEF Fine
  <2>2. QED
    BY <1>2, <2>1 DEF RunOK, Now
<1>4. Said(r)'
  BY <1>2 DEF RunOK, Said, AllDone
<1>5. QED
  BY <1>1, <1>3, <1>4 DEF RunOK

LEMMA QuietActions ==
    ASSUME Typed, OrderOK, NEW r \in Runs, RunOK(r),
           Post(r) \/ Refuse(r) \/ Launch(r) \/ Reject(r) \/ Begin(r) \/ EndRun(r) \/ Evict(r)
             \/ Output(r) \/ Stop(r) \/ Conclude(r)
    PROVE  Phased(r)
<1>0. /\ Phases' = Phases /\ Ids' = Ids /\ Tables' = Tables /\ Len(Phases)' = Len(Phases)
  <2>1. Fixed
    BY DEF Post, Refuse, Launch, Reject, Begin, EndRun, Evict, Output, Stop, Conclude
  <2>2. QED
    BY <2>1, FixedIs
<1>1. CASE Post(r) \/ Refuse(r) \/ Launch(r) \/ Reject(r)
  <2>1. /\ Fixed /\ UNCHANGED <<at, phase, agent, status, aborted, gate>>
        /\ pc[r] \in {"idle", "checked", "hooks"} /\ pc'[r] \in {"refused", "checked", "hooks", "gone"}
        /\ live'[r] \in {live[r], "running", "failed"}
        /\ pc' \in [Runs -> Places] /\ live' \in [Runs -> RunStates]
        /\ \A q \in Runs \ {r} : pc'[q] = pc[q] /\ live'[q] = live[q]
    <3>1. CASE Post(r)
      <4>1. pc[r] = "idle"
        BY <3>1, PlaybookAssumption DEF Post
      <4>2. QED
        BY <3>1, <4>1 DEF Typed, Post, Goes, Places, RunStates
    <3>2. CASE Refuse(r)
      BY <3>2 DEF Typed, Refuse, Goes, Places, RunStates
    <3>3. CASE Launch(r)
      BY <3>3 DEF Typed, Launch, Goes, Places, RunStates
    <3>4. CASE Reject(r)
      BY <3>4 DEF Typed, Reject, Goes, Places, RunStates
    <3>5. QED
      BY <1>1, <3>1, <3>2, <3>3, <3>4
  <2>a. active' \in BOOLEAN /\ (active' => (active /\ pc[r] \notin Busy) \/ pc'[r] = "hooks")
    <3>1. active' = FALSE \/ (active' = active /\ pc[r] \notin Busy) \/ (active' = TRUE /\ pc'[r] = "hooks")
      BY <1>1, <2>1, PlaybookAssumption DEF Post, Refuse, Launch, Reject, Release, Goes, Busy
    <3>2. active \in BOOLEAN
      BY DEF Typed
    <3>3. active' \in BOOLEAN
      BY <3>1, <3>2
    <3>4. CASE active' = FALSE
      BY <3>3, <3>4
    <3>5. CASE active' # FALSE
      BY <3>1, <3>3, <3>5
    <3>6. QED
      BY <3>4, <3>5
  <2>2. RunOK(r)'
    BY <2>1, QuietRun DEF Ends
  <2>3. Typed'
    BY <1>0, <2>1, <2>a DEF Typed, Fixed
  <2>4. QED
    BY <2>1, <2>a, <2>2, <2>3 DEF Phased, Rest, Locks, Busy
<1>2. CASE Begin(r)
  <2>1. /\ Fixed /\ UNCHANGED <<at, phase, agent, aborted, gate, active>>
        /\ pc[r] = "hooks" /\ pc'[r] = "next" /\ status'[r] = "running" /\ live'[r] = "running"
        /\ pc' \in [Runs -> Places] /\ live' \in [Runs -> RunStates] /\ status' \in [Runs -> RunStates]
        /\ \A q \in Runs \ {r} : pc'[q] = pc[q] /\ live'[q] = live[q] /\ status'[q] = status[q]
    BY <1>2 DEF Typed, Begin, Goes, Places, RunStates
  <2>2. status[r] # "completed"
    BY <2>1 DEF RunOK, Said, Ends
  <2>3. RunOK(r)'
    BY <2>1, <2>2, QuietRun DEF Ends
  <2>4. Typed'
    BY <1>0, <2>1 DEF Typed, Fixed
  <2>5. QED
    BY <2>1, <2>3, <2>4 DEF Phased, Rest, Locks, Busy
<1>3. CASE EndRun(r) \/ Evict(r)
  <2>1. /\ Fixed /\ UNCHANGED <<at, phase, agent, status, aborted, gate>>
        /\ pc[r] \in {"landing", "over", "gone"} /\ pc'[r] \in {"over", "gone"}
        /\ live'[r] \in {"none", status[r]}
        /\ pc' \in [Runs -> Places] /\ live' \in [Runs -> RunStates]
        /\ \A q \in Runs \ {r} : pc'[q] = pc[q] /\ live'[q] = live[q]
    BY <1>3 DEF Typed, EndRun, Evict, Emit, Release, Goes, Places, RunStates, Busy
  <2>a. active' \in BOOLEAN /\ (active' => active /\ pc[r] \notin Busy)
    <3>1. active' = FALSE \/ (active' = active /\ pc[r] \notin Busy)
      BY <1>3, <2>1, PlaybookAssumption DEF EndRun, Evict, Release, Goes, Busy
    <3>2. active \in BOOLEAN
      BY DEF Typed
    <3>3. active' \in BOOLEAN
      BY <3>1, <3>2
    <3>4. CASE active' = FALSE
      BY <3>3, <3>4
    <3>5. CASE active' # FALSE
      BY <3>1, <3>3, <3>5
    <3>6. QED
      BY <3>4, <3>5
  <2>2. RunOK(r)'
    BY <2>1, QuietRun DEF Ends
  <2>3. Typed'
    BY <1>0, <2>1, <2>a DEF Typed, Fixed
  <2>4. QED
    BY <2>1, <2>a, <2>2, <2>3 DEF Phased, Rest, Locks
<1>4. CASE Output(r)
  <2>1. /\ Fixed /\ UNCHANGED <<pc, at, phase, agent, status, aborted, gate, active>>
        /\ live'[r] = status[r] /\ live' \in [Runs -> RunStates]
        /\ \A q \in Runs \ {r} : live'[q] = live[q]
    BY <1>4 DEF Typed, Output, Emit
  <2>2. RunOK(r)'
    BY <2>1, QuietRun
  <2>3. Typed'
    BY <1>0, <2>1 DEF Typed, Fixed
  <2>4. QED
    BY <2>1, <2>2, <2>3 DEF Phased, Rest, Locks
<1>5. CASE Stop(r) \/ Conclude(r)
  <2>1. /\ Fixed /\ UNCHANGED <<at, phase, agent, aborted, gate, live, active>>
        /\ pc[r] = "next" /\ pc'[r] = "landing"
        /\ pc' \in [Runs -> Places] /\ status' \in [Runs -> RunStates]
        /\ \A q \in Runs \ {r} : pc'[q] = pc[q] /\ status'[q] = status[q]
    BY <1>5 DEF Typed, Stop, Conclude, Goes, Places, RunStates
  <2>2. status'[r] = "completed" => AllDone(r)
    BY <1>5 DEF Typed, Stop, Conclude
  <2>3. status'[r] = "failed" => aborted'[r] \/ \E p \in Ids : phase[r][p] = "failed"
    <3>1. CASE Stop(r)
      BY <3>1 DEF Stop
    <3>2. CASE Conclude(r)
      <4>1. \A k \in 1..at[r] : phase[r][phaseOrder[k]] \in {"completed", "skipped", "failed"}
        BY DEF RunOK, Past, Behind
      <4>2. \A p \in Ids : \E k \in 1..at[r] : phaseOrder[k] = p
        BY <3>2, OrderIsOnto DEF Conclude
      <4>3. \A p \in Ids : phase[r][p] \in {"completed", "skipped", "failed"}
        BY <4>1, <4>2
      <4>4. CASE AllDone(r)
        BY <3>2, <4>4 DEF Conclude, Typed
      <4>5. CASE ~AllDone(r)
        BY <4>3, <4>5 DEF AllDone
      <4>6. QED
        BY <4>4, <4>5
    <3>3. QED
      BY <1>5, <3>1, <3>2
  <2>4. status[r] # "completed"
    BY <2>1 DEF RunOK, Said, Ends
  <2>5. RunOK(r)'
    BY <2>1, <2>2, <2>3, <2>4, QuietRun DEF Ends
  <2>6. Typed'
    BY <1>0, <2>1 DEF Typed, Fixed
  <2>7. QED
    BY <2>1, <2>5, <2>6 DEF Phased, Rest, Locks, Busy
<1>6. QED
  BY <1>1, <1>2, <1>3, <1>4, <1>5


(* Steps that end or begin a phase.                                         *)
LEMMA MoveOn ==
    ASSUME Typed, OrderOK, NEW r \in Runs, RunOK(r), Fixed, agent' = agent,
           pc[r] \in {"next", "work", "waiting"}, at[r] < Len(Phases),
           NEW st \in PhaseStates, PhaseIs(r, st), st = "completed" => Fine(r, Cur(r)),
           at' = at \/ (Passed(r) /\ st \in Behind),
           gate'[r] = "none",
           \/ pc'[r] = "next"
           \/ pc'[r] = "work" /\ st = "running" /\ at' = at
           \/ pc'[r] = "landing",
           \/ status'[r] \in {status[r], "running"}
           \/ status'[r] = "failed" /\ st = "failed" /\ pc'[r] = "landing",
           live'[r] \in {status[r], "running"}
    PROVE  /\ phase' \in [Runs -> [Ids -> PhaseStates]] /\ at' \in [Runs -> 0..Len(Phases)]
           /\ \A q \in Runs \ {r} : phase'[q] = phase[q] /\ at'[q] = at[q]
           /\ RunOK(r)'
<1>1. /\ phase' \in [Runs -> [Ids -> PhaseStates]] /\ at' \in [Runs -> 0..Len(Phases)]
      /\ phase'[r][Cur(r)] = st
      /\ \A q \in Runs \ {r} : phase'[q] = phase[q] /\ at'[q] = at[q]
      /\ Past(r)'
  BY PhaseStep DEF RunOK
<1>2. Ids' = Ids /\ Len(Phases)' = Len(Phases) /\ phaseOrder' = phaseOrder
  BY FixedIs
<1>3. Cur(r) \in Ids
  BY CurIs
<1>4. Now(r)'
  BY <1>1, <1>2 DEF Now, Cur
<1>5. status[r] \notin {"completed", "failed"}
  BY DEF RunOK, Said, Ends
<1>6. status'[r] = "failed" => \E p \in Ids : phase'[r][p] = "failed"
  BY <1>1, <1>3, <1>5
<1>7. Said(r)'
  BY <1>2, <1>5, <1>6 DEF Said, Ends
<1>8. QED
  BY <1>1, <1>4, <1>7 DEF RunOK

LEMMA EnterIs ==
    ASSUME Typed, OrderOK, NEW r \in Runs, RunOK(r), Enter(r)
    PROVE  Phased(r)
<1>1. /\ Fixed /\ UNCHANGED <<agent, status, aborted, gate, active>>
      /\ pc[r] = "next" /\ at[r] < Len(Phases)
      /\ live'[r] = status[r] /\ live' \in [Runs -> RunStates]
      /\ \A q \in Runs \ {r} : live'[q] = live[q]
  BY DEF Enter, Emit, Typed
<1>2. /\ pc' \in [Runs -> Places]
      /\ \A q \in Runs \ {r} : pc'[q] = pc[q]
      /\ \/ PhaseIs(r, "skipped") /\ Passed(r) /\ pc'[r] = "next"
         \/ PhaseIs(r, "running") /\ at' = at /\ pc'[r] = "work"
  BY <1>1 DEF Enter, Goes, Typed, Places
<1>3. gate'[r] = "none"
  BY <1>1 DEF RunOK, Now
<1>4. /\ phase' \in [Runs -> [Ids -> PhaseStates]] /\ at' \in [Runs -> 0..Len(Phases)]
      /\ \A q \in Runs \ {r} : phase'[q] = phase[q] /\ at'[q] = at[q]
      /\ RunOK(r)'
  <2>1. CASE PhaseIs(r, "skipped") /\ Passed(r) /\ pc'[r] = "next"
    <3>1. "skipped" \in PhaseStates /\ "skipped" \in Behind
      BY DEF PhaseStates, Behind
    <3>2. QED
      BY <1>1, <1>3, <2>1, <3>1, MoveOn
  <2>2. CASE PhaseIs(r, "running") /\ at' = at /\ pc'[r] = "work"
    <3>1. "running" \in PhaseStates
      BY DEF PhaseStates
    <3>2. QED
      BY <1>1, <1>3, <2>2, <3>1, MoveOn
  <2>3. QED
    BY <1>2, <2>1, <2>2
<1>5. Phases' = Phases /\ Ids' = Ids /\ Tables' = Tables /\ Len(Phases)' = Len(Phases)
  BY <1>1, FixedIs
<1>6. Typed'
  BY <1>1, <1>2, <1>4, <1>5 DEF Typed, Fixed
<1>7. Rest(r)
  BY <1>1, <1>2, <1>4 DEF Rest
<1>8. Locks(r)
  BY <1>1, <1>2 DEF Locks, Busy
<1>9. QED
  BY <1>1, <1>4, <1>6, <1>7, <1>8 DEF Phased

(* The catch of a phase, of a run at work or at a gate.                     *)
LEMMA FailIs ==
    ASSUME Typed, OrderOK, NEW r \in Runs, RunOK(r), Fail(r), Fixed, agent' = agent,
           pc[r] \in {"work", "waiting"},
           aborted' \in [Runs -> BOOLEAN], \A q \in Runs \ {r} : aborted'[q] = aborted[q],
           active' \in BOOLEAN, active' => active
    PROVE  Phased(r)
<1>1. /\ PhaseIs(r, "failed")
      /\ gate' = [gate EXCEPT ![r] = "none"] /\ live' = [live EXCEPT ![r] = status[r]]
      /\ \/ playbook.skip = TRUE /\ Goes(r, "next") /\ Passed(r) /\ UNCHANGED status
         \/ Goes(r, "landing") /\ UNCHANGED at /\ status' = [status EXCEPT ![r] = "failed"]
  <2>1. playbook.skip \in BOOLEAN
    BY PlaybookAssumption DEF Typed
  <2>2. QED
    BY <2>1 DEF Fail, Emit
<1>2. /\ gate' \in [Runs -> {"none", "gate", "human"}] /\ live' \in [Runs -> RunStates]
      /\ pc' \in [Runs -> Places] /\ status' \in [Runs -> RunStates]
      /\ gate'[r] = "none" /\ live'[r] = status[r]
      /\ \A q \in Runs \ {r} :
           gate'[q] = gate[q] /\ live'[q] = live[q] /\ pc'[q] = pc[q] /\ status'[q] = status[q]
      /\ \/ Passed(r) /\ "failed" \in Behind /\ pc'[r] = "next" /\ status'[r] = status[r]
         \/ at' = at /\ pc'[r] = "landing" /\ status'[r] = "failed"
  BY <1>1 DEF Typed, Goes, Places, RunStates, Behind
<1>3. at[r] < Len(Phases)
  BY DEF RunOK, Now
<1>4. "failed" \in PhaseStates
  BY DEF PhaseStates
<1>5. /\ phase' \in [Runs -> [Ids -> PhaseStates]] /\ at' \in [Runs -> 0..Len(Phases)]
      /\ \A q \in Runs \ {r} : phase'[q] = phase[q] /\ at'[q] = at[q]
      /\ RunOK(r)'
  <2>1. CASE Passed(r) /\ "failed" \in Behind /\ pc'[r] = "next" /\ status'[r] = status[r]
    BY <1>1, <1>2, <1>3, <1>4, <2>1, MoveOn
  <2>2. CASE at' = at /\ pc'[r] = "landing" /\ status'[r] = "failed"
    BY <1>1, <1>2, <1>3, <1>4, <2>2, MoveOn
  <2>3. QED
    BY <1>2, <2>1, <2>2
<1>6. Phases' = Phases /\ Ids' = Ids /\ Tables' = Tables /\ Len(Phases)' = Len(Phases)
  BY FixedIs
<1>7. Typed'
  BY <1>2, <1>5, <1>6 DEF Typed, Fixed
<1>8. Rest(r)
  BY <1>2, <1>5 DEF Rest
<1>9. Locks(r)
  BY <1>2 DEF Locks, Busy
<1>10. QED
  BY <1>5, <1>7, <1>8, <1>9 DEF Phased

(* Steps that leave a phase and change what is said of the run.             *)
LEMMA LeaveIs ==
    ASSUME Typed, OrderOK, NEW r \in Runs, RunOK(r), Fixed, UNCHANGED <<agent, aborted, active>>,
           pc[r] \in {"work", "waiting"}, NEW st \in PhaseStates, PhaseIs(r, st),
           st = "completed" => Fine(r, Cur(r)),
           NEW said \in RunStates, status' = [status EXCEPT ![r] = said],
           NEW told \in {status[r], "running"}, live' = [live EXCEPT ![r] = told],
           gate' = [gate EXCEPT ![r] = "none"],
           \/ Goes(r, "next") /\ Passed(r) /\ st \in Behind /\ said \in {status[r], "running"}
           \/ Goes(r, "landing") /\ at' = at /\ st = "failed" /\ said = "failed"
    PROVE  Phased(r)
<1>1. /\ gate' \in [Runs -> {"none", "gate", "human"}] /\ gate'[r] = "none"
      /\ \A q \in Runs \ {r} : gate'[q] = gate[q]
  BY DEF Typed
<1>2. /\ status' \in [Runs -> RunStates] /\ status'[r] = said
      /\ \A q \in Runs \ {r} : status'[q] = status[q]
  BY DEF Typed
<1>3. told \in RunStates
  BY DEF Typed, RunStates
<1>4. /\ live' \in [Runs -> RunStates] /\ live'[r] = told
      /\ \A q \in Runs \ {r} : live'[q] = live[q]
  BY <1>3 DEF Typed
<1>5. /\ pc' \in [Runs -> Places] /\ \A q \in Runs \ {r} : pc'[q] = pc[q]
      /\ \/ pc'[r] = "next" /\ Passed(r) /\ st \in Behind /\ said \in {status[r], "running"}
         \/ pc'[r] = "landing" /\ at' = at /\ st = "failed" /\ said = "failed"
  BY DEF Typed, Goes, Places
<1>6. at[r] < Len(Phases)
  BY DEF RunOK, Now
<1>7. /\ phase' \in [Runs -> [Ids -> PhaseStates]] /\ at' \in [Runs -> 0..Len(Phases)]
      /\ \A q \in Runs \ {r} : phase'[q] = phase[q] /\ at'[q] = at[q]
      /\ RunOK(r)'
  <2>1. CASE pc'[r] = "next" /\ Passed(r) /\ st \in Behind /\ said \in {status[r], "running"}
    BY <1>1, <1>2, <1>4, <1>6, <2>1, MoveOn
  <2>2. CASE pc'[r] = "landing" /\ at' = at /\ st = "failed" /\ said = "failed"
    BY <1>1, <1>2, <1>4, <1>6, <2>2, MoveOn
  <2>3. QED
    BY <1>5, <2>1, <2>2
<1>8. Phases' = Phases /\ Ids' = Ids /\ Tables' = Tables /\ Len(Phases)' = Len(Phases)
  BY FixedIs
<1>9. Typed'
  BY <1>1, <1>2, <1>4, <1>5, <1>7, <1>8 DEF Typed, Fixed
<1>10. Rest(r)
  BY <1>1, <1>2, <1>4, <1>5, <1>7 DEF Rest
<1>11. Locks(r)
  BY <1>5 DEF Locks, Busy
<1>12. QED
  BY <1>7, <1>9, <1>10, <1>11 DEF Phased

(* What failed, or is missing, of the agents of a phase that is done.       *)
LEMMA DoneIsFine ==
    ASSUME NEW r, WorkIsDone(r)
    PROVE  Fine(r, Cur(r))
BY DEF WorkIsDone, AtWork, Broken, Todo, Serial, Fine

LEMMA GateActions ==
    ASSUME Typed, OrderOK, NEW r \in Runs, RunOK(r),
           FailWork(r) \/ CompletePhase(r) \/ Approve(r) \/ LoseAnswer(r) \/ RejectGate(r) \/ TimeOut(r)
    PROVE  Phased(r)
<1>0. /\ status[r] \in RunStates /\ {"completed", "skipped", "failed"} \subseteq PhaseStates
      /\ {"completed", "skipped"} \subseteq Behind /\ (playbook.skip => "failed" \in Behind)
      /\ {"running", "failed"} \subseteq RunStates
      /\ playbook.skip \in BOOLEAN
      /\ aborted \in [Runs -> BOOLEAN] /\ active \in BOOLEAN
      /\ status = [status EXCEPT ![r] = status[r]]
      /\ (gate[r] = "none" => gate = [gate EXCEPT ![r] = "none"])
      /\ (gate[r] # "none" => pc[r] = "waiting")
  BY PlaybookAssumption DEF Typed, RunOK, Now, RunStates, PhaseStates, Behind
<1>1. ASSUME Fail(r), Fixed, UNCHANGED <<agent, aborted, active>>, pc[r] \in {"work", "waiting"}
      PROVE  Phased(r)
  BY <1>0, <1>1, FailIs
<1>2. CASE FailWork(r)
  BY <1>1, <1>2 DEF FailWork, AtWork
<1>3. CASE RejectGate(r)
  BY <1>0, <1>1, <1>3 DEF RejectGate
<1>4. CASE CompletePhase(r)
  <2>1. Fine(r, Cur(r)) /\ pc[r] = "work"
    BY <1>4, DoneIsFine DEF CompletePhase, WorkIsDone, AtWork
  <2>2. gate[r] = "none"
    BY <2>1 DEF RunOK, Now
  <2>3. /\ Fixed /\ UNCHANGED <<agent, aborted, active>>
        /\ PhaseIs(r, "completed") /\ Passed(r) /\ Goes(r, "next")
        /\ status' = [status EXCEPT ![r] = status[r]] /\ live' = [live EXCEPT ![r] = status[r]]
        /\ gate' = [gate EXCEPT ![r] = "none"]
    BY <1>0, <1>4, <2>2 DEF CompletePhase, Complete, Emit
  <2>4. QED
    BY <1>0, <2>1, <2>3, LeaveIs
<1>5. CASE Approve(r)
  <2>1. Fine(r, Cur(r)) /\ pc[r] = "waiting"
    BY <1>0, <1>5 DEF Approve, RunOK, Now
  <2>2. /\ Fixed /\ UNCHANGED <<agent, aborted, active>>
        /\ PhaseIs(r, "completed") /\ Passed(r) /\ Goes(r, "next")
        /\ status' = [status EXCEPT ![r] = "running"] /\ live' = [live EXCEPT ![r] = "running"]
        /\ gate' = [gate EXCEPT ![r] = "none"]
    BY <1>5 DEF Approve, Complete, Resume
  <2>3. QED
    BY <1>0, <2>1, <2>2, LeaveIs
<1>6. CASE LoseAnswer(r)
  <2>1. /\ Fixed /\ UNCHANGED <<agent, aborted, active>> /\ pc[r] = "waiting"
        /\ PhaseIs(r, "failed")
        /\ gate' = [gate EXCEPT ![r] = "none"] /\ live' = [live EXCEPT ![r] = "running"]
    BY <1>0, <1>6 DEF LoseAnswer
  <2>2. CASE playbook.skip
    <3>1. Goes(r, "next") /\ Passed(r) /\ status' = [status EXCEPT ![r] = "running"]
      BY <1>6, <2>2 DEF LoseAnswer
    <3>2. QED
      BY <1>0, <2>1, <2>2, <3>1, LeaveIs
  <2>3. CASE ~playbook.skip
    <3>1. Goes(r, "landing") /\ at' = at /\ status' = [status EXCEPT ![r] = "failed"]
      BY <1>6, <2>3 DEF LoseAnswer
    <3>2. QED
      BY <1>0, <2>1, <3>1, LeaveIs
  <2>4. QED
    BY <2>2, <2>3
<1>7. CASE TimeOut(r)
  <2>1. /\ Fixed /\ UNCHANGED <<agent, aborted, active>> /\ pc[r] = "waiting"
        /\ Fail(r) \/ (PhaseIs(r, "skipped") /\ Passed(r) /\ Goes(r, "next") /\ Resume(r))
    BY <1>0, <1>7 DEF TimeOut
  <2>2. CASE Fail(r)
    BY <1>1, <2>1, <2>2
  <2>3. CASE PhaseIs(r, "skipped") /\ Passed(r) /\ Goes(r, "next") /\ Resume(r)
    <3>1. /\ status' = [status EXCEPT ![r] = "running"] /\ live' = [live EXCEPT ![r] = "running"]
          /\ gate' = [gate EXCEPT ![r] = "none"]
      BY <2>3 DEF Resume
    <3>2. QED
      BY <1>0, <2>1, <2>3, <3>1, LeaveIs
  <2>4. QED
    BY <2>1, <2>2, <2>3
<1>8. QED
  BY <1>2, <1>3, <1>4, <1>5, <1>6, <1>7

LEMMA KillIs ==
    ASSUME Typed, OrderOK, NEW r \in Runs, RunOK(r), Kill(r)
    PROVE  Phased(r)
<1>1. /\ Fixed /\ agent' = agent
      /\ aborted' \in [Runs -> BOOLEAN] /\ aborted' = [aborted EXCEPT ![r] = TRUE]
      /\ \A q \in Runs \ {r} : aborted'[q] = aborted[q]
      /\ pc[r] \in {"next", "work", "waiting", "landing", "over"}
  BY DEF Kill, KillFlag, Typed
<1>2. active' = FALSE
  BY DEF Kill, KillFlag
<1>3. active' \in BOOLEAN /\ ~active'
  BY <1>2
<1>4. aborted'[r]
  BY <1>1 DEF Typed
<1>5. CASE gate[r] # "none"
  <2>1. Fail(r) /\ pc[r] = "waiting"
    BY <1>5 DEF Kill, RunOK, Now
  <2>2. QED
    BY <1>1, <1>3, <2>1, FailIs
<1>6. CASE gate[r] = "none"
  <2>1. /\ UNCHANGED <<pc, at, phase, status, gate>>
        /\ live'[r] = "failed" /\ live' \in [Runs -> RunStates]
        /\ \A q \in Runs \ {r} : live'[q] = live[q]
    BY <1>6 DEF Kill, Typed, RunStates
  <2>2. RunOK(r)'
    BY <1>1, <1>4, <2>1, QuietRun
  <2>3. Phases' = Phases /\ Ids' = Ids /\ Tables' = Tables /\ Len(Phases)' = Len(Phases)
    BY <1>1, FixedIs
  <2>4. Typed'
    BY <1>1, <1>3, <2>1, <2>3 DEF Typed, Fixed
  <2>5. QED
    BY <1>1, <1>3, <2>1, <2>2, <2>4 DEF Phased, Rest, Locks
<1>7. QED
  BY <1>5, <1>6

LEMMA OpenGateIs ==
    ASSUME Typed, OrderOK, NEW r \in Runs, RunOK(r), OpenGate(r)
    PROVE  Phased(r)
<1>1. /\ Fixed /\ UNCHANGED <<at, phase, agent, aborted, active>>
      /\ pc[r] = "work" /\ IsGate(r) /\ Fine(r, Cur(r))
  BY DoneIsFine DEF OpenGate, WorkIsDone, AtWork
<1>2. PICK c : c = Cur(r)
  OBVIOUS
<1>3. Type(c) \in {"gate", "human"}
  BY <1>1, <1>2 DEF IsGate
<1>4. /\ gate' \in [Runs -> {"none", "gate", "human"}] /\ gate'[r] # "none"
      /\ \A q \in Runs \ {r} : gate'[q] = gate[q]
  BY <1>2, <1>3 DEF OpenGate, Typed
<1>5. /\ pc' \in [Runs -> Places] /\ pc'[r] = "waiting"
      /\ status' \in [Runs -> RunStates] /\ status'[r] = "paused"
      /\ live' \in [Runs -> RunStates] /\ live'[r] = status[r]
      /\ \A q \in Runs \ {r} : pc'[q] = pc[q] /\ status'[q] = status[q] /\ live'[q] = live[q]
  BY DEF OpenGate, Goes, Emit, Typed, Places, RunStates
<1>6. /\ Phases' = Phases /\ Ids' = Ids /\ Tables' = Tables /\ Len(Phases)' = Len(Phases)
      /\ phaseOrder' = phaseOrder
  BY <1>1, FixedIs
<1>7. Cur(r)' = c
  BY <1>1, <1>2, <1>6 DEF Cur
<1>8. Fine(r, c)'
  BY <1>1, <1>2, FineKept
<1>9. Past(r)'
  BY <1>1, SamePast DEF RunOK
<1>10. Now(r)'
  <2>1. Fine(r, Cur(r))'
    BY <1>7, <1>8 DEF Fine
  <2>2. QED
    BY <1>1, <1>2, <1>4, <1>5, <1>6, <1>7, <2>1 DEF RunOK, Now
<1>11. Said(r)'
  BY <1>1, <1>5 DEF RunOK, Said, Ends
<1>12. Typed'
  BY <1>1, <1>4, <1>5, <1>6 DEF Typed, Fixed
<1>13. Rest(r)
  BY <1>1, <1>4, <1>5 DEF Rest
<1>14. Locks(r)
  BY <1>1, <1>5 DEF Locks, Busy
<1>15. QED
  BY <1>1, <1>9, <1>10, <1>11, <1>12, <1>13, <1>14 DEF Phased, RunOK

(* Steps that change agents do so in the phase at work.                     *)
LEMMA AgentsChange ==
    ASSUME Typed, OrderOK, NEW r \in Runs, RunOK(r), Fixed, pc[r] = "work",
           UNCHANGED <<pc, at, phase, status, aborted, gate, active>>,
           NEW row \in [Slots(Cur(r)) -> AgentStates],
           agent' = [agent EXCEPT ![r][Cur(r)] = row],
           live' = live \/ Emit(r)
    PROVE  Phased(r) /\ agent'[r][Cur(r)] = row
             /\ \A p \in Ids : p # Cur(r) => agent'[r][p] = agent[r][p]
<1>1. PICK c : c = Cur(r)
  OBVIOUS
<1>2. at[r] < Len(Phases) /\ phase[r][c] = "running"
  BY <1>1 DEF RunOK, Now
<1>3. c \in Ids
  BY <1>1, <1>2, CurIs
<1>4. agent[r] \in Tables
  BY DEF Typed
<1>5. PICK D : D = UNION {[Slots(p) -> AgentStates] : p \in Ids}
  OBVIOUS
<1>6. agent[r] \in [Ids -> D] /\ \A p \in Ids : agent[r][p] \in [Slots(p) -> AgentStates]
  BY <1>4, <1>5 DEF Tables
<1>7. row \in [Slots(c) -> AgentStates] /\ row \in D
  BY <1>1, <1>3, <1>5
<1>8. PICK table : table = [agent[r] EXCEPT ![c] = row]
  OBVIOUS
<1>9. /\ table \in [Ids -> D] /\ table[c] = row
      /\ \A p \in Ids : p # c => table[p] = agent[r][p]
  BY <1>3, <1>6, <1>7, <1>8
<1>10. table \in Tables
  <2>1. \A p \in Ids : table[p] \in [Slots(p) -> AgentStates]
    BY <1>6, <1>7, <1>9
  <2>2. QED
    BY <1>5, <1>9, <2>1 DEF Tables
<1>11. agent' = [agent EXCEPT ![r] = table]
  BY <1>1, <1>8
<1>12. /\ agent' \in [Runs -> Tables] /\ agent'[r] = table
       /\ \A q \in Runs \ {r} : agent'[q] = agent[q]
  BY <1>10, <1>11 DEF Typed
<1>13. /\ live' \in [Runs -> RunStates] /\ live'[r] \in {live[r], status[r]}
       /\ \A q \in Runs \ {r} : live'[q] = live[q]
  BY DEF Typed, Emit
<1>14. Past(r)'
  <2>1. \A p \in Ids : phase[r][p] = "completed" => agent'[r][p] = agent[r][p]
    BY <1>2, <1>9, <1>12
  <2>2. QED
    BY <2>1, SamePast DEF RunOK
<1>15. /\ Phases' = Phases /\ Ids' = Ids /\ Tables' = Tables /\ Len(Phases)' = Len(Phases)
       /\ phaseOrder' = phaseOrder
  BY FixedIs
<1>16. Now(r)'
  BY <1>15 DEF RunOK, Now, Cur
<1>17. Said(r)'
  BY <1>13, <1>15 DEF RunOK, Said, AllDone, Ends
<1>18. Typed'
  BY <1>12, <1>13, <1>15 DEF Typed, Fixed
<1>19. Phased(r)
  BY <1>12, <1>13, <1>14, <1>16, <1>17, <1>18 DEF Phased, Rest, Locks, RunOK
<1>20. QED
  BY <1>1, <1>9, <1>12, <1>19

LEMMA RowIs ==
    ASSUME Typed, OrderOK, NEW r \in Runs, RunOK(r), pc[r] = "work"
    PROVE  /\ at[r] < Len(Phases) /\ Cur(r) \in Ids
           /\ agent[r][Cur(r)] \in [Slots(Cur(r)) -> AgentStates]
<1>1. at[r] < Len(Phases)
  BY DEF RunOK, Now
<1>2. Cur(r) \in Ids
  BY <1>1, CurIs
<1>3. agent[r] \in Tables
  BY DEF Typed
<1>4. QED
  BY <1>1, <1>2, <1>3 DEF Tables

LEMMA StartAgentsIs ==
    ASSUME Typed, OrderOK, NEW r \in Runs, RunOK(r), StartAgents(r)
    PROVE  /\ Phased(r)
           /\ \A p \in Ids : p # Cur(r) => agent'[r][p] = agent[r][p]
           /\ \A i \in Slots(Cur(r)) :
                agent'[r][Cur(r)][i] = IF i \in Starting(r) THEN "running" ELSE agent[r][Cur(r)][i]
<1>1. /\ pc[r] = "work" /\ Fixed /\ UNCHANGED <<pc, at, phase, status, aborted, gate, active>>
      /\ Emit(r)
  BY DEF StartAgents, AtWork
<1>2. PICK c : c = Cur(r)
  OBVIOUS
<1>3. PICK new : new = Starting(r)
  OBVIOUS
<1>4. c \in Ids /\ agent[r][c] \in [Slots(c) -> AgentStates]
  BY <1>1, <1>2, RowIs
<1>5. PICK row : row = [i \in Slots(c) |-> IF i \in new THEN "running" ELSE agent[r][c][i]]
  OBVIOUS
<1>6. row \in [Slots(c) -> AgentStates]
  BY <1>4, <1>5 DEF AgentStates
<1>7. agent' = [agent EXCEPT ![r][c] = row]
  <2>1. agent' = [agent EXCEPT ![r][c] = [i \in Slots(c) |-> IF i \in new THEN "running" ELSE @[i]]]
    BY <1>2, <1>3 DEF StartAgents
  <2>2. c \in DOMAIN agent[r] /\ r \in DOMAIN agent
    BY <1>4 DEF Typed, Tables
  <2>3. QED
    BY <1>5, <2>1, <2>2
<1>8. Phased(r) /\ agent'[r][c] = row /\ \A p \in Ids : p # c => agent'[r][p] = agent[r][p]
  BY <1>1, <1>2, <1>6, <1>7, AgentsChange
<1>9. QED
  BY <1>2, <1>3, <1>5, <1>8

LEMMA EndAgentIs ==
    ASSUME Typed, OrderOK, NEW r \in Runs, RunOK(r), EndAgent(r)
    PROVE  /\ Phased(r)
           /\ \A p \in Ids : p # Cur(r) => agent'[r][p] = agent[r][p]
           /\ \A i \in Slots(Cur(r)) :
                agent'[r][Cur(r)][i] = "running" => agent[r][Cur(r)][i] = "running"
<1>1. /\ pc[r] = "work" /\ Fixed /\ UNCHANGED <<pc, at, phase, status, aborted, gate, active>>
      /\ live' = live \/ Emit(r)
  BY DEF EndAgent
<1>2. PICK c : c = Cur(r)
  OBVIOUS
<1>3. c \in Ids /\ agent[r][c] \in [Slots(c) -> AgentStates]
  BY <1>1, <1>2, RowIs
<1>4. PICK i \in Slots(c), st \in {"completed", "failed", "rejected"} :
        agent' = [agent EXCEPT ![r][c][i] = st]
  BY <1>2 DEF EndAgent, AgentsIn
<1>5. PICK row : row = [agent[r][c] EXCEPT ![i] = st]
  OBVIOUS
<1>6. row \in [Slots(c) -> AgentStates] /\ \A j \in Slots(c) : row[j] = "running" => agent[r][c][j] = "running"
  BY <1>3, <1>5 DEF AgentStates
<1>7. agent' = [agent EXCEPT ![r][c] = row]
  <2>1. c \in DOMAIN agent[r] /\ r \in DOMAIN agent
    BY <1>3 DEF Typed, Tables
  <2>2. QED
    BY <1>4, <1>5, <2>1
<1>8. Phased(r) /\ agent'[r][c] = row /\ \A p \in Ids : p # c => agent'[r][p] = agent[r][p]
  BY <1>1, <1>2, <1>6, <1>7, AgentsChange
<1>9. QED
  BY <1>2, <1>6, <1>8

-----------------------------------------------------------------------------
(* The invariant holds *)

Inv == Typed /\ OrderOK /\ (\A r \in Runs : RunOK(r)) /\ LockIsReleased

LEMMA InitOK == Init => Inv
<1> SUFFICES ASSUME Init PROVE Inv
  OBVIOUS
<1>1. playbook \in Playbooks /\ OrderOK
  BY PhasesAreOrdered DEF Init, OrderOK, Phases
<1>2. Len(Phases) \in Nat /\ Len(Phases) > 0
  BY <1>1, PlaybookAssumption DEF Phases
<1>3. Typed
  <2>1. phase \in [Runs -> [Ids -> PhaseStates]]
    BY DEF Init, PhaseStates
  <2>2. agent \in [Runs -> Tables]
    <3>1. PICK table : table = [p \in Ids |-> [i \in Slots(p) |-> "pending"]]
      OBVIOUS
    <3>2. \A p \in Ids : table[p] \in [Slots(p) -> AgentStates]
      BY <3>1 DEF AgentStates
    <3>3. table \in Tables
      BY <3>1, <3>2 DEF Tables
    <3>4. QED
      BY <3>1, <3>3 DEF Init
  <2>3. at \in [Runs -> 0..Len(Phases)]
    BY <1>2 DEF Init
  <2>4. active = FALSE
    BY DEF Init
  <2>5. active \in BOOLEAN
    BY <2>4
  <2>6. QED
    BY <1>1, <2>1, <2>2, <2>3, <2>5 DEF Init, Typed, Places, RunStates
<1>4. ASSUME NEW r \in Runs PROVE RunOK(r)
  <2>1. \A p \in Ids : phase[r][p] = "pending"
    BY <1>4 DEF Init
  <2>2. at[r] = 0 /\ pc[r] = "idle" /\ gate[r] = "none" /\ status[r] = "none" /\ live[r] = "none"
    BY <1>4 DEF Init
  <2>3. Past(r)
    BY <2>1, <2>2 DEF Past
  <2>4. Now(r) /\ Said(r)
    BY <2>2 DEF Now, Said
  <2>5. QED
    BY <2>3, <2>4 DEF RunOK
<1>5. LockIsReleased
  BY DEF Init, LockIsReleased
<1>6. QED
  BY <1>1, <1>3, <1>4, <1>5 DEF Inv

LEMMA EveryStep ==
    ASSUME Typed, OrderOK, Next, \A r \in Runs : RunOK(r)
    PROVE  \E r \in Runs : Phased(r)
<1>1. PICK r \in Runs :
       \/ Post(r) \/ Refuse(r) \/ Launch(r)
       \/ Advance(r) \/ Output(r) \/ Evict(r)
       \/ Approve(r) \/ LoseAnswer(r) \/ RejectGate(r) \/ Kill(r)
  BY DEF Next
<1>2. RunOK(r)
  OBVIOUS
<1>3. CASE Post(r) \/ Refuse(r) \/ Launch(r) \/ Output(r) \/ Evict(r)
  BY <1>2, <1>3, QuietActions
<1>4. CASE Approve(r) \/ LoseAnswer(r) \/ RejectGate(r)
  BY <1>2, <1>4, GateActions
<1>5. CASE Kill(r)
  BY <1>2, <1>5, KillIs
<1>6. CASE Advance(r)
  <2>1. CASE Reject(r) \/ Begin(r) \/ Stop(r) \/ Conclude(r) \/ EndRun(r)
    BY <1>2, <2>1, QuietActions
  <2>2. CASE Enter(r)
    BY <1>2, <2>2, EnterIs
  <2>3. CASE StartAgents(r)
    BY <1>2, <2>3, StartAgentsIs
  <2>4. CASE EndAgent(r)
    BY <1>2, <2>4, EndAgentIs
  <2>5. CASE FailWork(r) \/ CompletePhase(r) \/ TimeOut(r)
    BY <1>2, <2>5, GateActions
  <2>6. CASE OpenGate(r)
    BY <1>2, <2>6, OpenGateIs
  <2>7. QED
    BY <1>6, <2>1, <2>2, <2>3, <2>4, <2>5, <2>6 DEF Advance
<1>7. QED
  BY <1>1, <1>3, <1>4, <1>5, <1>6

LEMMA NextOK == Inv /\ [Next]_vars => Inv'
<1>1. ASSUME Inv, Next PROVE Inv'
  <2>1. PICK r \in Runs : Phased(r)
    BY <1>1, EveryStep DEF Inv
  <2>2. Fixed /\ Typed' /\ Rest(r) /\ RunOK(r)' /\ Locks(r)
    BY <2>1 DEF Phased
  <2>3. OrderOK'
    BY <1>1, <2>2, FixedIs DEF Inv
  <2>4. ASSUME NEW q \in Runs PROVE RunOK(q)'
    <3>1. CASE q = r
      BY <2>2, <3>1
    <3>2. CASE q # r
      BY <1>1, <2>2, <3>2, OthersKept DEF Inv
    <3>3. QED
      BY <3>1, <3>2
  <2>5. LockIsReleased'
    <3>1. CASE pc'[r] \in Busy
      BY <3>1 DEF LockIsReleased, Busy
    <3>2. CASE pc'[r] \notin Busy
      <4>1. active' => active /\ pc[r] \notin Busy
        BY <2>2, <3>2 DEF Locks
      <4>2. (active /\ pc[r] \notin Busy) => \E q \in Runs \ {r} : pc[q] \in Busy
        BY <1>1 DEF Inv, LockIsReleased, Busy
      <4>3. \A q \in Runs \ {r} : pc'[q] = pc[q]
        BY <2>2 DEF Rest
      <4>4. active' => \E q \in Runs : pc'[q] \in Busy
        BY <4>1, <4>2, <4>3
      <4>5. QED
        BY <4>4 DEF LockIsReleased, Busy
    <3>3. QED
      BY <3>1, <3>2
  <2>6. QED
    BY <2>2, <2>3, <2>4, <2>5 DEF Inv
<1>2. ASSUME Inv, UNCHANGED vars PROVE Inv'
  <2>1. /\ Fixed /\ UNCHANGED <<pc, at, phase, agent, status, aborted, gate, live, active>>
    BY <1>2 DEF vars, Fixed
  <2>2. /\ Phases' = Phases /\ Ids' = Ids /\ Tables' = Tables /\ Len(Phases)' = Len(Phases) /\ OrderOK'
    BY <1>2, <2>1, FixedIs DEF Inv
  <2>3. Typed'
    BY <1>2, <2>1, <2>2 DEF Inv, Typed, Fixed
  <2>4. ASSUME NEW q \in Runs PROVE RunOK(q)'
    BY <1>2, <2>1, <2>4, QuietRun DEF Inv
  <2>5. LockIsReleased'
    BY <1>2, <2>1 DEF Inv, LockIsReleased
  <2>6. QED
    BY <2>2, <2>3, <2>4, <2>5 DEF Inv
<1>3. QED
  BY <1>1, <1>2

(* Of every run: its phases in order, each behind it over; what is said of  *)
(* it has its reason; and the lock is held for some run in progress.        *)
THEOREM PlaybookInvariant == Spec => []Inv
<1>1. Init => Inv
  BY InitOK
<1>2. Inv /\ [Next]_vars => Inv'
  BY NextOK
<1>3. QED
  BY <1>1, <1>2, PTL DEF Spec

LEMMA InvIsTrue == Inv => ReportIsTrue
<1> SUFFICES ASSUME Inv PROVE ReportIsTrue
  OBVIOUS
<1>0. Typed /\ OrderOK /\ LockIsReleased
  BY DEF Inv
<1>1. TypeOK
  <2>1. phaseOrder \in Seq(Ids) /\ Len(phaseOrder) = Len(Phases)
    BY <1>0 DEF OrderOK, IsOrderOf, Ids
  <2>2. ASSUME NEW r \in Runs, NEW p \in Ids
        PROVE  agent[r][p] \in [Slots(p) -> {"pending", "running", "completed", "failed", "rejected"}]
    <3>1. agent[r] \in Tables
      BY <1>0 DEF Typed
    <3>2. QED
      BY <3>1 DEF Tables, AgentStates
  <2>3. \A r \in Runs : /\ pc[r] \in {"work", "waiting"} => at[r] < Len(Phases)
                        /\ gate[r] # "none" <=> pc[r] = "waiting"
    BY DEF Inv, RunOK, Now
  <2>4. phase \in [Runs -> [Ids -> {"pending", "running", "completed", "failed", "skipped"}]]
    BY <1>0 DEF Typed, PhaseStates
  <2>5. QED
    BY <1>0, <2>1, <2>2, <2>3, <2>4 DEF Typed, TypeOK, Places, RunStates
<1>2. CompletedIsComplete
  <2> SUFFICES ASSUME NEW r \in Runs, "completed" \in {status[r], live[r]}
               PROVE  /\ pc[r] \in {"landing", "over", "gone"}
                      /\ \A p \in Ids : phase[r][p] = "skipped" \/ (phase[r][p] = "completed" /\ Fine(r, p))
    BY DEF CompletedIsComplete, Fine
  <2>1. Past(r) /\ Said(r)
    BY DEF Inv, RunOK
  <2>2. status[r] = "completed"
    BY <2>1 DEF Said
  <2>3. AllDone(r) /\ pc[r] \in Ends
    BY <2>1, <2>2 DEF Said
  <2>4. QED
    BY <2>1, <2>3 DEF AllDone, Past, Ends
<1>3. FailedHasReason
  BY DEF FailedHasReason, Inv, RunOK, Said
<1>4. QED
  BY <1>0, <1>1, <1>2, <1>3 DEF ReportIsTrue

(* No run that overlaps another, fails, is killed or outlives its kill      *)
(* makes the engine or the route report what did not happen.                *)
THEOREM ReportsAreTrue == Spec => []ReportIsTrue
BY PlaybookInvariant, InvIsTrue, PTL

-----------------------------------------------------------------------------
(* Agents start in turn *)

LEMMA SlotsAre ==
    ASSUME Typed, NEW p \in Ids
    PROVE  /\ Slots(p) \subseteq Nat
           /\ \E n \in Nat : Slots(p) \subseteq 0..n
<1>1. Phases \in Seq(Phase)
  BY PlaybookAssumption DEF Typed, Phases
<1>2. Phases[p] \in Phase
  BY <1>1 DEF Ids
<1>3. PICK size \in Nat : size = Phases[p].size
  BY <1>2 DEF Phase
<1>4. PICK n : n = IF Type(p) = "handoff" THEN 2 * size ELSE size
  OBVIOUS
<1>5. n \in Nat /\ Slots(p) = 1..n
  BY <1>3, <1>4 DEF Slots
<1>6. n \in Nat /\ Slots(p) \subseteq Nat /\ Slots(p) \subseteq 0..n
  BY <1>5
<1>7. QED
  BY <1>6, Zenon

LEMMA FirstTodo ==
    ASSUME Typed, NEW r, Cur(r) \in Ids, Todo(r) # {}
    PROVE  Min(Todo(r)) \in Todo(r) /\ Min(Todo(r)) \in Nat
<1>1. PICK n \in Nat : Slots(Cur(r)) \subseteq 0..n
  BY SlotsAre
<1>2. Todo(r) \subseteq 0..n
  BY <1>1 DEF Todo, AgentsIn
<1>3. \E m \in Todo(r) : \A k \in Todo(r) : m <= k
  BY <1>2, LeastOf
<1>4. Min(Todo(r)) \in Todo(r)
  BY <1>3 DEF Min
<1>5. QED
  BY <1>2, <1>4

(* No more than a batch.                                                    *)
LEMMA StartingIsFew ==
    ASSUME Typed, NEW r, Cur(r) \in Ids, Todo(r) # {}
    PROVE  IsFiniteSet(Starting(r)) /\ Cardinality(Starting(r)) <= Batch
<1>1. PICK i \in Nat : i = Min(Todo(r))
  BY FirstTodo
<1>2. Batch \in Nat /\ Batch >= 1
  BY PlaybookAssumption
<1>3. CASE Serial(r)
  <2>1. Starting(r) = {i}
    BY <1>1, <1>3 DEF Starting
  <2>2. IsFiniteSet({i}) /\ Cardinality({i}) = 1
    BY FS_Singleton
  <2>3. QED
    BY <1>2, <2>1, <2>2
<1>4. CASE ~Serial(r)
  <2>1. Starting(r) \subseteq i..(i + Batch - 1)
    BY <1>1, <1>4 DEF Starting
  <2>2. i \in Int /\ (i + Batch - 1) \in Int
    BY <1>2
  <2>3. PICK last \in Int : last = i + Batch - 1
    BY <2>2
  <2>4. IsFiniteSet(i..last) /\ Cardinality(i..last) = IF i > last THEN 0 ELSE last - i + 1
    BY <2>2, FS_Interval
  <2>5. Cardinality(i..last) = Batch
    BY <1>2, <2>3, <2>4
  <2>6. IsFiniteSet(Starting(r)) /\ Cardinality(Starting(r)) <= Cardinality(i..last)
    BY <2>1, <2>3, <2>4, FS_Subset
  <2>7. QED
    BY <2>5, <2>6
<1>5. QED
  BY <1>3, <1>4

LEMMA DepsAreOver ==
    ASSUME Typed, OrderOK, NEW r \in Runs, Past(r), at[r] < Len(Phases), NEW d \in Phases[Cur(r)].deps
    PROVE  phase[r][d] \in Behind
<1>1. at[r] \in Nat /\ at[r] + 1 \in DOMAIN phaseOrder
  BY CurIs
<1>2. PICK i \in DOMAIN phaseOrder : i < at[r] + 1 /\ phaseOrder[i] = d
  BY <1>1 DEF OrderOK, IsOrderOf, Cur
<1>3. DOMAIN phaseOrder = 1..Len(phaseOrder) /\ Len(phaseOrder) \in Nat
  BY DEF OrderOK, IsOrderOf
<1>4. i \in 1..at[r]
  BY <1>1, <1>2, <1>3
<1>5. QED
  BY <1>2, <1>4 DEF Past

LEMMA StartIsInTurn ==
    ASSUME Typed, OrderOK, NEW r \in Runs, RunOK(r), StartAgents(r), NEW p \in Ids, NEW i \in Slots(p)
    PROVE  StartsInTurn(r, p, i)
<1> SUFFICES ASSUME agent[r][p][i] # "running", agent'[r][p][i] = "running"
             PROVE  StartsInTurn(r, p, i)
  BY DEF StartsInTurn
<1>1. /\ AtWork(r) /\ Todo(r) # {} /\ ~(aborted[r] /\ ChecksAbort(r))
  BY DEF StartAgents
<1>2. at[r] < Len(Phases) /\ Cur(r) \in Ids
  BY <1>1, RowIs DEF AtWork
<1>3. /\ \A q \in Ids : q # Cur(r) => agent'[r][q] = agent[r][q]
      /\ \A j \in Slots(Cur(r)) :
           agent'[r][Cur(r)][j] = IF j \in Starting(r) THEN "running" ELSE agent[r][Cur(r)][j]
  BY StartAgentsIs
<1>4. p = Cur(r)
  BY <1>3
<1>5. i \in Starting(r)
  BY <1>3, <1>4
<1>6. \A d \in Phases[p].deps : phase[r][d] \in Behind
  BY <1>2, <1>4, DepsAreOver DEF RunOK
<1>7. aborted[r] => Type(p) = "handoff" /\ i % 2 = 0
  <2> SUFFICES ASSUME aborted[r] PROVE Type(p) = "handoff" /\ i % 2 = 0
    OBVIOUS
  <2>1. Type(p) = "handoff" /\ ~(Min(Todo(r)) % 2 = 1)
    BY <1>1, <1>4 DEF ChecksAbort
  <2>2. i = Min(Todo(r))
    BY <1>4, <1>5, <2>1 DEF Starting, Serial
  <2>3. i \in Nat
    BY <1>1, <1>2, <2>2, FirstTodo
  <2>4. i % 2 \in {0, 1}
    BY <2>3
  <2>5. QED
    BY <2>1, <2>2, <2>4
<1>8. {j \in Slots(p) : agent'[r][p][j] = "running"} \subseteq Starting(r)
  <2>1. \A j \in Slots(p) : agent[r][p][j] # "running"
    BY <1>1, <1>4 DEF AtWork, AgentsIn
  <2>2. QED
    BY <1>3, <1>4, <2>1
<1>9. Cardinality({j \in Slots(p) : agent'[r][p][j] = "running"}) <= Batch
  <2>1. PICK S : S = {j \in Slots(p) : agent'[r][p][j] = "running"}
    OBVIOUS
  <2>2. IsFiniteSet(Starting(r)) /\ Cardinality(Starting(r)) <= Batch
    BY <1>1, <1>2, StartingIsFew
  <2>3. IsFiniteSet(S) /\ Cardinality(S) <= Cardinality(Starting(r))
    BY <1>8, <2>1, <2>2, FS_Subset
  <2>4. Cardinality(S) \in Nat /\ Cardinality(Starting(r)) \in Nat /\ Batch \in Nat
    BY <2>2, <2>3, FS_CardinalityType, PlaybookAssumption
  <2>5. Cardinality(S) <= Batch
    BY <2>2, <2>3, <2>4
  <2>6. QED
    BY <2>1, <2>5
<1>10. QED
  BY <1>6, <1>7, <1>9 DEF StartsInTurn, Behind

LEMMA StepInTurn ==
    ASSUME Inv, Next, NEW r \in Runs, NEW p \in Ids, NEW i \in Slots(p)
    PROVE  StartsInTurn(r, p, i)
<1>1. PICK s \in Runs :
       \/ Post(s) \/ Refuse(s) \/ Launch(s)
       \/ Advance(s) \/ Output(s) \/ Evict(s)
       \/ Approve(s) \/ LoseAnswer(s) \/ RejectGate(s) \/ Kill(s)
  BY DEF Next
<1>2. /\ Typed /\ OrderOK /\ RunOK(r) /\ RunOK(s)
  BY DEF Inv
<1>3. ASSUME agent'[r][p][i] = "running" => agent[r][p][i] = "running"
      PROVE  StartsInTurn(r, p, i)
  BY <1>3 DEF StartsInTurn
<1>4. \/ StartAgents(s) \/ EndAgent(s)
      \/ agent' = agent
  BY <1>1 DEF Post, Refuse, Launch, Advance, Reject, Begin, Enter, Stop, Conclude, FailWork, CompletePhase,
     OpenGate, TimeOut, EndRun, Output, Evict, Approve, LoseAnswer, RejectGate, Kill, KillFlag
<1>5. CASE agent' = agent
  BY <1>3, <1>5
<1>6. CASE r # s /\ (StartAgents(s) \/ EndAgent(s))
  <2>1. Phased(s)
    BY <1>2, <1>6, StartAgentsIs, EndAgentIs
  <2>2. agent'[r] = agent[r]
    BY <1>6, <2>1 DEF Phased, Rest
  <2>3. QED
    BY <1>3, <2>2
<1>7. CASE r = s /\ StartAgents(s)
  BY <1>2, <1>7, StartIsInTurn
<1>8. CASE r = s /\ EndAgent(s)
  <2>1. /\ \A q \in Ids : q # Cur(r) => agent'[r][q] = agent[r][q]
        /\ \A j \in Slots(Cur(r)) :
             agent'[r][Cur(r)][j] = "running" => agent[r][Cur(r)][j] = "running"
    BY <1>2, <1>8, EndAgentIs
  <2>2. QED
    BY <1>3, <2>1
<1>9. QED
  BY <1>4, <1>5, <1>6, <1>7, <1>8

(* An agent starts only when what its phase depends on is over, in a batch, *)
(* and after a kill only to review what had begun.                          *)
THEOREM AgentsTakeTurns == Spec => AgentsStartInTurn
<1> DEFINE InTurn == \A r \in Runs, p \in Ids : \A i \in Slots(p) : StartsInTurn(r, p, i)
<1>1. ASSUME Inv, [Next]_vars PROVE [InTurn]_vars
  <2>1. CASE Next
    BY <1>1, <2>1, StepInTurn
  <2>2. CASE UNCHANGED vars
    BY <2>2
  <2>3. QED
    BY <1>1, <2>1, <2>2
<1>2. QED
  BY <1>1, PlaybookInvariant, PTL DEF Spec, AgentsStartInTurn
=============================================================================
