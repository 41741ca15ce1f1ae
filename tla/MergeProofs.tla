---------------------------- MODULE MergeProofs ----------------------------
(***************************************************************************)
(* Proofs about PlanEditing and BranchMerge: that the routes keep a plan   *)
(* well formed however their requests overlap, and that the report of a    *)
(* merge agrees with the project and with the order of the plan.           *)
(***************************************************************************)
EXTENDS BranchMerge, OrdersProofs

-----------------------------------------------------------------------------
(* Plans *)

LEMMA CreatedIs ==
    ASSUME NEW p \in Seq(Tasks), NEW t \in Tasks, MayCreate(p, t)
    PROVE  /\ Created(p, t) \in Seq(Tasks)
           /\ WellFormed(p) => WellFormed(Created(p, t))
<1> DEFINE n == Len(p) + 1
           q == Created(p, t)
<1>1. /\ q \in Seq(Tasks) /\ n \in Nat /\ DOMAIN p = 1..(n - 1) /\ DOMAIN q = 1..n /\ q[n] = t
      /\ \A i \in 1..(n - 1) : q[i] = p[i]
  BY DEF Created
<1> HIDE DEF n, q
<1>2. Named(p) \subseteq Named(q)
  BY <1>1 DEF Named
<1>3. \A i \in 1..n : i = n \/ i \in 1..(n - 1)
  BY <1>1
<1>4. ASSUME WellFormed(p) PROVE WellFormed(q)
  <2>1. \A i \in 1..(n - 1) : p[i].id # t.id
    BY <1>1 DEF MayCreate, Named
  <2>2. UniqueIds(q)
    BY <1>1, <1>3, <1>4, <2>1 DEF UniqueIds, WellFormed
  <2>3. \A i \in 1..n : q[i].needs \subseteq Named(q)
    BY <1>1, <1>2, <1>3, <1>4 DEF WellFormed, MayCreate
  <2>4. QED
    BY <1>1, <2>2, <2>3 DEF WellFormed
<1>5. QED
  BY <1>1, <1>4 DEF q

LEMMA UpdatedIs ==
    ASSUME NEW p \in Seq(Tasks), NEW t \in Tasks, MayUpdate(p, t)
    PROVE  /\ Updated(p, t) \in Seq(Tasks)
           /\ WellFormed(p) => WellFormed(Updated(p, t))
<1> DEFINE T == {i \in DOMAIN p : p[i].id = t.id}
           first == CHOOSE i \in DOMAIN p :
                      p[i].id = t.id /\ \A j \in DOMAIN p : p[j].id = t.id => i <= j
           q == [p EXCEPT ![first] = t]
<1>0. Len(p) \in Nat /\ DOMAIN p = 1..Len(p)
  OBVIOUS
<1>1. T \in SUBSET (0..Len(p)) /\ T # {}
  BY <1>0 DEF MayUpdate, Named
<1>2. PICK m \in T : \A k \in T : m <= k
  BY <1>0, <1>1, LeastOf
<1>3. m \in DOMAIN p /\ p[m].id = t.id /\ \A j \in DOMAIN p : p[j].id = t.id => m <= j
  BY <1>2
<1>4. first \in DOMAIN p /\ p[first].id = t.id
  BY <1>3
<1>5. Updated(p, t) = q
  BY DEF Updated
<1> HIDE DEF first
<1>6. q \in Seq(Tasks)
  BY <1>4
<1>7. /\ DOMAIN q = DOMAIN p
      /\ \A i \in DOMAIN p : q[i].id = p[i].id /\ q[i] \in {p[i], t}
  BY <1>4
<1> HIDE DEF q
<1>8. Named(q) = Named(p)
  BY <1>7 DEF Named
<1>9. WellFormed(p) => WellFormed(q)
  BY <1>7, <1>8 DEF WellFormed, UniqueIds, MayUpdate
<1>10. QED
  BY <1>5, <1>6, <1>9

LEMMA DeletedIs ==
    ASSUME NEW p \in Seq(Tasks), NEW id \in Ids
    PROVE  /\ Deleted(p, id) \in Seq(Tasks)
           /\ WellFormed(p) => WellFormed(Deleted(p, id))
<1> DEFINE S == {t \in Tasks : t.id # id}
           rest == Kept(p, S)
           q == [i \in DOMAIN rest |-> [rest[i] EXCEPT !.needs = @ \ {id}]]
<1>1. Deleted(p, id) = q
  BY DEF Deleted
<1>2. rest \in Seq(Tasks) /\ \E place : ComesFrom(rest, place, p, S, Len(p))
  BY KeptComesFrom
<1> HIDE DEF rest
<1>3. PICK place : ComesFrom(rest, place, p, S, Len(p))
  BY <1>2
<1>a. Len(rest) \in Nat /\ DOMAIN rest = 1..Len(rest)
  BY <1>2
<1>b. DOMAIN q = 1..Len(rest) /\ q = [i \in 1..Len(rest) |-> q[i]]
  BY <1>a
<1>c. \A i \in DOMAIN rest : q[i] = [rest[i] EXCEPT !.needs = rest[i].needs \ {id}]
  OBVIOUS
<1> HIDE DEF q
<1>4. ASSUME NEW i \in DOMAIN rest
      PROVE  /\ rest[i] \in Tasks /\ q[i] \in Tasks
             /\ q[i].id = rest[i].id /\ q[i].needs = rest[i].needs \ {id}
  <2>1. PICK t \in Tasks : t = rest[i]
    BY <1>2
  <2>2. q[i] = [t EXCEPT !.needs = t.needs \ {id}]
    BY <1>c, <2>1
  <2>3. QED
    BY <2>1, <2>2 DEF Tasks
<1>5. q \in Seq(Tasks) /\ DOMAIN q = DOMAIN rest
  BY <1>4, <1>a, <1>b
<1>6. \A i \in DOMAIN rest : /\ i \in Int /\ place[i] \in DOMAIN p /\ place[i] \in Int
                             /\ rest[i] = p[place[i]] /\ rest[i].id # id
  BY <1>2, <1>3 DEF ComesFrom
<1>7. \A j \in DOMAIN p : p[j].id # id => \E i \in DOMAIN rest : place[i] = j
  <2>1. \A j \in DOMAIN p : j \in 1..Len(p) /\ p[j] \in Tasks
    OBVIOUS
  <2>2. QED
    BY <1>3, <2>1 DEF ComesFrom
<1>8. ASSUME WellFormed(p) PROVE WellFormed(q)
  <2>1. ASSUME NEW i \in DOMAIN rest, NEW j \in DOMAIN rest, rest[i].id = rest[j].id PROVE i = j
    <3>1. place[i] = place[j]
      BY <1>6, <1>8, <2>1 DEF WellFormed, UniqueIds
    <3>2. QED
      BY <1>3, <1>6, <3>1 DEF ComesFrom
  <2>2. ASSUME NEW i \in DOMAIN rest, NEW d \in q[i].needs PROVE d \in Named(q)
    <3>1. d \in p[place[i]].needs /\ d # id
      BY <1>4, <1>6
    <3>2. PICK j \in DOMAIN p : p[j].id = d
      BY <1>6, <1>8, <3>1 DEF WellFormed, Named
    <3>3. PICK k \in DOMAIN rest : place[k] = j
      BY <1>7, <3>1, <3>2
    <3>4. q[k].id = d
      BY <1>4, <1>6, <3>2, <3>3
    <3>5. QED
      BY <1>5, <3>4 DEF Named
  <2>3. QED
    BY <1>4, <1>5, <2>1, <2>2 DEF WellFormed, UniqueIds
<1>9. QED
  BY <1>1, <1>5, <1>8

-----------------------------------------------------------------------------
(* Requests *)

Copies == [open : BOOLEAN, run : {r \in Runs : r.status = "planning"}]

PlanTyped ==
    /\ disk \in Runs
    /\ editor \in [Editors -> Copies]
    /\ posted \in BOOLEAN
    /\ edits \in 0..MaxEdits

(* What every copy of the plan is.                                          *)
PlanGood ==
    \/ posted
    \/ /\ WellFormed(disk.tasks)
       /\ \A e \in Editors : WellFormed(editor[e].run.tasks)

Blank == [open |-> FALSE, run |-> NoRun]

LEMMA BlankIs ==
    /\ NoRun \in Runs /\ NoRun.tasks = <<>> /\ NoRun.status = "planning" /\ NoRun.done = {}
    /\ Blank \in Copies /\ Blank.run = NoRun
    /\ WellFormed(<<>>)
<1>1. <<>> \in Seq(Tasks)
  OBVIOUS
<1>2. NoRun \in Runs /\ NoRun.tasks = <<>> /\ NoRun.status = "planning" /\ NoRun.done = {}
  BY <1>1 DEF NoRun, Runs, Statuses
<1>3. WellFormed(<<>>)
  BY DEF WellFormed, UniqueIds
<1>4. QED
  BY <1>2, <1>3 DEF Blank, Copies

LEMMA PlanTypedOK == ASSUME PlanTyped PROVE PlanTypeOK
BY DEF PlanTyped, PlanTypeOK, Copies

LEMMA PlanInitGood == ASSUME PlanInit PROVE PlanTyped /\ PlanGood
<1>1. PICK p \in InitialPlans : disk = [status |-> "planning", tasks |-> p, done |-> {}]
  BY DEF PlanInit
<1>2. p \in Seq(Tasks) /\ WellFormed(p)
  BY PlanAssumption
<1>3. disk \in Runs /\ disk.tasks = p
  BY <1>1, <1>2 DEF Runs, Statuses
<1>4. editor = [e \in Editors |-> Blank]
  BY DEF PlanInit, Blank
<1>5. PlanTyped
  <2>1. editor \in [Editors -> Copies]
    BY <1>4, BlankIs
  <2>2. posted \in BOOLEAN
    BY DEF PlanInit
  <2>3. edits \in 0..MaxEdits
    BY PlanAssumption DEF PlanInit
  <2>4. QED
    BY <1>3, <2>1, <2>2, <2>3 DEF PlanTyped
<1>6. QED
  BY <1>2, <1>3, <1>4, <1>5, BlankIs DEF PlanGood

(* A copy with another plan, or another status, replaces run.json.          *)
LEMMA SaveKeeps ==
    ASSUME PlanTyped, PlanGood, NEW e \in Editors, NEW p \in Seq(Tasks), Save(e, p),
           posted' \in BOOLEAN, posted => posted',
           ~posted' => (WellFormed(editor[e].run.tasks) => WellFormed(p))
    PROVE  PlanTyped' /\ PlanGood'
<1>1. editor' = [editor EXCEPT ![e] = Blank]
  BY DEF Save, Close, Blank
<1>2. editor[e] \in Copies /\ editor[e].run \in Runs
  BY DEF PlanTyped, Copies
<1>3. disk' \in Runs /\ disk'.tasks = p
  <2>1. PICK r \in Runs : r = editor[e].run
    BY <1>2
  <2>2. disk' = [r EXCEPT !.tasks = p]
    BY <2>1 DEF Save
  <2>3. QED
    BY <2>2 DEF Runs
<1>4. PlanTyped'
  BY <1>1, <1>3, BlankIs DEF PlanTyped, Save
<1>5. ASSUME NEW f \in Editors, ~posted PROVE WellFormed(editor'[f].run.tasks)
  <2>1. editor'[f] = Blank \/ editor'[f] = editor[f]
    BY <1>1 DEF PlanTyped
  <2>2. QED
    BY <1>5, <2>1, BlankIs DEF PlanGood
<1>6. ASSUME ~posted' PROVE WellFormed(disk'.tasks)
  BY <1>3, <1>6 DEF PlanGood
<1>7. QED
  BY <1>4, <1>5, <1>6 DEF PlanGood

LEMMA CloseKeeps ==
    ASSUME PlanTyped, PlanGood, NEW e \in Editors, Close(e), NEW s \in Statuses,
           disk' \in {disk, [editor[e].run EXCEPT !.status = s]}, UNCHANGED <<posted, edits>>
    PROVE  PlanTyped' /\ PlanGood'
<1>1. editor' = [editor EXCEPT ![e] = Blank]
  BY DEF Close, Blank
<1>2. editor[e] \in Copies /\ editor[e].run \in Runs
  BY DEF PlanTyped, Copies
<1>3. disk' \in Runs /\ disk'.tasks \in {disk.tasks, editor[e].run.tasks}
  <2>1. PICK r \in Runs : r = editor[e].run
    BY <1>2
  <2>2. disk' \in {disk, [r EXCEPT !.status = s]}
    BY <2>1
  <2>3. [r EXCEPT !.status = s] \in Runs /\ [r EXCEPT !.status = s].tasks = r.tasks
    BY DEF Runs
  <2>4. QED
    BY <2>1, <2>2, <2>3 DEF PlanTyped
<1>4. PlanTyped'
  BY <1>1, <1>3, BlankIs DEF PlanTyped
<1>5. ASSUME NEW f \in Editors, ~posted PROVE WellFormed(editor'[f].run.tasks)
  <2>1. editor'[f] = Blank \/ editor'[f] = editor[f]
    BY <1>1 DEF PlanTyped
  <2>2. QED
    BY <1>5, <2>1, BlankIs DEF PlanGood
<1>6. QED
  BY <1>3, <1>4, <1>5 DEF PlanGood

LEMMA PlanGoesOn ==
    ASSUME PlanTyped, PlanGood, PlanNext
    PROVE  PlanTyped' /\ PlanGood' /\ (posted => posted')
<1>1. ASSUME NEW e \in Editors, Open(e) PROVE PlanTyped' /\ PlanGood' /\ (posted => posted')
  <2> DEFINE c == [open |-> TRUE, run |-> disk]
  <2>1. c \in Copies /\ c.run = disk
    BY <1>1 DEF Open, MayEdit, Copies, PlanTyped
  <2>2. editor' = [editor EXCEPT ![e] = c] /\ disk' = disk /\ posted' = posted /\ edits' = edits + 1
    BY <1>1 DEF Open
  <2> HIDE DEF c
  <2>3. edits' \in 0..MaxEdits
    BY <1>1, <2>2, PlanAssumption DEF Open, PlanTyped
  <2>4. PlanTyped'
    BY <2>1, <2>2, <2>3 DEF PlanTyped
  <2>5. \A f \in Editors : editor'[f] = c \/ editor'[f] = editor[f]
    BY <2>2 DEF PlanTyped
  <2>6. QED
    BY <2>1, <2>2, <2>4, <2>5 DEF PlanGood
<1>2. \A e \in Editors : editor[e].run.tasks \in Seq(Tasks)
  BY DEF PlanTyped, Copies, Runs
<1>3. ASSUME NEW e \in Editors, CreateTask(e) \/ UpdateTask(e) \/ DeleteTask(e) \/ PostPlan(e)
      PROVE  PlanTyped' /\ PlanGood' /\ (posted => posted')
  <2>1. CASE CreateTask(e)
    <3>1. PICK t \in Tasks : /\ MayCreate(editor[e].run.tasks, t)
                             /\ Save(e, Created(editor[e].run.tasks, t)) /\ posted' = posted
      BY <2>1 DEF CreateTask
    <3>2. QED
      BY <1>2, <3>1, CreatedIs, SaveKeeps DEF PlanTyped
  <2>2. CASE UpdateTask(e)
    <3>1. PICK t \in Tasks : /\ MayUpdate(editor[e].run.tasks, t)
                             /\ Save(e, Updated(editor[e].run.tasks, t)) /\ posted' = posted
      BY <2>2 DEF UpdateTask
    <3>2. QED
      BY <1>2, <3>1, UpdatedIs, SaveKeeps DEF PlanTyped
  <2>3. CASE DeleteTask(e)
    <3>1. PICK id \in Ids : Save(e, Deleted(editor[e].run.tasks, id)) /\ posted' = posted
      BY <2>3 DEF DeleteTask
    <3>2. QED
      BY <1>2, <3>1, DeletedIs, SaveKeeps DEF PlanTyped
  <2>4. CASE PostPlan(e)
    <3>1. PICK p \in PostedPlans : Save(e, p) /\ posted' = TRUE
      BY <2>4 DEF PostPlan
    <3>2. p \in Seq(Tasks)
      BY PlanAssumption
    <3>3. QED
      BY <3>1, <3>2, SaveKeeps
  <2>5. QED
    BY <1>3, <2>1, <2>2, <2>3, <2>4
<1>4. ASSUME NEW e \in Editors, Refuse(e) PROVE PlanTyped' /\ PlanGood' /\ (posted => posted')
  <2>1. Close(e) /\ disk' = disk /\ UNCHANGED <<posted, edits>> /\ "planning" \in Statuses
    BY <1>4 DEF Refuse, Statuses
  <2>2. QED
    BY <2>1, CloseKeeps
<1>5. ASSUME NEW e \in Editors, Approve(e) PROVE PlanTyped' /\ PlanGood' /\ (posted => posted')
  <2>1. /\ Close(e) /\ disk' = [editor[e].run EXCEPT !.status = "running"]
        /\ UNCHANGED <<posted, edits>> /\ "running" \in Statuses
    BY <1>5 DEF Approve, Statuses
  <2>2. QED
    BY <2>1, CloseKeeps
<1>6. ASSUME WorkerDone PROVE PlanTyped' /\ PlanGood' /\ (posted => posted')
  <2>1. PICK i \in DOMAIN disk.tasks : disk' = [disk EXCEPT !.done = @ \cup {disk.tasks[i].id}]
    BY <1>6 DEF WorkerDone
  <2>2. disk.tasks[i].id \in Ids
    <3>1. disk.tasks \in Seq(Tasks)
      BY DEF PlanTyped, Runs
    <3>2. disk.tasks[i] \in Tasks
      BY <3>1
    <3>3. QED
      BY <3>2 DEF Tasks
  <2>3. disk' \in Runs /\ disk'.tasks = disk.tasks
    BY <2>1, <2>2 DEF PlanTyped, Runs
  <2>4. UNCHANGED <<editor, posted, edits>>
    BY <1>6 DEF WorkerDone
  <2>5. QED
    BY <2>3, <2>4 DEF PlanTyped, PlanGood
<1>7. QED
  BY <1>1, <1>3, <1>4, <1>5, <1>6 DEF PlanNext

-----------------------------------------------------------------------------
(* Lists *)

LEMMA HeadTail ==
    ASSUME NEW X, NEW s \in Seq(X), s # <<>>
    PROVE  /\ Tail(s) \in Seq(X) /\ Head(s) \in X
           /\ Elements(s) = Elements(Tail(s)) \cup {Head(s)}
           /\ IsInjective(s) => IsInjective(Tail(s)) /\ Head(s) \notin Elements(Tail(s))
<1> DEFINE n == Len(s)
           t == Tail(s)
<1>1. /\ n \in Nat /\ n >= 1 /\ DOMAIN s = 1..n /\ Head(s) = s[1] /\ Head(s) \in X
      /\ t \in Seq(X) /\ DOMAIN t = 1..(n - 1) /\ \A i \in 1..(n - 1) : t[i] = s[i + 1]
  OBVIOUS
<1> HIDE DEF n, t
<1>2. \A i \in 1..n : i = 1 \/ (i - 1 \in 1..(n - 1) /\ (i - 1) + 1 = i)
  BY <1>1
<1>3. \A i \in 1..(n - 1) : i + 1 \in 1..n /\ i + 1 # 1
  BY <1>1
<1>4. Elements(s) = Elements(t) \cup {Head(s)}
  <2>1. ASSUME NEW i \in 1..n PROVE s[i] \in Elements(t) \cup {Head(s)}
    <3>1. CASE i = 1
      BY <1>1, <3>1
    <3>2. CASE i # 1
      <4>1. PICK k : k = i - 1
        OBVIOUS
      <4>2. k \in DOMAIN t /\ t[k] = s[i]
        BY <1>1, <1>2, <3>2, <4>1
      <4>3. QED
        BY <4>2 DEF Elements
    <3>3. QED
      BY <3>1, <3>2
  <2>2. ASSUME NEW i \in 1..(n - 1) PROVE t[i] \in Elements(s)
    <3>1. i + 1 \in DOMAIN s /\ s[i + 1] = t[i]
      BY <1>1, <1>3
    <3>2. QED
      BY <3>1 DEF Elements
  <2>3. Head(s) \in Elements(s)
    BY <1>1 DEF Elements
  <2>4. QED
    BY <1>1, <2>1, <2>2, <2>3 DEF Elements
<1>5. ASSUME IsInjective(s) PROVE IsInjective(t) /\ Head(s) \notin Elements(t)
  <2>1. \A i, j \in 1..n : s[i] = s[j] => i = j
    BY <1>1, <1>5 DEF IsInjective
  <2>2. ASSUME NEW i \in 1..(n - 1), NEW j \in 1..(n - 1), t[i] = t[j] PROVE i = j
    <3>1. i + 1 = j + 1
      BY <1>1, <1>3, <2>1, <2>2
    <3>2. QED
      BY <3>1
  <2>3. \A i \in 1..(n - 1) : t[i] # Head(s)
    <3>1. 1 \in 1..n
      BY <1>1
    <3>2. QED
      BY <1>1, <1>3, <2>1, <3>1
  <2>4. QED
    BY <1>1, <2>2, <2>3 DEF IsInjective, Elements
<1>6. QED
  BY <1>1, <1>4, <1>5 DEF t

LEMMA AppendIs ==
    ASSUME NEW X, NEW s \in Seq(X), NEW e \in X
    PROVE  /\ Append(s, e) \in Seq(X)
           /\ Elements(Append(s, e)) = Elements(s) \cup {e}
           /\ IsInjective(s) /\ e \notin Elements(s) => IsInjective(Append(s, e))
<1> DEFINE n == Len(s) + 1
           t == Append(s, e)
<1>1. /\ n \in Nat /\ n >= 1 /\ DOMAIN s = 1..(n - 1) /\ DOMAIN t = 1..n /\ t[n] = e
      /\ t \in Seq(X) /\ \A i \in 1..(n - 1) : t[i] = s[i]
  OBVIOUS
<1>2. Elements(t) = Elements(s) \cup {e}
  BY ElementsOfAppend
<1> HIDE DEF n, t
<1>3. ASSUME IsInjective(s), e \notin Elements(s), NEW i \in 1..n, NEW j \in 1..n, t[i] = t[j]
      PROVE  i = j
  <2>1. \A k \in 1..(n - 1) : t[k] = s[k] /\ t[k] # e
    BY <1>1, <1>3 DEF Elements
  <2>2. \A k \in 1..n : k = n \/ k \in 1..(n - 1)
    BY <1>1
  <2>3. CASE i = n \/ j = n
    BY <1>1, <1>3, <2>1, <2>2, <2>3
  <2>4. CASE i \in 1..(n - 1) /\ j \in 1..(n - 1)
    BY <1>1, <1>3, <2>1, <2>4 DEF IsInjective
  <2>5. QED
    BY <2>2, <2>3, <2>4
<1>4. QED
  BY <1>1, <1>2, <1>3 DEF t, IsInjective

LEMMA ConcatIs ==
    ASSUME NEW X, NEW s \in Seq(X), NEW t \in Seq(X)
    PROVE  /\ s \o t \in Seq(X)
           /\ Elements(s \o t) = Elements(s) \cup Elements(t)
           /\ IsInjective(s) /\ IsInjective(t) /\ Elements(s) \cap Elements(t) = {}
                 => IsInjective(s \o t)
<1> DEFINE m == Len(s)
           n == Len(t)
           u == s \o t
<1>1. /\ m \in Nat /\ n \in Nat /\ DOMAIN s = 1..m /\ DOMAIN t = 1..n /\ DOMAIN u = 1..(m + n)
      /\ u \in Seq(X)
      /\ \A i \in 1..(m + n) : u[i] = IF i <= m THEN s[i] ELSE t[i - m]
  OBVIOUS
<1> HIDE DEF m, n, u
<1>2. ASSUME NEW i \in 1..(m + n)
      PROVE  \/ i \in 1..m /\ u[i] = s[i]
             \/ i - m \in 1..n /\ u[i] = t[i - m] /\ ~(i \in 1..m)
  BY <1>1
<1>3. \A i \in 1..m : i \in 1..(m + n) /\ u[i] = s[i]
  BY <1>1
<1>4. ASSUME NEW i \in 1..n PROVE i + m \in 1..(m + n) /\ u[i + m] = t[i]
  <2>1. i + m \in 1..(m + n) /\ ~(i + m <= m) /\ (i + m) - m = i
    BY <1>1
  <2>2. QED
    BY <1>1, <2>1
<1>5. Elements(u) = Elements(s) \cup Elements(t)
  <2>1. \A i \in 1..(m + n) : u[i] \in Elements(s) \cup Elements(t)
    BY <1>1, <1>2 DEF Elements
  <2>2. \A i \in 1..m : s[i] \in Elements(u)
    BY <1>1, <1>3 DEF Elements
  <2>3. \A i \in 1..n : t[i] \in Elements(u)
    BY <1>1, <1>4 DEF Elements
  <2>4. QED
    BY <1>1, <2>1, <2>2, <2>3 DEF Elements
<1>6. ASSUME IsInjective(s), IsInjective(t), Elements(s) \cap Elements(t) = {},
             NEW i \in 1..(m + n), NEW j \in 1..(m + n), u[i] = u[j]
      PROVE  i = j
  <2>1. /\ \A k \in 1..m, l \in 1..n : s[k] # t[l]
        /\ \A k, l \in 1..m : s[k] = s[l] => k = l
        /\ \A k, l \in 1..n : t[k] = t[l] => k = l
    <3>1. \A k \in 1..m : s[k] \in Elements(s)
      BY <1>1 DEF Elements
    <3>2. \A l \in 1..n : t[l] \in Elements(t)
      BY <1>1 DEF Elements
    <3>3. QED
      BY <1>1, <1>6, <3>1, <3>2 DEF IsInjective
  <2>2. CASE i \in 1..m /\ j \in 1..m
    BY <1>2, <1>6, <2>1, <2>2
  <2>3. CASE ~(i \in 1..m) /\ ~(j \in 1..m)
    <3>1. i - m = j - m
      BY <1>2, <1>6, <2>1, <2>3
    <3>2. QED
      BY <1>1, <3>1
  <2>4. QED
    BY <1>2, <1>6, <2>1, <2>2, <2>3
<1>7. QED
  BY <1>1, <1>5, <1>6 DEF u, IsInjective

-----------------------------------------------------------------------------
(* The lists of a merge *)

Merges ==
    [pc : {"idle", "asked", "clean", "resolve", "agent", "checks", "repair", "over"},
     run : Runs, skipped : SUBSET Ids, clean : Seq(Ids), conflicted : Seq(Ids), hard : SUBSET Ids,
     late : SUBSET Ids, merged : Seq(Ids), conflicts : Seq(Ids), step : 0..(Len(Steps) + 1)]

Disjoint(A, B) == A \cap B = {}

(* Each branch is in one of the four lists, once.                           *)
ListsOK(m) ==
    /\ IsInjective(m.merged) /\ IsInjective(m.clean)
    /\ IsInjective(m.conflicted) /\ IsInjective(m.conflicts)
    /\ Disjoint(Elements(m.merged), Elements(m.clean))
    /\ Disjoint(Elements(m.merged), Elements(m.conflicted))
    /\ Disjoint(Elements(m.merged), Elements(m.conflicts))
    /\ Disjoint(Elements(m.clean), Elements(m.conflicted))
    /\ Disjoint(Elements(m.clean), Elements(m.conflicts))
    /\ Disjoint(Elements(m.conflicted), Elements(m.conflicts))
    /\ Elements(m.merged) \cup Elements(m.clean) \cup Elements(m.conflicted) \cup Elements(m.conflicts)
          = Named(DoneTasks(m.run))

(* a may be merged before b.                                                *)
Allowed(m, a, b) ==
    Reaches(DoneTasks(m.run), a, b) /\ ~Reaches(DoneTasks(m.run), a, a) =>
      Group(m, a) < Group(m, b)

(* a does not need b, or has no order to keep.                              *)
Free(m, a, b) == Reaches(DoneTasks(m.run), a, b) => Reaches(DoneTasks(m.run), a, a)

Ordered(m, s) == \A i, j \in DOMAIN s : i < j => Allowed(m, s[i], s[j])

Known(m) == m.skipped \cup m.hard \cup m.late

GroupsOK(m) ==
    /\ Disjoint(Elements(m.clean), Known(m))
    /\ Elements(m.conflicted) \subseteq (m.hard \cup m.late) \ m.skipped
    /\ Disjoint(m.hard, m.late) /\ Disjoint(m.skipped, m.late)

(* Each list is in order, and so is each with the one that comes after it.  *)
(* Two branches of one group are in order only if the first does not need   *)
(* the second, so what failed as clean is in order with what is still to be *)
(* merged as clean only if it does not either.                              *)
OrderOK(m) ==
    /\ GroupsOK(m)
    /\ UniqueIds(DoneTasks(m.run)) =>
         /\ Ordered(m, m.merged) /\ Ordered(m, m.clean) /\ Ordered(m, m.conflicted)
         /\ \A a \in Elements(m.merged), b \in Elements(m.clean) \cup Elements(m.conflicted) :
               Allowed(m, a, b)
         /\ \A a \in m.late, b \in Elements(m.clean) : Free(m, a, b)

(* What a step may do to the lists: nothing; ...                            *)
SameLists(m, v) ==
    /\ v.run = m.run /\ v.skipped = m.skipped /\ v.hard = m.hard /\ v.late = m.late
    /\ v.merged = m.merged /\ v.clean = m.clean
    /\ v.conflicted = m.conflicted /\ v.conflicts = m.conflicts

(* ... merge a clean branch, or find that it conflicts; ...                 *)
CleanMerged(m, v) ==
    /\ m.clean # <<>>
    /\ v.run = m.run /\ v.skipped = m.skipped /\ v.hard = m.hard /\ v.late = m.late
    /\ v.merged = Append(m.merged, Head(m.clean)) /\ v.clean = Tail(m.clean)
    /\ v.conflicted = m.conflicted /\ v.conflicts = m.conflicts

CleanFailed(m, v) ==
    /\ m.clean # <<>>
    /\ v.run = m.run /\ v.skipped = m.skipped /\ v.hard = m.hard
    /\ v.late = m.late \cup {Head(m.clean)}
    /\ v.merged = m.merged /\ v.clean = Tail(m.clean)
    /\ v.conflicted = Append(m.conflicted, Head(m.clean)) /\ v.conflicts = m.conflicts

(* ... merge a conflicted branch, or give it up.                            *)
WasResolved(m, v) ==
    /\ m.conflicted # <<>>
    /\ v.run = m.run /\ v.skipped = m.skipped /\ v.hard = m.hard /\ v.late = m.late
    /\ v.merged = Append(m.merged, Head(m.conflicted)) /\ v.clean = m.clean
    /\ v.conflicted = Tail(m.conflicted) /\ v.conflicts = m.conflicts

WasGivenUp(m, v) ==
    /\ m.conflicted # <<>>
    /\ v.run = m.run /\ v.skipped = m.skipped /\ v.hard = m.hard /\ v.late = m.late
    /\ v.merged = m.merged /\ v.clean = m.clean
    /\ v.conflicted = Tail(m.conflicted) /\ v.conflicts = Append(m.conflicts, Head(m.conflicted))

MovesOne(m, v) ==
    CleanMerged(m, v) \/ CleanFailed(m, v) \/ WasResolved(m, v) \/ WasGivenUp(m, v)

LEMMA MergeFields ==
    ASSUME NEW m \in Merges
    PROVE  /\ m.merged \in Seq(Ids) /\ m.clean \in Seq(Ids)
           /\ m.conflicted \in Seq(Ids) /\ m.conflicts \in Seq(Ids)
           /\ m.run \in Runs /\ m.skipped \subseteq Ids /\ m.hard \subseteq Ids /\ m.late \subseteq Ids
           /\ m.step \in 0..(Len(Steps) + 1)
BY DEF Merges

LEMMA ListsKept ==
    ASSUME NEW m \in Merges, NEW v, SameLists(m, v) \/ MovesOne(m, v), ListsOK(m)
    PROVE  ListsOK(v)
<1>0. /\ m.merged \in Seq(Ids) /\ m.clean \in Seq(Ids)
      /\ m.conflicted \in Seq(Ids) /\ m.conflicts \in Seq(Ids)
  BY MergeFields
<1>1. CASE SameLists(m, v)
  BY <1>1 DEF SameLists, ListsOK
<1>2. CASE CleanMerged(m, v)
  <2>1. PICK x : x = Head(m.clean)
    OBVIOUS
  <2>2. Disjoint(Elements(m.clean), Elements(m.merged))
    BY DEF ListsOK, Disjoint
  <2>3. /\ Elements(m.clean) = Elements(v.clean) \cup {x} /\ x \notin Elements(v.clean)
        /\ Elements(v.merged) = Elements(m.merged) \cup {x}
        /\ IsInjective(v.clean) /\ IsInjective(v.merged)
    <3>1. /\ m.clean # <<>> /\ v.clean = Tail(m.clean) /\ v.merged = Append(m.merged, x)
          /\ IsInjective(m.clean) /\ IsInjective(m.merged) /\ Disjoint(Elements(m.clean), Elements(m.merged))
      BY <1>2, <2>1, <2>2, Zenon DEF CleanMerged, ListsOK
    <3>2. /\ Elements(m.clean) = Elements(v.clean) \cup {x} /\ x \in Ids
          /\ IsInjective(v.clean) /\ x \notin Elements(v.clean)
      BY <1>0, <2>1, <3>1, HeadTail
    <3>3. x \notin Elements(m.merged)
      BY <3>1, <3>2 DEF Disjoint
    <3>4. Elements(v.merged) = Elements(m.merged) \cup {x} /\ IsInjective(v.merged)
      BY <1>0, <3>1, <3>2, <3>3, AppendIs
    <3>5. QED
      BY <3>2, <3>4
  <2>4. v.conflicted = m.conflicted /\ v.conflicts = m.conflicts /\ v.run = m.run
    BY <1>2 DEF CleanMerged
  <2>5. QED
    BY <2>3, <2>4 DEF ListsOK, Disjoint
<1>3. CASE CleanFailed(m, v)
  <2>1. PICK x : x = Head(m.clean)
    OBVIOUS
  <2>3. /\ Elements(m.clean) = Elements(v.clean) \cup {x} /\ x \notin Elements(v.clean)
        /\ Elements(v.conflicted) = Elements(m.conflicted) \cup {x}
        /\ IsInjective(v.clean) /\ IsInjective(v.conflicted)
    <3>1. /\ m.clean # <<>> /\ v.clean = Tail(m.clean) /\ v.conflicted = Append(m.conflicted, x)
          /\ IsInjective(m.clean) /\ IsInjective(m.conflicted) /\ Disjoint(Elements(m.clean), Elements(m.conflicted))
      BY <1>3, <2>1, Zenon DEF CleanFailed, ListsOK
    <3>2. /\ Elements(m.clean) = Elements(v.clean) \cup {x} /\ x \in Ids
          /\ IsInjective(v.clean) /\ x \notin Elements(v.clean)
      BY <1>0, <2>1, <3>1, HeadTail
    <3>3. x \notin Elements(m.conflicted)
      BY <3>1, <3>2 DEF Disjoint
    <3>4. Elements(v.conflicted) = Elements(m.conflicted) \cup {x} /\ IsInjective(v.conflicted)
      BY <1>0, <3>1, <3>2, <3>3, AppendIs
    <3>5. QED
      BY <3>2, <3>4
  <2>4. v.merged = m.merged /\ v.conflicts = m.conflicts /\ v.run = m.run
    BY <1>3 DEF CleanFailed
  <2>5. QED
    BY <2>3, <2>4 DEF ListsOK, Disjoint
<1>4. CASE WasResolved(m, v)
  <2>1. PICK x : x = Head(m.conflicted)
    OBVIOUS
  <2>2. Disjoint(Elements(m.conflicted), Elements(m.merged))
    BY DEF ListsOK, Disjoint
  <2>3. /\ Elements(m.conflicted) = Elements(v.conflicted) \cup {x} /\ x \notin Elements(v.conflicted)
        /\ Elements(v.merged) = Elements(m.merged) \cup {x}
        /\ IsInjective(v.conflicted) /\ IsInjective(v.merged)
    <3>1. /\ m.conflicted # <<>> /\ v.conflicted = Tail(m.conflicted) /\ v.merged = Append(m.merged, x)
          /\ IsInjective(m.conflicted) /\ IsInjective(m.merged) /\ Disjoint(Elements(m.conflicted), Elements(m.merged))
      BY <1>4, <2>1, <2>2, Zenon DEF WasResolved, ListsOK
    <3>2. /\ Elements(m.conflicted) = Elements(v.conflicted) \cup {x} /\ x \in Ids
          /\ IsInjective(v.conflicted) /\ x \notin Elements(v.conflicted)
      BY <1>0, <2>1, <3>1, HeadTail
    <3>3. x \notin Elements(m.merged)
      BY <3>1, <3>2 DEF Disjoint
    <3>4. Elements(v.merged) = Elements(m.merged) \cup {x} /\ IsInjective(v.merged)
      BY <1>0, <3>1, <3>2, <3>3, AppendIs
    <3>5. QED
      BY <3>2, <3>4
  <2>4. v.clean = m.clean /\ v.conflicts = m.conflicts /\ v.run = m.run
    BY <1>4 DEF WasResolved
  <2>5. QED
    BY <2>3, <2>4 DEF ListsOK, Disjoint
<1>5. CASE WasGivenUp(m, v)
  <2>1. PICK x : x = Head(m.conflicted)
    OBVIOUS
  <2>3. /\ Elements(m.conflicted) = Elements(v.conflicted) \cup {x} /\ x \notin Elements(v.conflicted)
        /\ Elements(v.conflicts) = Elements(m.conflicts) \cup {x}
        /\ IsInjective(v.conflicted) /\ IsInjective(v.conflicts)
    <3>1. /\ m.conflicted # <<>> /\ v.conflicted = Tail(m.conflicted) /\ v.conflicts = Append(m.conflicts, x)
          /\ IsInjective(m.conflicted) /\ IsInjective(m.conflicts) /\ Disjoint(Elements(m.conflicted), Elements(m.conflicts))
      BY <1>5, <2>1, Zenon DEF WasGivenUp, ListsOK
    <3>2. /\ Elements(m.conflicted) = Elements(v.conflicted) \cup {x} /\ x \in Ids
          /\ IsInjective(v.conflicted) /\ x \notin Elements(v.conflicted)
      BY <1>0, <2>1, <3>1, HeadTail
    <3>3. x \notin Elements(m.conflicts)
      BY <3>1, <3>2 DEF Disjoint
    <3>4. Elements(v.conflicts) = Elements(m.conflicts) \cup {x} /\ IsInjective(v.conflicts)
      BY <1>0, <3>1, <3>2, <3>3, AppendIs
    <3>5. QED
      BY <3>2, <3>4
  <2>4. v.clean = m.clean /\ v.merged = m.merged /\ v.run = m.run
    BY <1>5 DEF WasGivenUp
  <2>5. QED
    BY <2>3, <2>4 DEF ListsOK, Disjoint
<1>6. QED
  BY <1>1, <1>2, <1>3, <1>4, <1>5 DEF MovesOne

-----------------------------------------------------------------------------
(* The order of a merge *)

LEMMA OrderedTail ==
    ASSUME NEW m, NEW s \in Seq(Ids), s # <<>>, Ordered(m, s)
    PROVE  Ordered(m, Tail(s)) /\ \A b \in Elements(Tail(s)) : Allowed(m, Head(s), b)
<1> DEFINE n == Len(s)
           t == Tail(s)
<1>1. /\ n \in Nat /\ n >= 1 /\ DOMAIN s = 1..n /\ Head(s) = s[1]
      /\ DOMAIN t = 1..(n - 1) /\ \A i \in 1..(n - 1) : t[i] = s[i + 1]
  OBVIOUS
<1> HIDE DEF n, t
<1>2. 1 \in 1..n /\ \A i \in 1..(n - 1) : i + 1 \in 1..n /\ 1 < i + 1
  BY <1>1
<1>3. \A i, j \in 1..(n - 1) : i < j => i + 1 < j + 1
  BY <1>1
<1>4. Ordered(m, t)
  BY <1>1, <1>2, <1>3 DEF Ordered
<1>5. \A i \in 1..(n - 1) : Allowed(m, Head(s), t[i])
  BY <1>1, <1>2 DEF Ordered
<1>6. QED
  BY <1>1, <1>4, <1>5 DEF t, Elements

LEMMA OrderedAppend ==
    ASSUME NEW m, NEW s \in Seq(Ids), Ordered(m, s), NEW e, \A a \in Elements(s) : Allowed(m, a, e)
    PROVE  Ordered(m, Append(s, e))
<1> DEFINE n == Len(s) + 1
           t == Append(s, e)
<1>1. /\ n \in Nat /\ n >= 1 /\ DOMAIN s = 1..(n - 1) /\ DOMAIN t = 1..n /\ t[n] = e
      /\ \A i \in 1..(n - 1) : t[i] = s[i]
  OBVIOUS
<1> HIDE DEF n, t
<1>2. ASSUME NEW i \in 1..n, NEW j \in 1..n, i < j PROVE Allowed(m, t[i], t[j])
  <2>1. i \in 1..(n - 1) /\ t[i] = s[i] /\ s[i] \in Elements(s)
    BY <1>1, <1>2 DEF Elements
  <2>2. CASE j = n
    BY <1>1, <2>1, <2>2
  <2>3. CASE j # n
    <3>1. j \in 1..(n - 1) /\ t[j] = s[j]
      BY <1>1, <2>3
    <3>2. QED
      BY <1>1, <1>2, <2>1, <3>1 DEF Ordered
  <2>4. QED
    BY <2>2, <2>3
<1>3. QED
  BY <1>1, <1>2 DEF t, Ordered

LEMMA GroupIs ==
    ASSUME NEW m, NEW t
    PROVE  /\ Group(m, t) \in 0..3
           /\ t \in m.skipped => Group(m, t) = 0
           /\ t \in m.hard \ m.skipped => Group(m, t) = 2
           /\ t \in m.late \ (m.skipped \cup m.hard) => Group(m, t) = 3
           /\ t \notin Known(m) => Group(m, t) = 1
<1>1. CASE t \in m.skipped
  BY <1>1 DEF Group, Known
<1>2. CASE t \notin m.skipped /\ t \in m.hard
  BY <1>2 DEF Group, Known
<1>3. CASE t \notin m.skipped /\ t \notin m.hard /\ t \in m.late
  BY <1>3 DEF Group, Known
<1>4. CASE t \notin Known(m)
  BY <1>4 DEF Group, Known
<1>5. QED
  BY <1>1, <1>2, <1>3, <1>4 DEF Known

(* A branch that fails as clean goes to a later group.                      *)
LEMMA AllowedKept ==
    ASSUME NEW m, NEW v, NEW x, v.run = m.run, v.skipped = m.skipped, v.hard = m.hard,
           v.late = m.late \/ (v.late = m.late \cup {x} /\ x \notin Known(m))
    PROVE  /\ \A a, b : Allowed(m, a, b) /\ (v.late = m.late \/ a # x) => Allowed(v, a, b)
           /\ \A a, b : Free(m, a, b) => Free(v, a, b)
<1>1. ASSUME NEW t PROVE Group(v, t) = Group(m, t) \/ (t = x /\ Group(m, t) < Group(v, t))
  <2>1. CASE v.late = m.late \/ t # x
    BY <2>1 DEF Group
  <2>2. CASE v.late = m.late \cup {x} /\ x \notin Known(m) /\ t = x
    <3>1. Group(m, x) = 1
      BY <2>2, GroupIs
    <3>2. x \in v.late \ (v.skipped \cup v.hard)
      BY <2>2 DEF Known
    <3>3. Group(v, x) = 3
      BY <3>2, GroupIs
    <3>4. QED
      BY <2>2, <3>1, <3>3
  <2>3. QED
    BY <2>1, <2>2
<1>2. ASSUME NEW a, NEW b, Allowed(m, a, b), v.late = m.late \/ a # x PROVE Allowed(v, a, b)
  <2>1. Group(v, a) = Group(m, a)
    <3>1. CASE v.late = m.late
      BY <3>1 DEF Group
    <3>2. CASE a # x
      BY <1>1, <3>2
    <3>3. QED
      BY <1>2, <3>1, <3>2
  <2>2. Group(m, b) <= Group(v, b) /\ Group(m, a) \in Int /\ Group(m, b) \in Int /\ Group(v, b) \in Int
    <3>1. Group(m, a) \in 0..3 /\ Group(m, b) \in 0..3 /\ Group(v, b) \in 0..3
      BY GroupIs
    <3>2. QED
      BY <1>1, <3>1
  <2>3. QED
    BY <1>2, <2>1, <2>2 DEF Allowed
<1>3. QED
  BY <1>2 DEF Free

(* Where the groups are as they should be, these pairs are in order.        *)
LEMMA GroupsOrder ==
    ASSUME NEW m, GroupsOK(m), NEW a, NEW b
    PROVE  /\ a \in Elements(m.clean) /\ b \in Elements(m.conflicted) => Allowed(m, a, b)
           /\ a \in Elements(m.clean) /\ b \in Elements(m.clean) /\ Allowed(m, a, b) => Free(m, a, b)
           /\ Free(m, a, b) => Allowed(m, a, b)
<1>1. a \in Elements(m.clean) => Group(m, a) = 1
  BY GroupIs DEF GroupsOK, Disjoint
<1>2. b \in Elements(m.clean) => Group(m, b) = 1
  BY GroupIs DEF GroupsOK, Disjoint
<1>3. b \in Elements(m.conflicted) => Group(m, b) \in {2, 3}
  BY GroupIs DEF GroupsOK, Disjoint
<1>4. QED
  BY <1>1, <1>2, <1>3 DEF Allowed, Free

LEMMA OrderKept ==
    ASSUME NEW m \in Merges, NEW v, SameLists(m, v) \/ MovesOne(m, v), ListsOK(m), OrderOK(m),
           m.clean = <<>> \/ ~WasResolved(m, v)
    PROVE  OrderOK(v)
<1>0. /\ m.merged \in Seq(Ids) /\ m.clean \in Seq(Ids)
      /\ m.conflicted \in Seq(Ids) /\ m.conflicts \in Seq(Ids)
  BY MergeFields
<1>1. CASE SameLists(m, v)
  <2>1. /\ GroupsOK(v)
        /\ \A a, b : Allowed(m, a, b) = Allowed(v, a, b) /\ Free(m, a, b) = Free(v, a, b)
    BY <1>1 DEF SameLists, OrderOK, GroupsOK, Known, Allowed, Free, Group
  <2>2. /\ v.run = m.run /\ v.late = m.late /\ v.merged = m.merged /\ v.clean = m.clean
        /\ v.conflicted = m.conflicted
    BY <1>1 DEF SameLists
  <2>3. QED
    BY <2>1, <2>2 DEF OrderOK, Ordered
<1>2. CASE CleanMerged(m, v)
  <2>1. PICK x : x = Head(m.clean)
    OBVIOUS
  <2>2. /\ m.clean # <<>> /\ v.merged = Append(m.merged, x) /\ v.clean = Tail(m.clean)
        /\ v.run = m.run /\ v.skipped = m.skipped /\ v.hard = m.hard /\ v.late = m.late
        /\ v.conflicted = m.conflicted
    BY <1>2, <2>1 DEF CleanMerged
  <2>3. Elements(m.clean) = Elements(v.clean) \cup {x} /\ x \in Ids
    BY <1>0, <2>1, <2>2, HeadTail
  <2>4. Elements(v.merged) = Elements(m.merged) \cup {x}
    BY <1>0, <2>2, <2>3, AppendIs
  <2>5. GroupsOK(v)
    BY <2>2, <2>3 DEF OrderOK, GroupsOK, Known, Disjoint
  <2>6. \A a, b : (Allowed(m, a, b) => Allowed(v, a, b)) /\ (Free(m, a, b) => Free(v, a, b))
    BY <2>2, AllowedKept
  <2>7. ASSUME UniqueIds(DoneTasks(v.run))
        PROVE  /\ Ordered(v, v.merged) /\ Ordered(v, v.clean) /\ Ordered(v, v.conflicted)
               /\ \A a \in Elements(v.merged), b \in Elements(v.clean) \cup Elements(v.conflicted) :
                     Allowed(v, a, b)
               /\ \A a \in v.late, b \in Elements(v.clean) : Free(v, a, b)
    <3>1. /\ Ordered(m, m.merged) /\ Ordered(m, m.clean) /\ Ordered(m, m.conflicted)
          /\ \A a \in Elements(m.merged), b \in Elements(m.clean) \cup Elements(m.conflicted) :
                Allowed(m, a, b)
          /\ \A a \in m.late, b \in Elements(m.clean) : Free(m, a, b)
      BY <2>2, <2>7 DEF OrderOK
    <3>2. Ordered(m, v.clean) /\ \A b \in Elements(v.clean) : Allowed(m, x, b)
      BY <1>0, <2>1, <2>2, <3>1, OrderedTail
    <3>3. Ordered(m, v.merged)
      <4>1. \A a \in Elements(m.merged) : Allowed(m, a, x)
        BY <2>3, <3>1
      <4>2. QED
        BY <1>0, <2>2, <3>1, <4>1, OrderedAppend
    <3>4. \A b \in Elements(v.conflicted) : Allowed(m, x, b)
      BY <2>2, <2>3, GroupsOrder DEF OrderOK
    <3>5. Ordered(v, v.merged) /\ Ordered(v, v.clean) /\ Ordered(v, v.conflicted)
      BY <2>2, <2>6, <3>1, <3>2, <3>3 DEF Ordered
    <3>6. \A a \in Elements(v.merged), b \in Elements(v.clean) \cup Elements(v.conflicted) :
             Allowed(m, a, b)
      BY <2>2, <2>3, <2>4, <3>1, <3>2, <3>4
    <3>7. QED
      BY <2>2, <2>3, <2>6, <3>1, <3>5, <3>6
  <2>8. QED
    BY <2>5, <2>7 DEF OrderOK
<1>3. CASE CleanFailed(m, v)
  <2>1. PICK x : x = Head(m.clean)
    OBVIOUS
  <2>2. /\ m.clean # <<>> /\ v.conflicted = Append(m.conflicted, x) /\ v.clean = Tail(m.clean)
        /\ v.run = m.run /\ v.skipped = m.skipped /\ v.hard = m.hard /\ v.late = m.late \cup {x}
        /\ v.merged = m.merged
    BY <1>3, <2>1 DEF CleanFailed
  <2>3. Elements(m.clean) = Elements(v.clean) \cup {x} /\ x \in Ids /\ x \notin Elements(v.clean)
    BY <1>0, <2>1, <2>2, HeadTail DEF ListsOK
  <2>4. Elements(v.conflicted) = Elements(m.conflicted) \cup {x}
    BY <1>0, <2>2, <2>3, AppendIs
  <2>a. /\ x \notin Known(m) /\ x \notin Elements(m.merged) /\ x \notin Elements(m.conflicted)
    BY <2>3 DEF OrderOK, GroupsOK, ListsOK, Disjoint
  <2>5. GroupsOK(v)
    BY <2>2, <2>3, <2>4, <2>a DEF OrderOK, GroupsOK, Known, Disjoint
  <2>6. /\ \A a, b : Allowed(m, a, b) /\ a # x => Allowed(v, a, b)
        /\ \A a, b : Free(m, a, b) => Free(v, a, b)
    BY <2>2, <2>a, AllowedKept
  <2>7. ASSUME UniqueIds(DoneTasks(v.run))
        PROVE  /\ Ordered(v, v.merged) /\ Ordered(v, v.clean) /\ Ordered(v, v.conflicted)
               /\ \A a \in Elements(v.merged), b \in Elements(v.clean) \cup Elements(v.conflicted) :
                     Allowed(v, a, b)
               /\ \A a \in v.late, b \in Elements(v.clean) : Free(v, a, b)
    <3>1. /\ Ordered(m, m.merged) /\ Ordered(m, m.clean) /\ Ordered(m, m.conflicted)
          /\ \A a \in Elements(m.merged), b \in Elements(m.clean) \cup Elements(m.conflicted) :
                Allowed(m, a, b)
          /\ \A a \in m.late, b \in Elements(m.clean) : Free(m, a, b)
      BY <2>2, <2>7 DEF OrderOK
    <3>2. Ordered(m, v.clean) /\ \A b \in Elements(v.clean) : Allowed(m, x, b)
      BY <1>0, <2>1, <2>2, <3>1, OrderedTail
    <3>3. ASSUME NEW s \in Seq(Ids), Ordered(m, s), x \notin Elements(s) PROVE Ordered(v, s)
      <4>1. \A i \in DOMAIN s : s[i] # x
        BY <3>3 DEF Elements
      <4>2. QED
        BY <2>6, <3>3, <4>1 DEF Ordered
    <3>4. Ordered(v, v.merged) /\ Ordered(v, v.clean) /\ Ordered(v, m.conflicted)
      <4>1. v.clean \in Seq(Ids)
        BY <1>0, <2>2, HeadTail
      <4>2. QED
        BY <1>0, <2>2, <2>3, <2>a, <3>1, <3>2, <3>3, <4>1
    <3>5. \A a \in Elements(m.conflicted) : Allowed(v, a, x)
      <4>1. ASSUME NEW a \in Elements(m.conflicted), a \in m.late PROVE Allowed(v, a, x)
        <5>1. Free(m, a, x)
          BY <2>3, <3>1, <4>1
        <5>2. QED
          BY <2>5, <2>6, <5>1, GroupsOrder
      <4>2. ASSUME NEW a \in Elements(m.conflicted), a \in m.hard PROVE Allowed(v, a, x)
        <5>1. a \in v.hard \ v.skipped /\ x \in v.late \ (v.skipped \cup v.hard)
          BY <2>2, <2>a, <4>1, <4>2 DEF OrderOK, GroupsOK, Known
        <5>2. Group(v, a) = 2 /\ Group(v, x) = 3
          BY <5>1, GroupIs
        <5>3. QED
          BY <5>2 DEF Allowed
      <4>3. QED
        BY <4>1, <4>2 DEF OrderOK, GroupsOK
    <3>6. Ordered(v, v.conflicted)
      BY <1>0, <2>2, <3>4, <3>5, OrderedAppend
    <3>7. \A a \in Elements(v.merged), b \in Elements(v.clean) \cup Elements(v.conflicted) :
             Allowed(v, a, b)
      <4>1. \A a \in Elements(v.merged), b \in Elements(v.clean) \cup Elements(v.conflicted) :
               Allowed(m, a, b) /\ a # x
        BY <2>2, <2>3, <2>4, <2>a, <3>1
      <4>2. QED
        BY <2>6, <4>1
    <3>8. \A a \in v.late, b \in Elements(v.clean) : Free(v, a, b)
      <4>1. ASSUME NEW b \in Elements(v.clean) PROVE Free(m, x, b)
        <5>1. Allowed(m, x, b) /\ x \in Elements(m.clean) /\ b \in Elements(m.clean)
          BY <2>3, <3>2
        <5>2. QED
          BY <5>1, GroupsOrder DEF OrderOK
      <4>2. QED
        BY <2>2, <2>3, <2>6, <3>1, <4>1
    <3>9. QED
      BY <3>4, <3>6, <3>7, <3>8
  <2>8. QED
    BY <2>5, <2>7 DEF OrderOK
<1>4. CASE WasResolved(m, v) \/ WasGivenUp(m, v)
  <2>1. PICK x : x = Head(m.conflicted)
    OBVIOUS
  <2>2. /\ m.conflicted # <<>> /\ v.conflicted = Tail(m.conflicted) /\ v.clean = m.clean
        /\ v.run = m.run /\ v.skipped = m.skipped /\ v.hard = m.hard /\ v.late = m.late
        /\ v.merged = m.merged \/ (v.merged = Append(m.merged, x) /\ m.clean = <<>>)
    BY <1>4, <2>1 DEF WasResolved, WasGivenUp
  <2>3. Elements(m.conflicted) = Elements(v.conflicted) \cup {x} /\ x \in Ids
    BY <1>0, <2>1, <2>2, HeadTail
  <2>4. \/ v.merged = m.merged
        \/ Elements(v.merged) = Elements(m.merged) \cup {x} /\ Elements(m.clean) = {}
    <3>1. Elements(Append(m.merged, x)) = Elements(m.merged) \cup {x}
      BY <1>0, <2>3, AppendIs
    <3>2. QED
      BY <2>2, <3>1 DEF Elements
  <2>5. GroupsOK(v)
    BY <2>2, <2>3 DEF OrderOK, GroupsOK, Known, Disjoint
  <2>6. \A a, b : (Allowed(m, a, b) => Allowed(v, a, b)) /\ (Free(m, a, b) => Free(v, a, b))
    BY <2>2, AllowedKept
  <2>7. ASSUME UniqueIds(DoneTasks(v.run))
        PROVE  /\ Ordered(v, v.merged) /\ Ordered(v, v.clean) /\ Ordered(v, v.conflicted)
               /\ \A a \in Elements(v.merged), b \in Elements(v.clean) \cup Elements(v.conflicted) :
                     Allowed(v, a, b)
               /\ \A a \in v.late, b \in Elements(v.clean) : Free(v, a, b)
    <3>1. /\ Ordered(m, m.merged) /\ Ordered(m, m.clean) /\ Ordered(m, m.conflicted)
          /\ \A a \in Elements(m.merged), b \in Elements(m.clean) \cup Elements(m.conflicted) :
                Allowed(m, a, b)
          /\ \A a \in m.late, b \in Elements(m.clean) : Free(m, a, b)
      BY <2>2, <2>7 DEF OrderOK
    <3>2. Ordered(m, v.conflicted) /\ \A b \in Elements(v.conflicted) : Allowed(m, x, b)
      BY <1>0, <2>1, <2>2, <3>1, OrderedTail
    <3>3. Ordered(m, v.merged)
      <4>1. \A a \in Elements(m.merged) : Allowed(m, a, x)
        BY <2>3, <3>1
      <4>2. QED
        BY <1>0, <2>2, <3>1, <4>1, OrderedAppend
    <3>4. Ordered(v, v.merged) /\ Ordered(v, v.clean) /\ Ordered(v, v.conflicted)
      BY <2>2, <2>6, <3>1, <3>2, <3>3 DEF Ordered
    <3>5. \A a \in Elements(v.merged), b \in Elements(v.clean) \cup Elements(v.conflicted) :
             Allowed(m, a, b)
      BY <2>2, <2>3, <2>4, <3>1, <3>2
    <3>6. QED
      BY <2>2, <2>6, <3>1, <3>4, <3>5
  <2>8. QED
    BY <2>5, <2>7 DEF OrderOK
<1>5. QED
  BY <1>1, <1>2, <1>3, <1>4 DEF MovesOne

-----------------------------------------------------------------------------
(* The scan *)

LEMMA DoneTasksIs ==
    ASSUME NEW r \in Runs
    PROVE  DoneTasks(r) \in Seq(Tasks) /\ DoneTasks(r) \in TaskLists(Ids)
<1>1. r.tasks \in Seq(Tasks)
  BY DEF Runs
<1>2. DoneTasks(r) \in Seq(Tasks)
  BY <1>1, KeptComesFrom DEF DoneTasks
<1>3. QED
  BY <1>2 DEF TaskLists, Tasks

LEMMA KeptIds ==
    \A s \in Seq(Ids) : \A S :
      /\ Elements(Kept(s, S)) = Elements(s) \cap S
      /\ (\A i, j \in DOMAIN s : s[i] = s[j] => i = j) =>
           \A i, j \in DOMAIN Kept(s, S) : Kept(s, S)[i] = Kept(s, S)[j] => i = j
BY KeptElements, Zenon

(* What a scan makes of the order: the lists it leaves are kept from it.    *)
LEMMA ScanIs ==
    ASSUME NEW r \in Runs, NEW order, order = TopoSort(r),
           NEW skip \in SUBSET Elements(order), NEW hard \in SUBSET Elements(order), Disjoint(skip, hard),
           NEW v, DoneTasks(v.run) = DoneTasks(r), v.skipped = skip, v.hard = hard, v.late = {},
           v.merged = Kept(order, skip), v.clean = Kept(order, Ids \ (skip \cup hard)),
           v.conflicted = Kept(order, hard), v.conflicts = <<>>
    PROVE  /\ v.merged \in Seq(Ids) /\ v.clean \in Seq(Ids) /\ v.conflicted \in Seq(Ids)
           /\ Elements(v.merged) = skip
           /\ ListsOK(v) /\ OrderOK(v)
<1> DEFINE rest == Ids \ (skip \cup hard)
           ts == DoneTasks(r)
<1>0. ts \in TaskLists(Ids) /\ IsFiniteSet(Ids)
  BY DoneTasksIs, PlanAssumption
<1>a. order = PostOrder(ts)
  BY DEF TopoSort
<1> HIDE DEF ts
<1>1. /\ order \in Seq(Ids) /\ Elements(order) = Named(ts)
      /\ \A i, j \in DOMAIN order : order[i] = order[j] => i = j
      /\ UniqueIds(ts) => \A j \in DOMAIN order, b \in Named(ts) :
            /\ Reaches(ts, order[j], b)
            /\ ~Reaches(ts, order[j], order[j])
            => \E i \in DOMAIN order : i < j /\ order[i] = b
  BY <1>0, <1>a, PostOrderSorts
<1>2. Elements(order) \subseteq Ids
  BY <1>1 DEF Elements
<1>3. ASSUME NEW A
      PROVE  /\ Kept(order, A) \in Seq(Ids) /\ Elements(Kept(order, A)) = Elements(order) \cap A
             /\ IsInjective(Kept(order, A))
  <2>1. order \in Seq(Ids)
    BY <1>1
  <2>2. Kept(order, A) \in Seq(Ids)
    BY <2>1, KeptComesFrom
  <2>3. /\ Elements(Kept(order, A)) = Elements(order) \cap A
        /\ (\A i, j \in DOMAIN order : order[i] = order[j] => i = j) =>
              \A i, j \in DOMAIN Kept(order, A) : Kept(order, A)[i] = Kept(order, A)[j] => i = j
    BY <2>1, KeptIds
  <2>4. IsInjective(Kept(order, A))
    BY <1>1, <2>3, Zenon DEF IsInjective
  <2>5. QED
    BY <2>2, <2>3, <2>4
<1>4. /\ v.merged \in Seq(Ids) /\ v.clean \in Seq(Ids) /\ v.conflicted \in Seq(Ids)
      /\ Elements(v.merged) = skip /\ Elements(v.conflicted) = hard
      /\ Elements(v.clean) = Elements(order) \ (skip \cup hard)
      /\ IsInjective(v.merged) /\ IsInjective(v.clean) /\ IsInjective(v.conflicted)
  <2>1. /\ v.merged \in Seq(Ids) /\ Elements(v.merged) = Elements(order) \cap skip
        /\ IsInjective(v.merged)
    BY <1>3
  <2>2. /\ v.conflicted \in Seq(Ids) /\ Elements(v.conflicted) = Elements(order) \cap hard
        /\ IsInjective(v.conflicted)
    BY <1>3
  <2>3. /\ v.clean \in Seq(Ids) /\ Elements(v.clean) = Elements(order) \cap rest
        /\ IsInjective(v.clean)
    BY <1>3
  <2>4. /\ Elements(order) \cap skip = skip /\ Elements(order) \cap hard = hard
        /\ Elements(order) \cap rest = Elements(order) \ (skip \cup hard)
    BY <1>2
  <2>5. QED
    BY <2>1, <2>2, <2>3, <2>4
<1>5. Elements(v.conflicts) = {} /\ IsInjective(v.conflicts)
  BY DEF Elements, IsInjective
<1>6. ListsOK(v)
  <2>1. Elements(v.merged) \cup Elements(v.clean) \cup Elements(v.conflicted) \cup Elements(v.conflicts)
          = Elements(order)
    BY <1>4, <1>5
  <2>2. Elements(order) = Named(DoneTasks(v.run))
    BY <1>1 DEF ts
  <2>3. QED
    BY <1>4, <1>5, <2>1, <2>2 DEF ListsOK, Disjoint
<1>7. GroupsOK(v)
  BY <1>4 DEF GroupsOK, Known, Disjoint
(* What is kept of the order is free of what comes after it.                *)
<1>8. ASSUME UniqueIds(ts), NEW A, NEW a \in Seq(Ids), a = Kept(order, A)
      PROVE  Ordered(v, a)
  <2>1. PICK place : ComesFrom(a, place, order, A, Len(order))
    BY <1>1, <1>8, KeptComesFrom
  <2>2. SUFFICES ASSUME NEW i \in DOMAIN a, NEW j \in DOMAIN a, i < j
                 PROVE  Allowed(v, a[i], a[j])
    BY DEF Ordered
  <2>3. /\ place[i] \in DOMAIN order /\ a[i] = order[place[i]]
        /\ place[j] \in DOMAIN order /\ a[j] = order[place[j]]
        /\ place[i] < place[j] /\ place[i] \in Int /\ place[j] \in Int
    <3>1. DOMAIN order = 1..Len(order) /\ Len(order) \in Nat
      BY <1>1
    <3>2. /\ place[i] \in 1..Len(order) /\ place[j] \in 1..Len(order)
          /\ a[i] = order[place[i]] /\ a[j] = order[place[j]]
          /\ place[i] < place[j]
      BY <2>1, <2>2 DEF ComesFrom
    <3>3. QED
      BY <3>1, <3>2
  <2>4. order[place[j]] \in Named(ts)
    BY <1>1, <2>3 DEF Elements
  <2>5. ASSUME Reaches(ts, order[place[i]], order[place[j]]), ~Reaches(ts, order[place[i]], order[place[i]])
        PROVE  FALSE
    <3>1. PICK k \in DOMAIN order : k < place[i] /\ order[k] = order[place[j]]
      BY <1>1, <1>8, <2>3, <2>4, <2>5
    <3>2. k = place[j] /\ k \in Int
      BY <1>1, <2>3, <3>1
    <3>3. QED
      BY <2>3, <3>1, <3>2
  <2>6. QED
    BY <2>3, <2>5 DEF Allowed, ts
<1>9. ASSUME UniqueIds(ts) PROVE Ordered(v, v.merged) /\ Ordered(v, v.clean) /\ Ordered(v, v.conflicted)
  BY <1>4, <1>8, <1>9
<1>10. ASSUME NEW a \in Elements(v.merged), NEW b \in Elements(v.clean) \cup Elements(v.conflicted)
       PROVE  Allowed(v, a, b)
  <2>1. Group(v, a) = 0
    BY <1>4, GroupIs
  <2>2. b \notin v.skipped
    BY <1>4 DEF Disjoint
  <2>3. Group(v, b) \in {1, 2}
    BY <2>2, <1>4 DEF Group
  <2>4. QED
    BY <2>1, <2>3 DEF Allowed
<1>11. OrderOK(v)
  BY <1>7, <1>9, <1>10 DEF OrderOK, ts
<1>12. QED
  BY <1>4, <1>6, <1>11

-----------------------------------------------------------------------------
(* How the merge moves on *)

Merging(m) == m.pc \notin {"idle", "asked"}

ControlOK(m) ==
    /\ m \in Merges
    /\ m.pc = "agent" => m.conflicted # <<>>
    /\ m.pc \in {"checks", "repair"} => m.step >= 1
    /\ m.pc = "repair" => m.step <= Len(Steps)
    /\ m.pc # "clean" => m.clean = <<>>
    /\ m.pc \in {"checks", "repair", "over"} => m.conflicted = <<>>

Fresh(m) ==
    /\ ~Merging(m) /\ m.run = NoRun /\ m.skipped = {} /\ m.hard = {} /\ m.late = {} /\ m.step = 0
    /\ m.merged = <<>> /\ m.clean = <<>> /\ m.conflicted = <<>> /\ m.conflicts = <<>>

GoesOn(m, v) ==
    /\ Merging(m) /\ Merging(v)
    /\ SameLists(m, v) \/ MovesOne(m, v)
    /\ WasResolved(m, v) => m.clean = <<>>

LEMMA LenSteps == Len(Steps) \in Nat
BY MergeAssumption

LEMMA FreshIs ==
    ASSUME NEW v, v \in {NoMerge, [NoMerge EXCEPT !.pc = "asked"]}
    PROVE  Fresh(v) /\ ControlOK(v)
<1>1. <<>> \in Seq(Ids) /\ 0 \in 0..(Len(Steps) + 1)
  BY LenSteps
<1>2. /\ v.pc \in {"idle", "asked"} /\ v.run = NoRun /\ v.skipped = {} /\ v.hard = {} /\ v.late = {} /\ v.step = 0
      /\ v.merged = <<>> /\ v.clean = <<>> /\ v.conflicted = <<>> /\ v.conflicts = <<>>
      /\ v = [pc |-> v.pc, run |-> v.run, skipped |-> v.skipped, clean |-> v.clean,
               conflicted |-> v.conflicted, hard |-> v.hard, late |-> v.late, merged |-> v.merged,
               conflicts |-> v.conflicts, step |-> v.step]
  BY DEF NoMerge
<1>3. v \in Merges
  BY <1>1, <1>2, BlankIs DEF Merges
<1>4. QED
  BY <1>2, <1>3 DEF Fresh, ControlOK, Merging

LEMMA ResolvedIs ==
    ASSUME merge \in Merges, merge.conflicted # <<>>, NEW v, v = Resolved(Head(merge.conflicted))
    PROVE  v \in Merges /\ WasResolved(merge, v) /\ v.pc = "resolve" /\ v.step = merge.step
<1>1. PICK x : x = Head(merge.conflicted)
  OBVIOUS
<1>2. PICK a : a = Tail(merge.conflicted)
  OBVIOUS
<1>3. PICK b : b = Append(merge.merged, x)
  OBVIOUS
<1>4. a \in Seq(Ids) /\ x \in Ids
  BY <1>1, <1>2, MergeFields, HeadTail
<1>5. b \in Seq(Ids)
  BY <1>3, <1>4, MergeFields, AppendIs
<1>6. v = [merge EXCEPT !.pc = "resolve", !.conflicted = a, !.merged = b]
  BY <1>1, <1>2, <1>3 DEF Resolved
<1>7. /\ v \in Merges /\ v.pc = "resolve" /\ v.step = merge.step /\ v.conflicted = a /\ v.merged = b
      /\ v.run = merge.run /\ v.skipped = merge.skipped /\ v.hard = merge.hard /\ v.late = merge.late
      /\ v.clean = merge.clean /\ v.conflicts = merge.conflicts
  BY <1>4, <1>5, <1>6 DEF Merges
<1>8. QED
  BY <1>1, <1>2, <1>3, <1>7 DEF WasResolved

LEMMA GivenUpIs ==
    ASSUME merge \in Merges, merge.conflicted # <<>>, NEW v, v = GivenUp(Head(merge.conflicted))
    PROVE  v \in Merges /\ WasGivenUp(merge, v) /\ v.pc = "resolve" /\ v.step = merge.step
<1>1. PICK x : x = Head(merge.conflicted)
  OBVIOUS
<1>2. PICK a : a = Tail(merge.conflicted)
  OBVIOUS
<1>3. PICK b : b = Append(merge.conflicts, x)
  OBVIOUS
<1>4. a \in Seq(Ids) /\ x \in Ids
  BY <1>1, <1>2, MergeFields, HeadTail
<1>5. b \in Seq(Ids)
  BY <1>3, <1>4, MergeFields, AppendIs
<1>6. v = [merge EXCEPT !.pc = "resolve", !.conflicted = a, !.conflicts = b]
  BY <1>1, <1>2, <1>3 DEF GivenUp
<1>7. /\ v \in Merges /\ v.pc = "resolve" /\ v.step = merge.step /\ v.conflicted = a /\ v.conflicts = b
      /\ v.run = merge.run /\ v.skipped = merge.skipped /\ v.hard = merge.hard /\ v.late = merge.late
      /\ v.clean = merge.clean /\ v.merged = merge.merged
  BY <1>4, <1>5, <1>6 DEF Merges
<1>8. QED
  BY <1>1, <1>2, <1>3, <1>7 DEF WasGivenUp

LEMMA CleanMergedIs ==
    ASSUME merge \in Merges, merge.clean # <<>>, NEW v,
           v = [merge EXCEPT !.clean = Tail(@), !.merged = Append(@, Head(merge.clean))]
    PROVE  v \in Merges /\ CleanMerged(merge, v) /\ v.pc = merge.pc /\ v.step = merge.step
<1>1. PICK x : x = Head(merge.clean)
  OBVIOUS
<1>2. PICK a : a = Tail(merge.clean)
  OBVIOUS
<1>3. PICK b : b = Append(merge.merged, x)
  OBVIOUS
<1>4. a \in Seq(Ids) /\ x \in Ids
  BY <1>1, <1>2, MergeFields, HeadTail
<1>5. b \in Seq(Ids)
  BY <1>3, <1>4, MergeFields, AppendIs
<1>6. v = [merge EXCEPT !.clean = a, !.merged = b]
  BY <1>1, <1>2, <1>3
<1>7. /\ v \in Merges /\ v.pc = merge.pc /\ v.step = merge.step /\ v.clean = a /\ v.merged = b
      /\ v.run = merge.run /\ v.skipped = merge.skipped /\ v.hard = merge.hard /\ v.late = merge.late
      /\ v.conflicted = merge.conflicted /\ v.conflicts = merge.conflicts
  BY <1>4, <1>5, <1>6 DEF Merges
<1>8. QED
  BY <1>1, <1>2, <1>3, <1>7 DEF CleanMerged

LEMMA CleanFailedIs ==
    ASSUME merge \in Merges, merge.clean # <<>>, NEW v,
           v = [merge EXCEPT !.clean = Tail(@), !.conflicted = Append(@, Head(merge.clean)),
                             !.late = @ \cup {Head(merge.clean)}]
    PROVE  v \in Merges /\ CleanFailed(merge, v) /\ v.pc = merge.pc /\ v.step = merge.step
<1>1. PICK x : x = Head(merge.clean)
  OBVIOUS
<1>2. PICK a : a = Tail(merge.clean)
  OBVIOUS
<1>3. PICK b : b = Append(merge.conflicted, x)
  OBVIOUS
<1>4. a \in Seq(Ids) /\ x \in Ids
  BY <1>1, <1>2, MergeFields, HeadTail
<1>5. b \in Seq(Ids)
  BY <1>3, <1>4, MergeFields, AppendIs
<1>c. PICK h : h = merge.late \cup {x}
  OBVIOUS
<1>d. h \in SUBSET Ids
  BY <1>4, <1>c, MergeFields
<1>6. v = [merge EXCEPT !.clean = a, !.conflicted = b, !.late = h]
  BY <1>1, <1>2, <1>3, <1>c
<1>7. /\ v \in Merges /\ v.pc = merge.pc /\ v.step = merge.step /\ v.clean = a /\ v.conflicted = b
      /\ v.run = merge.run /\ v.skipped = merge.skipped /\ v.hard = merge.hard /\ v.late = h
      /\ v.merged = merge.merged /\ v.conflicts = merge.conflicts
  BY <1>4, <1>5, <1>6, <1>d DEF Merges
<1>8. QED
  BY <1>1, <1>2, <1>3, <1>7, <1>c DEF CleanFailed

-----------------------------------------------------------------------------
(* Each action on the merge *)

(* These actions leave the merge alone ...                                  *)
LEMMA StaysIs ==
    ASSUME (PlanNext /\ UNCHANGED mergeVars) \/ ForeignChange \/ StillFails \/ FixStays
             \/ \E s \in Strategies : Apply(s) \/ NoAction(s) \/ ResetFails(s)
    PROVE  merge' = merge
BY DEF mergeVars, ForeignChange, StillFails, FixStays, Apply, NoAction, ResetFails, TryTo

(* ... and these only move it to another place.                             *)
OnlyMoves ==
    \/ GoResolve \/ (\E t \in Ids : AskAgent(t)) \/ GoCheck
    \/ StepPasses \/ StepFails \/ Fixed \/ Exhausted \/ Finish

LEMMA OnlyMovesIs ==
    ASSUME ControlOK(merge), OnlyMoves
    PROVE  GoesOn(merge, merge') /\ SameLists(merge, merge') /\ ControlOK(merge')
<1>0. /\ merge \in Merges /\ merge.step \in 0..(Len(Steps) + 1) /\ Len(Steps) \in Nat
      /\ merge.pc # "clean" => merge.clean = <<>>
      /\ merge.pc \in {"checks", "repair"} => merge.conflicted = <<>>
  BY LenSteps, MergeFields DEF ControlOK
<1>1. ASSUME NEW q \in {"idle", "asked", "clean", "resolve", "agent", "checks", "repair", "over"},
             NEW k \in 0..(Len(Steps) + 1),
             (merge' = [merge EXCEPT !.pc = q] /\ k = merge.step) \/ merge' = [merge EXCEPT !.pc = q, !.step = k],
             Merging(merge), q \notin {"idle", "asked", "clean"}, merge.clean = <<>>,
             q = "agent" => merge.conflicted # <<>>,
             q \in {"checks", "repair"} => k >= 1,
             q = "repair" => k <= Len(Steps),
             q \in {"checks", "repair", "over"} => merge.conflicted = <<>>
      PROVE  GoesOn(merge, merge') /\ SameLists(merge, merge') /\ ControlOK(merge')
  <2>1. merge' \in Merges /\ SameLists(merge, merge') /\ merge'.pc = q /\ merge'.step = k
    BY <1>0, <1>1 DEF Merges, SameLists
  <2>2. merge'.clean = <<>> /\ merge'.conflicted = merge.conflicted
    BY <1>1, <2>1 DEF SameLists
  <2>3. QED
    BY <1>1, <2>1, <2>2 DEF GoesOn, ControlOK, Merging
<1>2. CASE GoResolve
  <2>1. merge.pc = "clean" /\ merge.clean = <<>> /\ merge' = [merge EXCEPT !.pc = "resolve"]
    BY <1>2 DEF GoResolve
  <2>2. QED
    BY <1>0, <1>1, <2>1 DEF Merging
<1>3. ASSUME NEW t \in Ids, AskAgent(t)
      PROVE  GoesOn(merge, merge') /\ SameLists(merge, merge') /\ ControlOK(merge')
  <2>1. merge.pc = "resolve" /\ merge.conflicted # <<>> /\ merge' = [merge EXCEPT !.pc = "agent"]
    BY <1>3 DEF AskAgent, Resolving
  <2>2. QED
    BY <1>0, <1>1, <2>1 DEF Merging
<1>4. CASE GoCheck
  <2>1. PICK k : k = IF merge.merged = <<>> THEN Len(Steps) + 1 ELSE 1
    OBVIOUS
  <2>2. /\ merge.pc = "resolve" /\ merge.conflicted = <<>>
        /\ merge' = [merge EXCEPT !.pc = "checks", !.step = k]
    BY <1>4, <2>1 DEF GoCheck
  <2>3. k \in 0..(Len(Steps) + 1) /\ k >= 1
    BY <1>0, <2>1
  <2>4. QED
    BY <1>0, <1>1, <2>2, <2>3 DEF Merging
<1>5. CASE StepPasses \/ Fixed
  <2>1. PICK k : k = merge.step + 1
    OBVIOUS
  <2>2. /\ merge.pc \in {"checks", "repair"} /\ merge.step <= Len(Steps)
        /\ merge' = [merge EXCEPT !.pc = "checks", !.step = k]
    BY <1>5, <2>1 DEF StepPasses, Fixed, Checking, NextStep, ControlOK
  <2>3. k \in 0..(Len(Steps) + 1) /\ k >= 1
    BY <1>0, <2>1, <2>2
  <2>4. QED
    BY <1>0, <1>1, <2>2, <2>3 DEF Merging
<1>6. CASE StepFails
  <2>1. /\ merge.pc = "checks" /\ merge.step <= Len(Steps) /\ merge.step >= 1
        /\ merge' = [merge EXCEPT !.pc = "repair"]
    BY <1>6 DEF StepFails, Checking, ControlOK
  <2>2. QED
    BY <1>0, <1>1, <2>1 DEF Merging
<1>7. CASE Exhausted
  <2>1. PICK k : k = Len(Steps) + 1
    OBVIOUS
  <2>2. merge.pc = "repair" /\ merge' = [merge EXCEPT !.pc = "checks", !.step = k]
    BY <1>7, <2>1 DEF Exhausted
  <2>3. k \in 0..(Len(Steps) + 1) /\ k >= 1
    BY <1>0, <2>1
  <2>4. QED
    BY <1>0, <1>1, <2>2, <2>3 DEF Merging
<1>8. CASE Finish
  <2>1. merge.pc = "checks" /\ merge' = [merge EXCEPT !.pc = "over"]
    BY <1>8 DEF Finish
  <2>2. QED
    BY <1>0, <1>1, <2>1 DEF Merging
<1>9. QED
  BY <1>2, <1>3, <1>4, <1>5, <1>6, <1>7, <1>8 DEF OnlyMoves

(* Of the head of the conflicted branches: it is merged, or given up.       *)
Resolves(t) ==
    MergeAfterAll(t) \/ MergeRefused(t) \/ CommitsLeftover(t) \/ AgentResolves(t) \/ AgentDrops(t)

GivesUp(t) == CommitFails(t) \/ AgentFails(t)

LEMMA ResolvesIs ==
    ASSUME ControlOK(merge), NEW t \in Ids, Resolves(t) \/ GivesUp(t)
    PROVE  /\ GoesOn(merge, merge') /\ ControlOK(merge')
           /\ merge.pc \in {"resolve", "agent"} /\ merge'.pc = "resolve"
           /\ merge.conflicted # <<>> /\ t = Head(merge.conflicted)
           /\ Resolves(t) => WasResolved(merge, merge')
           /\ GivesUp(t) => WasGivenUp(merge, merge')
<1>1. /\ merge \in Merges /\ merge.conflicted # <<>> /\ t = Head(merge.conflicted)
      /\ merge.pc \in {"resolve", "agent"} /\ merge.clean = <<>>
  BY DEF ControlOK, Resolves, GivesUp, Resolving, MergeAfterAll, MergeRefused, CommitsLeftover,
         AgentResolves, AgentDrops, CommitFails, AgentFails
<1>2. ASSUME Resolves(t)
      PROVE  merge' \in Merges /\ WasResolved(merge, merge') /\ merge'.pc = "resolve" /\ merge'.clean = <<>>
  <2>1. merge' = Resolved(Head(merge.conflicted))
    BY <1>1, <1>2 DEF Resolves, MergeAfterAll, MergeRefused, CommitsLeftover, AgentResolves, AgentDrops
  <2>2. QED
    BY <1>1, <2>1, ResolvedIs DEF WasResolved
<1>3. ASSUME GivesUp(t)
      PROVE  merge' \in Merges /\ WasGivenUp(merge, merge') /\ merge'.pc = "resolve" /\ merge'.clean = <<>>
  <2>1. merge' = GivenUp(Head(merge.conflicted))
    BY <1>1, <1>3 DEF GivesUp, CommitFails, AgentFails, Unresolved
  <2>2. QED
    BY <1>1, <2>1, GivenUpIs DEF WasGivenUp
<1>4. QED
  BY <1>1, <1>2, <1>3 DEF GoesOn, ControlOK, Merging, MovesOne

LEMMA CleansIs ==
    ASSUME ControlOK(merge), MergeClean \/ CleanFails
    PROVE  /\ GoesOn(merge, merge') /\ ControlOK(merge') /\ merge.pc = "clean" /\ merge'.pc = "clean"
           /\ MergeClean => CleanMerged(merge, merge')
           /\ CleanFails => CleanFailed(merge, merge')
<1>1. merge \in Merges /\ merge.clean # <<>> /\ merge.pc = "clean"
  BY DEF ControlOK, MergeClean, CleanFails
<1>2. ASSUME MergeClean
      PROVE  merge' \in Merges /\ CleanMerged(merge, merge') /\ merge'.pc = "clean"
  <2>1. merge' = [merge EXCEPT !.clean = Tail(@), !.merged = Append(@, Head(merge.clean))]
    BY <1>2 DEF MergeClean
  <2>2. QED
    BY <1>1, <2>1, CleanMergedIs
<1>3. ASSUME CleanFails
      PROVE  merge' \in Merges /\ CleanFailed(merge, merge') /\ merge'.pc = "clean"
  <2>1. merge' = [merge EXCEPT !.clean = Tail(@), !.conflicted = Append(@, Head(merge.clean)),
                               !.late = @ \cup {Head(merge.clean)}]
    BY <1>3 DEF CleanFails, PushedBack
  <2>2. QED
    BY <1>1, <2>1, CleanFailedIs
<1>4. ~WasResolved(merge, merge')
  <2>1. merge'.clean # merge.clean
    <3>1. PICK s : s = merge.clean
      OBVIOUS
    <3>2. s \in Seq(Ids) /\ s # <<>>
      BY <1>1, <3>1, MergeFields
    <3>3. Len(Tail(s)) # Len(s)
      BY <3>2
    <3>4. merge'.clean = Tail(s)
      BY <1>2, <1>3, <3>1 DEF CleanMerged, CleanFailed
    <3>5. QED
      BY <3>1, <3>3, <3>4
  <2>2. QED
    BY <2>1 DEF WasResolved
<1>5. QED
  BY <1>1, <1>2, <1>3, <1>4 DEF GoesOn, ControlOK, Merging, MovesOne

(* A merge that is asked for, or lost in a crash or by throwing, is blank.  *)
LEMMA StartsIs ==
    ASSUME AskMerge \/ Crash \/ Throws
    PROVE  Fresh(merge') /\ ControlOK(merge')
BY FreshIs DEF AskMerge, Crash, Throws

LEMMA ScansIs ==
    ASSUME disk \in Runs, ControlOK(merge), Fresh(merge), Scan
    PROVE  /\ ControlOK(merge') /\ merge'.pc = "clean" /\ merge'.conflicts = <<>>
           /\ merge'.run \in Runs /\ merge'.run.tasks = disk.tasks
           /\ merge'.skipped \subseteq head.branches /\ Elements(merge'.merged) = merge'.skipped
           /\ merge'.late = {}
           /\ ListsOK(merge') /\ OrderOK(merge')
<1>1. PICK order : order = TopoSort(disk)
  OBVIOUS
<1>2. PICK skip \in SUBSET (head.branches \cap Elements(order)),
           hard \in SUBSET (Elements(order) \ head.branches) :
         merge' = [merge EXCEPT !.pc = "clean", !.run = [disk EXCEPT !.status = "merging"],
                     !.skipped = skip, !.hard = hard,
                     !.merged = Kept(order, skip),
                     !.clean = Kept(order, Ids \ (skip \cup hard)),
                     !.conflicted = Kept(order, hard)]
  BY <1>1 DEF Scan
<1>3. PICK r : r = [disk EXCEPT !.status = "merging"]
  OBVIOUS
<1>4. PICK a : a = Kept(order, skip)
  OBVIOUS
<1>5. PICK b : b = Kept(order, Ids \ (skip \cup hard))
  OBVIOUS
<1>6. PICK c : c = Kept(order, hard)
  OBVIOUS
<1>7. merge' = [merge EXCEPT !.pc = "clean", !.run = r, !.skipped = skip, !.hard = hard,
                             !.merged = a, !.clean = b, !.conflicted = c]
  BY <1>2, <1>3, <1>4, <1>5, <1>6
<1>8. r \in Runs /\ r.tasks = disk.tasks /\ r.done = disk.done
  BY <1>3 DEF Runs, Statuses
<1>9. DoneTasks(r) = DoneTasks(disk)
  BY <1>8 DEF DoneTasks
<1>10. /\ merge'.pc = "clean" /\ merge'.run = r /\ merge'.skipped = skip /\ merge'.hard = hard /\ merge'.late = {}
       /\ merge'.merged = a /\ merge'.clean = b /\ merge'.conflicted = c
       /\ merge'.conflicts = <<>> /\ merge'.step = merge.step
       /\ merge' = [pc |-> "clean", run |-> r, skipped |-> skip, clean |-> b, conflicted |-> c, hard |-> hard,
                    late |-> {}, merged |-> a, conflicts |-> <<>>, step |-> merge.step]
  BY <1>7 DEF ControlOK, Merges, Fresh
<1>11. Disjoint(skip, hard) /\ skip \in SUBSET Elements(order) /\ hard \in SUBSET Elements(order)
  BY DEF Disjoint
<1>12. /\ a \in Seq(Ids) /\ b \in Seq(Ids) /\ c \in Seq(Ids) /\ Elements(a) = skip
       /\ ListsOK(merge') /\ OrderOK(merge')
  <2>1. DoneTasks(merge'.run) = DoneTasks(disk)
    BY <1>9, <1>10
  <2>2. QED
    BY <1>1, <1>4, <1>5, <1>6, <1>10, <1>11, <2>1, ScanIs
<1>13. skip \in SUBSET Ids /\ hard \in SUBSET Ids
  <2>1. order \in Seq(Ids)
    BY <1>1, DoneTasksIs, PostOrderSorts, PlanAssumption DEF TopoSort
  <2>2. Elements(order) \subseteq Ids
    BY <2>1 DEF Elements
  <2>3. QED
    BY <1>11, <2>2
<1>14. merge' \in Merges
  <2>1. merge.step \in 0..(Len(Steps) + 1) /\ <<>> \in Seq(Ids)
    BY MergeFields DEF ControlOK
  <2>2. QED
    BY <1>8, <1>10, <1>12, <1>13, <2>1 DEF Merges
<1>15. QED
  BY <1>8, <1>10, <1>12, <1>14 DEF ControlOK

-----------------------------------------------------------------------------
(* The project *)

Heads    == [branches : SUBSET Ids, repairs : Nat]
Trees    == [open : SUBSET Ids, unresolved : BOOLEAN, foreign : BOOLEAN]
Cascades == [tried : SUBSET Strategies, before : Heads, applied : BOOLEAN]
Spents   == [merges : 0..MaxMerges, mishaps : 0..MaxMishaps]

ProjectTyped ==
    /\ head \in Heads
    /\ tree \in Trees
    /\ cascade \in Cascades
    /\ fouled \in SUBSET Ids
    /\ known \in Nat
    /\ spent \in Spents

(* Unverified commits are those of the attempt that runs.                   *)
RepairsOK ==
    /\ cascade.before.repairs <= head.repairs /\ known <= head.repairs
    /\ cascade.applied => merge.pc = "repair" /\ cascade.before.repairs = known
    /\ ~cascade.applied => head.repairs = known

LEMMA CleanedIs ==
    ASSUME tree \in Trees, NEW w \in Cleaned
    PROVE  w \in Trees /\ w.open = {} /\ ~w.unresolved
<1>1. PICK f \in BOOLEAN : f = tree.foreign
  BY DEF Trees
<1>2. PICK n \in Trees : n = NoneOpen /\ n.open = {} /\ ~n.unresolved
  <2>1. NoneOpen \in Trees /\ NoneOpen.open = {} /\ ~NoneOpen.unresolved
    BY DEF NoneOpen, Trees
  <2>2. QED
    BY <2>1
<1>3. w \in {n, [n EXCEPT !.foreign = f]}
  BY <1>1, <1>2 DEF Cleaned
<1>4. /\ [n EXCEPT !.foreign = f] \in Trees
      /\ [n EXCEPT !.foreign = f].open = n.open
      /\ [n EXCEPT !.foreign = f].unresolved = n.unresolved
  BY DEF Trees
<1>5. QED
  BY <1>2, <1>3, <1>4

LEMMA TreeFields ==
    ASSUME tree \in Trees
    PROVE  /\ NoneOpen \in Trees /\ [tree EXCEPT !.foreign = FALSE] \in Trees
           /\ [tree EXCEPT !.open = {}, !.unresolved = FALSE] \in Trees
           /\ [tree EXCEPT !.foreign = TRUE] \in Trees
           /\ \A b \in BOOLEAN : [tree EXCEPT !.unresolved = b] \in Trees
           /\ tree.open \in SUBSET Ids
BY DEF Trees, NoneOpen

LEMMA TreesKept ==
    ASSUME tree \in Trees, NEW t \in Ids
    PROVE  /\ NoneOpen \in Trees /\ [tree EXCEPT !.foreign = FALSE] \in Trees
           /\ [tree EXCEPT !.open = {}, !.unresolved = FALSE] \in Trees
           /\ [tree EXCEPT !.foreign = TRUE] \in Trees
           /\ \A b \in BOOLEAN : Opened(t, b) \in Trees /\ Opened(t, b).open = {t}
           /\ \A b \in BOOLEAN : [tree EXCEPT !.unresolved = b] \in Trees
           /\ Begun(t) \in SUBSET Trees
           /\ Cleaned \in SUBSET Trees
           /\ \A w \in Cleaned : w.open = {} /\ ~w.unresolved
           /\ tree.open \in SUBSET Ids
<1>1. \A b \in BOOLEAN : Opened(t, b) \in Trees /\ Opened(t, b).open = {t}
  BY DEF Trees, Opened
<1>2. /\ NoneOpen \in Trees /\ [tree EXCEPT !.foreign = FALSE] \in Trees
      /\ [tree EXCEPT !.open = {}, !.unresolved = FALSE] \in Trees
      /\ [tree EXCEPT !.foreign = TRUE] \in Trees
      /\ \A b \in BOOLEAN : [tree EXCEPT !.unresolved = b] \in Trees
      /\ tree.open \in SUBSET Ids
  BY TreeFields
<1>3. \A w \in Cleaned : w \in Trees /\ w.open = {} /\ ~w.unresolved
  BY CleanedIs
<1>4. Begun(t) \in SUBSET Trees
  BY <1>1 DEF Begun
<1>5. QED
  BY <1>1, <1>2, <1>3, <1>4

LEMMA AbortedIs ==
    ASSUME NEW w \in Trees, NEW u \in Aborted(w)
    PROVE  u \in Trees
BY DEF Aborted, Trees

(* An attempt at a repair leaves no more open than it found.                *)
LEMMA TouchedIs ==
    ASSUME tree \in Trees, NEW u \in Touched
    PROVE  u \in Trees /\ (u.open = tree.open \/ u.open = {}) /\ u.unresolved = tree.unresolved
<1>1. PICK f \in BOOLEAN : f = (tree.foreign \/ tree.open # {})
  OBVIOUS
<1>2. u \in {tree, [tree EXCEPT !.foreign = FALSE], [tree EXCEPT !.open = {}, !.foreign = f]}
  BY <1>1 DEF Touched
<1>3. QED
  BY <1>2 DEF Trees

LEMMA AttemptsIs ==
    ASSUME head \in Heads, tree \in Trees, NEW s \in Strategies, NEW o \in Attempts(s)
    PROVE  /\ o.head \in Heads /\ head.repairs <= o.head.repairs
           /\ head.branches \subseteq o.head.branches
           /\ o.tree \in Trees
           /\ Ready => o.tree.open = {} /\ ~o.tree.unresolved
<1>0. head.branches \in SUBSET Ids /\ head.repairs \in Nat /\ tree.open \in SUBSET Ids
  BY DEF Heads, Trees
<1>1. CASE o \in [head : {head}, tree : Touched]
  <2>1. o.head = head /\ o.tree \in Touched
    BY <1>1
  <2>2. QED
    BY <1>0, <2>1, TouchedIs DEF Ready
<1>2. CASE o \notin [head : {head}, tree : Touched]
  <2>1. /\ o.head.branches \in {head.branches \cup tree.open, head.branches}
        /\ \E n \in 1..2 : o.head.repairs = head.repairs + n
        /\ o.head = [branches |-> o.head.branches, repairs |-> o.head.repairs]
        /\ o.tree \in Cleaned
    BY <1>2 DEF Attempts
  <2>2. o.tree \in Trees /\ o.tree.open = {} /\ ~o.tree.unresolved
    BY <2>1, CleanedIs
  <2>3. PICK b, r : b = o.head.branches /\ r = o.head.repairs
    OBVIOUS
  <2>4. b \in SUBSET Ids /\ head.branches \subseteq b /\ r \in Nat /\ head.repairs <= r
    BY <1>0, <2>1, <2>3
  <2>5. [branches |-> b, repairs |-> r] \in Heads
    BY <2>4 DEF Heads
  <2>6. QED
    BY <2>1, <2>2, <2>3, <2>4, <2>5
<1>3. QED
  BY <1>1, <1>2

LEMMA HeadsKept ==
    ASSUME head \in Heads, NEW u \in SUBSET Ids, NEW n \in Nat
    PROVE  /\ [head EXCEPT !.branches = @ \cup u] \in Heads
           /\ [head EXCEPT !.branches = @ \cup u].repairs = head.repairs
           /\ [head EXCEPT !.branches = @ \cup u].branches = head.branches \cup u
           /\ [head EXCEPT !.repairs = n] \in Heads
           /\ [head EXCEPT !.repairs = n].repairs = n
           /\ [head EXCEPT !.repairs = n].branches = head.branches
           /\ head.branches \in SUBSET Ids /\ head.repairs \in Nat
<1>1. head.branches \in SUBSET Ids /\ head.repairs \in Nat
  BY DEF Heads
<1>2. PICK b : b = head.branches \cup u
  OBVIOUS
<1>3. b \in SUBSET Ids
  BY <1>1, <1>2
<1>4. [head EXCEPT !.branches = @ \cup u] = [head EXCEPT !.branches = b]
  BY <1>2
<1>5. [head EXCEPT !.branches = b] \in Heads /\ [head EXCEPT !.branches = b].repairs = head.repairs
      /\ [head EXCEPT !.branches = b].branches = b
  BY <1>3 DEF Heads
<1>6. [head EXCEPT !.repairs = n] \in Heads /\ [head EXCEPT !.repairs = n].repairs = n
      /\ [head EXCEPT !.repairs = n].branches = head.branches
  BY DEF Heads
<1>7. QED
  BY <1>1, <1>2, <1>4, <1>5, <1>6

LEMMA NoCascadeIs ==
    NoCascade \in Cascades /\ NoCascade.before.repairs = 0 /\ ~NoCascade.applied
BY DEF Cascades, Heads, NoCascade, NoHead

(* A strategy is tried.                                                     *)
LEMMA TryIs ==
    ASSUME head \in Heads, cascade \in Cascades, NEW s \in Strategies, NEW b \in BOOLEAN, TryTo(s, b)
    PROVE  /\ cascade' \in Cascades /\ cascade'.before = head /\ cascade'.applied = b
           /\ merge.pc = "repair" /\ ~cascade.applied
           /\ UNCHANGED <<disk, editor, posted, edits, merge, fouled, spent>>
<1>1. PICK t : t = TriedToo(s)
  OBVIOUS
<1>2. t \in SUBSET Strategies
  BY <1>1 DEF TriedToo, Cascades
<1>3. cascade' = [tried |-> t, before |-> head, applied |-> b]
  BY <1>1 DEF TryTo
<1>4. cascade' \in Cascades /\ cascade'.before = head /\ cascade'.applied = b
  BY <1>2, <1>3 DEF Cascades
<1>5. QED
  BY <1>4 DEF TryTo, Eligible, planVars

(* What the merge itself does to the project: branches only.                *)
BranchesOnly ==
    /\ tree' \in Trees /\ fouled' \in SUBSET Ids
    /\ head' \in Heads /\ head'.repairs = head.repairs
    /\ UNCHANGED <<cascade, known, spent>>
    /\ fouled \subseteq fouled'

LEMMA MergeOnBranches ==
    ASSUME ProjectTyped, ControlOK(merge),
           Scan \/ MergeClean \/ CleanFails \/ GoResolve \/ GoCheck \/ StepPasses \/ Finish
             \/ \E t \in Ids : Resolves(t) \/ GivesUp(t) \/ AskAgent(t)
    PROVE  BranchesOnly
<1>0. head \in Heads /\ tree \in Trees /\ fouled \in SUBSET Ids
  BY DEF ProjectTyped
<1>1. CASE Scan \/ GoResolve \/ GoCheck \/ StepPasses \/ Finish
  BY <1>0, <1>1 DEF Scan, GoResolve, GoCheck, StepPasses, Finish, BranchesOnly
<1>2. CASE MergeClean
  <2>1. PICK t : t = Head(merge.clean)
    OBVIOUS
  <2>2. t \in Ids
    BY <1>2, <2>1, HeadTail, MergeFields DEF MergeClean, ControlOK
  <2>3. head' = [head EXCEPT !.branches = @ \cup {t}] /\ tree' = tree /\ fouled' = fouled
        /\ UNCHANGED <<cascade, known, spent>>
    BY <1>2, <2>1 DEF MergeClean, Merged
  <2>4. QED
    BY <1>0, <2>2, <2>3, HeadsKept, PlanAssumption DEF BranchesOnly
<1>3. CASE CleanFails
  <2>1. PICK t : t = Head(merge.clean)
    OBVIOUS
  <2>2. t \in Ids
    BY <1>3, <2>1, HeadTail, MergeFields DEF CleanFails, ControlOK
  <2>3. PICK w \in Begun(t) : tree' \in Aborted(w)
    BY <1>3, <2>1 DEF CleanFails
  <2>4. tree' \in Trees
    BY <1>0, <2>2, <2>3, TreesKept, AbortedIs
  <2>5. QED
    BY <1>0, <1>3, <2>4 DEF CleanFails, BranchesOnly
<1>4. ASSUME NEW t \in Ids, Resolves(t) \/ GivesUp(t) \/ AskAgent(t) PROVE BranchesOnly
  <2>0. /\ NoneOpen \in Trees /\ [tree EXCEPT !.foreign = FALSE] \in Trees
        /\ [tree EXCEPT !.open = {}, !.unresolved = FALSE] \in Trees
        /\ Cleaned \in SUBSET Trees /\ Begun(t) \in SUBSET Trees /\ tree.open \in SUBSET Ids
        /\ \A b \in BOOLEAN : Opened(t, b) \in Trees /\ [tree EXCEPT !.unresolved = b] \in Trees
    BY <1>0, TreesKept
  <2>1. CASE MergeAfterAll(t)
    BY <1>0, <2>0, <2>1, HeadsKept DEF MergeAfterAll, Merged, BranchesOnly
  <2>2. CASE MergeRefused(t)
    BY <1>0, <2>0, <2>2 DEF MergeRefused, BranchesOnly
  <2>3. CASE CommitsLeftover(t)
    BY <1>0, <2>0, <2>3, HeadsKept DEF CommitsLeftover, BranchesOnly
  <2>4. CASE AgentResolves(t)
    BY <1>0, <2>0, <2>4, HeadsKept DEF AgentResolves, BranchesOnly
  <2>5. CASE AgentDrops(t)
    BY <1>0, <2>0, <2>5 DEF AgentDrops, BranchesOnly
  <2>6. CASE GivesUp(t)
    <3>1. PICK w \in Trees : tree' \in Aborted(w)
      BY <2>0, <2>6 DEF GivesUp, CommitFails, AgentFails
    <3>2. tree' \in Trees
      BY <3>1, AbortedIs
    <3>3. QED
      BY <1>0, <2>6, <3>2 DEF GivesUp, CommitFails, AgentFails, BranchesOnly
  <2>7. CASE AskAgent(t)
    <3>1. tree' \in Trees
      BY <1>0, <2>0, <2>7 DEF AskAgent
    <3>2. QED
      BY <1>0, <2>7, <3>1 DEF AskAgent, BranchesOnly
  <2>8. QED
    BY <1>4, <2>1, <2>2, <2>3, <2>4, <2>5, <2>6, <2>7 DEF Resolves
<1>5. QED
  BY <1>1, <1>2, <1>3, <1>4

(* A fix that did not work is undone, or known, before anything else is     *)
(* tried.                                                                   *)
LEMMA ProjectGoesOn ==
    ASSUME ProjectTyped, RepairsOK, ControlOK(merge), Next
    PROVE  ProjectTyped' /\ RepairsOK'
<1>0. /\ head \in Heads /\ tree \in Trees /\ cascade \in Cascades
      /\ fouled \in SUBSET Ids /\ known \in Nat /\ spent \in Spents
      /\ head.repairs \in Nat /\ cascade.before \in Heads /\ cascade.applied \in BOOLEAN
      /\ cascade.before.repairs \in Nat
  BY DEF ProjectTyped, Heads, Cascades
<1>1. CASE PlanNext /\ UNCHANGED mergeVars
  BY <1>1 DEF ProjectTyped, RepairsOK, mergeVars
<1>2. CASE Scan \/ MergeClean \/ CleanFails \/ GoResolve \/ GoCheck \/ StepPasses \/ Finish
             \/ \E t \in Ids : Resolves(t) \/ GivesUp(t) \/ AskAgent(t)
  <2>1. BranchesOnly
    BY <1>2, MergeOnBranches
  <2>2. merge.pc # "repair"
    BY <1>2 DEF Scan, MergeClean, CleanFails, GoResolve, GoCheck, StepPasses, Checking, Finish, Resolves,
         GivesUp, AskAgent, Resolving, MergeAfterAll, MergeRefused, CommitsLeftover, AgentResolves,
         AgentDrops, CommitFails, AgentFails
  <2>3. ~cascade.applied
    BY <2>2 DEF RepairsOK
  <2>4. ProjectTyped'
    BY <1>0, <2>1 DEF ProjectTyped, BranchesOnly
  <2>5. RepairsOK'
    BY <2>1, <2>3 DEF RepairsOK, BranchesOnly
  <2>6. QED
    BY <2>4, <2>5
<1>3. CASE AskMerge
  <2>1. spent' \in Spents
    <3>1. PICK n : n = spent.merges + 1
      OBVIOUS
    <3>2. n \in 0..MaxMerges
      BY <1>0, <1>3, <3>1, MergeAssumption DEF AskMerge, Spents
    <3>3. spent' = [spent EXCEPT !.merges = n]
      BY <1>3, <3>1 DEF AskMerge
    <3>4. QED
      BY <1>0, <3>2, <3>3 DEF Spents
  <2>2. ~cascade.applied
    BY <1>3 DEF RepairsOK, AskMerge
  <2>3. UNCHANGED <<head, tree, cascade, fouled, known>>
    BY <1>3 DEF AskMerge
  <2>4. ProjectTyped'
    BY <1>0, <2>1, <2>3 DEF ProjectTyped
  <2>5. QED
    BY <2>2, <2>3, <2>4 DEF RepairsOK
<1>4. CASE StepFails
  <2>1. ~cascade.applied
    BY <1>4 DEF StepFails, Checking, RepairsOK
  <2>2. cascade' = [tried |-> {}, before |-> head, applied |-> FALSE]
        /\ UNCHANGED <<head, tree, fouled, known, spent>>
    BY <1>4 DEF StepFails
  <2>3. cascade' \in Cascades /\ cascade'.before = head /\ ~cascade'.applied
    BY <1>0, <2>2 DEF Cascades
  <2>4. QED
    BY <1>0, <2>1, <2>2, <2>3 DEF ProjectTyped, RepairsOK
<1>5. ASSUME NEW s \in Strategies, Apply(s) PROVE ProjectTyped' /\ RepairsOK'
  <2>1. PICK o \in Attempts(s) : head' = o.head /\ tree' = o.tree
    BY <1>5 DEF Apply
  <2>2. head' \in Heads /\ head.repairs <= head'.repairs /\ tree' \in Trees
    BY <1>0, <2>1, AttemptsIs
  <2>3. TryTo(s, TRUE) /\ known' = known
    BY <1>5 DEF Apply
  <2>4. /\ cascade' \in Cascades /\ cascade'.before = head /\ cascade'.applied
        /\ merge.pc = "repair" /\ ~cascade.applied /\ UNCHANGED <<merge, fouled, spent>>
    BY <1>0, <2>3, TryIs
  <2>5. QED
    BY <1>0, <2>2, <2>3, <2>4 DEF ProjectTyped, RepairsOK
<1>6. ASSUME NEW s \in Strategies, NoAction(s) PROVE ProjectTyped' /\ RepairsOK'
  <2>1. TryTo(s, FALSE) /\ tree' \in Touched \cup Cleaned /\ UNCHANGED <<head, known>>
    BY <1>6 DEF NoAction
  <2>2. /\ cascade' \in Cascades /\ cascade'.before = head /\ ~cascade'.applied
        /\ ~cascade.applied /\ UNCHANGED <<merge, fouled, spent>>
    BY <1>0, <2>1, TryIs
  <2>3. tree' \in Trees
    BY <1>0, <2>1, TouchedIs, CleanedIs
  <2>4. QED
    BY <1>0, <2>1, <2>2, <2>3 DEF ProjectTyped, RepairsOK
<1>b. ASSUME NEW s \in Strategies, ResetFails(s) PROVE ProjectTyped' /\ RepairsOK'
  <2>1. PICK o \in Attempts(s) : head' = o.head /\ tree' = o.tree
    BY <1>b DEF ResetFails
  <2>2. head' \in Heads /\ head.repairs <= head'.repairs /\ tree' \in Trees /\ head'.repairs \in Nat
    BY <1>0, <2>1, AttemptsIs DEF Heads
  <2>3. TryTo(s, FALSE) /\ known' = head'.repairs
    BY <1>b DEF ResetFails
  <2>4. /\ cascade' \in Cascades /\ cascade'.before = head /\ ~cascade'.applied
        /\ UNCHANGED <<merge, fouled, spent>>
    BY <1>0, <2>3, TryIs
  <2>5. QED
    BY <1>0, <2>2, <2>3, <2>4 DEF ProjectTyped, RepairsOK
<1>7. CASE Fixed
  <2>1. known' = head.repairs /\ cascade' = NoCascade /\ UNCHANGED <<head, tree, fouled, spent>>
    BY <1>7 DEF Fixed
  <2>2. cascade' \in Cascades /\ cascade'.before.repairs = 0 /\ ~cascade'.applied
    BY <2>1, NoCascadeIs
  <2>3. QED
    BY <1>0, <2>1, <2>2 DEF ProjectTyped, RepairsOK
<1>8. CASE StillFails \/ FixStays
  <2>1. cascade' = [cascade EXCEPT !.applied = FALSE] /\ cascade.applied /\ UNCHANGED <<fouled, spent>>
    BY <1>8 DEF StillFails, FixStays
  <2>2. cascade' \in Cascades /\ cascade'.before = cascade.before /\ ~cascade'.applied
    BY <1>0, <2>1 DEF Cascades
  <2>3. CASE StillFails
    <3>1. head' = cascade.before /\ tree' \in Cleaned /\ known' = known
      BY <2>3 DEF StillFails, RolledBack
    <3>2. tree' \in Trees
      BY <1>0, <3>1, CleanedIs
    <3>3. QED
      BY <1>0, <2>1, <2>2, <3>1, <3>2 DEF ProjectTyped, RepairsOK
  <2>4. CASE FixStays
    <3>1. known' = head.repairs /\ UNCHANGED <<head, tree>>
      BY <2>4 DEF FixStays
    <3>2. QED
      BY <1>0, <2>1, <2>2, <3>1 DEF ProjectTyped, RepairsOK
  <2>5. QED
    BY <1>8, <2>3, <2>4
<1>9. CASE Exhausted
  <2>1. cascade' = NoCascade /\ ~cascade.applied /\ UNCHANGED <<head, tree, fouled, known, spent>>
    BY <1>9 DEF Exhausted
  <2>2. cascade' \in Cascades /\ cascade'.before.repairs = 0 /\ ~cascade'.applied
    BY <2>1, NoCascadeIs
  <2>3. QED
    BY <1>0, <2>1, <2>2 DEF ProjectTyped, RepairsOK
<1>a. ASSUME spent.mishaps < MaxMishaps, spent' = [spent EXCEPT !.mishaps = @ + 1] PROVE spent' \in Spents
  <2>1. PICK n : n = spent.mishaps + 1
    OBVIOUS
  <2>2. n \in 0..MaxMishaps
    BY <1>0, <1>a, <2>1, MergeAssumption DEF Spents
  <2>3. spent' = [spent EXCEPT !.mishaps = n]
    BY <1>a, <2>1
  <2>4. QED
    BY <1>0, <2>2, <2>3 DEF Spents
<1>10. CASE Crash
  <2>1. known' = head.repairs /\ cascade' = NoCascade /\ UNCHANGED <<head, fouled>> /\ spent' \in Spents
    BY <1>10, <1>a DEF Crash
  <2>2. cascade' \in Cascades /\ cascade'.before.repairs = 0 /\ ~cascade'.applied
    BY <2>1, NoCascadeIs
  <2>3. tree' \in Trees
    BY <1>0, <1>10 DEF Crash, Trees
  <2>4. QED
    BY <1>0, <2>1, <2>2, <2>3 DEF ProjectTyped, RepairsOK
<1>11. CASE ForeignChange
  <2>1. UNCHANGED <<merge, head, cascade, fouled, known>> /\ spent' \in Spents
        /\ tree' = [tree EXCEPT !.foreign = TRUE]
    BY <1>11, <1>a DEF ForeignChange
  <2>2. tree' \in Trees
    BY <1>0, <2>1, TreeFields
  <2>3. QED
    BY <1>0, <2>1, <2>2 DEF ProjectTyped, RepairsOK
<1>12. CASE Throws
  <2>1. UNCHANGED <<head, tree, cascade, fouled, known>> /\ spent' \in Spents
    BY <1>12, <1>a DEF Throws
  <2>2. ~cascade.applied
    BY <1>12 DEF Throws, RepairsOK
  <2>3. QED
    BY <1>0, <2>1, <2>2 DEF ProjectTyped, RepairsOK
<1>13. QED
  BY <1>1, <1>2, <1>3, <1>4, <1>5, <1>6, <1>b, <1>7, <1>8, <1>9, <1>10, <1>11, <1>12
     DEF Next, MergeStep, Resolves, GivesUp

-----------------------------------------------------------------------------
(* The merge and the plan it works on *)

(* The copy of the run that a merge saves again and again is well formed.   *)
RunOK == posted \/ WellFormed(merge.run.tasks)

MergeOK ==
    /\ ControlOK(merge)
    /\ Fresh(merge) \/ (Merging(merge) /\ ListsOK(merge))
    /\ OrderOK(merge)

LEMMA FreshOrder == ASSUME NEW m, Fresh(m) PROVE OrderOK(m)
BY DEF Fresh, OrderOK, GroupsOK, Known, Disjoint, Ordered, Elements

LEMMA MergeGoesOn ==
    ASSUME disk \in Runs, MergeOK, Next
    PROVE  /\ MergeOK'
           /\ \/ merge'.run = merge.run
              \/ Fresh(merge')
              \/ Scan /\ merge'.run.tasks = disk.tasks
<1>1. ASSUME merge' = merge PROVE MergeOK'
  BY <1>1 DEF MergeOK
<1>2. ASSUME Fresh(merge'), ControlOK(merge') PROVE MergeOK'
  BY <1>2, FreshOrder DEF MergeOK
<1>3. ASSUME GoesOn(merge, merge'), ControlOK(merge') PROVE MergeOK' /\ merge'.run = merge.run
  <2>1. merge \in Merges /\ ListsOK(merge) /\ OrderOK(merge) /\ Merging(merge')
    BY <1>3 DEF MergeOK, GoesOn, ControlOK, Fresh
  <2>2. ListsOK(merge')
    BY <1>3, <2>1, ListsKept DEF GoesOn
  <2>3. OrderOK(merge')
    BY <1>3, <2>1, OrderKept DEF GoesOn
  <2>4. merge'.run = merge.run
    BY <1>3 DEF GoesOn, SameLists, MovesOne, CleanMerged, CleanFailed, WasResolved, WasGivenUp
  <2>5. QED
    BY <1>3, <2>1, <2>2, <2>3, <2>4 DEF MergeOK
<1>4. ControlOK(merge)
  BY DEF MergeOK
<1>5. CASE (PlanNext /\ UNCHANGED mergeVars) \/ ForeignChange \/ StillFails \/ FixStays
             \/ \E s \in Strategies : Apply(s) \/ NoAction(s) \/ ResetFails(s)
  BY <1>1, <1>5, StaysIs
<1>6. CASE OnlyMoves \/ MergeClean \/ CleanFails \/ \E t \in Ids : Resolves(t) \/ GivesUp(t)
  <2>1. GoesOn(merge, merge') /\ ControlOK(merge')
    BY <1>4, <1>6, OnlyMovesIs, CleansIs, ResolvesIs
  <2>2. QED
    BY <1>3, <2>1
<1>7. CASE AskMerge \/ Crash \/ Throws
  BY <1>2, <1>7, StartsIs
<1>8. CASE Scan
  <2>1. Fresh(merge)
    BY <1>8 DEF MergeOK, Scan, Merging
  <2>2. /\ ControlOK(merge') /\ merge'.pc = "clean" /\ merge'.run.tasks = disk.tasks
        /\ ListsOK(merge') /\ OrderOK(merge')
    BY <1>4, <1>8, <2>1, ScansIs
  <2>3. QED
    BY <1>8, <2>2 DEF MergeOK, Merging
<1>9. QED
  BY <1>5, <1>6, <1>7, <1>8 DEF Next, MergeStep, OnlyMoves, Resolves, GivesUp

LEMMA SavedIs ==
    ASSUME NEW m, m.run \in Runs, NEW s \in Statuses, SaveAs(m, s)
    PROVE  disk' \in Runs /\ disk'.tasks = m.run.tasks
<1>1. PICK r \in Runs : r = m.run
  OBVIOUS
<1>2. disk' = [r EXCEPT !.status = s]
  BY <1>1 DEF SaveAs
<1>3. QED
  BY <1>1, <1>2 DEF Runs

(* Who writes run.json: a request, the merge its copy, or a restart the     *)
(* status.                                                                  *)
LEMMA WhoSaves ==
    ASSUME MergeOK, Next
    PROVE  \/ PlanNext /\ merge' = merge
           \/ UNCHANGED <<disk, editor, posted, edits>>
           \/ Merging(merge) /\ (\E s \in Statuses : SaveAs(merge, s)) /\ UNCHANGED <<editor, posted, edits>>
           \/ Scan
           \/ Crash
<1>1. CASE PlanNext /\ UNCHANGED mergeVars
  BY <1>1 DEF mergeVars
<1>2. CASE AskMerge \/ GoResolve \/ GoCheck \/ StepPasses \/ StepFails \/ Fixed \/ StillFails
             \/ FixStays \/ Exhausted \/ ForeignChange \/ Throws
             \/ \E s \in Strategies : Apply(s) \/ NoAction(s) \/ ResetFails(s)
  BY <1>2 DEF AskMerge, GoResolve, GoCheck, StepPasses, StepFails, Fixed, StillFails, FixStays,
       Exhausted, ForeignChange, Throws, Apply, NoAction, ResetFails, TryTo, planVars
<1>3. CASE MergeClean \/ CleanFails \/ \E t \in Ids : Resolves(t) \/ GivesUp(t) \/ AskAgent(t)
  <2>1. SaveAs(merge, "merging") /\ UNCHANGED <<editor, posted, edits>> /\ "merging" \in Statuses
        /\ merge.pc \in {"clean", "resolve", "agent"}
    BY <1>3 DEF MergeClean, CleanFails, AskAgent, Resolves, GivesUp, MergeAfterAll, MergeRefused,
         CommitsLeftover, AgentResolves, AgentDrops, CommitFails, AgentFails, Resolving, Statuses
  <2>2. QED
    BY <2>1 DEF Merging
<1>4. CASE Finish
  <2>1. PICK s : s = IF merge.conflicts = <<>> /\ merge.merged # <<>> THEN "done" ELSE "failed"
    OBVIOUS
  <2>2. s \in Statuses
    BY <2>1 DEF Statuses
  <2>3. SaveAs(merge, s) /\ UNCHANGED <<editor, posted, edits>> /\ merge.pc = "checks"
    BY <1>4, <2>1 DEF Finish
  <2>4. QED
    BY <2>2, <2>3 DEF Merging
<1>5. QED
  BY <1>1, <1>2, <1>3, <1>4 DEF Next, MergeStep, Resolves, GivesUp

LEMMA PlanStays ==
    ASSUME PlanTyped, PlanGood, RunOK, MergeOK, Next
    PROVE  PlanTyped' /\ PlanGood' /\ RunOK'
<1>0. merge.run \in Runs /\ disk \in Runs
  BY MergeFields DEF MergeOK, ControlOK, PlanTyped
<1>1. posted => posted'
  BY PlanGoesOn, WhoSaves DEF Scan, Crash
<1>2. RunOK'
  <2>1. CASE merge'.run = merge.run
    BY <1>1, <2>1 DEF RunOK
  <2>2. CASE Fresh(merge')
    BY <2>2, BlankIs DEF Fresh, RunOK
  <2>3. CASE Scan /\ merge'.run.tasks = disk.tasks
    BY <2>3 DEF Scan, RunOK, PlanGood
  <2>4. QED
    BY <1>0, <2>1, <2>2, <2>3, MergeGoesOn
<1>3. ASSUME disk' \in Runs, disk'.tasks = disk.tasks \/ disk'.tasks = merge.run.tasks,
             UNCHANGED <<editor, posted, edits>>
      PROVE  PlanTyped' /\ PlanGood'
  BY <1>3 DEF PlanTyped, PlanGood, RunOK
<1>4. CASE PlanNext /\ merge' = merge
  BY <1>2, <1>4, PlanGoesOn
<1>5. CASE UNCHANGED <<disk, editor, posted, edits>>
  BY <1>0, <1>2, <1>3, <1>5
<1>6. CASE Merging(merge) /\ (\E s \in Statuses : SaveAs(merge, s)) /\ UNCHANGED <<editor, posted, edits>>
  <2>1. disk' \in Runs /\ disk'.tasks = merge.run.tasks
    BY <1>0, <1>6, SavedIs
  <2>2. QED
    BY <1>2, <1>3, <1>6, <2>1
<1>7. CASE Scan
  <2>1. Fresh(merge) /\ ControlOK(merge)
    BY <1>7 DEF MergeOK, Scan, Merging
  <2>2. merge'.run \in Runs /\ merge'.run.tasks = disk.tasks
    BY <1>0, <1>7, <2>1, ScansIs
  <2>3. disk' = [merge'.run EXCEPT !.status = "merging"] /\ UNCHANGED <<editor, posted, edits>>
    BY <1>7 DEF Scan, SaveAs
  <2>4. disk' \in Runs /\ disk'.tasks = disk.tasks
    <3>1. PICK r \in Runs : r = merge'.run
      BY <2>2
    <3>2. disk' = [r EXCEPT !.status = "merging"]
      BY <2>3, <3>1
    <3>3. QED
      BY <2>2, <3>1, <3>2 DEF Runs, Statuses
  <2>5. QED
    BY <1>2, <1>3, <2>3, <2>4
<1>8. CASE Crash
  <2>1. editor' = [e \in Editors |-> Blank] /\ UNCHANGED <<posted, edits>>
    BY <1>8 DEF Crash, Blank
  <2>2. disk' \in Runs /\ disk'.tasks = disk.tasks
    <3>1. disk' = disk \/ disk' = [disk EXCEPT !.status = "failed"]
      BY <1>8 DEF Crash
    <3>2. [disk EXCEPT !.status = "failed"] \in Runs /\ [disk EXCEPT !.status = "failed"].tasks = disk.tasks
      BY <1>0 DEF Runs, Statuses
    <3>3. QED
      BY <1>0, <3>1, <3>2
  <2>3. PlanTyped'
    BY <2>1, <2>2, BlankIs DEF PlanTyped
  <2>4. PlanGood'
    BY <2>1, <2>2, BlankIs DEF PlanGood
  <2>5. QED
    BY <1>2, <2>3, <2>4
<1>9. QED
  BY <1>4, <1>5, <1>6, <1>7, <1>8, WhoSaves

-----------------------------------------------------------------------------
(* The report and the project *)

(* A clean merge that failed is still to be tried again.                    *)
Retries(m) == m.late \cap Elements(m.conflicted) # {}

(* Where no merge is left open: once a branch was merged and none is to be  *)
(* tried again or was given up.                                             *)
Settled(m) ==
    /\ Merging(m) /\ m.pc # "agent" /\ m.conflicts = <<>>
    /\ ~Retries(m) /\ Elements(m.merged) # m.skipped

ProjectOK ==
    /\ MergedIsInHead
    /\ merge.pc = "agent" => Head(merge.conflicted) \in tree.open \cup fouled
    /\ Settled(merge) => Ready

(* What a reset goes back to holds all that was reported as merged.         *)
RollbackOK == cascade.applied => Elements(merge.merged) \subseteq cascade.before.branches \cup fouled

(* Steps that neither merge nor give up a branch.                           *)
LEMMA QuietSteps ==
    ASSUME ProjectOK, SameLists(merge, merge'),
           merge'.pc = "agent" => Head(merge.conflicted) \in tree'.open \cup fouled',
           Merging(merge) /\ merge.pc # "agent",
           merge'.pc # "agent" => (Ready => Ready'),
           head.branches \subseteq head'.branches, fouled \subseteq fouled'
    PROVE  ProjectOK'
<1>1. MergedIsInHead'
  BY DEF ProjectOK, MergedIsInHead, SameLists
<1>2. Settled(merge') => Ready'
  BY DEF ProjectOK, SameLists, Settled, Retries
<1>3. merge'.conflicted = merge.conflicted
  BY DEF SameLists
<1>4. QED
  BY <1>1, <1>2, <1>3 DEF ProjectOK

(* Steps that merge, put back or give up the branch t.                      *)
LEMMA BranchSteps ==
    ASSUME ProjectOK, merge \in Merges, NEW t \in Ids, MovesOne(merge, merge'), merge'.pc # "agent",
           merge'.merged # merge.merged =>
             merge'.merged = Append(merge.merged, t) /\ t \in head'.branches \cup fouled',
           Settled(merge') => Ready',
           head.branches \subseteq head'.branches, fouled \subseteq fouled'
    PROVE  ProjectOK'
<1>1. \/ merge'.merged = merge.merged
      \/ merge'.merged = Append(merge.merged, t) /\ t \in head'.branches \cup fouled'
  OBVIOUS
<1>2. merge.merged \in Seq(Ids)
  BY MergeFields
<1>3. Elements(Append(merge.merged, t)) = Elements(merge.merged) \cup {t}
  BY <1>2, AppendIs
<1>4. MergedIsInHead'
  BY <1>1, <1>3 DEF ProjectOK, MergedIsInHead
<1>5. QED
  BY <1>4 DEF ProjectOK

LEMMA ResolveSteps ==
    ASSUME ProjectTyped, ControlOK(merge), ProjectOK, NEW t \in Ids, Resolves(t) \/ GivesUp(t)
    PROVE  ProjectOK'
<1>0. /\ merge \in Merges /\ merge'.pc = "resolve" /\ t = Head(merge.conflicted)
      /\ WasResolved(merge, merge') \/ WasGivenUp(merge, merge')
      /\ Resolves(t) => WasResolved(merge, merge')
      /\ GivesUp(t) => WasGivenUp(merge, merge')
      /\ merge.conflicts \in Seq(Ids)
  BY ResolvesIs, MergeFields DEF ControlOK
<1>1. /\ head \in Heads /\ tree \in Trees
      /\ [tree EXCEPT !.open = {}, !.unresolved = FALSE].open = {}
      /\ ~[tree EXCEPT !.open = {}, !.unresolved = FALSE].unresolved
      /\ [tree EXCEPT !.foreign = FALSE].open = tree.open
      /\ [tree EXCEPT !.foreign = FALSE].unresolved = tree.unresolved
      /\ NoneOpen.open = {} /\ ~NoneOpen.unresolved /\ tree.open \in SUBSET Ids
  BY DEF ProjectTyped, Trees, NoneOpen
<1>2. ASSUME Resolves(t), Ready', head.branches \subseteq head'.branches, fouled \subseteq fouled',
             t \in head'.branches \cup fouled'
      PROVE  ProjectOK'
  <2>1. WasResolved(merge, merge')
    BY <1>0, <1>2
  <2>2. MovesOne(merge, merge') /\ merge'.merged = Append(merge.merged, t)
    BY <1>0, <2>1 DEF MovesOne, WasResolved
  <2>3. QED
    BY <1>0, <1>2, <2>2, BranchSteps
<1>3. CASE MergeAfterAll(t)
  <2>1. /\ Ready /\ head' = [head EXCEPT !.branches = @ \cup {t}] /\ fouled' = fouled
        /\ tree' \in {tree, [tree EXCEPT !.foreign = FALSE]}
    BY <1>3 DEF MergeAfterAll, CanBegin, Merged
  <2>2. head'.branches = head.branches \cup {t}
    BY <1>1, <2>1, HeadsKept, PlanAssumption
  <2>3. Ready'
    BY <1>1, <2>1 DEF Ready
  <2>4. QED
    BY <1>2, <1>3, <2>1, <2>2, <2>3 DEF Resolves
<1>4. CASE MergeRefused(t)
  <2>1. Ready' /\ head' = head /\ fouled' = fouled \cup {t}
    BY <1>1, <1>4 DEF MergeRefused, Ready
  <2>2. QED
    BY <1>2, <1>4, <2>1 DEF Resolves
<1>5. CASE CommitsLeftover(t)
  <2>1. /\ tree' = NoneOpen /\ head' = [head EXCEPT !.branches = @ \cup tree.open]
        /\ fouled' = fouled \cup ({t} \ tree.open)
    BY <1>5 DEF CommitsLeftover
  <2>2. head'.branches = head.branches \cup tree.open
    BY <1>1, <2>1, HeadsKept, PlanAssumption
  <2>3. Ready'
    BY <1>1, <2>1 DEF Ready
  <2>4. QED
    BY <1>2, <1>5, <2>1, <2>2, <2>3 DEF Resolves
<1>6. CASE AgentResolves(t)
  <2>1. tree' \in Cleaned /\ head' = [head EXCEPT !.branches = @ \cup tree.open] /\ fouled' = fouled
        /\ t \in tree.open \cup fouled
    BY <1>0, <1>6 DEF AgentResolves, ProjectOK
  <2>2. head'.branches = head.branches \cup tree.open
    BY <1>1, <2>1, HeadsKept, PlanAssumption
  <2>3. Ready'
    BY <1>1, <2>1, CleanedIs DEF Ready
  <2>4. QED
    BY <1>2, <1>6, <2>1, <2>2, <2>3 DEF Resolves
<1>7. CASE AgentDrops(t)
  <2>1. Ready' /\ head' = head /\ fouled' = fouled \cup {t}
    BY <1>1, <1>7 DEF AgentDrops, Ready
  <2>2. QED
    BY <1>2, <1>7, <2>1 DEF Resolves
<1>8. CASE GivesUp(t)
  <2>1. head' = head /\ fouled' = fouled
    BY <1>8 DEF GivesUp, CommitFails, AgentFails
  <2>2. WasGivenUp(merge, merge')
    BY <1>0, <1>8
  <2>3. MovesOne(merge, merge') /\ merge'.merged = merge.merged
    BY <2>2 DEF MovesOne, WasGivenUp
  <2>4. merge'.conflicts # <<>>
    BY <1>0, <2>2 DEF WasGivenUp
  <2>5. QED
    BY <1>0, <2>1, <2>3, <2>4, BranchSteps DEF Settled
<1>9. QED
  BY <1>3, <1>4, <1>5, <1>6, <1>7, <1>8 DEF Resolves

(* An attempt at a repair, made or not, leaves the merge where it is.       *)
LEMMA AttemptSteps ==
    ASSUME ProjectTyped, ProjectOK, RollbackOK, merge.pc = "repair", merge' = merge,
           NEW s \in Strategies, Apply(s) \/ NoAction(s) \/ ResetFails(s) \/ StillFails \/ FixStays
    PROVE  ProjectOK'
<1>0. head \in Heads /\ tree \in Trees
  BY DEF ProjectTyped
<1>1. ASSUME Elements(merge.merged) \subseteq head'.branches \cup fouled', Ready => Ready'
      PROVE  ProjectOK'
  BY <1>1 DEF ProjectOK, MergedIsInHead
<1>2. MergedIsInHead
  BY DEF ProjectOK
<1>3. CASE Apply(s) \/ ResetFails(s)
  <2>1. fouled' = fouled
    BY <1>3 DEF Apply, ResetFails, TryTo
  <2>2. PICK o \in Attempts(s) : head' = o.head /\ tree' = o.tree
    BY <1>3 DEF Apply, ResetFails
  <2>3. head.branches \subseteq head'.branches /\ (Ready => Ready')
    BY <1>0, <2>2, AttemptsIs DEF Ready
  <2>4. QED
    BY <1>1, <1>2, <2>1, <2>3 DEF MergedIsInHead
<1>4. CASE NoAction(s)
  <2>1. head' = head /\ fouled' = fouled /\ tree' \in Touched \cup Cleaned
    BY <1>4 DEF NoAction, TryTo
  <2>2. Ready => Ready'
    BY <1>0, <2>1, TouchedIs, CleanedIs DEF Ready
  <2>3. QED
    BY <1>1, <1>2, <2>1, <2>2 DEF MergedIsInHead
<1>5. CASE StillFails
  <2>1. head' = cascade.before /\ fouled' = fouled /\ tree' \in Cleaned /\ cascade.applied
    BY <1>5 DEF StillFails, RolledBack
  <2>2. Ready'
    BY <1>0, <2>1, CleanedIs DEF Ready
  <2>3. QED
    BY <1>1, <2>1, <2>2 DEF RollbackOK
<1>6. CASE FixStays
  BY <1>1, <1>2, <1>6 DEF FixStays, MergedIsInHead, Ready
<1>7. QED
  BY <1>3, <1>4, <1>5, <1>6

LEMMA ProjectAgrees ==
    ASSUME disk \in Runs, ProjectTyped, MergeOK, ProjectOK, RollbackOK, Next
    PROVE  ProjectOK'
<1>0. head \in Heads /\ tree \in Trees /\ ControlOK(merge) /\ merge \in Merges
  BY DEF ProjectTyped, MergeOK, ControlOK
<1>1. CASE PlanNext /\ UNCHANGED mergeVars
  BY <1>1 DEF mergeVars, ProjectOK, MergedIsInHead, Ready
<1>2. CASE ForeignChange
  <2>1. UNCHANGED <<merge, head, fouled>> /\ tree' = [tree EXCEPT !.foreign = TRUE]
    BY <1>2 DEF ForeignChange
  <2>2. tree'.open = tree.open /\ tree'.unresolved = tree.unresolved
    BY <1>0, <2>1 DEF Trees
  <2>3. QED
    BY <2>1, <2>2 DEF ProjectOK, MergedIsInHead, Ready
<1>3. CASE StillFails \/ FixStays \/ \E s \in Strategies : Apply(s) \/ NoAction(s) \/ ResetFails(s)
  <2>1. merge' = merge /\ merge.pc = "repair"
    BY <1>3, StaysIs DEF StillFails, FixStays, Apply, NoAction, ResetFails, TryTo, Eligible
  <2>2. PICK s \in Strategies : Apply(s) \/ NoAction(s) \/ ResetFails(s) \/ StillFails \/ FixStays
    BY <1>3, MergeAssumption
  <2>3. QED
    BY <2>1, <2>2, AttemptSteps
<1>5. CASE GoResolve \/ GoCheck \/ StepPasses \/ StepFails \/ Fixed \/ Exhausted \/ Finish
  <2>1. SameLists(merge, merge')
    BY <1>0, <1>5, OnlyMovesIs DEF OnlyMoves
  <2>2. merge.pc \in {"clean", "resolve", "checks", "repair"} /\ merge'.pc # "agent"
        /\ UNCHANGED <<tree, head, fouled>>
    BY <1>0, <1>5 DEF GoResolve, GoCheck, StepPasses, StepFails, Fixed, Exhausted, Finish, Checking,
         NextStep, Merges
  <2>3. QED
    BY <2>1, <2>2, QuietSteps DEF Merging, Ready
<1>6. ASSUME NEW t \in Ids, AskAgent(t) PROVE ProjectOK'
  <2>1. SameLists(merge, merge')
    BY <1>0, <1>6, OnlyMovesIs DEF OnlyMoves
  <2>2. /\ merge.pc = "resolve" /\ t = Head(merge.conflicted) /\ head' = head
        /\ merge' = [merge EXCEPT !.pc = "agent"]
    BY <1>6 DEF AskAgent, Resolving
  <2>3. merge'.pc = "agent"
    BY <1>0, <2>2 DEF Merges
  <2>4. t \in tree'.open \cup fouled' /\ fouled \subseteq fouled'
    <3>1. Opened(t, TRUE).open = {t}
      BY <1>0, TreesKept
    <3>2. QED
      BY <1>6, <3>1 DEF AskAgent
  <2>5. QED
    BY <2>1, <2>2, <2>3, <2>4, QuietSteps DEF Merging
<1>7. CASE MergeClean
  <2>1. PICK t : t = Head(merge.clean)
    OBVIOUS
  <2>2. t \in Ids
    BY <1>0, <1>7, <2>1, HeadTail, MergeFields DEF MergeClean
  <2>3. Ready /\ head' = [head EXCEPT !.branches = @ \cup {t}] /\ tree' = tree /\ fouled' = fouled
    BY <1>7, <2>1 DEF MergeClean, Merged
  <2>4. head'.branches = head.branches \cup {t}
    BY <1>0, <2>2, <2>3, HeadsKept, PlanAssumption
  <2>5. CleanMerged(merge, merge') /\ merge'.pc = "clean"
    BY <1>0, <1>7, CleansIs
  <2>6. merge'.merged = Append(merge.merged, t) /\ MovesOne(merge, merge')
    BY <2>1, <2>5 DEF CleanMerged, MovesOne
  <2>7. Ready'
    BY <2>3 DEF Ready
  <2>8. QED
    BY <1>0, <2>2, <2>3, <2>4, <2>5, <2>6, <2>7, BranchSteps
<1>8. CASE CleanFails
  <2>1. PICK t : t = Head(merge.clean)
    OBVIOUS
  <2>2. t \in Ids /\ merge.conflicted \in Seq(Ids)
    BY <1>0, <1>8, <2>1, HeadTail, MergeFields DEF CleanFails
  <2>3. head' = head /\ fouled' = fouled
    BY <1>8 DEF CleanFails
  <2>4. CleanFailed(merge, merge') /\ merge'.pc = "clean"
    BY <1>0, <1>8, CleansIs
  <2>5. merge'.merged = merge.merged /\ MovesOne(merge, merge')
    BY <2>4 DEF CleanFailed, MovesOne
  <2>6. Retries(merge')
    <3>1. t \in merge'.late /\ merge'.conflicted = Append(merge.conflicted, t)
      BY <2>1, <2>4 DEF CleanFailed
    <3>2. Elements(Append(merge.conflicted, t)) = Elements(merge.conflicted) \cup {t}
      BY <2>2, AppendIs
    <3>3. QED
      BY <3>1, <3>2 DEF Retries
  <2>7. QED
    BY <1>0, <2>2, <2>3, <2>4, <2>5, <2>6, BranchSteps DEF Settled
<1>9. ASSUME NEW t \in Ids, Resolves(t) \/ GivesUp(t) PROVE ProjectOK'
  BY <1>0, <1>9, ResolveSteps
<1>10. CASE AskMerge \/ Crash \/ Throws
  <2>1. Fresh(merge')
    BY <1>10, StartsIs
  <2>2. merge'.pc # "agent" /\ ~Merging(merge') /\ Elements(merge'.merged) = {}
    BY <2>1 DEF Fresh, Merging, Elements
  <2>3. QED
    BY <2>2 DEF ProjectOK, MergedIsInHead, Settled
<1>11. CASE Scan
  <2>1. Fresh(merge)
    BY <1>11 DEF MergeOK, Scan, Merging
  <2>2. /\ merge'.pc = "clean"
        /\ merge'.skipped \subseteq head.branches /\ Elements(merge'.merged) = merge'.skipped
    BY <1>0, <1>11, <2>1, ScansIs
  <2>3. UNCHANGED <<head, fouled>>
    BY <1>11 DEF Scan
  <2>4. QED
    BY <2>2, <2>3 DEF ProjectOK, MergedIsInHead, Settled
<1>12. QED
  BY <1>1, <1>2, <1>3, <1>5, <1>6, <1>7, <1>8, <1>9, <1>10, <1>11
     DEF Next, MergeStep, Resolves, GivesUp

LEMMA RollbackKept ==
    ASSUME ProjectTyped, RepairsOK, MergeOK, ProjectOK, RollbackOK, Next
    PROVE  RollbackOK'
<1>0. cascade \in Cascades
  BY DEF ProjectTyped
<1>1. ASSUME cascade' = cascade, merge' = merge, fouled' = fouled PROVE RollbackOK'
  BY <1>1 DEF RollbackOK
<1>2. ASSUME ~cascade'.applied PROVE RollbackOK'
  BY <1>2 DEF RollbackOK
<1>3. CASE (PlanNext /\ UNCHANGED mergeVars) \/ ForeignChange
  BY <1>1, <1>3 DEF mergeVars, ForeignChange
<1>4. CASE Scan \/ MergeClean \/ CleanFails \/ GoResolve \/ GoCheck \/ StepPasses \/ Finish
             \/ \E t \in Ids : Resolves(t) \/ GivesUp(t) \/ AskAgent(t)
  <2>1. cascade' = cascade
    <3>1. ControlOK(merge)
      BY DEF MergeOK
    <3>2. QED
      BY <1>4, <3>1, MergeOnBranches DEF BranchesOnly
  <2>2. merge.pc # "repair"
    BY <1>4 DEF Scan, MergeClean, CleanFails, GoResolve, GoCheck, StepPasses, Checking, Finish, Resolves,
         GivesUp, AskAgent, Resolving, MergeAfterAll, MergeRefused, CommitsLeftover, AgentResolves,
         AgentDrops, CommitFails, AgentFails
  <2>3. QED
    BY <1>2, <2>1, <2>2 DEF RepairsOK
<1>5. CASE AskMerge \/ Throws
  <2>1. cascade' = cascade /\ merge.pc # "repair"
    BY <1>5 DEF AskMerge, Throws
  <2>2. QED
    BY <1>2, <2>1 DEF RepairsOK
<1>6. ASSUME NEW s \in Strategies, Apply(s) \/ NoAction(s) \/ ResetFails(s) PROVE RollbackOK'
  <2>1. merge' = merge /\ fouled' = fouled /\ cascade'.before = head
    BY <1>6 DEF Apply, NoAction, ResetFails, TryTo
  <2>2. QED
    BY <2>1 DEF RollbackOK, ProjectOK, MergedIsInHead
<1>7. CASE StepFails \/ Fixed \/ StillFails \/ FixStays \/ Exhausted \/ Crash
  <2>1. ~cascade'.applied
    BY <1>0, <1>7 DEF StepFails, Fixed, StillFails, FixStays, Exhausted, Crash, NoCascade, Cascades
  <2>2. QED
    BY <1>2, <2>1
<1>8. QED
  BY <1>3, <1>4, <1>5, <1>6, <1>7 DEF Next, MergeStep, Resolves, GivesUp

-----------------------------------------------------------------------------
(* The theorems *)

MergeInv == PlanTyped /\ PlanGood /\ RunOK /\ MergeOK /\ ProjectTyped /\ RepairsOK /\ ProjectOK
            /\ RollbackOK

LEMMA MergeInit == ASSUME Init PROVE MergeInv
<1>1. PlanTyped /\ PlanGood
  BY PlanInitGood DEF Init
<1>2. Fresh(merge) /\ ControlOK(merge)
  BY FreshIs DEF Init
<1>3. MergeOK
  BY <1>2, FreshOrder DEF MergeOK
<1>4. RunOK
  BY <1>2, BlankIs DEF RunOK, Fresh
<1>5. ProjectTyped /\ RepairsOK
  <2>1. head = NoHead /\ tree = NoneOpen /\ cascade = NoCascade
        /\ fouled = {} /\ known = 0 /\ spent = [merges |-> 0, mishaps |-> 0]
    BY DEF Init
  <2>2. head \in Heads /\ tree \in Trees /\ cascade \in Cascades
    BY <2>1 DEF Heads, Trees, Cascades, NoneOpen, NoCascade, NoHead
  <2>3. 0 \in 0..MaxMerges /\ 0 \in 0..MaxMishaps
    BY MergeAssumption
  <2>4. spent \in Spents
    BY <2>1, <2>3 DEF Spents
  <2>5. head.repairs = 0 /\ cascade.before.repairs = 0 /\ ~cascade.applied
    BY <2>1 DEF NoCascade, NoHead
  <2>6. QED
    BY <2>1, <2>2, <2>4, <2>5 DEF ProjectTyped, RepairsOK
<1>6. ProjectOK
  <2>1. merge.pc # "agent" /\ ~Merging(merge) /\ Elements(merge.merged) = {}
    BY <1>2 DEF Fresh, Merging, Elements
  <2>2. QED
    BY <2>1 DEF ProjectOK, MergedIsInHead, Settled
<1>7. RollbackOK
  BY DEF Init, NoCascade, RollbackOK
<1>8. QED
  BY <1>1, <1>3, <1>4, <1>5, <1>6, <1>7 DEF MergeInv

LEMMA MergeNext == ASSUME MergeInv, [Next]_vars PROVE MergeInv'
<1>1. CASE Next
  <2>1. disk \in Runs /\ ControlOK(merge)
    BY DEF MergeInv, PlanTyped, MergeOK
  <2>2. PlanTyped' /\ PlanGood' /\ RunOK'
    BY <1>1, PlanStays DEF MergeInv
  <2>3. MergeOK'
    BY <1>1, <2>1, MergeGoesOn DEF MergeInv
  <2>4. ProjectTyped' /\ RepairsOK'
    BY <1>1, <2>1, ProjectGoesOn DEF MergeInv
  <2>5. ProjectOK' /\ RollbackOK'
    BY <1>1, <2>1, ProjectAgrees, RollbackKept DEF MergeInv
  <2>6. QED
    BY <2>2, <2>3, <2>4, <2>5 DEF MergeInv
<1>2. CASE UNCHANGED vars
  <2>1. UNCHANGED <<disk, editor, posted, edits, merge, head, tree, cascade, fouled, known, spent>>
    BY <1>2 DEF vars, planVars, mergeVars
  <2>2. PlanTyped' /\ PlanGood' /\ RunOK'
    BY <2>1 DEF MergeInv, PlanTyped, PlanGood, RunOK
  <2>3. MergeOK' /\ ProjectTyped' /\ RepairsOK'
    BY <2>1 DEF MergeInv, MergeOK, ProjectTyped, RepairsOK
  <2>4. ProjectOK' /\ RollbackOK'
    BY <2>1 DEF MergeInv, ProjectOK, MergedIsInHead, RollbackOK, Ready
  <2>5. QED
    BY <2>2, <2>3, <2>4 DEF MergeInv
<1>3. QED
  BY <1>1, <1>2

(* Of every reachable state: the plans are well formed, the loop of the     *)
(* merge has dealt with what is behind it in the order of the sort, what is *)
(* reported merged is in the project, and the repairs are accounted for.    *)
THEOREM MergeInvariant == Spec => []MergeInv
<1>1. QED
  BY MergeInit, MergeNext, PTL DEF Spec

(* ReferencesHold, for every plan and any number of overlapping requests:   *)
(* no route but POST plan stores a task list that is not well formed, nor   *)
(* does the merge when it saves its own copy over what was edited since.    *)
THEOREM PlansStayWellFormed == Spec => []ReferencesHold
<1>1. MergeInv => ReferencesHold
  BY DEF MergeInv, PlanGood, ReferencesHold
<1>2. QED
  BY <1>1, MergeInvariant, PTL

(* MergeFollowsDependencies, for every plan and every outcome of git and    *)
(* the agents: within the clean, the conflicted and the late branches a     *)
(* task's branch follows those it needs, and one that precedes a branch it  *)
(* needs is of an earlier of these groups.                                  *)
THEOREM OrderIsKept == Spec => []MergeFollowsDependencies
<1>1. ASSUME MergeInv PROVE MergeFollowsDependencies
  <2>1. SUFFICES ASSUME UniqueIds(DoneTasks(merge.run)),
                        NEW i \in DOMAIN merge.merged, NEW j \in DOMAIN merge.merged, i < j,
                        Reaches(DoneTasks(merge.run), merge.merged[i], merge.merged[j]),
                        ~Reaches(DoneTasks(merge.run), merge.merged[i], merge.merged[i])
                 PROVE  Group(merge, merge.merged[i]) < Group(merge, merge.merged[j])
    BY DEF MergeFollowsDependencies
  <2>2. Ordered(merge, merge.merged)
    BY <1>1, <2>1 DEF MergeInv, MergeOK, OrderOK
  <2>3. QED
    BY <2>1, <2>2 DEF Ordered, Allowed
<1>2. QED
  BY <1>1, MergeInvariant, PTL

LEMMA TypesHold == ASSUME MergeInv PROVE TypeOK
<1>1. PlanTypeOK
  BY PlanTypedOK DEF MergeInv
<1>2. merge \in Merges
  BY DEF MergeInv, MergeOK, ControlOK
<1>3. /\ merge.pc \in {"idle", "asked", "clean", "resolve", "agent", "checks", "repair", "over"}
      /\ merge.run \in Runs
      /\ merge.skipped \subseteq Ids /\ merge.hard \subseteq Ids /\ merge.late \subseteq Ids
      /\ {merge.clean, merge.conflicted, merge.merged, merge.conflicts} \subseteq Seq(Ids)
      /\ merge.step \in 0..Len(Steps) + 1
  BY <1>2 DEF Merges
<1>4. /\ head.branches \subseteq Ids /\ head.repairs \in Nat
      /\ tree.open \subseteq Ids /\ {tree.unresolved, tree.foreign} \subseteq BOOLEAN
      /\ cascade.tried \subseteq Strategies /\ cascade.before.repairs \in Nat
      /\ cascade.before.branches \subseteq Ids /\ cascade.applied \in BOOLEAN
      /\ fouled \subseteq Ids /\ known \in Nat
      /\ spent \in [merges : 0..MaxMerges, mishaps : 0..MaxMishaps]
  BY DEF MergeInv, ProjectTyped, Heads, Trees, Cascades, Spents
<1>5. cascade.before.repairs \in 0..head.repairs /\ known \in 0..head.repairs
  BY <1>4 DEF MergeInv, RepairsOK
<1>6. QED
  BY <1>1, <1>3, <1>4, <1>5 DEF TypeOK

LEMMA BranchesAreReported == ASSUME MergeInv PROVE EveryBranchIsReported
<1>1. SUFFICES ASSUME Merging(merge)
               PROVE  LET all == merge.merged \o merge.clean \o merge.conflicted \o merge.conflicts
                      IN  Elements(all) = Named(DoneTasks(merge.run)) /\ IsInjective(all)
  BY DEF EveryBranchIsReported, Merging
<1>2. ListsOK(merge) /\ merge \in Merges
  BY <1>1 DEF MergeInv, MergeOK, Fresh, ControlOK
<1>3. PICK a, b, c, d : a = merge.merged /\ b = merge.clean /\ c = merge.conflicted /\ d = merge.conflicts
  OBVIOUS
<1>4. a \in Seq(Ids) /\ b \in Seq(Ids) /\ c \in Seq(Ids) /\ d \in Seq(Ids)
  BY <1>2, <1>3, MergeFields
<1>5. /\ IsInjective(a) /\ IsInjective(b) /\ IsInjective(c) /\ IsInjective(d)
      /\ Elements(a) \cap Elements(b) = {}
      /\ (Elements(a) \cup Elements(b)) \cap Elements(c) = {}
      /\ (Elements(a) \cup Elements(b) \cup Elements(c)) \cap Elements(d) = {}
      /\ Elements(a) \cup Elements(b) \cup Elements(c) \cup Elements(d) = Named(DoneTasks(merge.run))
  BY <1>2, <1>3 DEF ListsOK, Disjoint
<1>6. PICK p : p = a \o b
  OBVIOUS
<1>7. p \in Seq(Ids) /\ Elements(p) = Elements(a) \cup Elements(b) /\ IsInjective(p)
  BY <1>4, <1>5, <1>6, ConcatIs
<1>8. PICK q : q = p \o c
  OBVIOUS
<1>9. q \in Seq(Ids) /\ Elements(q) = Elements(p) \cup Elements(c) /\ IsInjective(q)
  BY <1>4, <1>5, <1>7, <1>8, ConcatIs
<1>10. PICK r : r = q \o d
  OBVIOUS
<1>11. Elements(r) = Elements(q) \cup Elements(d) /\ IsInjective(r)
  BY <1>4, <1>5, <1>7, <1>9, <1>10, ConcatIs
<1>12. merge.merged \o merge.clean \o merge.conflicted \o merge.conflicts = r
  BY <1>3, <1>6, <1>8, <1>10
<1>13. QED
  BY <1>5, <1>7, <1>9, <1>11, <1>12

(* ReportMatchesProject, for every plan, every outcome of git, the agents   *)
(* and the checks, any number of crashes, exceptions, foreign changes and   *)
(* refused aborts and resets: what the run is told of each branch is what   *)
(* the project's repository holds, but for the branches in fouled.          *)
THEOREM ReportIsTrueOfProject == Spec => []ReportMatchesProject
<1>1. ASSUME MergeInv PROVE NothingLeftOpen
  <2>1. SUFFICES ASSUME merge.pc \in {"checks", "repair", "over"},
                        Elements(merge.merged) # merge.skipped, merge.conflicts = <<>>
                 PROVE  Ready
    BY DEF NothingLeftOpen
  <2>2. merge.conflicted = <<>>
    BY <1>1, <2>1 DEF MergeInv, MergeOK, ControlOK
  <2>3. Settled(merge)
    BY <2>1, <2>2 DEF Settled, Merging, Retries, Elements
  <2>4. QED
    BY <1>1, <2>3 DEF MergeInv, ProjectOK
<1>2. MergeInv => MergedIsInHead /\ FailedRepairsAreUndone
  BY DEF MergeInv, ProjectOK, RepairsOK, FailedRepairsAreUndone
<1>3. MergeInv => ReportMatchesProject
  BY <1>1, <1>2, TypesHold, BranchesAreReported DEF ReportMatchesProject
<1>4. QED
  BY <1>3, MergeInvariant, PTL

=============================================================================
