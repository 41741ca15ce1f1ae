---------------------------- MODULE RecipeProofs ----------------------------
(***************************************************************************)
(* Proofs about RecipeRunner, for every recipe, any number of calls that   *)
(* share run ids, and every order of exits, answers, timeouts, cancels and *)
(* crashes.                                                                *)
(*                                                                         *)
(* The waves are the values of a recursive function.  The induction over   *)
(* it goes by minimal elements of finite sets (theorem WFMin).             *)
(***************************************************************************)
EXTENDS RecipeRunner, FiniteSetTheorems, TLAPS

K == Cardinality(Steps)

WellFormed == recipe \in RecipeSet

LEMMA StepsAreFinite == IsFiniteSet(Steps) /\ K \in Nat
BY StepsAssumption, FS_CardinalityType DEF K

LEMMA DepsAreSteps ==
    ASSUME WellFormed, NEW s \in Steps
    PROVE  EffectiveDeps(s) \subseteq Steps
BY DEF WellFormed, RecipeSet, EffectiveDeps

(* A non-empty set of numbers up to n has a least one.                      *)
LEMMA LeastNumber ==
    ASSUME NEW n \in Nat, NEW T \in SUBSET (0..n), T # {}
    PROVE  \E m \in T : \A k \in T : m <= k
<1> DEFINE S == 0..n
           U == {0..m : m \in T}
<1>1. IsFiniteSet(S)
  BY FS_Interval
<1>2. IsWellFoundedOn(StrictSubsetOrdering(S), SUBSET S)
  BY <1>1, FS_StrictSubsetOrderingWellFounded, FS_FiniteSubsetsOfFinite
<1>3. U \subseteq SUBSET S /\ U # {}
  <2>1. \A m \in T : m \in 0..n /\ 0..m \subseteq S
    OBVIOUS
  <2>2. QED
    BY <2>1, Zenon
<1>4. PICK x \in U : \A y \in U : <<y, x>> \notin StrictSubsetOrdering(S)
  BY <1>2, <1>3, WFMin
<1>5. PICK m \in T : x = 0..m
  BY <1>4
<1>6. \A k \in T : m <= k
  <2> SUFFICES ASSUME NEW k \in T, k < m PROVE FALSE
    OBVIOUS
  <2>1. 0..k \in U /\ 0..k \subseteq 0..m /\ 0..k # 0..m
    BY DEF U
  <2>2. <<0..k, x>> \in StrictSubsetOrdering(S)
    BY <1>3, <1>5, <2>1 DEF StrictSubsetOrdering
  <2>3. QED
    BY <1>4, <2>1, <2>2
<1>7. QED
  BY <1>6

-----------------------------------------------------------------------------
(* toWaves *)

NextOf(X) == X \cup Ready(X)

(* f lists the steps of the first waves.                                    *)
IsAfter(f, n) ==
    /\ f \in [0..n -> SUBSET Steps]
    /\ f[0] = {}
    /\ \A i \in 1..n : f[i] = NextOf(f[i - 1])

LEMMA NextOfIsSteps == \A X \in SUBSET Steps : NextOf(X) \in SUBSET Steps
BY DEF NextOf, Ready

LEMMA AfterExists ==
    ASSUME NEW n \in Nat
    PROVE  \E f : IsAfter(f, n)
<1> DEFINE T == {k \in 0..n : ~ \E f : IsAfter(f, k)}
<1> SUFFICES ASSUME T # {} PROVE FALSE
  OBVIOUS
<1>1. PICK m \in T : \A k \in T : m <= k
  BY LeastNumber
<1>2. m # 0
  <2>1. IsAfter([i \in 0..0 |-> {}], 0)
    BY DEF IsAfter
  <2>2. QED
    BY <2>1
<1>3. m \in 1..n /\ m - 1 \in 0..n /\ m - 1 \notin T
  BY <1>1, <1>2
<1>4. PICK f : IsAfter(f, m - 1)
  BY <1>3
<1> DEFINE g == [i \in 0..m |-> IF i = m THEN NextOf(f[m - 1]) ELSE f[i]]
<1>5. f \in [0..(m - 1) -> SUBSET Steps] /\ f[0] = {} /\ \A i \in 1..(m - 1) : f[i] = NextOf(f[i - 1])
  BY <1>4 DEF IsAfter
<1>6. g \in [0..m -> SUBSET Steps] /\ g[0] = {}
  BY <1>3, <1>5, NextOfIsSteps
<1>7. \A i \in 1..m : g[i] = NextOf(g[i - 1])
  BY <1>3, <1>5
<1>8. IsAfter(g, m)
  BY <1>6, <1>7 DEF IsAfter
<1>9. QED
  BY <1>8

LEMMA ReachableIsAfter == \E f : IsAfter(f, K) /\ Reachable = f[K]
<1> DEFINE F(g) == [n \in 0..K |-> IF n = 0 THEN {} ELSE g[n - 1] \cup Ready(g[n - 1])]
           after == CHOOSE g : g = F(g)
<1>1. PICK f : IsAfter(f, K)
  BY AfterExists, StepsAreFinite
<1>2. f = F(f)
  BY <1>1, StepsAreFinite DEF IsAfter, NextOf
<1>3. after = F(after)
  <2>1. \E g : g = F(g)
    BY <1>2
  <2>2. QED
    BY <2>1, Zenon DEF after
<1>4. Reachable = after[K]
  BY DEF Reachable, K
<1> HIDE DEF after
<1>5. after[0] = {} /\ \A i \in 1..K : after[i] = NextOf(after[i - 1])
  <2>1. \A i \in 0..K : after[i] = IF i = 0 THEN {} ELSE after[i - 1] \cup Ready(after[i - 1])
    BY <1>3, Zenon
  <2>2. 0 \in 0..K /\ \A i \in 1..K : i \in 0..K /\ i # 0
    BY StepsAreFinite
  <2>3. after[0] = {}
    BY <2>1, <2>2, Zenon
  <2>4. \A i \in 1..K : after[i] = NextOf(after[i - 1])
    BY <2>1, <2>2, Zenon DEF NextOf
  <2>5. QED
    BY <2>3, <2>4
<1>6. \A i \in 0..K : after[i] \in SUBSET Steps
  <2> DEFINE T == {k \in 0..K : after[k] \notin SUBSET Steps}
  <2> SUFFICES ASSUME T # {} PROVE FALSE
    OBVIOUS
  <2>1. PICK m \in T : \A k \in T : m <= k
    BY LeastNumber, StepsAreFinite
  <2>2. m # 0
    BY <1>5
  <2>3. m \in 1..K /\ m - 1 \in 0..K /\ m - 1 \notin T
    BY <2>1, <2>2, StepsAreFinite
  <2>4. QED
    BY <1>5, <2>3, NextOfIsSteps
<1>7. IsAfter(after, K)
  BY <1>3, <1>5, <1>6 DEF IsAfter
<1>8. QED
  BY <1>4, <1>7

(* Steps that wait for each other are in no wave.                           *)
LEMMA CycleIsInNoWave ==
    ASSUME NEW n \in Nat, NEW f, IsAfter(f, n), NEW S \in SUBSET Steps,
           \A s \in S : EffectiveDeps(s) \cap S # {}
    PROVE  \A i \in 0..n : f[i] \cap S = {}
<1> DEFINE T == {k \in 0..n : f[k] \cap S # {}}
<1> SUFFICES ASSUME T # {} PROVE FALSE
  OBVIOUS
<1>1. PICK m \in T : \A k \in T : m <= k
  BY LeastNumber
<1>2. m # 0
  BY DEF IsAfter
<1>3. m \in 1..n /\ m - 1 \in 0..n /\ m - 1 \notin T
  BY <1>1, <1>2
<1>4. PICK s \in S : s \in f[m]
  OBVIOUS
<1>5. s \in Ready(f[m - 1])
  BY <1>3, <1>4 DEF IsAfter, NextOf
<1>6. EffectiveDeps(s) \subseteq f[m - 1]
  BY <1>5 DEF Ready
<1>7. QED
  BY <1>3, <1>4, <1>6

(* Each wave adds a step, until no step is ready.                           *)
LEMMA WavesGrow ==
    ASSUME NEW n \in Nat, NEW f, IsAfter(f, n)
    PROVE  \A i \in 0..n : Cardinality(f[i]) >= i \/ Ready(f[i]) = {}
<1> DEFINE T == {k \in 0..n : ~(Cardinality(f[k]) >= k \/ Ready(f[k]) = {})}
<1> SUFFICES ASSUME T # {} PROVE FALSE
  OBVIOUS
<1>1. PICK m \in T : \A k \in T : m <= k
  BY LeastNumber
<1>2. m # 0
  <2>1. Cardinality(f[0]) = 0
    BY FS_EmptySet DEF IsAfter
  <2>2. QED
    BY <2>1
<1>3. m \in 1..n /\ m - 1 \in 0..n /\ m - 1 \notin T
  BY <1>1, <1>2
<1> DEFINE old == f[m - 1]
           new == f[m]
<1>4. old \in SUBSET Steps /\ new \in SUBSET Steps /\ new = old \cup Ready(old)
  BY <1>3 DEF IsAfter, NextOf
<1>5. IsFiniteSet(old) /\ IsFiniteSet(new) /\ Cardinality(old) \in Nat /\ Cardinality(new) \in Nat
  BY <1>4, StepsAreFinite, FS_Subset, FS_CardinalityType
<1>6. CASE Ready(old) = {}
  BY <1>4, <1>6
<1>7. CASE Ready(old) # {}
  <2>1. Cardinality(old) >= m - 1
    BY <1>3, <1>7
  <2>2. old \subseteq new /\ old # new
    BY <1>4, <1>7 DEF Ready
  <2>3. Cardinality(old) < Cardinality(new)
    BY <1>5, <2>2, FS_Subset
  <2>4. QED
    BY <1>3, <1>5, <2>1, <2>3
<1>8. QED
  BY <1>6, <1>7

(* toWaves gives up on cyclic recipes, and only on these.                   *)
LEMMA WavesAreComplete ==
    ASSUME WellFormed
    PROVE  /\ Reachable # Steps =>
                \E S \in (SUBSET Steps) \ {{}} : \A s \in S : EffectiveDeps(s) \cap S # {}
           /\ Reachable = Steps =>
                \A S \in (SUBSET Steps) \ {{}} : \E s \in S : EffectiveDeps(s) \cap S = {}
<1>1. PICK f : IsAfter(f, K) /\ Reachable = f[K]
  BY ReachableIsAfter
<1>2. K \in Nat /\ K \in 0..K /\ Reachable \in SUBSET Steps
  BY <1>1, StepsAreFinite DEF IsAfter
<1>3. ASSUME Reachable # Steps
      PROVE  \E S \in (SUBSET Steps) \ {{}} : \A s \in S : EffectiveDeps(s) \cap S # {}
  <2> DEFINE S == Steps \ Reachable
  <2>1. Ready(Reachable) = {}
    <3>1. Cardinality(Reachable) <= K /\ Cardinality(Reachable) # K
      BY <1>2, <1>3, StepsAreFinite, FS_Subset DEF K
    <3>2. Cardinality(Reachable) \in Nat
      BY <1>2, StepsAreFinite, FS_Subset, FS_CardinalityType
    <3>3. Cardinality(Reachable) >= K \/ Ready(Reachable) = {}
      BY <1>1, <1>2, WavesGrow
    <3>4. QED
      BY <1>2, <3>1, <3>2, <3>3
  <2>2. \A s \in S : EffectiveDeps(s) \cap S # {}
    BY <2>1, DepsAreSteps DEF Ready
  <2>3. S \in (SUBSET Steps) \ {{}}
    BY <1>2, <1>3
  <2>4. QED
    BY <2>2, <2>3
<1>4. ASSUME Reachable = Steps, NEW S \in (SUBSET Steps) \ {{}},
             \A s \in S : EffectiveDeps(s) \cap S # {}
      PROVE  FALSE
  BY <1>1, <1>2, <1>4, CycleIsInNoWave
<1>5. QED
  BY <1>3, <1>4

-----------------------------------------------------------------------------
(* The parallelism of a slice *)

(* max_parallelism steps at most have fewer than that many before them.     *)
LEMMA SliceIsNarrow ==
    ASSUME WellFormed, \A s, u \in Steps : recipe.place[s] = recipe.place[u] => s = u,
           NEW S \in SUBSET Steps
    PROVE  IsFiniteSet(Slice(S)) /\ Cardinality(Slice(S)) <= recipe.maxParallelism
<1> DEFINE before(s) == {u \in S : recipe.place[u] < recipe.place[s]}
           n == recipe.maxParallelism
           f == [s \in Slice(S) |-> Cardinality(before(s))]
<1>1. n \in Nat \ {0} /\ \A s \in Steps : recipe.place[s] \in Int
  <2>1. recipe.place \in [Steps -> 1..Cardinality(Steps)] /\ n \in Nat \ {0}
    BY DEF WellFormed, RecipeSet
  <2>2. QED
    BY <2>1, StepsAreFinite DEF K
<1>2. IsFiniteSet(S) /\ \A s : IsFiniteSet(before(s)) /\ Cardinality(before(s)) \in Nat
  <2>1. IsFiniteSet(S)
    BY StepsAreFinite, FS_Subset
  <2>2. \A s : before(s) \in SUBSET S
    OBVIOUS
  <2>3. QED
    BY <2>1, <2>2, FS_Subset, FS_CardinalityType
<1>3. \A s \in Slice(S) : s \in S /\ Cardinality(before(s)) \in 0..(n - 1)
  BY <1>1, <1>2 DEF Slice
<1>4. f \in [Slice(S) -> 0..(n - 1)]
  BY <1>3
<1>5. ASSUME NEW s \in Slice(S), NEW u \in Slice(S), recipe.place[s] < recipe.place[u]
      PROVE  f[s] # f[u]
  <2>0. s \in S /\ u \in S /\ \A v \in S : recipe.place[v] \in Int
    BY <1>1, <1>3
  <2> HIDE DEF f, n
  <2>1. before(s) \subseteq before(u) /\ s \in before(u) /\ s \notin before(s)
    BY <2>0, <1>5
  <2>2. before(s) # before(u)
    BY <2>1
  <2>3. Cardinality(before(s)) # Cardinality(before(u))
    <3> DEFINE A == before(s)
               B == before(u)
    <3>1. A \in SUBSET B /\ A # B /\ IsFiniteSet(B)
      BY <1>2, <2>1, <2>2
    <3> HIDE DEF A, B
    <3>2. Cardinality(A) # Cardinality(B)
      BY <3>1, FS_Subset
    <3>3. QED
      BY <3>2 DEF A, B
  <2>4. QED
    BY <2>3 DEF f
<1>6. \A s, u \in Slice(S) : f[s] = f[u] => s = u
  BY <1>1, <1>3, <1>5
<1>7. f \in Injection(Slice(S), 0..(n - 1))
  <2>1. DOMAIN f = Slice(S)
    OBVIOUS
  <2> HIDE DEF f
  <2>2. QED
    BY <1>4, <1>6, <2>1 DEF Injection, IsInjective
<1> HIDE DEF f, n
<1>8. IsFiniteSet(0..(n - 1)) /\ Cardinality(0..(n - 1)) = n
  <2>1. n \in Nat \ {0}
    BY <1>1 DEF n
  <2>2. 0 \in Int /\ n - 1 \in Int /\ ~(0 > n - 1) /\ n - 1 - 0 + 1 = n
    BY <2>1
  <2>3. QED
    BY <2>2, FS_Interval
<1>9. IsFiniteSet(Slice(S)) /\ Cardinality(Slice(S)) <= Cardinality(0..(n - 1))
  BY <1>7, <1>8, FS_Injection
<1>10. QED
  BY <1>8, <1>9 DEF n

-----------------------------------------------------------------------------
(* The invariant *)

Cyclic == \E S \in (SUBSET Steps) \ {{}} : \A s \in S : EffectiveDeps(s) \cap S # {}

TypeInv ==
    /\ recipe \in Recipes
    /\ pc \in [Calls -> {"idle", "refused", "running", "crashed"} \cup Verdicts]
    /\ runId \in [Calls -> Ids \cup {NoId}]
    /\ \A c \in Calls : runId[c] = NoId <=> pc[c] \in {"idle", "refused"}
    /\ completed \in [Calls -> SUBSET Steps]
    /\ phase \in [Calls -> [Steps -> {"idle", "first", "paused", "second"} \cup Settled]]
    /\ recorded \in [Calls -> SUBSET Steps]
    /\ aborted \in [Calls -> BOOLEAN]
    /\ runRegistry \in [Ids -> Calls \cup {NoCall}]
    /\ pauseRegistry \in [Ids \X Steps -> Pause \cup {NoPause}]
    /\ row \in [Ids -> {"none", "running", "paused"} \cup Verdicts]
    /\ bus \in [Ids -> {"none", "blank", "open", "ended"}]
    /\ sub \in [Ids -> {"none", "listening", "told", "untold"}]

(* What one call has done is consistent.                                    *)
CallOK(c) ==
    /\ completed[c] \subseteq recorded[c]
    /\ \A s \in recorded[c] : phase[c][s] \in Settled
    /\ pc[c] \in {"idle", "refused", "crashed"} => \A s \in Steps : phase[c][s] = "idle"
    /\ pc[c] \in Verdicts => \A s \in Steps : phase[c][s] \in Settled \cup {"idle"}
    /\ pc[c] = "running" => \A s \in recorded[c] : Ran(c, s)
    /\ \A s \in Started(c) : \A d \in EffectiveDeps(s) : d \in recorded[c] /\ Ran(c, d)
    /\ Cardinality(Chunk(c)) <= recipe.maxParallelism
    /\ pc[c] = "refused" => Cyclic
    /\ pc[c] \notin {"idle", "refused"} => ~Cyclic
    /\ pc[c] = "success" => recorded[c] = Steps /\ \A s \in Steps : Ran(c, s)

CallsInv == \A c \in Calls : CallOK(c)

(* A pause that can be answered belongs to a step that waits for it.        *)
PauseInv ==
    /\ \A k \in Ids \X Steps : ~pauseRegistry[k].dead =>
         LET c == pauseRegistry[k].call
         IN /\ c \in Calls /\ pauseRegistry[k] = [call |-> c, dead |-> FALSE]
            /\ runId[c] = k[1] /\ pc[c] = "running" /\ phase[c][k[2]] = "paused"
    /\ \A c \in Calls, s \in Steps :
         pc[c] = "running" /\ phase[c][s] = "paused"
            => pauseRegistry[<<runId[c], s>>] = [call |-> c, dead |-> FALSE]

RegistryInv ==
    /\ \A i \in Ids : runRegistry[i] # NoCall =>
         runId[runRegistry[i]] = i /\ pc[runRegistry[i]] = "running"
    /\ \A c \in Calls : Sole(c) /\ pc[c] = "running" => runRegistry[runId[c]] = c

Unused(i) == \A c \in Calls : runId[c] # i

StreamOK(c) ==
    /\ pc[c] = "running" =>
         /\ row[runId[c]] \in {"running", "paused"} /\ bus[runId[c]] = "open"
         /\ sub[runId[c]] \in {"none", "listening"}
    /\ pc[c] \in Verdicts =>
         /\ row[runId[c]] = pc[c] /\ bus[runId[c]] # "open"
         /\ sub[runId[c]] \in {"none", "told"}

StreamInv ==
    /\ \A i \in Ids : Unused(i) =>
         row[i] = "none" /\ bus[i] \in {"none", "blank"} /\ sub[i] \in {"none", "listening"}
    /\ \A c \in Calls : Sole(c) => StreamOK(c)

IInv == TypeInv /\ CallsInv /\ PauseInv /\ RegistryInv /\ RowIsExplained /\ StreamInv

-----------------------------------------------------------------------------
(* Frames *)

LEMMA TypeGivesForm ==
    ASSUME TypeInv
    PROVE  /\ WellFormed /\ \A s, u \in Steps : recipe.place[s] = recipe.place[u] => s = u
           /\ recipe.maxParallelism \in Nat \ {0}
BY RecipesAssumption DEF TypeInv, WellFormed, RecipeSet

LEMMA DepsFrame ==
    ASSUME UNCHANGED recipe
    PROVE  (\A s \in Steps : EffectiveDeps(s)' = EffectiveDeps(s)) /\ (Cyclic' <=> Cyclic)
<1>1. \A s \in Steps : EffectiveDeps(s)' = EffectiveDeps(s)
  BY DEF EffectiveDeps
<1>2. QED
  BY <1>1 DEF Cyclic

(* A call nothing happens to.                                               *)
LEMMA CallFrame ==
    ASSUME NEW c \in Calls, CallOK(c), UNCHANGED recipe,
           pc'[c] = pc[c], completed'[c] = completed[c], phase'[c] = phase[c],
           recorded'[c] = recorded[c]
    PROVE  CallOK(c)'
<1>1. (\A s \in Steps : EffectiveDeps(s)' = EffectiveDeps(s)) /\ (Cyclic' <=> Cyclic)
  BY DepsFrame
<1>2. Started(c)' = Started(c) /\ Chunk(c)' = Chunk(c) /\ \A s \in Steps : Ran(c, s)' = Ran(c, s)
  BY DEF Started, Chunk, Ran
<1>3. QED
  BY <1>1, <1>2 DEF CallOK, Ran, Started

(* A started step of a running call moves on; its result is not recorded.   *)
LEMMA CallMoves ==
    ASSUME TypeInv, NEW c \in Calls, CallOK(c), NEW S \in SUBSET Steps,
           pc[c] = "running", \A s \in S : phase[c][s] \in {"first", "paused", "second"},
           \A s \in S : phase'[c][s] # "idle", \A s \in Steps \ S : phase'[c][s] = phase[c][s],
           UNCHANGED recipe, pc'[c] = pc[c], completed'[c] = completed[c],
           recorded'[c] = recorded[c]
    PROVE  CallOK(c)'
<1>1. (\A s \in Steps : EffectiveDeps(s)' = EffectiveDeps(s)) /\ (Cyclic' <=> Cyclic)
  BY DepsFrame
<1>2. \A s \in recorded[c] : s \in Steps /\ phase[c][s] \in Settled /\ s \notin S
  BY DEF CallOK, TypeInv, Settled
<1>3. \A s \in recorded[c] : phase'[c][s] = phase[c][s] /\ Ran(c, s)' = Ran(c, s)
  BY <1>2 DEF Ran
<1>4. Started(c)' = Started(c)
  BY DEF Started
<1>5. Chunk(c)' = Chunk(c)
  BY <1>4 DEF Chunk
<1>6. QED
  BY <1>1, <1>2, <1>3, <1>4, <1>5 DEF CallOK, Verdicts, Started

-----------------------------------------------------------------------------
(* Waves and slices *)

(* What follows when the chunk of a running call is settled without a halt. *)
LEMMA ChunkSettles ==
    ASSUME TypeInv, NEW c \in Calls, CallOK(c), pc[c] = "running",
           ChunkIsSettled(c), Halting(c) = {}
    PROVE  \A s \in recorded[c] \cup Chunk(c) : s \in Steps /\ phase[c][s] \in Settled /\ Ran(c, s)
<1>1. \A s \in Chunk(c) : s \in Steps /\ phase[c][s] \in Settled /\ ~Halts(c, s)
  BY DEF ChunkIsSettled, Halting, Chunk, Started
<1>2. \A s \in Chunk(c) : Ran(c, s)
  BY <1>1 DEF Halts, Ran, Settled
<1>3. QED
  BY <1>1, <1>2 DEF CallOK, TypeInv

LEMMA NextChunkCall ==
    ASSUME TypeInv, NEW c \in Calls, CallOK(c), NextChunk(c)
    PROVE  CallOK(c)'
<1> DEFINE results == recorded[c] \cup Chunk(c)
           rest == Ready(completed[c]) \ results
           done == IF rest = {} THEN results ELSE completed[c]
           wave == IF rest = {} THEN Ready(results) ELSE rest
<1>1. /\ pc[c] = "running" /\ ChunkIsSettled(c) /\ Halting(c) = {}
      /\ recorded' = [recorded EXCEPT ![c] = results]
      /\ completed' = [completed EXCEPT ![c] = done]
      /\ phase' = Launched(c, Slice(wave))
      /\ UNCHANGED <<recipe, pc>>
  BY DEF NextChunk, GoOn
<1>2. \A s \in results : s \in Steps /\ phase[c][s] \in Settled /\ Ran(c, s)
  BY <1>1, ChunkSettles
<1>3. results = Started(c) /\ results \subseteq Steps /\ completed[c] \subseteq results
  BY <1>2 DEF Chunk, CallOK, Started, Settled
<1>4. wave \subseteq Steps \ results /\ Slice(wave) \subseteq wave
  BY DEF Ready, Slice
<1>5. \A s \in Slice(wave) : EffectiveDeps(s) \subseteq results
  BY <1>3, <1>4 DEF Ready
<1> HIDE DEF results, rest, done, wave
<1>6. /\ recorded'[c] = results /\ completed'[c] \subseteq results /\ pc'[c] = "running"
      /\ \A s \in Steps : phase'[c][s] = IF s \in Slice(wave) THEN "first" ELSE phase[c][s]
  BY <1>1, <1>3 DEF TypeInv, Launched, done
<1>7. \A s \in results : phase'[c][s] = phase[c][s] /\ Ran(c, s)'
  BY <1>1, <1>2, <1>3, <1>4, <1>6 DEF Ran
<1>8. Started(c)' = results \cup Slice(wave)
  <2>1. \A s \in Steps : phase'[c][s] # "idle" <=> s \in results \cup Slice(wave)
    BY <1>3, <1>6 DEF Started
  <2>2. QED
    BY <1>3, <1>4, <2>1 DEF Started
<1>9. Chunk(c)' = Slice(wave)
  BY <1>4, <1>6, <1>8 DEF Chunk
<1>10. Cardinality(Chunk(c)') <= recipe'.maxParallelism
  <2>1. wave \in SUBSET Steps
    BY <1>4
  <2>2. QED
    BY <1>1, <1>9, <2>1, TypeGivesForm, SliceIsNarrow
<1>11. \A s \in Started(c)' : \A d \in EffectiveDeps(s)' : d \in recorded'[c] /\ Ran(c, d)'
  <2>1. \A s \in Started(c)' : s \in Steps /\ EffectiveDeps(s)' = EffectiveDeps(s)
    BY <1>1, <1>3, <1>4, <1>8, DepsFrame
  <2>2. \A s \in results : EffectiveDeps(s) \subseteq results
    BY <1>3 DEF CallOK, results
  <2>3. QED
    BY <1>5, <1>6, <1>7, <1>8, <2>1, <2>2
<1>12. ~Cyclic'
  BY <1>1, DepsFrame DEF CallOK
<1>13. \A s \in results : phase'[c][s] \in Settled
  BY <1>2, <1>7
<1>14. QED
  BY <1>6, <1>7, <1>10, <1>11, <1>12, <1>13 DEF CallOK, Verdicts

LEMMA StartCallCall ==
    ASSUME TypeInv, NEW c \in Calls, CallOK(c), NEW i \in Ids, StartCall(c, i)
    PROVE  CallOK(c)'
<1>1. /\ pc[c] = "idle" /\ Reachable = Steps
      /\ pc' = [pc EXCEPT ![c] = "running"] /\ phase' = Launched(c, Slice(Ready({})))
      /\ UNCHANGED <<recipe, completed, recorded>>
  BY DEF StartCall
<1>2. recorded[c] = {} /\ completed[c] = {} /\ \A s \in Steps : phase[c][s] = "idle"
  BY <1>1 DEF CallOK, TypeInv, Settled
<1>3. Ready({}) \in SUBSET Steps /\ Slice(Ready({})) \subseteq Ready({})
  BY DEF Ready, Slice
<1>4. \A s \in Steps : phase'[c][s] = IF s \in Slice(Ready({})) THEN "first" ELSE "idle"
  BY <1>1, <1>2 DEF TypeInv, Launched
<1>5. Started(c)' = Slice(Ready({})) /\ Chunk(c)' = Slice(Ready({}))
  BY <1>1, <1>2, <1>3, <1>4 DEF Started, Chunk
<1>6. Cardinality(Chunk(c)') <= recipe'.maxParallelism
  BY <1>1, <1>3, <1>5, TypeGivesForm, SliceIsNarrow
<1>7. \A s \in Started(c)' : EffectiveDeps(s)' = {}
  <2>1. \A s \in Ready({}) : s \in Steps /\ EffectiveDeps(s) = {}
    BY DEF Ready
  <2>2. QED
    BY <1>1, <1>3, <1>5, <2>1, DepsFrame
<1>8. ~Cyclic'
  <2>1. ~Cyclic
    BY <1>1, TypeGivesForm, WavesAreComplete DEF Cyclic
  <2>2. QED
    BY <1>1, <2>1, DepsFrame
<1>9. pc'[c] = "running"
  BY <1>1 DEF TypeInv
<1>10. QED
  BY <1>1, <1>2, <1>6, <1>7, <1>8, <1>9 DEF CallOK, Verdicts

LEMMA HaltRunCall ==
    ASSUME TypeInv, NEW c \in Calls, CallOK(c), HaltRun(c)
    PROVE  CallOK(c)' /\ pc'[c] \in {"failed", "cancelled"}
<1> DEFINE more == {s \in Chunk(c) : \A u \in Halting(c) : recipe.place[s] <= recipe.place[u]}
<1>1. /\ pc[c] = "running" /\ ChunkIsSettled(c)
      /\ recorded' = [recorded EXCEPT ![c] = @ \cup more]
      /\ pc' = [pc EXCEPT ![c] = FinalStatus(c, "failed")]
      /\ UNCHANGED <<recipe, completed, phase>>
  BY DEF HaltRun, BreakOuter, End, Conclude
<1> HIDE DEF more
<1>2. more \subseteq Chunk(c)
  BY DEF more
<1>3. pc'[c] \in {"failed", "cancelled"} /\ recorded'[c] = recorded[c] \cup more
  BY <1>1 DEF FinalStatus, TypeInv
<1>4. \A s \in recorded'[c] : s \in Steps /\ phase[c][s] \in Settled
  BY <1>1, <1>2, <1>3 DEF ChunkIsSettled, Chunk, Started, CallOK, TypeInv
<1>5. \A s \in Steps : phase[c][s] \in Settled \cup {"idle"}
  BY <1>1 DEF ChunkIsSettled, Chunk, Started, CallOK
<1>6. Started(c)' = Started(c) /\ Chunk(c)' = Chunk(c) \ more
  BY <1>1, <1>3 DEF Started, Chunk
<1>7. Cardinality(Chunk(c)') <= recipe'.maxParallelism
  <2>1. IsFiniteSet(Chunk(c)) /\ Chunk(c)' \in SUBSET Chunk(c)
    <3>1. Chunk(c) \in SUBSET Steps
      BY DEF Chunk, Started
    <3>2. QED
      BY <1>6, <3>1, StepsAreFinite, FS_Subset
  <2>2. /\ Cardinality(Chunk(c)') <= Cardinality(Chunk(c))
        /\ Cardinality(Chunk(c)') \in Nat /\ Cardinality(Chunk(c)) \in Nat
    BY <2>1, FS_Subset, FS_CardinalityType
  <2>3. QED
    BY <1>1, <2>2, TypeGivesForm DEF CallOK
<1>8. \A s \in Started(c)' : \A d \in EffectiveDeps(s)' : d \in recorded'[c] /\ Ran(c, d)'
  <2>1. \A s \in Started(c) : s \in Steps /\ EffectiveDeps(s)' = EffectiveDeps(s)
    BY <1>1, DepsFrame DEF Started
  <2>2. QED
    BY <1>1, <1>3, <1>6, <2>1 DEF CallOK, Ran
<1>9. ~Cyclic'
  BY <1>1, DepsFrame DEF CallOK
<1>10. completed'[c] \subseteq recorded'[c]
  BY <1>1, <1>3 DEF CallOK
<1>11. QED
  BY <1>1, <1>3, <1>4, <1>5, <1>7, <1>8, <1>9, <1>10 DEF CallOK, Verdicts

(* No step is left: what is not recorded would wait for itself.             *)
LEMMA CompleteRunCall ==
    ASSUME TypeInv, NEW c \in Calls, CallOK(c), CompleteRun(c)
    PROVE  CallOK(c)' /\ pc'[c] \in {"success", "cancelled"}
<1> DEFINE results == recorded[c] \cup Chunk(c)
<1>1. /\ pc[c] = "running" /\ ChunkIsSettled(c) /\ Halting(c) = {} /\ Ready(results) = {}
      /\ recorded' = [recorded EXCEPT ![c] = results]
      /\ completed' = [completed EXCEPT ![c] = results]
      /\ pc' = [pc EXCEPT ![c] = FinalStatus(c, "success")]
      /\ UNCHANGED <<recipe, phase>>
  BY DEF CompleteRun, End, Conclude
<1>2. \A s \in results : s \in Steps /\ phase[c][s] \in Settled /\ Ran(c, s)
  BY <1>1, ChunkSettles
<1>3. results = Steps
  <2> DEFINE S == Steps \ results
  <2>1. \A s \in S : EffectiveDeps(s) \cap S # {}
    BY <1>1, DepsAreSteps, TypeGivesForm DEF Ready
  <2>2. S = {}
    BY <1>1, <2>1 DEF CallOK, Cyclic
  <2>3. QED
    BY <1>2, <2>2
<1> HIDE DEF results
<1>4. recorded'[c] = Steps /\ completed'[c] = Steps /\ pc'[c] \in {"success", "cancelled"}
  BY <1>1, <1>3 DEF TypeInv, FinalStatus
<1>5. \A s \in Steps : phase'[c][s] \in Settled /\ Ran(c, s)'
  BY <1>1, <1>2, <1>3 DEF Ran
<1>6. Chunk(c)' = {} /\ Cardinality(Chunk(c)') <= recipe'.maxParallelism
  <2>1. Chunk(c)' = {}
    BY <1>4 DEF Chunk, Started
  <2>2. QED
    BY <1>1, <2>1, FS_EmptySet, TypeGivesForm
<1>7. \A s \in Started(c)' : \A d \in EffectiveDeps(s)' : d \in recorded'[c] /\ Ran(c, d)'
  <2>1. \A s \in Steps : EffectiveDeps(s)' \subseteq Steps
    BY <1>1, DepsFrame, DepsAreSteps, TypeGivesForm
  <2>2. QED
    BY <1>4, <1>5, <2>1 DEF Started
<1>8. ~Cyclic'
  BY <1>1, DepsFrame DEF CallOK
<1>9. QED
  BY <1>4, <1>5, <1>6, <1>7, <1>8 DEF CallOK, Verdicts

-----------------------------------------------------------------------------
(* Types *)

LEMMA InitType == Init => TypeInv
BY NamesAssumption DEF Init, TypeInv

LEMMA WakeType ==
    ASSUME TypeInv, NEW k \in Ids \X Steps, NEW ph \in {"bad", "second"}, Wake(k, ph)
    PROVE  /\ phase' \in [Calls -> [Steps -> {"idle", "first", "paused", "second"} \cup Settled]]
           /\ row' \in [Ids -> {"none", "running", "paused"} \cup Verdicts]
<1>1. CASE pauseRegistry[k].dead
  BY <1>1 DEF Wake, TypeInv
<1>2. CASE ~pauseRegistry[k].dead
  <2>1. k[1] \in Ids /\ k[2] \in Steps /\ pauseRegistry[k] \in Pause
    BY <1>2 DEF TypeInv, NoPause
  <2>2. pauseRegistry[k].call \in Calls
    BY <2>1 DEF Pause
  <2>3. /\ phase' = [phase EXCEPT ![pauseRegistry[k].call][k[2]] = ph]
        /\ row' = RowAfter(k[1], "running")
    BY <1>2 DEF Wake
  <2>4. row' \in [Ids -> {"none", "running", "paused"} \cup Verdicts]
    BY <2>1, <2>3 DEF RowAfter, TypeInv
  <2>5. phase' \in [Calls -> [Steps -> {"idle", "first", "paused", "second"} \cup Settled]]
    BY <2>1, <2>2, <2>3 DEF TypeInv, Settled
  <2>6. QED
    BY <2>4, <2>5
<1>3. QED
  BY <1>1, <1>2

LEMMA EndType ==
    ASSUME TypeInv, NEW c \in Calls, pc[c] = "running", NEW v \in {"failed", "success"}, End(c, v)
    PROVE  /\ pc' = [pc EXCEPT ![c] = FinalStatus(c, v)] /\ FinalStatus(c, v) \in Verdicts
           /\ pc' \in [Calls -> {"idle", "refused", "running", "crashed"} \cup Verdicts]
           /\ \A d \in Calls : runId[d] = NoId <=> pc'[d] \in {"idle", "refused"}
           /\ runId[c] \in Ids
           /\ row' \in [Ids -> {"none", "running", "paused"} \cup Verdicts]
           /\ bus' \in [Ids -> {"none", "blank", "open", "ended"}]
           /\ sub' \in [Ids -> {"none", "listening", "told", "untold"}]
           /\ runRegistry' \in [Ids -> Calls \cup {NoCall}]
<1>1. runId[c] \in Ids /\ FinalStatus(c, v) \in Verdicts
  BY DEF TypeInv, FinalStatus, Verdicts
<1>2. pc' = [pc EXCEPT ![c] = FinalStatus(c, v)]
  BY DEF End, Conclude
<1> DEFINE w == FinalStatus(c, v)
<1>3. w \in Verdicts /\ w \notin {"idle", "refused"} /\ pc' = [pc EXCEPT ![c] = w]
  BY <1>1, <1>2 DEF Verdicts
<1> HIDE DEF w
<1>4. /\ pc' \in [Calls -> {"idle", "refused", "running", "crashed"} \cup Verdicts]
      /\ \A d \in Calls : runId[d] = NoId <=> pc'[d] \in {"idle", "refused"}
  BY <1>3 DEF TypeInv
<1>5. /\ row' \in [Ids -> {"none", "running", "paused"} \cup Verdicts]
      /\ bus' \in [Ids -> {"none", "blank", "open", "ended"}]
      /\ sub' \in [Ids -> {"none", "listening", "told", "untold"}]
      /\ runRegistry' \in [Ids -> Calls \cup {NoCall}]
  BY <1>1 DEF End, Conclude, Unregistered, RowAfter, TypeInv
<1>6. QED
  BY <1>1, <1>2, <1>4, <1>5

LEMMA LaunchedType ==
    ASSUME TypeInv, NEW c \in Calls, NEW S
    PROVE  Launched(c, S) \in [Calls -> [Steps -> {"idle", "first", "paused", "second"} \cup Settled]]
BY DEF TypeInv, Launched

LEMMA ChunkType == \A c \in Calls : Started(c) \subseteq Steps /\ Chunk(c) \subseteq Steps
BY DEF Started, Chunk

LEMMA TypeNext ==
    ASSUME TypeInv, [Next]_vars
    PROVE  TypeInv'
<1>1. ASSUME NEW c \in Calls, Refuse(c) PROVE TypeInv'
  BY <1>1 DEF Refuse, TypeInv
<1>2. ASSUME NEW c \in Calls, HaltRun(c) PROVE TypeInv'
  <2>1. pc[c] = "running" /\ End(c, "failed")
    BY <1>2 DEF HaltRun, BreakOuter
  <2>2. recorded' \in [Calls -> SUBSET Steps]
    BY <1>2, ChunkType DEF HaltRun, BreakOuter, TypeInv
  <2>3. UNCHANGED <<recipe, runId, completed, phase, aborted, pauseRegistry>>
    BY <1>2 DEF HaltRun, BreakOuter
  <2>4. QED
    BY <2>1, <2>2, <2>3, EndType DEF TypeInv
<1>3. ASSUME NEW c \in Calls, NextChunk(c) PROVE TypeInv'
  <2>1. recorded' \in [Calls -> SUBSET Steps] /\ completed' \in [Calls -> SUBSET Steps]
    BY <1>3, ChunkType DEF NextChunk, GoOn, TypeInv
  <2>2. phase' \in [Calls -> [Steps -> {"idle", "first", "paused", "second"} \cup Settled]]
    BY <1>3, LaunchedType DEF NextChunk, GoOn
  <2>3. UNCHANGED <<recipe, pc, runId, aborted, runRegistry, pauseRegistry, row, sub>>
        /\ Publish(runId[c])
    BY <1>3 DEF NextChunk, GoOn
  <2>4. QED
    BY <2>1, <2>2, <2>3 DEF TypeInv, Publish
<1>4. ASSUME NEW c \in Calls, CompleteRun(c) PROVE TypeInv'
  <2>1. pc[c] = "running" /\ End(c, "success")
    BY <1>4 DEF CompleteRun
  <2>2. recorded' \in [Calls -> SUBSET Steps] /\ completed' \in [Calls -> SUBSET Steps]
    BY <1>4, ChunkType DEF CompleteRun, TypeInv
  <2>3. UNCHANGED <<recipe, runId, phase, aborted, pauseRegistry>>
    BY <1>4 DEF CompleteRun
  <2>4. QED
    BY <2>1, <2>2, <2>3, EndType DEF TypeInv
<1>5. ASSUME NEW c \in Calls, NEW i \in Ids, StartCall(c, i) PROVE TypeInv'
  <2>1. phase' \in [Calls -> [Steps -> {"idle", "first", "paused", "second"} \cup Settled]]
    BY <1>5, LaunchedType DEF StartCall
  <2>2. QED
    BY <1>5, <2>1, NamesAssumption DEF StartCall, Publish, TypeInv
<1>6. ASSUME NEW c \in Calls, NEW s \in Steps, ExitStep(c, s) PROVE TypeInv'
  BY <1>6 DEF ExitStep, SettleStep, Outcomes, Settled, TypeInv
<1>7. ASSUME NEW c \in Calls, NEW s \in Steps, RequestPause(c, s) PROVE TypeInv'
  <2>1. runId[c] \in Ids
    BY <1>7 DEF RequestPause, AskFor, TypeInv
  <2>2. phase' \in [Calls -> [Steps -> {"idle", "first", "paused", "second"} \cup Settled]]
    BY <1>7 DEF RequestPause, AskFor, TypeInv, Settled
  <2>3. pauseRegistry' \in [Ids \X Steps -> Pause \cup {NoPause}]
    <3>1. [call |-> c, dead |-> FALSE] \in Pause /\ <<runId[c], s>> \in Ids \X Steps
      BY <2>1 DEF Pause
    <3>2. QED
      BY <1>7, <3>1 DEF RequestPause, AskFor, TypeInv
  <2>4. row' \in [Ids -> {"none", "running", "paused"} \cup Verdicts]
    BY <1>7, <2>1 DEF RequestPause, AskFor, RowAfter, TypeInv
  <2>5. bus' \in [Ids -> {"none", "blank", "open", "ended"}]
    BY <1>7 DEF RequestPause, AskFor, Publish, TypeInv
  <2>6. UNCHANGED <<recipe, pc, runId, completed, recorded, aborted, runRegistry, sub>>
    BY <1>7 DEF RequestPause, AskFor
  <2>7. QED
    BY <2>2, <2>3, <2>4, <2>5, <2>6 DEF TypeInv
<1>8. ASSUME NEW k \in Ids \X Steps, Respond(k) PROVE TypeInv'
  <2>1. Wake(k, "second") /\ UNCHANGED <<recipe, pc, runId, completed, recorded, aborted, runRegistry, bus, sub>>
    BY <1>8 DEF Respond
  <2>2. pauseRegistry' \in [Ids \X Steps -> Pause \cup {NoPause}]
    BY <1>8 DEF Respond, TypeInv
  <2>3. QED
    BY <2>1, <2>2, WakeType DEF TypeInv
<1>9. ASSUME NEW k \in Ids \X Steps, RespondMismatched(k) PROVE TypeInv'
  <2>1. Wake(k, "bad") /\ UNCHANGED <<recipe, pc, runId, completed, recorded, aborted, runRegistry, bus, sub>>
    BY <1>9 DEF RespondMismatched
  <2>2. pauseRegistry' \in [Ids \X Steps -> Pause \cup {NoPause}]
    <3>1. pauseRegistry[k] \in Pause
      BY <1>9 DEF RespondMismatched, TypeInv
    <3>2. [pauseRegistry[k] EXCEPT !.dead = TRUE] \in Pause
      BY <3>1 DEF Pause
    <3>3. QED
      BY <1>9, <3>2 DEF RespondMismatched, TypeInv
  <2>3. QED
    BY <2>1, <2>2, WakeType DEF TypeInv
<1>10. ASSUME NEW k \in Ids \X Steps, TimeOut(k) PROVE TypeInv'
  <2>1. Wake(k, "bad") /\ UNCHANGED <<recipe, pc, runId, completed, recorded, aborted, runRegistry, bus, sub>>
    BY <1>10 DEF TimeOut
  <2>2. pauseRegistry' \in [Ids \X Steps -> Pause \cup {NoPause}]
    BY <1>10 DEF TimeOut, TypeInv
  <2>3. QED
    BY <2>1, <2>2, WakeType DEF TypeInv
<1>11. ASSUME NEW i \in Ids, Cancel(i) PROVE TypeInv'
  <2> DEFINE c == runRegistry[i]
  <2>1. c \in Calls
    BY <1>11 DEF Cancel, TypeInv
  <2>2. phase' \in [Calls -> [Steps -> {"idle", "first", "paused", "second"} \cup Settled]]
    BY <1>11, <2>1 DEF Cancel, TypeInv, Settled
  <2>3. pauseRegistry' \in [Ids \X Steps -> Pause \cup {NoPause}]
    BY <1>11 DEF Cancel, TypeInv
  <2>4. row' \in [Ids -> {"none", "running", "paused"} \cup Verdicts]
    BY <1>11 DEF Cancel, RowAfter, TypeInv
  <2>5. aborted' \in [Calls -> BOOLEAN]
    BY <1>11, <2>1 DEF Cancel, TypeInv
  <2>6. UNCHANGED <<recipe, pc, runId, completed, recorded, runRegistry, bus, sub>>
    BY <1>11 DEF Cancel
  <2>7. QED
    BY <2>2, <2>3, <2>4, <2>5, <2>6 DEF TypeInv
<1>12. ASSUME NEW i \in Ids, Subscribe(i) \/ Disconnect(i) \/ DropBus(i) PROVE TypeInv'
  BY <1>12 DEF Subscribe, SubscribeWith, Disconnect, DropBus, TypeInv
<1>13. CASE Crash
  <2>1. /\ UNCHANGED <<recipe, runId, row>>
        /\ pc' = [c \in Calls |-> IF pc[c] = "running" THEN "crashed" ELSE pc[c]]
        /\ completed' = [c \in Calls |-> IF pc[c] = "running" THEN {} ELSE completed[c]]
        /\ phase' = [c \in Calls |-> IF pc[c] = "running" THEN [s \in Steps |-> "idle"] ELSE phase[c]]
        /\ recorded' = [c \in Calls |-> IF pc[c] = "running" THEN {} ELSE recorded[c]]
        /\ aborted' = [c \in Calls |-> IF pc[c] = "running" THEN FALSE ELSE aborted[c]]
        /\ runRegistry' = [i \in Ids |-> NoCall] /\ pauseRegistry' = [k \in Ids \X Steps |-> NoPause]
        /\ bus' = [i \in Ids |-> "none"] /\ sub' = [i \in Ids |-> "none"]
    BY <1>13 DEF Crash
  <2>2. QED
    BY <2>1 DEF TypeInv
<1>14. CASE UNCHANGED vars
  BY <1>14 DEF vars, TypeInv
<1>15. QED
  BY <1>1, <1>2, <1>3, <1>4, <1>5, <1>6, <1>7, <1>8, <1>9, <1>10, <1>11, <1>12, <1>13, <1>14
     DEF Next, Advance

-----------------------------------------------------------------------------
(* What calls do stays consistent *)

LEMMA RefuseCall ==
    ASSUME TypeInv, NEW c \in Calls, CallOK(c), Refuse(c)
    PROVE  CallOK(c)'
<1>1. /\ pc[c] = "idle" /\ Reachable # Steps /\ pc' = [pc EXCEPT ![c] = "refused"]
      /\ UNCHANGED <<recipe, completed, phase, recorded>>
  BY DEF Refuse
<1>2. pc'[c] = "refused" /\ Cyclic'
  <2>1. Cyclic
    BY <1>1, TypeGivesForm, WavesAreComplete DEF Cyclic
  <2>2. QED
    BY <1>1, <2>1, DepsFrame DEF TypeInv
<1>3. Started(c)' = {} /\ Chunk(c)' = {} /\ Chunk(c) = {} /\ recorded[c] = {}
  BY <1>1 DEF Started, Chunk, CallOK, TypeInv, Settled
<1>4. QED
  BY <1>1, <1>2, <1>3 DEF CallOK, Verdicts

LEMMA CrashCall ==
    ASSUME TypeInv, NEW c \in Calls, CallOK(c), Crash
    PROVE  CallOK(c)'
<1>1. CASE pc[c] = "running"
  <2>1. /\ pc'[c] = "crashed" /\ completed'[c] = {} /\ recorded'[c] = {}
        /\ phase'[c] = [s \in Steps |-> "idle"] /\ UNCHANGED recipe
    BY <1>1 DEF Crash
  <2>2. Started(c)' = {} /\ Chunk(c)' = {}
    BY <2>1 DEF Started, Chunk
  <2>3. Cardinality(Chunk(c)') <= recipe'.maxParallelism
    BY <2>1, <2>2, FS_EmptySet, TypeGivesForm
  <2>4. ~Cyclic'
    BY <1>1, <2>1, DepsFrame DEF CallOK
  <2>5. QED
    BY <2>1, <2>2, <2>3, <2>4 DEF CallOK, Verdicts
<1>2. CASE pc[c] # "running"
  <2>1. /\ pc'[c] = pc[c] /\ completed'[c] = completed[c] /\ phase'[c] = phase[c]
        /\ recorded'[c] = recorded[c] /\ UNCHANGED recipe
    BY <1>2 DEF Crash
  <2>2. QED
    BY <2>1, CallFrame
<1>3. QED
  BY <1>1, <1>2

(* A live pause wakes a paused step of a running call, a dead one none.     *)
LEMMA WakeCall ==
    ASSUME TypeInv, CallsInv, PauseInv, NEW k \in Ids \X Steps, NEW ph \in {"bad", "second"},
           Wake(k, ph), UNCHANGED <<recipe, pc, completed, recorded>>, NEW d \in Calls
    PROVE  CallOK(d)'
<1>1. CallOK(d)
  BY DEF CallsInv
<1> DEFINE c == pauseRegistry[k].call
<1>2. CASE pauseRegistry[k].dead \/ d # c
  <2>1. phase'[d] = phase[d]
    BY <1>2 DEF Wake, TypeInv
  <2>2. QED
    BY <1>1, <2>1, CallFrame
<1>3. CASE ~pauseRegistry[k].dead /\ d = c
  <2>1. /\ k[2] \in Steps /\ pc[d] = "running" /\ phase[d][k[2]] = "paused"
        /\ phase' = [phase EXCEPT ![d][k[2]] = ph]
    BY <1>3 DEF Wake, PauseInv
  <2>2. \A s \in Steps : phase'[d][s] = IF s = k[2] THEN ph ELSE phase[d][s]
    BY <2>1 DEF TypeInv
  <2> DEFINE S == {k[2]}
  <2>3. /\ S \in SUBSET Steps
        /\ \A s \in S : phase[d][s] \in {"first", "paused", "second"}
        /\ \A s \in S : phase'[d][s] # "idle"
        /\ \A s \in Steps \ S : phase'[d][s] = phase[d][s]
    BY <2>1, <2>2
  <2>4. pc'[d] = pc[d] /\ completed'[d] = completed[d] /\ recorded'[d] = recorded[d]
    OBVIOUS
  <2> HIDE DEF S
  <2>5. QED
    BY <1>1, <2>1, <2>3, <2>4, CallMoves
<1>4. QED
  BY <1>2, <1>3

LEMMA CallsNext ==
    ASSUME TypeInv, CallsInv, PauseInv, RegistryInv, [Next]_vars
    PROVE  CallsInv'
<1> SUFFICES ASSUME NEW d \in Calls PROVE CallOK(d)'
  BY DEF CallsInv
<1>0. CallOK(d)
  BY DEF CallsInv
<1>1. ASSUME NEW c \in Calls, Refuse(c) PROVE CallOK(d)'
  <2>1. d # c => /\ pc'[d] = pc[d] /\ completed'[d] = completed[d] /\ phase'[d] = phase[d]
                 /\ recorded'[d] = recorded[d] /\ UNCHANGED recipe
    BY <1>1 DEF Refuse, TypeInv
  <2>2. QED
    BY <1>0, <1>1, <2>1, RefuseCall, CallFrame
<1>2. ASSUME NEW c \in Calls, HaltRun(c) PROVE CallOK(d)'
  <2>1. d # c => /\ pc'[d] = pc[d] /\ completed'[d] = completed[d] /\ phase'[d] = phase[d]
                 /\ recorded'[d] = recorded[d] /\ UNCHANGED recipe
    BY <1>2 DEF HaltRun, BreakOuter, End, Conclude, TypeInv
  <2>2. QED
    BY <1>0, <1>2, <2>1, HaltRunCall, CallFrame
<1>3. ASSUME NEW c \in Calls, NextChunk(c) PROVE CallOK(d)'
  <2>1. d # c => /\ pc'[d] = pc[d] /\ completed'[d] = completed[d] /\ phase'[d] = phase[d]
                 /\ recorded'[d] = recorded[d] /\ UNCHANGED recipe
    BY <1>3 DEF NextChunk, GoOn, Launched, TypeInv
  <2>2. QED
    BY <1>0, <1>3, <2>1, NextChunkCall, CallFrame
<1>4. ASSUME NEW c \in Calls, CompleteRun(c) PROVE CallOK(d)'
  <2>1. d # c => /\ pc'[d] = pc[d] /\ completed'[d] = completed[d] /\ phase'[d] = phase[d]
                 /\ recorded'[d] = recorded[d] /\ UNCHANGED recipe
    BY <1>4 DEF CompleteRun, End, Conclude, TypeInv
  <2>2. QED
    BY <1>0, <1>4, <2>1, CompleteRunCall, CallFrame
<1>5. ASSUME NEW c \in Calls, NEW i \in Ids, StartCall(c, i) PROVE CallOK(d)'
  <2>1. d # c => /\ pc'[d] = pc[d] /\ completed'[d] = completed[d] /\ phase'[d] = phase[d]
                 /\ recorded'[d] = recorded[d] /\ UNCHANGED recipe
    BY <1>5 DEF StartCall, Launched, TypeInv
  <2>2. QED
    BY <1>0, <1>5, <2>1, StartCallCall, CallFrame
<1>6. ASSUME NEW c \in Calls, NEW s \in Steps, ExitStep(c, s) PROVE CallOK(d)'
  <2>1. PICK outcome \in Settled : SettleStep(c, s, outcome)
    BY <1>6 DEF ExitStep, Outcomes, Settled
  <2>2. /\ pc[c] = "running" /\ phase[c][s] \in {"first", "second"}
        /\ phase' = [phase EXCEPT ![c][s] = outcome] /\ UNCHANGED <<recipe, pc, completed, recorded>>
    BY <1>6, <2>1 DEF ExitStep, SettleStep
  <2>3. outcome # "idle"
    BY DEF Settled
  <2>4. CASE d = c
    <3>1. \A u \in Steps : phase'[c][u] = IF u = s THEN outcome ELSE phase[c][u]
      BY <2>2 DEF TypeInv
    <3> DEFINE S == {s}
    <3>2. /\ S \in SUBSET Steps
          /\ \A u \in S : phase[c][u] \in {"first", "paused", "second"}
          /\ \A u \in S : phase'[c][u] # "idle"
          /\ \A u \in Steps \ S : phase'[c][u] = phase[c][u]
      BY <2>2, <2>3, <3>1
    <3>3. pc'[c] = pc[c] /\ completed'[c] = completed[c] /\ recorded'[c] = recorded[c]
      BY <2>2
    <3> HIDE DEF S
    <3>4. QED
      BY <1>0, <2>2, <2>4, <3>2, <3>3, CallMoves
  <2>5. CASE d # c
    BY <1>0, <2>2, <2>5, CallFrame DEF TypeInv
  <2>6. QED
    BY <2>4, <2>5
<1>7. ASSUME NEW c \in Calls, NEW s \in Steps, RequestPause(c, s) PROVE CallOK(d)'
  <2>1. PICK outcome \in {"paused", "bad"} : phase' = [phase EXCEPT ![c][s] = outcome]
    BY <1>7 DEF RequestPause, AskFor
  <2>2. /\ pc[c] = "running" /\ phase[c][s] = "first"
        /\ UNCHANGED <<recipe, pc, completed, recorded>>
    BY <1>7 DEF RequestPause, AskFor
  <2>4. CASE d = c
    <3>1. \A u \in Steps : phase'[c][u] = IF u = s THEN outcome ELSE phase[c][u]
      BY <2>1 DEF TypeInv
    <3> DEFINE S == {s}
    <3>2. /\ S \in SUBSET Steps
          /\ \A u \in S : phase[c][u] \in {"first", "paused", "second"}
          /\ \A u \in S : phase'[c][u] # "idle"
          /\ \A u \in Steps \ S : phase'[c][u] = phase[c][u]
      BY <2>2, <3>1
    <3>3. pc'[c] = pc[c] /\ completed'[c] = completed[c] /\ recorded'[c] = recorded[c]
      BY <2>2
    <3> HIDE DEF S
    <3>4. QED
      BY <1>0, <2>2, <2>4, <3>2, <3>3, CallMoves
  <2>5. CASE d # c
    BY <1>0, <2>1, <2>2, <2>5, CallFrame DEF TypeInv
  <2>6. QED
    BY <2>4, <2>5
<1>8. ASSUME NEW k \in Ids \X Steps, Respond(k) \/ RespondMismatched(k) \/ TimeOut(k)
      PROVE  CallOK(d)'
  <2>1. UNCHANGED <<recipe, pc, completed, recorded>> /\ (Wake(k, "second") \/ Wake(k, "bad"))
    BY <1>8 DEF Respond, RespondMismatched, TimeOut
  <2>2. QED
    BY <2>1, WakeCall
<1>9. ASSUME NEW i \in Ids, Cancel(i) PROVE CallOK(d)'
  <2> DEFINE c == runRegistry[i]
  <2>1. /\ c \in Calls /\ pc[c] = "running" /\ UNCHANGED <<recipe, pc, completed, recorded>>
        /\ phase' = [phase EXCEPT ![c] =
                       [s \in Steps |-> IF s \in PausedSteps(c) THEN "bad" ELSE @[s]]]
    BY <1>9 DEF Cancel, TypeInv, RegistryInv
  <2> HIDE DEF c
  <2>2. CASE d = c
    <3>1. \A s \in Steps : phase'[c][s] = IF s \in PausedSteps(c) THEN "bad" ELSE phase[c][s]
      BY <2>1 DEF TypeInv
    <3>2. /\ PausedSteps(c) \in SUBSET Steps
          /\ \A s \in PausedSteps(c) : phase[c][s] \in {"first", "paused", "second"} /\ phase'[c][s] # "idle"
          /\ \A s \in Steps \ PausedSteps(c) : phase'[c][s] = phase[c][s]
      BY <3>1 DEF PausedSteps
    <3>3. QED
      BY <1>0, <2>1, <2>2, <3>2, CallMoves
  <2>3. CASE d # c
    BY <1>0, <2>1, <2>3, CallFrame DEF TypeInv
  <2>4. QED
    BY <2>2, <2>3
<1>10. ASSUME NEW i \in Ids, Subscribe(i) \/ Disconnect(i) \/ DropBus(i) PROVE CallOK(d)'
  BY <1>0, <1>10, CallFrame DEF Subscribe, SubscribeWith, Disconnect, DropBus
<1>11. CASE Crash
  BY <1>0, <1>11, CrashCall
<1>12. CASE UNCHANGED vars
  BY <1>0, <1>12, CallFrame DEF vars
<1>13. QED
  BY <1>1, <1>2, <1>3, <1>4, <1>5, <1>6, <1>7, <1>8, <1>9, <1>10, <1>11, <1>12
     DEF Next, Advance

-----------------------------------------------------------------------------
(* Pauses *)

(* A call whose chunk is settled has no paused step.                        *)
LEMMA SettledIsNotPaused ==
    ASSUME TypeInv, NEW c \in Calls, CallOK(c), ChunkIsSettled(c)
    PROVE  \A s \in Steps : phase[c][s] # "paused"
<1> SUFFICES ASSUME NEW s \in Steps, phase[c][s] = "paused" PROVE FALSE
  OBVIOUS
<1>1. s \notin recorded[c]
  BY DEF CallOK, Settled
<1>2. s \in Chunk(c)
  BY <1>1 DEF Chunk, Started
<1>3. QED
  BY <1>2 DEF ChunkIsSettled, Settled

LEMMA PauseFrame ==
    ASSUME PauseInv, UNCHANGED pauseRegistry,
           \A d \in Calls, s \in Steps :
              (pc'[d] = "running" /\ phase'[d][s] = "paused")
                <=> (pc[d] = "running" /\ phase[d][s] = "paused"),
           \A d \in Calls : pc[d] = "running" => runId'[d] = runId[d]
    PROVE  PauseInv'
<1>1. ASSUME NEW k \in Ids \X Steps, ~pauseRegistry'[k].dead
      PROVE  LET c == pauseRegistry'[k].call
             IN /\ c \in Calls /\ pauseRegistry'[k] = [call |-> c, dead |-> FALSE]
                /\ runId'[c] = k[1] /\ pc'[c] = "running" /\ phase'[c][k[2]] = "paused"
  <2> DEFINE c == pauseRegistry[k].call
  <2>1. k[2] \in Steps /\ pauseRegistry'[k] = pauseRegistry[k]
    OBVIOUS
  <2>2. /\ c \in Calls /\ pauseRegistry[k] = [call |-> c, dead |-> FALSE]
        /\ runId[c] = k[1] /\ pc[c] = "running" /\ phase[c][k[2]] = "paused"
    BY <1>1, <2>1 DEF PauseInv
  <2>3. QED
    BY <2>1, <2>2
<1>2. ASSUME NEW c \in Calls, NEW s \in Steps, pc'[c] = "running", phase'[c][s] = "paused"
      PROVE  pauseRegistry'[<<runId'[c], s>>] = [call |-> c, dead |-> FALSE]
  BY <1>2 DEF PauseInv
<1>3. QED
  BY <1>1, <1>2 DEF PauseInv

(* The pause at k goes, and with it the step behind it goes on.             *)
LEMMA PauseGoes ==
    ASSUME TypeInv, PauseInv, NEW k \in Ids \X Steps, NEW ph \in {"bad", "second"}, Wake(k, ph),
           UNCHANGED <<pc, runId>>, NEW p, p.dead,
           pauseRegistry' = [pauseRegistry EXCEPT ![k] = p]
    PROVE  PauseInv'
<1>1. \A j \in Ids \X Steps : pauseRegistry'[j] = IF j = k THEN p ELSE pauseRegistry[j]
  BY DEF TypeInv
<1>2. \A d \in Calls, s \in Steps :
         phase'[d][s] = IF ~pauseRegistry[k].dead /\ d = pauseRegistry[k].call /\ s = k[2]
                        THEN ph ELSE phase[d][s]
  BY DEF Wake, TypeInv
<1>3. ASSUME NEW j \in Ids \X Steps, ~pauseRegistry'[j].dead
      PROVE  LET c == pauseRegistry'[j].call
             IN /\ c \in Calls /\ pauseRegistry'[j] = [call |-> c, dead |-> FALSE]
                /\ runId'[c] = j[1] /\ pc'[c] = "running" /\ phase'[c][j[2]] = "paused"
  <2> DEFINE c == pauseRegistry[j].call
  <2>1. j # k /\ pauseRegistry'[j] = pauseRegistry[j] /\ j[2] \in Steps /\ k[2] \in Steps
    BY <1>1, <1>3
  <2>2. /\ c \in Calls /\ pauseRegistry[j] = [call |-> c, dead |-> FALSE]
        /\ runId[c] = j[1] /\ pc[c] = "running" /\ phase[c][j[2]] = "paused"
    BY <1>3, <2>1 DEF PauseInv
  <2>3. ~(~pauseRegistry[k].dead /\ c = pauseRegistry[k].call /\ j[2] = k[2])
    <3> SUFFICES ASSUME ~pauseRegistry[k].dead, c = pauseRegistry[k].call, j[2] = k[2]
                 PROVE  FALSE
      OBVIOUS
    <3>1. runId[c] = k[1]
      BY DEF PauseInv
    <3>2. j = <<j[1], j[2]>> /\ k = <<k[1], k[2]>>
      OBVIOUS
    <3>3. QED
      BY <2>1, <2>2, <3>1, <3>2
  <2>4. QED
    BY <1>2, <2>1, <2>2, <2>3
<1>4. ASSUME NEW c \in Calls, NEW s \in Steps, pc'[c] = "running", phase'[c][s] = "paused"
      PROVE  pauseRegistry'[<<runId'[c], s>>] = [call |-> c, dead |-> FALSE]
  <2>1. phase[c][s] = "paused" /\ runId[c] \in Ids
    BY <1>2, <1>4 DEF TypeInv
  <2>2. pauseRegistry[<<runId[c], s>>] = [call |-> c, dead |-> FALSE]
    BY <1>4, <2>1 DEF PauseInv
  <2>3. <<runId[c], s>> # k
    BY <1>2, <1>4, <2>2
  <2>4. QED
    BY <1>1, <2>1, <2>2, <2>3
<1>5. QED
  BY <1>3, <1>4 DEF PauseInv

LEMMA PauseNext ==
    ASSUME TypeInv, CallsInv, PauseInv, RegistryInv, [Next]_vars
    PROVE  PauseInv'
<1>1. ASSUME NEW c \in Calls, Refuse(c) PROVE PauseInv'
  <2>1. /\ pc[c] = "idle" /\ pc' = [pc EXCEPT ![c] = "refused"]
        /\ UNCHANGED <<phase, runId, pauseRegistry>>
    BY <1>1 DEF Refuse
  <2>2. QED
    BY <2>1, PauseFrame DEF TypeInv
<1>2. ASSUME NEW c \in Calls, HaltRun(c) \/ CompleteRun(c) PROVE PauseInv'
  <2>1. CallOK(c) /\ ChunkIsSettled(c) /\ UNCHANGED <<phase, runId, pauseRegistry>>
    BY <1>2 DEF HaltRun, BreakOuter, CompleteRun, CallsInv
  <2>2. \A d \in Calls : d # c => pc'[d] = pc[d]
    BY <1>2 DEF HaltRun, BreakOuter, CompleteRun, End, Conclude, TypeInv
  <2>3. \A s \in Steps : phase[c][s] # "paused"
    BY <2>1, SettledIsNotPaused
  <2>4. QED
    BY <2>1, <2>2, <2>3, PauseFrame
<1>3. ASSUME NEW c \in Calls, NextChunk(c) PROVE PauseInv'
  <2>1. CallOK(c) /\ ChunkIsSettled(c) /\ UNCHANGED <<pc, runId, pauseRegistry>>
    BY <1>3 DEF NextChunk, GoOn, CallsInv
  <2>2. \A s \in Steps : phase[c][s] # "paused" /\ phase'[c][s] # "paused"
    BY <1>3, <2>1, SettledIsNotPaused DEF NextChunk, GoOn, Launched, TypeInv
  <2>3. \A d \in Calls : d # c => phase'[d] = phase[d]
    BY <1>3 DEF NextChunk, GoOn, Launched, TypeInv
  <2>4. QED
    BY <2>1, <2>2, <2>3, PauseFrame
<1>4. ASSUME NEW c \in Calls, NEW i \in Ids, StartCall(c, i) PROVE PauseInv'
  <2>1. /\ pc[c] = "idle" /\ UNCHANGED pauseRegistry
        /\ \A d \in Calls : d # c => pc'[d] = pc[d] /\ runId'[d] = runId[d] /\ phase'[d] = phase[d]
    BY <1>4 DEF StartCall, Launched, TypeInv
  <2>2. \A s \in Steps : phase'[c][s] # "paused"
    <3>1. \A s \in Steps : phase[c][s] = "idle"
      BY <2>1 DEF CallsInv, CallOK
    <3>2. \A s \in Steps : phase'[c][s] \in {"first", phase[c][s]}
      BY <1>4 DEF StartCall, Launched, TypeInv
    <3>3. QED
      BY <3>1, <3>2
  <2>3. QED
    BY <2>1, <2>2, PauseFrame
<1>5. ASSUME NEW c \in Calls, NEW s \in Steps, ExitStep(c, s) PROVE PauseInv'
  <2>1. PICK outcome \in Settled : SettleStep(c, s, outcome)
    BY <1>5 DEF ExitStep, Outcomes, Settled
  <2>2. /\ phase[c][s] # "paused" /\ outcome # "paused"
        /\ phase' = [phase EXCEPT ![c][s] = outcome] /\ UNCHANGED <<pc, runId, pauseRegistry>>
    BY <1>5, <2>1 DEF ExitStep, SettleStep, Settled
  <2>3. \A d \in Calls, u \in Steps : phase'[d][u] = IF d = c /\ u = s THEN outcome ELSE phase[d][u]
    BY <2>2 DEF TypeInv
  <2>4. QED
    BY <2>2, <2>3, PauseFrame
<1>6. ASSUME NEW c \in Calls, NEW s \in Steps, RequestPause(c, s) PROVE PauseInv'
  <2> DEFINE k == <<runId[c], s>>
             p == [call |-> c, dead |-> FALSE]
             accepted == KeyIsFree(c, s) /\ ~aborted[c]
             ph == IF accepted THEN "paused" ELSE "bad"
  <2>1. /\ pc[c] = "running" /\ phase[c][s] = "first" /\ UNCHANGED <<pc, runId>>
        /\ phase' = [phase EXCEPT ![c][s] = ph]
        /\ pauseRegistry' = [pauseRegistry EXCEPT ![k] = IF accepted THEN p ELSE @]
    BY <1>6 DEF RequestPause, AskFor
  <2>2. \A d \in Calls, u \in Steps : phase'[d][u] = IF d = c /\ u = s THEN ph ELSE phase[d][u]
    BY <2>1 DEF TypeInv
  <2>3. k \in Ids \X Steps
    BY <2>1 DEF TypeInv
  <2>4. CASE ~accepted
    <3>1. UNCHANGED pauseRegistry
      BY <2>1, <2>3, <2>4 DEF TypeInv
    <3>2. QED
      BY <2>1, <2>2, <2>4, <3>1, PauseFrame
  <2>5. CASE accepted
    <3>1. pauseRegistry[k] = NoPause /\ pauseRegistry[k].dead
      BY <2>5 DEF KeyIsFree, NoPause
    <3>2. \A j \in Ids \X Steps : pauseRegistry'[j] = IF j = k THEN p ELSE pauseRegistry[j]
      BY <2>1, <2>5 DEF TypeInv
    <3>3. ASSUME NEW j \in Ids \X Steps, ~pauseRegistry'[j].dead
          PROVE  LET d == pauseRegistry'[j].call
                 IN /\ d \in Calls /\ pauseRegistry'[j] = [call |-> d, dead |-> FALSE]
                    /\ runId'[d] = j[1] /\ pc'[d] = "running" /\ phase'[d][j[2]] = "paused"
      <4>1. CASE j = k
        <5>1. pauseRegistry'[j] = p /\ p.call = c /\ j[1] = runId[c] /\ j[2] = s
          BY <3>2, <4>1
        <5>2. phase'[c][s] = "paused"
          BY <2>2, <2>5
        <5>3. QED
          BY <2>1, <5>1, <5>2
      <4>2. CASE j # k
        <5> DEFINE d == pauseRegistry[j].call
        <5>1. j[2] \in Steps /\ pauseRegistry'[j] = pauseRegistry[j]
          BY <3>2, <4>2
        <5>2. /\ d \in Calls /\ pauseRegistry[j] = [call |-> d, dead |-> FALSE]
              /\ runId[d] = j[1] /\ pc[d] = "running" /\ phase[d][j[2]] = "paused"
          BY <3>3, <5>1 DEF PauseInv
        <5>3. ~(d = c /\ j[2] = s)
          BY <2>1, <5>2
        <5>4. QED
          BY <2>1, <2>2, <5>1, <5>2, <5>3
      <4>3. QED
        BY <4>1, <4>2
    <3>4. ASSUME NEW d \in Calls, NEW u \in Steps, pc'[d] = "running", phase'[d][u] = "paused"
          PROVE  pauseRegistry'[<<runId'[d], u>>] = [call |-> d, dead |-> FALSE]
      <4>0. runId[d] \in Ids
        BY <2>1, <3>4 DEF TypeInv
      <4>1. CASE d = c /\ u = s
        BY <2>1, <2>3, <3>2, <4>1
      <4>2. CASE ~(d = c /\ u = s)
        <5>1. phase[d][u] = "paused" /\ pc[d] = "running"
          BY <2>1, <2>2, <3>4, <4>2
        <5>2. pauseRegistry[<<runId[d], u>>] = [call |-> d, dead |-> FALSE]
          BY <5>1 DEF PauseInv
        <5>3. <<runId[d], u>> # k
          BY <3>1, <5>2
        <5>4. QED
          BY <2>1, <3>2, <4>0, <5>2, <5>3
      <4>3. QED
        BY <4>1, <4>2
    <3>5. QED
      BY <3>3, <3>4 DEF PauseInv
  <2>6. QED
    BY <2>4, <2>5
<1>7. ASSUME NEW k \in Ids \X Steps, Respond(k) \/ TimeOut(k) PROVE PauseInv'
  <2>1. /\ Wake(k, "second") \/ Wake(k, "bad")
        /\ UNCHANGED <<pc, runId>> /\ pauseRegistry' = [pauseRegistry EXCEPT ![k] = NoPause]
    BY <1>7 DEF Respond, TimeOut
  <2>2. NoPause.dead
    BY DEF NoPause
  <2>3. QED
    BY <2>1, <2>2, PauseGoes
<1>8. ASSUME NEW k \in Ids \X Steps, RespondMismatched(k) PROVE PauseInv'
  <2> DEFINE p == [pauseRegistry[k] EXCEPT !.dead = TRUE]
  <2>1. /\ Wake(k, "bad") /\ UNCHANGED <<pc, runId>>
        /\ pauseRegistry' = [pauseRegistry EXCEPT ![k] = p]
    BY <1>8 DEF RespondMismatched
  <2>2. p.dead
    <3>1. pauseRegistry[k] \in Pause
      BY <1>8 DEF RespondMismatched, TypeInv
    <3>2. QED
      BY <3>1 DEF Pause
  <2> HIDE DEF p
  <2>3. QED
    BY <2>1, <2>2, PauseGoes
<1>9. ASSUME NEW i \in Ids, Cancel(i) PROVE PauseInv'
  <2> DEFINE c == runRegistry[i]
  <2>1. /\ c \in Calls /\ UNCHANGED <<pc, runId>>
        /\ pauseRegistry' = [k \in Ids \X Steps |->
                               IF pauseRegistry[k].call = c THEN NoPause ELSE pauseRegistry[k]]
        /\ phase' = [phase EXCEPT ![c] =
                       [s \in Steps |-> IF s \in PausedSteps(c) THEN "bad" ELSE @[s]]]
    BY <1>9 DEF Cancel, TypeInv
  <2> HIDE DEF c
  <2>2. /\ \A s \in Steps : phase'[c][s] # "paused"
        /\ \A d \in Calls : d # c => phase'[d] = phase[d]
    BY <2>1 DEF TypeInv, PausedSteps
  <2>3. ASSUME NEW j \in Ids \X Steps, ~pauseRegistry'[j].dead
        PROVE  LET d == pauseRegistry'[j].call
               IN /\ d \in Calls /\ pauseRegistry'[j] = [call |-> d, dead |-> FALSE]
                  /\ runId'[d] = j[1] /\ pc'[d] = "running" /\ phase'[d][j[2]] = "paused"
    <3> DEFINE d == pauseRegistry[j].call
    <3>1. d # c /\ pauseRegistry'[j] = pauseRegistry[j]
      BY <2>1, <2>3 DEF NoPause
    <3>2. /\ d \in Calls /\ pauseRegistry[j] = [call |-> d, dead |-> FALSE]
          /\ runId[d] = j[1] /\ pc[d] = "running" /\ phase[d][j[2]] = "paused"
      BY <2>3, <3>1 DEF PauseInv
    <3>3. QED
      BY <2>1, <2>2, <3>1, <3>2
  <2>4. ASSUME NEW d \in Calls, NEW u \in Steps, pc'[d] = "running", phase'[d][u] = "paused"
        PROVE  pauseRegistry'[<<runId'[d], u>>] = [call |-> d, dead |-> FALSE]
    <3>1. d # c /\ phase[d][u] = "paused" /\ runId[d] \in Ids /\ pc[d] = "running"
      BY <2>1, <2>2, <2>4 DEF TypeInv
    <3>2. pauseRegistry[<<runId[d], u>>] = [call |-> d, dead |-> FALSE]
      BY <3>1 DEF PauseInv
    <3>3. QED
      BY <2>1, <3>1, <3>2
  <2>5. QED
    BY <2>3, <2>4 DEF PauseInv
<1>10. ASSUME NEW i \in Ids, Subscribe(i) \/ Disconnect(i) \/ DropBus(i) PROVE PauseInv'
  BY <1>10, PauseFrame DEF Subscribe, SubscribeWith, Disconnect, DropBus
<1>11. CASE Crash
  <2>1. /\ pauseRegistry' = [k \in Ids \X Steps |-> NoPause]
        /\ \A d \in Calls : pc'[d] # "running"
    BY <1>11 DEF Crash
  <2>2. \A k \in Ids \X Steps : pauseRegistry'[k].dead
    BY <2>1 DEF NoPause
  <2>3. QED
    BY <2>1, <2>2 DEF PauseInv
<1>12. CASE UNCHANGED vars
  BY <1>12, PauseFrame DEF vars
<1>13. QED
  BY <1>1, <1>2, <1>3, <1>4, <1>5, <1>6, <1>7, <1>8, <1>9, <1>10, <1>11, <1>12
     DEF Next, Advance

-----------------------------------------------------------------------------
(* The registry of runs *)

LEMMA RegistryFrame ==
    ASSUME RegistryInv, UNCHANGED <<runRegistry, runId>>,
           \A d \in Calls : pc'[d] = "running" <=> pc[d] = "running",
           runRegistry \in [Ids -> Calls \cup {NoCall}]
    PROVE  RegistryInv'
<1>1. \A d \in Calls : Sole(d)' <=> Sole(d)
  BY DEF Sole
<1>2. QED
  BY <1>1 DEF RegistryInv

(* The call that ends takes its entry, or that of its namesake, with it.    *)
LEMMA RegistryEnd ==
    ASSUME TypeInv, RegistryInv, NEW c \in Calls, pc[c] = "running",
           NEW v \in {"failed", "success"}, End(c, v), UNCHANGED runId
    PROVE  RegistryInv'
<1>1. /\ runId[c] \in Ids /\ pc'[c] # "running"
      /\ \A d \in Calls : d # c => pc'[d] = pc[d]
      /\ \A i \in Ids : runRegistry'[i] = IF i = runId[c] THEN NoCall ELSE runRegistry[i]
  <2>1. /\ pc' = [pc EXCEPT ![c] = FinalStatus(c, v)] /\ FinalStatus(c, v) # "running"
        /\ runId[c] \in Ids
    BY EndType DEF Verdicts
  <2>2. pc'[c] # "running" /\ \A d \in Calls : d # c => pc'[d] = pc[d]
    BY <2>1 DEF TypeInv
  <2>3. \A i \in Ids : runRegistry'[i] = IF i = runId[c] THEN NoCall ELSE runRegistry[i]
    BY DEF End, Unregistered, TypeInv
  <2>4. QED
    BY <2>1, <2>2, <2>3
<1>2. ASSUME NEW i \in Ids, runRegistry'[i] # NoCall
      PROVE  runId'[runRegistry'[i]] = i /\ pc'[runRegistry'[i]] = "running"
  <2>1. i # runId[c] /\ runRegistry'[i] = runRegistry[i] /\ runRegistry[i] \in Calls
    BY <1>1, <1>2 DEF TypeInv
  <2>2. runId[runRegistry[i]] = i /\ pc[runRegistry[i]] = "running"
    BY <1>2, <2>1 DEF RegistryInv
  <2>3. QED
    BY <1>1, <2>1, <2>2
<1>3. ASSUME NEW d \in Calls, Sole(d)', pc'[d] = "running"
      PROVE  runRegistry'[runId'[d]] = d
  <2>1. d # c /\ Sole(d) /\ pc[d] = "running"
    BY <1>1, <1>3 DEF Sole
  <2>2. runRegistry[runId[d]] = d /\ runId[d] # runId[c] /\ runId[d] \in Ids
    BY <2>1 DEF RegistryInv, Sole, TypeInv
  <2>3. QED
    BY <1>1, <2>2
<1>4. QED
  BY <1>2, <1>3 DEF RegistryInv

LEMMA RegistryNext ==
    ASSUME TypeInv, RegistryInv, [Next]_vars
    PROVE  RegistryInv'
<1>0. runRegistry \in [Ids -> Calls \cup {NoCall}]
  BY DEF TypeInv
<1>1. ASSUME NEW c \in Calls, Refuse(c) PROVE RegistryInv'
  <2>1. /\ UNCHANGED <<runRegistry, runId>> /\ pc[c] = "idle" /\ pc'[c] = "refused"
        /\ \A d \in Calls : d # c => pc'[d] = pc[d]
    BY <1>1 DEF Refuse, TypeInv
  <2>2. QED
    BY <1>0, <2>1, RegistryFrame
<1>2. ASSUME NEW c \in Calls, HaltRun(c) \/ CompleteRun(c) PROVE RegistryInv'
  <2>1. pc[c] = "running" /\ (End(c, "failed") \/ End(c, "success")) /\ UNCHANGED runId
    BY <1>2 DEF HaltRun, BreakOuter, CompleteRun
  <2>2. QED
    BY <2>1, RegistryEnd
<1>3. ASSUME NEW c \in Calls, NEW i \in Ids, StartCall(c, i) PROVE RegistryInv'
  <2>1. /\ pc[c] = "idle" /\ pc'[c] = "running" /\ runId'[c] = i /\ runId[c] = NoId
        /\ \A d \in Calls : d # c => pc'[d] = pc[d] /\ runId'[d] = runId[d]
        /\ \A j \in Ids : runRegistry'[j] = IF j = i THEN c ELSE runRegistry[j]
    BY <1>3 DEF StartCall, TypeInv
  <2>2. ASSUME NEW j \in Ids, runRegistry'[j] # NoCall
        PROVE  runId'[runRegistry'[j]] = j /\ pc'[runRegistry'[j]] = "running"
    <3>1. CASE j = i
      BY <2>1, <3>1
    <3>2. CASE j # i
      <4>1. runRegistry'[j] = runRegistry[j] /\ runRegistry[j] \in Calls
        BY <2>1, <2>2, <3>2 DEF TypeInv
      <4>2. runId[runRegistry[j]] = j /\ pc[runRegistry[j]] = "running"
        BY <2>2, <4>1 DEF RegistryInv
      <4>3. QED
        BY <2>1, <4>1, <4>2
    <3>3. QED
      BY <3>1, <3>2
  <2>3. ASSUME NEW d \in Calls, Sole(d)', pc'[d] = "running"
        PROVE  runRegistry'[runId'[d]] = d
    <3>1. CASE d = c
      BY <2>1, <3>1
    <3>2. CASE d # c
      <4>1. Sole(d) /\ pc[d] = "running" /\ runId[d] # i /\ runId'[d] = runId[d]
        BY <2>1, <2>3, <3>2 DEF Sole
      <4>2. runRegistry[runId[d]] = d /\ runId[d] \in Ids
        BY <4>1 DEF RegistryInv, TypeInv, Sole
      <4>3. QED
        BY <2>1, <4>1, <4>2
    <3>3. QED
      BY <3>1, <3>2
  <2>4. QED
    BY <2>2, <2>3 DEF RegistryInv
<1>4. ASSUME NEW c \in Calls, NEW s \in Steps, ExitStep(c, s) \/ RequestPause(c, s)
      PROVE  RegistryInv'
  <2>1. UNCHANGED <<runRegistry, runId, pc>>
    BY <1>4 DEF ExitStep, SettleStep, RequestPause, AskFor
  <2>2. QED
    BY <1>0, <2>1, RegistryFrame
<1>5. ASSUME NEW c \in Calls, NextChunk(c) PROVE RegistryInv'
  <2>1. UNCHANGED <<runRegistry, runId, pc>>
    BY <1>5 DEF NextChunk, GoOn
  <2>2. QED
    BY <1>0, <2>1, RegistryFrame
<1>6. ASSUME NEW k \in Ids \X Steps, Respond(k) \/ RespondMismatched(k) \/ TimeOut(k)
      PROVE  RegistryInv'
  <2>1. UNCHANGED <<runRegistry, runId, pc>>
    BY <1>6 DEF Respond, RespondMismatched, TimeOut
  <2>2. QED
    BY <1>0, <2>1, RegistryFrame
<1>7. ASSUME NEW i \in Ids, Cancel(i) \/ Subscribe(i) \/ Disconnect(i) \/ DropBus(i)
      PROVE  RegistryInv'
  <2>1. UNCHANGED <<runRegistry, runId, pc>>
    BY <1>7 DEF Cancel, Subscribe, SubscribeWith, Disconnect, DropBus
  <2>2. QED
    BY <1>0, <2>1, RegistryFrame
<1>8. CASE Crash
  <2>1. (\A i \in Ids : runRegistry'[i] = NoCall) /\ \A d \in Calls : pc'[d] # "running"
    BY <1>8 DEF Crash
  <2>2. QED
    BY <2>1 DEF RegistryInv
<1>9. CASE UNCHANGED vars
  BY <1>0, <1>9, RegistryFrame DEF vars
<1>10. QED
  BY <1>1, <1>2, <1>3, <1>4, <1>5, <1>6, <1>7, <1>8, <1>9 DEF Next, Advance

-----------------------------------------------------------------------------
(* The row *)

LEMMA RowFrame ==
    ASSUME RowIsExplained, UNCHANGED row,
           \A d \in Calls : runId[d] \in Ids =>
              /\ runId'[d] = runId[d]
              /\ pc[d] \in {"running", "crashed"} => pc'[d] \in {"running", "crashed"}
              /\ pc[d] = "crashed" \/ PausedSteps(d) # {}
                    => pc'[d] = "crashed" \/ PausedSteps(d)' # {}
    PROVE  RowIsExplained'
BY DEF RowIsExplained

(* One call writes the row of its id.                                       *)
LEMMA RowWritten ==
    ASSUME RowIsExplained, NEW i \in Ids, NEW c \in Calls, runId'[c] = i, runId[c] \in {i, NoId},
           \A d \in Calls \ {c} : runId'[d] = runId[d] /\ pc'[d] = pc[d] /\ phase'[d] = phase[d],
           \A j \in Ids \ {i} : row'[j] = row[j],
           \/ row'[i] \in Verdicts \cup {"none"}
           \/ row'[i] = "running" /\ pc'[c] = "running"
           \/ row'[i] = "paused" /\ PausedSteps(c)' # {}
           \/ row'[i] = row[i] /\ runId[c] = NoId
    PROVE  RowIsExplained'
<1>1. \A d \in Calls \ {c} : PausedSteps(d)' = PausedSteps(d)
  BY DEF PausedSteps
<1>2. ASSUME NEW j \in Ids, row'[j] = row[j], j = i => runId[c] = NoId
      PROVE  /\ row'[j] = "paused" =>
                  \E d \in Calls : runId'[d] = j /\ (pc'[d] = "crashed" \/ PausedSteps(d)' # {})
             /\ row'[j] = "running" =>
                  \E d \in Calls : runId'[d] = j /\ pc'[d] \in {"running", "crashed"}
  <2>1. runId[c] # j
    BY <1>2, NamesAssumption
  <2>2. QED
    BY <1>1, <1>2, <2>1 DEF RowIsExplained
<1>3. ASSUME ~(row'[i] = row[i] /\ runId[c] = NoId)
      PROVE  /\ row'[i] = "paused" => PausedSteps(c)' # {}
             /\ row'[i] = "running" => pc'[c] = "running"
  BY <1>3 DEF Verdicts
<1>4. ASSUME NEW j \in Ids
      PROVE  /\ row'[j] = "paused" =>
                  \E d \in Calls : runId'[d] = j /\ (pc'[d] = "crashed" \/ PausedSteps(d)' # {})
             /\ row'[j] = "running" =>
                  \E d \in Calls : runId'[d] = j /\ pc'[d] \in {"running", "crashed"}
  BY <1>2, <1>3
<1>5. QED
  BY <1>4 DEF RowIsExplained

-----------------------------------------------------------------------------
(* The stream *)

LEMMA StreamFrame ==
    ASSUME TypeInv, StreamInv, UNCHANGED <<row, bus, sub, runId>>,
           \A d \in Calls : runId[d] \in Ids => pc'[d] = pc[d]
    PROVE  StreamInv'
<1>1. \A i \in Ids : Unused(i)' <=> Unused(i)
  BY DEF Unused
<1>2. \A d \in Calls : Sole(d)' => Sole(d) /\ runId[d] \in Ids
  BY DEF Sole, TypeInv
<1>3. QED
  BY <1>1, <1>2 DEF StreamInv, StreamOK

(* One call, and what is kept under its id.                                 *)
LEMMA StreamWritten ==
    ASSUME TypeInv, StreamInv, NEW i \in Ids, NEW c \in Calls, runId'[c] = i, runId[c] \in {i, NoId},
           \A d \in Calls \ {c} : runId'[d] = runId[d] /\ pc'[d] = pc[d],
           \A j \in Ids \ {i} : row'[j] = row[j] /\ bus'[j] = bus[j] /\ sub'[j] = sub[j],
           Sole(c)' => StreamOK(c)'
    PROVE  StreamInv'
<1>1. ASSUME NEW j \in Ids, Unused(j)'
      PROVE  /\ row'[j] = "none" /\ bus'[j] \in {"none", "blank"}
             /\ sub'[j] \in {"none", "listening"}
  <2>1. j # i /\ Unused(j)
    BY <1>1, NamesAssumption DEF Unused
  <2>2. QED
    BY <2>1 DEF StreamInv
<1>2. ASSUME NEW d \in Calls, Sole(d)', d # c PROVE StreamOK(d)'
  <2>1. runId'[d] = runId[d] /\ pc'[d] = pc[d] /\ runId[d] \in Ids \ {i}
    BY <1>2 DEF Sole, TypeInv
  <2>2. Sole(d)
    BY <1>2, <2>1 DEF Sole
  <2>3. StreamOK(d)
    BY <2>2 DEF StreamInv
  <2>4. QED
    BY <2>1, <2>3 DEF StreamOK
<1>3. QED
  BY <1>1, <1>2 DEF StreamInv

LEMMA EndKept ==
    ASSUME TypeInv, RowIsExplained, StreamInv, NEW c \in Calls, pc[c] = "running",
           NEW v \in {"failed", "success"}, End(c, v), UNCHANGED <<runId, phase>>
    PROVE  RowIsExplained' /\ StreamInv'
<1> DEFINE i == runId[c]
           w == FinalStatus(c, v)
<1>1. w \in Verdicts /\ i \in Ids /\ pc' = [pc EXCEPT ![c] = w]
  BY EndType
<1>2. /\ row' = RowAfter(i, w) /\ bus' = [bus EXCEPT ![i] = "ended"]
      /\ sub' = [sub EXCEPT ![i] = IF @ = "listening" /\ bus[i] # "ended" THEN "told" ELSE @]
  BY DEF End, Conclude
<1> HIDE DEF i, w
<1>3. pc'[c] = w /\ \A d \in Calls \ {c} : runId'[d] = runId[d] /\ pc'[d] = pc[d] /\ phase'[d] = phase[d]
  BY <1>1 DEF TypeInv
<1>4. /\ \A j \in Ids \ {i} : row'[j] = row[j] /\ bus'[j] = bus[j] /\ sub'[j] = sub[j]
      /\ row'[i] = (IF row[i] = "none" THEN "none" ELSE w) /\ bus'[i] = "ended"
      /\ sub'[i] = IF sub[i] = "listening" /\ bus[i] # "ended" THEN "told" ELSE sub[i]
  BY <1>1, <1>2 DEF TypeInv, RowAfter
<1>5. runId'[c] = i /\ runId[c] \in {i, NoId}
  BY DEF i
<1>6. RowIsExplained'
  <2>1. row'[i] \in Verdicts \cup {"none"}
    BY <1>1, <1>4
  <2>2. QED
    BY <1>1, <1>3, <1>4, <1>5, <2>1, RowWritten
<1>7. Sole(c)' => StreamOK(c)'
  <2> SUFFICES ASSUME Sole(c)' PROVE StreamOK(c)'
    OBVIOUS
  <2>1. StreamOK(c)
    BY DEF Sole, StreamInv
  <2>2. row[i] # "none" /\ bus[i] = "open" /\ sub[i] \in {"none", "listening"}
    BY <2>1 DEF StreamOK, i
  <2>3. row'[i] = w /\ bus'[i] # "open" /\ sub'[i] \in {"none", "told"}
    BY <1>4, <2>2
  <2>4. QED
    BY <1>1, <1>3, <1>5, <2>3 DEF StreamOK, Verdicts
<1>8. QED
  BY <1>1, <1>3, <1>4, <1>5, <1>6, <1>7, StreamWritten

LEMMA WakeKept ==
    ASSUME TypeInv, PauseInv, RowIsExplained, StreamInv, NEW k \in Ids \X Steps,
           NEW ph \in {"bad", "second"}, Wake(k, ph), UNCHANGED <<pc, runId, bus, sub>>
    PROVE  RowIsExplained' /\ StreamInv'
<1> DEFINE i == k[1]
<1>1. CASE pauseRegistry[k].dead
  <2>1. UNCHANGED <<phase, row>>
    BY <1>1 DEF Wake
  <2>2. \A d \in Calls : PausedSteps(d)' = PausedSteps(d)
    BY <2>1 DEF PausedSteps
  <2>3. QED
    BY <2>1, <2>2, RowFrame, StreamFrame
<1>2. CASE ~pauseRegistry[k].dead
  <2>1. PICK c \in Calls :
           /\ i \in Ids /\ runId[c] = i /\ pc[c] = "running"
           /\ phase' = [phase EXCEPT ![c][k[2]] = ph] /\ row' = RowAfter(i, "running")
    BY <1>2 DEF Wake, PauseInv
  <2> HIDE DEF i
  <2>2. /\ \A d \in Calls \ {c} : phase'[d] = phase[d]
        /\ \A j \in Ids \ {i} : row'[j] = row[j]
        /\ row'[i] = IF row[i] = "none" THEN "none" ELSE "running"
    BY <2>1 DEF TypeInv, RowAfter
  <2>3. RowIsExplained'
    BY <2>1, <2>2, RowWritten
  <2>4. /\ runId'[c] = i /\ pc'[c] = "running" /\ pc'[c] \notin Verdicts
        /\ runId' = runId /\ pc' = pc /\ bus' = bus /\ sub' = sub
    BY <2>1 DEF Verdicts
  <2>5. Sole(c)' => StreamOK(c)'
    <3>1. Sole(c)' => Sole(c)
      BY <2>4 DEF Sole
    <3>2. Sole(c) => StreamOK(c)
      BY <2>1 DEF StreamInv
    <3>3. StreamOK(c) => row'[i] = "running" /\ bus[i] = "open" /\ sub[i] \in {"none", "listening"}
      BY <2>1, <2>2 DEF StreamOK
    <3>4. QED
      BY <2>4, <3>1, <3>2, <3>3 DEF StreamOK
  <2>6. /\ runId[c] \in {i, NoId}
        /\ \A d \in Calls \ {c} : runId'[d] = runId[d] /\ pc'[d] = pc[d]
        /\ \A j \in Ids \ {i} : row'[j] = row[j] /\ bus'[j] = bus[j] /\ sub'[j] = sub[j]
    BY <2>1, <2>2, <2>4
  <2>7. QED
    BY <2>1, <2>3, <2>4, <2>5, <2>6, StreamWritten
<1>3. QED
  BY <1>1, <1>2

(* Followers, and the bus that is dropped after the run.                    *)
LEMMA FollowKept ==
    ASSUME TypeInv, StreamInv, NEW i \in Ids,
           Subscribe(i) \/ Disconnect(i) \/ DropBus(i)
    PROVE  StreamInv'
<1> DEFINE fresh == bus[i] \in {"none", "blank"}
<1>1. /\ UNCHANGED <<pc, runId, row>>
      /\ \A j \in Ids \ {i} : bus'[j] = bus[j] /\ sub'[j] = sub[j]
      /\ \/ /\ bus'[i] = (IF fresh THEN "blank" ELSE bus[i])
            /\ sub'[i] = IF bus[i] = "ended" \/ (fresh /\ row[i] \in Verdicts) THEN "told"
                         ELSE IF fresh /\ row[i] # "none" THEN "untold" ELSE "listening"
         \/ bus'[i] = bus[i] /\ sub'[i] = "none"
         \/ bus[i] = "ended" /\ bus'[i] = "none" /\ sub'[i] = sub[i]
  BY DEF Subscribe, SubscribeWith, Disconnect, DropBus, TypeInv
<1>2. ASSUME NEW j \in Ids, Unused(j)'
      PROVE  /\ row'[j] = "none" /\ bus'[j] \in {"none", "blank"}
             /\ sub'[j] \in {"none", "listening"}
  <2>1. row[j] = "none" /\ bus[j] \in {"none", "blank"} /\ sub[j] \in {"none", "listening"}
    BY <1>1, <1>2 DEF StreamInv, Unused
  <2>2. QED
    BY <1>1, <2>1 DEF Verdicts
<1>3. ASSUME NEW c \in Calls, Sole(c)' PROVE StreamOK(c)'
  <2>1. StreamOK(c) /\ runId[c] \in Ids /\ runId'[c] = runId[c] /\ pc'[c] = pc[c]
    BY <1>1, <1>3 DEF Sole, StreamInv, TypeInv
  <2>2. CASE runId[c] # i
    BY <1>1, <2>1, <2>2 DEF StreamOK
  <2>3. CASE runId[c] = i
    <3>1. CASE pc[c] = "running"
      BY <1>1, <2>1, <2>3, <3>1 DEF StreamOK, Verdicts
    <3>2. CASE pc[c] \in Verdicts
      <4>1. row[i] \in Verdicts /\ row'[i] = pc'[c] /\ bus[i] # "open" /\ sub[i] \in {"none", "told"}
        BY <1>1, <2>1, <2>3, <3>2 DEF StreamOK
      <4>2. bus'[i] # "open" /\ sub'[i] \in {"none", "told"}
        <5>1. bus[i] \in {"none", "blank", "ended"}
          BY <4>1 DEF TypeInv
        <5>2. QED
          BY <1>1, <4>1, <5>1
      <4>3. QED
        BY <1>1, <2>1, <2>3, <3>2, <4>1, <4>2 DEF StreamOK, Verdicts
    <3>3. QED
      BY <2>1, <3>1, <3>2 DEF StreamOK
  <2>4. QED
    BY <2>2, <2>3
<1>4. QED
  BY <1>2, <1>3 DEF StreamInv

LEMMA KeptNext ==
    ASSUME TypeInv, CallsInv, PauseInv, RegistryInv, RowIsExplained, StreamInv, [Next]_vars
    PROVE  RowIsExplained' /\ StreamInv'
<1>1. ASSUME NEW c \in Calls, Refuse(c) PROVE RowIsExplained' /\ StreamInv'
  <2>1. /\ UNCHANGED <<row, bus, sub, runId, phase>> /\ runId[c] \notin Ids
        /\ \A d \in Calls : d # c => pc'[d] = pc[d]
    BY <1>1, NamesAssumption DEF Refuse, TypeInv
  <2>2. \A d \in Calls : PausedSteps(d)' = PausedSteps(d)
    BY <2>1 DEF PausedSteps
  <2>3. \A d \in Calls : runId[d] \in Ids => pc'[d] = pc[d] /\ runId'[d] = runId[d]
    BY <2>1
  <2>4. QED
    BY <2>1, <2>2, <2>3, RowFrame, StreamFrame
<1>2. ASSUME NEW c \in Calls, HaltRun(c) \/ CompleteRun(c) PROVE RowIsExplained' /\ StreamInv'
  <2>1. /\ pc[c] = "running" /\ (End(c, "failed") \/ End(c, "success"))
        /\ UNCHANGED <<runId, phase>>
    BY <1>2 DEF HaltRun, BreakOuter, CompleteRun
  <2>2. QED
    BY <2>1, EndKept
<1>3. ASSUME NEW c \in Calls, NextChunk(c) PROVE RowIsExplained' /\ StreamInv'
  <2> DEFINE i == runId[c]
  <2>1. /\ pc[c] = "running" /\ UNCHANGED <<pc, runId, row, sub>> /\ Publish(i) /\ ChunkIsSettled(c)
        /\ \A d \in Calls : d # c => phase'[d] = phase[d]
    BY <1>3 DEF NextChunk, GoOn, Launched, TypeInv
  <2>2. PausedSteps(c) = {}
    BY <2>1, SettledIsNotPaused DEF PausedSteps, CallsInv
  <2>3. \A d \in Calls : d # c => PausedSteps(d)' = PausedSteps(d)
    BY <2>1 DEF PausedSteps
  <2>4. RowIsExplained'
    BY <2>1, <2>2, <2>3, RowFrame
  <2>5. /\ i \in Ids /\ \A j \in Ids \ {i} : bus'[j] = bus[j]
        /\ bus[i] = "open" => bus'[i] = "open"
    BY <2>1 DEF Publish, TypeInv
  <2>6. Sole(c)' => StreamOK(c)'
    <3>1. Sole(c)' => StreamOK(c)
      BY <2>1 DEF Sole, StreamInv
    <3>2. QED
      BY <2>1, <2>5, <3>1 DEF StreamOK, Verdicts
  <2>7. /\ runId'[c] = i /\ runId[c] \in {i, NoId}
        /\ \A d \in Calls \ {c} : runId'[d] = runId[d] /\ pc'[d] = pc[d]
        /\ \A j \in Ids \ {i} : row'[j] = row[j] /\ bus'[j] = bus[j] /\ sub'[j] = sub[j]
    BY <2>1, <2>5
  <2> HIDE DEF i
  <2>8. QED
    BY <2>4, <2>5, <2>6, <2>7, StreamWritten
<1>4. ASSUME NEW c \in Calls, NEW i \in Ids, StartCall(c, i) PROVE RowIsExplained' /\ StreamInv'
  <2>1. /\ runId[c] = NoId /\ runId'[c] = i /\ pc'[c] = "running" /\ UNCHANGED sub
        /\ \A d \in Calls \ {c} : pc'[d] = pc[d] /\ runId'[d] = runId[d] /\ phase'[d] = phase[d]
        /\ \A j \in Ids \ {i} : row'[j] = row[j] /\ bus'[j] = bus[j]
        /\ row'[i] = (IF row[i] = "none" THEN "running" ELSE row[i])
        /\ bus'[i] = IF bus[i] = "ended" THEN "ended" ELSE "open"
    BY <1>4 DEF StartCall, Launched, Publish, TypeInv
  <2>2. RowIsExplained'
    BY <2>1, RowWritten
  <2>3. Sole(c)' => StreamOK(c)'
    <3> SUFFICES ASSUME Sole(c)' PROVE StreamOK(c)'
      OBVIOUS
    <3>1. Unused(i)
      BY <2>1, NamesAssumption DEF Sole, Unused
    <3>2. row[i] = "none" /\ bus[i] \in {"none", "blank"} /\ sub[i] \in {"none", "listening"}
      BY <3>1 DEF StreamInv
    <3>3. QED
      BY <2>1, <3>2 DEF StreamOK, Verdicts
  <2>4. QED
    BY <2>1, <2>2, <2>3, StreamWritten
<1>5. ASSUME NEW c \in Calls, NEW s \in Steps, ExitStep(c, s) PROVE RowIsExplained' /\ StreamInv'
  <2>1. PICK outcome \in Settled : SettleStep(c, s, outcome)
    BY <1>5 DEF ExitStep, Outcomes, Settled
  <2>2. /\ phase[c][s] # "paused" /\ phase' = [phase EXCEPT ![c][s] = outcome]
        /\ UNCHANGED <<pc, runId, row, bus, sub>>
    BY <1>5, <2>1 DEF ExitStep, SettleStep
  <2>3. \A d \in Calls : PausedSteps(d) \subseteq PausedSteps(d)'
    BY <2>2 DEF PausedSteps, TypeInv
  <2>4. \A d \in Calls : PausedSteps(d) # {} => PausedSteps(d)' # {}
    BY <2>3
  <2>5. QED
    BY <2>2, <2>4, RowFrame, StreamFrame
<1>6. ASSUME NEW c \in Calls, NEW s \in Steps, RequestPause(c, s)
      PROVE  RowIsExplained' /\ StreamInv'
  <2> DEFINE i == runId[c]
             accepted == KeyIsFree(c, s) /\ ~aborted[c]
             st == IF accepted THEN "paused" ELSE "running"
  <2>1. /\ pc[c] = "running" /\ UNCHANGED <<pc, runId, sub>>
        /\ phase' = [phase EXCEPT ![c][s] = IF accepted THEN "paused" ELSE "bad"]
        /\ row' = RowAfter(i, st) /\ Publish(i)
    BY <1>6 DEF RequestPause, AskFor
  <2>2. /\ i \in Ids
        /\ \A j \in Ids \ {i} : row'[j] = row[j] /\ bus'[j] = bus[j]
        /\ row'[i] = (IF row[i] = "none" THEN "none" ELSE st)
        /\ bus[i] = "open" => bus'[i] = "open"
    BY <2>1 DEF RowAfter, Publish, TypeInv
  <2>3. \A d \in Calls \ {c} : phase'[d] = phase[d] /\ runId'[d] = runId[d] /\ pc'[d] = pc[d]
    BY <2>1 DEF TypeInv
  <2>4. accepted => PausedSteps(c)' # {}
    <3>1. accepted => phase'[c][s] = "paused"
      BY <2>1 DEF TypeInv
    <3>2. QED
      BY <3>1 DEF PausedSteps
  <2>5. runId'[c] = i /\ runId[c] \in {i, NoId}
    BY <2>1
  <2>6. /\ row'[i] = "running" => ~accepted
        /\ row'[i] = "paused" => accepted
        /\ row'[i] \in {"none", "running", "paused"}
        /\ row[i] \in {"running", "paused"} => row'[i] \in {"running", "paused"}
    BY <2>2
  <2> HIDE DEF i, accepted, st
  <2>7. RowIsExplained'
    BY <2>1, <2>2, <2>3, <2>4, <2>5, <2>6, RowWritten
  <2>8. Sole(c)' => StreamOK(c)'
    <3>1. Sole(c)' => StreamOK(c)
      BY <2>1 DEF Sole, StreamInv
    <3>2. StreamOK(c) => row[i] \in {"running", "paused"} /\ bus[i] = "open" /\ sub[i] \in {"none", "listening"}
      BY <2>1 DEF StreamOK, i
    <3>3. QED
      BY <2>1, <2>2, <2>5, <2>6, <3>1, <3>2 DEF StreamOK, Verdicts
  <2>9. QED
    BY <2>1, <2>2, <2>3, <2>5, <2>7, <2>8, StreamWritten
<1>7. ASSUME NEW k \in Ids \X Steps, Respond(k) \/ RespondMismatched(k) \/ TimeOut(k)
      PROVE  RowIsExplained' /\ StreamInv'
  <2>1. /\ UNCHANGED <<pc, runId, bus, sub>>
        /\ Wake(k, "second") \/ Wake(k, "bad")
    BY <1>7 DEF Respond, RespondMismatched, TimeOut
  <2>2. QED
    BY <2>1, WakeKept
<1>8. ASSUME NEW i \in Ids, Cancel(i) PROVE RowIsExplained' /\ StreamInv'
  <2>0. runRegistry[i] \in Calls /\ runId[runRegistry[i]] = i /\ pc[runRegistry[i]] = "running"
    BY <1>8 DEF Cancel, TypeInv, RegistryInv
  <2>1. PICK c \in Calls :
           /\ runId[c] = i /\ pc[c] = "running" /\ UNCHANGED <<pc, runId, bus, sub>>
           /\ phase' = [phase EXCEPT ![c] =
                          [s \in Steps |-> IF s \in PausedSteps(c) THEN "bad" ELSE @[s]]]
           /\ row' = IF PausedSteps(c) = {} THEN row ELSE RowAfter(i, "running")
    BY <1>8, <2>0 DEF Cancel
  <2>2. CASE PausedSteps(c) = {}
    <3>1. \A d \in Calls : PausedSteps(d) # {} => PausedSteps(d)' # {}
      <4>1. \A d \in Calls : d # c => PausedSteps(d)' = PausedSteps(d)
        BY <2>1 DEF PausedSteps, TypeInv
      <4>2. QED
        BY <2>2, <4>1
    <3>2. QED
      BY <2>1, <2>2, <3>1, RowFrame, StreamFrame
  <2>3. CASE PausedSteps(c) # {}
    <3>1. /\ \A d \in Calls \ {c} : phase'[d] = phase[d] /\ runId'[d] = runId[d] /\ pc'[d] = pc[d]
          /\ \A j \in Ids \ {i} : row'[j] = row[j] /\ bus'[j] = bus[j] /\ sub'[j] = sub[j]
          /\ row'[i] = (IF row[i] = "none" THEN "none" ELSE "running")
          /\ runId'[c] = i /\ runId[c] \in {i, NoId} /\ pc'[c] = "running"
      BY <2>1, <2>3 DEF TypeInv, RowAfter
    <3>2. RowIsExplained'
      BY <2>1, <3>1, RowWritten
    <3>3. Sole(c)' => StreamOK(c)'
      <4>1. Sole(c)' => StreamOK(c)
        BY <2>1 DEF Sole, StreamInv
      <4>2. StreamOK(c) => row'[i] = "running" /\ bus[i] = "open" /\ sub[i] \in {"none", "listening"}
        BY <2>1, <3>1 DEF StreamOK
      <4>3. QED
        BY <2>1, <3>1, <4>1, <4>2 DEF StreamOK, Verdicts
    <3>4. QED
      BY <2>1, <3>1, <3>2, <3>3, StreamWritten
  <2>4. QED
    BY <2>2, <2>3
<1>9. ASSUME NEW i \in Ids, Subscribe(i) \/ Disconnect(i) \/ DropBus(i)
      PROVE  RowIsExplained' /\ StreamInv'
  <2>1. UNCHANGED <<pc, runId, phase, row>>
    BY <1>9 DEF Subscribe, SubscribeWith, Disconnect, DropBus
  <2>2. \A d \in Calls : PausedSteps(d)' = PausedSteps(d)
    BY <2>1 DEF PausedSteps
  <2>3. QED
    BY <1>9, <2>1, <2>2, RowFrame, FollowKept
<1>10. CASE Crash
  <2>1. /\ UNCHANGED <<runId, row>>
        /\ \A d \in Calls : pc'[d] = IF pc[d] = "running" THEN "crashed" ELSE pc[d]
        /\ \A d \in Calls : pc[d] # "running" => phase'[d] = phase[d]
        /\ \A i \in Ids : bus'[i] = "none" /\ sub'[i] = "none"
    BY <1>10 DEF Crash
  <2>2. RowIsExplained'
    <3>1. \A d \in Calls : pc[d] # "running" => PausedSteps(d)' = PausedSteps(d)
      BY <2>1 DEF PausedSteps
    <3>2. QED
      BY <2>1, <3>1, RowFrame
  <2>3. ASSUME NEW i \in Ids, Unused(i)'
        PROVE  /\ row'[i] = "none" /\ bus'[i] \in {"none", "blank"}
               /\ sub'[i] \in {"none", "listening"}
    BY <2>1, <2>3 DEF Unused, StreamInv
  <2>4. ASSUME NEW c \in Calls, Sole(c)' PROVE StreamOK(c)'
    <3>1. StreamOK(c) /\ runId[c] \in Ids /\ pc'[c] # "running"
      BY <2>1, <2>4 DEF Sole, StreamInv, TypeInv
    <3>2. pc'[c] \in Verdicts => pc[c] = pc'[c] /\ row'[runId[c]] = pc[c]
      BY <2>1, <3>1 DEF StreamOK, Verdicts
    <3>3. QED
      BY <2>1, <3>1, <3>2 DEF StreamOK
  <2>5. QED
    BY <2>2, <2>3, <2>4 DEF StreamInv
<1>11. CASE UNCHANGED vars
  <2>1. \A d \in Calls : PausedSteps(d)' = PausedSteps(d)
    BY <1>11 DEF PausedSteps, vars
  <2>2. QED
    BY <1>11, <2>1, RowFrame, StreamFrame DEF vars
<1>12. QED
  BY <1>1, <1>2, <1>3, <1>4, <1>5, <1>6, <1>7, <1>8, <1>9, <1>10, <1>11 DEF Next, Advance

-----------------------------------------------------------------------------
(* The theorems *)

LEMMA InitInvariant == Init => IInv
<1> SUFFICES ASSUME Init PROVE IInv
  OBVIOUS
<1>1. TypeInv
  BY InitType
<1>2. CallsInv
  <2> SUFFICES ASSUME NEW c \in Calls PROVE CallOK(c)
    BY DEF CallsInv
  <2>1. /\ pc[c] = "idle" /\ completed[c] = {} /\ recorded[c] = {}
        /\ \A s \in Steps : phase[c][s] = "idle"
    BY DEF Init
  <2>2. Started(c) = {} /\ Chunk(c) = {}
    BY <2>1 DEF Started, Chunk
  <2>3. Cardinality(Chunk(c)) <= recipe.maxParallelism
    BY <1>1, <2>2, FS_EmptySet, TypeGivesForm
  <2>4. QED
    BY <2>1, <2>2, <2>3 DEF CallOK, Verdicts
<1>3. PauseInv
  BY DEF Init, PauseInv, NoPause
<1>4. RegistryInv
  BY DEF Init, RegistryInv
<1>5. RowIsExplained /\ StreamInv
  BY DEF Init, RowIsExplained, StreamInv, Sole
<1>6. QED
  BY <1>1, <1>2, <1>3, <1>4, <1>5 DEF IInv

LEMMA NextInvariant == IInv /\ [Next]_vars => IInv'
BY TypeNext, CallsNext, PauseNext, RegistryNext, KeptNext DEF IInv

THEOREM Invariance == Spec => []IInv
<1>1. QED
  BY InitInvariant, NextInvariant, PTL DEF Spec

(* Every variable keeps its type, for every set of recipes, calls and ids.  *)
THEOREM TypeCorrect == Spec => []TypeOK
<1>1. IInv => TypeOK
  BY DEF IInv, TypeInv, TypeOK
<1>2. QED
  BY <1>1, Invariance, PTL

(* No step starts before the results it needs are recorded, whatever the    *)
(* waves and the chunks of the recipe.                                      *)
THEOREM DependenciesFirst == Spec => []DependenciesRecorded
<1>1. IInv => DependenciesRecorded
  BY DEF IInv, CallsInv, CallOK, DependenciesRecorded, Started
<1>2. QED
  BY <1>1, Invariance, PTL

(* No call has more than max_parallelism steps at work or paused.           *)
THEOREM ParallelismBounded == Spec => []WithinParallelism
<1>1. ASSUME IInv, NEW c \in Calls
      PROVE  Cardinality({s \in Steps : phase[c][s] \in {"first", "paused", "second"}})
                <= recipe.maxParallelism
  <2> DEFINE A == {s \in Steps : phase[c][s] \in {"first", "paused", "second"}}
             B == Chunk(c)
  <2>1. A \in SUBSET B /\ B \in SUBSET Steps
    BY <1>1 DEF IInv, CallsInv, CallOK, Chunk, Started, Settled
  <2>2. Cardinality(B) <= recipe.maxParallelism /\ recipe.maxParallelism \in Nat
    BY <1>1, TypeGivesForm DEF IInv, CallsInv, CallOK
  <2> HIDE DEF A, B
  <2>3. IsFiniteSet(B) /\ IsFiniteSet(A) /\ Cardinality(A) <= Cardinality(B)
    BY <2>1, StepsAreFinite, FS_Subset
  <2>4. Cardinality(A) \in Nat /\ Cardinality(B) \in Nat
    BY <2>3, FS_CardinalityType
  <2>5. Cardinality(A) <= recipe.maxParallelism
    BY <2>2, <2>3, <2>4
  <2>6. QED
    BY <2>5 DEF A
<1>2. IInv => WithinParallelism
  BY <1>1 DEF WithinParallelism
<1>3. QED
  BY <1>2, Invariance, PTL

(* Together: waves and slices start no step too early and not too many.     *)
THEOREM WavesSound == Spec => []WavesAreSound
BY DependenciesFirst, ParallelismBounded, PTL DEF WavesAreSound

(* Success means that every step has a result that does not halt.           *)
THEOREM SuccessMeansAll == Spec => []SuccessIsComplete
<1>1. IInv => SuccessIsComplete
  BY DEF IInv, CallsInv, CallOK, SuccessIsComplete
<1>2. QED
  BY <1>1, Invariance, PTL

(* Of all recipes, exactly those with a cycle are refused.                  *)
THEOREM CyclesRefused == Spec => []RefusedIffCyclic
<1>1. IInv => RefusedIffCyclic
  <2> SUFFICES ASSUME IInv, NEW c \in Calls
               PROVE  /\ pc[c] = "refused" => Cyclic
                      /\ pc[c] \notin {"idle", "refused"} => ~Cyclic
    BY DEF RefusedIffCyclic, Cyclic
  <2>1. QED
    BY DEF IInv, CallsInv, CallOK
<1>2. QED
  BY <1>1, Invariance, PTL

(* A paused step can be answered and an answerable pause has its step, also *)
(* when calls share an id, are cancelled or time out.                       *)
THEOREM PausesAnswerable == Spec => []PausedIffAnswerable
<1>1. ASSUME IInv, NEW c \in Calls, NEW s \in Steps
      PROVE  (pc[c] = "running" /\ phase[c][s] = "paused")
               <=> \E i \in Ids : i = runId[c] /\ pauseRegistry[<<i, s>>] = [call |-> c, dead |-> FALSE]
  <2>1. ASSUME pc[c] = "running", phase[c][s] = "paused"
        PROVE  runId[c] \in Ids /\ pauseRegistry[<<runId[c], s>>] = [call |-> c, dead |-> FALSE]
    <3>1. runId[c] \in Ids
      BY <1>1, <2>1 DEF IInv, TypeInv
    <3>2. pauseRegistry[<<runId[c], s>>] = [call |-> c, dead |-> FALSE]
      BY <1>1, <2>1 DEF IInv, PauseInv
    <3>3. QED
      BY <3>1, <3>2
  <2>2. ASSUME NEW i \in Ids, i = runId[c], pauseRegistry[<<i, s>>] = [call |-> c, dead |-> FALSE]
        PROVE  pc[c] = "running" /\ phase[c][s] = "paused"
    <3> DEFINE k == <<i, s>>
    <3>1. k \in Ids \X Steps /\ k[2] = s /\ pauseRegistry[k].call = c /\ ~pauseRegistry[k].dead
      BY <2>2
    <3> HIDE DEF k
    <3>2. QED
      BY <1>1, <3>1 DEF IInv, PauseInv
  <2>3. QED
    BY <2>1, <2>2
<1>2. IInv => PausedIffAnswerable
  BY <1>1 DEF PausedIffAnswerable
<1>3. QED
  BY <1>2, Invariance, PTL

(* The row of a run says what some call of that id is doing.                *)
THEOREM RowsExplained == Spec => []RowIsExplained
<1>1. IInv => RowIsExplained
  BY DEF IInv
<1>2. QED
  BY <1>1, Invariance, PTL

(* A run whose id is used once can be cancelled exactly while it runs.      *)
THEOREM Cancellable == Spec => []CancellableWhileRunning
<1>1. ASSUME IInv, NEW c \in Calls, Sole(c)
      PROVE  runRegistry[runId[c]] = c <=> pc[c] = "running"
  <2>1. runId[c] \in Ids
    BY <1>1 DEF IInv, TypeInv, Sole
  <2>2. QED
    BY <1>1, <2>1, NamesAssumption DEF IInv, RegistryInv
<1>2. IInv => CancellableWhileRunning
  BY <1>1 DEF CancellableWhileRunning
<1>3. QED
  BY <1>2, Invariance, PTL

(* Who follows a run is told of its end and of nothing else, whenever the   *)
(* following began, unless the server crashed or the id was used twice.     *)
THEOREM StreamsEnd == Spec => []StreamEndsWithRun
<1>1. ASSUME IInv, NEW c \in Calls, Sole(c), pc[c] # "crashed"
      PROVE  /\ sub[runId[c]] # "untold"
             /\ sub[runId[c]] = "listening" => pc[c] = "running"
             /\ sub[runId[c]] = "told" => pc[c] \in Verdicts
  <2>1. pc[c] = "running" \/ pc[c] \in Verdicts
    BY <1>1 DEF IInv, TypeInv, Sole
  <2>2. StreamOK(c)
    BY <1>1 DEF IInv, StreamInv
  <2>3. QED
    BY <2>1, <2>2 DEF StreamOK
<1>2. IInv => StreamEndsWithRun
  BY <1>1 DEF StreamEndsWithRun
<1>3. QED
  BY <1>2, Invariance, PTL

-----------------------------------------------------------------------------
(* The refinement *)

(* A slice of a wave has its first step at least.                           *)
LEMMA SliceIsNotEmpty ==
    ASSUME WellFormed, NEW S \in SUBSET Steps, S # {}
    PROVE  Slice(S) # {}
<1> DEFINE T == {recipe.place[s] : s \in S}
<1>1. /\ \A s \in Steps : recipe.place[s] \in 1..K
      /\ recipe.maxParallelism \in Nat \ {0}
  BY DEF WellFormed, RecipeSet, K
<1>2. T \in SUBSET (0..K) /\ T # {}
  BY <1>1, StepsAreFinite
<1>3. PICK m \in T : \A k \in T : m <= k
  BY <1>2, LeastNumber, StepsAreFinite
<1>4. PICK s \in S : recipe.place[s] = m
  BY <1>3
<1>5. {u \in S : recipe.place[u] < recipe.place[s]} = {}
  BY <1>1, <1>3, <1>4, StepsAreFinite
<1>6. Cardinality({u \in S : recipe.place[u] < recipe.place[s]}) < recipe.maxParallelism
  BY <1>1, <1>5, FS_EmptySet
<1>7. QED
  BY <1>4, <1>6 DEF Slice

LEMMA PhaseForm ==
    ASSUME TypeInv, NEW c \in Calls, NEW s \in Steps
    PROVE  /\ phase[c][s] = "idle" <=> PhaseOf(c, s) = "waiting"
           /\ phase[c][s] = "first" <=> PhaseOf(c, s) = "active"
           /\ phase[c][s] = "paused" <=> PhaseOf(c, s) = "asking"
           /\ phase[c][s] = "second" <=> PhaseOf(c, s) = "resumed"
           /\ Ran(c, s) <=> PhaseOf(c, s) \in {"ok", "tolerated"}
           /\ (phase[c][s] \in Settled /\ ~Ran(c, s)) <=> PhaseOf(c, s) = "fatal"
           /\ phase[c][s] \in Settled => (Halts(c, s) <=> PhaseOf(c, s) = "fatal")
<1>1. phase[c][s] \in {"idle", "first", "paused", "second", "ok", "bad", "threw"}
  BY DEF TypeInv, Settled
<1>2. QED
  BY <1>1 DEF PhaseOf, Ran, Halts, Settled

LEMMA StatusForm ==
    ASSUME TypeInv, NEW c \in Calls
    PROVE  /\ pc[c] \in {"idle", "refused"} => StatusOf(c) = "none"
           /\ pc[c] = "running" <=> StatusOf(c) = "running"
           /\ pc[c] = "crashed" => StatusOf(c) = "lost"
           /\ pc[c] \in Verdicts => StatusOf(c) = pc[c]
<1>1. pc[c] \in {"idle", "refused", "running", "crashed", "success", "failed", "cancelled"}
  BY DEF TypeInv, Verdicts
<1>2. QED
  BY <1>1 DEF StatusOf, Verdicts

LEMMA RecipeFrame ==
    ASSUME UNCHANGED recipe
    PROVE  UNCHANGED [needs |-> [s \in Steps |-> EffectiveDeps(s)], continues |-> recipe.continues]
BY DepsFrame

LEMMA PhaseFrame ==
    ASSUME NEW c \in Calls, NEW s \in Steps, phase'[c][s] = phase[c][s], UNCHANGED recipe
    PROVE  PhaseOf(c, s)' = PhaseOf(c, s)
<1>1. Halts(c, s)' <=> Halts(c, s)
  BY DEF Halts
<1>2. QED
  BY <1>1, Zenon DEF PhaseOf

(* One step of a running call moves.                                        *)
LEMMA MoveRefined ==
    ASSUME TypeInv, TypeInv', NEW c \in Calls, NEW s \in Steps, NEW p, pc[c] = "running",
           UNCHANGED <<recipe, pc, aborted>>, PhaseOf(c, s)' = p,
           \A d \in Calls, u \in Steps : (d # c \/ u # s) => phase'[d][u] = phase[d][u]
    PROVE  Promise!Move(c, s, p)
<1>1. StatusOf(c) = "running"
  BY StatusForm
<1>2. UNCHANGED [d \in Calls |-> StatusOf(d)]
  BY DEF StatusOf
<1>3. UNCHANGED {d \in Calls : aborted[d]}
  OBVIOUS
<1>4. \A d \in Calls, u \in Steps : PhaseOf(d, u)' = IF d = c /\ u = s THEN p ELSE PhaseOf(d, u)
  BY PhaseFrame
<1>5. [d \in Calls |-> [u \in Steps |-> PhaseOf(d, u)]]'
        = [[d \in Calls |-> [u \in Steps |-> PhaseOf(d, u)]] EXCEPT ![c][s] = p]
  <2> DEFINE A == [d \in Calls |-> [u \in Steps |-> PhaseOf(d, u)]]
  <2>1. A[c] = [u \in Steps |-> PhaseOf(c, u)]
    OBVIOUS
  <2>2. \A d \in Calls : A'[d] = [u \in Steps |-> PhaseOf(d, u)']
    OBVIOUS
  <2>3. A'[c] = [A[c] EXCEPT ![s] = p]
    BY <1>4, <2>1, <2>2
  <2>4. \A d \in Calls : d # c => A'[d] = A[d]
    BY <1>4
  <2>5. DOMAIN A = Calls /\ DOMAIN A' = Calls /\ A = [d \in Calls |-> A[d]] /\ A' = [d \in Calls |-> A'[d]]
    OBVIOUS
  <2> HIDE DEF A
  <2>6. A' = [A EXCEPT ![c] = [A[c] EXCEPT ![s] = p]]
    BY <2>3, <2>4, <2>5
  <2>7. QED
    BY <2>6 DEF A
<1>6. QED
  BY <1>1, <1>2, <1>3, <1>5, RecipeFrame DEF Promise!Move

(* The phases of a call, as the promise sees them.                          *)
LEMMA InPhaseForm ==
    ASSUME NEW c \in Calls, NEW P
    PROVE  Promise!InPhase(c, P) = {s \in Steps : PhaseOf(c, s) \in P}
BY DEF Promise!InPhase

LEMMA StartRefined ==
    ASSUME TypeInv, TypeInv', NEW c \in Calls, NEW S \in SUBSET Steps, S # {},
           pc[c] \in {"idle", "running"}, pc' = [pc EXCEPT ![c] = "running"],
           UNCHANGED <<recipe, aborted>>, phase' = Launched(c, S),
           \A s \in S : phase[c][s] = "idle" /\ \A u \in EffectiveDeps(s) : Ran(c, u),
           \A s \in Steps : phase[c][s] = "idle" \/ Ran(c, s)
    PROVE  Promise!Start(c, S)
<1>1. StatusOf(c) \in {"none", "running"}
  BY StatusForm
<1>2. S \subseteq Promise!InPhase(c, {"waiting"})
  BY PhaseForm, InPhaseForm
<1>3. Promise!InPhase(c, {"active", "asking", "resumed", "fatal"}) = {}
  <2>1. \A s \in Steps : PhaseOf(c, s) \in {"waiting", "ok", "tolerated"}
    BY PhaseForm
  <2>2. QED
    BY <2>1, InPhaseForm
<1>4. \A s \in S : EffectiveDeps(s) \subseteq Promise!InPhase(c, Promise!Accepted)
  <2>1. \A s \in S : \A u \in EffectiveDeps(s) : u \in Steps /\ PhaseOf(c, u) \in {"ok", "tolerated"}
    BY TypeGivesForm, DepsAreSteps, PhaseForm
  <2>2. QED
    BY <2>1, InPhaseForm DEF Promise!Accepted
<1>5. [d \in Calls |-> StatusOf(d)]' = [[d \in Calls |-> StatusOf(d)] EXCEPT ![c] = "running"]
  <2>1. StatusOf(c)' = "running"
    BY DEF StatusOf, TypeInv
  <2>2. \A d \in Calls : d # c => StatusOf(d)' = StatusOf(d)
    BY DEF StatusOf, TypeInv
  <2>3. QED
    BY <2>1, <2>2
<1>6. [d \in Calls |-> [u \in Steps |-> PhaseOf(d, u)]]'
        = [[d \in Calls |-> [u \in Steps |-> PhaseOf(d, u)]] EXCEPT ![c] =
             [u \in Steps |-> IF u \in S THEN "active"
                              ELSE [d \in Calls |-> [v \in Steps |-> PhaseOf(d, v)]][c][u]]]
  <2>1. \A d \in Calls, u \in Steps :
           phase'[d][u] = IF d = c /\ u \in S THEN "first" ELSE phase[d][u]
    BY DEF Launched, TypeInv
  <2>2. \A u \in S : PhaseOf(c, u)' = "active"
    BY <2>1 DEF PhaseOf
  <2>3. \A d \in Calls, u \in Steps :
           PhaseOf(d, u)' = IF d = c /\ u \in S THEN "active" ELSE PhaseOf(d, u)
    BY <2>1, <2>2, PhaseFrame
  <2>4. QED
    BY <2>3
<1>7. UNCHANGED {d \in Calls : aborted[d]}
  OBVIOUS
<1>8. QED
  BY <1>1, <1>2, <1>3, <1>4, <1>5, <1>6, <1>7, RecipeFrame DEF Promise!Start

LEMMA EndRefined ==
    ASSUME TypeInv, TypeInv', NEW c \in Calls, NEW v \in {"failed", "success"}, pc[c] = "running",
           End(c, v), UNCHANGED <<recipe, aborted, phase>>,
           \A s \in Steps : phase[c][s] \in Settled \cup {"idle"},
           v = "failed" => \E s \in Steps : phase[c][s] \in Settled /\ ~Ran(c, s),
           v = "success" => \A s \in Steps : Ran(c, s)
    PROVE  Promise!End(c)
<1> DEFINE w == FinalStatus(c, v)
           fatal == Promise!InPhase(c, {"fatal"})
<1>1. StatusOf(c) = "running"
  BY StatusForm
<1>2. Promise!InPhase(c, {"active", "asking", "resumed"}) = {}
  <2>1. \A s \in Steps : PhaseOf(c, s) \notin {"active", "asking", "resumed"}
    BY PhaseForm DEF Settled
  <2>2. QED
    BY <2>1, InPhaseForm
<1>3. v = "failed" => fatal # {}
  BY PhaseForm, InPhaseForm
<1>4. v = "success" => fatal = {} /\ Promise!InPhase(c, Promise!Accepted) = Steps
  <2>1. v = "success" => \A s \in Steps : PhaseOf(c, s) \in {"ok", "tolerated"}
    BY PhaseForm
  <2>2. QED
    BY <2>1, InPhaseForm DEF Promise!Accepted
<1>5. /\ pc' = [pc EXCEPT ![c] = w] /\ w \in Verdicts
      /\ w = IF c \in {d \in Calls : aborted[d]} THEN "cancelled"
             ELSE IF fatal # {} THEN "failed" ELSE "success"
  BY <1>3, <1>4, EndType DEF FinalStatus
<1> HIDE DEF w, fatal
<1>6. [d \in Calls |-> StatusOf(d)]' = [[d \in Calls |-> StatusOf(d)] EXCEPT ![c] = w]
  <2>1. StatusOf(c)' = w
    BY <1>5 DEF StatusOf, TypeInv, Verdicts
  <2>2. \A d \in Calls : d # c => StatusOf(d)' = StatusOf(d)
    BY <1>5 DEF StatusOf, TypeInv
  <2>3. QED
    BY <2>1, <2>2
<1>7. UNCHANGED {d \in Calls : aborted[d]}
  OBVIOUS
<1>8. UNCHANGED [d \in Calls |-> [u \in Steps |-> PhaseOf(d, u)]]
  BY PhaseFrame
<1>9. QED
  BY <1>1, <1>2, <1>3, <1>4, <1>5, <1>6, <1>7, <1>8, RecipeFrame DEF Promise!End, fatal

LEMMA StutterRefined ==
    ASSUME UNCHANGED <<recipe, phase, aborted>>, \A d \in Calls : StatusOf(d)' = StatusOf(d)
    PROVE  UNCHANGED Promise!vars
<1>1. UNCHANGED [d \in Calls |-> [u \in Steps |-> PhaseOf(d, u)]]
  BY PhaseFrame
<1>2. UNCHANGED [d \in Calls |-> StatusOf(d)] /\ UNCHANGED {d \in Calls : aborted[d]}
  OBVIOUS
<1>3. QED
  BY <1>1, <1>2, RecipeFrame DEF Promise!vars

(* A failed step is tolerated where the recipe says so.                     *)
LEMMA BadForm ==
    ASSUME NEW c \in Calls, NEW s \in Steps, phase'[c][s] \in {"bad", "threw"},
           UNCHANGED recipe, phase'[c][s] = "threw" => s \in recipe.continues
    PROVE  PhaseOf(c, s)' \in Promise!Failure(s)
<1>1. PhaseOf(c, s)' = IF Halts(c, s)' THEN "fatal" ELSE "tolerated"
  BY DEF PhaseOf
<1>2. s \notin recipe.continues => Halts(c, s)'
  BY DEF Halts
<1>3. QED
  BY <1>1, <1>2 DEF Promise!Failure

LEMMA FailRefined ==
    ASSUME TypeInv, TypeInv', NEW c \in Calls, NEW s \in Steps, pc[c] = "running",
           phase[c][s] \in {"first", "paused", "second"},
           UNCHANGED <<recipe, pc, aborted>>, phase'[c][s] \in {"bad", "threw"},
           phase'[c][s] = "threw" => s \in recipe.continues,
           \A d \in Calls, u \in Steps : (d # c \/ u # s) => phase'[d][u] = phase[d][u]
    PROVE  Promise!Fail(c, s)
<1>1. PhaseOf(c, s)' \in Promise!Failure(s) /\ PhaseOf(c, s) \in {"active", "asking", "resumed"}
  BY BadForm, PhaseForm
<1>2. Promise!Move(c, s, PhaseOf(c, s)')
  BY MoveRefined
<1>3. QED
  BY <1>1, <1>2 DEF Promise!Fail

LEMMA WakeRefined ==
    ASSUME TypeInv, TypeInv', PauseInv, NEW k \in Ids \X Steps, NEW ph \in {"bad", "second"},
           Wake(k, ph), UNCHANGED <<recipe, pc, aborted>>
    PROVE  \/ UNCHANGED Promise!vars
           \/ \E c \in Calls, s \in Steps : Promise!Answer(c, s) \/ Promise!Fail(c, s)
<1>1. CASE pauseRegistry[k].dead
  <2>1. UNCHANGED <<phase, row>>
    BY <1>1 DEF Wake
  <2>2. \A d \in Calls : StatusOf(d)' = StatusOf(d)
    BY DEF StatusOf
  <2>3. QED
    BY <2>1, <2>2, StutterRefined
<1>2. CASE ~pauseRegistry[k].dead
  <2>1. PICK c \in Calls, s \in Steps :
           /\ pc[c] = "running" /\ phase[c][s] = "paused"
           /\ phase' = [phase EXCEPT ![c][s] = ph]
    BY <1>2 DEF Wake, PauseInv
  <2>2. /\ phase'[c][s] = ph
        /\ \A d \in Calls, u \in Steps : (d # c \/ u # s) => phase'[d][u] = phase[d][u]
    BY <2>1 DEF TypeInv
  <2>3. CASE ph = "bad"
    <3>1. Promise!Fail(c, s)
      BY <2>1, <2>2, <2>3, FailRefined
    <3>2. QED
      BY <3>1
  <2>4. CASE ph = "second"
    <3>1. PhaseOf(c, s) = "asking" /\ PhaseOf(c, s)' = "resumed"
      BY <2>1, <2>2, <2>4, PhaseForm DEF PhaseOf
    <3>2. Promise!Move(c, s, "resumed")
      BY <2>1, <2>2, <3>1, MoveRefined
    <3>3. Promise!Answer(c, s)
      BY <3>1, <3>2 DEF Promise!Answer
    <3>4. QED
      BY <3>3
  <2>5. QED
    BY <2>3, <2>4
<1>3. QED
  BY <1>1, <1>2

LEMMA CancelRefined ==
    ASSUME TypeInv, TypeInv', RegistryInv, NEW i \in Ids, Cancel(i)
    PROVE  \E c \in Calls : Promise!Cancel(c)
<1>0. runRegistry[i] \in Calls /\ pc[runRegistry[i]] = "running"
  BY DEF Cancel, TypeInv, RegistryInv
<1>1. PICK c \in Calls :
         /\ pc[c] = "running" /\ UNCHANGED <<recipe, pc>>
         /\ aborted' = [aborted EXCEPT ![c] = TRUE]
         /\ phase' = [phase EXCEPT ![c] =
                        [s \in Steps |-> IF s \in PausedSteps(c) THEN "bad" ELSE @[s]]]
  BY <1>0 DEF Cancel
<1> DEFINE asking == Promise!InPhase(c, {"asking"})
           p == [s \in asking |-> IF s \in recipe.continues THEN "tolerated" ELSE "fatal"]
<1>2. StatusOf(c) = "running" /\ UNCHANGED [d \in Calls |-> StatusOf(d)]
  BY <1>1, StatusForm DEF StatusOf
<1>3. {d \in Calls : aborted[d]}' = {d \in Calls : aborted[d]} \cup {c}
  BY <1>1 DEF TypeInv
<1>4. asking = PausedSteps(c)
  BY PhaseForm, InPhaseForm DEF PausedSteps
<1>5. \A d \in Calls, s \in Steps :
         phase'[d][s] = IF d = c /\ s \in asking THEN "bad" ELSE phase[d][s]
  BY <1>1, <1>4 DEF TypeInv
<1>6. \A s \in asking : s \in Steps /\ PhaseOf(c, s)' = p[s]
  <2>1. \A s \in asking : s \in Steps /\ phase'[c][s] = "bad"
    BY <1>4, <1>5 DEF PausedSteps
  <2>2. \A s \in asking : PhaseOf(c, s)' = IF Halts(c, s)' THEN "fatal" ELSE "tolerated"
    BY <2>1 DEF PhaseOf
  <2>3. \A s \in asking : Halts(c, s)' <=> s \notin recipe.continues
    BY <1>1, <2>1 DEF Halts
  <2>4. QED
    BY <2>1, <2>2, <2>3
<1>7. p \in [asking -> {"tolerated", "fatal"}] /\ \A s \in DOMAIN p : p[s] \in Promise!Failure(s)
  BY DEF Promise!Failure
<1>8. DOMAIN p = asking
  OBVIOUS
<1> HIDE DEF p, asking
<1>9. \A d \in Calls, s \in Steps :
         PhaseOf(d, s)' = IF d = c /\ s \in DOMAIN p THEN p[s] ELSE PhaseOf(d, s)
  BY <1>1, <1>5, <1>6, <1>8, PhaseFrame
<1>10. [d \in Calls |-> [u \in Steps |-> PhaseOf(d, u)]]'
         = [[d \in Calls |-> [u \in Steps |-> PhaseOf(d, u)]] EXCEPT ![c] =
              [s \in Steps |-> IF s \in DOMAIN p THEN p[s]
                               ELSE [d \in Calls |-> [v \in Steps |-> PhaseOf(d, v)]][c][s]]]
  BY <1>9
<1>11. Promise!Cancel(c)
  BY <1>1, <1>2, <1>3, <1>7, <1>10, RecipeFrame DEF Promise!Cancel, asking
<1>12. QED
  BY <1>11

LEMMA CrashRefined ==
    ASSUME TypeInv, TypeInv', Crash
    PROVE  Promise!Lose
<1>1. /\ UNCHANGED recipe
      /\ pc' = [c \in Calls |-> IF pc[c] = "running" THEN "crashed" ELSE pc[c]]
      /\ phase' = [c \in Calls |-> IF pc[c] = "running" THEN [s \in Steps |-> "idle"] ELSE phase[c]]
      /\ aborted' = [c \in Calls |-> IF pc[c] = "running" THEN FALSE ELSE aborted[c]]
  BY DEF Crash
<1>2. \A c \in Calls : StatusOf(c) = "running" <=> pc[c] = "running"
  BY StatusForm
<1>3. \A c \in Calls : StatusOf(c)' = IF StatusOf(c) = "running" THEN "lost" ELSE StatusOf(c)
  <2> SUFFICES ASSUME NEW c \in Calls
               PROVE  StatusOf(c)' = IF StatusOf(c) = "running" THEN "lost" ELSE StatusOf(c)
    OBVIOUS
  <2>1. CASE pc[c] = "running"
    BY <1>1, <1>2, <2>1 DEF StatusOf
  <2>2. CASE pc[c] # "running"
    <3>1. pc'[c] = pc[c]
      BY <1>1, <2>2
    <3>2. StatusOf(c)' = StatusOf(c)
      BY <3>1 DEF StatusOf
    <3>3. QED
      BY <1>2, <2>2, <3>2
  <2>3. QED
    BY <2>1, <2>2
<1>4. {c \in Calls : aborted[c]}' = {c \in {d \in Calls : aborted[d]} : StatusOf(c) # "running"}
  BY <1>1, <1>2
<1>5. \A c \in Calls, s \in Steps :
         PhaseOf(c, s)' = IF StatusOf(c) = "running" THEN "waiting" ELSE PhaseOf(c, s)
  <2> SUFFICES ASSUME NEW c \in Calls, NEW s \in Steps
               PROVE  PhaseOf(c, s)' = IF StatusOf(c) = "running" THEN "waiting" ELSE PhaseOf(c, s)
    OBVIOUS
  <2>1. CASE pc[c] = "running"
    BY <1>1, <1>2, <2>1 DEF PhaseOf
  <2>2. CASE pc[c] # "running"
    BY <1>1, <1>2, <2>2, PhaseFrame
  <2>3. QED
    BY <2>1, <2>2
<1>6. QED
  <2>1. [c \in Calls |-> StatusOf(c)]'
          = [c \in Calls |-> IF [d \in Calls |-> StatusOf(d)][c] = "running" THEN "lost"
                             ELSE [d \in Calls |-> StatusOf(d)][c]]
    BY <1>3
  <2>2. [c \in Calls |-> [s \in Steps |-> PhaseOf(c, s)]]'
          = [c \in Calls |-> IF [d \in Calls |-> StatusOf(d)][c] = "running"
                             THEN [s \in Steps |-> "waiting"]
                             ELSE [d \in Calls |-> [s \in Steps |-> PhaseOf(d, s)]][c]]
    BY <1>5
  <2>3. {c \in Calls : aborted[c]}'
          = {c \in {d \in Calls : aborted[d]} : [d \in Calls |-> StatusOf(d)][c] # "running"}
    BY <1>4
  <2>4. QED
    BY <1>1, <2>1, <2>2, <2>3, RecipeFrame DEF Promise!Lose

LEMMA InitRefined == Init => Promise!Init
<1> SUFFICES ASSUME Init PROVE Promise!Init
  OBVIOUS
<1>1. WellFormed
  BY InitType, TypeGivesForm
<1>2. [s \in Steps |-> EffectiveDeps(s)] \in [Steps -> SUBSET Steps]
  BY <1>1, DepsAreSteps
<1>3. recipe.continues \in SUBSET Steps
  BY <1>1 DEF WellFormed, RecipeSet
<1>4. \A c \in Calls : StatusOf(c) = "none" /\ \A s \in Steps : PhaseOf(c, s) = "waiting"
  BY DEF Init, StatusOf, PhaseOf
<1>5. [c \in Calls |-> StatusOf(c)] = [c \in Calls |-> "none"]
      /\ [c \in Calls |-> [s \in Steps |-> PhaseOf(c, s)]] = [c \in Calls |-> [s \in Steps |-> "waiting"]]
  BY <1>4
<1>6. {c \in Calls : aborted[c]} = {}
  BY DEF Init
<1>7. QED
  BY <1>2, <1>3, <1>5, <1>6 DEF Promise!Init

LEMMA NextRefined ==
    ASSUME IInv, IInv', [Next]_vars
    PROVE  [Promise!Next]_(Promise!vars)
<1> USE DEF IInv
<1>1. ASSUME NEW c \in Calls, Refuse(c) PROVE UNCHANGED Promise!vars
  <2>1. /\ UNCHANGED <<recipe, phase, aborted>> /\ pc[c] = "idle" /\ pc'[c] = "refused"
        /\ \A d \in Calls : d # c => pc'[d] = pc[d]
    BY <1>1 DEF Refuse, TypeInv
  <2>2. \A d \in Calls : StatusOf(d)' = StatusOf(d)
    BY <2>1 DEF StatusOf
  <2>3. QED
    BY <2>1, <2>2, StutterRefined
<1>2. ASSUME NEW c \in Calls, HaltRun(c) PROVE Promise!End(c)
  <2>1. /\ CallOK(c) /\ pc[c] = "running" /\ End(c, "failed") /\ ChunkIsSettled(c) /\ Halting(c) # {}
        /\ UNCHANGED <<recipe, phase, aborted>>
    BY <1>2 DEF HaltRun, BreakOuter, CallsInv
  <2>2. \A s \in Steps : phase[c][s] \in Settled \cup {"idle"}
    BY <2>1 DEF ChunkIsSettled, Chunk, Started, CallOK
  <2>3. \E s \in Steps : phase[c][s] \in Settled /\ ~Ran(c, s)
    BY <2>1 DEF ChunkIsSettled, Halting, Halts, Ran, Chunk, Started
  <2>4. QED
    BY <2>1, <2>2, <2>3, EndRefined
<1>3. ASSUME NEW c \in Calls, CompleteRun(c) PROVE Promise!End(c)
  <2>1. /\ pc[c] = "running" /\ End(c, "success") /\ CallOK(c)
        /\ UNCHANGED <<recipe, phase, aborted>> /\ recorded'[c] = recorded[c] \cup Chunk(c)
        /\ ChunkIsSettled(c) /\ Halting(c) = {}
    BY <1>3 DEF CompleteRun, CallsInv, TypeInv
  <2>2. \A s \in recorded'[c] : Ran(c, s) /\ phase[c][s] \in Settled
    BY <2>1, ChunkSettles
  <2>3. \A s \in Steps : s \in recorded'[c]
    <3> DEFINE S == Steps \ recorded'[c]
    <3>1. Ready(recorded'[c]) = {}
      BY <1>3, <2>1 DEF CompleteRun
    <3>2. \A s \in S : EffectiveDeps(s) \cap S # {}
      BY <3>1, DepsAreSteps, TypeGivesForm DEF Ready
    <3>3. S = {}
      BY <2>1, <3>2 DEF CallOK, Cyclic
    <3>4. QED
      BY <3>3
  <2>4. QED
    BY <2>1, <2>2, <2>3, EndRefined
<1>4. ASSUME NEW c \in Calls, NextChunk(c) PROVE \E S \in SUBSET Steps : Promise!Start(c, S)
  <2> DEFINE results == recorded[c] \cup Chunk(c)
             rest == Ready(completed[c]) \ results
             wave == IF rest = {} THEN Ready(results) ELSE rest
  <2>1. /\ CallOK(c) /\ pc[c] = "running" /\ ChunkIsSettled(c) /\ Halting(c) = {} /\ wave # {}
        /\ phase' = Launched(c, Slice(wave)) /\ UNCHANGED <<recipe, pc, aborted>>
    BY <1>4 DEF NextChunk, GoOn, CallsInv
  <2>2. \A s \in results : s \in Steps /\ Ran(c, s) /\ phase[c][s] \in Settled
    BY <2>1, ChunkSettles
  <2>3. results = Started(c) /\ completed[c] \subseteq results
    BY <2>1, <2>2 DEF Chunk, CallOK, Started, Settled
  <2>4. wave \in SUBSET (Steps \ results) /\ Slice(wave) \subseteq wave
    BY DEF Ready, Slice
  <2>5. \A s \in Slice(wave) : phase[c][s] = "idle" /\ \A u \in EffectiveDeps(s) : Ran(c, u)
    <3>1. \A s \in Slice(wave) : s \in Steps /\ s \notin results /\ EffectiveDeps(s) \subseteq results
      BY <2>3, <2>4 DEF Ready
    <3>2. QED
      BY <2>2, <2>3, <3>1 DEF Started
  <2>6. \A s \in Steps : phase[c][s] = "idle" \/ Ran(c, s)
    BY <2>2, <2>3 DEF Started
  <2>7. Slice(wave) # {} /\ Slice(wave) \in SUBSET Steps
    BY <2>1, <2>4, TypeGivesForm, SliceIsNotEmpty
  <2> HIDE DEF results, rest, wave
  <2>8. pc' = [pc EXCEPT ![c] = "running"]
    BY <2>1 DEF TypeInv
  <2>9. Promise!Start(c, Slice(wave))
    BY <2>1, <2>5, <2>6, <2>7, <2>8, StartRefined
  <2>10. QED
    BY <2>7, <2>9
<1>5. ASSUME NEW c \in Calls, NEW i \in Ids, StartCall(c, i)
      PROVE  \E S \in SUBSET Steps : Promise!Start(c, S)
  <2> DEFINE first == Slice(Ready({}))
  <2>1. /\ CallOK(c) /\ pc[c] = "idle" /\ pc' = [pc EXCEPT ![c] = "running"] /\ Reachable = Steps
        /\ phase' = Launched(c, first) /\ UNCHANGED <<recipe, aborted>>
    BY <1>5 DEF StartCall, CallsInv
  <2>2. \A s \in Steps : phase[c][s] = "idle"
    BY <2>1 DEF CallOK
  <2>3. Ready({}) \in SUBSET Steps /\ \A s \in Ready({}) : EffectiveDeps(s) = {}
    BY DEF Ready
  <2>4. Ready({}) # {}
    <3>1. \E s \in Steps : EffectiveDeps(s) \cap Steps = {}
      BY <2>1, TypeGivesForm, WavesAreComplete, StepsAssumption
    <3>2. QED
      BY <3>1, DepsAreSteps, TypeGivesForm DEF Ready
  <2>5. first \subseteq Ready({}) /\ first # {}
    BY <2>3, <2>4, TypeGivesForm, SliceIsNotEmpty DEF Slice
  <2> HIDE DEF first
  <2>6. first \in SUBSET Steps /\ \A s \in first : phase[c][s] = "idle" /\ \A u \in EffectiveDeps(s) : Ran(c, u)
    BY <2>2, <2>3, <2>5
  <2>7. Promise!Start(c, first)
    BY <2>1, <2>2, <2>5, <2>6, StartRefined
  <2>8. QED
    BY <2>6, <2>7
<1>6. ASSUME NEW c \in Calls, NEW s \in Steps, ExitStep(c, s)
      PROVE  Promise!Succeed(c, s) \/ Promise!Fail(c, s)
  <2>1. PICK outcome \in Outcomes(s) : SettleStep(c, s, outcome)
    BY <1>6 DEF ExitStep
  <2>2. /\ pc[c] = "running" /\ phase[c][s] \in {"first", "second"}
        /\ UNCHANGED <<recipe, pc, aborted>> /\ phase'[c][s] = outcome
        /\ \A d \in Calls, u \in Steps : (d # c \/ u # s) => phase'[d][u] = phase[d][u]
    BY <1>6, <2>1 DEF ExitStep, SettleStep, TypeInv
  <2>3. CASE outcome = "ok"
    <3>1. PhaseOf(c, s) \in {"active", "resumed"} /\ PhaseOf(c, s)' = "ok"
      BY <2>2, <2>3, PhaseForm DEF PhaseOf
    <3>2. Promise!Move(c, s, "ok")
      BY <2>2, <3>1, MoveRefined
    <3>3. QED
      BY <3>1, <3>2 DEF Promise!Succeed
  <2>4. CASE outcome # "ok"
    <3>1. outcome \in {"bad", "threw"} /\ (outcome = "threw" => s \in recipe.continues)
      BY <2>4 DEF Outcomes, Settled
    <3>2. QED
      BY <2>2, <3>1, FailRefined
  <2>5. QED
    BY <2>3, <2>4
<1>7. ASSUME NEW c \in Calls, NEW s \in Steps, RequestPause(c, s)
      PROVE  Promise!Ask(c, s) \/ Promise!Fail(c, s)
  <2>1. PICK outcome \in {"paused", "bad"} : phase' = [phase EXCEPT ![c][s] = outcome]
    BY <1>7 DEF RequestPause, AskFor
  <2>2. /\ pc[c] = "running" /\ phase[c][s] = "first" /\ UNCHANGED <<recipe, pc, aborted>>
        /\ phase'[c][s] = outcome
        /\ \A d \in Calls, u \in Steps : (d # c \/ u # s) => phase'[d][u] = phase[d][u]
    BY <1>7, <2>1 DEF RequestPause, AskFor, TypeInv
  <2>3. CASE outcome = "paused"
    <3>1. PhaseOf(c, s) = "active" /\ PhaseOf(c, s)' = "asking"
      BY <2>2, <2>3, PhaseForm DEF PhaseOf
    <3>2. Promise!Move(c, s, "asking")
      BY <2>2, <3>1, MoveRefined
    <3>3. QED
      BY <3>1, <3>2 DEF Promise!Ask
  <2>4. CASE outcome = "bad"
    BY <2>2, <2>4, FailRefined
  <2>5. QED
    BY <2>3, <2>4
<1>8. ASSUME NEW k \in Ids \X Steps, Respond(k) \/ RespondMismatched(k) \/ TimeOut(k)
      PROVE  \/ UNCHANGED Promise!vars
             \/ \E c \in Calls, s \in Steps : Promise!Answer(c, s) \/ Promise!Fail(c, s)
  <2>1. UNCHANGED <<recipe, pc, aborted>> /\ (Wake(k, "second") \/ Wake(k, "bad"))
    BY <1>8 DEF Respond, RespondMismatched, TimeOut
  <2>2. QED
    BY <2>1, WakeRefined
<1>9. ASSUME NEW i \in Ids, Cancel(i) PROVE \E c \in Calls : Promise!Cancel(c)
  BY <1>9, CancelRefined
<1>10. ASSUME NEW i \in Ids, Subscribe(i) \/ Disconnect(i) \/ DropBus(i)
       PROVE  UNCHANGED Promise!vars
  <2>1. UNCHANGED <<recipe, pc, phase, aborted>>
    BY <1>10 DEF Subscribe, SubscribeWith, Disconnect, DropBus
  <2>2. \A d \in Calls : StatusOf(d)' = StatusOf(d)
    BY <2>1 DEF StatusOf
  <2>3. QED
    BY <2>1, <2>2, StutterRefined
<1>11. CASE Crash
  <2>1. Promise!Lose
    BY <1>11, CrashRefined
  <2>2. QED
    BY <2>1 DEF Promise!Next
<1>12. CASE UNCHANGED vars
  <2>1. UNCHANGED <<recipe, pc, phase, aborted>>
    BY <1>12 DEF vars
  <2>2. \A d \in Calls : StatusOf(d)' = StatusOf(d)
    BY <2>1 DEF StatusOf
  <2>3. QED
    BY <2>1, <2>2, StutterRefined
<1>13. QED
  BY <1>1, <1>2, <1>3, <1>4, <1>5, <1>6, <1>7, <1>8, <1>9, <1>10, <1>11, <1>12
     DEF Next, Advance, Promise!Next

(* Whatever the waves, chunks, registries, answers, timeouts, cancellations *)
(* and crashes do, every call keeps to RecipeRun.                           *)
THEOREM Refinement == Spec => ImplementsPromise
<1>1. QED
  BY InitRefined, NextRefined, Invariance, PTL DEF Spec, ImplementsPromise, Promise!Spec

=============================================================================
