---------------------------- MODULE OrdersProofs ----------------------------
(***************************************************************************)
(* Proofs about Orders: what the filter keeps, and that the depth-first    *)
(* search lists every task once and after what it needs.                   *)
(***************************************************************************)
EXTENDS Orders, FiniteSetTheorems, WellFoundedInduction, TLAPS

-----------------------------------------------------------------------------
(* Numbers *)

(* A non-empty set of numbers up to n has a least one.                      *)
LEMMA LeastOf ==
    ASSUME NEW n \in Nat, NEW T \in SUBSET (0..n), T # {}
    PROVE  \E m \in T : \A k \in T : m <= k
<1> DEFINE S == 0..n
           U == {0..m : m \in T}
<1>1. IsFiniteSet(S)
  BY FS_Interval
<1>2. IsWellFoundedOn(StrictSubsetOrdering(S), SUBSET S)
  BY <1>1, FS_StrictSubsetOrderingWellFounded, FS_FiniteSubsetsOfFinite
<1>3. U \subseteq SUBSET S /\ U # {}
  <2>1. \A m \in T : m \in 0..n /\ 0..m \subseteq S
    OBVIOUS
  <2>2. QED
    BY <2>1, Zenon
<1>4. PICK x \in U : \A y \in U : <<y, x>> \notin StrictSubsetOrdering(S)
  BY <1>2, <1>3, WFMin
<1>5. PICK m \in T : x = 0..m
  BY <1>4
<1>6. \A k \in T : m <= k
  <2> SUFFICES ASSUME NEW k \in T, k < m PROVE FALSE
    OBVIOUS
  <2>1. 0..k \in U /\ 0..k \subseteq 0..m /\ 0..k # 0..m
    BY DEF U
  <2>2. <<0..k, x>> \in StrictSubsetOrdering(S)
    BY <1>3, <1>5, <2>1 DEF StrictSubsetOrdering
  <2>3. QED
    BY <1>4, <2>1, <2>2
<1>7. QED
  BY <1>6

(* ... and a greatest one.                                                  *)
LEMMA GreatestOf ==
    ASSUME NEW n \in Nat, NEW T \in SUBSET (0..n), T # {}
    PROVE  \E m \in T : \A k \in T : k <= m
<1> DEFINE U == {n - k : k \in T}
<1>1. U \in SUBSET (0..n) /\ U # {}
  OBVIOUS
<1>2. PICK u \in U : \A v \in U : u <= v
  BY <1>1, LeastOf
<1>3. PICK m \in T : u = n - m
  BY <1>2
<1>4. ASSUME NEW k \in T PROVE k <= m
  <2>1. n - k \in U
    OBVIOUS
  <2>2. n - m <= n - k
    BY <1>2, <1>3, <2>1
  <2>3. k \in Int /\ m \in Int
    OBVIOUS
  <2>4. QED
    BY <2>2, <2>3
<1>5. QED
  BY <1>4

(* Induction up to n: what holds of 0, and of each number if of the one     *)
(* before.                                                                  *)
LEMMA UpTo ==
    ASSUME NEW n \in Nat, NEW T, 0 \in T, \A k \in 0..(n - 1) : k \in T => k + 1 \in T
    PROVE  \A k \in 0..n : k \in T
<1> DEFINE Bad == (0..n) \ T
<1> SUFFICES ASSUME Bad # {} PROVE FALSE
  OBVIOUS
<1>1. PICK m \in Bad : \A k \in Bad : m <= k
  BY LeastOf
<1>2. m # 0 /\ m - 1 \in 0..(n - 1) /\ m - 1 \notin Bad
  BY <1>1
<1>3. m - 1 \in T
  BY <1>2
<1>4. QED
  BY <1>1, <1>2, <1>3

-----------------------------------------------------------------------------
(* The filter *)

NextKept(k, x, S) == IF x \in S THEN Append(k, x) ELSE k

(* f lists what is kept of the first elements.                              *)
IsUpTo(f, s, S, X, n) ==
    /\ f \in [0..n -> Seq(X)]
    /\ f[0] = <<>>
    /\ \A i \in 1..n : f[i] = NextKept(f[i - 1], s[i], S)

LEMMA NextKeptType ==
    ASSUME NEW X, NEW k \in Seq(X), NEW x \in X, NEW S
    PROVE  NextKept(k, x, S) \in Seq(X)
BY DEF NextKept

LEMMA UpToExists ==
    ASSUME NEW X, NEW s \in Seq(X), NEW S
    PROVE  \E f : IsUpTo(f, s, S, X, Len(s))
<1> DEFINE T == {k \in 0..Len(s) : \E f : IsUpTo(f, s, S, X, k)}
<1>1. 0 \in T
  <2> DEFINE f == [i \in 0..0 |-> <<>>]
  <2>1. IsUpTo(f, s, S, X, 0)
    BY DEF IsUpTo
  <2>2. QED
    BY <2>1
<1>2. ASSUME NEW k \in 0..(Len(s) - 1), k \in T PROVE k + 1 \in T
  <2>1. PICK f : IsUpTo(f, s, S, X, k)
    BY <1>2
  <2>2. f \in [0..k -> Seq(X)] /\ f[0] = <<>> /\ \A i \in 1..k : f[i] = NextKept(f[i - 1], s[i], S)
    BY <2>1 DEF IsUpTo
  <2> DEFINE g == [i \in 0..(k + 1) |-> IF i = k + 1 THEN NextKept(f[k], s[i], S) ELSE f[i]]
  <2>3. g \in [0..(k + 1) -> Seq(X)] /\ g[0] = <<>>
    BY <2>2, NextKeptType
  <2>4. ASSUME NEW i \in 1..(k + 1) PROVE g[i] = NextKept(g[i - 1], s[i], S)
    <3>1. k \in Nat /\ i \in 0..(k + 1) /\ i - 1 \in 0..k /\ i - 1 \in 0..(k + 1) /\ i - 1 # k + 1
      OBVIOUS
    <3>2. g[i - 1] = f[i - 1]
      BY <3>1
    <3>3. CASE i = k + 1
      BY <3>1, <3>2, <3>3
    <3>4. CASE i # k + 1
      <4>1. i \in 1..k /\ g[i] = f[i]
        BY <3>1, <3>4
      <4>2. QED
        BY <2>2, <3>2, <4>1
    <3>5. QED
      BY <3>3, <3>4
  <2>5. IsUpTo(g, s, S, X, k + 1)
    BY <2>3, <2>4 DEF IsUpTo
  <2>6. QED
    BY <2>5
<1>3. Len(s) \in T
  <2> HIDE DEF T
  <2>1. \A k \in 0..Len(s) : k \in T
    BY <1>1, <1>2, UpTo
  <2>2. QED
    BY <2>1
<1>4. QED
  BY <1>3

LEMMA KeptIsUpTo ==
    ASSUME NEW X, NEW s \in Seq(X), NEW S
    PROVE  \E f : /\ f[0] = <<>> /\ Kept(s, S) = f[Len(s)]
                  /\ \A i \in 1..Len(s) : f[i] = NextKept(f[i - 1], s[i], S)
<1> DEFINE F(g) == [n \in 0..Len(s) |-> IF n = 0 THEN <<>>
                       ELSE IF s[n] \in S THEN Append(g[n - 1], s[n]) ELSE g[n - 1]]
           upTo == CHOOSE g : g = F(g)
<1>1. PICK f : IsUpTo(f, s, S, X, Len(s))
  BY UpToExists
<1>2. f = F(f)
  <2>0. Len(s) \in Nat
    OBVIOUS
  <2>1. ASSUME NEW n \in 0..Len(s)
        PROVE  f[n] = IF n = 0 THEN <<>>
                      ELSE IF s[n] \in S THEN Append(f[n - 1], s[n]) ELSE f[n - 1]
    <3>1. CASE n = 0
      BY <1>1, <3>1 DEF IsUpTo
    <3>2. CASE n # 0
      <4>1. n \in 1..Len(s)
        BY <2>0, <3>2
      <4>2. f[n] = NextKept(f[n - 1], s[n], S)
        BY <1>1, <4>1 DEF IsUpTo
      <4>3. QED
        BY <3>2, <4>2 DEF NextKept
    <3>3. QED
      BY <3>1, <3>2
  <2>2. f = [n \in 0..Len(s) |-> f[n]]
    BY <1>1 DEF IsUpTo
  <2>3. QED
    BY <2>1, <2>2
<1>3. upTo = F(upTo)
  <2>1. \E g : g = F(g)
    BY <1>2
  <2>2. QED
    BY <2>1, Zenon DEF upTo
<1>4. Kept(s, S) = upTo[Len(s)]
  BY DEF Kept
<1> HIDE DEF upTo
<1>5. upTo[0] = <<>>
  BY <1>3
<1>6. ASSUME NEW i \in 1..Len(s) PROVE upTo[i] = NextKept(upTo[i - 1], s[i], S)
  <2>1. i \in 0..Len(s) /\ i # 0
    OBVIOUS
  <2>2. upTo[i] = IF s[i] \in S THEN Append(upTo[i - 1], s[i]) ELSE upTo[i - 1]
    BY <1>3, <2>1, Zenon
  <2>3. QED
    BY <2>2 DEF NextKept
<1>7. QED
  BY <1>4, <1>5, <1>6

(* Where the kept elements k come from, among the first n of s: place is    *)
(* ascending and leaves no element of S out.                                *)
ComesFrom(k, place, s, S, n) ==
    /\ place \in [DOMAIN k -> 1..n]
    /\ \A i, j \in DOMAIN k : i < j => place[i] < place[j]
    /\ \A i \in DOMAIN k : k[i] = s[place[i]] /\ s[place[i]] \in S
    /\ \A p \in 1..n : s[p] \in S => \E i \in DOMAIN k : place[i] = p

(* The filter keeps the elements of S, each as often as it is there, in     *)
(* their order.                                                             *)
THEOREM KeptComesFrom ==
    ASSUME NEW X, NEW s \in Seq(X), NEW S
    PROVE  Kept(s, S) \in Seq(X) /\ \E place : ComesFrom(Kept(s, S), place, s, S, Len(s))
<1>1. PICK f : /\ f[0] = <<>> /\ Kept(s, S) = f[Len(s)]
               /\ \A i \in 1..Len(s) : f[i] = NextKept(f[i - 1], s[i], S)
  BY KeptIsUpTo
<1> DEFINE T == {n \in 0..Len(s) : f[n] \in Seq(X) /\ \E place : ComesFrom(f[n], place, s, S, n)}
<1>2. 0 \in T
  <2>1. f[0] = <<>> /\ DOMAIN f[0] = {} /\ f[0] \in Seq(X)
    BY <1>1
  <2> DEFINE none == [i \in {} |-> 0]
  <2>2. ComesFrom(f[0], none, s, S, 0)
    BY <2>1 DEF ComesFrom
  <2>3. 0 \in 0..Len(s)
    OBVIOUS
  <2> HIDE DEF none
  <2>4. QED
    BY <2>1, <2>2, <2>3
<1>3. ASSUME NEW n \in 0..(Len(s) - 1), n \in T PROVE n + 1 \in T
  <2>1. PICK place : ComesFrom(f[n], place, s, S, n)
    BY <1>3
  <2>2. /\ f[n] \in Seq(X) /\ s[n + 1] \in X /\ n + 1 \in 1..Len(s) /\ n + 1 \in 0..Len(s)
        /\ (n + 1) - 1 = n
    BY <1>3
  <2>0. f[n + 1] = NextKept(f[n], s[n + 1], S)
    BY <1>1, <2>2
  <2>3. CASE s[n + 1] \in S
    <3> DEFINE m  == Len(f[n]) + 1
               to == [i \in 1..m |-> IF i = m THEN n + 1 ELSE place[i]]
    <3>1. f[n + 1] = Append(f[n], s[n + 1])
      BY <2>0, <2>3 DEF NextKept
    <3>2. /\ f[n + 1] \in Seq(X) /\ DOMAIN f[n + 1] = 1..m /\ f[n + 1][m] = s[n + 1]
          /\ DOMAIN f[n] = 1..(m - 1) /\ m \in Nat /\ m >= 1
          /\ \A i \in 1..(m - 1) : f[n + 1][i] = f[n][i]
      BY <2>2, <3>1
    <3>3. /\ place \in [1..(m - 1) -> 1..n]
          /\ \A i, j \in 1..(m - 1) : i < j => place[i] < place[j]
          /\ \A i \in 1..(m - 1) : f[n][i] = s[place[i]] /\ s[place[i]] \in S
          /\ \A p \in 1..n : s[p] \in S => \E i \in 1..(m - 1) : place[i] = p
      BY <2>1, <3>2 DEF ComesFrom
    <3> HIDE DEF m
    <3>4. to \in [1..m -> 1..(n + 1)] /\ to[m] = n + 1 /\ \A i \in 1..(m - 1) : to[i] = place[i]
      BY <3>2, <3>3
    <3> HIDE DEF to
    <3>5. \A i, j \in 1..m : i < j => to[i] < to[j]
      BY <3>2, <3>3, <3>4
    <3>6. \A i \in 1..m : f[n + 1][i] = s[to[i]] /\ s[to[i]] \in S
      BY <2>3, <3>2, <3>3, <3>4
    <3>7. \A p \in 1..(n + 1) : s[p] \in S => \E i \in 1..m : to[i] = p
      BY <3>2, <3>3, <3>4
    <3>8. ComesFrom(f[n + 1], to, s, S, n + 1)
      BY <3>2, <3>4, <3>5, <3>6, <3>7 DEF ComesFrom
    <3>9. QED
      BY <2>2, <3>2, <3>8
  <2>4. CASE s[n + 1] \notin S
    <3>1. f[n + 1] = f[n]
      BY <2>0, <2>4 DEF NextKept
    <3>2. ComesFrom(f[n + 1], place, s, S, n + 1)
      BY <2>1, <2>4, <3>1 DEF ComesFrom
    <3>3. QED
      BY <2>2, <3>1, <3>2
  <2>5. QED
    BY <2>3, <2>4
<1>4. Len(s) \in T
  <2> HIDE DEF T
  <2>1. \A k \in 0..Len(s) : k \in T
    BY <1>2, <1>3, UpTo
  <2>2. QED
    BY <2>1
<1>5. QED
  BY <1>1, <1>4

LEMMA KeptElements ==
    ASSUME NEW X, NEW s \in Seq(X), NEW S
    PROVE  /\ Kept(s, S) \in Seq(X \cap S)
           /\ Elements(Kept(s, S)) = Elements(s) \cap S
           /\ (\A i, j \in DOMAIN s : s[i] = s[j] => i = j) =>
                 \A i, j \in DOMAIN Kept(s, S) : Kept(s, S)[i] = Kept(s, S)[j] => i = j
<1> DEFINE k == Kept(s, S)
<1>1. PICK place : ComesFrom(k, place, s, S, Len(s))
  BY KeptComesFrom
<1>2. k \in Seq(X)
  BY KeptComesFrom
<1> HIDE DEF k
<1>3. k \in Seq(X \cap S)
  <2>1. \A i \in 1..Len(k) : k[i] \in X \cap S
    BY <1>1, <1>2 DEF ComesFrom
  <2>2. QED
    BY <1>2, <2>1
<1>4. Elements(k) = Elements(s) \cap S
  <2>1. \A i \in DOMAIN k : place[i] \in DOMAIN s /\ k[i] = s[place[i]] /\ k[i] \in S
    BY <1>1 DEF ComesFrom
  <2>2. \A p \in DOMAIN s : s[p] \in S => \E i \in DOMAIN k : k[i] = s[p]
    BY <1>1 DEF ComesFrom
  <2>3. QED
    BY <2>1, <2>2 DEF Elements
<1>5. ASSUME \A i, j \in DOMAIN s : s[i] = s[j] => i = j, NEW i \in DOMAIN k, NEW j \in DOMAIN k, k[i] = k[j]
      PROVE  i = j
  <2>1. place[i] = place[j]
    BY <1>1, <1>5 DEF ComesFrom
  <2>2. i \in Int /\ j \in Int /\ place[i] \in Int /\ place[j] \in Int
    BY <1>1, <1>2 DEF ComesFrom
  <2>3. QED
    BY <1>1, <2>1, <2>2 DEF ComesFrom
<1>6. QED
  BY <1>3, <1>4, <1>5 DEF k

-----------------------------------------------------------------------------
(* The moments of the search *)

TaskLists(S) == Seq([id : S, needs : SUBSET S])

Needed(ts) == UNION {ts[i].needs : i \in DOMAIN ts}

Moments(ts) ==
    [calls : Seq(DOMAIN ts), looked : SUBSET ((DOMAIN ts) \X Needed(ts)),
     sorted : Seq(DOMAIN ts), turns : 0..Len(ts)]

LEMMA TaskFacts ==
    ASSUME NEW S, NEW ts, ts \in TaskLists(S)
    PROVE  /\ Len(ts) \in Nat /\ DOMAIN ts = 1..Len(ts)
           /\ \A i \in DOMAIN ts : ts[i].id \in S /\ ts[i].needs \subseteq S /\ ts[i].needs \subseteq Needed(ts)
           /\ Named(ts) \subseteq S /\ Needed(ts) \subseteq S
<1> DEFINE R == [id : S, needs : SUBSET S]
<1>0. ts \in Seq(R)
  BY DEF TaskLists
<1>2. Len(ts) \in Nat /\ DOMAIN ts = 1..Len(ts)
  BY <1>0
<1>1. \A i \in DOMAIN ts : ts[i] \in R
  <2> HIDE DEF R
  <2>1. QED
    BY <1>0
<1>3. \A i \in DOMAIN ts : ts[i].id \in S /\ ts[i].needs \subseteq S /\ ts[i].needs \subseteq Needed(ts)
  BY <1>1 DEF Needed
<1>4. QED
  BY <1>2, <1>3 DEF Needed, Named

LEMMA LastOfIs ==
    ASSUME NEW S, NEW ts, ts \in TaskLists(S), NEW d \in Named(ts)
    PROVE  LastOf(ts, d) \in DOMAIN ts /\ ts[LastOf(ts, d)].id = d
<1> DEFINE T == {i \in DOMAIN ts : ts[i].id = d}
<1>1. T \in SUBSET (0..Len(ts)) /\ T # {} /\ Len(ts) \in Nat
  BY TaskFacts DEF Named
<1>2. PICK m \in T : \A k \in T : k <= m
  BY <1>1, GreatestOf
<1>3. m \in DOMAIN ts /\ ts[m].id = d /\ \A j \in DOMAIN ts : ts[j].id = d => j <= m
  BY <1>2
<1>4. QED
  BY <1>3 DEF LastOf

(* What a call of visit does to the stack.                                  *)
Entered(ts, w, v, i) ==
    \/ ts[i].id \in Visited(ts, w) /\ v.calls = w.calls
    \/ ts[i].id \notin Visited(ts, w) /\ v.calls = Append(w.calls, i)

TurnBegun(ts, w, v) ==
    /\ w.calls = <<>> /\ w.turns < Len(ts)
    /\ v.turns = w.turns + 1 /\ v.looked = w.looked /\ v.sorted = w.sorted
    /\ Entered(ts, w, v, w.turns + 1)

CallEnded(ts, w, v, i) ==
    /\ \A d \in ts[i].needs : <<i, d>> \in w.looked
    /\ v.calls = SubSeq(w.calls, 1, Len(w.calls) - 1)
    /\ v.sorted = Append(w.sorted, i)
    /\ v.turns = w.turns /\ v.looked = w.looked

NeedLooked(ts, w, v, i, d) ==
    /\ d \in ts[i].needs /\ <<i, d>> \notin w.looked
    /\ v.looked = w.looked \cup {<<i, d>>}
    /\ v.turns = w.turns /\ v.sorted = w.sorted
    /\ \/ d \notin Named(ts) /\ v.calls = w.calls
       \/ d \in Named(ts) /\ Entered(ts, w, v, LastOf(ts, d))

Over(ts, w) == w.calls = <<>> /\ w.turns = Len(ts)

LEMMA VisitIs ==
    ASSUME NEW S, NEW ts, ts \in TaskLists(S), NEW w \in Moments(ts), NEW i \in DOMAIN ts
    PROVE  /\ Visit(ts, w, i) \in Moments(ts)
           /\ Visit(ts, w, i).looked = w.looked
           /\ Visit(ts, w, i).sorted = w.sorted
           /\ Visit(ts, w, i).turns = w.turns
           /\ Entered(ts, w, Visit(ts, w, i), i)
<1>1. w.calls \in Seq(DOMAIN ts)
  BY DEF Moments
<1>2. Append(w.calls, i) \in Seq(DOMAIN ts)
  BY <1>1
<1>3. CASE ts[i].id \in Visited(ts, w)
  <2>1. Visit(ts, w, i) = w
    BY <1>3 DEF Visit
  <2>2. QED
    BY <1>3, <2>1 DEF Entered
<1>4. CASE ts[i].id \notin Visited(ts, w)
  <2>1. PICK v : v = [w EXCEPT !.calls = Append(w.calls, i)]
    OBVIOUS
  <2>2. /\ v \in Moments(ts) /\ v.looked = w.looked /\ v.sorted = w.sorted /\ v.turns = w.turns
        /\ v.calls = Append(w.calls, i)
    BY <1>2, <2>1 DEF Moments
  <2>3. Visit(ts, w, i) = v
    BY <1>4, <2>1 DEF Visit
  <2>4. QED
    BY <1>4, <2>2, <2>3 DEF Entered
<1>5. QED
  BY <1>3, <1>4

(* A moment of the search, and the next one.                                *)
LEMMA NextMomentIs ==
    ASSUME NEW S, NEW ts, ts \in TaskLists(S), NEW w \in Moments(ts), NEW v, v = NextMoment(ts, w)
    PROVE  /\ v \in Moments(ts)
           /\ \/ Over(ts, w) /\ v = w
              \/ TurnBegun(ts, w, v)
              \/ /\ w.calls # <<>>
                 /\ \/ CallEnded(ts, w, v, w.calls[Len(w.calls)])
                    \/ \E d : NeedLooked(ts, w, v, w.calls[Len(w.calls)], d)
<1>0. /\ w.calls \in Seq(DOMAIN ts) /\ w.sorted \in Seq(DOMAIN ts) /\ w.turns \in 0..Len(ts)
      /\ w.looked \in SUBSET ((DOMAIN ts) \X Needed(ts))
  BY DEF Moments
<1>1. CASE w.calls = <<>> /\ w.turns = Len(ts)
  BY <1>1 DEF NextMoment, Over
<1>2. CASE w.calls = <<>> /\ w.turns # Len(ts)
  <2> DEFINE u == [w EXCEPT !.turns = @ + 1]
  <2>1. w.turns + 1 \in DOMAIN ts /\ w.turns + 1 \in 0..Len(ts) /\ w.turns < Len(ts)
    BY <1>0, <1>2, TaskFacts
  <2>2. /\ u \in Moments(ts) /\ u.turns = w.turns + 1 /\ u.looked = w.looked
        /\ u.sorted = w.sorted /\ u.calls = w.calls
    BY <2>1 DEF Moments
  <2>3. v = Visit(ts, u, w.turns + 1)
    BY <1>2 DEF NextMoment, Turn
  <2>4. Visited(ts, u) = Visited(ts, w)
    BY <2>2 DEF Visited
  <2> HIDE DEF u
  <2>5. /\ v \in Moments(ts) /\ v.looked = u.looked /\ v.sorted = u.sorted /\ v.turns = u.turns
        /\ Entered(ts, u, v, w.turns + 1)
    BY <2>1, <2>2, <2>3, VisitIs
  <2>6. Entered(ts, w, v, w.turns + 1)
    BY <2>2, <2>4, <2>5 DEF Entered
  <2>7. QED
    BY <1>2, <2>1, <2>2, <2>5, <2>6 DEF TurnBegun
<1>3. CASE w.calls # <<>>
  <2> DEFINE i == w.calls[Len(w.calls)]
  <2>1. i \in DOMAIN ts /\ Len(w.calls) \in Nat /\ Len(w.calls) >= 1
    BY <1>0, <1>3
  <2>2. CASE ToLookAt(ts, w, i) = {}
    <3>1. v = Leave(w, i)
      BY <1>3, <2>2 DEF NextMoment
    <3>2. /\ SubSeq(w.calls, 1, Len(w.calls) - 1) \in Seq(DOMAIN ts)
          /\ Append(w.sorted, i) \in Seq(DOMAIN ts)
      BY <1>0, <2>1
    <3>3. v \in Moments(ts)
      BY <3>1, <3>2 DEF Leave, Moments
    <3>4. CallEnded(ts, w, v, i)
      <4>1. \A d \in ts[i].needs : <<i, d>> \in w.looked
        BY <2>2 DEF ToLookAt
      <4> HIDE DEF i
      <4>2. /\ v.calls = SubSeq(w.calls, 1, Len(w.calls) - 1) /\ v.sorted = Append(w.sorted, i)
            /\ v.turns = w.turns /\ v.looked = w.looked
        BY <3>1 DEF Leave, Moments
      <4>3. QED
        BY <4>1, <4>2 DEF CallEnded
    <3>5. QED
      BY <1>3, <3>3, <3>4
  <2>3. CASE ToLookAt(ts, w, i) # {}
    <3> DEFINE d == CHOOSE d \in ToLookAt(ts, w, i) : TRUE
               u == [w EXCEPT !.looked = @ \cup {<<i, d>>}]
    <3>1. d \in ToLookAt(ts, w, i)
      BY <2>3
    <3>2. v = IF d \in Named(ts) THEN Visit(ts, u, LastOf(ts, d)) ELSE u
      <4>1. v = LookAt(ts, w, i)
        BY <1>3, <2>3 DEF NextMoment
      <4>2. QED
        BY <4>1, Zenon DEF LookAt
    <3> HIDE DEF d
    <3>3. d \in ts[i].needs /\ <<i, d>> \notin w.looked /\ d \in Needed(ts)
      BY <2>1, <3>1, TaskFacts DEF ToLookAt
    <3> HIDE DEF i
    <3>4. /\ u \in Moments(ts) /\ u.turns = w.turns /\ u.looked = w.looked \cup {<<i, d>>}
          /\ u.sorted = w.sorted /\ u.calls = w.calls
      BY <1>0, <2>1, <3>3 DEF Moments
    <3> HIDE DEF u
    <3>5. Visited(ts, u) = Visited(ts, w)
      BY <3>4 DEF Visited
    <3>6. CASE d \in Named(ts)
      <4>1. LastOf(ts, d) \in DOMAIN ts
        BY <3>6, LastOfIs
      <4>2. /\ v \in Moments(ts) /\ v.looked = u.looked /\ v.sorted = u.sorted /\ v.turns = u.turns
            /\ Entered(ts, u, v, LastOf(ts, d))
        BY <3>2, <3>4, <3>6, <4>1, VisitIs
      <4>3. Entered(ts, w, v, LastOf(ts, d))
        BY <3>4, <3>5, <4>2 DEF Entered
      <4>4. NeedLooked(ts, w, v, i, d)
        BY <3>3, <3>4, <3>6, <4>2, <4>3 DEF NeedLooked
      <4>5. QED
        BY <1>3, <4>2, <4>4 DEF i
    <3>7. CASE d \notin Named(ts)
      <4>1. v = u
        BY <3>2, <3>7
      <4>2. NeedLooked(ts, w, v, i, d)
        BY <3>3, <3>4, <3>7, <4>1 DEF NeedLooked
      <4>3. QED
        BY <1>3, <3>4, <4>1, <4>2 DEF i
    <3>8. QED
      BY <3>6, <3>7
  <2>4. QED
    BY <2>2, <2>3
<1>4. QED
  BY <1>1, <1>2, <1>3

-----------------------------------------------------------------------------
(* Every task is visited once *)

Distinct(ts, w) ==
    /\ \A i, j \in DOMAIN w.calls : ts[w.calls[i]].id = ts[w.calls[j]].id => i = j
    /\ \A i, j \in DOMAIN w.sorted : ts[w.sorted[i]].id = ts[w.sorted[j]].id => i = j
    /\ \A i \in DOMAIN w.calls, j \in DOMAIN w.sorted : ts[w.calls[i]].id # ts[w.sorted[j]].id

SearchInv(ts, w) ==
    /\ w \in Moments(ts)
    /\ Distinct(ts, w)
    /\ \A i \in 1..w.turns : ts[i].id \in Visited(ts, w)
    /\ \A i \in DOMAIN ts, d \in Named(ts) : <<i, d>> \in w.looked => d \in Visited(ts, w)
    /\ \A i \in Elements(w.sorted), d \in Named(ts) : d \in ts[i].needs => <<i, d>> \in w.looked

LEMMA VisitedIs ==
    ASSUME NEW ts, NEW w, NEW x
    PROVE  x \in Visited(ts, w) <=> \/ \E k \in DOMAIN w.calls : ts[w.calls[k]].id = x
                                    \/ \E k \in DOMAIN w.sorted : ts[w.sorted[k]].id = x
BY DEF Visited, Elements

LEMMA EnteredKeeps ==
    ASSUME NEW ts, NEW w \in Moments(ts), NEW v \in Moments(ts), NEW i \in DOMAIN ts,
           Entered(ts, w, v, i), v.sorted = w.sorted, Distinct(ts, w)
    PROVE  /\ Distinct(ts, v)
           /\ ts[i].id \in Visited(ts, v)
           /\ Visited(ts, w) \subseteq Visited(ts, v)
<1>0. w.calls \in Seq(DOMAIN ts) /\ v.calls \in Seq(DOMAIN ts)
  BY DEF Moments
<1>1. CASE ts[i].id \in Visited(ts, w) /\ v.calls = w.calls
  BY <1>1 DEF Distinct, Visited
<1>2. CASE ts[i].id \notin Visited(ts, w) /\ v.calls = Append(w.calls, i)
  <2> DEFINE n == Len(w.calls) + 1
  <2>1. /\ DOMAIN v.calls = 1..n /\ v.calls[n] = i /\ DOMAIN w.calls = 1..(n - 1) /\ n \in Nat /\ n >= 1
        /\ \A k \in 1..(n - 1) : v.calls[k] = w.calls[k]
    BY <1>0, <1>2
  <2> HIDE DEF n
  <2>2. ts[i].id \in Visited(ts, v)
    BY <2>1, VisitedIs
  <2>3. Visited(ts, w) \subseteq Visited(ts, v)
    <3> SUFFICES ASSUME NEW x \in Visited(ts, w) PROVE x \in Visited(ts, v)
      OBVIOUS
    <3>1. CASE \E k \in DOMAIN w.calls : ts[w.calls[k]].id = x
      <4>1. \E k \in DOMAIN v.calls : ts[v.calls[k]].id = x
        BY <2>1, <3>1
      <4>2. QED
        BY <4>1, VisitedIs
    <3>2. CASE \E k \in DOMAIN w.sorted : ts[w.sorted[k]].id = x
      BY <3>2, VisitedIs
    <3>3. QED
      BY <3>1, <3>2, VisitedIs
  <2>4. /\ \A k \in DOMAIN w.calls : ts[w.calls[k]].id # ts[i].id
        /\ \A k \in DOMAIN w.sorted : ts[w.sorted[k]].id # ts[i].id
    BY <1>2, VisitedIs
  <2>5. ASSUME NEW k \in 1..n, NEW m \in 1..n, ts[v.calls[k]].id = ts[v.calls[m]].id PROVE k = m
    <3>1. CASE k = n \/ m = n
      BY <2>1, <2>4, <2>5, <3>1
    <3>2. CASE k # n /\ m # n
      <4>1. k \in 1..(n - 1) /\ m \in 1..(n - 1)
        BY <2>1, <3>2
      <4>2. QED
        BY <2>1, <2>5, <4>1 DEF Distinct
    <3>3. QED
      BY <3>1, <3>2
  <2>6. ASSUME NEW k \in 1..n, NEW m \in DOMAIN v.sorted PROVE ts[v.calls[k]].id # ts[v.sorted[m]].id
    <3>0. m \in DOMAIN w.sorted /\ v.sorted[m] = w.sorted[m]
      OBVIOUS
    <3>1. CASE k = n
      BY <2>1, <2>4, <3>0, <3>1
    <3>2. CASE k # n
      <4>1. k \in 1..(n - 1) /\ k \in DOMAIN w.calls /\ v.calls[k] = w.calls[k]
        BY <2>1, <3>2
      <4>2. QED
        BY <3>0, <4>1 DEF Distinct
    <3>3. QED
      BY <3>1, <3>2
  <2>7. Distinct(ts, v)
    BY <2>1, <2>5, <2>6 DEF Distinct
  <2>8. QED
    BY <2>2, <2>3, <2>7
<1>3. QED
  BY <1>1, <1>2 DEF Entered

(* The end of a call moves its task from the stack to the list.             *)
LEMMA CallEndedKeeps ==
    ASSUME NEW ts, NEW w \in Moments(ts), NEW v \in Moments(ts), w.calls # <<>>, Distinct(ts, w),
           CallEnded(ts, w, v, w.calls[Len(w.calls)])
    PROVE  /\ Distinct(ts, v)
           /\ Visited(ts, v) = Visited(ts, w)
<1> DEFINE n == Len(w.calls)
           i == w.calls[n]
           m == Len(w.sorted) + 1
<1>1. w.calls \in Seq(DOMAIN ts) /\ w.sorted \in Seq(DOMAIN ts)
  BY DEF Moments
<1>2. /\ n \in Nat /\ n >= 1 /\ DOMAIN w.calls = 1..n /\ DOMAIN v.calls = 1..(n - 1)
      /\ \A k \in 1..(n - 1) : v.calls[k] = w.calls[k]
  BY <1>1 DEF CallEnded
<1>3. /\ m \in Nat /\ m >= 1 /\ DOMAIN v.sorted = 1..m /\ DOMAIN w.sorted = 1..(m - 1)
      /\ v.sorted[m] = i
      /\ \A k \in 1..(m - 1) : v.sorted[k] = w.sorted[k]
  BY <1>1 DEF CallEnded
<1> HIDE DEF n, m
<1>4. ASSUME NEW x PROVE x \in Visited(ts, v) <=> x \in Visited(ts, w)
  <2>1. (\E k \in DOMAIN w.calls : ts[w.calls[k]].id = x)
          <=> (\E k \in DOMAIN v.calls : ts[v.calls[k]].id = x) \/ ts[i].id = x
    BY <1>2
  <2>2. (\E k \in DOMAIN v.sorted : ts[v.sorted[k]].id = x)
          <=> (\E k \in DOMAIN w.sorted : ts[w.sorted[k]].id = x) \/ ts[i].id = x
    BY <1>3
  <2>3. QED
    BY <2>1, <2>2, VisitedIs
<1>5. \A k \in 1..(n - 1) : ts[w.calls[k]].id # ts[i].id
  BY <1>2 DEF Distinct
<1>6. \A k \in 1..(m - 1) : ts[w.sorted[k]].id # ts[i].id
  BY <1>2, <1>3 DEF Distinct
<1>7. \A k, l \in 1..(n - 1) : ts[v.calls[k]].id = ts[v.calls[l]].id => k = l
  BY <1>2 DEF Distinct
<1>8. ASSUME NEW k \in 1..m, NEW l \in 1..m, ts[v.sorted[k]].id = ts[v.sorted[l]].id PROVE k = l
  <2>1. CASE k = m \/ l = m
    BY <1>3, <1>6, <1>8, <2>1
  <2>2. CASE k # m /\ l # m
    <3>1. k \in 1..(m - 1) /\ l \in 1..(m - 1)
      BY <1>3, <2>2
    <3>2. QED
      BY <1>3, <1>8, <3>1 DEF Distinct
  <2>3. QED
    BY <2>1, <2>2
<1>9. ASSUME NEW k \in 1..(n - 1), NEW l \in 1..m PROVE ts[v.calls[k]].id # ts[v.sorted[l]].id
  <2>1. CASE l = m
    BY <1>2, <1>3, <1>5, <2>1
  <2>2. CASE l # m
    <3>1. l \in 1..(m - 1) /\ k \in 1..n
      BY <1>2, <1>3, <2>2
    <3>2. /\ k \in DOMAIN w.calls /\ l \in DOMAIN w.sorted
          /\ v.calls[k] = w.calls[k] /\ v.sorted[l] = w.sorted[l]
      BY <1>2, <1>3, <3>1
    <3>3. QED
      BY <3>2 DEF Distinct
  <2>3. QED
    BY <2>1, <2>2
<1>10. Distinct(ts, v)
  BY <1>2, <1>3, <1>7, <1>8, <1>9 DEF Distinct
<1>11. QED
  BY <1>4, <1>10

LEMMA ElementsOfAppend ==
    ASSUME NEW T, NEW s \in Seq(T), NEW e
    PROVE  Elements(Append(s, e)) = Elements(s) \cup {e}
<1> DEFINE n == Len(s) + 1
           t == Append(s, e)
<1>1. /\ n \in Nat /\ n >= 1 /\ DOMAIN s = 1..(n - 1) /\ DOMAIN t = 1..n /\ t[n] = e
      /\ \A k \in 1..(n - 1) : t[k] = s[k]
  OBVIOUS
<1> HIDE DEF n, t
<1>2. \A k \in 1..n : k = n \/ k \in 1..(n - 1)
  BY <1>1
<1>3. n \in 1..n /\ \A k \in 1..(n - 1) : k \in 1..n
  BY <1>1
<1>4. Elements(t) = Elements(s) \cup {e}
  BY <1>1, <1>2, <1>3 DEF Elements
<1>5. QED
  BY <1>4 DEF t

LEMMA StartIs ==
    ASSUME NEW S, NEW ts, ts \in TaskLists(S)
    PROVE  SearchInv(ts, Start)
<1>1. Len(ts) \in Nat
  BY TaskFacts
<1>2. /\ Start.calls = <<>> /\ Start.looked = {} /\ Start.sorted = <<>> /\ Start.turns = 0
      /\ Start \in Moments(ts)
  BY <1>1 DEF Start, Moments
<1>3. Elements(Start.sorted) = {}
  BY <1>2 DEF Elements
<1>4. QED
  BY <1>2, <1>3 DEF SearchInv, Distinct

LEMMA SearchGoesOn ==
    ASSUME NEW S, NEW ts, ts \in TaskLists(S), NEW w, SearchInv(ts, w), NEW v, v = NextMoment(ts, w)
    PROVE  SearchInv(ts, v)
<1> USE DEF SearchInv
<1>0. /\ w \in Moments(ts) /\ v \in Moments(ts) /\ Len(ts) \in Nat /\ DOMAIN ts = 1..Len(ts)
      /\ w.turns \in 0..Len(ts) /\ w.calls \in Seq(DOMAIN ts) /\ w.sorted \in Seq(DOMAIN ts)
  BY NextMomentIs, TaskFacts DEF Moments
<1>1. CASE Over(ts, w) /\ v = w
  BY <1>1
<1>2. CASE TurnBegun(ts, w, v)
  <2>1. w.turns + 1 \in DOMAIN ts /\ v.turns = w.turns + 1 /\ v.looked = w.looked /\ v.sorted = w.sorted
    BY <1>0, <1>2 DEF TurnBegun
  <2>2. /\ Distinct(ts, v) /\ ts[w.turns + 1].id \in Visited(ts, v)
        /\ Visited(ts, w) \subseteq Visited(ts, v)
    BY <1>0, <1>2, <2>1, EnteredKeeps DEF TurnBegun
  <2>3. \A i \in 1..v.turns : ts[i].id \in Visited(ts, v)
    BY <1>0, <2>1, <2>2
  <2>4. QED
    BY <1>0, <2>1, <2>2, <2>3
<1>3. ASSUME w.calls # <<>>, CallEnded(ts, w, v, w.calls[Len(w.calls)]) PROVE SearchInv(ts, v)
  <2>1. Distinct(ts, v) /\ Visited(ts, v) = Visited(ts, w)
    BY <1>0, <1>3, CallEndedKeeps
  <2>2. Elements(v.sorted) = Elements(w.sorted) \cup {w.calls[Len(w.calls)]}
    <3> DEFINE i == w.calls[Len(w.calls)]
    <3> HIDE DEF i
    <3>1. v.sorted = Append(w.sorted, i)
      BY <1>3 DEF CallEnded, i
    <3>2. QED
      BY <1>0, <3>1, ElementsOfAppend DEF i
  <2>3. QED
    BY <1>0, <1>3, <2>1, <2>2 DEF CallEnded
<1>4. ASSUME w.calls # <<>>, NEW d, NeedLooked(ts, w, v, w.calls[Len(w.calls)], d) PROVE SearchInv(ts, v)
  <2> DEFINE i == w.calls[Len(w.calls)]
  <2>1. /\ v.looked = w.looked \cup {<<i, d>>} /\ v.turns = w.turns /\ v.sorted = w.sorted
    BY <1>4 DEF NeedLooked
  <2>2. CASE d \notin Named(ts) /\ v.calls = w.calls
    <3>1. Visited(ts, v) = Visited(ts, w) /\ Distinct(ts, v)
      BY <2>1, <2>2 DEF Visited, Distinct
    <3>2. QED
      BY <1>0, <2>1, <2>2, <3>1
  <2>3. CASE d \in Named(ts) /\ Entered(ts, w, v, LastOf(ts, d))
    <3>0. PICK l : l = LastOf(ts, d)
      OBVIOUS
    <3>1. l \in DOMAIN ts /\ ts[l].id = d /\ Entered(ts, w, v, l)
      BY <2>3, <3>0, LastOfIs
    <3>2. Distinct(ts, v) /\ d \in Visited(ts, v) /\ Visited(ts, w) \subseteq Visited(ts, v)
      <4>1. Distinct(ts, w) /\ w \in Moments(ts) /\ v \in Moments(ts) /\ v.sorted = w.sorted
        BY <1>0, <2>1
      <4>2. QED
        BY <3>1, <4>1, EnteredKeeps
    <3>3. \A j \in 1..v.turns : ts[j].id \in Visited(ts, v)
      BY <2>1, <3>2
    <3>4. \A j \in DOMAIN ts, e \in Named(ts) : <<j, e>> \in v.looked => e \in Visited(ts, v)
      <4> SUFFICES ASSUME NEW j \in DOMAIN ts, NEW e \in Named(ts), <<j, e>> \in v.looked
                   PROVE  e \in Visited(ts, v)
        OBVIOUS
      <4>1. <<j, e>> \in w.looked \/ e = d
        BY <2>1
      <4>2. QED
        BY <3>2, <4>1
    <3>5. \A j \in Elements(v.sorted), e \in Named(ts) : e \in ts[j].needs => <<j, e>> \in v.looked
      BY <2>1
    <3>6. QED
      BY <1>0, <3>2, <3>3, <3>4, <3>5
  <2>4. QED
    BY <1>4, <2>2, <2>3 DEF NeedLooked
<1>5. QED
  BY <1>0, <1>1, <1>2, <1>3, <1>4, NextMomentIs

-----------------------------------------------------------------------------
(* The search ends *)

IsSearch(ts, f, k) ==
    /\ f \in [0..k -> Moments(ts)]
    /\ f[0] = Start
    /\ \A i \in 1..k : f[i] = NextMoment(ts, f[i - 1])

LEMMA MomentsExist ==
    ASSUME NEW S, NEW ts, ts \in TaskLists(S), NEW n \in Nat
    PROVE  \E f : IsSearch(ts, f, n)
<1> DEFINE T == {k \in 0..n : \E f : IsSearch(ts, f, k)}
<1>1. 0 \in T
  <2> DEFINE f == [i \in 0..0 |-> Start]
  <2>1. Start \in Moments(ts)
    BY StartIs DEF SearchInv
  <2>2. IsSearch(ts, f, 0)
    BY <2>1 DEF IsSearch
  <2>3. QED
    BY <2>2
<1>2. ASSUME NEW k \in 0..(n - 1), k \in T PROVE k + 1 \in T
  <2>1. PICK f : IsSearch(ts, f, k)
    BY <1>2
  <2> DEFINE g == [i \in 0..(k + 1) |-> IF i = k + 1 THEN NextMoment(ts, f[k]) ELSE f[i]]
  <2>2. f[k] \in Moments(ts)
    BY <2>1 DEF IsSearch
  <2>3. NextMoment(ts, f[k]) \in Moments(ts)
    BY <2>2, NextMomentIs
  <2>4. g \in [0..(k + 1) -> Moments(ts)] /\ g[0] = Start
    BY <2>1, <2>3 DEF IsSearch
  <2>5. ASSUME NEW i \in 1..(k + 1) PROVE g[i] = NextMoment(ts, g[i - 1])
    <3>1. k \in Nat /\ i \in 0..(k + 1) /\ i - 1 \in 0..k /\ i - 1 \in 0..(k + 1) /\ i - 1 # k + 1
      OBVIOUS
    <3>2. g[i - 1] = f[i - 1]
      BY <3>1
    <3>3. CASE i = k + 1
      BY <3>1, <3>2, <3>3
    <3>4. CASE i # k + 1
      <4>1. i \in 1..k /\ g[i] = f[i]
        BY <3>1, <3>4
      <4>2. QED
        BY <2>1, <3>2, <4>1 DEF IsSearch
    <3>5. QED
      BY <3>3, <3>4
  <2>6. IsSearch(ts, g, k + 1)
    BY <2>4, <2>5 DEF IsSearch
  <2>7. QED
    BY <2>6
<1>3. n \in T
  <2> HIDE DEF T
  <2>1. \A k \in 0..n : k \in T
    BY <1>1, <1>2, UpTo
  <2>2. QED
    BY <2>1
<1>4. QED
  BY <1>3

LEMMA LastMomentIs ==
    ASSUME NEW S, NEW ts, ts \in TaskLists(S), Enough(ts) \in Nat
    PROVE  \E f : /\ f[0] = Start /\ LastMoment(ts) = f[Enough(ts)]
                  /\ \A i \in 1..Enough(ts) : f[i] = NextMoment(ts, f[i - 1])
<1> DEFINE N == Enough(ts)
           F(g) == [n \in 0..N |-> IF n = 0 THEN {Start} ELSE {NextMoment(ts, w) : w \in g[n - 1]}]
           moments == CHOOSE g : g = F(g)
<1>0. LastMoment(ts) = CHOOSE w \in moments[N] : TRUE
  BY DEF LastMoment
<1>a. N \in Nat
  OBVIOUS
<1> HIDE DEF N
<1>1. PICK f : IsSearch(ts, f, N)
  BY <1>a, MomentsExist
<1>b. f[0] = Start /\ \A i \in 1..N : f[i] = NextMoment(ts, f[i - 1])
  BY <1>1 DEF IsSearch
<1> DEFINE h == [n \in 0..N |-> {f[n]}]
<1>2. h = F(h)
  <2>1. ASSUME NEW n \in 0..N
        PROVE  {f[n]} = IF n = 0 THEN {Start} ELSE {NextMoment(ts, w) : w \in h[n - 1]}
    <3>1. CASE n = 0
      BY <1>b, <3>1
    <3>2. CASE n # 0
      <4>1. n \in 1..N /\ n - 1 \in 0..N
        BY <1>a, <3>2
      <4>2. h[n - 1] = {f[n - 1]} /\ f[n] = NextMoment(ts, f[n - 1])
        BY <1>b, <4>1
      <4> HIDE DEF h
      <4>3. QED
        BY <3>2, <4>2
    <3>3. QED
      BY <3>1, <3>2
  <2>2. QED
    BY <2>1
<1>3. moments = F(moments)
  <2>1. \E g : g = F(g)
    BY <1>2
  <2>2. QED
    BY <2>1, Zenon DEF moments
<1> HIDE DEF moments
<1> DEFINE T == {n \in 0..N : moments[n] = {f[n]}}
<1>4. 0 \in T
  BY <1>a, <1>b, <1>3
<1>5. ASSUME NEW n \in 0..(N - 1), n \in T PROVE n + 1 \in T
  <2>1. n + 1 \in 0..N /\ n + 1 \in 1..N /\ n + 1 # 0 /\ (n + 1) - 1 = n
    BY <1>a
  <2>2. moments[n + 1] = {NextMoment(ts, w) : w \in moments[(n + 1) - 1]}
    BY <1>3, <2>1, Zenon
  <2>3. f[n + 1] = NextMoment(ts, f[n]) /\ moments[n] = {f[n]}
    BY <1>b, <1>5, <2>1
  <2>4. moments[n + 1] = {f[n + 1]}
    BY <2>1, <2>2, <2>3
  <2>5. QED
    BY <2>1, <2>4
<1>6. moments[N] = {f[N]}
  <2> HIDE DEF T
  <2>1. \A n \in 0..N : n \in T
    BY <1>a, <1>4, <1>5, UpTo
  <2>2. N \in T
    BY <1>a, <2>1
  <2>3. QED
    BY <2>2 DEF T
<1>7. LastMoment(ts) = f[N]
  BY <1>0, <1>6
<1>8. QED
  BY <1>b, <1>7 DEF N

(* Each moment but the last ones begins a turn, looks at a need or ends a   *)
(* call.                                                                    *)
Progress(w) == w.turns + Cardinality(Elements(w.sorted)) + Cardinality(w.looked)

LEMMA SizesOf ==
    ASSUME NEW S, IsFiniteSet(S), NEW ts, ts \in TaskLists(S), NEW w \in Moments(ts)
    PROVE  /\ Elements(w.sorted) \subseteq DOMAIN ts
           /\ IsFiniteSet(Elements(w.sorted)) /\ Cardinality(Elements(w.sorted)) \in 0..Len(ts)
           /\ Cardinality(Elements(w.sorted)) = Len(ts) => Elements(w.sorted) = DOMAIN ts
           /\ Enough(ts) \in Nat
           /\ IsFiniteSet(w.looked) /\ Cardinality(w.looked) \in 0..(Enough(ts) - Len(ts) - Len(ts))
<1>1. /\ Len(ts) \in Nat /\ DOMAIN ts = 1..Len(ts) /\ Needed(ts) \subseteq S
      /\ w.sorted \in Seq(DOMAIN ts) /\ w.looked \subseteq (DOMAIN ts) \X Needed(ts)
  BY TaskFacts DEF Moments
<1>2. IsFiniteSet(DOMAIN ts) /\ Cardinality(DOMAIN ts) = Len(ts)
  <2>1. PICK n \in Nat : n = Len(ts)
    BY <1>1
  <2>2. IsFiniteSet(1..n) /\ Cardinality(1..n) = IF 1 > n THEN 0 ELSE n - 1 + 1
    <3>1. 1 \in Int /\ n \in Int
      OBVIOUS
    <3>2. QED
      BY <3>1, FS_Interval
  <2>3. QED
    BY <1>1, <2>1, <2>2
<1>3. Elements(w.sorted) \subseteq DOMAIN ts
  BY <1>1 DEF Elements
<1>4. /\ IsFiniteSet(Elements(w.sorted)) /\ Cardinality(Elements(w.sorted)) \in 0..Len(ts)
      /\ Cardinality(Elements(w.sorted)) = Len(ts) => Elements(w.sorted) = DOMAIN ts
  <2>1. /\ IsFiniteSet(Elements(w.sorted)) /\ Cardinality(Elements(w.sorted)) <= Cardinality(DOMAIN ts)
        /\ Cardinality(Elements(w.sorted)) = Cardinality(DOMAIN ts) => Elements(w.sorted) = DOMAIN ts
    BY <1>2, <1>3, FS_Subset
  <2>2. Cardinality(Elements(w.sorted)) \in Nat
    BY <2>1, FS_CardinalityType
  <2>3. QED
    BY <1>1, <1>2, <2>1, <2>2
<1>5. IsFiniteSet(Needed(ts)) /\ Cardinality(Needed(ts)) \in Nat
  BY <1>1, FS_Subset, FS_CardinalityType
<1>6. /\ IsFiniteSet((DOMAIN ts) \X Needed(ts))
      /\ Cardinality((DOMAIN ts) \X Needed(ts)) = Len(ts) * Cardinality(Needed(ts))
  BY <1>2, <1>5, FS_Product
<1>7. IsFiniteSet(w.looked) /\ Cardinality(w.looked) <= Len(ts) * Cardinality(Needed(ts))
  BY <1>1, <1>6, FS_Subset
<1>8. Cardinality(w.looked) \in Nat
  BY <1>7, FS_CardinalityType
<1> DEFINE P == Len(ts) * Cardinality(Needed(ts))
<1>9. P \in Nat
  BY <1>1, <1>5
<1>10. Enough(ts) = Len(ts) + Len(ts) + P
  BY DEF Enough, Needed
<1>11. Cardinality(w.looked) <= P
  BY <1>7
<1> HIDE DEF P
<1>12. Cardinality(w.looked) \in 0..(Enough(ts) - Len(ts) - Len(ts)) /\ Enough(ts) \in Nat
  BY <1>1, <1>8, <1>9, <1>10, <1>11
<1>13. QED
  BY <1>3, <1>4, <1>7, <1>12

LEMMA OneMore ==
    ASSUME NEW T, IsFiniteSet(T), NEW x, x \notin T, NEW U, U = T \cup {x}
    PROVE  Cardinality(T) \in Nat /\ Cardinality(U) = Cardinality(T) + 1
BY FS_AddElement, FS_CardinalityType

LEMMA ProgressIsMade ==
    ASSUME NEW S, IsFiniteSet(S), NEW ts, ts \in TaskLists(S), NEW w, SearchInv(ts, w),
           NEW v, v = NextMoment(ts, w)
    PROVE  (v = w /\ Over(ts, w)) \/ Progress(v) = Progress(w) + 1
<1>1. /\ w \in Moments(ts) /\ w.turns \in Int
      /\ w.calls \in Seq(DOMAIN ts) /\ w.sorted \in Seq(DOMAIN ts)
  BY DEF SearchInv, Moments
<1>2. /\ IsFiniteSet(Elements(w.sorted)) /\ IsFiniteSet(w.looked)
      /\ Cardinality(Elements(w.sorted)) \in Nat /\ Cardinality(w.looked) \in Nat
  BY <1>1, SizesOf, FS_CardinalityType
<1>3. CASE TurnBegun(ts, w, v)
  BY <1>1, <1>2, <1>3 DEF TurnBegun, Progress
<1>4. ASSUME w.calls # <<>>, CallEnded(ts, w, v, w.calls[Len(w.calls)])
      PROVE  Progress(v) = Progress(w) + 1
  <2> DEFINE i == w.calls[Len(w.calls)]
  <2>0. Len(w.calls) \in DOMAIN w.calls
    BY <1>1, <1>4
  <2> HIDE DEF i
  <2>1. v.sorted = Append(w.sorted, i) /\ v.turns = w.turns /\ v.looked = w.looked
    BY <1>4 DEF CallEnded, i
  <2>2. Elements(v.sorted) = Elements(w.sorted) \cup {i}
    BY <1>1, <2>1, ElementsOfAppend
  <2>3. i \notin Elements(w.sorted)
    BY <2>0 DEF SearchInv, Distinct, Elements, i
  <2>4. Cardinality(Elements(v.sorted)) = Cardinality(Elements(w.sorted)) + 1
    BY <1>2, <2>2, <2>3, OneMore
  <2>5. QED
    BY <1>1, <1>2, <2>1, <2>4 DEF Progress
<1>5. ASSUME NEW d, NeedLooked(ts, w, v, w.calls[Len(w.calls)], d)
      PROVE  Progress(v) = Progress(w) + 1
  <2>1. PICK x : x \notin w.looked /\ v.looked = w.looked \cup {x}
    BY <1>5 DEF NeedLooked
  <2>2. v.turns = w.turns /\ v.sorted = w.sorted
    BY <1>5 DEF NeedLooked
  <2>3. Cardinality(v.looked) = Cardinality(w.looked) + 1
    BY <1>2, <2>1, OneMore
  <2>4. QED
    BY <1>1, <1>2, <2>2, <2>3 DEF Progress
<1>6. QED
  BY <1>1, <1>3, <1>4, <1>5, NextMomentIs

(* The search is over after Enough moments: by then it could have made no   *)
(* more progress.                                                           *)
LEMMA SearchIsOver ==
    ASSUME NEW S, IsFiniteSet(S), NEW ts, ts \in TaskLists(S)
    PROVE  SearchInv(ts, LastMoment(ts)) /\ Over(ts, LastMoment(ts))
<1> DEFINE N == Enough(ts)
<1>1. N \in Nat
  BY StartIs, SizesOf DEF SearchInv
<1> HIDE DEF N
<1>2. PICK f : /\ f[0] = Start /\ LastMoment(ts) = f[N]
               /\ \A i \in 1..N : f[i] = NextMoment(ts, f[i - 1])
  BY <1>1, LastMomentIs DEF N
<1> DEFINE T == {k \in 0..N : SearchInv(ts, f[k]) /\ (Over(ts, f[k]) \/ Progress(f[k]) = k)}
<1>3. 0 \in T
  <2>1. Start.turns = 0 /\ Elements(Start.sorted) = {} /\ Start.looked = {}
    BY DEF Start, Elements
  <2>2. Progress(Start) = 0
    BY <2>1, FS_EmptySet DEF Progress
  <2>3. QED
    BY <1>1, <1>2, <2>2, StartIs
<1>4. ASSUME NEW k \in 0..(N - 1), k \in T PROVE k + 1 \in T
  <2>1. k + 1 \in 1..N /\ k + 1 \in 0..N /\ (k + 1) - 1 = k
    BY <1>1
  <2>2. f[k + 1] = NextMoment(ts, f[k])
    BY <1>2, <2>1
  <2>3. SearchInv(ts, f[k + 1])
    BY <1>4, <2>2, SearchGoesOn
  <2>4. (f[k + 1] = f[k] /\ Over(ts, f[k])) \/ Progress(f[k + 1]) = Progress(f[k]) + 1
    BY <1>4, <2>2, ProgressIsMade
  <2>5. Over(ts, f[k]) => f[k + 1] = f[k]
    BY <2>2 DEF Over, NextMoment
  <2>6. Over(ts, f[k + 1]) \/ Progress(f[k + 1]) = k + 1
    BY <1>4, <2>4, <2>5
  <2>7. QED
    BY <2>1, <2>3, <2>6
<1>5. N \in T
  <2> HIDE DEF T
  <2>1. \A k \in 0..N : k \in T
    BY <1>1, <1>3, <1>4, UpTo
  <2>2. QED
    BY <1>1, <2>1
<1>6. PICK w : w = f[N]
  OBVIOUS
<1>7. SearchInv(ts, w) /\ (Over(ts, w) \/ Progress(w) = N)
  BY <1>5, <1>6
<1>8. ASSUME Progress(w) = N PROVE Over(ts, w)
  <2>1. w \in Moments(ts) /\ w.calls \in Seq(DOMAIN ts) /\ w.turns \in 0..Len(ts) /\ Len(ts) \in Nat
    BY <1>7, TaskFacts DEF SearchInv, Moments
  <2>2. /\ Cardinality(Elements(w.sorted)) \in 0..Len(ts)
        /\ Cardinality(Elements(w.sorted)) = Len(ts) => Elements(w.sorted) = DOMAIN ts
        /\ Cardinality(w.looked) \in 0..(N - Len(ts) - Len(ts))
    BY <2>1, SizesOf DEF N
  <2>3. w.turns = Len(ts) /\ Cardinality(Elements(w.sorted)) = Len(ts)
    BY <1>1, <1>8, <2>1, <2>2 DEF Progress
  <2>4. Elements(w.sorted) = DOMAIN ts
    BY <2>2, <2>3
  <2>5. w.calls = <<>>
    <3> SUFFICES ASSUME w.calls # <<>> PROVE FALSE
      OBVIOUS
    <3>1. 1 \in DOMAIN w.calls /\ w.calls[1] \in DOMAIN ts
      BY <2>1
    <3>2. PICK k \in DOMAIN w.sorted : w.sorted[k] = w.calls[1]
      BY <2>4, <3>1 DEF Elements
    <3>3. QED
      BY <1>7, <3>1, <3>2 DEF SearchInv, Distinct
  <2>6. QED
    BY <2>3, <2>5 DEF Over
<1>9. QED
  BY <1>2, <1>6, <1>7, <1>8

-----------------------------------------------------------------------------
(* What a task reaches *)

Direct(ts, a) == ts[LastOf(ts, a)].needs \cap Named(ts)

LEMMA ReachesDirectly ==
    ASSUME NEW ts, NEW a, NEW b \in Direct(ts, a)
    PROVE  Reaches(ts, a, b)
BY DEF Reaches, Direct

LEMMA ReachesFurther ==
    ASSUME NEW ts, NEW a, NEW b, NEW c, Reaches(ts, a, b), Reaches(ts, b, c)
    PROVE  Reaches(ts, a, c)
<1>1. ASSUME NEW T \in SUBSET Named(ts), Direct(ts, a) \subseteq T, \A x \in T : Direct(ts, x) \subseteq T
      PROVE  c \in T
  <2>1. b \in T
    BY <1>1 DEF Reaches, Direct
  <2>2. Direct(ts, b) \subseteq T
    BY <1>1, <2>1
  <2>3. QED
    BY <1>1, <2>2 DEF Reaches, Direct
<1>2. QED
  BY <1>1 DEF Reaches, Direct

LEMMA ReachedIsNamed ==
    ASSUME NEW ts, NEW a, NEW b, Reaches(ts, a, b)
    PROVE  b \in Named(ts)
<1>1. Direct(ts, a) \subseteq Named(ts) /\ \A x \in Named(ts) : Direct(ts, x) \subseteq Named(ts)
  BY DEF Direct
<1>2. QED
  BY <1>1 DEF Reaches, Direct

(* A way is one step long, or goes on from the first step.                  *)
LEMMA FirstStep ==
    ASSUME NEW ts, NEW a, NEW b, Reaches(ts, a, b)
    PROVE  b \in Direct(ts, a) \/ \E d \in Direct(ts, a) : Reaches(ts, d, b)
<1> DEFINE T == {y \in Named(ts) : y \in Direct(ts, a) \/ \E d \in Direct(ts, a) : Reaches(ts, d, y)}
<1>1. Direct(ts, a) \subseteq T
  BY DEF Direct
<1>2. ASSUME NEW y \in T, NEW z \in Direct(ts, y) PROVE z \in T
  <2>1. Reaches(ts, y, z) /\ z \in Named(ts)
    BY ReachesDirectly DEF Direct
  <2>2. CASE y \in Direct(ts, a)
    BY <2>1, <2>2
  <2>3. ASSUME NEW d \in Direct(ts, a), Reaches(ts, d, y) PROVE z \in T
    BY <2>1, <2>3, ReachesFurther
  <2>4. QED
    BY <2>2, <2>3
<1>3. b \in T
  <2> HIDE DEF T
  <2>1. T \in SUBSET Named(ts)
    BY DEF T
  <2>2. \A y \in T : Direct(ts, y) \subseteq T
    BY <1>2
  <2>3. QED
    BY <1>1, <2>1, <2>2 DEF Reaches, Direct
<1>4. QED
  BY <1>3

-----------------------------------------------------------------------------
(* The order *)

Later(ts, w) == \A k, m \in DOMAIN w.calls :
    k < m => Reaches(ts, ts[w.calls[k]].id, ts[w.calls[m]].id)

(* All that a reaches is among the first n sorted.                          *)
IsBefore(ts, w, a, n) == \A b \in Named(ts) :
    Reaches(ts, a, b) => \E m \in DOMAIN w.sorted : m < n /\ ts[w.sorted[m]].id = b

Sorted(ts, w) == \A k \in DOMAIN w.sorted :
    ~Reaches(ts, ts[w.sorted[k]].id, ts[w.sorted[k]].id) => IsBefore(ts, w, ts[w.sorted[k]].id, k)

LEMMA DirectIs ==
    ASSUME NEW S, NEW ts, ts \in TaskLists(S), UniqueIds(ts), NEW i \in DOMAIN ts
    PROVE  Direct(ts, ts[i].id) = ts[i].needs \cap Named(ts)
<1>1. ts[i].id \in Named(ts)
  BY DEF Named
<1>2. PICK l : l = LastOf(ts, ts[i].id)
  OBVIOUS
<1>3. l \in DOMAIN ts /\ ts[l].id = ts[i].id
  BY <1>1, <1>2, LastOfIs
<1>4. l = i
  BY <1>3 DEF UniqueIds
<1>5. QED
  BY <1>2, <1>4 DEF Direct

(* A call that is entered is reached from all that are under way.           *)
LEMMA EnteredIsLater ==
    ASSUME NEW ts, NEW w \in Moments(ts), NEW v \in Moments(ts), NEW l \in DOMAIN ts,
           Entered(ts, w, v, l), Later(ts, w),
           w.calls # <<>> => Reaches(ts, ts[w.calls[Len(w.calls)]].id, ts[l].id)
    PROVE  Later(ts, v)
<1>0. w.calls \in Seq(DOMAIN ts)
  BY DEF Moments
<1>1. CASE v.calls = w.calls
  BY <1>1 DEF Later
<1>2. CASE v.calls = Append(w.calls, l)
  <2> DEFINE n == Len(w.calls)
  <2>1. /\ n \in Nat /\ DOMAIN w.calls = 1..n /\ DOMAIN v.calls = 1..(n + 1) /\ v.calls[n + 1] = l
        /\ \A k \in 1..n : v.calls[k] = w.calls[k]
        /\ n # 0 => w.calls # <<>>
    BY <1>0, <1>2
  <2>2. n # 0 => Reaches(ts, ts[w.calls[n]].id, ts[l].id)
    BY <2>1
  <2> HIDE DEF n
  <2>3. ASSUME NEW k \in 1..(n + 1), NEW m \in 1..(n + 1), k < m
        PROVE  Reaches(ts, ts[v.calls[k]].id, ts[v.calls[m]].id)
    <3>1. k \in 1..n /\ v.calls[k] = w.calls[k]
      BY <2>1, <2>3
    <3>2. CASE m = n + 1
      <4>1. v.calls[m] = l
        BY <2>1, <3>2
      <4>2. CASE k = n
        <5>1. n # 0
          BY <3>1, <4>2, <2>1
        <5>2. QED
          BY <2>2, <3>1, <4>1, <4>2, <5>1
      <4>3. CASE k # n
        <5>1. n # 0 /\ n \in 1..n /\ k < n
          BY <2>1, <3>1, <4>3
        <5>2. Reaches(ts, ts[w.calls[k]].id, ts[w.calls[n]].id)
          BY <2>1, <3>1, <5>1 DEF Later
        <5>3. Reaches(ts, ts[w.calls[k]].id, ts[l].id)
          BY <2>2, <5>1, <5>2, ReachesFurther
        <5>4. QED
          BY <3>1, <4>1, <5>3
      <4>4. QED
        BY <4>2, <4>3
    <3>3. CASE m # n + 1
      <4>1. m \in 1..n /\ v.calls[m] = w.calls[m]
        BY <2>1, <3>3
      <4>2. QED
        BY <2>1, <2>3, <3>1, <4>1 DEF Later
    <3>4. QED
      BY <3>2, <3>3
  <2>4. QED
    BY <2>1, <2>3 DEF Later
<1>3. QED
  BY <1>1, <1>2 DEF Entered

(* What a task reaches that is not on a cycle is sorted when its call ends: *)
(* each need of what is sorted was looked at and so is sorted or under way, *)
(* and what is under way reaches the task.                                  *)
LEMMA ReachedIsSorted ==
    ASSUME NEW S, NEW ts, ts \in TaskLists(S), UniqueIds(ts),
           NEW w, SearchInv(ts, w), Later(ts, w), w.calls # <<>>,
           NEW i, i = w.calls[Len(w.calls)],
           \A d \in ts[i].needs : <<i, d>> \in w.looked,
           ~Reaches(ts, ts[i].id, ts[i].id), NEW b, Reaches(ts, ts[i].id, b)
    PROVE  \E m \in DOMAIN w.sorted : ts[w.sorted[m]].id = b
<1> DEFINE a == ts[i].id
           n == Len(w.calls)
           T == {y \in Named(ts) : Reaches(ts, a, y) /\ \E m \in DOMAIN w.sorted : ts[w.sorted[m]].id = y}
<1>1. /\ n \in Nat /\ n \in DOMAIN w.calls /\ DOMAIN w.calls = 1..n /\ i \in DOMAIN ts
      /\ \A m \in DOMAIN w.sorted : w.sorted[m] \in DOMAIN ts /\ w.sorted[m] \in Elements(w.sorted)
  BY DEF SearchInv, Moments, Elements
<1> HIDE DEF n
<1>2. ASSUME NEW d \in Named(ts), Reaches(ts, a, d), d \in Visited(ts, w) PROVE d \in T
  <2>1. ASSUME NEW k \in DOMAIN w.calls, ts[w.calls[k]].id = d PROVE FALSE
    <3>1. CASE k = n
      BY <1>2, <2>1, <3>1 DEF n
    <3>2. CASE k # n
      <4>1. k < n
        BY <1>1, <3>2
      <4>2. Reaches(ts, ts[w.calls[k]].id, ts[w.calls[n]].id)
        BY <1>1, <4>1 DEF Later
      <4>3. Reaches(ts, d, a)
        BY <2>1, <4>2 DEF n
      <4>4. QED
        BY <1>2, <4>3, ReachesFurther
    <3>3. QED
      BY <3>1, <3>2
  <2>2. QED
    BY <1>2, <2>1, VisitedIs
<1>3. ASSUME NEW d \in Direct(ts, a) PROVE d \in T
  <2>1. d \in ts[i].needs /\ d \in Named(ts)
    BY <1>1, DirectIs
  <2>2. <<i, d>> \in w.looked
    BY <2>1
  <2>3. d \in Visited(ts, w)
    BY <1>1, <2>1, <2>2 DEF SearchInv
  <2>4. Reaches(ts, a, d)
    BY ReachesDirectly
  <2>5. QED
    BY <1>2, <2>1, <2>3, <2>4
<1>4. ASSUME NEW c \in T, NEW d \in Direct(ts, c) PROVE d \in T
  <2>1. PICK m \in DOMAIN w.sorted : ts[w.sorted[m]].id = c
    OBVIOUS
  <2>2. PICK j : j = w.sorted[m]
    OBVIOUS
  <2>3. j \in DOMAIN ts /\ j \in Elements(w.sorted) /\ ts[j].id = c
    BY <1>1, <2>1, <2>2
  <2>4. d \in ts[j].needs /\ d \in Named(ts)
    BY <2>3, DirectIs
  <2>5. d \in Visited(ts, w)
    BY <2>3, <2>4 DEF SearchInv
  <2>6. Reaches(ts, a, c) /\ Reaches(ts, c, d)
    BY ReachesDirectly
  <2>7. Reaches(ts, a, d)
    BY <2>6, ReachesFurther
  <2>8. QED
    BY <1>2, <2>4, <2>5, <2>7
<1>5. b \in T
  <2>1. T \in SUBSET Named(ts)
    OBVIOUS
  <2> HIDE DEF T
  <2>2. Direct(ts, a) \subseteq T /\ \A c \in T : Direct(ts, c) \subseteq T
    BY <1>3, <1>4
  <2>3. QED
    BY <2>1, <2>2 DEF Reaches, Direct
<1>6. QED
  BY <1>5

LEMMA SortGoesOn ==
    ASSUME NEW S, NEW ts, ts \in TaskLists(S), UniqueIds(ts),
           NEW w, SearchInv(ts, w), Later(ts, w), Sorted(ts, w), NEW v, v = NextMoment(ts, w)
    PROVE  Later(ts, v) /\ Sorted(ts, v)
<1>0. /\ w \in Moments(ts) /\ v \in Moments(ts) /\ Len(ts) \in Nat /\ DOMAIN ts = 1..Len(ts)
      /\ w.turns \in 0..Len(ts) /\ w.calls \in Seq(DOMAIN ts) /\ w.sorted \in Seq(DOMAIN ts)
  BY NextMomentIs, TaskFacts DEF Moments, SearchInv
<1>s. v.sorted = w.sorted => Sorted(ts, v)
  BY DEF Sorted, IsBefore
<1>1. CASE Over(ts, w) /\ v = w
  BY <1>1
<1>2. CASE TurnBegun(ts, w, v)
  <2>1. w.turns + 1 \in DOMAIN ts /\ v.sorted = w.sorted /\ w.calls = <<>>
        /\ Entered(ts, w, v, w.turns + 1)
    BY <1>0, <1>2 DEF TurnBegun
  <2>2. Later(ts, v)
    BY <1>0, <2>1, EnteredIsLater
  <2>3. QED
    BY <1>s, <2>1, <2>2
<1>3. ASSUME w.calls # <<>>, CallEnded(ts, w, v, w.calls[Len(w.calls)])
      PROVE  Later(ts, v) /\ Sorted(ts, v)
  <2> DEFINE i == w.calls[Len(w.calls)]
             n == Len(w.sorted) + 1
  <2>1. /\ Len(w.calls) \in Nat /\ i \in DOMAIN ts
        /\ \A k \in DOMAIN v.calls : k \in DOMAIN w.calls /\ v.calls[k] = w.calls[k]
    BY <1>0, <1>3 DEF CallEnded
  <2>2. Later(ts, v)
    BY <2>1 DEF Later
  <2>3. \A d \in ts[i].needs : <<i, d>> \in w.looked
    BY <1>3 DEF CallEnded
  <2>4. /\ n \in Nat /\ DOMAIN w.sorted = 1..(n - 1) /\ DOMAIN v.sorted = 1..n /\ v.sorted[n] = i
        /\ \A k \in 1..(n - 1) : v.sorted[k] = w.sorted[k]
    BY <1>0, <1>3 DEF CallEnded
  <2>5. ~Reaches(ts, ts[i].id, ts[i].id) => \A b \in Named(ts) :
           Reaches(ts, ts[i].id, b) => \E m \in DOMAIN w.sorted : ts[w.sorted[m]].id = b
    BY <1>3, <2>3, ReachedIsSorted
  <2> HIDE DEF i, n
  <2>6. ASSUME NEW k \in 1..n, ~Reaches(ts, ts[v.sorted[k]].id, ts[v.sorted[k]].id),
               NEW b \in Named(ts), Reaches(ts, ts[v.sorted[k]].id, b)
        PROVE  \E m \in 1..n : m < k /\ ts[v.sorted[m]].id = b
    <3>1. CASE k = n
      <4>1. PICK m \in 1..(n - 1) : ts[w.sorted[m]].id = b
        BY <2>4, <2>5, <2>6, <3>1
      <4>2. m \in 1..n /\ m < k /\ v.sorted[m] = w.sorted[m]
        BY <2>4, <3>1
      <4>3. QED
        BY <4>1, <4>2
    <3>2. CASE k # n
      <4>1. k \in 1..(n - 1) /\ v.sorted[k] = w.sorted[k]
        BY <2>4, <3>2
      <4>2. PICK m \in 1..(n - 1) : m < k /\ ts[w.sorted[m]].id = b
        BY <2>4, <2>6, <4>1 DEF Sorted, IsBefore
      <4>3. m \in 1..n /\ v.sorted[m] = w.sorted[m]
        BY <2>4
      <4>4. QED
        BY <4>2, <4>3
    <3>3. QED
      BY <3>1, <3>2
  <2>7. Sorted(ts, v)
    BY <2>4, <2>6 DEF Sorted, IsBefore
  <2>8. QED
    BY <2>2, <2>7
<1>4. ASSUME w.calls # <<>>, NEW d, NeedLooked(ts, w, v, w.calls[Len(w.calls)], d)
      PROVE  Later(ts, v) /\ Sorted(ts, v)
  <2>1. v.sorted = w.sorted
    BY <1>4 DEF NeedLooked
  <2>2. CASE d \notin Named(ts) /\ v.calls = w.calls
    BY <1>s, <2>1, <2>2 DEF Later
  <2>3. CASE d \in Named(ts) /\ Entered(ts, w, v, LastOf(ts, d))
    <3>1. PICK l : l = LastOf(ts, d)
      OBVIOUS
    <3>2. l \in DOMAIN ts /\ ts[l].id = d /\ Entered(ts, w, v, l)
      BY <2>3, <3>1, LastOfIs
    <3>3. PICK i : i = w.calls[Len(w.calls)]
      OBVIOUS
    <3>4. i \in DOMAIN ts
      BY <1>0, <1>4, <3>3
    <3>5. d \in ts[i].needs
      BY <1>4, <3>3 DEF NeedLooked
    <3>6. d \in Direct(ts, ts[i].id)
      BY <2>3, <3>4, <3>5, DirectIs
    <3>7. Reaches(ts, ts[w.calls[Len(w.calls)]].id, ts[l].id)
      BY <3>2, <3>3, <3>6, ReachesDirectly
    <3>8. Later(ts, v)
      BY <1>0, <3>2, <3>7, EnteredIsLater
    <3>9. QED
      BY <1>s, <2>1, <3>8
  <2>4. QED
    BY <1>4, <2>2, <2>3 DEF NeedLooked
<1>5. QED
  BY <1>0, <1>1, <1>2, <1>3, <1>4, NextMomentIs

LEMMA LastIsSorted ==
    ASSUME NEW S, IsFiniteSet(S), NEW ts, ts \in TaskLists(S), UniqueIds(ts)
    PROVE  Sorted(ts, LastMoment(ts))
<1> DEFINE N == Enough(ts)
<1>1. N \in Nat
  BY StartIs, SizesOf DEF SearchInv
<1> HIDE DEF N
<1>2. PICK f : /\ f[0] = Start /\ LastMoment(ts) = f[N]
               /\ \A i \in 1..N : f[i] = NextMoment(ts, f[i - 1])
  BY <1>1, LastMomentIs DEF N
<1> DEFINE T == {k \in 0..N : SearchInv(ts, f[k]) /\ Later(ts, f[k]) /\ Sorted(ts, f[k])}
<1>3. 0 \in T
  <2>1. Start.calls = <<>> /\ Start.sorted = <<>>
    BY DEF Start
  <2>2. Later(ts, Start) /\ Sorted(ts, Start)
    BY <2>1 DEF Later, Sorted
  <2>3. QED
    BY <1>1, <1>2, <2>2, StartIs
<1>4. ASSUME NEW k \in 0..(N - 1), k \in T PROVE k + 1 \in T
  <2>1. k + 1 \in 1..N /\ k + 1 \in 0..N /\ (k + 1) - 1 = k
    BY <1>1
  <2>2. f[k + 1] = NextMoment(ts, f[k])
    BY <1>2, <2>1
  <2>3. SearchInv(ts, f[k + 1])
    BY <1>4, <2>2, SearchGoesOn
  <2>4. Later(ts, f[k + 1]) /\ Sorted(ts, f[k + 1])
    BY <1>4, <2>2, SortGoesOn
  <2>5. QED
    BY <2>1, <2>3, <2>4
<1>5. N \in T
  <2> HIDE DEF T
  <2>1. \A k \in 0..N : k \in T
    BY <1>1, <1>3, <1>4, UpTo
  <2>2. QED
    BY <1>1, <2>1
<1>6. QED
  BY <1>2, <1>5

-----------------------------------------------------------------------------
(* What the sort returns *)

(* The sort lists every id of the given list once; and if no id is there    *)
(* twice, an id that is not on a cycle comes after all that it needs,       *)
(* directly or not.                                                         *)
THEOREM PostOrderSorts ==
    ASSUME NEW S, IsFiniteSet(S), NEW ts, ts \in TaskLists(S)
    PROVE  /\ PostOrder(ts) \in Seq(S)
           /\ Elements(PostOrder(ts)) = Named(ts)
           /\ \A i, j \in DOMAIN PostOrder(ts) : PostOrder(ts)[i] = PostOrder(ts)[j] => i = j
           /\ UniqueIds(ts) => \A j \in DOMAIN PostOrder(ts), b \in Named(ts) :
                 /\ Reaches(ts, PostOrder(ts)[j], b)
                 /\ ~Reaches(ts, PostOrder(ts)[j], PostOrder(ts)[j])
                 => \E i \in DOMAIN PostOrder(ts) : i < j /\ PostOrder(ts)[i] = b
<1>1. PICK w : w = LastMoment(ts)
  OBVIOUS
<1>2. SearchInv(ts, w) /\ w.calls = <<>> /\ w.turns = Len(ts)
  BY <1>1, SearchIsOver DEF Over
<1>3. PICK s : s = PostOrder(ts)
  OBVIOUS
<1>4. w.sorted \in Seq(DOMAIN ts) /\ Len(ts) \in Nat /\ DOMAIN ts = 1..Len(ts)
  BY <1>2, TaskFacts DEF SearchInv, Moments
<1>5. DOMAIN s = 1..Len(w.sorted) /\ \A k \in DOMAIN s : s[k] = ts[w.sorted[k]].id
  BY <1>1, <1>3, <1>4 DEF PostOrder
<1>6. \A k \in DOMAIN s : w.sorted[k] \in DOMAIN ts /\ k \in DOMAIN w.sorted /\ k \in Int
  BY <1>4, <1>5
<1>7. s \in Seq(S)
  <2>1. \A k \in DOMAIN s : s[k] \in S
    BY <1>5, <1>6, TaskFacts
  <2>2. s = [k \in 1..Len(w.sorted) |-> s[k]]
    BY <1>1, <1>3, <1>4, <1>5 DEF PostOrder
  <2>3. Len(w.sorted) \in Nat
    BY <1>4
  <2>4. QED
    BY <1>5, <2>1, <2>2, <2>3
<1>8. Elements(s) = Named(ts)
  <2>1. Elements(s) \subseteq Named(ts)
    BY <1>5, <1>6 DEF Elements, Named
  <2>2. ASSUME NEW i \in DOMAIN ts PROVE ts[i].id \in Elements(s)
    <3>1. ts[i].id \in Visited(ts, w)
      BY <1>2, <1>4 DEF SearchInv
    <3>2. PICK k \in DOMAIN w.sorted : ts[w.sorted[k]].id = ts[i].id
      BY <1>2, <3>1, VisitedIs
    <3>3. k \in DOMAIN s
      BY <1>4, <1>5
    <3>4. QED
      BY <1>5, <3>2, <3>3 DEF Elements
  <2>3. QED
    BY <2>1, <2>2 DEF Named
<1>9. \A i, j \in DOMAIN s : s[i] = s[j] => i = j
  BY <1>2, <1>5, <1>6 DEF SearchInv, Distinct
<1>10. ASSUME UniqueIds(ts), NEW j \in DOMAIN s, NEW b \in Named(ts), Reaches(ts, s[j], b), ~Reaches(ts, s[j], s[j])
       PROVE  \E i \in DOMAIN s : i < j /\ s[i] = b
  <2>1. Sorted(ts, w)
    BY <1>1, <1>10, LastIsSorted
  <2>2. IsBefore(ts, w, s[j], j)
    BY <1>5, <1>6, <1>10, <2>1 DEF Sorted
  <2>3. PICK m \in DOMAIN w.sorted : m < j /\ ts[w.sorted[m]].id = b
    BY <1>10, <2>2 DEF IsBefore
  <2>4. m \in DOMAIN s
    BY <1>4, <1>5
  <2>5. QED
    BY <1>5, <2>3, <2>4
<1>11. QED
  BY <1>3, <1>7, <1>8, <1>9, <1>10

=============================================================================
