------------------------------- MODULE Orders -------------------------------
(***************************************************************************)
(* Two operations on lists that plan editing, the merge and the playbook   *)
(* engine share: the filter of an array, and the depth-first topological   *)
(* sort that topoSort (src/src/lib/orchestration/merge-agent.ts) and       *)
(* getPhaseOrder (src/src/lib/playbook/parser.ts) have in common.          *)
(*                                                                         *)
(* Both are functions on a finite interval of numbers, the search with the *)
(* stack of its calls written out: so theorems can be proved about them.   *)
(***************************************************************************)
EXTENDS Integers, Sequences, FiniteSets

Elements(s) == {s[i] : i \in DOMAIN s}

(* The elements of s that are in S, in the order of s.                      *)
Kept(s, S) ==
    LET upTo[n \in 0..Len(s)] ==
          IF n = 0 THEN <<>>
          ELSE IF s[n] \in S THEN Append(upTo[n - 1], s[n]) ELSE upTo[n - 1]
    IN  upTo[Len(s)]

-----------------------------------------------------------------------------
(* The sort of a list ts of tasks or phases.  Each has an id, which another *)
(* may have too, and the ids it needs, some of which nobody may have.       *)

Named(ts) == {ts[i].id : i \in DOMAIN ts}

UniqueIds(ts) == \A i, j \in DOMAIN ts : ts[i].id = ts[j].id => i = j

(* byId: of two tasks with one id the map keeps the later.                  *)
LastOf(ts, id) == CHOOSE i \in DOMAIN ts :
                     ts[i].id = id /\ \A j \in DOMAIN ts : ts[j].id = id => j <= i

(* A moment of the search: the calls of visit under way, the innermost      *)
(* last; which of their needs they have looked at; what is sorted; how many *)
(* turns the loop over ts has begun.                                        *)
Start == [calls |-> <<>>, looked |-> {}, sorted |-> <<>>, turns |-> 0]

Visited(ts, w) == {ts[i].id : i \in Elements(w.calls) \cup Elements(w.sorted)}

Visit(ts, w, i) ==
    IF ts[i].id \in Visited(ts, w) THEN w ELSE [w EXCEPT !.calls = Append(@, i)]

ToLookAt(ts, w, i) == {d \in ts[i].needs : <<i, d>> \notin w.looked}

(* The next turn of the loop, the next need of the innermost call, or its   *)
(* end.                                                                     *)
Turn(ts, w) == Visit(ts, [w EXCEPT !.turns = @ + 1], w.turns + 1)

(* The order of a task's needs is not kept: any of them may be the next.     *)
LookAt(ts, w, i) ==
    LET d    == CHOOSE d \in ToLookAt(ts, w, i) : TRUE
        seen == [w EXCEPT !.looked = @ \cup {<<i, d>>}]
    IN  IF d \in Named(ts) THEN Visit(ts, seen, LastOf(ts, d)) ELSE seen

Leave(w, i) ==
    [w EXCEPT !.calls = SubSeq(@, 1, Len(@) - 1), !.sorted = Append(@, i)]

NextMoment(ts, w) ==
    IF w.calls = <<>>
    THEN IF w.turns = Len(ts) THEN w ELSE Turn(ts, w)
    ELSE LET i == w.calls[Len(w.calls)]
         IN  IF ToLookAt(ts, w, i) = {} THEN Leave(w, i) ELSE LookAt(ts, w, i)

(* A task has at most one turn and one call, and looks at a need once.      *)
Enough(ts) ==
    Len(ts) + Len(ts) + Len(ts) * Cardinality(UNION {ts[i].needs : i \in DOMAIN ts})

(* The moment after n steps, as a set of one: TLC evaluates what a variable  *)
(* is bound to once.                                                        *)
LastMoment(ts) ==
    LET moments[n \in 0..Enough(ts)] ==
          IF n = 0 THEN {Start} ELSE {NextMoment(ts, w) : w \in moments[n - 1]}
    IN  CHOOSE w \in moments[Enough(ts)] : TRUE

PostOrder(ts) ==
    LET sorted == LastMoment(ts).sorted
    IN  [k \in DOMAIN sorted |-> ts[sorted[k]].id]

(* a needs b, directly or not.                                              *)
Reaches(ts, a, b) ==
    LET Direct(c) == ts[LastOf(ts, c)].needs \cap Named(ts)
    IN  \A S \in SUBSET Named(ts) :
           Direct(a) \subseteq S /\ (\A c \in S : Direct(c) \subseteq S) => b \in S

=============================================================================
