--------------------------- MODULE MCBranchMerge ---------------------------
(* Small plans for model checking their editing and merging.                *)
EXTENDS BranchMerge

CONSTANTS e1, e2, format, ai

Task(id, needs) == [id |-> id, needs |-> needs]

ThreeIds   == 1..3
TwoEditors == {e1, e2}

(* A task listed before what it needs (an update makes that); an edit can   *)
(* add a third, on either of them or on both.                               *)
SomePlans == {<<Task(1, {2}), Task(2, {})>>}

(* With an id twice, and with references to itself and to nowhere.          *)
SomePosts == {
    <<Task(2, {}), Task(1, {2}), Task(2, {1})>>,
    <<Task(1, {1, 3}), Task(2, {})>>}

(* One step that blocks, one that advises. *)
TwoSteps == <<TRUE, FALSE>>
TwoStrategies == {format, ai}

=============================================================================
