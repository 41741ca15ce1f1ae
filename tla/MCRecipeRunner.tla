--------------------------- MODULE MCRecipeRunner ---------------------------
(* Small recipes for model checking the recipe runner. *)
EXTENDS RecipeRunner, TLC

CONSTANTS sa, sb, sc, ca, cb, ia

ThreeSteps == {sa, sb, sc}

InOrder == (sa :> 1 @@ sb :> 2 @@ sc :> 3)

RecipeOf(da, db, dc, implicit, continues, gates, width) ==
    [place |-> InOrder, implicit |-> implicit, deps |-> (sa :> da @@ sb :> db @@ sc :> dc),
     continues |-> continues, gates |-> gates, maxParallelism |-> width]

SmallRecipes ==
    { \* two gates side by side, then a step that needs both
      RecipeOf({}, {}, {sa, sb}, {}, {}, {sa, sb}, 4),
      \* one wave of three in chunks of two, a gate in the second chunk
      RecipeOf({}, {}, {}, {}, {sa}, {sc}, 2),
      \* by place only: sb after sa, which may fail; sc is declared to need none
      RecipeOf({}, {}, {}, {sb}, {sa}, {sb}, 1),
      \* the last step declared runs first
      RecipeOf({sc}, {}, {}, {sb}, {}, {}, 4),
      \* an implicit dependency closes a cycle; a cycle of declared ones
      RecipeOf({sb}, {}, {}, {sb}, {}, {}, 4),
      RecipeOf({}, {sc}, {sb}, {}, {}, {}, 4) }

TwoCalls == {ca, cb}

=============================================================================
