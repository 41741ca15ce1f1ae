------------------------------- MODULE RecipeRun -------------------------------
(***************************************************************************)
(* What the recipe runner promises about the calls that run one recipe: a  *)
(* step starts once everything it needs has ended acceptably, it asks its  *)
(* operator at most one question, nothing starts after a failure that      *)
(* halts the recipe, and the verdict agrees with what the steps did.       *)
(***************************************************************************)
EXTENDS Naturals

CONSTANTS Calls, Steps

VARIABLES
    recipe,     \* needs: the steps each step needs, continues: may fail
    status,     \* of each call
    cancelled,  \* calls that were cancelled
    phase       \* of each step of each call

vars == <<recipe, status, cancelled, phase>>

(* A "tolerated" step failed and the recipe goes on, a "fatal" one failed   *)
(* and ends it.                                                             *)
Accepted == {"ok", "tolerated"}
Over     == Accepted \cup {"fatal"}
Phases   == {"waiting", "active", "asking", "resumed"} \cup Over

InPhase(c, P) == {s \in Steps : phase[c][s] \in P}

Init ==
    /\ recipe.needs \in [Steps -> SUBSET Steps]
    /\ recipe.continues \in SUBSET Steps
    /\ status = [c \in Calls |-> "none"]
    /\ cancelled = {}
    /\ phase = [c \in Calls |-> [s \in Steps |-> "waiting"]]

Failure(s) == IF s \in recipe.continues THEN {"tolerated", "fatal"} ELSE {"fatal"}

(* A call is accepted, or goes on, and a set of steps starts together.      *)
Start(c, S) ==
    /\ status[c] \in {"none", "running"}
    /\ S # {} /\ S \subseteq InPhase(c, {"waiting"})
    /\ InPhase(c, {"active", "asking", "resumed", "fatal"}) = {}
    /\ \A s \in S : recipe.needs[s] \subseteq InPhase(c, Accepted)
    /\ status' = [status EXCEPT ![c] = "running"]
    /\ phase' = [phase EXCEPT ![c] =
                   [s \in Steps |-> IF s \in S THEN "active" ELSE phase[c][s]]]
    /\ UNCHANGED <<recipe, cancelled>>

Move(c, s, p) ==
    /\ status[c] = "running"
    /\ phase' = [phase EXCEPT ![c][s] = p]
    /\ UNCHANGED <<recipe, status, cancelled>>

Ask(c, s)    == phase[c][s] = "active" /\ Move(c, s, "asking")
Answer(c, s) == phase[c][s] = "asking" /\ Move(c, s, "resumed")

Succeed(c, s) == phase[c][s] \in {"active", "resumed"} /\ Move(c, s, "ok")

Fail(c, s) ==
    /\ phase[c][s] \in {"active", "asking", "resumed"}
    /\ \E p \in Failure(s) : Move(c, s, p)

(* Cancelling takes all questions back; what runs goes on.                  *)
Cancel(c) ==
    /\ status[c] = "running"
    /\ cancelled' = cancelled \cup {c}
    /\ \E p \in [InPhase(c, {"asking"}) -> {"tolerated", "fatal"}] :
         /\ \A s \in DOMAIN p : p[s] \in Failure(s)
         /\ phase' = [phase EXCEPT ![c] =
                        [s \in Steps |-> IF s \in DOMAIN p THEN p[s] ELSE phase[c][s]]]
    /\ UNCHANGED <<recipe, status>>

End(c) ==
    /\ status[c] = "running"
    /\ InPhase(c, {"active", "asking", "resumed"}) = {}
    /\ InPhase(c, Accepted) = Steps \/ InPhase(c, {"fatal"}) # {}
    /\ status' = [status EXCEPT ![c] =
                    IF c \in cancelled THEN "cancelled"
                    ELSE IF InPhase(c, {"fatal"}) # {} THEN "failed"
                    ELSE "success"]
    /\ UNCHANGED <<recipe, cancelled, phase>>

(* The server stops and takes all running calls with it.                    *)
Lose ==
    /\ status' = [c \in Calls |-> IF status[c] = "running" THEN "lost" ELSE status[c]]
    /\ cancelled' = {c \in cancelled : status[c] # "running"}
    /\ phase' = [c \in Calls |-> IF status[c] = "running" THEN [s \in Steps |-> "waiting"]
                                  ELSE phase[c]]
    /\ UNCHANGED recipe

Next ==
    \/ \E c \in Calls : \E S \in SUBSET Steps : Start(c, S)
    \/ \E c \in Calls, s \in Steps : Ask(c, s) \/ Answer(c, s) \/ Succeed(c, s) \/ Fail(c, s)
    \/ \E c \in Calls : Cancel(c) \/ End(c)
    \/ Lose

Spec == Init /\ [][Next]_vars

=============================================================================
