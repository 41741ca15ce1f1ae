---------------------------- MODULE RecipeRunner ----------------------------
(***************************************************************************)
(* The Naseej recipe runner (src/src/lib/naseej): calls of runRecipe, the  *)
(* registries of runs and of pauses they share, the run's row in the       *)
(* database and its stream of events, with the routes that cancel a run,   *)
(* answer a gate and follow the events.  A run id is chosen by the caller: *)
(* two calls may carry the same one.                                       *)
(*                                                                         *)
(* An action is what a handler does between two awaits.  The microtasks a  *)
(* settled promise queues run at once in Node.js; here the rest of the     *)
(* loop (HaltRun, NextChunk, CompleteRun) may also come later, which only  *)
(* adds behaviours.                                                        *)
(***************************************************************************)
EXTENDS Naturals, FiniteSets

CONSTANTS
    Calls,           \* POST /api/recipes/run requests, each used once
    Ids,             \* run ids
    Steps,
    Recipes,         \* the recipes considered, one per behaviour
    NoId, NoCall

VARIABLES
    recipe,
    pc,              \* of each call: how far runRecipe is, or its verdict
    runId,
    completed,       \* of each call: the steps of the waves that are over
    phase,           \* of each step of each call
    recorded,        \* of each call: the steps in stepResults
    aborted,         \* of each call: its controller's signal
    runRegistry,     \* run id -> the call whose controller is registered
    pauseRegistry,   \* run id, step -> the pending pause
    row,             \* run id -> status in naseej_runs
    bus,             \* run id -> state of the event bus
    sub              \* run id -> what its subscriber has been told

vars == <<recipe, pc, runId, completed, phase, recorded, aborted,
          runRegistry, pauseRegistry, row, bus, sub>>

(* place: position in the file; deps: depends_on, absent for the implicit   *)
(* ones; continues: the steps with on_failure continue; gates: the steps    *)
(* whose component has shape gate.                                          *)
RecipeSet ==
    [place : [Steps -> 1..Cardinality(Steps)],
     implicit : SUBSET Steps, deps : [Steps -> SUBSET Steps],
     continues : SUBSET Steps, gates : SUBSET Steps, maxParallelism : Nat \ {0}]

ASSUME RecipesAssumption ==
    \A r \in Recipes :
       /\ r \in RecipeSet
       /\ \A s, u \in Steps : r.place[s] = r.place[u] => s = u

(* The schema asks for at least one step.                                   *)
ASSUME StepsAssumption == IsFiniteSet(Steps) /\ Steps # {}

ASSUME NamesAssumption == NoId \notin Ids /\ NoCall \notin Calls

Verdicts == {"success", "failed", "cancelled"}
Settled  == {"ok", "bad", "threw"}
Pause    == [call : Calls, dead : BOOLEAN]
NoPause  == [call |-> NoCall, dead |-> TRUE]

TypeOK ==
    /\ recipe \in Recipes
    /\ pc \in [Calls -> {"idle", "refused", "running", "crashed"} \cup Verdicts]
    /\ runId \in [Calls -> Ids \cup {NoId}]
    /\ \A c \in Calls : pc[c] \notin {"idle", "refused"} => runId[c] \in Ids
    /\ completed \in [Calls -> SUBSET Steps]
    /\ phase \in [Calls -> [Steps -> {"idle", "first", "paused", "second"} \cup Settled]]
    /\ recorded \in [Calls -> SUBSET Steps]
    /\ aborted \in [Calls -> BOOLEAN]
    /\ runRegistry \in [Ids -> Calls \cup {NoCall}]
    /\ pauseRegistry \in [Ids \X Steps -> Pause \cup {NoPause}]
    /\ row \in [Ids -> {"none", "running", "paused"} \cup Verdicts]
    /\ bus \in [Ids -> {"none", "blank", "open", "ended"}]
    /\ sub \in [Ids -> {"none", "listening", "told", "untold"}]

Init ==
    /\ recipe \in Recipes
    /\ pc = [c \in Calls |-> "idle"]
    /\ runId = [c \in Calls |-> NoId]
    /\ completed = [c \in Calls |-> {}]
    /\ phase = [c \in Calls |-> [s \in Steps |-> "idle"]]
    /\ recorded = [c \in Calls |-> {}]
    /\ aborted = [c \in Calls |-> FALSE]
    /\ runRegistry = [i \in Ids |-> NoCall]
    /\ pauseRegistry = [k \in Ids \X Steps |-> NoPause]
    /\ row = [i \in Ids |-> "none"]
    /\ bus = [i \in Ids |-> "none"]
    /\ sub = [i \in Ids |-> "none"]

-----------------------------------------------------------------------------
(* Waves and chunks *)

(* A step that says nothing depends on the step before it.                  *)
EffectiveDeps(s) ==
    IF s \in recipe.implicit THEN {u \in Steps : recipe.place[u] + 1 = recipe.place[s]}
    ELSE recipe.deps[s]

(* The wave that follows the steps in done.                                 *)
Ready(done) == {s \in Steps \ done : EffectiveDeps(s) \subseteq done}

(* All steps that belong to some wave; the others wait for each other.      *)
Reachable ==
    LET after[n \in 0..Cardinality(Steps)] ==
          IF n = 0 THEN {} ELSE after[n - 1] \cup Ready(after[n - 1])
    IN after[Cardinality(Steps)]

(* A fault: the slice ends one step late.                                    *)
SliceOneMore(S) ==
    {s \in S : Cardinality({u \in S : recipe.place[u] < recipe.place[s]}) <= recipe.maxParallelism}

(* The first slice of a wave, or of what is left of it.                     *)
Slice(S) ==
    {s \in S : Cardinality({u \in S : recipe.place[u] < recipe.place[s]}) < recipe.maxParallelism}

Started(c) == {s \in Steps : phase[c][s] # "idle"}
Chunk(c)   == Started(c) \ recorded[c]

(* A fault: on_failure continue covers rejected promises too.               *)
HaltsOnExitCode(c, s) == phase[c][s] \in {"bad", "threw"} /\ s \notin recipe.continues

Halts(c, s) == phase[c][s] = "threw" \/ (phase[c][s] = "bad" /\ s \notin recipe.continues)

Halting(c) == {s \in Chunk(c) : Halts(c, s)}

ChunkIsSettled(c) == \A s \in Chunk(c) : phase[c][s] \in Settled

-----------------------------------------------------------------------------
(* The database row and the event bus *)

Publish(i) == bus' = [bus EXCEPT ![i] = IF @ = "ended" THEN @ ELSE "open"]

(* UPDATE ... WHERE run_id: nothing happens without a row.                  *)
RowAfter(i, st) == [row EXCEPT ![i] = IF @ = "none" THEN @ ELSE st]

(* finally, then the audit row and the terminal event, without an await.    *)
Conclude(c, status) ==
    LET i == runId[c]
    IN /\ pc' = [pc EXCEPT ![c] = status]
       /\ row' = RowAfter(i, status)
       /\ bus' = [bus EXCEPT ![i] = "ended"]
       /\ sub' = [sub EXCEPT ![i] = IF @ = "listening" /\ bus[i] # "ended" THEN "told" ELSE @]

Unregistered(c) == [runRegistry EXCEPT ![runId[c]] = NoCall]

FinalStatus(c, verdict) == IF aborted[c] THEN "cancelled" ELSE verdict

(* A fault: no finally.                                                     *)
EndRegistered(c, verdict) == Conclude(c, FinalStatus(c, verdict)) /\ UNCHANGED runRegistry

End(c, verdict) == Conclude(c, FinalStatus(c, verdict)) /\ runRegistry' = Unregistered(c)

-----------------------------------------------------------------------------
(* One call of runRecipe *)

Launched(c, S) == [phase EXCEPT ![c] = [s \in Steps |-> IF s \in S THEN "first" ELSE @[s]]]

(* Cycles are refused before anything is registered.                        *)
Refuse(c) ==
    /\ pc[c] = "idle"
    /\ Reachable # Steps
    /\ pc' = [pc EXCEPT ![c] = "refused"]
    /\ UNCHANGED <<recipe, runId, completed, phase, recorded, aborted,
                   runRegistry, pauseRegistry, row, bus, sub>>

StartCall(c, i) ==
    /\ pc[c] = "idle"
    /\ Reachable = Steps
    /\ pc' = [pc EXCEPT ![c] = "running"]
    /\ runId' = [runId EXCEPT ![c] = i]
    /\ runRegistry' = [runRegistry EXCEPT ![i] = c]
    /\ row' = [row EXCEPT ![i] = IF @ = "none" THEN "running" ELSE @]
    /\ Publish(i)
    /\ phase' = Launched(c, Slice(Ready({})))
    /\ UNCHANGED <<recipe, completed, recorded, aborted, pauseRegistry, sub>>

SettleStep(c, s, outcome) ==
    /\ phase' = [phase EXCEPT ![c][s] = outcome]
    /\ UNCHANGED <<recipe, pc, runId, completed, recorded, aborted,
                   runRegistry, pauseRegistry, row, bus, sub>>

(* "threw" is a promise rejected because the inputs cannot be resolved; it  *)
(* differs from a failure only where a failure is tolerated.                *)
Outcomes(s) == IF s \in recipe.continues THEN Settled ELSE {"ok", "bad"}

(* The component exits, or its inputs cannot be resolved.                   *)
ExitStep(c, s) ==
    /\ pc[c] = "running"
    /\ phase[c][s] \in {"first", "second"}
    /\ \E outcome \in Outcomes(s) : SettleStep(c, s, outcome)

(* The first invocation of a gate asks for an answer; a pause that is not   *)
(* accepted fails the step.                                                 *)
AskFor(c, s, accepted) ==
    /\ pc[c] = "running"
    /\ phase[c][s] = "first"
    /\ s \in recipe.gates
    /\ phase' = [phase EXCEPT ![c][s] = IF accepted THEN "paused" ELSE "bad"]
    /\ pauseRegistry' = [pauseRegistry EXCEPT ![<<runId[c], s>>] =
                           IF accepted THEN [call |-> c, dead |-> FALSE] ELSE @]
    /\ row' = RowAfter(runId[c], IF accepted THEN "paused" ELSE "running")
    /\ Publish(runId[c])
    /\ UNCHANGED <<recipe, pc, runId, completed, recorded, aborted, runRegistry, sub>>

KeyIsFree(c, s) == pauseRegistry[<<runId[c], s>>] = NoPause

(* A fault: a pause replaces the one registered under its key.              *)
RequestPauseAgain(c, s) == AskFor(c, s, ~aborted[c])

(* A fault: registerPause only listens for an abort to come.                *)
RequestPauseLate(c, s) == AskFor(c, s, KeyIsFree(c, s))

(* registerPause refuses a key in use, and takes the pause back at once     *)
(* when the run has been cancelled already.                                 *)
RequestPause(c, s) == AskFor(c, s, KeyIsFree(c, s) /\ ~aborted[c])

(* Results are recorded in the order of the file, up to the first that      *)
(* halts the run.                                                           *)
BreakOuter(c, verdict) ==
    /\ pc[c] = "running"
    /\ ChunkIsSettled(c)
    /\ Halting(c) # {}
    /\ recorded' = [recorded EXCEPT ![c] = @ \cup
                      {s \in Chunk(c) : \A u \in Halting(c) : recipe.place[s] <= recipe.place[u]}]
    /\ End(c, verdict)
    /\ UNCHANGED <<recipe, runId, completed, phase, aborted, pauseRegistry>>

(* A fault: failedStep is not set for a rejected promise.                   *)
HaltRunUnnamed(c) ==
    BreakOuter(c, IF \E s \in Halting(c) : phase[c][s] = "bad" THEN "failed" ELSE "success")

HaltRun(c) == BreakOuter(c, "failed")

(* The next slice of the wave, or the first one of the next wave.           *)
GoOn(c) ==
    LET results == recorded[c] \cup Chunk(c)
        rest == Ready(completed[c]) \ results
        done == IF rest = {} THEN results ELSE completed[c]
        wave == IF rest = {} THEN Ready(results) ELSE rest
    IN /\ pc[c] = "running"
       /\ ChunkIsSettled(c)
       /\ wave # {}
       /\ recorded' = [recorded EXCEPT ![c] = results]
       /\ completed' = [completed EXCEPT ![c] = done]
       /\ phase' = Launched(c, Slice(wave))
       /\ Publish(runId[c])
       /\ UNCHANGED <<recipe, pc, runId, aborted, runRegistry, pauseRegistry, row, sub>>

(* A fault: break leaves the inner loop only.                               *)
NextChunkAnyway(c) == GoOn(c)

NextChunk(c) == Halting(c) = {} /\ GoOn(c)

CompleteRun(c) ==
    LET results == recorded[c] \cup Chunk(c)
    IN /\ pc[c] = "running"
       /\ ChunkIsSettled(c)
       /\ Halting(c) = {}
       /\ Ready(completed[c]) \subseteq results
       /\ Ready(results) = {}
       /\ recorded' = [recorded EXCEPT ![c] = results]
       /\ completed' = [completed EXCEPT ![c] = results]
       /\ End(c, "success")
       /\ UNCHANGED <<recipe, runId, phase, aborted, pauseRegistry>>

-----------------------------------------------------------------------------
(* Pauses: answer, wrong answer, timeout, cancellation *)

(* A fault: only an answer puts the row back to running.                    *)
WakeOnAnswer(k, ph) ==
    LET p == pauseRegistry[k]
    IN IF p.dead THEN UNCHANGED <<phase, row>>
       ELSE /\ phase' = [phase EXCEPT ![p.call][k[2]] = ph]
            /\ row' = IF ph = "second" THEN RowAfter(k[1], "running") ELSE row

(* What becomes of the step behind a pause; a dead pause has none.          *)
Wake(k, ph) ==
    LET p == pauseRegistry[k]
    IN IF p.dead THEN UNCHANGED <<phase, row>>
       ELSE /\ phase' = [phase EXCEPT ![p.call][k[2]] = ph]
            /\ row' = RowAfter(k[1], "running")

(* resolvePause with the right kind: the route says 200, also when the      *)
(* pause is dead.                                                           *)
Respond(k) ==
    /\ pauseRegistry[k] # NoPause
    /\ pauseRegistry' = [pauseRegistry EXCEPT ![k] = NoPause]
    /\ Wake(k, "second")
    /\ UNCHANGED <<recipe, pc, runId, completed, recorded, aborted, runRegistry, bus, sub>>

(* With the wrong kind: the step fails, the pause stays in the registry.    *)
RespondMismatched(k) ==
    /\ pauseRegistry[k] # NoPause
    /\ ~pauseRegistry[k].dead
    /\ pauseRegistry' = [pauseRegistry EXCEPT ![k].dead = TRUE]
    /\ Wake(k, "bad")
    /\ UNCHANGED <<recipe, pc, runId, completed, recorded, aborted, runRegistry, bus, sub>>

TimeOut(k) ==
    /\ pauseRegistry[k] # NoPause
    /\ pauseRegistry' = [pauseRegistry EXCEPT ![k] = NoPause]
    /\ Wake(k, "bad")
    /\ UNCHANGED <<recipe, pc, runId, completed, recorded, aborted, runRegistry, bus, sub>>

(* cancelRun aborts the registered call: its pauses are rejected, the       *)
(* components it runs are not stopped.                                      *)
PausedSteps(c) == {s \in Steps : phase[c][s] = "paused"}

Cancel(i) ==
    LET c == runRegistry[i]
    IN /\ c # NoCall
       /\ ~aborted[c]
       /\ aborted' = [aborted EXCEPT ![c] = TRUE]
       /\ pauseRegistry' = [k \in Ids \X Steps |->
                              IF pauseRegistry[k].call = c THEN NoPause ELSE pauseRegistry[k]]
       /\ phase' = [phase EXCEPT ![c] =
                      [s \in Steps |-> IF s \in PausedSteps(c) THEN "bad" ELSE @[s]]]
       /\ row' = IF PausedSteps(c) = {} THEN row ELSE RowAfter(i, "running")
       /\ UNCHANGED <<recipe, pc, runId, completed, recorded, runRegistry, bus, sub>>

-----------------------------------------------------------------------------
(* Following the events, and the end of the process *)

SubscribeWith(i, replayed) ==
    LET fresh == bus[i] \in {"none", "blank"}
    IN /\ sub[i] = "none"
       /\ bus' = [bus EXCEPT ![i] = IF fresh THEN "blank" ELSE @]
       /\ sub' = [sub EXCEPT ![i] =
                    IF replayed \/ (fresh /\ row[i] \in Verdicts) THEN "told"
                    ELSE IF fresh /\ row[i] # "none" THEN "untold"
                    ELSE "listening"]
       /\ UNCHANGED <<recipe, pc, runId, completed, phase, recorded, aborted,
                      runRegistry, pauseRegistry, row>>

(* A fault: the buffer of an ended run is not replayed.                     *)
SubscribeToTheFuture(i) == SubscribeWith(i, FALSE)

(* GET events: replay from the bus, or a synthetic stream from the row that *)
(* is closed whether or not the row has a verdict.                          *)
Subscribe(i) == SubscribeWith(i, bus[i] = "ended")

Disconnect(i) ==
    /\ sub[i] # "none"
    /\ sub' = [sub EXCEPT ![i] = "none"]
    /\ UNCHANGED <<recipe, pc, runId, completed, phase, recorded, aborted,
                   runRegistry, pauseRegistry, row, bus>>

(* Ten seconds after the terminal event.                                    *)
DropBus(i) ==
    /\ bus[i] = "ended"
    /\ bus' = [bus EXCEPT ![i] = "none"]
    /\ UNCHANGED <<recipe, pc, runId, completed, phase, recorded, aborted,
                   runRegistry, pauseRegistry, row, sub>>

(* Everything but the database is lost; nothing looks for open rows at the  *)
(* next start.                                                              *)
Crash ==
    LET kept(f, none) == [c \in Calls |-> IF pc[c] = "running" THEN none ELSE f[c]]
    IN
    /\ \E c \in Calls : pc[c] = "running"
    /\ pc' = kept(pc, "crashed")
    /\ completed' = kept(completed, {})
    /\ phase' = kept(phase, [s \in Steps |-> "idle"])
    /\ recorded' = kept(recorded, {})
    /\ aborted' = kept(aborted, FALSE)
    /\ runRegistry' = [i \in Ids |-> NoCall]
    /\ pauseRegistry' = [k \in Ids \X Steps |-> NoPause]
    /\ bus' = [i \in Ids |-> "none"]
    /\ sub' = [i \in Ids |-> "none"]
    /\ UNCHANGED <<recipe, runId, row>>

Advance(c) == HaltRun(c) \/ NextChunk(c) \/ CompleteRun(c)

Next ==
    \/ \E c \in Calls : Refuse(c) \/ Advance(c)
    \/ \E c \in Calls, i \in Ids : StartCall(c, i)
    \/ \E c \in Calls, s \in Steps : ExitStep(c, s) \/ RequestPause(c, s)
    \/ \E k \in Ids \X Steps : Respond(k) \/ RespondMismatched(k) \/ TimeOut(k)
    \/ \E i \in Ids : Cancel(i) \/ Subscribe(i) \/ Disconnect(i) \/ DropBus(i)
    \/ Crash

Spec == Init /\ [][Next]_vars

(* Components exit and the loop goes on.  Nothing is assumed about answers, *)
(* and nothing about the timers of pauses: they may be set to any time.     *)
Fairness ==
    /\ \A c \in Calls : WF_vars(Advance(c))
    /\ \A c \in Calls, s \in Steps : WF_vars(ExitStep(c, s) \/ RequestPause(c, s))

FairSpec == Spec /\ Fairness

-----------------------------------------------------------------------------
(* Properties *)

Ran(c, s) == phase[c][s] = "ok" \/ (phase[c][s] = "bad" /\ s \in recipe.continues)

(* toWaves and the chunk loop together: a step has started only if every    *)
(* step it depends on, by declaration or by its place, has its result in    *)
(* stepsCtx, and that result did not halt the recipe.                       *)
DependenciesRecorded ==
    \A c \in Calls, s \in Steps :
       s \in Started(c) => \A d \in EffectiveDeps(s) : d \in recorded[c] /\ Ran(c, d)

(* max_parallelism bounds the steps of a call that are at work or paused.   *)
WithinParallelism ==
    \A c \in Calls :
       Cardinality({s \in Steps : phase[c][s] \in {"first", "paused", "second"}})
          <= recipe.maxParallelism

(* The waves and their slices: no step too early, and not too many at once. *)
WavesAreSound == DependenciesRecorded /\ WithinParallelism

(* A run that reports success has a result for each step, none of which     *)
(* should have halted it.                                                   *)
SuccessIsComplete ==
    \A c \in Calls : pc[c] = "success" => recorded[c] = Steps /\ \A s \in Steps : Ran(c, s)

(* toWaves gives up exactly on the recipes whose dependencies, implicit     *)
(* ones included, have a cycle: a set of steps that wait for each other.    *)
RefusedIffCyclic ==
    \A c \in Calls :
       /\ pc[c] = "refused" =>
            \E S \in (SUBSET Steps) \ {{}} : \A s \in S : EffectiveDeps(s) \cap S # {}
       /\ pc[c] \notin {"idle", "refused"} =>
            \A S \in (SUBSET Steps) \ {{}} : \E s \in S : EffectiveDeps(s) \cap S = {}

(* A step of a run in flight waits for an answer exactly when the answer    *)
(* can reach it: whatever order answers, timeouts, cancellations and a      *)
(* second call with the same id come in, no paused step is forgotten and    *)
(* no pause outlives its step.                                              *)
PausedIffAnswerable ==
    \A c \in Calls, s \in Steps :
       (pc[c] = "running" /\ phase[c][s] = "paused")
         <=> \E i \in Ids : i = runId[c] /\ pauseRegistry[<<i, s>>] = [call |-> c, dead |-> FALSE]

(* The row says paused only while a step is paused, and running only while  *)
(* a call runs, unless a crash ended it.                                    *)
RowIsExplained ==
    \A i \in Ids :
       /\ row[i] = "paused" =>
            \E c \in Calls : runId[c] = i /\ (pc[c] = "crashed" \/ PausedSteps(c) # {})
       /\ row[i] = "running" =>
            \E c \in Calls : runId[c] = i /\ pc[c] \in {"running", "crashed"}

Sole(c) == runId[c] # NoId /\ \A d \in Calls \ {c} : runId[d] # runId[c]

(* As long as its id is not used twice, a run can be cancelled while it is  *)
(* in flight and only then.                                                 *)
CancellableWhileRunning ==
    \A c \in Calls : Sole(c) => (runRegistry[runId[c]] = c <=> pc[c] = "running")

(* As long as its id is not used twice and the server does not crash, who   *)
(* follows a run's events learns of its end, and not before it has ended,   *)
(* whenever the subscription was made.                                      *)
StreamEndsWithRun ==
    \A c \in Calls :
       Sole(c) /\ pc[c] # "crashed" =>
          /\ sub[runId[c]] # "untold"
          /\ sub[runId[c]] = "listening" => pc[c] = "running"
          /\ sub[runId[c]] = "told" => pc[c] \in Verdicts

(* A cancelled run ends although nobody answers its gates, those it reaches *)
(* after the cancellation included, and although no timer fires.            *)
CancelEnds == \A c \in Calls : aborted[c] ~> pc[c] # "running"

-----------------------------------------------------------------------------
(* The runner implements RecipeRun *)

StatusOf(c) ==
    CASE pc[c] \in {"idle", "refused"} -> "none"
      [] pc[c] = "crashed" -> "lost"
      [] OTHER -> pc[c]

PhaseOf(c, s) ==
    CASE phase[c][s] = "idle" -> "waiting"
      [] phase[c][s] = "first" -> "active"
      [] phase[c][s] = "paused" -> "asking"
      [] phase[c][s] = "second" -> "resumed"
      [] phase[c][s] = "ok" -> "ok"
      [] phase[c][s] \in {"bad", "threw"} -> IF Halts(c, s) THEN "fatal" ELSE "tolerated"

Promise == INSTANCE RecipeRun WITH
    recipe <- [needs |-> [s \in Steps |-> EffectiveDeps(s)], continues |-> recipe.continues],
    status <- [c \in Calls |-> StatusOf(c)],
    cancelled <- {c \in Calls : aborted[c]},
    phase <- [c \in Calls |-> [s \in Steps |-> PhaseOf(c, s)]]

(* Every step of the runner, its registries and its chunks is a step of     *)
(* RecipeRun, or none: also when two calls share a run id.                  *)
ImplementsPromise == Promise!Spec

=============================================================================
