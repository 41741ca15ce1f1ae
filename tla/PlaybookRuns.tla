---------------------------- MODULE PlaybookRuns ----------------------------
(***************************************************************************)
(* The playbook engine (src/src/lib/playbook/engine.ts) and the route that *)
(* starts, kills, answers and polls its runs                               *)
(* (src/src/routes/api/playbooks/run/+server.ts).                          *)
(*                                                                         *)
(* A run goes through its phases one by one.  The code from one await to   *)
(* the next is cut into several actions here: a kill may come between two  *)
(* of them, which has the effect of the same kill during the await before. *)
(***************************************************************************)
EXTENDS Orders, FiniteSetsExt

CONSTANTS
    Runs,        \* requests to start the playbook, numbers in their order
    Playbooks,   \* the playbooks considered, one per behaviour
    Batch        \* maxConcurrency of a parallel phase

(* A phase is known by its place in the file.  size: agents, or iterations  *)
(* of a handoff; lenient: on_timeout is skip; "ignored": skip_if holds, or  *)
(* the type is consensus.                                                   *)
Types == {"sequential", "parallel", "handoff", "human", "gate", "ignored"}
Phase == [type : Types, deps : SUBSET Nat, size : Nat \ {0}, lenient : BOOLEAN]

(* What parsePlaybook accepts: some phase, dependencies that exist, and no  *)
(* cycle: of any phases one waits for none of them.                         *)
Acyclic(phases) ==
    \A S \in SUBSET DOMAIN phases : S # {} => \E p \in S : phases[p].deps \cap S = {}

ASSUME PlaybookAssumption ==
    /\ \A b \in Playbooks :
         /\ b.phases \in Seq(Phase) /\ b.phases # <<>>
         /\ b.skip \in BOOLEAN                        \* on_failure.strategy
         /\ \A p \in DOMAIN b.phases : b.phases[p].deps \subseteq DOMAIN b.phases
         /\ Acyclic(b.phases)
    /\ Runs \subseteq Nat /\ Batch \in Nat \ {0}

VARIABLES
    playbook,
    phaseOrder,
    pc,        \* of each run: where its request and its engine are
    at,        \* phases behind it
    phase,     \* status of its phases
    agent,     \* status of its assignments
    status,    \* run.status
    aborted,   \* runAbortFlags
    gate,      \* its entry in pendingGates, a run has one at most
    live,      \* status in the route's own record, which is polled
    active     \* activePlaybooks has the playbook

vars == <<playbook, phaseOrder, pc, at, phase, agent, status, aborted, gate, live, active>>

Phases  == playbook.phases
Ids     == DOMAIN Phases
Type(p) == Phases[p].type

(* A handoff has two agents per iteration, the author's and the reviewer's. *)
Slots(p) == 1 .. (IF Type(p) = "handoff" THEN 2 * Phases[p].size ELSE Phases[p].size)

(* A fault: the order of the file.                                          *)
FileOrder(b) == [i \in DOMAIN b.phases |-> i]

(* getPhaseOrder: depth first, a phase after its dependencies.  Here a phase *)
(* counts as visited when its visit begins, in the code when it ends: the   *)
(* same where there is no cycle.                                            *)
GetPhaseOrder(b) ==
    PostOrder([p \in DOMAIN b.phases |-> [id |-> p, needs |-> b.phases[p].deps]])

Cur(r) == phaseOrder[at[r] + 1]

AgentsIn(r, p, st) == {i \in Slots(p) : agent[r][p][i] = st}

(* In the code a rejected agent's record goes on saying running.            *)
TypeOK ==
    /\ playbook \in Playbooks
    /\ phaseOrder \in Seq(Ids) /\ Len(phaseOrder) = Len(Phases)
    /\ pc \in [Runs -> {"idle", "refused", "checked", "hooks", "next", "work", "waiting",
                        "landing", "over", "gone"}]
    /\ at \in [Runs -> 0..Len(Phases)]
    /\ \A r \in Runs : pc[r] \in {"work", "waiting"} => at[r] < Len(Phases)
    /\ phase \in [Runs -> [Ids -> {"pending", "running", "completed", "failed", "skipped"}]]
    /\ \A r \in Runs, p \in Ids :
         agent[r][p] \in [Slots(p) -> {"pending", "running", "completed", "failed", "rejected"}]
    /\ status \in [Runs -> {"none", "running", "paused", "completed", "failed"}]
    /\ aborted \in [Runs -> BOOLEAN]
    /\ gate \in [Runs -> {"none", "gate", "human"}]
    /\ \A r \in Runs : gate[r] # "none" <=> pc[r] = "waiting"
    /\ live \in [Runs -> {"none", "running", "paused", "completed", "failed"}]
    /\ active \in BOOLEAN

Init ==
    /\ playbook \in Playbooks
    /\ phaseOrder = GetPhaseOrder(playbook)
    /\ pc = [r \in Runs |-> "idle"]
    /\ at = [r \in Runs |-> 0]
    /\ phase = [r \in Runs |-> [p \in Ids |-> "pending"]]
    /\ agent = [r \in Runs |-> [p \in Ids |-> [i \in Slots(p) |-> "pending"]]]
    /\ status = [r \in Runs |-> "none"]
    /\ aborted = [r \in Runs |-> FALSE]
    /\ gate = [r \in Runs |-> "none"]
    /\ live = [r \in Runs |-> "none"]
    /\ active = FALSE

Fixed   == UNCHANGED <<playbook, phaseOrder>>
Goes(r, where) == pc' = [pc EXCEPT ![r] = where]

(* Every event copies the engine's status to the route's record.            *)
Emit(r) == live' = [live EXCEPT ![r] = status[r]]

-----------------------------------------------------------------------------
(* The request *)

(* The lock is looked at; then the kind and the content of the files are    *)
(* awaited.                                                                 *)
Post(r) ==
    /\ \A q \in Runs : pc[q] = "idle" <=> q >= r
    /\ Goes(r, IF active THEN "refused" ELSE "checked")
    /\ Fixed /\ UNCHANGED <<at, phase, agent, status, aborted, gate, live, active>>

(* The file, or the inputs, are refused.                                    *)
Refuse(r) ==
    /\ pc[r] = "checked"
    /\ Goes(r, "refused")
    /\ Fixed /\ UNCHANGED <<at, phase, agent, status, aborted, gate, live, active>>

Launch(r) ==
    /\ pc[r] = "checked"
    /\ Goes(r, "hooks")
    /\ active' = TRUE
    /\ live' = [live EXCEPT ![r] = "running"]
    /\ Fixed /\ UNCHANGED <<at, phase, agent, status, aborted, gate>>

(* A fault: only the success of the promise releases the lock.              *)
ReleaseNever == active

Release == FALSE

(* A prerequisite is missing or a directory cannot be made: runPlaybook     *)
(* rejects.                                                                 *)
Reject(r) ==
    /\ pc[r] = "hooks"
    /\ Goes(r, "gone")
    /\ active' = Release
    /\ live' = [live EXCEPT ![r] = "failed"]
    /\ Fixed /\ UNCHANGED <<at, phase, agent, status, aborted, gate>>

(* The hooks are over: the run is registered.  It could not be killed       *)
(* before.                                                                  *)
Begin(r) ==
    /\ pc[r] = "hooks"
    /\ Goes(r, "next")
    /\ status' = [status EXCEPT ![r] = "running"]
    /\ live' = [live EXCEPT ![r] = "running"]
    /\ Fixed /\ UNCHANGED <<at, phase, agent, aborted, gate, active>>

-----------------------------------------------------------------------------
(* Phases *)

PhaseIs(r, st) == phase' = [phase EXCEPT ![r][Cur(r)] = st]
Passed(r)      == at' = [at EXCEPT ![r] = @ + 1]

Enter(r) ==
    /\ pc[r] = "next" /\ at[r] < Len(Phases)
    /\ ~aborted[r]
    /\ IF Type(Cur(r)) = "ignored"
       THEN PhaseIs(r, "skipped") /\ Passed(r) /\ UNCHANGED pc
       ELSE PhaseIs(r, "running") /\ Goes(r, "work") /\ UNCHANGED at
    /\ Emit(r)
    /\ Fixed /\ UNCHANGED <<agent, status, aborted, gate, active>>

(* The loop sees the kill.                                                  *)
Stop(r) ==
    /\ pc[r] = "next" /\ at[r] < Len(Phases)
    /\ aborted[r]
    /\ Goes(r, "landing")
    /\ status' = [status EXCEPT ![r] = "failed"]
    /\ Fixed /\ UNCHANGED <<at, phase, agent, aborted, gate, live, active>>

AtWork(r) == pc[r] = "work" /\ AgentsIn(r, Cur(r), "running") = {}
Todo(r)   == AgentsIn(r, Cur(r), "pending")
Serial(r) == Type(Cur(r)) # "parallel"

(* A fault: an agent that could not be started fails a parallel phase only  *)
(* if no other agent of it is left.                                         *)
BrokenIfAll(r) == AgentsIn(r, Cur(r), "failed") = Slots(Cur(r))

(* What fails a phase.  The promises of a parallel one are awaited with     *)
(* allSettled: those that reject are not looked at.                         *)
Broken(r) ==
    \/ AgentsIn(r, Cur(r), "failed") # {}
    \/ Serial(r) /\ AgentsIn(r, Cur(r), "rejected") # {}

(* A fault: a parallel phase looks for a kill before its first batch only.  *)
ChecksOnce(r) == Serial(r) \/ Todo(r) = Slots(Cur(r))

(* A handoff looks for a kill before an iteration, not before the review.   *)
ChecksAbort(r) == Type(Cur(r)) = "handoff" => Min(Todo(r)) % 2 = 1

(* The next agent, or the next batch.                                       *)
Starting(r) ==
    LET i == Min(Todo(r))
    IN  IF Serial(r) THEN {i} ELSE Slots(Cur(r)) \cap i..(i + Batch - 1)

StartAgents(r) ==
    /\ AtWork(r) /\ Todo(r) # {}
    /\ Serial(r) => ~Broken(r)
    /\ ~(aborted[r] /\ ChecksAbort(r))
    /\ agent' = [agent EXCEPT ![r][Cur(r)] =
                   [i \in Slots(Cur(r)) |-> IF i \in Starting(r) THEN "running" ELSE @[i]]]
    /\ Emit(r)
    /\ Fixed /\ UNCHANGED <<pc, at, phase, status, aborted, gate, active>>

(* The agent writes its output, fails or times out; or an exception before  *)
(* that rejects its promise.                                                *)
EndAgent(r) ==
    /\ pc[r] = "work"
    /\ \E i \in AgentsIn(r, Cur(r), "running"), st \in {"completed", "failed", "rejected"} :
         /\ agent' = [agent EXCEPT ![r][Cur(r)][i] = st]
         /\ IF st = "rejected" THEN UNCHANGED live ELSE Emit(r)
    /\ Fixed /\ UNCHANGED <<pc, at, phase, status, aborted, gate, active>>

(* Terminal output is an event, too, and comes from sessions whose agents   *)
(* count as ended as well; another event is an output that has landed.      *)
Output(r) ==
    /\ \/ /\ pc[r] \in {"next", "work", "waiting", "landing", "over"}
          /\ \E p \in Ids : AgentsIn(r, p, "pending") # Slots(p)
       \/ pc[r] = "landing"
    /\ Emit(r)
    /\ Fixed /\ UNCHANGED <<pc, at, phase, agent, status, aborted, gate, active>>

(* A fault: the phase that failed is tried again, not skipped.              *)
FailAndRetry(r) ==
    /\ PhaseIs(r, "failed")
    /\ gate' = [gate EXCEPT ![r] = "none"]
    /\ Emit(r)
    /\ IF playbook.skip THEN Goes(r, "next") /\ UNCHANGED <<at, status>>
       ELSE /\ Goes(r, "landing") /\ UNCHANGED at
            /\ status' = [status EXCEPT ![r] = "failed"]

(* The catch of a phase: the next phase is tried, or the run ends.  A run   *)
(* paused at a rejected gate goes on as paused.                             *)
Fail(r) ==
    /\ PhaseIs(r, "failed")
    /\ gate' = [gate EXCEPT ![r] = "none"]
    /\ Emit(r)
    /\ IF playbook.skip THEN Goes(r, "next") /\ Passed(r) /\ UNCHANGED status
       ELSE /\ Goes(r, "landing") /\ UNCHANGED at
            /\ status' = [status EXCEPT ![r] = "failed"]

(* A kill, a failed agent, or files of the shared context that cannot be    *)
(* read before a parallel phase or written after it.                        *)
FailWork(r) ==
    /\ AtWork(r)
    /\ \/ Todo(r) # {} /\ aborted[r] /\ ChecksAbort(r)
       \/ (Serial(r) \/ Todo(r) = {}) /\ Broken(r)
       \/ ~Serial(r) /\ Todo(r) \in {{}, Slots(Cur(r))}
    /\ Fail(r)
    /\ Fixed /\ UNCHANGED <<agent, aborted, active>>

(* All agents are through; the review of a handoff may accept early, and    *)
(* the last one need not accept.                                            *)
WorkIsDone(r) ==
    /\ AtWork(r)
    /\ ~Broken(r)
    /\ Todo(r) # {} => /\ Type(Cur(r)) = "handoff"
                       /\ Min(Todo(r)) % 2 = 1 /\ Min(Todo(r)) > 1

IsGate(r) == Type(Cur(r)) \in {"gate", "human"}

Complete(r) == PhaseIs(r, "completed") /\ Passed(r) /\ Goes(r, "next")

CompletePhase(r) ==
    /\ WorkIsDone(r) /\ ~IsGate(r)
    /\ Complete(r)
    /\ Emit(r)
    /\ Fixed /\ UNCHANGED <<agent, status, aborted, gate, active>>

(* The event goes out before the status changes; nobody looks for a kill.   *)
OpenGate(r) ==
    /\ WorkIsDone(r) /\ IsGate(r)
    /\ Goes(r, "waiting")
    /\ gate' = [gate EXCEPT ![r] = Type(Cur(r))]
    /\ Emit(r)
    /\ status' = [status EXCEPT ![r] = "paused"]
    /\ Fixed /\ UNCHANGED <<at, phase, agent, aborted, active>>

-----------------------------------------------------------------------------
(* Gates *)

(* The run goes on, with an event.                                          *)
Resume(r) ==
    /\ status' = [status EXCEPT ![r] = "running"]
    /\ live' = [live EXCEPT ![r] = "running"]
    /\ gate' = [gate EXCEPT ![r] = "none"]

(* approve, which also answers for a human, and human_input.                *)
Approve(r) ==
    /\ gate[r] # "none"
    /\ Complete(r)
    /\ Resume(r)
    /\ Fixed /\ UNCHANGED <<agent, aborted, active>>

(* The human's words cannot be written.                                     *)
LoseAnswer(r) ==
    /\ gate[r] = "human"
    /\ PhaseIs(r, "failed")
    /\ gate' = [gate EXCEPT ![r] = "none"]
    /\ live' = [live EXCEPT ![r] = "running"]
    /\ IF playbook.skip
       THEN Goes(r, "next") /\ Passed(r) /\ status' = [status EXCEPT ![r] = "running"]
       ELSE Goes(r, "landing") /\ UNCHANGED at /\ status' = [status EXCEPT ![r] = "failed"]
    /\ Fixed /\ UNCHANGED <<agent, aborted, active>>

RejectGate(r) ==
    /\ gate[r] # "none"
    /\ Fail(r)
    /\ Fixed /\ UNCHANGED <<agent, aborted, active>>

TimeOut(r) ==
    /\ gate[r] # "none"
    /\ IF gate[r] = "human" /\ Phases[Cur(r)].lenient
       THEN PhaseIs(r, "skipped") /\ Passed(r) /\ Goes(r, "next") /\ Resume(r)
       ELSE Fail(r)
    /\ Fixed /\ UNCHANGED <<agent, aborted, active>>

-----------------------------------------------------------------------------
(* Kill, and the end *)

KillFlag(r) ==
    /\ pc[r] \in {"next", "work", "waiting", "landing", "over"}
    /\ aborted' = [aborted EXCEPT ![r] = TRUE]
    /\ active' = FALSE
    /\ Fixed /\ UNCHANGED agent

(* A fault: the pending gate is forgotten, not rejected.                    *)
KillForgets(r) ==
    /\ KillFlag(r)
    /\ live' = [live EXCEPT ![r] = "failed"]
    /\ gate' = [gate EXCEPT ![r] = "none"]
    /\ UNCHANGED <<pc, at, phase, status>>

(* The flag is set, a pending gate rejected, the route's record closed and  *)
(* the lock released; agents go on.  The rejected gate emits an event.      *)
Kill(r) ==
    /\ KillFlag(r)
    /\ IF gate[r] # "none" THEN Fail(r)
       ELSE /\ live' = [live EXCEPT ![r] = "failed"]
            /\ UNCHANGED <<pc, at, phase, status, gate>>

AllDone(r) == \A p \in Ids : phase[r][p] \in {"completed", "skipped"}

Conclude(r) ==
    /\ pc[r] = "next" /\ at[r] = Len(Phases)
    /\ Goes(r, "landing")
    /\ status' = [status EXCEPT ![r] = IF AllDone(r) THEN "completed" ELSE "failed"]
    /\ Fixed /\ UNCHANGED <<at, phase, agent, aborted, gate, live, active>>

(* Hooks and landed outputs; the promise resolves.                          *)
EndRun(r) ==
    /\ pc[r] = "landing"
    /\ Goes(r, "over")
    /\ Emit(r)
    /\ active' = Release
    /\ Fixed /\ UNCHANGED <<at, phase, agent, status, aborted, gate>>

(* Ten minutes later.  Of a run that was rejected only the route's record   *)
(* is left.                                                                 *)
Evict(r) ==
    /\ pc[r] = "over" \/ (pc[r] = "gone" /\ live[r] # "none")
    /\ Goes(r, "gone")
    /\ live' = [live EXCEPT ![r] = "none"]
    /\ Fixed /\ UNCHANGED <<at, phase, agent, status, aborted, gate, active>>

(* What happens without any request.                                        *)
Advance(r) ==
    \/ Reject(r) \/ Begin(r)
    \/ Enter(r) \/ Stop(r) \/ Conclude(r)
    \/ StartAgents(r) \/ EndAgent(r)
    \/ FailWork(r) \/ CompletePhase(r) \/ OpenGate(r) \/ TimeOut(r)
    \/ EndRun(r)

Next ==
    \E r \in Runs :
       \/ Post(r) \/ Refuse(r) \/ Launch(r)
       \/ Advance(r) \/ Output(r) \/ Evict(r)
       \/ Approve(r) \/ LoseAnswer(r) \/ RejectGate(r) \/ Kill(r)

(* Hooks and agents have timeouts, gates have timers; nothing is assumed of *)
(* who answers gates or kills runs.                                         *)
Spec == Init /\ [][Next]_vars /\ \A r \in Runs : WF_vars(Advance(r))

-----------------------------------------------------------------------------
(* Properties *)

StartsInTurn(r, p, i) ==
    agent[r][p][i] # "running" /\ agent'[r][p][i] = "running" =>
       /\ \A d \in Phases[p].deps :
            phase[r][d] \in {"completed", "skipped"} \cup (IF playbook.skip THEN {"failed"} ELSE {})
       /\ aborted[r] => Type(p) = "handoff" /\ i % 2 = 0
       /\ Cardinality({j \in Slots(p) : agent'[r][p][j] = "running"}) <= Batch

(* An agent starts only when the phases that its phase depends on are over  *)
(* (with strategy skip also if they failed), never more than a batch at a   *)
(* time, and never after the run was killed, but for the review of an       *)
(* iteration that had begun.                                                *)
AgentsStartInTurn ==
    [][\A r \in Runs, p \in Ids : \A i \in Slots(p) : StartsInTurn(r, p, i)]_vars

(* Whatever runs overlap, fail early, are killed or outlive their kill: the *)
(* lock is held only while some run is in progress.                         *)
LockIsReleased ==
    active => \E r \in Runs : pc[r] \in {"hooks", "next", "work", "waiting", "landing"}

(* What ends as completed has no phase that failed, or was not reached, and *)
(* no agent that failed, except one whose promise a parallel phase ignored. *)
CompletedIsComplete ==
    \A r \in Runs : "completed" \in {status[r], live[r]} =>
       /\ pc[r] \in {"landing", "over", "gone"}
       /\ \A p \in Ids :
            \/ phase[r][p] = "skipped"
            \/ /\ phase[r][p] = "completed"
               /\ AgentsIn(r, p, "running") \cup AgentsIn(r, p, "failed") = {}
               /\ AgentsIn(r, p, "rejected") # {} => Type(p) = "parallel"
               /\ AgentsIn(r, p, "pending") # {} => Type(p) = "handoff"

(* What ends as failed was killed, or has a phase that failed.              *)
FailedHasReason ==
    \A r \in Runs : status[r] = "failed" => aborted[r] \/ \E p \in Ids : phase[r][p] = "failed"

(* The route and the engine report what happened, in these three parts, and *)
(* no run waits at a gate that is not there (TypeOK).                       *)
ReportIsTrue == TypeOK /\ LockIsReleased /\ CompletedIsComplete /\ FailedHasReason

(* A run that was launched ends, however its agents end and whether or not  *)
(* anybody answers it or kills it.                                          *)
RunEnds == \A r \in Runs : pc[r] = "hooks" ~> pc[r] \in {"over", "gone"}

=============================================================================
