---------------------------- MODULE MCConductor ----------------------------
(* Small plans for model checking the conductor. *)
EXTENDS ConductorImpl, TLC

CONSTANTS ta, tb, tc, td, c1, c2

(* ta and tb independent, tc after both. *)
JoinTasks == {ta, tb, tc}
JoinDeps  == [t \in JoinTasks |-> IF t = tc THEN {ta, tb} ELSE {}]
JoinOrder == <<ta, tb, tc>>

(* ta, tb, tc independent, td after ta and tb. *)
FanTasks == {ta, tb, tc, td}
FanDeps  == [t \in FanTasks |-> IF t = td THEN {ta, tb} ELSE {}]
FanOrder == <<ta, tb, tc, td>>

(* tc after tb after ta. *)
ChainDeps == [t \in JoinTasks |-> IF t = tc THEN {tb} ELSE IF t = tb THEN {ta} ELSE {}]

(* tb after ta. *)
PairTasks == {ta, tb}
PairDeps  == [t \in PairTasks |-> IF t = tb THEN {ta} ELSE {}]
PairOrder == <<ta, tb>>

(* tc after ta; tb independent. *)
ForkDeps == [t \in JoinTasks |-> IF t = tc THEN {ta} ELSE {}]

(* ta and tb independent. *)
FreeDeps == [t \in PairTasks |-> {}]

OneClient  == {c1}
TwoClients == {c1, c2}

(* Requests are interchangeable. *)
ClientSymmetry == Permutations(TwoClients)

(* The state right after a lone approval: the runs that are about what     *)
(* operators do to a started run begin here and spend no operation on it.  *)
StartedInit ==
    /\ disk = [NewRun EXCEPT !.status = "running"]
    /\ sess = [s \in Tasks \X Attempts |-> [pc |-> "unused", st |-> "none"]]
    /\ queue = <<DispatchJob>>
    /\ job = NoJob
    /\ client = [c \in Clients |-> Idle]
    /\ checks = 0
    /\ pms = 0
    /\ boot = FALSE
    /\ ops = 0
    /\ crashes = 0

StartedSpec == StartedInit /\ [][Next]_vars

StartedFairSpec == StartedSpec /\ Fairness

=============================================================================
