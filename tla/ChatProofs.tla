----------------------------- MODULE ChatProofs -----------------------------
(***************************************************************************)
(* Proofs about ChatRuns: every invariant of the module, for all channels, *)
(* agents, caps and bounds.  Four parts are kept apart: the turns with     *)
(* registry and check-ins (TurnInv), the live proposals with their audit   *)
(* rows (HistInv), the rows that turns carry out (CarriedInv), and the     *)
(* runs bound to rows (BindingsAreSound).  Most steps change the history   *)
(* only by what Grows allows, which is all the last two parts depend on.   *)
(***************************************************************************)
EXTENDS ChatRuns, TLAPS

TurnRec ==
    [st : {"idle", "deciding", "acking", "starting", "working", "tool", "returned", "done"},
     chat : Chats \cup {None}, agent : Agents \cup {Inbox, None, Text, Tool},
     row : 0..MaxProposals, started : BOOLEAN]

Proposal ==
    [agent : Agents \cup {Inbox, None}, age : {"fresh", "expired", "gone"}, row : 0..MaxProposals]

AuditRow ==
    [chat : Chats, agent : Agents \cup {Inbox}, res : Resolutions \cup {"open"},
     run : {0} \cup Turns]

TurnInv ==
    /\ turn \in [Turns -> TurnRec]
    /\ \A m \in Turns : turn[m].st \notin {"idle", "done"} => turn[m].chat \in Chats
    /\ active \subseteq AtWork
    /\ checkin \in [Turns -> {"off", "armed", "sending", "landed"}]
    /\ \A m \in Turns : checkin[m] = "armed" => turn[m].st \in {"starting", "working"}
    /\ \A m \in Turns : checkin[m] = "sending" => turn[m].st \in {"starting", "working", "returned"}

HistInv ==
    /\ pending \in [Chats -> Proposal]
    /\ history \in Seq(AuditRow)
    /\ Len(history) <= MaxProposals
    /\ AuditMatchesLive
    /\ \A c \in Chats : Waits(c) => history[pending[c].row].agent = pending[c].agent

CarriedInv ==
    /\ \A m \in Turns : turn[m].row # 0 => turn[m].row \in DOMAIN history
    /\ ProposalRunsOnce

IInv == TurnInv /\ HistInv /\ CarriedInv /\ BindingsAreSound

(* Rows are only added; of an older row only an open resolution changes.    *)
Grows ==
    /\ DOMAIN history \subseteq DOMAIN history'
    /\ \A r \in DOMAIN history :
         /\ history'[r].chat = history[r].chat /\ history'[r].agent = history[r].agent
         /\ history'[r].run = history[r].run
         /\ history[r].res # "open" => history'[r].res = history[r].res
    /\ \A r \in DOMAIN history' : r \notin DOMAIN history => history'[r].run = 0

-----------------------------------------------------------------------------

LEMMA BoundsAreNat == MaxProposals \in Nat /\ MaxTurns \in Nat
<1>1. {PerJidCap, GlobalCap, MaxProposals, MaxTurns, MaxAtOnce} \subseteq Nat
  BY ChatAssumption
<1>2. QED
  BY <1>1

LEMMA InitInv == Init => IInv
<1> SUFFICES ASSUME Init PROVE IInv
  OBVIOUS
<1>1. TurnInv
  <2>1. NoTurn \in TurnRec
    BY BoundsAreNat DEF NoTurn, TurnRec
  <2>2. QED
    BY <2>1 DEF Init, TurnInv, NoTurn
<1>2. HistInv
  <2>1. NoProposal \in Proposal
    BY BoundsAreNat DEF NoProposal, Proposal
  <2>2. history = <<>> /\ history \in Seq(AuditRow) /\ Len(history) = 0 /\ 0 <= MaxProposals
    BY BoundsAreNat DEF Init
  <2>3. \A c \in Chats : ~Waits(c)
    BY DEF Init, Waits
  <2>4. QED
    BY <2>1, <2>2, <2>3 DEF Init, HistInv, AuditMatchesLive, OpenRows
<1>3. CarriedInv /\ BindingsAreSound
  BY DEF Init, CarriedInv, ProposalRunsOnce, BindingsAreSound, NoTurn
<1>4. QED
  BY <1>1, <1>2, <1>3 DEF IInv

-----------------------------------------------------------------------------
(* Proposals and audit rows *)

(* The open row is the one that belongs to the waiting proposal.            *)
LEMMA OpenRowIsWaiting ==
    ASSUME HistInv, NEW c \in Chats, Waits(c)
    PROVE  OpenRows(c) = {pending[c].row} /\ OpenRow(c) = pending[c].row
<1>1. pending[c].row \in OpenRows(c)
  BY DEF HistInv, AuditMatchesLive
<1>2. \A r \in OpenRows(c) : r \in Nat /\ r \in DOMAIN history /\ history[r].chat = c
  BY DEF OpenRows, HistInv
<1>3. \A r, q \in OpenRows(c) : q <= r
  BY <1>2 DEF HistInv, AuditMatchesLive
<1>4. OpenRows(c) = {pending[c].row}
  <2>1. \A r \in OpenRows(c) : r = pending[c].row
    BY <1>1, <1>2, <1>3
  <2>2. QED
    BY <1>1, <2>1
<1>5. QED
  BY <1>2, <1>3, <1>4 DEF OpenRow

LEMMA ResolveKeeps ==
    ASSUME HistInv, NEW c \in Chats, Waits(c), NEW res \in Resolutions, ResolvePending(c, res)
    PROVE  HistInv' /\ Grows /\ history'[pending[c].row].res = res
<1> DEFINE w == pending[c].row
<1>1. OpenRows(c) = {w} /\ OpenRow(c) = w /\ res # "open"
  BY OpenRowIsWaiting DEF Resolutions
<1>2. w \in DOMAIN history /\ history[w] \in AuditRow /\ history[w].res = "open"
      /\ history[w].chat = c
  BY <1>1 DEF OpenRows, HistInv
<1>3. history' = [history EXCEPT ![w] = [history[w] EXCEPT !.res = res]]
  <2>1. history' = [r \in DOMAIN history |-> IF r = w THEN [history[r] EXCEPT !.res = res]
                                             ELSE history[r]]
    BY <1>1 DEF ResolvePending, HistoryResolved
  <2>2. QED
    BY <2>1 DEF HistInv
<1>4. [history[w] EXCEPT !.res = res] \in AuditRow
  BY <1>2 DEF AuditRow
<1>5. /\ history' \in Seq(AuditRow) /\ Len(history') = Len(history) /\ DOMAIN history' = DOMAIN history
      /\ \A r \in DOMAIN history : r # w => history'[r] = history[r]
      /\ history'[w] = [history[w] EXCEPT !.res = res]
  BY <1>2, <1>3, <1>4 DEF HistInv
<1>6. /\ history'[w].res = res /\ history'[w].chat = c
      /\ history'[w].agent = history[w].agent /\ history'[w].run = history[w].run
  BY <1>2, <1>5 DEF AuditRow
<1>7. Grows
  BY <1>2, <1>5, <1>6 DEF Grows
<1>8. pending' = [pending EXCEPT ![c] = NoProposal]
  BY DEF ResolvePending, LiveCleared
<1>9. pending' \in [Chats -> Proposal]
  BY <1>8, BoundsAreNat DEF HistInv, NoProposal, Proposal
<1>10. \A d \in Chats : OpenRows(d)' = OpenRows(d) \ {w}
  BY <1>1, <1>2, <1>5, <1>6 DEF OpenRows
<1>11. \A d \in Chats : Waits(d)' => d # c /\ pending'[d] = pending[d] /\ Waits(d)
  BY <1>8 DEF Waits, HistInv
<1>12. \A d \in Chats : d # c => w \notin OpenRows(d)
  BY <1>2 DEF OpenRows
<1>13. AuditMatchesLive'
  <2> SUFFICES ASSUME NEW d \in Chats
               PROVE  /\ \A r \in OpenRows(d)', q \in DOMAIN history' : history'[q].chat = d => q <= r
                      /\ Waits(d)' => pending'[d].row \in OpenRows(d)'
    BY DEF AuditMatchesLive
  <2>1. \A q \in DOMAIN history' : q \in DOMAIN history /\ history'[q].chat = history[q].chat
    BY <1>2, <1>5, <1>6
  <2>2. \A r \in OpenRows(d)', q \in DOMAIN history' : history'[q].chat = d => q <= r
    BY <1>10, <2>1 DEF HistInv, AuditMatchesLive
  <2>3. Waits(d)' => pending'[d].row \in OpenRows(d)'
    BY <1>10, <1>11, <1>12 DEF HistInv, AuditMatchesLive
  <2>4. QED
    BY <2>2, <2>3
<1>14. \A d \in Chats : Waits(d)' => history'[pending'[d].row].agent = pending'[d].agent
  <2> SUFFICES ASSUME NEW d \in Chats, Waits(d)'
               PROVE  history'[pending'[d].row].agent = pending'[d].agent
    OBVIOUS
  <2>1. pending[d].row \in OpenRows(d) /\ history[pending[d].row].agent = pending[d].agent
    BY <1>11 DEF HistInv, AuditMatchesLive
  <2>2. pending[d].row # w /\ pending[d].row \in DOMAIN history
    BY <1>11, <1>12, <2>1 DEF OpenRows
  <2>3. QED
    BY <1>5, <1>11, <2>1, <2>2
<1>15. QED
  BY <1>5, <1>6, <1>7, <1>9, <1>13, <1>14 DEF HistInv

LEMMA NoLiveKeeps ==
    ASSUME HistInv, NEW c \in Chats, NoLive(c)
    PROVE  HistInv' /\ Grows
<1>1. history' = history /\ pending' = [pending EXCEPT ![c] = NoProposal]
  BY DEF NoLive, LiveCleared
<1>2. pending' \in [Chats -> Proposal]
  BY <1>1, BoundsAreNat DEF HistInv, NoProposal, Proposal
<1>3. \A d \in Chats : Waits(d)' => pending'[d] = pending[d] /\ Waits(d)
  BY <1>1 DEF Waits, HistInv
<1>4. QED
  BY <1>1, <1>2, <1>3 DEF HistInv, AuditMatchesLive, OpenRows, Grows

(* A new proposal: the rows still open for the chat are superseded.         *)
LEMMA SetPendingKeeps ==
    ASSUME HistInv, NEW c \in Chats, NEW a \in Agents \cup {Inbox}, SetPending(c, a)
    PROVE  HistInv' /\ Grows
<1> DEFINE n == Len(history) + 1
           new == [chat |-> c, agent |-> a, res |-> "open", run |-> 0]
           old == Superseded(c)
<1>1. Len(history) \in Nat /\ n <= MaxProposals /\ n \in 1..MaxProposals
  BY BoundsAreNat DEF SetPending, HistInv
<1>2. new \in AuditRow
  BY DEF AuditRow
<1>3. ASSUME NEW r \in DOMAIN history
      PROVE  /\ old[r] \in AuditRow /\ old[r].chat = history[r].chat
             /\ old[r].agent = history[r].agent /\ old[r].run = history[r].run
             /\ history[r].res # "open" => old[r] = history[r]
             /\ old[r].res = "open" => history[r].res = "open" /\ history[r].chat # c
             /\ history[r].chat # c => old[r] = history[r]
  <2>1. history[r] \in AuditRow
    BY DEF HistInv
  <2>2. CASE r \in OpenRows(c)
    <3>1. old[r] = [history[r] EXCEPT !.res = "superseded"] /\ history[r].res = "open"
          /\ history[r].chat = c
      BY <2>2 DEF Superseded, OpenRows
    <3>2. [history[r] EXCEPT !.res = "superseded"] \in AuditRow
      BY <2>1 DEF AuditRow, Resolutions
    <3>3. QED
      BY <2>1, <3>1, <3>2 DEF AuditRow
  <2>3. CASE r \notin OpenRows(c)
    BY <2>1, <2>3 DEF Superseded, OpenRows
  <2>4. QED
    BY <2>2, <2>3
<1>4. old \in Seq(AuditRow) /\ Len(old) = Len(history) /\ DOMAIN old = DOMAIN history
  <2>1. DOMAIN history = 1..Len(history)
    BY DEF HistInv
  <2>2. old \in [1..Len(history) -> AuditRow]
    BY <1>3, <2>1 DEF Superseded
  <2>3. QED
    BY <1>1, <2>1, <2>2
<1>5. /\ history' \in Seq(AuditRow) /\ Len(history') = n
      /\ DOMAIN history = 1..Len(history) /\ DOMAIN history' = 1..n
      /\ history'[n] = new /\ \A r \in DOMAIN history : history'[r] = old[r]
  <2>1. history' = Append(old, new)
    BY DEF SetPending
  <2>2. QED
    BY <1>1, <1>2, <1>4, <2>1 DEF HistInv
<1>6. DOMAIN history' = DOMAIN history \cup {n} /\ n \notin DOMAIN history
  BY <1>1, <1>5
<1>7. Grows
  BY <1>3, <1>5, <1>6 DEF Grows
<1>8. pending' = [d \in Chats |-> IF d = c THEN [agent |-> a, age |-> "fresh", row |-> n]
                                  ELSE IF pending[d].age = "gone" THEN NoProposal
                                  ELSE pending[d]]
  BY DEF SetPending
<1>9. pending' \in [Chats -> Proposal]
  BY <1>1, <1>8, BoundsAreNat DEF HistInv, NoProposal, Proposal
<1>10. OpenRows(c)' = {n}
  BY <1>3, <1>5, <1>6 DEF OpenRows
<1>11. \A d \in Chats : d # c => OpenRows(d)' = OpenRows(d)
  BY <1>3, <1>5, <1>6 DEF OpenRows
<1>12. ASSUME NEW d \in Chats
       PROVE  \A r \in OpenRows(d)', q \in DOMAIN history' : history'[q].chat = d => q <= r
  <2>1. CASE d = c
    BY <1>1, <1>5, <1>10, <2>1
  <2>2. CASE d # c
    <3> SUFFICES ASSUME NEW r \in OpenRows(d), NEW q \in DOMAIN history', history'[q].chat = d
                 PROVE  q <= r
      BY <1>11, <2>2
    <3>1. q \in DOMAIN history /\ history[q].chat = d
      BY <1>3, <1>5, <1>6, <2>2
    <3>2. QED
      BY <3>1 DEF HistInv, AuditMatchesLive
  <2>3. QED
    BY <2>1, <2>2
<1>13. ASSUME NEW d \in Chats, Waits(d)'
       PROVE  /\ pending'[d].row \in OpenRows(d)'
              /\ history'[pending'[d].row].agent = pending'[d].agent
  <2>1. CASE d = c
    BY <1>5, <1>8, <1>10, <2>1
  <2>2. CASE d # c
    <3>1. pending'[d] = pending[d] /\ Waits(d)
      BY <1>8, <1>13, <2>2 DEF Waits
    <3>2. pending[d].row \in OpenRows(d) /\ history[pending[d].row].agent = pending[d].agent
      BY <3>1 DEF HistInv, AuditMatchesLive
    <3>3. pending[d].row \in DOMAIN history
      BY <3>2 DEF OpenRows
    <3>4. QED
      BY <1>3, <1>5, <1>11, <2>2, <3>1, <3>2, <3>3
  <2>3. QED
    BY <2>1, <2>2
<1>14. AuditMatchesLive'
  BY <1>12, <1>13 DEF AuditMatchesLive
<1>15. QED
  BY <1>1, <1>5, <1>7, <1>9, <1>13, <1>14 DEF HistInv

-----------------------------------------------------------------------------
(* What the history may change leaves carried rows and bound runs as they   *)
(* are.                                                                     *)

LEMMA CarriedFrame ==
    ASSUME CarriedInv, Grows,
           \A m \in Turns : turn'[m].row # 0 =>
              /\ turn'[m].row = turn[m].row
              /\ turn'[m].chat = turn[m].chat /\ turn'[m].agent = turn[m].agent
    PROVE  CarriedInv'
<1>1. \A m \in Turns : turn[m].row # 0 =>
         /\ turn[m].row \in DOMAIN history /\ history[turn[m].row].res = "confirm"
         /\ history[turn[m].row].chat = turn[m].chat
         /\ history[turn[m].row].agent = turn[m].agent
  BY DEF CarriedInv, ProposalRunsOnce
<1>2. \A m \in Turns : turn'[m].row # 0 =>
         /\ turn'[m].row \in DOMAIN history' /\ history'[turn'[m].row].res = "confirm"
         /\ history'[turn'[m].row].chat = turn'[m].chat
         /\ history'[turn'[m].row].agent = turn'[m].agent
  BY <1>1 DEF Grows
<1>3. \A m, n \in Turns : turn'[m].row # 0 /\ turn'[m].row = turn'[n].row => m = n
  BY DEF CarriedInv, ProposalRunsOnce
<1>4. QED
  BY <1>2, <1>3 DEF CarriedInv, ProposalRunsOnce

LEMMA BoundFrame ==
    ASSUME HistInv, BindingsAreSound, Grows,
           \A m \in Turns : turn[m].st = "done" => turn'[m] = turn[m]
    PROVE  BindingsAreSound'
<1> SUFFICES ASSUME NEW r \in DOMAIN history', history'[r].run # 0
             PROVE  LET m == history'[r].run
                    IN /\ history'[r].res = "confirm"
                       /\ history'[r].chat = turn'[m].chat /\ history'[r].agent = turn'[m].agent
                       /\ turn'[m].st = "done"
                       /\ \A q \in DOMAIN history' : history'[q].run = m => q = r
  BY DEF BindingsAreSound
<1> DEFINE m == history[r].run
<1>1. r \in DOMAIN history /\ history'[r].run = m /\ m # 0
  BY DEF Grows
<1>2. /\ history[r].res = "confirm" /\ history[r].chat = turn[m].chat
      /\ history[r].agent = turn[m].agent /\ turn[m].st = "done"
      /\ \A q \in DOMAIN history : history[q].run = m => q = r
  BY <1>1 DEF BindingsAreSound
<1>3. history[r] \in AuditRow
  BY <1>1 DEF HistInv
<1>4. m \in Turns
  BY <1>1, <1>3 DEF AuditRow
<1>5. turn'[m] = turn[m]
  BY <1>2, <1>4
<1>6. \A q \in DOMAIN history' : history'[q].run = m => q \in DOMAIN history /\ history[q].run = m
  BY <1>1 DEF Grows
<1>7. QED
  BY <1>1, <1>2, <1>5, <1>6 DEF Grows

-----------------------------------------------------------------------------
(* Messages *)

LEMMA NewIsIdle ==
    ASSUME TurnInv, NEW m \in Turns, New(m)
    PROVE  turn[m].st = "idle" /\ m \notin active /\ checkin[m] \notin {"armed", "sending"}
<1>1. turn[m].st = "idle"
  BY DEF New, Turns
<1>2. QED
  BY <1>1 DEF TurnInv, AtWork

(* A message is taken in: its turn gets a record, registry entries may go.  *)
LEMMA TakenIn ==
    ASSUME TurnInv, NEW m \in Turns, New(m), NEW rec \in TurnRec,
           rec.st = "done" \/ (rec.st \in {"deciding", "acking"} /\ rec.chat \in Chats),
           turn' = [turn EXCEPT ![m] = rec], active' \subseteq active, checkin' = checkin
    PROVE  TurnInv'
<1>1. turn[m].st = "idle" /\ m \notin active /\ checkin[m] \notin {"armed", "sending"}
  BY NewIsIdle
<1>2. turn' \in [Turns -> TurnRec] /\ \A n \in Turns : n # m => turn'[n] = turn[n]
  BY DEF TurnInv
<1>3. active' \subseteq AtWork'
  BY <1>1, <1>2 DEF TurnInv, AtWork
<1>4. QED
  BY <1>1, <1>2, <1>3 DEF TurnInv

(* What a message does to the turns, whatever it says.                      *)
LEMMA ArriveTurns ==
    ASSUME IInv, NEW m \in Turns, NEW c \in Chats, Arrive(m, c)
    PROVE  /\ New(m) /\ active' \subseteq active /\ checkin' = checkin
           /\ \E rec \in TurnRec :
                /\ rec.st = "done" \/ (rec.st \in {"deciding", "acking"} /\ rec.chat \in Chats)
                /\ turn' = [turn EXCEPT ![m] = rec]
                /\ \/ rec.row = 0
                   \/ /\ Waits(c) /\ ResolvePending(c, "confirm")
                      /\ rec.chat = c /\ rec.agent = pending[c].agent /\ rec.row = pending[c].row
<1>1. New(m) /\ active' \subseteq active /\ checkin' = checkin
  BY DEF Arrive, CancelText, Decline, SwitchToWeb, Confirm, ConfirmAgain, Other, Quiet
<1> DEFINE over == [st |-> "done", chat |-> None, agent |-> Text, row |-> 0, started |-> FALSE]
           asks == [st |-> "deciding", chat |-> c, agent |-> None, row |-> 0, started |-> FALSE]
           runs(st) == [st |-> st, chat |-> c, agent |-> pending[c].agent,
                        row |-> pending[c].row, started |-> FALSE]
<1>2. over \in TurnRec /\ asks \in TurnRec
  BY BoundsAreNat DEF TurnRec
<1>3. CASE Ends(m)
  BY <1>1, <1>2, <1>3 DEF Ends, Becomes
<1>4. CASE Decides(m, c)
  BY <1>1, <1>2, <1>4 DEF Decides, Becomes
<1>5. CASE Confirm(m, c) /\ ~Ends(m)
  <2>1. Waits(c) /\ ResolvePending(c, "confirm")
    BY <1>5 DEF Confirm, Live
  <2>2. pending[c] \in Proposal
    BY DEF IInv, HistInv
  <2>3. runs("done") \in TurnRec /\ runs("acking") \in TurnRec
    BY <2>2 DEF TurnRec, Proposal
  <2>4. turn' = [turn EXCEPT ![m] = runs("done")] \/ turn' = [turn EXCEPT ![m] = runs("acking")]
    BY <1>5 DEF Confirm, Becomes
  <2>5. QED
    BY <1>1, <2>1, <2>3, <2>4
<1>6. QED
  BY <1>3, <1>4, <1>5 DEF Arrive, CancelText, Decline, SwitchToWeb, ConfirmAgain, Other

(* What a message does to proposals and audit rows.                         *)
LEMMA ArriveRows ==
    ASSUME IInv, NEW m \in Turns, NEW c \in Chats, Arrive(m, c)
    PROVE  HistInv' /\ Grows
<1>1. \/ Waits(c) /\ \E res \in Resolutions : ResolvePending(c, res)
      \/ NoLive(c)
  BY DEF Arrive, CancelText, Decline, SwitchToWeb, Confirm, ConfirmAgain, Other, Live, Resolutions
<1>2. QED
  BY <1>1, ResolveKeeps, NoLiveKeeps DEF IInv

LEMMA ArriveStep ==
    ASSUME IInv, NEW m \in Turns, NEW c \in Chats, Arrive(m, c)
    PROVE  IInv'
<1>1. HistInv' /\ Grows
  BY ArriveRows
<1>2. /\ New(m) /\ active' \subseteq active /\ checkin' = checkin
  BY ArriveTurns
<1>3. PICK rec \in TurnRec :
        /\ rec.st = "done" \/ (rec.st \in {"deciding", "acking"} /\ rec.chat \in Chats)
        /\ turn' = [turn EXCEPT ![m] = rec]
        /\ \/ rec.row = 0
           \/ /\ Waits(c) /\ ResolvePending(c, "confirm")
              /\ rec.chat = c /\ rec.agent = pending[c].agent /\ rec.row = pending[c].row
  BY ArriveTurns
<1>4. TurnInv'
  BY <1>2, <1>3, TakenIn DEF IInv
<1>5. turn'[m] = rec /\ \A n \in Turns : n # m => turn'[n] = turn[n]
  BY <1>3 DEF IInv, TurnInv
<1>6. turn[m].st = "idle"
  BY <1>2, NewIsIdle DEF IInv
<1>7. BindingsAreSound'
  BY <1>1, <1>5, <1>6, BoundFrame DEF IInv
<1>8. CarriedInv'
  <2>1. CASE rec.row = 0
    BY <1>1, <1>5, <2>1, CarriedFrame DEF IInv
  <2>2. CASE rec.row # 0
    <3> DEFINE w == pending[c].row
    <3>1. Waits(c) /\ ResolvePending(c, "confirm") /\ rec.chat = c /\ rec.row = w
          /\ rec.agent = pending[c].agent
      BY <1>3, <2>2
    <3>2. history'[w].res = "confirm"
      BY <3>1, ResolveKeeps DEF IInv, Resolutions
    <3>3. w \in DOMAIN history /\ history[w].res = "open" /\ history[w].chat = c
          /\ history[w].agent = pending[c].agent
      BY <3>1 DEF IInv, HistInv, AuditMatchesLive, OpenRows
    <3>4. \A n \in Turns : n # m /\ turn'[n].row # 0 =>
             /\ turn'[n].row \in DOMAIN history' /\ history'[turn'[n].row].res = "confirm"
             /\ history'[turn'[n].row].chat = turn'[n].chat
             /\ history'[turn'[n].row].agent = turn'[n].agent
             /\ turn'[n].row # w
      BY <1>1, <1>5, <3>3 DEF IInv, CarriedInv, ProposalRunsOnce, Grows
    <3>5. w \in DOMAIN history' /\ history'[w].chat = c /\ history'[w].agent = pending[c].agent
      BY <1>1, <3>3 DEF Grows
    <3>6. \A k, n \in Turns : turn'[k].row # 0 /\ turn'[k].row = turn'[n].row => k = n
      BY <1>5, <3>1, <3>4 DEF IInv, CarriedInv, ProposalRunsOnce
    <3>7. \A n \in Turns : turn'[n].row # 0 =>
             /\ turn'[n].row \in DOMAIN history' /\ history'[turn'[n].row].res = "confirm"
             /\ history'[turn'[n].row].chat = turn'[n].chat
             /\ history'[turn'[n].row].agent = turn'[n].agent
      BY <1>5, <3>1, <3>2, <3>4, <3>5
    <3>8. QED
      BY <3>6, <3>7 DEF CarriedInv, ProposalRunsOnce
  <2>3. QED
    BY <2>1, <2>2
<1>9. QED
  BY <1>1, <1>4, <1>7, <1>8 DEF IInv

-----------------------------------------------------------------------------
(* The steps of a turn *)

(* A step of a turn that leaves proposals and history alone.                *)
LEMMA TurnOnly ==
    ASSUME IInv, TurnInv', NEW m \in Turns, UNCHANGED <<pending, history>>, turn[m].st # "done",
           turn'[m].row # 0 =>
              /\ turn'[m].row = turn[m].row
              /\ turn'[m].chat = turn[m].chat /\ turn'[m].agent = turn[m].agent,
           \A n \in Turns : n # m => turn'[n] = turn[n]
    PROVE  IInv'
<1>1. Grows
  BY DEF Grows
<1>2. HistInv'
  BY DEF IInv, HistInv, AuditMatchesLive, OpenRows, Waits
<1>3. CarriedInv' /\ BindingsAreSound'
  BY <1>1, CarriedFrame, BoundFrame DEF IInv
<1>4. QED
  BY <1>2, <1>3 DEF IInv

(* The turn gets a new record, the registry and its check-in may change.    *)
LEMMA TurnSet ==
    ASSUME TurnInv, NEW m \in Turns, NEW rec \in TurnRec, turn' = [turn EXCEPT ![m] = rec],
           rec.st \in {"idle", "done"} \/ rec.chat \in Chats,
           active' \subseteq active \cup {m},
           m \in active' => rec.st \in {"working", "tool"} \/ (rec.st = "returned" /\ rec.chat \in Telegram),
           checkin' \in [Turns -> {"off", "armed", "sending", "landed"}],
           \A n \in Turns : n # m => checkin'[n] = checkin[n],
           checkin'[m] = "armed" => rec.st \in {"starting", "working"},
           checkin'[m] = "sending" => rec.st \in {"starting", "working", "returned"}
    PROVE  TurnInv' /\ turn'[m] = rec /\ \A n \in Turns : n # m => turn'[n] = turn[n]
<1>1. turn' \in [Turns -> TurnRec] /\ turn'[m] = rec /\ \A n \in Turns : n # m => turn'[n] = turn[n]
  BY DEF TurnInv
<1>2. active' \subseteq AtWork'
  BY <1>1 DEF TurnInv, AtWork
<1>3. QED
  BY <1>1, <1>2 DEF TurnInv

(* The model decides; a turn that decides is not registered.                *)
LEMMA DecideStep ==
    ASSUME IInv, NEW m \in Turns, Decide(m)
    PROVE  IInv'
<1>1. turn[m] \in TurnRec /\ turn[m].st = "deciding" /\ m \notin active
      /\ checkin[m] \notin {"armed", "sending"}
  BY DEF Decide, ProposeAgent, DispatchAgent, RunSkill, Answer, IInv, TurnInv, AtWork
<1>2. CASE ProposeAgent(m)
  <2>1. turn[m].chat \in Chats
    BY <1>1 DEF IInv, TurnInv
  <2>2. HistInv' /\ Grows
    BY <1>2, <2>1, SetPendingKeeps DEF ProposeAgent, IInv
  <2>3. TurnInv'
    BY <1>2 DEF ProposeAgent, IInv, TurnInv, AtWork
  <2>4. CarriedInv' /\ BindingsAreSound'
    BY <1>2, <2>2, CarriedFrame, BoundFrame DEF ProposeAgent, IInv
  <2>5. QED
    BY <2>2, <2>3, <2>4 DEF IInv
<1>3. CASE DispatchAgent(m) \/ RunSkill(m) \/ Answer(m)
  <2> DEFINE made(st, chat, agent) ==
               [st |-> st, chat |-> chat, agent |-> agent, row |-> 0, started |-> FALSE]
             c == turn[m].chat
  <2>1. c \in Chats /\ UNCHANGED <<checkin, pending, history>>
    BY <1>1, <1>3 DEF DispatchAgent, RunSkill, Answer, IInv, TurnInv
  <2>2. PICK rec \in TurnRec :
             /\ turn' = [turn EXCEPT ![m] = rec] /\ rec.row = 0
             /\ \/ rec.st = "acking" /\ rec.chat \in Chats /\ active' = active
                \/ rec.st = "done" /\ active' = active
                \/ rec.st = "tool" /\ rec.chat \in Chats /\ active' = active \cup {m}
    <3>1. made("done", None, Text) \in TurnRec /\ made("tool", c, Tool) \in TurnRec
          /\ \A a \in Agents : made("acking", c, a) \in TurnRec
      BY <2>1, BoundsAreNat DEF TurnRec
    <3>2. CASE Answer(m) \/ (DispatchAgent(m) /\ Ends(m))
      BY <3>1, <3>2 DEF Answer, DispatchAgent, Ends, Becomes
    <3>3. CASE RunSkill(m)
      BY <2>1, <3>1, <3>3 DEF RunSkill, Becomes
    <3>4. CASE DispatchAgent(m) /\ ~Ends(m)
      <4>1. PICK a \in Agents : Becomes(m, c, "acking", a, 0)
        BY <3>4 DEF DispatchAgent
      <4>2. turn' = [turn EXCEPT ![m] = made("acking", c, a)] /\ active' = active
        BY <3>4, <4>1 DEF DispatchAgent, Becomes
      <4>3. QED
        BY <2>1, <3>1, <4>2
    <3>5. QED
      BY <1>3, <3>2, <3>3, <3>4
  <2>3. TurnInv' /\ turn'[m] = rec /\ \A n \in Turns : n # m => turn'[n] = turn[n]
    BY <1>1, <2>1, <2>2, TurnSet DEF IInv, TurnInv
  <2>4. QED
    BY <1>1, <2>1, <2>2, <2>3, TurnOnly
<1>4. QED
  BY <1>2, <1>3 DEF Decide

LEMMA SkillReportsStep ==
    ASSUME IInv, NEW m \in Turns, SkillReports(m)
    PROVE  IInv'
<1> DEFINE rec == [st |-> "done", chat |-> None, agent |-> Text, row |-> 0, started |-> FALSE]
<1>1. /\ turn[m].st = "tool" /\ turn' = [turn EXCEPT ![m] = rec] /\ active' = active \ {m}
      /\ UNCHANGED <<checkin, pending, history>>
  BY DEF SkillReports, Ends, Becomes
<1>2. rec \in TurnRec /\ checkin[m] \notin {"armed", "sending"}
  BY <1>1, BoundsAreNat DEF TurnRec, IInv, TurnInv
<1>3. TurnInv' /\ turn'[m] = rec /\ \A n \in Turns : n # m => turn'[n] = turn[n]
  BY <1>1, <1>2, TurnSet DEF IInv, TurnInv
<1>4. QED
  BY <1>1, <1>3, TurnOnly

LEMMA AckSentStep ==
    ASSUME IInv, NEW m \in Turns, AckSent(m)
    PROVE  IInv'
<1> DEFINE rec == [turn[m] EXCEPT !.st = "starting"]
<1>1. /\ turn[m].st = "acking" /\ turn' = [turn EXCEPT ![m] = rec]
      /\ UNCHANGED <<active, pending, history>>
      /\ checkin' = [checkin EXCEPT ![m] = IF turn[m].chat \in Telegram THEN "off" ELSE "armed"]
  BY DEF AckSent
<1>2. turn[m] \in TurnRec /\ m \notin active
  BY <1>1 DEF IInv, TurnInv, AtWork
<1>3. rec \in TurnRec /\ rec.st = "starting" /\ rec.row = turn[m].row /\ rec.chat = turn[m].chat
      /\ rec.agent = turn[m].agent
  BY <1>2 DEF TurnRec
<1>4. TurnInv' /\ turn'[m] = rec /\ \A n \in Turns : n # m => turn'[n] = turn[n]
  BY <1>1, <1>2, <1>3, TurnSet DEF IInv, TurnInv
<1>5. QED
  BY <1>1, <1>3, <1>4, TurnOnly

LEMMA StartedStep ==
    ASSUME IInv, NEW m \in Turns, Started(m)
    PROVE  IInv'
<1> DEFINE rec == [turn[m] EXCEPT !.st = "working", !.started = TRUE]
<1>1. turn[m] \in TurnRec
  BY DEF IInv, TurnInv
<1>2. /\ turn[m].st = "starting" /\ turn' = [turn EXCEPT ![m] = rec]
      /\ active' = active \cup {m} /\ UNCHANGED <<checkin, pending, history>>
  BY <1>1 DEF Started, IInv, TurnInv
<1>3. rec \in TurnRec /\ rec.st = "working" /\ rec.row = turn[m].row /\ rec.chat = turn[m].chat
      /\ rec.agent = turn[m].agent
  BY <1>1 DEF TurnRec
<1>4. TurnInv' /\ turn'[m] = rec /\ \A n \in Turns : n # m => turn'[n] = turn[n]
  BY <1>2, <1>3, TurnSet DEF IInv, TurnInv
<1>5. QED
  BY <1>2, <1>3, <1>4, TurnOnly

LEMMA CheckInStep ==
    ASSUME IInv, NEW m \in Turns, CheckIn(m) \/ CheckInLands(m)
    PROVE  IInv'
<1>1. /\ UNCHANGED <<turn, active, pending, history>>
      /\ \A n \in Turns : n # m => checkin'[n] = checkin[n]
      /\ checkin' \in [Turns -> {"off", "armed", "sending", "landed"}]
      /\ checkin'[m] # "armed"
      /\ checkin'[m] = "sending" => checkin[m] = "armed"
  BY DEF CheckIn, CheckInLands, IInv, TurnInv
<1>2. TurnInv'
  BY <1>1 DEF IInv, TurnInv, AtWork
<1>3. HistInv' /\ CarriedInv' /\ BindingsAreSound'
  BY <1>1 DEF IInv, HistInv, AuditMatchesLive, OpenRows, Waits, CarriedInv, ProposalRunsOnce,
              BindingsAreSound
<1>4. QED
  BY <1>2, <1>3 DEF IInv

LEMMA ReturnedStep ==
    ASSUME IInv, NEW m \in Turns, Returned(m)
    PROVE  IInv'
<1> DEFINE rec == [turn[m] EXCEPT !.st = "returned"]
<1>1. /\ turn[m].st \in {"starting", "working"} /\ turn' = [turn EXCEPT ![m] = rec]
      /\ UNCHANGED <<pending, history>>
      /\ active' = IF turn[m].chat \in Telegram THEN active ELSE active \ {m}
      /\ checkin' = [checkin EXCEPT ![m] = IF @ = "armed" THEN "off" ELSE @]
  BY DEF Returned, TakenOut
<1>2. turn[m] \in TurnRec
  BY DEF IInv, TurnInv
<1>3. rec \in TurnRec /\ rec.st = "returned" /\ rec.row = turn[m].row /\ rec.chat = turn[m].chat
      /\ rec.agent = turn[m].agent
  BY <1>2 DEF TurnRec
<1>4. TurnInv' /\ turn'[m] = rec /\ \A n \in Turns : n # m => turn'[n] = turn[n]
  BY <1>1, <1>3, TurnSet DEF IInv, TurnInv
<1>5. QED
  BY <1>1, <1>3, <1>4, TurnOnly

(* Binding changes a row's run only, and only that of an unbound row.       *)
LEMMA BindLatestBinds ==
    ASSUME HistInv, NEW m \in Turns, history' = BindLatest(m)
    PROVE  /\ history' \in Seq(AuditRow) /\ Len(history') = Len(history)
           /\ DOMAIN history' = DOMAIN history
           /\ \A r \in DOMAIN history :
                /\ history'[r].chat = history[r].chat /\ history'[r].agent = history[r].agent
                /\ history'[r].res = history[r].res
                /\ \/ history'[r].run = history[r].run
                   \/ r \in Unbound(m) /\ history'[r].run = m /\ \A q \in Unbound(m) : q <= r
<1>1. DOMAIN history = 1..Len(history) /\ Len(history) \in Nat
  BY DEF HistInv
<1>2. ASSUME NEW r \in DOMAIN history
      PROVE  /\ history'[r] \in AuditRow
             /\ history'[r].chat = history[r].chat /\ history'[r].agent = history[r].agent
             /\ history'[r].res = history[r].res
             /\ \/ history'[r].run = history[r].run
                \/ r \in Unbound(m) /\ history'[r].run = m /\ \A q \in Unbound(m) : q <= r
  <2>1. history[r] \in AuditRow
    BY DEF HistInv
  <2>2. \/ history'[r] = history[r]
        \/ /\ history'[r] = [history[r] EXCEPT !.run = m]
           /\ r \in Unbound(m) /\ \A q \in Unbound(m) : q <= r
    BY DEF BindLatest
  <2>3. [history[r] EXCEPT !.run = m] \in AuditRow
    BY <2>1 DEF AuditRow
  <2>4. QED
    BY <2>1, <2>2, <2>3 DEF AuditRow
<1>3. history' \in [1..Len(history) -> AuditRow]
  BY <1>1, <1>2 DEF BindLatest
<1>4. QED
  BY <1>1, <1>2, <1>3

LEMMA TellStep ==
    ASSUME IInv, NEW m \in Turns, Tell(m)
    PROVE  IInv'
<1> DEFINE rec == [turn[m] EXCEPT !.st = "done"]
<1>1. /\ turn[m].st = "returned" /\ checkin[m] # "sending"
      /\ turn' = [turn EXCEPT ![m] = rec] /\ active' = active \ {m}
      /\ UNCHANGED <<checkin, pending>>
      /\ history' = history \/ history' = BindLatest(m)
  BY DEF Tell, MayTell, TakenOut
<1>2. turn[m] \in TurnRec /\ checkin[m] # "armed"
  BY <1>1 DEF IInv, TurnInv
<1>3. rec \in TurnRec /\ rec.st = "done" /\ rec.row = turn[m].row /\ rec.chat = turn[m].chat
      /\ rec.agent = turn[m].agent
  BY <1>2 DEF TurnRec
<1>4. TurnInv' /\ turn'[m] = rec /\ \A n \in Turns : n # m => turn'[n] = turn[n]
  BY <1>1, <1>2, <1>3, TurnSet DEF IInv, TurnInv
<1>5. CASE history' = history
  BY <1>1, <1>3, <1>4, <1>5, TurnOnly
<1>6. CASE history' = BindLatest(m)
  <2>1. /\ history' \in Seq(AuditRow) /\ Len(history') = Len(history)
        /\ DOMAIN history' = DOMAIN history
        /\ \A r \in DOMAIN history :
             /\ history'[r].chat = history[r].chat /\ history'[r].agent = history[r].agent
             /\ history'[r].res = history[r].res
             /\ \/ history'[r].run = history[r].run
                \/ r \in Unbound(m) /\ history'[r].run = m /\ \A q \in Unbound(m) : q <= r
    BY <1>6, BindLatestBinds DEF IInv
  <2>2. \A c \in Chats : OpenRows(c)' = OpenRows(c) /\ (Waits(c)' <=> Waits(c))
    BY <1>1, <2>1 DEF OpenRows, Waits
  <2>3. HistInv'
    <3>1. AuditMatchesLive'
      BY <1>1, <2>1, <2>2 DEF IInv, HistInv, AuditMatchesLive
    <3>2. \A c \in Chats : Waits(c) => pending[c].row \in DOMAIN history
      BY DEF IInv, HistInv, AuditMatchesLive, OpenRows
    <3>3. QED
      BY <1>1, <2>1, <2>2, <3>1, <3>2 DEF IInv, HistInv
  <2>4. CarriedInv'
    <3>1. \A n \in Turns : /\ turn'[n].row = turn[n].row /\ turn'[n].chat = turn[n].chat
                           /\ turn'[n].agent = turn[n].agent
      BY <1>3, <1>4
    <3>2. \A n \in Turns : turn'[n].row # 0 =>
             /\ turn'[n].row \in DOMAIN history' /\ history'[turn'[n].row].res = "confirm"
             /\ history'[turn'[n].row].chat = turn'[n].chat
             /\ history'[turn'[n].row].agent = turn'[n].agent
      BY <2>1, <3>1 DEF IInv, CarriedInv, ProposalRunsOnce
    <3>3. \A k, n \in Turns : turn'[k].row # 0 /\ turn'[k].row = turn'[n].row => k = n
      BY <3>1 DEF IInv, CarriedInv, ProposalRunsOnce
    <3>4. QED
      BY <3>2, <3>3 DEF CarriedInv, ProposalRunsOnce
  <2>5. BindingsAreSound'
    <3>1. \A r \in DOMAIN history : history[r].run # m
      <4>1. m # 0 /\ turn[m].st # "done"
        BY <1>1 DEF Turns
      <4>2. QED
        BY <4>1 DEF IInv, BindingsAreSound
    <3>2. ASSUME NEW r \in DOMAIN history, history'[r].run # 0, history'[r].run # m
          PROVE  LET k == history[r].run
                 IN /\ history'[r].run = k /\ history[r].res = "confirm"
                    /\ history[r].chat = turn[k].chat /\ history[r].agent = turn[k].agent
                    /\ turn[k].st = "done" /\ turn'[k] = turn[k]
                    /\ \A q \in DOMAIN history : history'[q].run = k => q = r
      <4> DEFINE k == history[r].run
      <4>1. history'[r].run = k /\ k # 0 /\ k # m
        BY <2>1, <3>2
      <4>2. /\ history[r].res = "confirm" /\ history[r].chat = turn[k].chat
            /\ history[r].agent = turn[k].agent /\ turn[k].st = "done"
            /\ \A q \in DOMAIN history : history[q].run = k => q = r
        BY <4>1 DEF IInv, BindingsAreSound
      <4>3. history[r] \in AuditRow
        BY DEF IInv, HistInv
      <4>4. k \in Turns
        BY <4>1, <4>3 DEF AuditRow
      <4>5. QED
        BY <1>4, <2>1, <4>1, <4>2, <4>4
    <3>3. ASSUME NEW r \in DOMAIN history, history'[r].run = m
          PROVE  /\ history[r].res = "confirm"
                 /\ history[r].chat = turn[m].chat /\ history[r].agent = turn[m].agent
                 /\ \A q \in DOMAIN history : history'[q].run = m => q = r
      <4>1. \A q \in DOMAIN history : history'[q].run = m =>
               q \in Unbound(m) /\ \A p \in Unbound(m) : p <= q
        BY <2>1, <3>1
      <4>2. \A q \in DOMAIN history : q \in Nat
        BY DEF IInv, HistInv
      <4>3. \A q \in DOMAIN history : history'[q].run = m => q = r
        BY <3>3, <4>1, <4>2
      <4>4. QED
        BY <3>3, <4>1, <4>3 DEF Unbound
    <3>4. SUFFICES ASSUME NEW r \in DOMAIN history, history'[r].run # 0
                   PROVE  LET k == history'[r].run
                          IN /\ history'[r].res = "confirm"
                             /\ history'[r].chat = turn'[k].chat
                             /\ history'[r].agent = turn'[k].agent
                             /\ turn'[k].st = "done"
                             /\ \A q \in DOMAIN history : history'[q].run = k => q = r
      BY <2>1 DEF BindingsAreSound
    <3>5. CASE history'[r].run = m
      BY <1>3, <1>4, <2>1, <3>3, <3>5
    <3>6. CASE history'[r].run # m
      BY <2>1, <3>2, <3>4, <3>6
    <3>7. QED
      BY <3>5, <3>6
  <2>6. QED
    BY <1>4, <2>3, <2>4, <2>5 DEF IInv
<1>7. QED
  BY <1>1, <1>5, <1>6

LEMMA AgeStep ==
    ASSUME IInv, NEW c \in Chats, Age(c)
    PROVE  IInv'
<1>1. /\ UNCHANGED <<turn, active, checkin, history>>
      /\ \E age \in {"expired", "gone"} : pending' = [pending EXCEPT ![c] = [@ EXCEPT !.age = age]]
      /\ Waits(c)
  BY DEF Age
<1>2. PICK age \in {"expired", "gone"} : pending' = [pending EXCEPT ![c] = [@ EXCEPT !.age = age]]
  BY <1>1
<1>3. pending[c] \in Proposal
  BY DEF IInv, HistInv
<1>4. [pending[c] EXCEPT !.age = age] \in Proposal
  BY <1>3 DEF Proposal
<1>5. /\ pending' \in [Chats -> Proposal]
      /\ \A d \in Chats : pending'[d].row = pending[d].row /\ pending'[d].agent = pending[d].agent
      /\ \A d \in Chats : d # c => pending'[d] = pending[d]
  BY <1>2, <1>3, <1>4 DEF IInv, HistInv, Proposal
<1>6. \A d \in Chats : Waits(d)' => Waits(d)
  BY <1>1, <1>5 DEF Waits
<1>7. HistInv'
  BY <1>1, <1>5, <1>6 DEF IInv, HistInv, AuditMatchesLive, OpenRows
<1>8. TurnInv' /\ CarriedInv' /\ BindingsAreSound'
  BY <1>1 DEF IInv, TurnInv, AtWork, CarriedInv, ProposalRunsOnce, BindingsAreSound
<1>9. QED
  BY <1>7, <1>8 DEF IInv

LEMMA StutterKeeps ==
    ASSUME IInv, UNCHANGED vars
    PROVE  IInv'
BY DEF IInv, TurnInv, AtWork, HistInv, AuditMatchesLive, OpenRows, Waits, CarriedInv,
       ProposalRunsOnce, BindingsAreSound, vars, chatVars

-----------------------------------------------------------------------------
(* The invariant of the chats, for every number of chats, messages, agents, *)
(* proposals and whatever the caps are.                                     *)
THEOREM Invariance == Spec => []IInv
<1>1. Init => IInv
  BY InitInv
<1>2. IInv /\ [Next]_vars => IInv'
  <2> SUFFICES ASSUME IInv, [Next]_vars PROVE IInv'
    OBVIOUS
  <2>1. CASE \E m \in Turns, c \in Chats : Arrive(m, c)
    BY <2>1, ArriveStep
  <2>2. CASE \E m \in Turns : Goes(m)
    BY <2>2, DecideStep, SkillReportsStep, AckSentStep, StartedStep, CheckInStep, ReturnedStep,
       TellStep DEF Goes
  <2>3. CASE \E c \in Chats : Age(c)
    BY <2>3, AgeStep
  <2>4. CASE UNCHANGED vars
    BY <2>4, StutterKeeps
  <2>5. QED
    BY <2>1, <2>2, <2>3, <2>4 DEF Next
<1>3. QED
  BY <1>1, <1>2, PTL DEF Spec

(* Every variable stays in its type.                                        *)
THEOREM TypeCorrect == Spec => []TypeOK
<1>1. IInv => TypeOK
  <2> SUFFICES ASSUME IInv PROVE TypeOK
    OBVIOUS
  <2>1. \A c \in Chats : pending[c] \in Proposal
    BY DEF IInv, HistInv
  <2>2. \A r \in DOMAIN history : history[r] \in AuditRow
    BY DEF IInv, HistInv
  <2>3. QED
    BY <2>1, <2>2 DEF IInv, TurnInv, HistInv, TypeOK, TurnRec, Proposal, AuditRow
<1>2. QED
  BY <1>1, Invariance, PTL

(* A proposal is carried out at most once, in its own chat, with its own    *)
(* agent, and only if the user confirmed it.                                *)
THEOREM RunsOnce == Spec => []ProposalRunsOnce
<1>1. IInv => ProposalRunsOnce
  BY DEF IInv, CarriedInv
<1>2. QED
  BY <1>1, Invariance, PTL

(* The live proposal of a chat and its audit rows agree.                    *)
THEOREM AuditAgrees == Spec => []AuditMatchesLive
<1>1. IInv => AuditMatchesLive
  BY DEF IInv, HistInv
<1>2. QED
  BY <1>1, Invariance, PTL

(* A run is bound to at most one proposal, which its user confirmed.        *)
THEOREM BindingsSound == Spec => []BindingsAreSound
<1>1. IInv => BindingsAreSound
  BY DEF IInv
<1>2. QED
  BY <1>1, Invariance, PTL

(* The check-in of a run never reaches the chat after its verdict.          *)
THEOREM CheckInFirst == Spec => []CheckInBeforeVerdict
<1>1. IInv => CheckInBeforeVerdict
  <2> SUFFICES ASSUME IInv, NEW m \in Turns, turn[m].st = "done"
               PROVE  checkin[m] \in {"off", "landed"}
    BY DEF CheckInBeforeVerdict
  <2>1. checkin[m] \notin {"armed", "sending"}
    BY DEF IInv, TurnInv
  <2>2. QED
    BY <2>1 DEF IInv, TurnInv
<1>2. QED
  BY <1>1, Invariance, PTL

=============================================================================
