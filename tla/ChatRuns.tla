------------------------------ MODULE ChatRuns ------------------------------
(***************************************************************************)
(* Agent runs ordered from a chat (src/src/lib/orchestrator and the        *)
(* orchestrator parts of the WhatsApp and Telegram handlers): proposals    *)
(* that wait for an answer and their audit rows, the capacity check, the   *)
(* acknowledgement, the run in the background with its registry entry,     *)
(* check-in and verdict, and slow tools that run in the background.        *)
(*                                                                         *)
(* A turn is one inbound message with all that it sets in motion.  What a  *)
(* handler does between two awaits is one step.                            *)
(***************************************************************************)
EXTENDS Naturals, Sequences, FiniteSets

CONSTANTS
    MaxTurns, MaxAtOnce,    \* bounds: messages, and those in progress at a time
    Quotas,         \* bounds: how many messages each chat may send
    Chats,
    Telegram,       \* the chats of that channel; the others are WhatsApp's
    Agents,
    Inbox,          \* inbox-mark-processed: proposed like an agent, but is none
    PerJidCap, GlobalCap,
    MaxProposals    \* bound

None == "none"
Text == "text"      \* a turn without a run
Tool == "tool"      \* a slow tool in the background

ASSUME ChatAssumption ==
    /\ Telegram \subseteq Chats
    /\ {None, Text, Tool} \cap (Agents \cup Chats \cup {Inbox}) = {}
    /\ Inbox \notin Agents
    /\ Quotas \subseteq [Chats -> 0..MaxTurns]
    /\ {PerJidCap, GlobalCap, MaxProposals, MaxTurns, MaxAtOnce} \subseteq Nat

Turns == 1..MaxTurns    \* in the order in which the messages come in

VARIABLES
    turn,       \* the state of each turn
    active,     \* the turns whose run is registered (active-runs.ts)
    checkin,    \* the check-in after 60 s of each turn
    pending,    \* pending_proposals: per chat the live proposal
    history,    \* proposal_history
    quota       \* messages still to come from each chat

chatVars == <<turn, active, checkin, pending, history>>
vars == <<chatVars, quota>>

Resolutions == {"confirm", "decline", "switch-to-web", "unrelated", "expired", "superseded",
                "cancelled"}

(* row is the audit row made with the proposal; the code keeps no such link. *)
NoProposal == [agent |-> None, age |-> "fresh", row |-> 0]
NoTurn     == [st |-> "idle", chat |-> None, agent |-> None, row |-> 0, started |-> FALSE]

(* The turns that may have a registered run.                                *)
AtWork == {m \in Turns :
    \/ turn[m].st \in {"working", "tool"}
    \/ turn[m].st = "returned" /\ turn[m].chat \in Telegram}

TypeOK ==
    /\ turn \in [Turns ->
         [st : {"idle", "deciding", "acking", "starting", "working", "tool", "returned",
                "done"},
          chat : Chats \cup {None}, agent : Agents \cup {Inbox, None, Text, Tool},
          row : 0..MaxProposals, started : BOOLEAN]]
    /\ active \subseteq AtWork
    /\ checkin \in [Turns -> {"off", "armed", "sending", "landed"}]
    /\ \A c \in Chats : pending[c] \in
         [agent : Agents \cup {Inbox, None}, age : {"fresh", "expired", "gone"},
          row : 0..MaxProposals]
    /\ Len(history) <= MaxProposals
    /\ \A r \in DOMAIN history : history[r] \in
         [chat : Chats, agent : Agents \cup {Inbox}, res : Resolutions \cup {"open"},
          run : {0} \cup Turns]

Init ==
    /\ turn = [m \in Turns |-> NoTurn]
    /\ active = {}
    /\ checkin = [m \in Turns |-> "off"]
    /\ pending = [c \in Chats |-> NoProposal]
    /\ history = <<>>
    /\ quota \in Quotas

-----------------------------------------------------------------------------
(* Proposals *)

Waits(c) == pending[c] # NoProposal

OpenRows(c) == {r \in DOMAIN history : history[r].chat = c /\ history[r].res = "open"}

(* resolveByConversation takes the latest open row.                         *)
OpenRow(c) ==
    IF OpenRows(c) = {} THEN 0
    ELSE CHOOSE r \in OpenRows(c) : \A q \in OpenRows(c) : q <= r

HistoryResolved(c, res) ==
    [r \in DOMAIN history |-> IF r = OpenRow(c) THEN [history[r] EXCEPT !.res = res]
                              ELSE history[r]]

(* A fault: a confirmed proposal stays until its run has started.           *)
LiveKept(c) == pending

(* clearPending                                                             *)
LiveCleared(c) == [pending EXCEPT ![c] = NoProposal]

ResolvePending(c, res) ==
    /\ history' = HistoryResolved(c, res)
    /\ pending' = LiveCleared(c)

(* A fault: the older proposal's row is left open.                          *)
NotSuperseded(c) == history

Superseded(c) ==
    [r \in DOMAIN history |-> IF r \in OpenRows(c) THEN [history[r] EXCEPT !.res = "superseded"]
                              ELSE history[r]]

(* setPending: what is past its grace is pruned in every chat, its audit    *)
(* row stays open.                                                          *)
SetPending(c, agent) ==
    /\ Len(history) < MaxProposals
    /\ pending' = [d \in Chats |-> IF d = c
                                   THEN [agent |-> agent, age |-> "fresh", row |-> Len(history) + 1]
                                   ELSE IF pending[d].age = "gone" THEN NoProposal
                                   ELSE pending[d]]
    /\ history' = Append(Superseded(c),
                         [chat |-> c, agent |-> agent, res |-> "open", run |-> 0])

(* 24 hours, then 6 hours of grace, of a live proposal.                     *)
Age(c) ==
    /\ Waits(c)
    /\ \/ pending[c].age = "fresh"   /\ pending' = [pending EXCEPT ![c].age = "expired"]
       \/ pending[c].age = "expired" /\ pending' = [pending EXCEPT ![c].age = "gone"]
    /\ UNCHANGED <<turn, active, checkin, history>>

-----------------------------------------------------------------------------
(* A message arrives *)

ActiveOf(c) == {m \in active : turn[m].chat = c}

(* checkCapacity; Telegram's handler does not ask.                          *)
HasCapacity(c) ==
    \/ c \in Telegram
    \/ Cardinality(ActiveOf(c)) < PerJidCap /\ Cardinality(active) < GlobalCap

Becomes(m, c, st, agent, row) ==
    turn' = [turn EXCEPT ![m] = [st |-> st, chat |-> c, agent |-> agent, row |-> row,
                                 started |-> FALSE]]

Ends(m)       == Becomes(m, None, "done", Text, 0)
Decides(m, c) == Becomes(m, c, "deciding", None, 0)

New(m) ==
    /\ \A n \in Turns : turn[n].st = "idle" <=> n >= m
    /\ Cardinality({n \in Turns : turn[n].st \notin {"idle", "done"}}) < MaxAtOnce

Quiet == UNCHANGED <<active, checkin>>

(* getPending deletes a proposal past its grace and reports none.           *)
Live(c)   == Waits(c) /\ pending[c].age # "gone"
NoLive(c) == ~Live(c) /\ pending' = LiveCleared(c) /\ UNCHANGED history

(* "cancel" or "stop" on WhatsApp, also POST cancel: the registered runs of *)
(* the chat are aborted and forgotten; an aborted run may end like any.     *)
CancelText(m, c) ==
    /\ New(m) /\ c \notin Telegram
    /\ IF Live(c) THEN ResolvePending(c, "cancelled") ELSE NoLive(c)
    /\ active' = active \ ActiveOf(c)
    /\ Ends(m)
    /\ UNCHANGED checkin

(* "never mind" on WhatsApp, "no" on both.                                  *)
Decline(m, c) ==
    /\ New(m)
    /\ \/ Live(c) /\ pending[c].age = "fresh" /\ ResolvePending(c, "decline")
       \/ Live(c) /\ pending[c].age = "expired" /\ ResolvePending(c, "expired")
       \/ Live(c) /\ c \notin Telegram /\ ResolvePending(c, "decline")
       \/ NoLive(c) /\ c \notin Telegram
    /\ Ends(m)
    /\ Quiet

(* "web"; the search is awaited and answered.                               *)
SwitchToWeb(m, c) ==
    /\ New(m) /\ Live(c)
    /\ ResolvePending(c, IF pending[c].age = "fresh" THEN "switch-to-web" ELSE "expired")
    /\ Ends(m)
    /\ Quiet

(* "yes" to a proposal.  The proposal is spent before capacity is checked.  *)
(* An inbox proposal is executed at once, but a late one on WhatsApp goes   *)
(* the way of an agent.                                                     *)
Confirm(m, c) ==
    /\ New(m) /\ Live(c)
    /\ ResolvePending(c, "confirm")
    /\ IF pending[c].agent = Inbox /\ (pending[c].age = "fresh" \/ c \in Telegram)
       THEN Becomes(m, c, "done", Inbox, pending[c].row)
       ELSE IF HasCapacity(c) THEN Becomes(m, c, "acking", pending[c].agent, pending[c].row)
       ELSE Ends(m)
    /\ Quiet

(* "yes" with nothing to confirm: answered if a run is young, else decided  *)
(* on like any message.                                                     *)
ConfirmAgain(m, c) ==
    /\ New(m) /\ c \notin Telegram
    /\ NoLive(c)
    /\ ActiveOf(c) # {}
    /\ Ends(m)
    /\ Quiet

(* Any other message drops a proposal and goes to the model; a proposal     *)
(* past its time ends the turn with the prompt.                             *)
Other(m, c) ==
    /\ New(m)
    /\ \/ NoLive(c) /\ Decides(m, c)
       \/ /\ Live(c) /\ pending[c].age = "fresh"
          /\ ResolvePending(c, "unrelated")
          /\ Decides(m, c)
       \/ /\ Live(c) /\ pending[c].age = "expired"
          /\ ResolvePending(c, "expired")
          /\ Ends(m)
    /\ Quiet

-----------------------------------------------------------------------------
(* The model has decided *)

(* A tool call; the model may call more tools before it answers.            *)
ProposeAgent(m) ==
    /\ turn[m].st = "deciding"
    /\ \E a \in Agents \cup {Inbox} : SetPending(turn[m].chat, a)
    /\ UNCHANGED <<turn, active, checkin>>

DispatchAgent(m) ==
    /\ turn[m].st = "deciding"
    /\ \E a \in Agents :
         IF HasCapacity(turn[m].chat) THEN Becomes(m, turn[m].chat, "acking", a, 0)
         ELSE Ends(m)
    /\ UNCHANGED <<active, checkin, pending, history>>

(* runSkillInBackground registers at once and asks no capacity.             *)
RunSkill(m) ==
    /\ turn[m].st = "deciding"
    /\ Becomes(m, turn[m].chat, "tool", Tool, 0)
    /\ active' = active \cup {m}
    /\ UNCHANGED <<checkin, pending, history>>

Answer(m) ==
    /\ turn[m].st = "deciding"
    /\ Ends(m)
    /\ UNCHANGED <<active, checkin, pending, history>>

SkillReports(m) ==
    /\ turn[m].st = "tool"
    /\ Ends(m)
    /\ active' = active \ {m}
    /\ UNCHANGED <<checkin, pending, history>>

-----------------------------------------------------------------------------
(* runInBackground *)

(* The acknowledgement went out, or failed: the run begins.                 *)
AckSent(m) ==
    /\ turn[m].st = "acking"
    /\ turn' = [turn EXCEPT ![m].st = "starting"]
    /\ checkin' = [checkin EXCEPT ![m] = IF turn[m].chat \in Telegram THEN "off" ELSE "armed"]
    /\ UNCHANGED <<active, pending, history>>

(* The dispatcher's event "started".                                        *)
Started(m) ==
    /\ turn[m].st = "starting" /\ turn[m].agent \in Agents
    /\ turn' = [turn EXCEPT ![m].st = "working", ![m].started = TRUE]
    /\ active' = active \cup {m}
    /\ UNCHANGED <<checkin, pending, history>>

Peers(m) == {n \in ActiveOf(turn[m].chat) : turn[n].agent = turn[m].agent} \ {m}

(* The timer fires: not if another run of the agent makes the text unclear. *)
CheckIn(m) ==
    /\ checkin[m] = "armed"
    /\ checkin' = [checkin EXCEPT ![m] = IF Peers(m) = {} THEN "sending" ELSE "off"]
    /\ UNCHANGED <<turn, active, pending, history>>

CheckInLands(m) ==
    /\ checkin[m] = "sending"
    /\ checkin' = [checkin EXCEPT ![m] = "landed"]
    /\ UNCHANGED <<turn, active, pending, history>>

(* A fault: the entry stays.                                                *)
LeftIn(m) == active

TakenOut(m) == active \ {m}

(* The generator returns or throws, started or not; the timer is cleared.   *)
Returned(m) ==
    /\ turn[m].st \in {"starting", "working"}
    /\ turn' = [turn EXCEPT ![m].st = "returned"]
    /\ checkin' = [checkin EXCEPT ![m] = IF @ = "armed" THEN "off" ELSE @]
    /\ active' = IF turn[m].chat \in Telegram THEN active ELSE TakenOut(m)
    /\ UNCHANGED <<pending, history>>

(* A fault: the verdict does not wait for the check-in.                     *)
MayTellAtOnce(m) == TRUE

(* A fault: it waits for one that is never sent.                            *)
MayTellAfterCheckIn(m) == checkin[m] = "landed" \/ turn[m].chat \in Telegram

MayTell(m) == checkin[m] # "sending"

Unbound(m) == {r \in DOMAIN history :
    /\ history[r].chat = turn[m].chat /\ history[r].agent = turn[m].agent
    /\ history[r].res = "confirm" /\ history[r].run = 0}

(* A fault: the row need not be a confirmed one.                            *)
BindAny(m) ==
    LET rows == {r \in DOMAIN history : history[r].chat = turn[m].chat /\ history[r].run = 0}
    IN [r \in DOMAIN history |->
          IF r \in rows /\ \A q \in rows : q <= r THEN [history[r] EXCEPT !.run = m]
          ELSE history[r]]

(* bindLatestConfirmed: rows are resolved in the order of their creation.   *)
BindLatest(m) ==
    [r \in DOMAIN history |->
       IF r \in Unbound(m) /\ \A q \in Unbound(m) : q <= r THEN [history[r] EXCEPT !.run = m]
       ELSE history[r]]

(* The verdict is sent, or given up after an error of the channel: a        *)
(* WhatsApp run is bound to a proposal, a Telegram run is taken out of the  *)
(* registry.                                                                *)
Tell(m) ==
    /\ turn[m].st = "returned"
    /\ MayTell(m)
    /\ turn' = [turn EXCEPT ![m].st = "done"]
    /\ active' = TakenOut(m)
    /\ history' = IF turn[m].started /\ turn[m].chat \notin Telegram
                     THEN BindLatest(m) ELSE history
    /\ UNCHANGED <<checkin, pending>>

Arrive(m, c) ==
    /\ quota[c] > 0
    /\ quota' = [quota EXCEPT ![c] = @ - 1]
    /\ \/ CancelText(m, c) \/ Decline(m, c) \/ SwitchToWeb(m, c)
       \/ Confirm(m, c) \/ ConfirmAgain(m, c) \/ Other(m, c)

Decide(m) == ProposeAgent(m) \/ DispatchAgent(m) \/ RunSkill(m) \/ Answer(m)

Goes(m) ==
    \/ Decide(m) \/ SkillReports(m)
    \/ AckSent(m) \/ Started(m) \/ CheckIn(m) \/ CheckInLands(m)
    \/ Returned(m) \/ Tell(m)

Next ==
    \/ \E m \in Turns, c \in Chats : Arrive(m, c)
    \/ \E m \in Turns : Goes(m) /\ UNCHANGED quota
    \/ \E c \in Chats : Age(c) /\ UNCHANGED quota

(* Sends come back, with or without success, and agents end within their    *)
(* budget of time.  Nothing is assumed of the user, the model or the timer. *)
Fairness ==
    \A m \in Turns :
       /\ WF_chatVars(AckSent(m)) /\ WF_chatVars(CheckInLands(m))
       /\ WF_chatVars(Returned(m)) /\ WF_chatVars(Tell(m))

Spec == Init /\ [][Next]_vars /\ Fairness

-----------------------------------------------------------------------------
(* Properties *)

(* However messages, answers and expiry interleave, a proposal is carried   *)
(* out at most once, in its own chat, with its own agent, and only if the   *)
(* user confirmed it.                                                       *)
ProposalRunsOnce ==
    /\ \A m, n \in Turns : turn[m].row # 0 /\ turn[m].row = turn[n].row => m = n
    /\ \A m \in Turns : turn[m].row # 0 =>
         LET r == history[turn[m].row]
         IN r.res = "confirm" /\ r.chat = turn[m].chat /\ r.agent = turn[m].agent

(* The live table and the audit trail agree: at most one proposal of a chat *)
(* is open, it is the chat's last, and what waits for an answer is open.    *)
AuditMatchesLive ==
    \A c \in Chats :
       /\ \A r \in OpenRows(c), q \in DOMAIN history : history[q].chat = c => q <= r
       /\ Waits(c) => pending[c].row \in OpenRows(c)

(* A run is bound to at most one proposal, confirmed by the user of that    *)
(* chat for that agent, and a binding is never overwritten.                 *)
BindingsAreSound ==
    \A r \in DOMAIN history :
       LET m == history[r].run
       IN m # 0 =>
            /\ history[r].res = "confirm"
            /\ history[r].chat = turn[m].chat /\ history[r].agent = turn[m].agent
            /\ turn[m].st = "done"
            /\ \A q \in DOMAIN history : history[q].run = m => q = r

(* "Still working" never reaches the chat after the verdict of its run.     *)
CheckInBeforeVerdict ==
    \A m \in Turns : turn[m].st = "done" => checkin[m] \in {"off", "landed"}

(* Whoever is told that an agent runs is told how it ended, also when the   *)
(* run never starts, is cancelled, or checks in at the last moment.         *)
EveryAckIsAnswered == \A m \in Turns : turn[m].st = "acking" ~> turn[m].st = "done"

=============================================================================
