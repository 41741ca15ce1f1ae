----------------------------- MODULE InboxProofs -----------------------------
(***************************************************************************)
(* Proofs about the mail synchronisation, for any number of workers,       *)
(* messages, rebuilt mailboxes and mishaps.                                *)
(***************************************************************************)
EXTENDS InboxSync, FiniteSetTheorems, TLAPS

(* A server that is down has no workers.                                    *)
DownInv == ~up => current = 0

TypeInv == TypeOK /\ DownInv

LEMMA Bounds == MaxMail \in Nat /\ MaxRebuilds \in Nat /\ MaxMishaps \in Nat
BY InboxAssumption

-----------------------------------------------------------------------------
(* The first message of a fetch *)

(* Among the UIDs that are still to come there is a least one.              *)
LEMMA LeastUid ==
    ASSUME NEW S \in SUBSET Uids, S # {}
    PROVE  \E m \in S : \A k \in S : m <= k
<1> USE Bounds
<1> DEFINE U == {1..m : m \in S}
<1>1. IsFiniteSet(Uids)
  BY FS_Interval DEF Uids
<1>2. IsWellFoundedOn(StrictSubsetOrdering(Uids), SUBSET Uids)
  BY <1>1, FS_StrictSubsetOrderingWellFounded, FS_FiniteSubsetsOfFinite
<1>3. U \subseteq SUBSET Uids /\ U # {}
  <2>1. \A m \in S : m \in 1..MaxMail /\ 1..m \subseteq Uids
    BY DEF Uids
  <2>2. QED
    BY <2>1, Zenon
<1>4. PICK x \in U : \A y \in U : <<y, x>> \notin StrictSubsetOrdering(Uids)
  BY <1>2, <1>3, WFMin
<1>5. PICK m \in S : x = 1..m
  BY <1>4
<1>6. ASSUME NEW k \in S, k < m PROVE FALSE
  <2>1. 1..k \in U /\ 1..k \subseteq 1..m /\ 1..k # 1..m
    BY <1>6 DEF U, Uids
  <2>2. <<1..k, x>> \in StrictSubsetOrdering(Uids)
    BY <1>3, <1>5, <2>1 DEF StrictSubsetOrdering
  <2>3. QED
    BY <1>4, <2>1, <2>2
<1>7. QED
  BY <1>6 DEF Uids

LEMMA NextUidIsFirst ==
    ASSUME NEW S \in SUBSET Uids, S # {}
    PROVE  NextUid(S) \in S /\ \A k \in S : NextUid(S) <= k
BY LeastUid DEF NextUid, Min

-----------------------------------------------------------------------------
(* Types *)

(* What a status is, whoever sets it.                                       *)
Statuses == {"disconnected", "syncing", "connected", "error", "none"}

LEMMA StatusType ==
    ASSUME status \in Statuses, NEW st \in Statuses, StatusIs(st)
    PROVE  status' \in Statuses
BY DEF StatusIs, Statuses

WorkerRec == [pc : Pcs, conn : Conns, stopping : BOOLEAN, timer : BOOLEAN]
JobRec    == [validity : {0} \cup Validities, state : Cursor, max : 0..MaxMail,
              uids : SUBSET Uids, batch : SUBSET Uids, seen : SUBSET Uids]

(* TypeInv in two parts.                                                    *)
WorkersOK ==
    /\ up \in BOOLEAN /\ current \in {0} \cup Workers
    /\ worker \in [Workers -> WorkerRec]
    /\ \A w \in Workers : worker[w].stopping <=> w # current /\ worker[w] # NoWorker
    /\ \A w \in Workers : worker[w].timer => w = current
    /\ DownInv

DataOK ==
    /\ provider \in Providers /\ credential \in CredentialKinds
    /\ server \in [validity : Validities, box : SUBSET Uids, next : Nat \ {0}]
    /\ \A u \in server.box : u < server.next
    /\ rows \subseteq ({0} \cup Validities) \X Uids
    /\ sync \in Cursor
    /\ status \in Statuses
    /\ alerted \in BOOLEAN /\ carried \in BOOLEAN
    /\ job \in [Workers -> JobRec]
    /\ mishaps \in 0..MaxMishaps

LEMMA TwoParts == TypeInv <=> WorkersOK /\ DataOK
BY DEF TypeInv, TypeOK, WorkersOK, DataOK, WorkerRec, JobRec, Statuses

LEMMA TwoPartsNext == TypeInv' <=> WorkersOK' /\ DataOK'
BY DEF TypeInv, TypeOK, WorkersOK, DataOK, WorkerRec, JobRec, Statuses

LEMMA NoneTyped == NoWorker \in WorkerRec /\ NoCursor \in Cursor /\ NoJob \in JobRec
<1>1. NoWorker \in WorkerRec
  BY DEF NoWorker, WorkerRec, Pcs, Resting, Conns
<1>2. NoCursor \in Cursor
  BY Bounds DEF NoCursor, Cursor
<1>3. NoJob \in JobRec
  BY <1>2, Bounds DEF NoJob, JobRec
<1>4. QED
  BY <1>1, <1>2, <1>3

LEMMA InitType == Init => TypeInv
<1> SUFFICES ASSUME Init PROVE WorkersOK /\ DataOK
  BY TwoParts
<1> USE DEF Init
<1>1. WorkersOK
  BY NoneTyped DEF WorkersOK, DownInv, NoWorker
<1>2. DataOK
  <2>1. job \in [Workers -> JobRec] /\ sync \in Cursor
    BY NoneTyped
  <2>2. server \in [validity : Validities, box : SUBSET Uids, next : Nat \ {0}]
    BY Bounds DEF Validities
  <2>3. mishaps \in 0..MaxMishaps
    BY Bounds
  <2>4. credential \in CredentialKinds
    BY DEF Given, SecretChanged, CredentialKinds
  <2>5. QED
    BY <2>1, <2>2, <2>3, <2>4 DEF DataOK, Statuses
<1>3. QED
  BY <1>1, <1>2

(* A step of one worker that leaves the others alone, keeps stopping, and   *)
(* gives a timer to a worker that is not stopping only.                     *)
WorkerStep(w, new) ==
    /\ worker' = [worker EXCEPT ![w] = new]
    /\ new \in WorkerRec
    /\ worker[w] # NoWorker
    /\ new.stopping = worker[w].stopping
    /\ new.timer => worker[w].timer \/ ~worker[w].stopping

LEMMA WorkerStepType ==
    ASSUME WorkersOK, NEW w \in Workers, NEW new, WorkerStep(w, new), UNCHANGED <<up, current>>
    PROVE  WorkersOK'
<1> USE DEF WorkersOK, WorkerStep
<1>1. worker' \in [Workers -> WorkerRec]
  OBVIOUS
<1>2. ASSUME NEW v \in Workers, v # w PROVE worker'[v] = worker[v]
  BY <1>2
<1>3. worker'[w] = new
  OBVIOUS
<1>4. worker[w].stopping <=> w # current
  OBVIOUS
<1>5. w # current => new # NoWorker
  BY <1>4 DEF NoWorker
<1>6. ASSUME NEW v \in Workers
      PROVE  /\ worker'[v].stopping <=> v # current /\ worker'[v] # NoWorker
             /\ worker'[v].timer => v = current
  <2>1. CASE v = w
    BY <1>3, <1>4, <1>5, <2>1
  <2>2. CASE v # w
    BY <1>2, <2>2
  <2>3. QED
    BY <2>1, <2>2
<1>7. DownInv'
  BY DEF DownInv
<1>8. QED
  BY <1>1, <1>6, <1>7

(* The same for the two ways in which the model writes such a step.         *)
LEMMA BecomesType ==
    ASSUME WorkersOK, NEW w \in Workers, worker[w] # NoWorker,
           NEW pc \in Pcs, NEW conn \in Conns, Becomes(w, pc, conn), UNCHANGED <<up, current>>
    PROVE  WorkersOK'
<1> DEFINE new == [worker[w] EXCEPT !.pc = pc, !.conn = conn]
<1>1. worker[w] \in WorkerRec
  BY DEF WorkersOK
<1>2. new \in WorkerRec /\ new.stopping = worker[w].stopping /\ new.timer = worker[w].timer
  BY <1>1 DEF WorkerRec
<1>3. worker' = [worker EXCEPT ![w] = new]
  BY <1>1 DEF Becomes, WorkersOK
<1> HIDE DEF new
<1>4. QED
  BY <1>2, <1>3, WorkerStepType DEF WorkerStep

LEMMA GivesUpType ==
    ASSUME WorkersOK, NEW w \in Workers, worker[w] # NoWorker,
           NEW conn \in Conns, GivesUp(w, conn), UNCHANGED <<up, current>>
    PROVE  WorkersOK'
<1> DEFINE new == [worker[w] EXCEPT !.pc = "none", !.conn = conn,
                                    !.timer = worker[w].timer \/ ~worker[w].stopping]
<1>1. worker[w] \in WorkerRec
  BY DEF WorkersOK
<1>2. /\ new \in WorkerRec
      /\ new.stopping = worker[w].stopping
      /\ new.timer => worker[w].timer \/ ~worker[w].stopping
  BY <1>1 DEF WorkerRec, Pcs, Resting
<1>3. worker' = [worker EXCEPT ![w] = new]
  BY <1>1 DEF GivesUp, Retries, WorkersOK
<1> HIDE DEF new
<1>4. QED
  BY <1>2, <1>3, WorkerStepType DEF WorkerStep

(* What a worker is started with.                                           *)
LEMMA AttemptType ==
    ASSUME NEW old \in WorkerRec, NEW c \in CredentialKinds
    PROVE  /\ Attempt(old, c) \in WorkerRec
           /\ Attempt(old, c).stopping = old.stopping /\ Attempt(old, c).timer = old.timer
           /\ Attempt(old, c).pc \in {"connecting", "refresh", "token", "malformed", "unreadable"}
           /\ Attempt(old, c).pc = "refresh" => c = "oauth"
           /\ Attempt(old, c).pc = "token" => c = "outlook"
           /\ Attempt(old, c).pc = "malformed" => c = "malformed"
BY DEF Attempt, WorkerRec, Pcs, Resting, Conns, CredentialKinds

LEMMA AttemptStatusType ==
    ASSUME NEW st \in Statuses, NEW c \in CredentialKinds PROVE AttemptStatus(c, st) \in Statuses
BY DEF AttemptStatus, Statuses, CredentialKinds

(* Data that most steps leave alone.                                        *)
LEMMA MishapType ==
    ASSUME DataOK, Mishap \/ AllsWell PROVE mishaps' \in 0..MaxMishaps
BY Bounds DEF DataOK, Mishap, AllsWell

LEMMA JobType ==
    ASSUME DataOK, NEW w \in Workers, NEW j \in JobRec, job' = [job EXCEPT ![w] = j]
    PROVE  job' \in [Workers -> JobRec]
BY DEF DataOK

LEMMA SaveType ==
    ASSUME DataOK, NEW w \in Workers, Save(job[w])
    PROVE  sync' \in Cursor /\ carried' \in BOOLEAN
<1>1. job[w] \in JobRec
  BY DEF DataOK
<1>2. sync' \in Cursor
  BY <1>1 DEF Save, JobRec, Cursor
<1>3. carried' \in BOOLEAN
  BY <1>1 DEF Save, DataOK
<1>4. QED
  BY <1>2, <1>3

(* A step that touches the job, the status, the alert and mishaps at most.  *)
LEMMA PlainStepType ==
    ASSUME DataOK, Stored, UNCHANGED <<provider, server>>, status' \in Statuses,
           UNCHANGED credential \/ credential' \in CredentialKinds,
           alerted' \in BOOLEAN, job' \in [Workers -> JobRec], Mishap \/ AllsWell
    PROVE  DataOK'
BY MishapType DEF DataOK, Stored

LEMMA MarkFailedType ==
    ASSUME DataOK, MarkFailed PROVE status' \in Statuses /\ alerted' \in BOOLEAN
BY DEF DataOK, MarkFailed, StatusIs, Statuses

LEMMA MarkRecoveredType ==
    ASSUME DataOK, MarkRecovered PROVE status' \in Statuses /\ alerted' \in BOOLEAN
BY DEF DataOK, MarkRecovered, StatusIs, Statuses

LEMMA AttemptStepsType ==
    ASSUME TypeInv, NEW w \in Workers,
           \/ Refreshed(w) \/ RefreshFails(w) \/ Connected(w) \/ ConnectFails(w)
           \/ NoMailbox(w) \/ SyncFails(w) \/ OutlookToken(w) \/ OutlookAnswers(w)
           \/ OutlookFails(w) \/ CloseEvent(w) \/ ErrorEvent(w) \/ Disconnect(w)
    PROVE  TypeInv'
<1> USE TwoParts, TwoPartsNext
<1>0. worker[w] \in WorkerRec /\ status \in Statuses /\ alerted \in BOOLEAN
      /\ job \in [Workers -> JobRec]
  BY DEF WorkersOK, DataOK
<1>c. \A c \in CredentialKinds : StoresToken(c) => UNCHANGED credential \/ credential' \in CredentialKinds
  BY DEF StoresToken
<1>a. worker[w].pc \in Pcs /\ worker[w].conn \in Conns
  BY <1>0 DEF WorkerRec
<1>b. worker[w].pc # "none" \/ worker[w].conn # "none" => worker[w] # NoWorker
  BY DEF NoWorker
<1>1. CASE Refreshed(w)
  <2>1. WorkersOK'
    BY <1>1, <1>b, BecomesType DEF Refreshed, Outside, Pcs, Resting, Conns
  <2>2. status' \in Statuses
    BY <1>0, <1>1, StatusType DEF Refreshed, Statuses
  <2>3. UNCHANGED credential \/ credential' \in CredentialKinds
    BY <1>1, <1>c DEF Refreshed, CredentialKinds
  <2>4. QED
    BY <1>0, <1>1, <2>1, <2>2, <2>3, PlainStepType DEF Refreshed
<1>2. CASE RefreshFails(w)
  <2>1. WorkersOK'
    BY <1>2, <1>b, GivesUpType DEF RefreshFails, Outside, Conns
  <2>2. QED
    BY <1>0, <1>2, <2>1, PlainStepType, MarkFailedType DEF RefreshFails, Outside
<1>3. CASE Connected(w)
  <2>1. WorkersOK'
    BY <1>3, <1>b, BecomesType DEF Connected, Outside, Pcs, Resting, Conns
  <2>2. QED
    BY <1>0, <1>3, <2>1, PlainStepType DEF Connected, Outside
<1>4. CASE ConnectFails(w)
  <2>1. WorkersOK'
    BY <1>4, <1>b, GivesUpType DEF ConnectFails, Outside, Conns
  <2>2. status' \in Statuses
    BY <1>0, <1>4, StatusType DEF ConnectFails, Statuses
  <2>3. QED
    BY <1>0, <1>4, <2>1, <2>2, PlainStepType DEF ConnectFails, Outside
<1>5. CASE NoMailbox(w)
  <2>1. WorkersOK'
    BY <1>5, <1>b, BecomesType DEF NoMailbox, Outside, Pcs, Resting, Conns
  <2>2. QED
    BY <1>0, <1>5, <2>1, PlainStepType, MarkRecoveredType DEF NoMailbox, Outside
<1>6. CASE SyncFails(w)
  <2>1. WorkersOK'
    BY <1>6, <1>a, <1>b, GivesUpType DEF SyncFails, Outside
  <2>2. job' \in [Workers -> JobRec]
    BY <1>6, JobType, NoneTyped DEF SyncFails, JobEnds
  <2>3. QED
    BY <1>0, <1>6, <2>1, <2>2, PlainStepType, MarkFailedType DEF SyncFails, Outside
<1>7. CASE OutlookToken(w)
  <2>1. WorkersOK'
    BY <1>7, <1>b, BecomesType DEF OutlookToken, Outside, Pcs, Resting, Conns
  <2>2. UNCHANGED credential \/ credential' \in CredentialKinds
    BY <1>7, <1>c DEF OutlookToken, CredentialKinds
  <2>3. QED
    BY <1>0, <1>7, <2>1, <2>2, PlainStepType DEF OutlookToken
<1>8. CASE OutlookAnswers(w)
  <2>1. WorkersOK'
    BY <1>8, <1>b, GivesUpType DEF OutlookAnswers, Outside, Conns
  <2>2. QED
    BY <1>0, <1>8, <2>1, PlainStepType, MarkFailedType DEF OutlookAnswers, Outside
<1>9. CASE OutlookFails(w)
  <2>1. WorkersOK'
    BY <1>9, <1>b, GivesUpType DEF OutlookFails, Outside, Conns
  <2>2. QED
    BY <1>0, <1>9, <2>1, PlainStepType, MarkFailedType DEF OutlookFails, Outside
<1>10. CASE CloseEvent(w)
  <2>1. CASE worker[w].stopping
    <3>1. WorkersOK'
      BY <1>10, <2>1, <1>a, <1>b, BecomesType DEF CloseEvent, Outside, Conns
    <3>2. QED
      BY <1>0, <1>10, <2>1, <3>1, PlainStepType DEF CloseEvent, Outside
  <2>2. CASE ~worker[w].stopping
    <3> DEFINE new == [worker[w] EXCEPT !.conn = "closed", !.timer = TRUE]
    <3>1. new \in WorkerRec /\ new.stopping = worker[w].stopping
      BY <1>0 DEF WorkerRec, Conns
    <3>2. worker' = [worker EXCEPT ![w] = new] /\ worker[w] # NoWorker
      BY <1>0, <1>10, <1>b, <2>2 DEF CloseEvent
    <3> HIDE DEF new
    <3>3. WorkersOK'
      BY <1>10, <2>2, <3>1, <3>2, WorkerStepType DEF CloseEvent, Outside, WorkerStep
    <3>4. status' \in Statuses
      BY <1>0, <1>10, <2>2, StatusType DEF CloseEvent, Statuses
    <3>5. QED
      BY <1>0, <1>10, <3>3, <3>4, PlainStepType DEF CloseEvent, Outside
  <2>3. QED
    BY <2>1, <2>2
<1>11. CASE ErrorEvent(w)
  <2>1. WorkersOK'
    BY <1>11, <1>a, <1>b, BecomesType DEF ErrorEvent, Outside, Conns
  <2>2. status' \in Statuses /\ alerted' \in BOOLEAN
    BY <1>0, <1>11, MarkFailedType DEF ErrorEvent
  <2>3. QED
    BY <1>0, <1>11, <2>1, <2>2, PlainStepType DEF ErrorEvent, Outside
<1>12. CASE Disconnect(w)
  <2>1. WorkersOK'
    BY <1>12, <1>a, <1>b, BecomesType DEF Disconnect, Outside, Conns
  <2>2. QED
    BY <1>0, <1>12, <2>1, PlainStepType DEF Disconnect, Outside
<1>13. QED
  BY <1>1, <1>2, <1>3, <1>4, <1>5, <1>6, <1>7, <1>8, <1>9, <1>10, <1>11, <1>12

(* What a sync asks for is in the mailbox.                                  *)
LEMMA WantedInBox ==
    ASSUME NEW j PROVE Wanted(j) \subseteq server.box
BY DEF Wanted

LEMMA SyncStepsType ==
    ASSUME TypeInv, NEW w \in Workers,
           Opened(w) \/ Searched(w) \/ FetchMessage(w) \/ FinishFetch(w)
    PROVE  TypeInv'
<1> USE TwoParts, TwoPartsNext
<1>0. /\ worker[w] \in WorkerRec /\ job[w] \in JobRec /\ job \in [Workers -> JobRec]
      /\ status \in Statuses /\ alerted \in BOOLEAN /\ sync \in Cursor
      /\ server.validity \in Validities /\ server.box \in SUBSET Uids
      /\ rows \subseteq ({0} \cup Validities) \X Uids
  BY DEF WorkersOK, DataOK
<1>a. worker[w].pc \in Pcs /\ worker[w].conn \in Conns
  BY <1>0 DEF WorkerRec
<1>b. worker[w].pc # "none" => worker[w] # NoWorker
  BY DEF NoWorker
<1>c. job[w].validity \in {0} \cup Validities /\ job[w].batch \subseteq Uids
      /\ job[w].uids \subseteq Uids /\ job[w].max \in 0..MaxMail
  BY <1>0 DEF JobRec
<1>1. CASE Opened(w)
  <2> DEFINE new == [NoJob EXCEPT !.validity = server.validity, !.state = sync,
                                  !.max = sync.lastUid]
  <2>1. WorkersOK'
    BY <1>1, <1>b, BecomesType DEF Opened, Outside, Pcs, Resting, Conns
  <2>2. new \in JobRec
    BY <1>0, NoneTyped DEF JobRec, Cursor
  <2>3. job' = [job EXCEPT ![w] = new]
    BY <1>1 DEF Opened
  <2> HIDE DEF new
  <2>4. job' \in [Workers -> JobRec]
    BY <2>2, <2>3, JobType
  <2>5. rows' \subseteq ({0} \cup Validities) \X Uids
    BY <1>0, <1>1 DEF Opened
  <2>6. DataOK'
    BY <1>1, <2>4, <2>5, MishapType DEF Opened, Outside, DataOK
  <2>7. QED
    BY <2>1, <2>6
<1>2. CASE Searched(w)
  <2>0. PICK found \in {Wanted(job[w]), {}} :
          /\ IF found = Wanted(job[w]) THEN AllsWell ELSE Mishap
          /\ IF found = {}
             THEN /\ Becomes(w, "idling", "open") /\ JobEnds(w)
                  /\ Save(job[w]) /\ MarkRecovered
             ELSE /\ Becomes(w, "fetching", "open")
                  /\ job' = [job EXCEPT ![w].uids = found, ![w].seen = server.box]
                  /\ UNCHANGED <<sync, status, alerted, carried>>
    BY <1>2 DEF Searched
  <2>a. mishaps' \in 0..MaxMishaps
    BY <2>0, MishapType
  <2>1. CASE found = {}
    <3>1. WorkersOK'
      BY <1>2, <1>b, <2>0, <2>1, BecomesType DEF Searched, Outside, Pcs, Resting, Conns
    <3>2. job' \in [Workers -> JobRec] /\ sync' \in Cursor /\ carried' \in BOOLEAN
      BY <2>0, <2>1, JobType, NoneTyped, SaveType DEF JobEnds
    <3>3. status' \in Statuses /\ alerted' \in BOOLEAN
      BY <2>0, <2>1, MarkRecoveredType
    <3>4. DataOK'
      BY <1>2, <2>a, <3>2, <3>3 DEF Searched, Outside, DataOK
    <3>5. QED
      BY <3>1, <3>4
  <2>2. CASE found # {}
    <3> DEFINE new == [job[w] EXCEPT !.uids = found, !.seen = server.box]
    <3>1. WorkersOK'
      BY <1>2, <1>b, <2>0, <2>2, BecomesType DEF Searched, Outside, Pcs, Resting, Conns
    <3>2. found \subseteq Uids
      BY <1>0, WantedInBox
    <3>3. new \in JobRec
      BY <1>0, <3>2 DEF JobRec
    <3>4. job' = [job EXCEPT ![w] = new]
      BY <1>0, <2>0, <2>2
    <3> HIDE DEF new
    <3>5. job' \in [Workers -> JobRec]
      BY <3>3, <3>4, JobType
    <3>6. DataOK'
      BY <1>2, <2>a, <2>0, <2>2, <3>5 DEF Searched, Outside, DataOK
    <3>7. QED
      BY <3>1, <3>6
  <2>3. QED
    BY <2>1, <2>2
<1>3. CASE FetchMessage(w)
  <2> DEFINE u    == NextUid(job[w].uids)
             full == Cardinality(job[w].batch) + 1 >= BatchSize
             new  == [job[w] EXCEPT !.uids = @ \ {u}, !.max = IF u > @ THEN u ELSE @,
                                    !.batch = IF full THEN {} ELSE @ \cup {u}]
  <2>1. u \in Uids
    BY <1>3, <1>c, NextUidIsFirst DEF FetchMessage
  <2>2. job' = [job EXCEPT ![w] = new]
    BY <1>0, <1>3 DEF FetchMessage
  <2> HIDE DEF u, full
  <2>3. new \in JobRec
    <3>1. u \in 0..MaxMail /\ job[w].uids \ {u} \in SUBSET Uids
          /\ job[w].batch \cup {u} \in SUBSET Uids
      BY <1>c, <2>1, Bounds DEF Uids
    <3>2. QED
      BY <1>0, <1>c, <3>1 DEF JobRec
  <2>4. job' \in [Workers -> JobRec]
    <3> HIDE DEF new
    <3>1. QED
      BY <2>2, <2>3, JobType
  <2>5. rows' \subseteq ({0} \cup Validities) \X Uids
    <3>1. \/ rows' = rows
          \/ rows' = rows \cup Batch(w) \cup {<<job[w].validity, u>>}
      BY <1>3 DEF FetchMessage, u
    <3>2. QED
      BY <1>0, <1>c, <2>1, <3>1 DEF Batch
  <2>6. WorkersOK'
    BY <1>3 DEF FetchMessage, Outside, WorkersOK, DownInv
  <2>7. DataOK'
    BY <1>3, <2>4, <2>5, MishapType DEF FetchMessage, Outside, DataOK
  <2>8. QED
    BY <2>6, <2>7
<1>4. CASE FinishFetch(w)
  <2>1. WorkersOK'
    BY <1>4, <1>a, <1>b, BecomesType DEF FinishFetch, Outside, Pcs, Resting
  <2>2. job' \in [Workers -> JobRec] /\ sync' \in Cursor /\ carried' \in BOOLEAN
    BY <1>4, JobType, NoneTyped, SaveType DEF FinishFetch, JobEnds
  <2>3. status' \in Statuses /\ alerted' \in BOOLEAN
    BY <1>4, MarkRecoveredType DEF FinishFetch
  <2>4. rows' \subseteq ({0} \cup Validities) \X Uids
    BY <1>0, <1>4, <1>c DEF FinishFetch, Batch
  <2>5. DataOK'
    BY <1>4, <2>2, <2>3, <2>4, MishapType DEF FinishFetch, Outside, DataOK
  <2>6. QED
    BY <2>1, <2>5
<1>5. QED
  BY <1>1, <1>2, <1>3, <1>4

LEMMA TimerType ==
    ASSUME TypeInv, NEW w \in Workers, TimerFires(w) PROVE TypeInv'
<1> USE TwoParts, TwoPartsNext, TimerFires(w)
<1> DEFINE old == [worker[w] EXCEPT !.timer = FALSE]
           new == Attempt(old, credential)
<1>1. worker[w] \in WorkerRec /\ credential \in CredentialKinds /\ status \in Statuses
      /\ alerted \in BOOLEAN /\ job \in [Workers -> JobRec]
  BY DEF WorkersOK, DataOK
<1>2. old \in WorkerRec /\ old.stopping = worker[w].stopping /\ ~old.timer
  BY <1>1 DEF WorkerRec
<1>3. worker' = [worker EXCEPT ![w] = new] /\ worker[w] # NoWorker
  BY <1>1 DEF TimerFires, NoWorker
<1> HIDE DEF old
<1>4. new \in WorkerRec /\ new.stopping = worker[w].stopping /\ new.timer = FALSE
  <2>1. old.timer = FALSE
    BY <1>2 DEF WorkerRec
  <2>2. QED
    BY <1>1, <1>2, <2>1, AttemptType
<1> HIDE DEF new
<1>5. WorkersOK'
  BY <1>3, <1>4, WorkerStepType DEF TimerFires, Outside, WorkerStep
<1>6. status' \in Statuses
  BY <1>1, StatusType, AttemptStatusType DEF TimerFires
<1>7. QED
  BY <1>1, <1>5, <1>6, PlainStepType DEF TimerFires, Outside

LEMMA StoppedType ==
    ASSUME NEW old \in WorkerRec
    PROVE  /\ Stopped(old) \in WorkerRec
           /\ Stopped(old).stopping = TRUE /\ Stopped(old).timer = FALSE
           /\ Stopped(old).pc = old.pc
           /\ Stopped(old) # NoWorker
BY DEF Stopped, WorkerRec, Conns, NoWorker

LEMMA StartSyncType ==
    ASSUME TypeInv, StartSync PROVE TypeInv'
<1> USE TwoParts, TwoPartsNext, StartSync
<1>1. credential \in CredentialKinds /\ status \in Statuses /\ alerted \in BOOLEAN
      /\ job \in [Workers -> JobRec] /\ worker \in [Workers -> WorkerRec]
  BY DEF WorkersOK, DataOK
<1>2. current = 0
  BY DEF StartSync, WorkersOK, DownInv
<1>3. CASE status = "none"
  <2>1. WorkersOK'
    BY <1>2, <1>3 DEF StartSync, WorkersOK, DownInv
  <2>2. QED
    BY <1>1, <1>3, <2>1, PlainStepType DEF StartSync
<1>4. CASE status # "none"
  <2>1. PICK w \in Workers : /\ IsNew(w) /\ current' = w
                             /\ worker' = [worker EXCEPT ![w] = Attempt(NoWorker, credential)]
                             /\ StatusIs(AttemptStatus(credential, status))
                             /\ alerted' = (alerted \/ credential = "malformed")
    BY <1>4 DEF StartSync
  <2> DEFINE new == Attempt(NoWorker, credential)
  <2>2. new \in WorkerRec /\ new.stopping = FALSE /\ new.timer = FALSE
    BY <1>1, AttemptType, NoneTyped DEF NoWorker
  <2> HIDE DEF new
  <2>3. worker' \in [Workers -> WorkerRec] /\ up' = TRUE
    BY <1>1, <2>1, <2>2 DEF new, StartSync
  <2>4. worker'[w] = new /\ worker[w] = NoWorker
    BY <1>1, <2>1 DEF new, IsNew
  <2>5. \A v \in Workers : v # w => worker'[v] = worker[v]
    BY <1>1, <2>1
  <2>6. \A v \in Workers : worker'[v].stopping <=> v # current' /\ worker'[v] # NoWorker
    <3>0. 0 \notin Workers
      BY InboxAssumption
    <3>1. QED
      BY <1>2, <2>1, <2>2, <2>4, <2>5, <3>0 DEF WorkersOK
  <2>7. \A v \in Workers : worker'[v].timer => v = current'
    <3>1. \A v \in Workers : ~worker[v].timer
      BY <1>2, InboxAssumption DEF WorkersOK
    <3>2. QED
      BY <2>1, <2>2, <2>4, <2>5, <3>1
  <2>8. WorkersOK'
    BY <2>1, <2>3, <2>6, <2>7 DEF WorkersOK, DownInv
  <2>9. status' \in Statuses /\ alerted' \in BOOLEAN
    BY <1>1, <2>1, StatusType, AttemptStatusType
  <2>10. QED
    BY <1>1, <2>8, <2>9, PlainStepType DEF StartSync
<1>5. QED
  BY <1>3, <1>4

LEMMA RestartType ==
    ASSUME TypeInv, Restart PROVE TypeInv'
<1> USE TwoParts, TwoPartsNext
<1>0. PICK w \in Workers :
        /\ current # 0 /\ IsNew(w) /\ current' = w
        /\ credential' \in Given
        /\ worker' = [worker EXCEPT ![current] = Stopped(@), ![w] = Attempt(NoWorker, credential')]
        /\ StatusIs(AttemptStatus(credential', "disconnected"))
        /\ alerted' = (credential' = "malformed")
        /\ Stored /\ AllsWell
        /\ UNCHANGED <<provider, server, up, job>>
  BY DEF Restart
<1>1. credential' \in CredentialKinds /\ status \in Statuses
      /\ job \in [Workers -> JobRec] /\ worker \in [Workers -> WorkerRec]
      /\ current \in Workers /\ up \in BOOLEAN
  BY <1>0 DEF WorkersOK, DataOK, Given, CredentialKinds
<1> DEFINE new == Attempt(NoWorker, credential')
           off == Stopped(worker[current])
<1>2. new \in WorkerRec /\ new.stopping = FALSE /\ new.timer = FALSE
  BY <1>1, AttemptType, NoneTyped DEF NoWorker
<1>3. off \in WorkerRec /\ off.stopping = TRUE /\ off.timer = FALSE /\ off # NoWorker
  BY <1>1, StoppedType
<1>4. worker' = [[worker EXCEPT ![current] = off] EXCEPT ![w] = new]
  BY <1>0
<1>5. worker[w] = NoWorker
  BY <1>0 DEF IsNew
<1> HIDE DEF new, off
<1>6. worker' \in [Workers -> WorkerRec]
  BY <1>1, <1>2, <1>3, <1>4
<1>7. worker'[w] = new /\ (current # w => worker'[current] = off)
      /\ \A v \in Workers : v # w /\ v # current => worker'[v] = worker[v]
  BY <1>1, <1>4
<1>8. ASSUME NEW v \in Workers
      PROVE  /\ worker'[v].stopping <=> v # current' /\ worker'[v] # NoWorker
             /\ worker'[v].timer => v = current'
  <2>1. CASE v = w
    BY <1>0, <1>2, <1>7, <2>1
  <2>2. CASE v # w /\ v = current
    BY <1>0, <1>3, <1>7, <2>2
  <2>3. CASE v # w /\ v # current
    BY <1>0, <1>7, <2>3 DEF WorkersOK
  <2>4. QED
    BY <2>1, <2>2, <2>3
<1>9. DownInv'
  BY <1>0, <1>1 DEF WorkersOK, DownInv
<1>10. WorkersOK'
  BY <1>0, <1>1, <1>6, <1>8, <1>9 DEF WorkersOK
<1>11. status' \in Statuses
  BY <1>0, <1>1, StatusType, AttemptStatusType DEF Statuses
<1>12. QED
  BY <1>0, <1>1, <1>10, <1>11, PlainStepType

LEMMA RemoveType ==
    ASSUME TypeInv, Remove PROVE TypeInv'
<1> USE TwoParts, TwoPartsNext, Remove
<1>1. worker \in [Workers -> WorkerRec] /\ current \in Workers /\ 0 \notin Workers
  BY InboxAssumption DEF WorkersOK, Remove
<1> DEFINE off == Stopped(worker[current])
<1>2. off \in WorkerRec /\ off.stopping = TRUE /\ off.timer = FALSE /\ off # NoWorker
  BY <1>1, StoppedType
<1>3. worker' = [worker EXCEPT ![current] = off] /\ current' = 0 /\ up' = up
  BY DEF Remove
<1> HIDE DEF off
<1>4. \A v \in Workers : /\ worker'[v] = IF v = current THEN off ELSE worker[v]
                         /\ v # current'
  BY <1>1, <1>3
<1>5. WorkersOK'
  BY <1>1, <1>2, <1>3, <1>4 DEF WorkersOK, DownInv
<1>6. DataOK'
  BY MishapType DEF Remove, DataOK, Statuses
<1>7. QED
  BY <1>5, <1>6

LEMMA CrashType ==
    ASSUME TypeInv, Crash PROVE TypeInv'
<1> USE TwoParts, TwoPartsNext, Crash
<1> DEFINE off == [NoWorker EXCEPT !.stopping = TRUE]
<1>1. off \in WorkerRec /\ off.stopping = TRUE /\ off.timer = FALSE /\ off # NoWorker
      /\ NoWorker.stopping = FALSE /\ NoWorker.timer = FALSE
  BY NoneTyped DEF NoWorker, WorkerRec
<1>2. /\ worker' = [w \in Workers |-> IF worker[w] = NoWorker THEN NoWorker ELSE off]
      /\ current' = 0 /\ up' = FALSE
  BY DEF Crash
<1> HIDE DEF off
<1>3. \A v \in Workers : v # 0
  BY InboxAssumption
<1>4. WorkersOK'
  BY <1>1, <1>2, <1>3, NoneTyped DEF WorkersOK, DownInv
<1>5. job' \in [Workers -> JobRec]
  BY NoneTyped DEF Crash
<1>6. QED
  BY <1>4, <1>5, PlainStepType DEF Crash, DataOK, SecretChanged, CredentialKinds

LEMMA DeliverType ==
    ASSUME TypeInv, Deliver PROVE TypeInv'
<1> USE TwoParts, TwoPartsNext, Deliver
<1> DEFINE new == [server EXCEPT !.box = @ \cup {server.next}, !.next = @ + 1]
<1>1. server \in [validity : Validities, box : SUBSET Uids, next : Nat \ {0}]
      /\ \A u \in server.box : u < server.next
  BY DEF DataOK
<1>2. server.next \in Uids
  BY <1>1, Bounds DEF Deliver, Uids
<1>3. server' = new /\ new.validity = server.validity /\ new.next = server.next + 1
      /\ new.box = server.box \cup {server.next}
  BY <1>1 DEF Deliver
<1>4. server' \in [validity : Validities, box : SUBSET Uids, next : Nat \ {0}]
  <2>1. server.box \cup {server.next} \in SUBSET Uids /\ server.next + 1 \in Nat \ {0}
    BY <1>1, <1>2
  <2>2. QED
    BY <1>1, <2>1 DEF Deliver
<1>5. \A u \in server'.box : u < server'.next
  BY <1>1, <1>3 DEF Uids
<1>6. WorkersOK'
  BY DEF Deliver, Settings, WorkersOK, DownInv
<1>7. DataOK'
  BY <1>4, <1>5, MishapType DEF Deliver, Settings, Stored, DataOK
<1>8. QED
  BY <1>6, <1>7

LEMMA RebuildType ==
    ASSUME TypeInv, Rebuild PROVE TypeInv'
<1> USE TwoParts, TwoPartsNext, Rebuild
<1>1. server \in [validity : Validities, box : SUBSET Uids, next : Nat \ {0}]
      /\ worker \in [Workers -> WorkerRec]
  BY DEF DataOK, WorkersOK
<1>2. IsFiniteSet(Uids) /\ Cardinality(Uids) = MaxMail
  BY Bounds, FS_Interval DEF Uids
<1>3. Cardinality(server.box) \in Nat /\ Cardinality(server.box) <= MaxMail
  BY <1>1, <1>2, FS_Subset, FS_CardinalityType
<1>4. PICK n \in 0..Cardinality(server.box) :
        server' = [validity |-> server.validity + 1, box |-> 1..n, next |-> n + 1]
  BY DEF Rebuild
<1>5. server' \in [validity : Validities, box : SUBSET Uids, next : Nat \ {0}]
  BY <1>1, <1>3, <1>4, Bounds DEF Rebuild, Validities, Uids
<1>6. \A u \in server'.box : u < server'.next
  BY <1>3, <1>4
<1>7. ASSUME NEW w \in Workers
      PROVE  /\ worker'[w] \in WorkerRec
             /\ worker'[w].stopping = worker[w].stopping
             /\ worker'[w].timer = worker[w].timer
             /\ worker'[w] = NoWorker <=> worker[w] = NoWorker
  <2>1. CASE worker[w].conn # "open"
    BY <1>1, <2>1 DEF Rebuild
  <2>2. CASE worker[w].conn = "open"
    <3>1. worker'[w] = [worker[w] EXCEPT !.conn = "lost"] /\ worker[w] # NoWorker
      BY <2>2 DEF Rebuild, NoWorker
    <3>2. worker'[w].conn = "lost" /\ worker'[w] # NoWorker
      BY <1>1, <3>1 DEF WorkerRec, NoWorker
    <3>3. QED
      BY <1>1, <3>1, <3>2 DEF WorkerRec, Conns
  <2>3. QED
    BY <2>1, <2>2
<1>8. worker' \in [Workers -> WorkerRec]
  BY <1>7 DEF Rebuild
<1>9. WorkersOK'
  BY <1>7, <1>8 DEF Rebuild, Settings, WorkersOK, DownInv
<1>10. DataOK'
  BY <1>5, <1>6, MishapType DEF Rebuild, Settings, Stored, DataOK
<1>11. QED
  BY <1>9, <1>10

LEMMA StutterType ==
    ASSUME TypeInv, UNCHANGED vars PROVE TypeInv'
BY DEF vars, TypeInv, TypeOK, DownInv

LEMMA NextType == TypeInv /\ [Next]_vars => TypeInv'
<1> SUFFICES ASSUME TypeInv, [Next]_vars PROVE TypeInv'
  OBVIOUS
<1>1. ASSUME NEW w \in Workers, Advance(w) \/ ErrorEvent(w) \/ Disconnect(w)
      PROVE  TypeInv'
  BY <1>1, AttemptStepsType, SyncStepsType, TimerType DEF Advance
<1>2. QED
  BY <1>1, StartSyncType, RestartType, RemoveType, CrashType, DeliverType, RebuildType,
     StutterType DEF Next

(* At all times the state has its type, the worker that is not stopping is  *)
(* the account's current one, and only it has a timer.                      *)
THEOREM TypeCorrect == Spec => []TypeOK
<1>1. Spec => []TypeInv
  BY InitType, NextType, PTL DEF Spec
<1>2. TypeInv => TypeOK
  BY DEF TypeInv
<1>3. QED
  BY <1>1, <1>2, PTL

-----------------------------------------------------------------------------
(* No mail is skipped *)

Running == {"searching", "fetching"}

(* The cursor has been right up to now, and there is an account.            *)
Clean == ~carried /\ status # "none"

SyncInv ==
    /\ sync.validity <= server.validity
    /\ sync.validity = 0 => sync.lastUid = 0
    /\ Clean /\ sync.validity = server.validity =>
         /\ sync.lastUid < server.next
         /\ \A u \in server.box : u <= sync.lastUid => <<server.validity, u>> \in rows

(* The job is about the mailbox as it is now, and will keep no wrong cursor. *)
Fresh(j) ==
    /\ j.validity = server.validity
    /\ j.state.validity = j.validity \/ j.state.lastUid = 0

Safe(j, u) == u \in j.batch \/ <<j.validity, u>> \in rows

(* What is at most the maximum, or less than a UID still to come, is stored *)
(* or about to be stored or still to come itself.                           *)
Passed(j) ==
    /\ j.max < server.next
    /\ \A x \in j.uids : x < server.next
    /\ \A u \in server.box : u <= j.max => Safe(j, u)
    /\ \A u \in server.box, x \in j.uids : u < x => u \in j.uids \/ Safe(j, u)

JobInv(pc, j) ==
    /\ j.validity <= server.validity
    /\ j.state.validity = 0 => j.state.lastUid = 0
    /\ pc \in Running => j.validity # 0
    /\ pc = "searching" => j.uids = {} /\ j.batch = {} /\ j.max = j.state.lastUid
    /\ Clean /\ Fresh(j) => Passed(j)

MailInv == SyncInv /\ \A w \in Workers : JobInv(worker[w].pc, job[w])

LEMMA Types ==
    ASSUME TypeInv
    PROVE  /\ server.validity \in Nat \ {0} /\ server.box \subseteq Nat /\ server.next \in Nat \ {0}
           /\ \A u \in server.box : u < server.next
           /\ sync.validity \in Nat /\ sync.lastUid \in Nat
           /\ job \in [Workers -> JobRec]
           /\ worker \in [Workers -> WorkerRec]
           /\ \A w \in Workers :
                /\ job[w].validity \in Nat /\ job[w].max \in Nat
                /\ job[w].uids \subseteq Uids /\ job[w].batch \subseteq Uids
                /\ job[w].state \in Cursor
                /\ job[w].state.validity \in Nat /\ job[w].state.lastUid \in Nat
<1>1. /\ server \in [validity : Validities, box : SUBSET Uids, next : Nat \ {0}]
      /\ \A u \in server.box : u < server.next
      /\ sync \in Cursor /\ job \in [Workers -> JobRec] /\ worker \in [Workers -> WorkerRec]
  BY TwoParts DEF DataOK, WorkersOK
<1>2. \A c \in Cursor : c.validity \in Nat /\ c.lastUid \in Nat
  BY Bounds DEF Cursor, Validities
<1>3. ASSUME NEW j \in JobRec
      PROVE  /\ j.validity \in Nat /\ j.max \in Nat /\ j.state \in Cursor
             /\ j.uids \subseteq Uids /\ j.batch \subseteq Uids
  BY Bounds DEF JobRec, Validities
<1>4. server.validity \in Nat \ {0} /\ server.box \subseteq Nat
  BY <1>1, Bounds DEF Validities, Uids
<1>5. QED
  BY <1>1, <1>2, <1>3, <1>4

LEMMA NoJobInv ==
    ASSUME TypeInv, NEW pc, pc \notin Running PROVE JobInv(pc, NoJob)
BY Types DEF JobInv, NoJob, NoCursor, Fresh, Running

(* Steps that neither store anything nor touch the mailbox, and leave each  *)
(* job alone or drop it.                                                    *)
Quiet ==
    /\ UNCHANGED <<sync, server>>
    /\ Clean' => Clean /\ rows' = rows
    /\ \A w \in Workers :
         \/ job'[w] = NoJob /\ worker'[w].pc \notin Running
         \/ /\ job'[w] = job[w]
            /\ worker'[w].pc \in Running => worker'[w].pc = worker[w].pc

LEMMA QuietInv ==
    ASSUME TypeInv, TypeInv', MailInv, Quiet PROVE MailInv'
<1>1. SyncInv'
  BY DEF MailInv, SyncInv, Quiet
<1>2. ASSUME NEW w \in Workers PROVE JobInv(worker[w].pc, job[w])'
  <2>1. CASE job'[w] = NoJob /\ worker'[w].pc \notin Running
    <3>1. \A pc : pc \notin Running => JobInv(pc, NoJob)'
      BY Types DEF JobInv, NoJob, NoCursor, Fresh, Running, Quiet
    <3>2. QED
      BY <2>1, <3>1 DEF JobInv, Fresh, Passed, Safe
  <2>2. CASE /\ job'[w] = job[w]
             /\ worker'[w].pc \in Running => worker'[w].pc = worker[w].pc
    <3>1. JobInv(worker[w].pc, job[w])
      BY DEF MailInv
    <3>2. worker'[w].pc = "searching" => worker[w].pc = "searching"
      BY <2>2 DEF Running
    <3>3. QED
      BY <2>2, <3>1, <3>2 DEF JobInv, Quiet, Fresh, Passed, Safe
  <2>3. QED
    BY <2>1, <2>2 DEF Quiet
<1>3. QED
  BY <1>1, <1>2 DEF MailInv

(* A step of one worker's job: the others keep theirs, and what was stored   *)
(* of the present mailbox stays.                                            *)
OneJob(w) ==
    /\ UNCHANGED server
    /\ Clean' => Clean
    /\ \A u \in server.box : <<server.validity, u>> \in rows => <<server.validity, u>> \in rows'
    /\ \A v \in Workers : v # w => job'[v] = job[v] /\ worker'[v].pc = worker[v].pc

LEMMA OneJobInv ==
    ASSUME TypeInv, MailInv, NEW w \in Workers, OneJob(w), SyncInv',
           JobInv(worker[w].pc, job[w])'
    PROVE  MailInv'
<1>1. ASSUME NEW v \in Workers, v # w PROVE JobInv(worker[v].pc, job[v])'
  <2>1. JobInv(worker[v].pc, job[v])
    BY DEF MailInv
  <2>2. job'[v] = job[v] /\ worker'[v].pc = worker[v].pc
    BY <1>1 DEF OneJob
  <2>3. Fresh(job[v]) /\ Passed(job[v]) => Passed(job[v])'
    BY <2>2 DEF OneJob, Fresh, Passed, Safe
  <2>4. QED
    BY <2>1, <2>2, <2>3 DEF OneJob, JobInv, Fresh
<1>2. QED
  BY <1>1 DEF MailInv

(* What a job saves is right if all it has passed is stored.                *)
LEMMA SaveInv ==
    ASSUME TypeInv, MailInv, NEW w \in Workers, worker[w].pc \in Running, Save(job[w]),
           UNCHANGED server, Clean' => Clean,
           \A u \in server.box : Safe(job[w], u) => <<job[w].validity, u>> \in rows'
    PROVE  SyncInv'
<1> DEFINE j == job[w]
<1>1. JobInv(worker[w].pc, j)
  BY DEF MailInv
<1>2. sync'.lastUid = j.max /\ sync'.validity = j.validity
      /\ carried' = (carried \/ (j.state.validity \notin {0, j.validity} /\ j.state.lastUid > 0))
  BY DEF Save
<1>3. j.validity # 0 /\ j.validity <= server.validity
  BY <1>1 DEF JobInv
<1>4. ASSUME Clean', j.validity = server.validity
      PROVE  /\ j.max < server.next
             /\ \A u \in server.box : u <= j.max => <<j.validity, u>> \in rows'
  <2>1. Fresh(j)
    <3>1. ~(j.state.validity \notin {0, j.validity} /\ j.state.lastUid > 0)
      BY <1>2, <1>4, Zenon DEF Clean
    <3>2. QED
      BY <1>1, <1>4, <3>1, Types DEF Fresh, JobInv
  <2>2. Passed(j)
    BY <1>1, <1>4, <2>1 DEF JobInv
  <2>3. QED
    BY <2>2 DEF Passed
<1>5. QED
  BY <1>2, <1>3, <1>4 DEF SyncInv

LEMMA OpenedInv ==
    ASSUME TypeInv, TypeInv', MailInv, NEW w \in Workers, Opened(w) PROVE MailInv'
<1> DEFINE new == [NoJob EXCEPT !.validity = server.validity, !.state = sync,
                                !.max = sync.lastUid]
<1>1. job' = [job EXCEPT ![w] = new] /\ UNCHANGED <<server, sync, status, carried>>
      /\ worker' = [worker EXCEPT ![w].pc = "searching", ![w].conn = "open"]
      /\ rows' = IF sync.validity \in {0, server.validity} THEN rows
                 ELSE {r \in rows : r[1] # sync.validity}
  BY DEF Opened, Outside, Becomes
<1>2. \A u : <<server.validity, u>> \in rows => <<server.validity, u>> \in rows'
  BY <1>1
<1>3. OneJob(w)
  BY <1>1, <1>2, Types DEF OneJob, Clean
<1>4. SyncInv'
  BY <1>1, <1>2 DEF MailInv, SyncInv, Clean
<1>5. job'[w] = new /\ worker'[w].pc = "searching"
  BY <1>1, Types DEF WorkerRec
<1>6. /\ new.validity = server.validity /\ new.state = sync /\ new.max = sync.lastUid
      /\ new.uids = {} /\ new.batch = {}
  BY DEF NoJob
<1> HIDE DEF new
<1>7. (Clean /\ Fresh(job[w]) => Passed(job[w]))'
  <2>1. SUFFICES ASSUME Clean, sync.validity = server.validity \/ sync.lastUid = 0
                 PROVE  Passed(job[w])'
    BY <1>1, <1>5, <1>6 DEF Fresh, Clean
  <2>2. sync.lastUid < server.next
    BY <2>1, Types DEF MailInv, SyncInv
  <2>3. ASSUME NEW u \in server.box, u <= sync.lastUid
        PROVE  <<server.validity, u>> \in rows'
    <3>1. u # 0
      BY TwoParts DEF DataOK, Uids
    <3>2. sync.validity = server.validity
      BY <2>1, <2>3, <3>1, Types
    <3>3. QED
      BY <1>2, <2>1, <2>3, <3>2 DEF MailInv, SyncInv
  <2>4. QED
    BY <1>1, <1>5, <1>6, <2>2, <2>3 DEF Passed, Safe
<1>8. JobInv(worker[w].pc, job[w])'
  BY <1>1, <1>5, <1>6, <1>7, Types DEF JobInv, MailInv, SyncInv
<1>9. QED
  BY <1>3, <1>4, <1>8, OneJobInv

LEMMA SearchedInv ==
    ASSUME TypeInv, TypeInv', MailInv, NEW w \in Workers, Searched(w) PROVE MailInv'
<1> DEFINE j == job[w]
<1>0. PICK found \in {Wanted(j), {}} :
        IF found = {}
        THEN /\ Becomes(w, "idling", "open") /\ JobEnds(w)
             /\ Save(j) /\ MarkRecovered
        ELSE /\ Becomes(w, "fetching", "open")
             /\ job' = [job EXCEPT ![w].uids = found, ![w].seen = server.box]
             /\ UNCHANGED <<sync, status, alerted, carried>>
  BY DEF Searched
<1>1. JobInv("searching", j) /\ worker[w].pc = "searching"
  BY DEF Searched, MailInv
<1>2. UNCHANGED <<server, rows>>
  BY DEF Searched, Outside
<1>3. CASE found = {}
  <2>2. /\ Save(j) /\ job' = [job EXCEPT ![w] = NoJob] /\ (status' = "none" <=> status = "none")
        /\ worker' = [worker EXCEPT ![w].pc = "idling", ![w].conn = "open"]
    BY <1>0, <1>3 DEF JobEnds, MarkRecovered, StatusIs, Becomes
  <2>3. Clean' => Clean
    BY <2>2 DEF Clean, Save
  <2>4. OneJob(w)
    BY <1>2, <2>2, <2>3, Types DEF OneJob
  <2>5. SyncInv'
    BY <1>1, <1>2, <2>2, <2>3, SaveInv DEF JobInv, Safe, Running
  <2>6. JobInv(worker[w].pc, job[w])'
    <3>1. job'[w] = NoJob /\ worker'[w].pc = "idling"
      BY <2>2, Types DEF WorkerRec
    <3>2. JobInv("idling", NoJob)'
      BY <1>2, Types DEF JobInv, NoJob, NoCursor, Fresh, Running
    <3>3. QED
      BY <3>1, <3>2 DEF JobInv, Fresh, Passed, Safe
  <2>7. QED
    BY <2>4, <2>5, <2>6, OneJobInv
<1>4. CASE found # {}
  <2> DEFINE new == [j EXCEPT !.uids = found, !.seen = server.box]
  <2>1. /\ job' = [job EXCEPT ![w] = new]
        /\ worker' = [worker EXCEPT ![w].pc = "fetching", ![w].conn = "open"]
        /\ UNCHANGED <<sync, status, carried>>
    BY <1>0, <1>4, Types DEF Becomes
  <2>2. OneJob(w)
    BY <1>2, <2>1, Types DEF OneJob, Clean
  <2>3. SyncInv'
    BY <1>2, <2>1 DEF MailInv, SyncInv, Clean
  <2>4. /\ new.validity = j.validity /\ new.state = j.state /\ new.max = j.max
        /\ new.uids = found /\ new.batch = j.batch
    BY Types DEF JobRec
  <2>5. job'[w] = new /\ worker'[w].pc = "fetching"
    BY <2>1, Types DEF WorkerRec
  <2> HIDE DEF new
  <2>6. ASSUME Clean, Fresh(j) PROVE Passed(job[w])'
    <3>1. Passed(j)
      BY <1>1, <2>6 DEF JobInv
    <3>0. found = Wanted(j)
      BY <1>4
    <3>2. \A x \in found : x \in server.box /\ x < server.next
      BY <3>0, WantedInBox, Types
    <3>3. ASSUME NEW u \in server.box, u \notin found PROVE Safe(j, u)
      <4>1. u <= j.state.lastUid
        BY <3>0, <3>3, Types DEF Wanted
      <4>2. QED
        BY <1>1, <3>1, <4>1 DEF JobInv, Passed
    <3>4. QED
      BY <1>2, <2>4, <2>5, <3>1, <3>2, <3>3 DEF Passed, Safe
  <2>7. JobInv(worker[w].pc, job[w])'
    BY <1>1, <1>2, <2>1, <2>4, <2>5, <2>6 DEF JobInv, Fresh, Clean, Running
  <2>8. QED
    BY <2>2, <2>3, <2>7, OneJobInv
<1>5. QED
  BY <1>3, <1>4

LEMMA FetchMessageInv ==
    ASSUME TypeInv, TypeInv', MailInv, NEW w \in Workers, FetchMessage(w) PROVE MailInv'
<1> DEFINE j == job[w]
<1>a. PICK u : u = NextUid(j.uids)
  OBVIOUS
<1>b. PICK new : new = job'[w]
  OBVIOUS
<1>1. JobInv("fetching", j) /\ worker[w].pc = "fetching"
  BY DEF FetchMessage, MailInv
<1>2. UNCHANGED <<server, sync, status, carried, worker>>
  BY DEF FetchMessage, Outside
<1>3. u \in j.uids /\ u \in Nat /\ \A k \in j.uids : u <= k
  BY <1>a, Types, NextUidIsFirst DEF FetchMessage, Uids
<1>4. /\ new.validity = j.validity /\ new.state = j.state /\ new.uids = j.uids \ {u}
      /\ new.max = IF u > j.max THEN u ELSE j.max
      /\ \A v \in Workers : v # w => job'[v] = job[v]
  BY <1>a, <1>b, Types DEF FetchMessage, JobRec
<1>5. \/ new.batch = j.batch \cup {u} /\ rows' = rows
      \/ new.batch = {} /\ rows' = rows \cup Batch(w) \cup {<<j.validity, u>>}
  BY <1>a, <1>b, Types DEF FetchMessage, JobRec
<1>6. \A k : Safe(j, k) => Safe(new, k)'
  BY <1>4, <1>5 DEF Safe, Batch
<1>7. Safe(new, u)'
  BY <1>4, <1>5 DEF Safe
<1>8. OneJob(w)
  BY <1>2, <1>4, <1>5 DEF OneJob, Clean
<1>9. SyncInv'
  BY <1>2, <1>5 DEF MailInv, SyncInv, Clean
<1>10. ASSUME Passed(j) PROVE Passed(new)'
  <2>1. new.max < server.next /\ \A x \in new.uids : x < server.next
    BY <1>3, <1>4, <1>10 DEF Passed
  <2>2. ASSUME NEW k \in server.box, k <= new.max PROVE Safe(new, k)'
    <3>1. CASE k <= j.max
      BY <1>6, <1>10, <3>1 DEF Passed
    <3>2. CASE k = u
      BY <1>7, <3>2
    <3>3. CASE ~(k <= j.max) /\ k # u
      <4>1. k < u /\ k \notin j.uids
        BY <1>3, <1>4, <2>2, <3>3, Types
      <4>2. QED
        BY <1>3, <1>6, <1>10, <4>1 DEF Passed
    <3>4. QED
      BY <3>1, <3>2, <3>3
  <2>3. ASSUME NEW k \in server.box, NEW x \in new.uids, k < x
        PROVE  k \in new.uids \/ Safe(new, k)'
    BY <1>4, <1>6, <1>7, <1>10, <2>3 DEF Passed
  <2>4. QED
    BY <1>2, <2>1, <2>2, <2>3 DEF Passed
<1>11. JobInv(worker[w].pc, job[w])'
  <2>1. (Clean /\ Fresh(new) => Passed(new))'
    BY <1>1, <1>2, <1>4, <1>10 DEF JobInv, Fresh, Clean
  <2>2. JobInv("fetching", new)'
    BY <1>1, <1>2, <1>4, <2>1 DEF JobInv, Running
  <2>3. QED
    BY <1>1, <1>2, <1>b, <2>2 DEF JobInv, Fresh, Passed, Safe
<1>12. QED
  BY <1>8, <1>9, <1>11, OneJobInv

LEMMA FinishFetchInv ==
    ASSUME TypeInv, TypeInv', MailInv, NEW w \in Workers, FinishFetch(w) PROVE MailInv'
<1>1. /\ Save(job[w]) /\ job' = [job EXCEPT ![w] = NoJob] /\ (status' = "none" <=> status = "none")
      /\ worker[w].pc = "fetching" /\ rows' = rows \cup Batch(w) /\ UNCHANGED server
      /\ worker' = [worker EXCEPT ![w].pc = "idling", ![w].conn = worker[w].conn]
  BY DEF FinishFetch, JobEnds, MarkRecovered, StatusIs, Becomes, Outside
<1>2. Clean' => Clean
  BY <1>1 DEF Clean, Save
<1>3. OneJob(w)
  BY <1>1, <1>2, Types DEF OneJob
<1>4. SyncInv'
  BY <1>1, <1>2, SaveInv DEF Safe, Batch, Running
<1>5. JobInv(worker[w].pc, job[w])'
  <2>1. job'[w] = NoJob /\ worker'[w].pc = "idling"
    BY <1>1, Types DEF WorkerRec
  <2>2. JobInv("idling", NoJob)'
    BY <1>1, Types DEF JobInv, NoJob, NoCursor, Fresh, Running
  <2>3. QED
    BY <2>1, <2>2 DEF JobInv, Fresh, Passed, Safe
<1>6. QED
  BY <1>3, <1>4, <1>5, OneJobInv

(* A new message is beyond what any cursor or job has passed.               *)
LEMMA DeliverInv ==
    ASSUME TypeInv, TypeInv', MailInv, Deliver PROVE MailInv'
<1>1. /\ server'.validity = server.validity /\ server'.next = server.next + 1
      /\ server'.box = server.box \cup {server.next}
      /\ UNCHANGED <<rows, sync, status, carried, worker, job>>
  <2>1. server \in [validity : Validities, box : SUBSET Uids, next : Nat \ {0}]
    BY TwoParts DEF DataOK
  <2>2. QED
    BY <2>1 DEF Deliver, Stored, Settings
<1>2. SyncInv'
  BY <1>1, Types DEF MailInv, SyncInv, Clean
<1>3. ASSUME NEW w \in Workers PROVE JobInv(worker[w].pc, job[w])'
  <2> DEFINE j == job[w]
  <2>1. JobInv(worker[w].pc, j)
    BY DEF MailInv
  <2>2. \A x \in j.uids : x \in Nat
    BY Types DEF Uids
  <2>3. ASSUME Passed(j) PROVE Passed(j)'
    BY <1>1, <2>2, <2>3, Types DEF Passed, Safe
  <2>4. QED
    BY <1>1, <2>1, <2>3 DEF JobInv, Fresh, Clean
<1>4. QED
  BY <1>2, <1>3 DEF MailInv

(* After a rebuild no cursor and no job is about the mailbox as it is.      *)
LEMMA RebuildInv ==
    ASSUME TypeInv, TypeInv', MailInv, Rebuild PROVE MailInv'
<1>1. /\ server'.validity = server.validity + 1
      /\ UNCHANGED <<rows, sync, status, carried, job>>
  BY DEF Rebuild, Stored, Settings
<1>2. \A w \in Workers : worker'[w].pc = worker[w].pc
  BY Types DEF Rebuild, WorkerRec
<1>3. SyncInv'
  BY <1>1, Types DEF MailInv, SyncInv
<1>4. ASSUME NEW w \in Workers PROVE JobInv(worker[w].pc, job[w])'
  <2>1. JobInv(worker[w].pc, job[w])
    BY DEF MailInv
  <2>2. job[w].validity < server'.validity
    BY <1>1, <2>1, Types DEF JobInv
  <2>3. ~Fresh(job[w])'
    BY <1>1, <2>2, Types DEF Fresh
  <2>4. QED
    BY <1>1, <1>2, <2>1, <2>2, <2>3, Types DEF JobInv
<1>5. QED
  BY <1>3, <1>4 DEF MailInv

LEMMA NextQuiet ==
    ASSUME TypeInv, TypeInv',
           \/ \E w \in Workers :
                \/ Refreshed(w) \/ RefreshFails(w) \/ Connected(w) \/ ConnectFails(w)
                \/ NoMailbox(w) \/ SyncFails(w) \/ OutlookToken(w) \/ OutlookAnswers(w)
                \/ OutlookFails(w) \/ CloseEvent(w) \/ ErrorEvent(w) \/ Disconnect(w)
                \/ TimerFires(w)
           \/ StartSync \/ Restart \/ Remove \/ Crash \/ UNCHANGED vars
    PROVE  Quiet
<1>0. job \in [Workers -> JobRec] /\ worker \in [Workers -> WorkerRec]
      /\ credential \in CredentialKinds /\ credential' \in CredentialKinds
  BY TwoParts, TwoPartsNext DEF WorkersOK, DataOK
<1> USE DEF Running
<1>1. ASSUME NEW w \in Workers,
             \/ Refreshed(w) \/ RefreshFails(w) \/ Connected(w) \/ ConnectFails(w)
             \/ NoMailbox(w) \/ OutlookToken(w) \/ OutlookAnswers(w)
             \/ OutlookFails(w) \/ CloseEvent(w) \/ ErrorEvent(w) \/ Disconnect(w)
      PROVE  Quiet
  <2>1. UNCHANGED <<sync, server, rows, carried, job>> /\ (status' = "none" <=> status = "none")
    BY <1>1 DEF Refreshed, RefreshFails, Connected, ConnectFails, NoMailbox, OutlookToken,
       OutlookAnswers, OutlookFails, CloseEvent, ErrorEvent, Disconnect, Outside, Stored,
       StatusIs, MarkFailed, MarkRecovered
  <2>2. \A v \in Workers : v # w => worker'[v] = worker[v]
    BY <1>0, <1>1 DEF Refreshed, RefreshFails, Connected, ConnectFails, NoMailbox, OutlookToken,
       OutlookAnswers, OutlookFails, CloseEvent, ErrorEvent, Disconnect, Becomes, GivesUp
  <2>3. worker'[w].pc \in Running => worker'[w].pc = worker[w].pc
    <3>1. \A pc, conn : Becomes(w, pc, conn) => worker'[w].pc = pc
      BY <1>0 DEF Becomes, WorkerRec
    <3>2. \A conn : GivesUp(w, conn) => worker'[w].pc = "none"
      BY <1>0 DEF GivesUp, WorkerRec
    <3>3. CloseEvent(w) => worker'[w].pc = worker[w].pc
      BY <1>0, <3>1 DEF CloseEvent, WorkerRec
    <3>4. QED
      BY <1>1, <3>1, <3>2, <3>3 DEF Refreshed, RefreshFails, Connected, ConnectFails,
         NoMailbox, OutlookToken, OutlookAnswers, OutlookFails, ErrorEvent, Disconnect
  <2>4. QED
    BY <2>1, <2>2, <2>3 DEF Quiet, Clean
<1>2. ASSUME NEW w \in Workers, SyncFails(w) PROVE Quiet
  <2>1. /\ UNCHANGED <<sync, server, rows, carried>> /\ (status' = "none" <=> status = "none")
        /\ job' = [job EXCEPT ![w] = NoJob]
    BY <1>2 DEF SyncFails, Outside, Stored, StatusIs, MarkFailed, JobEnds
  <2>2. worker'[w].pc = "none" /\ \A v \in Workers : v # w => worker'[v] = worker[v]
    BY <1>0, <1>2 DEF SyncFails, GivesUp, WorkerRec
  <2>3. QED
    BY <1>0, <2>1, <2>2 DEF Quiet, Clean
<1>3. \A old \in WorkerRec, c \in CredentialKinds : Attempt(old, c).pc \notin Running
  BY AttemptType
<1>4. ASSUME NEW w \in Workers, TimerFires(w) PROVE Quiet
  <2> DEFINE old == [worker[w] EXCEPT !.timer = FALSE]
  <2>1. UNCHANGED <<sync, server, rows, carried, job>> /\ (status' = "none" <=> status = "none")
    BY <1>0, <1>4 DEF TimerFires, Outside, Stored, StatusIs, AttemptStatus, CredentialKinds
  <2>2. old \in WorkerRec
    BY <1>0 DEF WorkerRec
  <2>3. worker' = [worker EXCEPT ![w] = Attempt(old, credential)]
    BY <1>0, <1>4 DEF TimerFires
  <2> HIDE DEF old
  <2>4. QED
    BY <1>0, <1>3, <2>1, <2>2, <2>3 DEF Quiet, Clean
<1>5. CASE StartSync
  <2>1. UNCHANGED <<sync, server, rows, carried, job>> /\ (status' = "none" <=> status = "none")
    BY <1>0, <1>5 DEF StartSync, Stored, StatusIs, AttemptStatus, CredentialKinds
  <2>2. \A v \in Workers : worker'[v] = worker[v] \/ worker'[v] = Attempt(NoWorker, credential)
    BY <1>0, <1>5 DEF StartSync
  <2>3. QED
    BY <1>0, <1>3, <2>1, <2>2, NoneTyped DEF Quiet, Clean
<1>6. CASE Restart
  <2>1. UNCHANGED <<sync, server, rows, carried, job>> /\ (status' = "none" <=> status = "none")
    BY <1>0, <1>6 DEF Restart, Stored, StatusIs, AttemptStatus, CredentialKinds
  <2>2. \A v \in Workers : \/ worker'[v] = worker[v] \/ worker'[v] = Attempt(NoWorker, credential')
                           \/ worker'[v] = Stopped(worker[v])
    BY <1>0, <1>6 DEF Restart
  <2>3. QED
    BY <1>0, <1>3, <2>1, <2>2, NoneTyped, StoppedType DEF Quiet, Clean
<1>7. CASE Remove
  <2>1. UNCHANGED <<sync, server, job>> /\ status' = "none"
    BY <1>7 DEF Remove
  <2>2. \A v \in Workers : worker'[v] = worker[v] \/ worker'[v] = Stopped(worker[v])
    BY <1>0, <1>7 DEF Remove
  <2>3. QED
    BY <1>0, <2>1, <2>2, StoppedType DEF Quiet, Clean
<1>8. CASE Crash
  <2>1. UNCHANGED <<sync, server, rows, carried, status>> /\ job' = [v \in Workers |-> NoJob]
    BY <1>8 DEF Crash, Stored
  <2>2. \A v \in Workers : worker'[v].pc = "none"
    BY <1>8 DEF Crash, NoWorker
  <2>3. QED
    BY <2>1, <2>2 DEF Quiet, Clean
<1>9. CASE UNCHANGED vars
  BY <1>9 DEF vars, Quiet, Clean
<1>10. QED
  BY <1>1, <1>2, <1>4, <1>5, <1>6, <1>7, <1>8, <1>9

LEMMA NextInv == TypeInv /\ TypeInv' /\ MailInv /\ [Next]_vars => MailInv'
<1> SUFFICES ASSUME TypeInv, TypeInv', MailInv, [Next]_vars PROVE MailInv'
  OBVIOUS
<1>1. ASSUME NEW w \in Workers, Advance(w) \/ ErrorEvent(w) \/ Disconnect(w)
      PROVE  MailInv'
  BY <1>1, NextQuiet, QuietInv, OpenedInv, SearchedInv, FetchMessageInv, FinishFetchInv
     DEF Advance
<1>2. QED
  BY <1>1, NextQuiet, QuietInv, DeliverInv, RebuildInv DEF Next

LEMMA InitInv == Init => MailInv
<1> SUFFICES ASSUME Init PROVE MailInv
  OBVIOUS
<1>1. TypeInv
  BY InitType
<1>2. SyncInv
  BY DEF Init, SyncInv, NoCursor
<1>3. \A w \in Workers : worker[w].pc \notin Running /\ job[w] = NoJob
  BY DEF Init, NoWorker, Running
<1>4. QED
  BY <1>1, <1>2, <1>3, NoJobInv DEF MailInv

(* As long as no cursor is kept across a change of UIDVALIDITY, every       *)
(* message at or below the saved cursor is stored, whatever was interrupted *)
(* and however many workers write.                                          *)
THEOREM NoneSkipped == Spec => []NoMailSkipped
<1>1. Spec => [](TypeInv /\ MailInv)
  BY InitType, NextType, InitInv, NextInv, PTL DEF Spec
<1>2. MailInv => NoMailSkipped
  BY DEF MailInv, SyncInv, Clean, NoMailSkipped
<1>3. QED
  BY <1>1, <1>2, PTL

-----------------------------------------------------------------------------
(* Workers that keep trying, and workers that have retired *)

(* What the helpers do to a worker.                                         *)
LEMMA HelperSteps ==
    ASSUME TypeInv, NEW w \in Workers
    PROVE  /\ \A pc, conn : Becomes(w, pc, conn) =>
                /\ worker'[w].pc = pc /\ worker'[w].conn = conn
                /\ worker'[w].timer = worker[w].timer
           /\ \A conn : GivesUp(w, conn) =>
                /\ worker'[w].pc = "none"
                /\ worker'[w].timer = (worker[w].timer \/ ~worker[w].stopping)
<1>0. worker \in [Workers -> WorkerRec] /\ worker[w] \in WorkerRec
  BY TwoParts DEF WorkersOK
<1>1. \A pc, conn : Becomes(w, pc, conn) =>
        /\ worker'[w].pc = pc /\ worker'[w].conn = conn
        /\ worker'[w].timer = worker[w].timer
  BY <1>0 DEF Becomes, WorkerRec
<1>2. \A conn : GivesUp(w, conn) =>
        /\ worker'[w].pc = "none"
        /\ worker'[w].timer = (worker[w].timer \/ ~worker[w].stopping)
  BY <1>0 DEF GivesUp, Retries, WorkerRec
<1>3. QED
  BY <1>1, <1>2

LEMMA TimerStep ==
    ASSUME TypeInv, NEW w \in Workers, TimerFires(w)
    PROVE  \E old \in WorkerRec : worker'[w] = Attempt(old, credential)
<1>1. worker \in [Workers -> WorkerRec] /\ worker[w] \in WorkerRec
  BY TwoParts DEF WorkersOK
<1> DEFINE old == [worker[w] EXCEPT !.timer = FALSE]
<1>2. old \in WorkerRec
  BY <1>1 DEF WorkerRec
<1>3. worker'[w] = Attempt(old, credential)
  BY <1>1 DEF TimerFires
<1>4. QED
  BY <1>2, <1>3

LEMMA OthersRest ==
    ASSUME TypeInv, NEW w \in Workers, Advance(w) \/ ErrorEvent(w) \/ Disconnect(w)
    PROVE  UNCHANGED current /\ \A v \in Workers : v # w => worker'[v] = worker[v]
<1>1. worker \in [Workers -> WorkerRec]
  BY TwoParts DEF WorkersOK
<1>2. UNCHANGED current
  BY DEF Advance, Refreshed, RefreshFails, Connected, ConnectFails, Opened, NoMailbox, Searched,
     FetchMessage, FinishFetch, SyncFails, OutlookToken, OutlookAnswers, OutlookFails,
     CloseEvent, TimerFires, ErrorEvent, Disconnect, Outside
<1>3. \A v \in Workers : v # w => worker'[v] = worker[v]
  BY <1>1 DEF Advance, Refreshed, RefreshFails, Connected, ConnectFails, Opened, NoMailbox,
     Searched, FetchMessage, FinishFetch, SyncFails, OutlookToken, OutlookAnswers, OutlookFails,
     CloseEvent, TimerFires, ErrorEvent, Disconnect, Becomes, GivesUp
<1>4. QED
  BY <1>2, <1>3

(* A credential, and what a worker is at with it, fit the provider.         *)
FitsProvider(c) ==
    IF provider = "outlook" THEN c \in {"outlook", "malformed", "unreadable"}
                            ELSE c \in {"password", "oauth", "unreadable"}

AtFits(pc) ==
    /\ pc = "refresh" => provider # "outlook"
    /\ pc \in {"token", "malformed"} => provider = "outlook"

Fits == FitsProvider(credential) /\ \A w \in Workers : AtFits(worker[w].pc)

LEMMA AttemptFits ==
    ASSUME NEW old \in WorkerRec, NEW c \in CredentialKinds, FitsProvider(c)
    PROVE  AtFits(Attempt(old, c).pc)
BY AttemptType DEF FitsProvider, AtFits

LEMMA FitsNext ==
    ASSUME TypeInv, TypeInv', Fits, [Next]_vars
    PROVE  Fits'
<1>0. /\ worker \in [Workers -> WorkerRec] /\ credential \in CredentialKinds
      /\ credential' \in CredentialKinds /\ FitsProvider(credential)
      /\ \A w \in Workers : AtFits(worker[w].pc)
  BY TwoParts, TwoPartsNext DEF WorkersOK, DataOK, Fits
<1>1. UNCHANGED provider
  BY DEF Next, Advance, Refreshed, RefreshFails, Connected, ConnectFails, Opened, NoMailbox,
     Searched, FetchMessage, FinishFetch, SyncFails, OutlookToken, OutlookAnswers, OutlookFails,
     CloseEvent, TimerFires, ErrorEvent, Disconnect, Outside, StartSync, Restart, Remove, Crash,
     Deliver, Rebuild, Settings, vars
<1>2. FitsProvider(credential)'
  <2>1. CASE \E w \in Workers : Refreshed(w)
    BY <1>0, <1>1, <2>1 DEF Refreshed, StoresToken, AtFits, FitsProvider
  <2>2. CASE \E w \in Workers : OutlookToken(w)
    BY <1>0, <1>1, <2>2 DEF OutlookToken, StoresToken, AtFits, FitsProvider
  <2>3. CASE Restart
    BY <1>1, <2>3 DEF Restart, Given, FitsProvider
  <2>4. CASE Crash
    BY <1>0, <1>1, <2>4 DEF Crash, SecretChanged, FitsProvider
  <2>5. CASE UNCHANGED credential
    BY <1>0, <1>1, <2>5 DEF FitsProvider
  <2>6. QED
    BY <2>1, <2>2, <2>3, <2>4, <2>5
    DEF Next, Advance, RefreshFails, Connected, ConnectFails, Opened, NoMailbox,
        Searched, FetchMessage, FinishFetch, SyncFails, OutlookAnswers, OutlookFails,
        CloseEvent, TimerFires, ErrorEvent, Disconnect, Outside, StartSync, Remove,
        Deliver, Rebuild, Settings, vars
<1>3. ASSUME NEW pc, AtFits(pc) PROVE AtFits(pc)'
  BY <1>1, <1>3 DEF AtFits
<1>4. ASSUME NEW w \in Workers, Advance(w) \/ ErrorEvent(w) \/ Disconnect(w)
      PROVE  AtFits(worker'[w].pc)
  <2>1. CASE TimerFires(w)
    BY <1>0, <2>1, TimerStep, AttemptFits
  <2>2. CASE OutlookToken(w)
    BY <2>2, HelperSteps DEF OutlookToken, AtFits
  <2>3. CASE CloseEvent(w) \/ FetchMessage(w)
    <3>1. worker'[w].pc = worker[w].pc
      BY <1>0, <2>3, HelperSteps DEF CloseEvent, FetchMessage, WorkerRec
    <3>2. QED
      BY <1>0, <3>1
  <2>4. CASE ErrorEvent(w) \/ Disconnect(w)
    <3>1. worker'[w].pc = worker[w].pc
      BY <2>4, HelperSteps DEF ErrorEvent, Disconnect
    <3>2. QED
      BY <1>0, <3>1
  <2>5. CASE Refreshed(w) \/ Connected(w) \/ Opened(w) \/ NoMailbox(w) \/ FinishFetch(w)
    BY <2>5, HelperSteps DEF Refreshed, Connected, Opened, NoMailbox, FinishFetch, AtFits
  <2>6. CASE Searched(w)
    BY <2>6, HelperSteps DEF Searched, AtFits
  <2>7. CASE RefreshFails(w) \/ ConnectFails(w) \/ SyncFails(w) \/ OutlookAnswers(w) \/ OutlookFails(w)
    BY <2>7, HelperSteps DEF RefreshFails, ConnectFails, SyncFails, OutlookAnswers, OutlookFails,
       AtFits
  <2>8. QED
    BY <1>4, <2>1, <2>2, <2>3, <2>4, <2>5, <2>6, <2>7 DEF Advance
<1>5. \A w \in Workers : AtFits(worker'[w].pc)
  <2>1. ASSUME NEW w \in Workers, Advance(w) \/ ErrorEvent(w) \/ Disconnect(w), NEW v \in Workers
        PROVE  AtFits(worker'[v].pc)
    BY <1>0, <1>4, <2>1, OthersRest
  <2>2. AtFits("none")
    BY DEF AtFits
  <2>3. CASE StartSync
    <3>1. \A v \in Workers : worker'[v] = worker[v] \/ worker'[v] = Attempt(NoWorker, credential)
      BY <1>0, <2>3 DEF StartSync
    <3>2. QED
      BY <1>0, <3>1, NoneTyped, AttemptFits
  <2>4. CASE Restart
    <3>1. \A v \in Workers : \/ worker'[v] = worker[v] \/ worker'[v] = Stopped(worker[v])
                             \/ worker'[v] = Attempt(NoWorker, credential')
      BY <1>0, <2>4 DEF Restart
    <3>2. FitsProvider(credential')
      BY <1>1, <1>2 DEF FitsProvider
    <3>3. AtFits(Attempt(NoWorker, credential').pc)
      BY <1>0, <3>2, NoneTyped, AttemptFits
    <3>4. \A v \in Workers : AtFits(Stopped(worker[v]).pc)
      BY <1>0, StoppedType
    <3>5. QED
      BY <3>1, <3>3, <3>4, <1>0
  <2>5. CASE Remove
    <3>1. \A v \in Workers : worker'[v] = worker[v] \/ worker'[v] = Stopped(worker[v])
      BY <1>0, <2>5 DEF Remove
    <3>2. QED
      BY <1>0, <3>1, StoppedType
  <2>6. CASE Crash
    BY <2>2, <2>6 DEF Crash, NoWorker
  <2>7. CASE Deliver \/ UNCHANGED vars
    BY <1>0, <2>7 DEF Deliver, vars
  <2>8. CASE Rebuild
    <3>1. \A v \in Workers : worker'[v].pc = worker[v].pc
      BY <1>0, <2>8 DEF Rebuild, WorkerRec
    <3>2. QED
      BY <1>0, <3>1
  <2>9. QED
    BY <2>1, <2>3, <2>4, <2>5, <2>6, <2>7, <2>8 DEF Next
<1>6. QED
  BY <1>1, <1>2, <1>5 DEF Fits, AtFits

Trying(r) ==
    \/ r.pc \notin Resting
    \/ r.pc = "idling" /\ r.conn \in {"open", "lost"}
    \/ r.timer
    \/ r.pc = "unreadable"
    \/ r.pc = "malformed" /\ provider = "outlook"

LEMMA AttemptTries ==
    ASSUME NEW old \in WorkerRec, NEW c \in CredentialKinds, FitsProvider(c)
    PROVE  Trying(Attempt(old, c))
BY AttemptType, AttemptFits DEF Trying, AtFits, Resting

LEMMA TryingStep ==
    ASSUME TypeInv, Fits, NEW w \in Workers, w = current, Trying(worker[w]),
           Advance(w) \/ ErrorEvent(w) \/ Disconnect(w)
    PROVE  Trying(worker'[w])
<1>1. ~worker[w].stopping /\ worker[w].stopping \in BOOLEAN /\ worker[w] \in WorkerRec
      /\ worker \in [Workers -> WorkerRec]
  BY TwoParts DEF WorkersOK, WorkerRec
<1>2. CASE Refreshed(w) \/ Connected(w) \/ Opened(w) \/ OutlookToken(w)
  BY <1>2, HelperSteps DEF Refreshed, Connected, Opened, OutlookToken, Trying, Resting
<1>a. CASE TimerFires(w)
  BY <1>a, TimerStep, AttemptTries, TwoParts DEF Fits, DataOK
<1>b. CASE FetchMessage(w)
  BY <1>b DEF FetchMessage
<1>3. CASE RefreshFails(w) \/ ConnectFails(w) \/ SyncFails(w) \/ OutlookAnswers(w)
           \/ OutlookFails(w)
  BY <1>1, <1>3, HelperSteps DEF RefreshFails, ConnectFails, SyncFails, OutlookAnswers,
     OutlookFails, Trying
<1>4. CASE NoMailbox(w) \/ FinishFetch(w)
  BY <1>1, <1>4, HelperSteps DEF NoMailbox, FinishFetch, Trying, Resting
<1>c. CASE Searched(w)
  BY <1>1, <1>c, HelperSteps DEF Searched, Trying, Resting
<1>5. CASE CloseEvent(w)
  BY <1>1, <1>5 DEF CloseEvent, Trying, WorkerRec
<1>6. CASE ErrorEvent(w) \/ Disconnect(w)
  BY <1>6, HelperSteps DEF ErrorEvent, Disconnect, Trying, Resting
<1>7. QED
  BY <1>2, <1>3, <1>4, <1>5, <1>6, <1>a, <1>b, <1>c DEF Advance

LEMMA KeepsTryingNext ==
    TypeInv /\ TypeInv' /\ Fits /\ Fits' /\ WorkerKeepsTrying /\ [Next]_vars => WorkerKeepsTrying'
<1> SUFFICES ASSUME TypeInv, TypeInv', Fits, Fits', WorkerKeepsTrying, [Next]_vars, current' # 0
             PROVE  WorkerKeepsTrying'
  BY DEF WorkerKeepsTrying
<1>0. worker \in [Workers -> WorkerRec] /\ current' \in Workers /\ FitsProvider(credential)
      /\ credential \in CredentialKinds /\ credential' \in CredentialKinds
  BY TwoParts, TwoPartsNext DEF WorkersOK, DataOK, Fits
<1>p. UNCHANGED provider
  BY DEF Next, Advance, Refreshed, RefreshFails, Connected, ConnectFails, Opened, NoMailbox,
     Searched, FetchMessage, FinishFetch, SyncFails, OutlookToken, OutlookAnswers, OutlookFails,
     CloseEvent, TimerFires, ErrorEvent, Disconnect, Outside, StartSync, Restart, Remove, Crash,
     Deliver, Rebuild, Settings, vars
<1>q. SUFFICES Trying(worker'[current'])
  BY <1>p DEF WorkerKeepsTrying, Trying
<1>1. current # 0 => Trying(worker[current])
  BY DEF WorkerKeepsTrying, Trying
<1>2. ASSUME NEW w \in Workers, Advance(w) \/ ErrorEvent(w) \/ Disconnect(w)
      PROVE  Trying(worker'[current'])
  BY <1>0, <1>1, <1>2, OthersRest, TryingStep
<1>4. CASE StartSync
  <2>1. status # "none"
    BY <1>4, TwoParts DEF StartSync, WorkersOK, DownInv
  <2>2. worker'[current'] = Attempt(NoWorker, credential)
    BY <1>0, <1>4, <2>1 DEF StartSync
  <2>3. QED
    BY <1>0, <2>2, AttemptTries, NoneTyped
<1>5. CASE Restart
  <2>1. worker'[current'] = Attempt(NoWorker, credential')
    BY <1>0, <1>5 DEF Restart
  <2>2. FitsProvider(credential')
    BY <1>p DEF Fits, FitsProvider
  <2>3. QED
    BY <1>0, <2>1, <2>2, AttemptTries, NoneTyped
<1>6. CASE Remove \/ Crash
  BY <1>6 DEF Remove, Crash
<1>7. CASE Deliver \/ UNCHANGED vars
  BY <1>0, <1>1, <1>7 DEF Deliver, Settings, vars
<1>8. CASE Rebuild
  <2>1. UNCHANGED current
    BY <1>8 DEF Rebuild, Settings
  <2>2. \/ worker'[current] = worker[current]
        \/ /\ worker[current].conn = "open"
           /\ worker'[current] = [worker[current] EXCEPT !.conn = "lost"]
    BY <1>0, <1>8, <2>1 DEF Rebuild
  <2>3. worker[current] \in WorkerRec /\ current # 0
    BY <1>0, <2>1
  <2>4. CASE /\ worker[current].conn = "open"
             /\ worker'[current] = [worker[current] EXCEPT !.conn = "lost"]
    <3>1. /\ worker'[current].pc = worker[current].pc /\ worker'[current].conn = "lost"
          /\ worker'[current].timer = worker[current].timer
      BY <2>3, <2>4 DEF WorkerRec
    <3>2. QED
      BY <1>1, <2>1, <2>3, <3>1 DEF Trying
  <2>5. QED
    BY <1>1, <2>1, <2>2, <2>3, <2>4
<1>9. QED
  BY <1>2, <1>4, <1>5, <1>6, <1>7, <1>8 DEF Next

(* The account's worker is never left with nothing to come: an attempt is   *)
(* under way, its connection is open or about to report its end, or its     *)
(* reconnect timer runs; unless its attempt met a credential that cannot be *)
(* decrypted or, for Outlook only, is no authorisation.                     *)
THEOREM KeepsTrying == Spec => []WorkerKeepsTrying
<1>1. Init => WorkerKeepsTrying /\ Fits
  BY DEF Init, WorkerKeepsTrying, Fits, FitsProvider, AtFits, Given, SecretChanged, NoWorker
<1>2. TypeInv /\ TypeInv' /\ Fits /\ [Next]_vars => Fits'
  BY FitsNext
<1>3. Spec => [](TypeInv /\ Fits /\ WorkerKeepsTrying)
  BY <1>1, <1>2, InitType, NextType, KeepsTryingNext, PTL DEF Spec
<1>4. QED
  BY <1>3, PTL

LEMMA RetiredNext ==
    ASSUME TypeInv, Next, NEW w \in Workers, w # current, worker[w] # NoWorker,
           worker[w].pc \in Resting
    PROVE  worker'[w].pc = worker[w].pc \/ ~up'
<1>0. worker \in [Workers -> WorkerRec] /\ worker[w].stopping /\ ~worker[w].timer
  BY TwoParts DEF WorkersOK
<1>1. ASSUME NEW v \in Workers, Advance(v) \/ ErrorEvent(v) \/ Disconnect(v), v # w
      PROVE  worker'[w].pc = worker[w].pc
  BY <1>1, OthersRest
<1>2. CASE Advance(w)
  <2>1. CloseEvent(w)
    BY <1>0, <1>2 DEF Advance, Refreshed, RefreshFails, Connected, ConnectFails, Opened,
       NoMailbox, Searched, FetchMessage, FinishFetch, SyncFails, OutlookToken, OutlookAnswers,
       OutlookFails, TimerFires, Resting
  <2>2. QED
    BY <1>0, <2>1, HelperSteps DEF CloseEvent
<1>3. CASE ErrorEvent(w) \/ Disconnect(w)
  BY <1>3, HelperSteps DEF ErrorEvent, Disconnect
<1>4. CASE StartSync
  BY <1>0, <1>4 DEF StartSync, IsNew
<1>5. CASE Restart
  BY <1>0, <1>5 DEF Restart, IsNew
<1>6. CASE Remove
  BY <1>0, <1>6 DEF Remove
<1>7. CASE Crash
  BY <1>7 DEF Crash
<1>8. CASE Deliver
  BY <1>8 DEF Deliver
<1>9. CASE Rebuild
  BY <1>0, <1>9 DEF Rebuild, WorkerRec
<1>10. QED
  BY <1>1, <1>2, <1>3, <1>4, <1>5, <1>6, <1>7, <1>8, <1>9 DEF Next

(* A worker that was replaced or stopped and has nothing under way begins   *)
(* nothing again, as long as the server runs: attempts do not multiply.     *)
THEOREM RetiredStays == Spec => RetiredStaysRetired
<1>1. TypeInv /\ [Next]_vars =>
        [\A w \in Workers :
           w # current /\ worker[w] # NoWorker /\ worker[w].pc \in Resting
              => worker'[w].pc = worker[w].pc \/ ~up']_vars
  BY RetiredNext
<1>2. QED
  BY <1>1, InitType, NextType, PTL DEF Spec, RetiredStaysRetired

=============================================================================
