------------------------------ MODULE InboxSync ------------------------------
(***************************************************************************)
(* The synchronisation of one mail account (src/src/lib/inbox/sync.ts,     *)
(* with notifications.ts and the sync tables of db.ts): workers that are   *)
(* started, replaced and stopped, their connection attempts and reconnect  *)
(* timers, and the cursor by which a mailbox is fetched piece by piece.    *)
(*                                                                         *)
(* A worker has one attempt at a time: what waits on a dead connection is  *)
(* rejected at once, long before a reconnect timer fires.  All mail is     *)
(* younger than INITIAL_SYNC_DAYS; retention, which deletes by age, is     *)
(* left out: rows are the messages that have been stored.                  *)
(***************************************************************************)
EXTENDS Naturals, FiniteSets, FiniteSetsExt

CONSTANTS
    Workers,        \* 1..n, in the order of their starts
    Providers,      \* subset of "imap", "outlook"
    Credentials,    \* the kinds of credential that occur
    BatchSize,      \* FETCH_BATCH_SIZE
    MaxMail,        \* bounds: messages,
    MaxRebuilds,    \*   changes of UIDVALIDITY,
    MaxMishaps      \*   failures, errors and crashes

CredentialKinds == {"password", "oauth", "outlook", "malformed", "unreadable"}

ASSUME InboxAssumption ==
    /\ Workers \subseteq Nat \ {0} /\ IsFiniteSet(Workers)
    /\ Providers \subseteq {"imap", "outlook"}
    /\ Credentials \subseteq CredentialKinds
    /\ BatchSize \in Nat \ {0}
    /\ {MaxMail, MaxRebuilds, MaxMishaps} \subseteq Nat

VARIABLES
    provider,
    credential, \* of the account
    server,     \* the mailbox on the server
    rows,       \* table messages: UIDVALIDITY, UID
    sync,       \* table sync_state; validity 0: no row yet
    status,     \* of the account; "none" once it is removed
    alerted,    \* alertedAccounts has the account
    up,         \* the server process has called startSync
    current,    \* the map workers: the account's worker, or 0
    worker,     \* the state of each worker
    job,        \* local variables of syncInbox
    carried,    \* history: a cursor was kept across a change of UIDVALIDITY
    mishaps     \* so far

vars == <<provider, credential, server, rows, sync, status, alerted, up, current, worker, job,
          carried, mishaps>>

Uids       == 1..MaxMail
Validities == 1..MaxRebuilds + 1
Cursor     == [lastUid : 0..MaxMail, validity : {0} \cup Validities]
NoCursor   == [lastUid |-> 0, validity |-> 0]

NoWorker == [pc |-> "none", conn |-> "none", stopping |-> FALSE, timer |-> FALSE]
NoJob    == [validity |-> 0, state |-> NoCursor, uids |-> {}, max |-> 0, batch |-> {},
             seen |-> {}]

(* "none": no attempt; "idling": the last one succeeded; "malformed" and    *)
(* "unreadable": it found such a credential.  A connection is lost from its *)
(* end until its close event.                                               *)
Resting == {"none", "idling", "malformed", "unreadable"}
Pcs     == Resting \cup {"refresh", "connecting", "opening", "searching", "fetching", "token", "polling"}
Conns   == {"none", "opening", "open", "lost", "closed"}

TypeOK ==
    /\ provider \in Providers /\ credential \in CredentialKinds
    /\ server \in [validity : Validities, box : SUBSET Uids, next : Nat \ {0}]
    /\ \A u \in server.box : u < server.next
    /\ rows \subseteq ({0} \cup Validities) \X Uids
    /\ sync \in Cursor
    /\ status \in {"disconnected", "syncing", "connected", "error", "none"}
    /\ alerted \in BOOLEAN /\ up \in BOOLEAN /\ carried \in BOOLEAN
    /\ current \in {0} \cup Workers
    /\ worker \in [Workers -> [pc : Pcs, conn : Conns, stopping : BOOLEAN, timer : BOOLEAN]]
    /\ \A w \in Workers : worker[w].stopping <=> w # current /\ worker[w] # NoWorker
    /\ \A w \in Workers : worker[w].timer => w = current
    /\ job \in [Workers -> [validity : {0} \cup Validities, state : Cursor, max : 0..MaxMail,
                            uids : SUBSET Uids, batch : SUBSET Uids, seen : SUBSET Uids]]
    /\ mishaps \in 0..MaxMishaps

(* What POST, PATCH and the OAuth callbacks encrypt and store: for Outlook  *)
(* also a string that is not the JSON of an authorisation.                  *)
Given == Credentials \cap IF provider = "outlook" THEN {"outlook", "malformed"}
                                                  ELSE {"password", "oauth"}

(* Nothing can be decrypted once the server runs with another secret.       *)
SecretChanged == Credentials \cap {"unreadable"}

Init ==
    /\ provider \in Providers
    /\ credential \in Given \cup SecretChanged
    /\ server = [validity |-> 1, box |-> {}, next |-> 1]
    /\ rows = {} /\ sync = NoCursor
    /\ status = "disconnected" /\ alerted = FALSE
    /\ up = FALSE /\ current = 0
    /\ worker = [w \in Workers |-> NoWorker]
    /\ job = [w \in Workers |-> NoJob]
    /\ carried = FALSE /\ mishaps = 0

-----------------------------------------------------------------------------
(* Helpers *)

Stored   == UNCHANGED <<rows, sync, carried>>
Settings == UNCHANGED <<provider, credential, up, current>>
Outside  == UNCHANGED <<provider, credential, server, up, current>>

Mishap   == mishaps < MaxMishaps /\ mishaps' = mishaps + 1
AllsWell == UNCHANGED mishaps

(* UPDATE accounts: no effect on an account that is gone.                   *)
StatusIs(st) == status' = IF status = "none" THEN "none" ELSE st

(* markAccountFailed, markAccountRecovered                                  *)
MarkFailed    == StatusIs("error") /\ alerted' = TRUE
MarkRecovered == StatusIs("connected") /\ alerted' = FALSE

JobEnds(w) == job' = [job EXCEPT ![w] = NoJob]

Becomes(w, pc, conn) == worker' = [worker EXCEPT ![w].pc = pc, ![w].conn = conn]

(* scheduleReconnect *)
Retries(w) == ~worker[w].stopping

(* A fault: the failure is noted, and nothing is scheduled.                 *)
GivesUpForGood(w, conn) == Becomes(w, "none", conn)

(* The end of an attempt that failed.                                       *)
GivesUp(w, conn) ==
    worker' = [worker EXCEPT ![w].pc = "none", ![w].conn = conn,
                             ![w].timer = @ \/ Retries(w)]

-----------------------------------------------------------------------------
(* Attempts *)

(* connectWorker and connectOutlookWorker up to their first await, made by  *)
(* worker w whose other fields are those of old.  With a password the       *)
(* connection is under way, with an authorisation the token comes first.    *)
(* With a credential that Outlook cannot use the attempt is over, with one  *)
(* that cannot be decrypted it throws to nobody, which ends the process     *)
(* unless it runs without that default (Crash): no timer is set.            *)
Attempt(old, c) ==
    CASE c = "password" -> [old EXCEPT !.pc = "connecting", !.conn = "opening"]
      [] c = "oauth"    -> [old EXCEPT !.pc = "refresh", !.conn = "none"]
      [] c = "outlook"  -> [old EXCEPT !.pc = "token", !.conn = "none"]
      [] c \in {"malformed", "unreadable"} -> [old EXCEPT !.pc = c, !.conn = "none"]

AttemptStatus(c, st) ==
    CASE c \in {"password", "outlook"} -> "syncing"
      [] c = "malformed"               -> "error"
      [] c \in {"oauth", "unreadable"} -> st

(* A refreshed token is stored, by a stopped worker too: over a credential  *)
(* that was given meanwhile.                                                *)
StoresToken(c) == credential' = IF status = "none" THEN credential ELSE c

(* The token is there: the client is made, whether or not the worker was    *)
(* stopped meanwhile.                                                       *)
Refreshed(w) ==
    /\ worker[w].pc = "refresh"
    /\ Becomes(w, "connecting", "opening")
    /\ StatusIs("syncing")
    /\ UNCHANGED credential \/ StoresToken("oauth")
    /\ Stored /\ AllsWell /\ UNCHANGED <<provider, server, up, current>>
    /\ UNCHANGED <<alerted, job>>

RefreshFails(w) ==
    /\ worker[w].pc = "refresh"
    /\ GivesUp(w, "none")
    /\ MarkFailed
    /\ Stored /\ Outside /\ Mishap
    /\ UNCHANGED <<job>>

Connected(w) ==
    /\ worker[w].pc = "connecting" /\ worker[w].conn = "opening"
    /\ Becomes(w, "opening", "open")
    /\ Stored /\ Outside /\ AllsWell
    /\ UNCHANGED <<status, alerted, job>>

(* The close event and the rejection of connect come together, in either    *)
(* order; a stopping worker's close event does nothing.                     *)
ConnectFails(w) ==
    /\ worker[w].pc = "connecting"
    /\ GivesUp(w, "closed")
    /\ alerted' = TRUE
    /\ \/ StatusIs("error")
       \/ ~worker[w].stopping /\ StatusIs("disconnected")
    /\ IF worker[w].conn = "closed" THEN AllsWell ELSE Mishap
    /\ Stored /\ Outside
    /\ UNCHANGED <<job>>

(* The mailbox is open.  Rows of another UIDVALIDITY go; after a change all *)
(* is asked for again.                                                      *)
Opened(w) ==
    /\ worker[w].pc = "opening" /\ worker[w].conn = "open"
    /\ Becomes(w, "searching", "open")
    /\ job' = [job EXCEPT ![w] = [NoJob EXCEPT !.validity = server.validity, !.state = sync,
                                               !.max = sync.lastUid]]
    /\ rows' = IF sync.validity \in {0, server.validity} THEN rows
               ELSE {r \in rows : r[1] # sync.validity}
    /\ Outside /\ AllsWell
    /\ UNCHANGED <<sync, status, alerted, carried>>

(* The connection has no mailbox: nothing is fetched, and that is a success. *)
NoMailbox(w) ==
    /\ worker[w].pc = "opening" /\ worker[w].conn = "open"
    /\ Becomes(w, "idling", "open")
    /\ MarkRecovered
    /\ Stored /\ Outside /\ Mishap
    /\ UNCHANGED <<job>>

(* The UIDs from the cursor on; IMAP takes n:* to include the last message  *)
(* even if its UID is less than n.                                          *)
Wanted(j) ==
    IF j.state.validity = j.validity /\ j.state.lastUid > 0
    THEN {u \in server.box : u > j.state.lastUid \/ \A v \in server.box : v <= u}
    ELSE server.box

(* upsertSyncState *)
Save(j) ==
    /\ sync' = [lastUid |-> j.max, validity |-> j.validity]
    /\ carried' = (carried \/ (j.state.validity \notin {0, j.validity} /\ j.state.lastUid > 0))

(* A search that the server refuses is taken for one without a result.      *)
Searched(w) ==
    /\ worker[w].pc = "searching" /\ worker[w].conn = "open"
    /\ \E found \in {Wanted(job[w]), {}} :
         /\ IF found = Wanted(job[w]) THEN AllsWell ELSE Mishap
         /\ IF found = {}
            THEN /\ Becomes(w, "idling", "open") /\ JobEnds(w)
                 /\ Save(job[w]) /\ MarkRecovered
            ELSE /\ Becomes(w, "fetching", "open")
                 /\ job' = [job EXCEPT ![w].uids = found, ![w].seen = server.box]
                 /\ UNCHANGED <<sync, status, alerted, carried>>
    /\ Outside
    /\ UNCHANGED <<rows>>

(* A fault: the newest first.                                               *)
NewestUid(uids) == Max(uids)

(* The server answers a fetch in the order of UIDs.                         *)
NextUid(uids) == Min(uids)

Batch(w) == {job[w].validity} \X job[w].batch

(* One message; a full batch goes to the table.                             *)
FetchMessage(w) ==
    LET u    == NextUid(job[w].uids)
        full == Cardinality(job[w].batch) + 1 >= BatchSize
    IN
    /\ worker[w].pc = "fetching" /\ ~worker[w].stopping /\ worker[w].conn = "open"
    /\ job[w].uids # {}
    /\ job' = [job EXCEPT ![w].uids = @ \ {u}, ![w].max = IF u > @ THEN u ELSE @,
                          ![w].batch = IF full THEN {} ELSE @ \cup {u}]
    /\ rows' = IF full THEN rows \cup Batch(w) \cup {<<job[w].validity, u>>} ELSE rows
    /\ Outside /\ AllsWell
    /\ UNCHANGED <<sync, status, alerted, worker, carried>>

(* The end of the loop: all is fetched, or a message that was under way     *)
(* finds the worker stopping.  The foreign key refuses messages of an       *)
(* account that is gone.                                                    *)
FinishFetch(w) ==
    /\ worker[w].pc = "fetching"
    /\ \/ job[w].uids = {} /\ worker[w].conn = "open"
       \/ job[w].uids # {} /\ worker[w].stopping
    /\ job[w].batch = {} \/ status # "none"
    /\ rows' = rows \cup Batch(w)
    /\ Save(job[w])
    /\ Becomes(w, "idling", worker[w].conn)
    /\ MarkRecovered /\ JobEnds(w)
    /\ Outside /\ AllsWell

(* A command fails, because the connection is gone, the account is gone, or *)
(* for a reason of its own; then the connection stays open.                 *)
SyncFails(w) ==
    /\ worker[w].pc \in {"opening", "searching", "fetching"}
    /\ GivesUp(w, worker[w].conn)
    /\ MarkFailed /\ JobEnds(w)
    /\ IF worker[w].conn \in {"lost", "closed"} \/ status = "none" THEN AllsWell ELSE Mishap
    /\ Stored /\ Outside

(* Outlook: the token, then the delta query.  Its answer is read by a field *)
(* that it does not have, which throws.                                     *)
OutlookToken(w) ==
    /\ worker[w].pc = "token"
    /\ Becomes(w, "polling", "none")
    /\ StoresToken("outlook")
    /\ Stored /\ AllsWell /\ UNCHANGED <<provider, server, up, current>>
    /\ UNCHANGED <<status, alerted, job>>

OutlookAnswers(w) ==
    /\ worker[w].pc = "polling"
    /\ GivesUp(w, "none")
    /\ MarkFailed
    /\ Stored /\ Outside /\ AllsWell
    /\ UNCHANGED <<job>>

OutlookFails(w) ==
    /\ worker[w].pc \in {"token", "polling"}
    /\ GivesUp(w, "none")
    /\ MarkFailed
    /\ Stored /\ Outside /\ Mishap
    /\ UNCHANGED <<job>>

-----------------------------------------------------------------------------
(* Events, timers, requests *)

(* A fault: the close event only changes the status.                        *)
CloseEventOnly(w) ==
    /\ worker[w].conn = "lost"
    /\ Becomes(w, worker[w].pc, "closed")
    /\ IF worker[w].stopping THEN UNCHANGED status ELSE StatusIs("disconnected")
    /\ Stored /\ Outside /\ AllsWell
    /\ UNCHANGED <<alerted, job>>

(* The close event, heard unless the worker is stopping.                    *)
CloseEvent(w) ==
    /\ worker[w].conn = "lost"
    /\ IF worker[w].stopping
       THEN /\ Becomes(w, worker[w].pc, "closed") /\ UNCHANGED status
       ELSE /\ worker' = [worker EXCEPT ![w].conn = "closed", ![w].timer = TRUE]
            /\ StatusIs("disconnected")
    /\ Stored /\ Outside /\ AllsWell
    /\ UNCHANGED <<alerted, job>>

(* An error event; the connection ends.                                     *)
ErrorEvent(w) ==
    /\ worker[w].conn = "open"
    /\ Becomes(w, worker[w].pc, "lost")
    /\ IF worker[w].stopping THEN UNCHANGED <<status, alerted>> ELSE MarkFailed
    /\ Stored /\ Outside /\ Mishap
    /\ UNCHANGED <<job>>

(* The connection of a worker ends without an error.                        *)
Disconnect(w) ==
    /\ worker[w].conn = "open"
    /\ Becomes(w, worker[w].pc, "lost")
    /\ Stored /\ Outside /\ Mishap
    /\ UNCHANGED <<status, alerted, job>>

(* The reconnect timer: the old client loses its listeners and is forgotten; *)
(* nothing happens any more on a connection of it that is still open.       *)
TimerFires(w) ==
    /\ worker[w].timer /\ ~worker[w].stopping /\ worker[w].pc \in {"none", "idling"}
    /\ worker' = [worker EXCEPT ![w] = Attempt([@ EXCEPT !.timer = FALSE], credential)]
    /\ StatusIs(AttemptStatus(credential, status))
    /\ alerted' = (alerted \/ credential = "malformed")
    /\ Stored /\ Outside /\ AllsWell
    /\ UNCHANGED <<job>>

IsNew(w) == worker[w] = NoWorker /\ \A v \in Workers : v < w => worker[v] # NoWorker

(* A fault: the worker is not told.                                         *)
StoppedUntold(old) ==
    [old EXCEPT !.timer = FALSE, !.conn = IF @ = "none" THEN "none" ELSE "closed"]

(* What stopAccountSync leaves of a worker: no timer, and if it has a       *)
(* client, that is closed without listeners.                                *)
Stopped(old) ==
    [old EXCEPT !.stopping = TRUE, !.timer = FALSE,
                !.conn = IF @ = "none" THEN "none" ELSE "closed"]

(* startSync when the server starts                                         *)
StartSync ==
    /\ ~up /\ up' = TRUE
    /\ IF status = "none" THEN UNCHANGED <<current, worker, status, alerted>>
       ELSE \E w \in Workers :
              /\ IsNew(w) /\ current' = w
              /\ worker' = [worker EXCEPT ![w] = Attempt(NoWorker, credential)]
              /\ StatusIs(AttemptStatus(credential, status))
              /\ alerted' = (alerted \/ credential = "malformed")
    /\ Stored /\ AllsWell
    /\ UNCHANGED <<provider, credential, server, job>>

(* A new password or authorisation: stopAccountSync, startAccountSync.      *)
Restart ==
    \E w \in Workers :
    /\ current # 0 /\ IsNew(w) /\ current' = w
    /\ credential' \in Given
    /\ worker' = [worker EXCEPT ![current] = Stopped(@), ![w] = Attempt(NoWorker, credential')]
    /\ StatusIs(AttemptStatus(credential', "disconnected"))
    /\ alerted' = (credential' = "malformed")
    /\ Stored /\ AllsWell
    /\ UNCHANGED <<provider, server, up, job>>

(* stopAccountSync, removeAccount: the messages go with the account, the    *)
(* row of sync_state, which has no foreign key, stays.                      *)
Remove ==
    /\ current # 0 /\ current' = 0
    /\ worker' = [worker EXCEPT ![current] = Stopped(@)]
    /\ status' = "none" /\ alerted' = FALSE
    /\ rows' = {}
    /\ AllsWell
    /\ UNCHANGED <<provider, credential, server, sync, up, job, carried>>

(* The process ends, at once or by a shutdown, which waits for nothing.     *)
Crash ==
    /\ up /\ up' = FALSE
    /\ credential' \in {credential} \cup SecretChanged
    /\ current' = 0
    /\ worker' = [w \in Workers |-> IF worker[w] = NoWorker THEN NoWorker
                                    ELSE [NoWorker EXCEPT !.stopping = TRUE]]
    /\ job' = [w \in Workers |-> NoJob]
    /\ alerted' = FALSE
    /\ Stored /\ Mishap
    /\ UNCHANGED <<provider, server, status>>

-----------------------------------------------------------------------------
(* The mail server *)

Deliver ==
    /\ server.next <= MaxMail
    /\ server' = [server EXCEPT !.box = @ \cup {server.next}, !.next = @ + 1]
    /\ Stored /\ Settings /\ AllsWell
    /\ UNCHANGED <<status, alerted, worker, job>>

(* The folder is rebuilt of the messages that were not deleted meanwhile:   *)
(* UIDs start anew, connections end.                                        *)
Rebuild ==
    /\ server.validity <= MaxRebuilds
    /\ \E n \in 0..Cardinality(server.box) :
         server' = [validity |-> server.validity + 1, box |-> 1..n, next |-> n + 1]
    /\ worker' = [w \in Workers |-> IF worker[w].conn # "open" THEN worker[w]
                                    ELSE [worker[w] EXCEPT !.conn = "lost"]]
    /\ Stored /\ Settings /\ AllsWell
    /\ UNCHANGED <<status, alerted, job>>

-----------------------------------------------------------------------------

(* The next answer, continuation or timer of a worker.                      *)
Advance(w) ==
    \/ Refreshed(w) \/ RefreshFails(w) \/ Connected(w) \/ ConnectFails(w)
    \/ Opened(w) \/ NoMailbox(w) \/ Searched(w) \/ FetchMessage(w) \/ FinishFetch(w)
    \/ SyncFails(w) \/ OutlookToken(w) \/ OutlookAnswers(w) \/ OutlookFails(w)
    \/ CloseEvent(w) \/ TimerFires(w)

Next ==
    \/ \E w \in Workers : Advance(w) \/ ErrorEvent(w) \/ Disconnect(w)
    \/ StartSync \/ Restart \/ Remove \/ Crash
    \/ Deliver \/ Rebuild

(* What a server is asked it answers, if only with a failure; timers fire.  *)
(* Nothing makes a connection end, a message come or a user act; mishaps    *)
(* are bounded, that is, at some time failures stop.                        *)
Spec == Init /\ [][Next]_vars /\ \A w \in Workers : WF_vars(Advance(w))

-----------------------------------------------------------------------------
(* Properties *)

(* As long as no cursor is kept across a change of UIDVALIDITY: a message   *)
(* that later syncs will not ask for is stored, whatever was interrupted,   *)
(* stopped half way, or written by two workers at a time.                   *)
NoMailSkipped ==
    sync.validity = server.validity /\ ~carried /\ status # "none" =>
        \A u \in server.box : u <= sync.lastUid => <<server.validity, u>> \in rows

(* The account's worker gives up only on a credential that it cannot        *)
(* decrypt, and with Outlook on one that is no authorisation: otherwise it  *)
(* tries, waits for its timer, or has synchronised and listens on an open   *)
(* connection.                                                              *)
WorkerKeepsTrying ==
    current # 0 =>
      LET w == worker[current]
      IN  \/ w.pc \notin Resting
          \/ w.pc = "idling" /\ w.conn \in {"open", "lost"}
          \/ w.timer
          \/ w.pc = "unreadable"
          \/ w.pc = "malformed" /\ provider = "outlook"

(* A worker that was replaced or stopped finishes what is under way and     *)
(* never begins again, so that attempts do not multiply.                    *)
RetiredStaysRetired ==
    [][\A w \in Workers :
         w # current /\ worker[w] # NoWorker /\ worker[w].pc \in Resting
            => worker'[w].pc = worker[w].pc \/ ~up']_vars

Listening(w) == worker[w].pc = "idling" /\ worker[w].conn = "open"

(* Once failures stop, an IMAP account whose credential can be decrypted is *)
(* synchronised, unless it is removed or the server stops.                  *)
ComesBack ==
    current # 0 /\ provider = "imap" /\ worker[current].pc # "unreadable"
      ~> current = 0 \/ Listening(current)

SyncEnds(w) == worker[w].pc = "fetching" /\ worker'[w].pc = "idling" /\ ~worker[w].stopping

(* sync.ts:15: a change of UIDVALIDITY leads to a new synchronisation of    *)
(* the folder: what was in the mailbox when a sync asked is stored when it  *)
(* ends.                                                                    *)
RebuiltIsRefetched ==
    [][\A w \in Workers : SyncEnds(w) =>
         \A u \in job[w].seen : <<job[w].validity, u>> \in rows']_vars

=============================================================================
