-------------------------- MODULE NotificationStore --------------------------
(***************************************************************************)
(* The Notification table behind DjangoDbNotificationBackend and the calls *)
(* concurrent workers, web requests and scripts make on it.                *)
(*                                                                         *)
(* Outside mark_sent_as_read_bulk no handler opens a transaction, so under *)
(* Django's default autocommit the unit of atomicity is one SQL statement. *)
(* Every handler is therefore split at its statements: a call begins (its  *)
(* arguments are fixed and timezone.now() is read), runs its conditional   *)
(* UPDATE or INSERT, possibly links attachments, re-reads the row, and     *)
(* returns.  Between any two of them every other call may run.             *)
(***************************************************************************)
EXTENDS Integers, FiniteSets

CONSTANTS
  Ids,         \* primary keys the Notification table can hand out
  Users,       \* rows of the user table
  Calls,       \* calls made on the backend; each is made once
  Contents,    \* contents of a notification (title, templates, context, ...)
  SendAfters,  \* values of send_after a caller passes
  UpdateStatuses, \* statuses that an update of a pending row may write
  Ops,         \* the operations callers use
  MaxNow,      \* bound on the clock
  NULL,        \* SQL NULL / Python None
  KEEP         \* a column an update does not name

SettleOps == {"mark_pending_as_sent", "mark_pending_as_failed", "cancel_notification"}
ReadOps   == {"mark_sent_as_read", "mark_sent_as_read_bulk"}
StoreOps  == {"store_context_used", "store_git_commit_sha", "store_template_version"}
AllOps    == SettleOps \cup ReadOps \cup StoreOps
               \cup {"persist_notification", "persist_notification_update"}

Statuses == {"PENDING_SEND", "SENT", "FAILED", "CANCELLED", "READ"}

\* How a call ends: it returns, or raises NotificationUpdateError or
\* NotificationCancelError, DoesNotExist, IntegrityError,
\* AttachmentFileNotFoundError or NotificationUserNotFoundError.
Results == {"ok", "refused", "not_found", "integrity_error",
            "attachment_error", "user_not_found"}

ASSUME OpsAssumption == Ops \subseteq AllOps
ASSUME NowAssumption == MaxNow \in Nat
ASSUME NullAssumption ==
  /\ NULL \notin Users \cup Nat \cup AllOps \cup Statuses \cup Results
  /\ KEEP \notin Contents \cup SendAfters \cup Statuses
ASSUME UpdateAssumption == UpdateStatuses \subseteq Statuses

VARIABLES
  now,      \* the clock timezone.now() reads
  users,    \* users that exist
  present,  \* primary keys with a row in the table
  row,      \* row[n]: the columns of row n, its last ones once deleted
  pc,       \* pc[c]: the next statement of call c
  req,      \* req[c]: the arguments of call c
  hit,      \* hit[c]: the rows the UPDATE or INSERT of c matched
  answer    \* answer[c]: what c raised or returned

vars == <<now, users, present, row, pc, req, hit, answer>>

\* Primary keys handed out so far.
issued == DOMAIN row

Clock == 0 .. MaxNow

Row == [user: Users \cup {NULL}, content: Contents, send_after: SendAfters,
        status: Statuses, sent_at: Clock \cup {NULL}, read_at: Clock \cup {NULL},
        stored: [StoreOps -> Calls \cup {NULL}]]

Request == [op: AllOps \cup {NULL}, ids: SUBSET Ids, user: Users \cup {NULL},
            content: Contents \cup {KEEP}, send_after: SendAfters \cup {KEEP},
            status: Statuses \cup {KEEP}, attachments: BOOLEAN, at: Clock \cup {NULL}]

Answer == [result: Results \cup {NULL}, seen: SUBSET (Ids \X Statuses)]

-----------------------------------------------------------------------------
(* Requests *)

\* No arguments: a call not yet made.
Blank == [op |-> NULL, ids |-> {}, user |-> NULL, content |-> KEEP,
          send_after |-> KEEP, status |-> KEEP, attachments |-> FALSE, at |-> NULL]

\* persist_notification with a user, persist_one_off_notification without one.
PersistRequests ==
  [op: {"persist_notification"}, ids: {{}}, user: Users \cup {NULL}, content: Contents,
   send_after: SendAfters, status: {KEEP}, attachments: BOOLEAN, at: {NULL}]

\* persist_notification_update names columns, attachments, or neither.  It takes
\* any column: content stands for what is sent, and the status is one of them.
\* No caller in the repository names user, sent_at, read_at or a stored column.
UpdateRequests ==
  [op: {"persist_notification_update"}, ids: {{n} : n \in issued}, user: {NULL},
   content: Contents \cup {KEEP}, send_after: SendAfters \cup {KEEP},
   status: UpdateStatuses \cup {KEEP}, attachments: BOOLEAN, at: {NULL}]

\* Requests that carry nothing but a key.
OnOne(ops, t) ==
  [op: ops, ids: {{n} : n \in issued}, user: {NULL}, content: {KEEP},
   send_after: {KEEP}, status: {KEEP}, attachments: {FALSE}, at: {t}]

\* Handlers that stamp the row read the clock before they run the UPDATE.
StampRequests  == OnOne({"mark_pending_as_sent", "mark_sent_as_read"}, now)
DecideRequests == OnOne({"mark_pending_as_failed", "cancel_notification"} \cup StoreOps, NULL)

\* user is the optional scope: NULL marks whoever owns the ids.
BulkRequests ==
  [op: {"mark_sent_as_read_bulk"}, ids: SUBSET issued, user: Users \cup {NULL},
   content: {KEEP}, send_after: {KEEP}, status: {KEEP}, attachments: {FALSE}, at: {now}]

Requests == PersistRequests \cup UpdateRequests \cup StampRequests
              \cup DecideRequests \cup BulkRequests

-----------------------------------------------------------------------------
(* Statements *)

\* No store_* call wrote its column yet.
NothingStored == [op \in StoreOps |-> NULL]

\* Mutant of Fresh: the status column has no default.
FreshWithoutStatus(u, x, s) ==
  [user |-> u, content |-> x, send_after |-> s, status |-> NULL,
   sent_at |-> NULL, read_at |-> NULL, stored |-> NothingStored]

\* A freshly inserted row: status defaults to PENDING_SEND, the rest to NULL.
Fresh(u, x, s) ==
  [user |-> u, content |-> x, send_after |-> s, status |-> "PENDING_SEND",
   sent_at |-> NULL, read_at |-> NULL, stored |-> NothingStored]

\* The columns the mark handlers write.
AsSent(r, t) == [r EXCEPT !.status = "SENT", !.sent_at = t]

AsRead(r, t) == [r EXCEPT !.status = "READ", !.read_at = t]

\* Mutant of Where: the row is chosen by its key alone.
WhereAnyStatus(c, s) == req[c].ids \cap present

\* WHERE id IN (...) AND status = s
Where(c, s) == {n \in req[c].ids \cap present : row[n].status = s}

\* Mutant of UpdateMatches: the count of an UPDATE naming no column, which is 0.
UpdateMatchesColumnsOnly(c) ==
  IF {req[c].content, req[c].send_after, req[c].status} = {KEEP} THEN {}
  ELSE Where(c, "PENDING_SEND")

\* The rows persist_notification_update finds: those its UPDATE matches, or, with
\* no column to write, those pending.exists() sees.
UpdateMatches(c) == Where(c, "PENDING_SEND")

\* The rows a bulk read may touch: base.filter(user_id=...) when a scope is given.
Owned(c) == {n \in req[c].ids \cap present :
               req[c].user = NULL \/ row[n].user = req[c].user}

\* Mutant of Unread: rows that are READ already are marked again.
UnreadOrRead(c) == Owned(c) \cap (Where(c, "SENT") \cup Where(c, "READ"))

\* The rows a bulk read moves to READ.
Unread(c) == Owned(c) \cap Where(c, "SENT")

\* Mutant of Listed: the queryset that was updated is evaluated again.
ListedSent(c) == Owned(c) \cap Where(c, "SENT")

\* The rows its lazy result contains when it is consumed.
Listed(c) == Owned(c) \cap Where(c, "READ")

\* Mutant of Shown: the row as it was read before the UPDATE.
ShownStale(c, n) == "PENDING_SEND"

\* The status in the object a handler returns: re-read after the UPDATE, except
\* that a persist serialises the instance it still holds.
Shown(c, n) ==
  IF req[c].op = "persist_notification" THEN "PENDING_SEND" ELSE row[n].status

Return(c, result, seen) ==
  /\ pc' = [pc EXCEPT ![c] = "done"]
  /\ answer' = [answer EXCEPT ![c] = [result |-> result, seen |-> seen]]

Goto(c, next) ==
  /\ pc' = [pc EXCEPT ![c] = next]
  /\ UNCHANGED answer

\* Mutant of Matched: the test on the number of rows is inverted.
MatchedInverted(c, S, next) ==
  /\ hit' = [hit EXCEPT ![c] = S]
  /\ IF S # {} THEN Return(c, "refused", {}) ELSE Goto(c, next)

\* The statement of c matched the rows S: record it, and refuse when it matched
\* none (records_updated == 0).
Matched(c, S, next) ==
  /\ hit' = [hit EXCEPT ![c] = S]
  /\ IF S = {} THEN Return(c, "refused", {}) ELSE Goto(c, next)

Runs(c, op) == pc[c] = "write" /\ req[c].op = op

-----------------------------------------------------------------------------
(* Handlers *)

Begin(c) ==
  /\ pc[c] = "idle"
  /\ \E r \in Requests : r.op \in Ops /\ req' = [req EXCEPT ![c] = r]
  /\ pc' = [pc EXCEPT ![c] = "write"]
  /\ UNCHANGED <<now, users, present, row, hit, answer>>

\* INSERT the row under a new key; the foreign key refuses a user that is gone.
\* The row is visible to every worker from here on, attachments or not.
PersistNotification(c) ==
  /\ Runs(c, "persist_notification")
  /\ \/ /\ req[c].user \in users \cup {NULL}
        /\ \E n \in Ids \ issued :
             /\ present' = present \cup {n}
             /\ row' = [m \in issued \cup {n} |->
                          IF m \in issued THEN row[m]
                          ELSE Fresh(req[c].user, req[c].content, req[c].send_after)]
             /\ hit' = [hit EXCEPT ![c] = {n}]
        /\ Goto(c, IF req[c].attachments THEN "attach" ELSE "fetch")
     \/ /\ req[c].user \notin users \cup {NULL}
        /\ Return(c, "integrity_error", {})
        /\ UNCHANGED <<present, row, hit>>
  /\ UNCHANGED <<now, users, req>>

\* UPDATE the named columns WHERE the row is still pending; with attachments
\* only, the same filter is merely tested (pending.exists()).  A status is written
\* as any other column: sent_at and read_at stay as they are.
PersistNotificationUpdate(c) ==
  /\ Runs(c, "persist_notification_update")
  /\ LET S == UpdateMatches(c)
         r == req[c]
     IN /\ row' = [n \in issued |->
                     IF n \notin S THEN row[n]
                     ELSE [row[n] EXCEPT
                             !.content    = IF r.content = KEEP THEN @ ELSE r.content,
                             !.send_after = IF r.send_after = KEEP THEN @ ELSE r.send_after,
                             !.status     = IF r.status = KEEP THEN @ ELSE r.status]]
        /\ Matched(c, S, IF r.attachments THEN "attach" ELSE "fetch")
  /\ UNCHANGED <<now, users, present, req>>

\* The attachments of a persist or an update, written row by row (modelled in
\* AttachmentStore): they may raise, and must when the row they belong to is gone.
\* What the call already wrote stays written.
Attach(c) ==
  /\ pc[c] = "attach"
  /\ \/ hit[c] \subseteq present /\ Goto(c, "fetch")
     \/ Return(c, "attachment_error", {})
  /\ UNCHANGED <<now, users, present, row, req, hit>>

MarkPendingAsSent(c) ==
  /\ Runs(c, "mark_pending_as_sent")
  /\ LET S == Where(c, "PENDING_SEND")
     IN /\ row' = [n \in issued |->
                     IF n \in S THEN AsSent(row[n], req[c].at) ELSE row[n]]
        /\ Matched(c, S, "fetch")
  /\ UNCHANGED <<now, users, present, req>>

MarkPendingAsFailed(c) ==
  /\ Runs(c, "mark_pending_as_failed")
  /\ LET S == Where(c, "PENDING_SEND")
     IN /\ row' = [n \in issued |-> IF n \in S THEN [row[n] EXCEPT !.status = "FAILED"]
                                    ELSE row[n]]
        /\ Matched(c, S, "fetch")
  /\ UNCHANGED <<now, users, present, req>>

MarkSentAsRead(c) ==
  /\ Runs(c, "mark_sent_as_read")
  /\ LET S == Where(c, "SENT")
     IN /\ row' = [n \in issued |->
                     IF n \in S THEN AsRead(row[n], req[c].at) ELSE row[n]]
        /\ Matched(c, S, "fetch")
  /\ UNCHANGED <<now, users, present, req>>

\* Returns nothing, so there is no row to read back.
CancelNotification(c) ==
  /\ Runs(c, "cancel_notification")
  /\ LET S == Where(c, "PENDING_SEND")
     IN /\ row' = [n \in issued |-> IF n \in S THEN [row[n] EXCEPT !.status = "CANCELLED"]
                                    ELSE row[n]]
        /\ hit' = [hit EXCEPT ![c] = S]
        /\ Return(c, IF S = {} THEN "refused" ELSE "ok", {})
  /\ UNCHANGED <<now, users, present, req>>

\* Never refuses: what it returns is a query the caller runs later, if ever.
MarkSentAsReadBulk(c) ==
  /\ Runs(c, "mark_sent_as_read_bulk")
  /\ LET S == Unread(c)
     IN /\ row' = [n \in issued |->
                     IF n \in S THEN AsRead(row[n], req[c].at) ELSE row[n]]
        /\ hit' = [hit EXCEPT ![c] = S]
  /\ Goto(c, "list")
  /\ UNCHANGED <<now, users, present, req>>

\* store_context_used, store_git_commit_sha and store_template_version each write
\* a column of their own, whatever the status and whatever it held, and report
\* nothing: the column holds the value of the last call.
Store(c) ==
  /\ \E op \in StoreOps : Runs(c, op)
  /\ LET S == req[c].ids \cap present
     IN /\ row' = [n \in issued |->
                     IF n \in S THEN [row[n] EXCEPT !.stored[req[c].op] = c]
                     ELSE row[n]]
        /\ hit' = [hit EXCEPT ![c] = S]
  /\ Return(c, "ok", {})
  /\ UNCHANGED <<now, users, present, req>>

\* The object handed back.  Serialising it queries the attachments, whose handles
\* may fail to rebuild; a row deleted since the UPDATE raises DoesNotExist.
Fetch(c) ==
  /\ pc[c] = "fetch"
  /\ \E n \in hit[c] :
       \/ /\ req[c].op = "persist_notification" \/ n \in present
          /\ \/ Return(c, "ok", {<<n, Shown(c, n)>>})
             \/ Return(c, "attachment_error", {})
       \/ /\ req[c].op # "persist_notification" /\ n \notin present
          /\ Return(c, "not_found", {})
  /\ UNCHANGED <<now, users, present, row, req, hit>>

\* The lazy result of a bulk read: the requested READ rows at the time it is
\* consumed.  It is serialised as user notifications, which raises on a one-off.
ListRead(c) ==
  /\ pc[c] = "list"
  /\ LET S == Listed(c)
     IN \/ /\ \A n \in S : row[n].user # NULL
           /\ Return(c, "ok", S \X {"READ"})
        \/ /\ \E n \in S : row[n].user = NULL
           /\ Return(c, "user_not_found", {})
        \/ /\ S # {}
           /\ Return(c, "attachment_error", {})
  /\ UNCHANGED <<now, users, present, row, req, hit>>

-----------------------------------------------------------------------------
(* Environment *)

\* Deleting a user cascades to their notifications.
DeleteUser(u) ==
  /\ u \in users
  /\ users'   = users \ {u}
  /\ present' = {n \in present : row[n].user # u}
  /\ UNCHANGED <<now, row, pc, req, hit, answer>>

Tick ==
  /\ now < MaxNow
  /\ now' = now + 1
  /\ UNCHANGED <<users, present, row, pc, req, hit, answer>>

\* Some notifications were persisted earlier and none has been touched since.
Init ==
  /\ now = 0
  /\ users = Users
  /\ present \in SUBSET Ids
  /\ row \in [present -> {Fresh(u, x, s) : u \in Users \cup {NULL}, x \in Contents,
                                           s \in SendAfters}]
  /\ pc     = [c \in Calls |-> "idle"]
  /\ req    = [c \in Calls |-> Blank]
  /\ hit    = [c \in Calls |-> {}]
  /\ answer = [c \in Calls |-> [result |-> NULL, seen |-> {}]]

\* The statements of a call that has begun.
Proceed(c) ==
  \/ PersistNotification(c)
  \/ PersistNotificationUpdate(c)
  \/ Attach(c)
  \/ MarkPendingAsSent(c)
  \/ MarkPendingAsFailed(c)
  \/ MarkSentAsRead(c)
  \/ CancelNotification(c)
  \/ MarkSentAsReadBulk(c)
  \/ Store(c)
  \/ Fetch(c)
  \/ ListRead(c)

Next ==
  \/ \E c \in Calls : Begin(c) \/ Proceed(c)
  \/ \E u \in Users : DeleteUser(u)
  \/ Tick

Spec == Init /\ [][Next]_vars
-----------------------------------------------------------------------------
(* Properties *)

\* The status a call writes on a pending row; KEEP when it leaves the status alone.
Decision(r) == CASE r.op = "mark_pending_as_sent"        -> "SENT"
                 [] r.op = "mark_pending_as_failed"      -> "FAILED"
                 [] r.op = "cancel_notification"         -> "CANCELLED"
                 [] r.op = "persist_notification_update" -> r.status
                 [] OTHER                                -> KEEP

\* Marks, cancels and updates that write another status take the row out of the
\* pending ones.
Decides(r) == Decision(r) \notin {KEEP, "PENDING_SEND"}

\* The calls that decided n and the calls that marked it read.
SettledBy(n) == {c \in Calls : n \in hit[c] /\ Decides(req[c])}
ReadBy(n)    == {c \in Calls : n \in hit[c] /\ req[c].op \in ReadOps}

\* The statuses a row may have once a call with these arguments matched it.
Onward(r) == CASE r.op \in ReadOps     -> {"READ"}
               [] Decision(r) = "SENT" -> {"SENT", "READ"}
               [] Decides(r) /\ Decision(r) # "SENT" -> {Decision(r)}
               [] OTHER                -> Statuses

TypeOK ==
  /\ now \in Clock
  /\ users \in SUBSET Users
  /\ issued \in SUBSET Ids
  /\ present \in SUBSET issued
  /\ row \in [issued -> Row]
  /\ pc \in [Calls -> {"idle", "write", "attach", "fetch", "list", "done"}]
  /\ req \in [Calls -> Request]
  /\ hit \in [Calls -> SUBSET issued]
  /\ answer \in [Calls -> Answer]

\* However workers and users race, one call at most decides a notification (mark
\* as sent, mark as failed, cancel, an update that writes a status) and one at most
\* marks it read.
OneOutcome ==
  \A n \in issued :
    /\ \A c, d \in SettledBy(n) : c = d
    /\ \A c, d \in ReadBy(n) : c = d

\* A row is pending exactly as long as nobody decided it, shows the decision of
\* the call that won ever after, and is READ exactly when a call read it or decided
\* on that very status: no later statement, of any handler, undoes an outcome.
OutcomeDurable ==
  \A n \in issued :
    /\ row[n].status = "PENDING_SEND" <=> SettledBy(n) = {}
    /\ row[n].status = "READ" <=>
         ReadBy(n) # {} \/ \E c \in SettledBy(n) : Decision(req[c]) = "READ"
    /\ \A c \in SettledBy(n) : row[n].status \in Onward(req[c])

\* The timestamps of a row are those of the calls that won it, and a row that none
\* of them stamped has none: a call that lost, or a bulk read that found the row
\* already READ, never stamps it, and an update that writes the status SENT leaves
\* sent_at NULL.
StampedByWinner ==
  \A n \in issued :
    /\ \A c \in SettledBy(n) : row[n].sent_at = req[c].at
    /\ SettledBy(n) = {} => row[n].sent_at = NULL
    /\ \A c \in ReadBy(n) : row[n].read_at = req[c].at
    /\ ReadBy(n) = {} => row[n].read_at = NULL

\* A mark, cancel or update is refused only for a notification that is gone or
\* was decided by some other call: never for one still waiting to be sent.
RefusedMeansDecided ==
  \A c \in Calls :
    answer[c].result = "refused" /\ req[c].op # "mark_sent_as_read" =>
      \A n \in req[c].ids \cap present :
        row[n].status # "PENDING_SEND" /\ c \notin SettledBy(n)

\* The object a handler returns is re-read after its UPDATE, so others may have
\* run: it still never shows a status that contradicts what the call reports.
ReportedStatus ==
  \A c \in Calls : \A x \in answer[c].seen : x[2] \in Onward(req[c])

\* The lazy result of a bulk read, whenever it is consumed, contains every row
\* that very call moved to READ, other than those deleted since.
BulkReturnsWhatItMarked ==
  \A c \in Calls :
    req[c].op = "mark_sent_as_read_bulk" /\ answer[c].result = "ok" =>
      \A n \in hit[c] \cap present : <<n, "READ">> \in answer[c].seen

\* Once decided, what was sent and when stays as it was: an update that lost the
\* race changes nothing, and a READ row keeps its timestamps and status for good.
SettledImmutable ==
  [][\A n \in issued : row[n].status # "PENDING_SEND" =>
       /\ n \in issued'
       /\ row'[n].content = row[n].content
       /\ row'[n].send_after = row[n].send_after
       /\ row'[n].user = row[n].user
       /\ row'[n].sent_at = row[n].sent_at
       /\ \/ row'[n].status = row[n].status
          \/ row[n].status = "SENT" /\ row'[n].status = "READ"
       /\ row[n].read_at # NULL => row'[n].read_at = row[n].read_at]_vars

\* mark_sent_as_read_bulk: "ids that are already READ, missing, not owned (when
\* user_id is given), or in a non-SENT state are simply skipped and never raise".
SkippedNeverRaise ==
  \A c \in Calls :
    req[c].op = "mark_sent_as_read_bulk" /\ hit[c] = {} =>
      answer[c].result # "user_not_found"

-----------------------------------------------------------------------------
(* Refinement *)

LifeState(n) == IF n \notin issued THEN "NONE"
                ELSE IF n \notin present THEN "DELETED"
                ELSE row[n].status

Life == INSTANCE Lifecycle WITH
  state     <- [n \in Ids |-> LifeState(n)],
  settledBy <- [n \in Ids |-> SettledBy(n)],
  readBy    <- [n \in Ids |-> ReadBy(n)]

\* Every behaviour of the statements, interleaved as they may be, is one the
\* Lifecycle specification allows.
ImplementsLifecycle == Life!Spec
==============================================================================
