----------------------- MODULE NotificationStoreProofs -----------------------
(***************************************************************************)
(* Proofs about NotificationStore, for any number of notifications, users  *)
(* and concurrent calls.                                                   *)
(***************************************************************************)
EXTENDS NotificationStore, TLAPS

NoAnswer == [result |-> NULL, seen |-> {}]

\* Where a call stands tells what it has done: what the properties leave out.
ShapeOf(c) ==
  /\ pc[c] = "idle" => req[c].op = NULL
  /\ pc[c] \in {"idle", "write"} => hit[c] = {}
  /\ pc[c] # "done" => answer[c] = NoAnswer
  /\ pc[c] = "attach" =>
       req[c].op \in {"persist_notification", "persist_notification_update"}
  /\ pc[c] = "fetch" => req[c].op # "mark_sent_as_read_bulk"
  /\ pc[c] = "list" => req[c].op = "mark_sent_as_read_bulk"
  /\ req[c].op \in {"mark_pending_as_sent"} \cup ReadOps => req[c].at \in Clock
  /\ req[c].op \in {"mark_pending_as_failed", "cancel_notification",
                   "persist_notification_update"} => req[c].at = NULL
  /\ req[c].op = "persist_notification" =>
       req[c].content \in Contents /\ req[c].send_after \in SendAfters
  /\ Decides(req[c]) => \A m, n \in req[c].ids : m = n
  /\ answer[c].result = "refused" => hit[c] = {}

Shape == \A c \in Calls : ShapeOf(c)

\* A bulk read only ever touched rows in its scope.
BulkScoped ==
  \A c \in Calls :
    req[c].op = "mark_sent_as_read_bulk" => hit[c] \subseteq Owned(c) \cup (issued \ present)

\* Callers name keys they were handed.
KeysIssued == \A c \in Calls : req[c].ids \subseteq issued

-----------------------------------------------------------------------------
(* Requests *)

\* A request is well formed, a call that stamps a row carries the time it read,
\* and one that decides without stamping carries none.
LEMMA RequestsWellFormed ==
  ASSUME TypeOK, NEW r \in Requests
  PROVE  /\ r \in Request
         /\ r.op \in {"mark_pending_as_sent"} \cup ReadOps => r.at \in Clock
         /\ r.op \in {"mark_pending_as_failed", "cancel_notification",
                      "persist_notification_update"} => r.at = NULL
         /\ r.op = "persist_notification" =>
              r.content \in Contents /\ r.send_after \in SendAfters
         /\ r.ids \subseteq issued
         /\ Decides(r) => \A m, n \in r.ids : m = n
<1>0. issued \in SUBSET Ids /\ now \in Clock
  BY DEF TypeOK
<1> USE <1>0, UpdateAssumption DEF Request, AllOps, SettleOps, ReadOps, StoreOps, OnOne
<1>1. CASE r \in PersistRequests
  BY <1>1 DEF PersistRequests
<1>2. CASE r \in UpdateRequests
  BY <1>2 DEF UpdateRequests
<1>3. CASE r \in StampRequests
  <2>1. PICK n \in issued : r.ids = {n}
    BY <1>3 DEF StampRequests
  <2> QED BY <1>3, <2>1 DEF StampRequests
<1>4. CASE r \in DecideRequests
  BY <1>4 DEF DecideRequests
<1>5. CASE r \in BulkRequests
  <2>1. ~Decides(r)
    BY <1>5 DEF BulkRequests, Decides, Decision
  <2> QED BY <1>5, <2>1 DEF BulkRequests
<1> QED BY <1>1, <1>2, <1>3, <1>4, <1>5 DEF Requests

\* A call decides when it is a mark, a cancel, or an update that writes a status
\* other than PENDING_SEND; a read and a store_* call never do.
LEMMA WhoDecides ==
  ASSUME NEW r \in Request
  PROVE  /\ Decides(r) => /\ r.op \in SettleOps \cup {"persist_notification_update"}
                          /\ Decision(r) \in {"SENT", "FAILED", "CANCELLED", "READ"}
         /\ r.op \in ReadOps \cup StoreOps \cup {NULL, "persist_notification"} => ~Decides(r)
         /\ r.op \in SettleOps => Decides(r) /\ Decision(r) # "READ"
<1>1. /\ r.status \in Statuses \cup {KEEP} /\ KEEP \notin Statuses
      /\ NULL \notin AllOps /\ r.op \in AllOps \cup {NULL}
  BY NullAssumption DEF Request
<1>2. CASE r.op \in SettleOps
  <2>1. Decision(r) \in {"SENT", "FAILED", "CANCELLED"}
    BY <1>2 DEF Decision, SettleOps
  <2>2. r.op \notin ReadOps \cup StoreOps \cup {NULL, "persist_notification"}
    BY <1>1, <1>2 DEF SettleOps, ReadOps, StoreOps, AllOps
  <2>3. Decides(r)
    BY <1>1, <2>1 DEF Decides, Statuses
  <2> QED BY <1>2, <2>1, <2>2, <2>3
<1>3. CASE r.op = "persist_notification_update"
  BY <1>1, <1>3 DEF Decides, Decision, SettleOps, ReadOps, StoreOps, Statuses, AllOps
<1>4. CASE r.op \notin SettleOps \cup {"persist_notification_update"}
  <2>1. Decision(r) = KEEP
    BY <1>4 DEF Decision, SettleOps
  <2> QED BY <2>1, <1>4 DEF Decides
<1> QED BY <1>2, <1>3, <1>4

\* The decision is one of the statuses the call may leave behind it.
LEMMA DecisionOnward ==
  ASSUME NEW r \in Request
  PROVE  /\ Decides(r) => /\ Decision(r) \in Onward(r)
                          /\ Onward(r) \subseteq {Decision(r), "READ"}
                          /\ "READ" \in Onward(r) => Decision(r) \in {"SENT", "READ"}
                          /\ "SENT" \in Onward(r) => Decision(r) = "SENT" /\ "READ" \in Onward(r)
         /\ r.op \in ReadOps => Onward(r) = {"READ"}
         /\ ~Decides(r) /\ r.op \notin ReadOps => Onward(r) = Statuses
<1>1. CASE Decides(r)
  <2>1. r.op \notin ReadOps
    BY <1>1, WhoDecides
  <2>2. CASE Decision(r) = "SENT"
    BY <1>1, <2>1, <2>2 DEF Onward
  <2>3. CASE Decision(r) # "SENT"
    <3>1. Onward(r) = {Decision(r)}
      BY <1>1, <2>1, <2>3 DEF Onward
    <3> QED BY <1>1, <2>1, <2>3, <3>1
  <2> QED BY <2>2, <2>3
<1>2. CASE r.op \in ReadOps
  <2>1. ~Decides(r)
    BY <1>2, WhoDecides
  <2>2. Decision(r) # "SENT"
    BY <2>1, NullAssumption DEF Decides, Statuses
  <2> QED BY <1>2, <2>1, <2>2 DEF Onward
<1>3. CASE ~Decides(r) /\ r.op \notin ReadOps
  <2>1. Decision(r) # "SENT"
    BY <1>3, NullAssumption DEF Decides, Statuses
  <2> QED BY <1>3, <2>1 DEF Onward
<1> QED BY <1>1, <1>2, <1>3

\* The assumption on NULL, as the results and statuses need it.
LEMMA NullIsNoString == NULL \notin Results \cup Statuses \cup AllOps
BY NullAssumption DEF Results, Statuses, AllOps

\* A call that was not made yet carries no operation.
LEMMA BlankWellFormed == Blank \in Request /\ Blank.op = NULL
BY NullAssumption DEF Blank, Request, AllOps

-----------------------------------------------------------------------------
(* Type correctness *)

\* The table starts well typed.
LEMMA InitTypeOK == Init => TypeOK
<1> SUFFICES ASSUME Init PROVE TypeOK
  OBVIOUS
<1>1. row \in [issued -> Row] /\ issued = present /\ issued \in SUBSET Ids
  BY DEF Init, Row, Fresh, Statuses, NothingStored, issued
<1>2. now \in Clock
  BY NowAssumption DEF Init, Clock
<1> QED BY <1>1, <1>2, BlankWellFormed DEF Init, TypeOK, Answer

\* Return and Goto keep the types of pc and answer.
LEMMA ReturnType ==
  ASSUME TypeOK, NEW c \in Calls, NEW result \in Results,
         NEW seen \in SUBSET (Ids \X Statuses), Return(c, result, seen)
  PROVE  /\ pc' \in [Calls -> {"idle", "write", "attach", "fetch", "list", "done"}]
         /\ answer' \in [Calls -> Answer]
BY DEF TypeOK, Return, Answer

\* Moving a call to its next statement keeps pc and answer typed.
LEMMA GotoType ==
  ASSUME TypeOK, NEW c \in Calls, NEW next \in {"attach", "fetch", "list"}, Goto(c, next)
  PROVE  /\ pc' \in [Calls -> {"idle", "write", "attach", "fetch", "list", "done"}]
         /\ answer' \in [Calls -> Answer]
BY DEF TypeOK, Goto

\* Recording what a statement matched keeps hit, pc and answer typed, whether
\* the call goes on or refuses.
LEMMA MatchedType ==
  ASSUME TypeOK, NEW c \in Calls, NEW S \in SUBSET issued,
         NEW next \in {"attach", "fetch", "list"}, Matched(c, S, next)
  PROVE  /\ pc' \in [Calls -> {"idle", "write", "attach", "fetch", "list", "done"}]
         /\ answer' \in [Calls -> Answer]
         /\ hit' \in [Calls -> SUBSET issued]
<1>1. hit' \in [Calls -> SUBSET issued]
  BY DEF TypeOK, Matched
<1>2. CASE S = {}
  BY <1>1, <1>2, ReturnType DEF Matched, Results
<1>3. CASE S # {}
  BY <1>1, <1>3, GotoType DEF Matched
<1> QED BY <1>2, <1>3

\* Every step keeps the table and the calls well typed.
LEMMA TypeStep == TypeOK /\ Shape /\ [Next]_vars => TypeOK'
<1> SUFFICES ASSUME TypeOK, Shape, [Next]_vars PROVE TypeOK'
  OBVIOUS
<1>a. ASSUME NEW c \in Calls, NEW s
      PROVE  /\ Where(c, s) \in SUBSET issued
             /\ UpdateMatches(c) \in SUBSET issued
             /\ Unread(c) \in SUBSET issued
             /\ Listed(c) \in SUBSET issued
  BY DEF Where, UpdateMatches, Unread, Listed, Owned, TypeOK
<1>1. ASSUME NEW c \in Calls, Begin(c) PROVE TypeOK'
  <2>1. PICK r \in Requests : req' = [req EXCEPT ![c] = r]
    BY <1>1 DEF Begin
  <2>2. req' \in [Calls -> Request]
    BY <2>1, RequestsWellFormed DEF TypeOK
  <2> QED BY <1>1, <2>2 DEF Begin, TypeOK, issued
<1>2. ASSUME NEW c \in Calls, PersistNotification(c) PROVE TypeOK'
  <2>1. CASE req[c].user \in users \cup {NULL}
    <3>1. PICK n \in Ids \ issued :
             /\ present' = present \cup {n}
             /\ row' = [m \in issued \cup {n} |->
                          IF m \in issued THEN row[m]
                          ELSE Fresh(req[c].user, req[c].content, req[c].send_after)]
             /\ hit' = [hit EXCEPT ![c] = {n}]
      BY <1>2, <2>1 DEF PersistNotification
    <3>2. Fresh(req[c].user, req[c].content, req[c].send_after) \in Row
      BY <1>2 DEF Fresh, Row, TypeOK, Request, Statuses, NothingStored, PersistNotification, Runs,
                  Shape, ShapeOf
    <3>3. issued' = issued \cup {n} /\ row' \in [issued' -> Row]
      BY <3>1, <3>2 DEF TypeOK, issued
    <3>4. hit' \in [Calls -> SUBSET issued']
      BY <3>1, <3>3 DEF TypeOK
    <3>5. Goto(c, IF req[c].attachments THEN "attach" ELSE "fetch")
      BY <1>2, <2>1 DEF PersistNotification
    <3>6. /\ pc' \in [Calls -> {"idle", "write", "attach", "fetch", "list", "done"}]
          /\ answer' \in [Calls -> Answer]
      BY <3>5, GotoType
    <3> QED BY <1>2, <3>1, <3>3, <3>4, <3>6 DEF TypeOK, PersistNotification
  <2>2. CASE req[c].user \notin users \cup {NULL}
    <3>1. Return(c, "integrity_error", {})
      BY <1>2, <2>2 DEF PersistNotification
    <3>2. /\ pc' \in [Calls -> {"idle", "write", "attach", "fetch", "list", "done"}]
          /\ answer' \in [Calls -> Answer]
      BY <3>1, ReturnType DEF Results
    <3> QED BY <1>2, <2>2, <3>2 DEF TypeOK, PersistNotification, issued
  <2> QED BY <2>1, <2>2
<1>3. ASSUME NEW c \in Calls, PersistNotificationUpdate(c) PROVE TypeOK'
  <2>1. Matched(c, UpdateMatches(c), IF req[c].attachments THEN "attach" ELSE "fetch")
    BY <1>3 DEF PersistNotificationUpdate
  <2>2. /\ pc' \in [Calls -> {"idle", "write", "attach", "fetch", "list", "done"}]
        /\ answer' \in [Calls -> Answer]
        /\ hit' \in [Calls -> SUBSET issued]
    BY <2>1, <1>a, MatchedType
  <2> DEFINE New(n) == [row[n] EXCEPT
                !.content    = IF req[c].content = KEEP THEN @ ELSE req[c].content,
                !.send_after = IF req[c].send_after = KEEP THEN @ ELSE req[c].send_after,
                !.status     = IF req[c].status = KEEP THEN @ ELSE req[c].status]
  <2>3. ASSUME NEW n \in issued PROVE row[n] \in Row /\ New(n) \in Row
    <3>1. /\ row[n] \in Row
          /\ req[c].content \in Contents \cup {KEEP}
          /\ req[c].send_after \in SendAfters \cup {KEEP}
          /\ req[c].status \in Statuses \cup {KEEP}
      BY DEF TypeOK, Request
    <3> QED BY <3>1 DEF Row
  <2>4. row' = [n \in issued |-> IF n \notin UpdateMatches(c) THEN row[n] ELSE New(n)]
    BY <1>3 DEF PersistNotificationUpdate
  <2> HIDE DEF New
  <2>5. row' \in [issued -> Row] /\ issued' = issued
    BY <2>3, <2>4 DEF issued
  <2> QED BY <1>3, <2>2, <2>5 DEF PersistNotificationUpdate, TypeOK
<1>4. ASSUME NEW c \in Calls, Attach(c) PROVE TypeOK'
  <2>1. \/ Goto(c, "fetch")
        \/ Return(c, "attachment_error", {})
    BY <1>4 DEF Attach
  <2>2. /\ pc' \in [Calls -> {"idle", "write", "attach", "fetch", "list", "done"}]
        /\ answer' \in [Calls -> Answer]
    BY <2>1, GotoType, ReturnType DEF Results
  <2> QED BY <1>4, <2>2 DEF Attach, TypeOK, issued
<1>5. ASSUME NEW c \in Calls, MarkPendingAsSent(c) PROVE TypeOK'
  <2>1. /\ pc' \in [Calls -> {"idle", "write", "attach", "fetch", "list", "done"}]
        /\ answer' \in [Calls -> Answer]
        /\ hit' \in [Calls -> SUBSET issued]
    BY <1>5, <1>a, MatchedType DEF MarkPendingAsSent
  <2>a. ASSUME NEW n \in issued PROVE row[n] \in Row /\ AsSent(row[n], req[c].at) \in Row
    <3>1. req[c].at \in Clock /\ row[n] \in Row
      BY <1>5 DEF MarkPendingAsSent, Runs, Shape, ShapeOf, ReadOps, TypeOK
    <3> QED BY <3>1 DEF AsSent, Row, Statuses
  <2>2. row' \in [issued -> Row] /\ issued' = issued
    BY <1>5, <2>a DEF MarkPendingAsSent, issued
  <2> QED BY <1>5, <2>1, <2>2 DEF MarkPendingAsSent, TypeOK
<1>6. ASSUME NEW c \in Calls, MarkPendingAsFailed(c) PROVE TypeOK'
  <2>1. /\ pc' \in [Calls -> {"idle", "write", "attach", "fetch", "list", "done"}]
        /\ answer' \in [Calls -> Answer]
        /\ hit' \in [Calls -> SUBSET issued]
    BY <1>6, <1>a, MatchedType DEF MarkPendingAsFailed
  <2>a. ASSUME NEW n \in issued
        PROVE  row[n] \in Row /\ [row[n] EXCEPT !.status = "FAILED"] \in Row
    <3>1. row[n] \in Row
      BY DEF TypeOK
    <3> QED BY <3>1 DEF Row, Statuses
  <2>2. row' \in [issued -> Row] /\ issued' = issued
    BY <1>6, <2>a DEF MarkPendingAsFailed, issued
  <2> QED BY <1>6, <2>1, <2>2 DEF MarkPendingAsFailed, TypeOK
<1>7. ASSUME NEW c \in Calls, MarkSentAsRead(c) PROVE TypeOK'
  <2>1. /\ pc' \in [Calls -> {"idle", "write", "attach", "fetch", "list", "done"}]
        /\ answer' \in [Calls -> Answer]
        /\ hit' \in [Calls -> SUBSET issued]
    BY <1>7, <1>a, MatchedType DEF MarkSentAsRead
  <2>a. ASSUME NEW n \in issued PROVE row[n] \in Row /\ AsRead(row[n], req[c].at) \in Row
    <3>1. req[c].at \in Clock /\ row[n] \in Row
      BY <1>7 DEF MarkSentAsRead, Runs, Shape, ShapeOf, ReadOps, TypeOK
    <3> QED BY <3>1 DEF AsRead, Row, Statuses
  <2>2. row' \in [issued -> Row] /\ issued' = issued
    BY <1>7, <2>a DEF MarkSentAsRead, issued
  <2> QED BY <1>7, <2>1, <2>2 DEF MarkSentAsRead, TypeOK
<1>8. ASSUME NEW c \in Calls, CancelNotification(c) PROVE TypeOK'
  <2>1. Return(c, IF Where(c, "PENDING_SEND") = {} THEN "refused" ELSE "ok", {})
    BY <1>8 DEF CancelNotification
  <2>2. /\ pc' \in [Calls -> {"idle", "write", "attach", "fetch", "list", "done"}]
        /\ answer' \in [Calls -> Answer]
    BY <2>1, ReturnType DEF Results
  <2>a. ASSUME NEW n \in issued
        PROVE  row[n] \in Row /\ [row[n] EXCEPT !.status = "CANCELLED"] \in Row
    <3>1. row[n] \in Row
      BY DEF TypeOK
    <3> QED BY <3>1 DEF Row, Statuses
  <2>3. row' \in [issued -> Row] /\ issued' = issued
    BY <1>8, <2>a DEF CancelNotification, issued
  <2>4. hit' \in [Calls -> SUBSET issued]
    BY <1>8, <1>a DEF CancelNotification, TypeOK
  <2> QED BY <1>8, <2>2, <2>3, <2>4 DEF CancelNotification, TypeOK
<1>9. ASSUME NEW c \in Calls, MarkSentAsReadBulk(c) PROVE TypeOK'
  <2>1. /\ pc' \in [Calls -> {"idle", "write", "attach", "fetch", "list", "done"}]
        /\ answer' \in [Calls -> Answer]
    BY <1>9, GotoType DEF MarkSentAsReadBulk
  <2>a. ASSUME NEW n \in issued PROVE row[n] \in Row /\ AsRead(row[n], req[c].at) \in Row
    <3>1. req[c].at \in Clock /\ row[n] \in Row
      BY <1>9 DEF MarkSentAsReadBulk, Runs, Shape, ShapeOf, ReadOps, TypeOK
    <3> QED BY <3>1 DEF AsRead, Row, Statuses
  <2>2. row' \in [issued -> Row] /\ issued' = issued
    BY <1>9, <2>a DEF MarkSentAsReadBulk, issued
  <2>3. hit' \in [Calls -> SUBSET issued]
    BY <1>9, <1>a DEF MarkSentAsReadBulk, TypeOK
  <2> QED BY <1>9, <2>1, <2>2, <2>3 DEF MarkSentAsReadBulk, TypeOK
<1>10. ASSUME NEW c \in Calls, Store(c) PROVE TypeOK'
  <2>1. /\ pc' \in [Calls -> {"idle", "write", "attach", "fetch", "list", "done"}]
        /\ answer' \in [Calls -> Answer]
    BY <1>10, ReturnType DEF Store, Results
  <2>a. ASSUME NEW n \in issued
        PROVE  row[n] \in Row /\ [row[n] EXCEPT !.stored[req[c].op] = c] \in Row
    <3>1. row[n] \in Row
      BY DEF TypeOK
    <3> QED BY <3>1 DEF Row
  <2>2. row' \in [issued -> Row] /\ issued' = issued
    BY <1>10, <2>a DEF Store, issued
  <2>3. hit' \in [Calls -> SUBSET issued]
    BY <1>10 DEF Store, TypeOK
  <2> QED BY <1>10, <2>1, <2>2, <2>3 DEF Store, TypeOK
<1>11. ASSUME NEW c \in Calls, Fetch(c) PROVE TypeOK'
  <2>1. PICK n \in hit[c] : \/ Return(c, "ok", {<<n, Shown(c, n)>>})
                            \/ Return(c, "attachment_error", {})
                            \/ Return(c, "not_found", {})
    BY <1>11 DEF Fetch
  <2>2. {<<n, Shown(c, n)>>} \in SUBSET (Ids \X Statuses)
    BY <2>1 DEF TypeOK, Shown, Statuses, Row
  <2>3. /\ pc' \in [Calls -> {"idle", "write", "attach", "fetch", "list", "done"}]
        /\ answer' \in [Calls -> Answer]
    BY <2>1, <2>2, ReturnType DEF Results
  <2> QED BY <1>11, <2>3 DEF Fetch, TypeOK, issued
<1>12. ASSUME NEW c \in Calls, ListRead(c) PROVE TypeOK'
  <2>1. \/ Return(c, "ok", Listed(c) \X {"READ"})
        \/ Return(c, "user_not_found", {})
        \/ Return(c, "attachment_error", {})
    BY <1>12 DEF ListRead
  <2>2. Listed(c) \X {"READ"} \in SUBSET (Ids \X Statuses)
    BY <1>a DEF TypeOK, Statuses
  <2>3. /\ pc' \in [Calls -> {"idle", "write", "attach", "fetch", "list", "done"}]
        /\ answer' \in [Calls -> Answer]
    BY <2>1, <2>2, ReturnType DEF Results
  <2> QED BY <1>12, <2>3 DEF ListRead, TypeOK, issued
<1>13. ASSUME NEW u \in Users, DeleteUser(u) PROVE TypeOK'
  BY <1>13 DEF DeleteUser, TypeOK, issued
<1>14. CASE Tick
  BY <1>14, NowAssumption DEF Tick, TypeOK, Clock, issued, Row, Request
<1>15. CASE UNCHANGED vars
  BY <1>15 DEF vars, TypeOK, issued
<1> QED
  BY <1>1, <1>2, <1>3, <1>4, <1>5, <1>6, <1>7, <1>8, <1>9, <1>10, <1>11, <1>12, <1>13,
     <1>14, <1>15 DEF Next, Proceed
-----------------------------------------------------------------------------
(* What a step does to the rows.  Every step has one of six effects; the *)
(* invariants are then proved effect by effect.                           *)

\* No row changes, though some may be deleted.
Quiet ==
  /\ UNCHANGED <<row, hit, req>>
  /\ present' \in SUBSET present

\* A call takes its arguments.
Started(c) ==
  /\ pc[c] = "idle" /\ req[c].op = NULL /\ hit[c] = {}
  /\ \E r \in Requests : req' = [req EXCEPT ![c] = r]
  /\ UNCHANGED <<row, hit, present>>

Matches(c, S) ==
  /\ pc[c] = "write" /\ hit[c] = {}
  /\ S \in SUBSET issued
  /\ hit' = [hit EXCEPT ![c] = S]
  /\ UNCHANGED req

Inserted(c, n) ==
  /\ req[c].op = "persist_notification"
  /\ pc[c] = "write" /\ hit[c] = {}
  /\ n \in Ids \ issued
  /\ issued' = issued \cup {n} /\ present' = present \cup {n}
  /\ hit' = [hit EXCEPT ![c] = {n}]
  /\ UNCHANGED req
  /\ \A m \in issued : row'[m] = row[m]
  /\ row'[n].status = "PENDING_SEND" /\ row'[n].sent_at = NULL /\ row'[n].read_at = NULL

\* Pending rows are decided.
Settled(c, S) ==
  /\ Decides(req[c])
  /\ Matches(c, S)
  /\ S \subseteq req[c].ids \cap present
  /\ issued' = issued /\ present' = present
  /\ \A n \in issued \ S : row'[n] = row[n]
  /\ \A n \in S :
       /\ row[n].status = "PENDING_SEND"
       /\ row'[n].status = Decision(req[c])
       /\ row'[n].sent_at = IF req[c].op = "mark_pending_as_sent" THEN req[c].at
                            ELSE row[n].sent_at
       /\ row'[n].read_at = row[n].read_at
       /\ row'[n].user = row[n].user

\* SENT rows are read.
MarkedRead(c, S) ==
  /\ req[c].op \in ReadOps
  /\ Matches(c, S)
  /\ S \subseteq present
  /\ req[c].op = "mark_sent_as_read_bulk" => S \subseteq Owned(c)
  /\ issued' = issued /\ present' = present
  /\ \A n \in issued \ S : row'[n] = row[n]
  /\ \A n \in S :
       /\ row[n].status = "SENT" /\ row'[n].status = "READ"
       /\ row'[n].read_at = req[c].at
       /\ row'[n].sent_at = row[n].sent_at
       /\ row'[n].user = row[n].user
       /\ row'[n].content = row[n].content
       /\ row'[n].send_after = row[n].send_after

\* Columns that are no part of the life of a row are written.
Wrote(c, S) ==
  /\ ~Decides(req[c]) /\ req[c].op \notin ReadOps
  /\ Matches(c, S)
  /\ issued' = issued /\ present' = present
  /\ \A n \in issued :
       /\ row'[n].status = row[n].status
       /\ row'[n].sent_at = row[n].sent_at
       /\ row'[n].read_at = row[n].read_at
       /\ row'[n].user = row[n].user
       /\ row[n].status # "PENDING_SEND" =>
            row'[n].content = row[n].content /\ row'[n].send_after = row[n].send_after

Effect ==
  \/ Quiet
  \/ \E c \in Calls : Started(c)
  \/ \E c \in Calls, n \in Ids : Inserted(c, n)
  \/ \E c \in Calls, S \in SUBSET Ids :
       Settled(c, S) \/ MarkedRead(c, S) \/ Wrote(c, S)

\* Every step of every handler has one of the six effects: the invariants are
\* proved for these, not for each handler again.
LEMMA StepEffect == TypeOK /\ Shape /\ [Next]_vars => Effect
<1> SUFFICES ASSUME TypeOK, Shape, [Next]_vars PROVE Effect
  OBVIOUS
<1>a. /\ issued \in SUBSET Ids /\ row \in [issued -> Row] /\ present \in SUBSET issued
      /\ hit \in [Calls -> SUBSET issued]
  BY DEF TypeOK
<1>b. ASSUME NEW c \in Calls, NEW s
      PROVE  /\ Where(c, s) \in SUBSET issued /\ Where(c, s) \in SUBSET Ids
             /\ \A n \in Where(c, s) : row[n].status = s /\ n \in req[c].ids \cap present
  BY <1>a DEF Where
<1>c. ASSUME NEW n \in issued
      PROVE row[n] \in Row
  BY <1>a
<1>d. \A c \in Calls : req[c] \in Request
  BY DEF TypeOK
<1>1. ASSUME NEW c \in Calls, Begin(c) PROVE Effect
  BY <1>1 DEF Begin, Shape, ShapeOf, Effect, Started
<1>2. ASSUME NEW c \in Calls, PersistNotification(c) PROVE Effect
  <2>0. pc[c] = "write" /\ req[c].op = "persist_notification" /\ hit[c] = {}
    BY <1>2 DEF PersistNotification, Runs, Shape, ShapeOf
  <2>1. CASE req[c].user \in users \cup {NULL}
    <3>1. PICK n \in Ids \ issued :
             /\ present' = present \cup {n}
             /\ row' = [m \in issued \cup {n} |->
                          IF m \in issued THEN row[m]
                          ELSE Fresh(req[c].user, req[c].content, req[c].send_after)]
             /\ hit' = [hit EXCEPT ![c] = {n}]
      BY <1>2, <2>1 DEF PersistNotification
    <3>2. issued' = issued \cup {n} /\ \A m \in issued : row'[m] = row[m]
      BY <3>1 DEF issued
    <3>3. row'[n] = Fresh(req[c].user, req[c].content, req[c].send_after)
      BY <3>1
    <3>4. Inserted(c, n)
      BY <1>2, <2>0, <3>1, <3>2, <3>3 DEF Inserted, Fresh, PersistNotification
    <3> QED BY <3>4 DEF Effect
  <2>2. CASE req[c].user \notin users \cup {NULL}
    BY <1>2, <2>2 DEF PersistNotification, Effect, Quiet
  <2> QED BY <2>1, <2>2
<1>3. ASSUME NEW c \in Calls, PersistNotificationUpdate(c) PROVE Effect
  <2> DEFINE S == Where(c, "PENDING_SEND")
  <2>1. Matches(c, S) /\ req[c].op = "persist_notification_update"
    BY <1>3, <1>b DEF PersistNotificationUpdate, Matches, Matched, UpdateMatches, Runs,
                Shape, ShapeOf
  <2>2. issued' = issued /\ present' = present
    BY <1>3, <1>a DEF PersistNotificationUpdate, issued
  <2>3. ASSUME NEW n \in issued
        PROVE  /\ row'[n].status = IF n \in S /\ req[c].status # KEEP THEN req[c].status
                                   ELSE row[n].status
               /\ row'[n].sent_at = row[n].sent_at
               /\ row'[n].read_at = row[n].read_at
               /\ row'[n].user = row[n].user
               /\ n \notin S => row'[n] = row[n]
    BY <1>3, <1>c DEF PersistNotificationUpdate, UpdateMatches, Row
  <2>4. Decision(req[c]) = req[c].status
    BY <2>1 DEF Decision
  <2>5. /\ S \in SUBSET Ids
        /\ \A n \in S : row[n].status = "PENDING_SEND" /\ n \in req[c].ids \cap present
    BY <1>b
  <2> HIDE DEF S
  <2>6. CASE Decides(req[c])
    <3>1. \A n \in S : n \in issued /\ row'[n].status = Decision(req[c])
      BY <2>3, <2>4, <2>5, <2>6, <1>a DEF Decides
    <3>2. Settled(c, S)
      BY <2>1, <2>2, <2>3, <2>5, <2>6, <3>1 DEF Settled
    <3> QED BY <2>5, <3>2 DEF Effect
  <2>7. CASE ~Decides(req[c])
    <3>1. ASSUME NEW n \in issued PROVE row'[n].status = row[n].status
      BY <2>3, <2>4, <2>5, <2>7 DEF Decides
    <3>2. Wrote(c, S)
      BY <2>1, <2>2, <2>3, <2>5, <2>7, <3>1 DEF Wrote, ReadOps
    <3> QED BY <2>5, <3>2 DEF Effect
  <2> QED BY <2>6, <2>7
<1>4. ASSUME NEW c \in Calls, Attach(c) PROVE Effect
  BY <1>4 DEF Attach, Effect, Quiet
<1>5. ASSUME NEW c \in Calls, MarkPendingAsSent(c) PROVE Effect
  <2> DEFINE S == Where(c, "PENDING_SEND")
  <2>1. Matches(c, S) /\ req[c].op = "mark_pending_as_sent"
    BY <1>5, <1>b DEF MarkPendingAsSent, Matches, Matched, Runs, Shape, ShapeOf
  <2>2. issued' = issued /\ present' = present
    BY <1>5, <1>a DEF MarkPendingAsSent, issued
  <2>3. ASSUME NEW n \in issued
        PROVE row'[n] = IF n \in S THEN AsSent(row[n], req[c].at) ELSE row[n]
    BY <1>5 DEF MarkPendingAsSent
  <2>5. ASSUME NEW n \in S
        PROVE  /\ row'[n].status = "SENT"
               /\ row'[n].sent_at = req[c].at
               /\ row'[n].read_at = row[n].read_at
               /\ row'[n].user = row[n].user
               /\ row'[n].content = row[n].content
               /\ row'[n].send_after = row[n].send_after
    <3>1. row[n] \in Row /\ row'[n] = AsSent(row[n], req[c].at)
      BY <1>b, <2>3, <1>c
    <3> QED BY <3>1 DEF AsSent, Row
  <2>6. Decision(req[c]) = "SENT" /\ Decides(req[c])
    BY <2>1, <1>d, WhoDecides DEF Decision, SettleOps
  <2>7. \A n \in S : row[n].status = "PENDING_SEND" /\ n \in req[c].ids \cap present
    BY <1>b
  <2>8. S \in SUBSET Ids
    BY <1>b
  <2> HIDE DEF S
  <2>4. Settled(c, S)
    BY <2>1, <2>2, <2>3, <2>5, <2>6, <2>7 DEF Settled
  <2> QED BY <2>4, <2>8 DEF Effect
<1>6. ASSUME NEW c \in Calls, MarkPendingAsFailed(c) PROVE Effect
  <2> DEFINE S == Where(c, "PENDING_SEND")
  <2>1. Matches(c, S) /\ req[c].op = "mark_pending_as_failed"
    BY <1>6, <1>b DEF MarkPendingAsFailed, Matches, Matched, Runs, Shape, ShapeOf
  <2>2. issued' = issued /\ present' = present
    BY <1>6, <1>a DEF MarkPendingAsFailed, issued
  <2>3. ASSUME NEW n \in issued
        PROVE row'[n] = IF n \in S THEN [row[n] EXCEPT !.status = "FAILED"] ELSE row[n]
    BY <1>6 DEF MarkPendingAsFailed
  <2>5. ASSUME NEW n \in S
        PROVE  /\ row'[n].status = "FAILED"
               /\ row'[n].sent_at = row[n].sent_at
               /\ row'[n].read_at = row[n].read_at
               /\ row'[n].user = row[n].user
               /\ row'[n].content = row[n].content
               /\ row'[n].send_after = row[n].send_after
    <3>1. row[n] \in Row /\ row'[n] = [row[n] EXCEPT !.status = "FAILED"]
      BY <1>b, <2>3, <1>c
    <3> QED BY <3>1 DEF Row
  <2>6. Decision(req[c]) = "FAILED" /\ Decides(req[c])
    BY <2>1, <1>d, WhoDecides DEF Decision, SettleOps
  <2>7. \A n \in S : row[n].status = "PENDING_SEND" /\ n \in req[c].ids \cap present
    BY <1>b
  <2>8. S \in SUBSET Ids
    BY <1>b
  <2> HIDE DEF S
  <2>4. Settled(c, S)
    BY <2>1, <2>2, <2>3, <2>5, <2>6, <2>7 DEF Settled
  <2> QED BY <2>4, <2>8 DEF Effect
<1>7. ASSUME NEW c \in Calls, MarkSentAsRead(c) PROVE Effect
  <2> DEFINE S == Where(c, "SENT")
  <2>1. Matches(c, S) /\ req[c].op = "mark_sent_as_read"
    BY <1>7, <1>b DEF MarkSentAsRead, Matches, Matched, Runs, Shape, ShapeOf
  <2>2. issued' = issued /\ present' = present
    BY <1>7, <1>a DEF MarkSentAsRead, issued
  <2>3. ASSUME NEW n \in issued
        PROVE row'[n] = IF n \in S THEN AsRead(row[n], req[c].at) ELSE row[n]
    BY <1>7 DEF MarkSentAsRead
  <2>5. ASSUME NEW n \in S
        PROVE  /\ row'[n].status = "READ"
               /\ row'[n].sent_at = row[n].sent_at
               /\ row'[n].read_at = req[c].at
               /\ row'[n].user = row[n].user
               /\ row'[n].content = row[n].content
               /\ row'[n].send_after = row[n].send_after
    <3>1. row[n] \in Row /\ row'[n] = AsRead(row[n], req[c].at)
      BY <1>b, <2>3, <1>c
    <3> QED BY <3>1 DEF AsRead, Row
  <2>6. \A n \in S : row[n].status = "SENT" /\ n \in present
    BY <1>b
  <2>8. S \in SUBSET Ids
    BY <1>b
  <2> HIDE DEF S
  <2>4. MarkedRead(c, S)
    BY <2>1, <2>2, <2>3, <2>5, <2>6 DEF MarkedRead, ReadOps
  <2> QED BY <2>4, <2>8 DEF Effect
<1>8. ASSUME NEW c \in Calls, CancelNotification(c) PROVE Effect
  <2> DEFINE S == Where(c, "PENDING_SEND")
  <2>1. Matches(c, S) /\ req[c].op = "cancel_notification"
    BY <1>8, <1>b DEF CancelNotification, Matches, Runs, Shape, ShapeOf
  <2>2. issued' = issued /\ present' = present
    BY <1>8, <1>a DEF CancelNotification, issued
  <2>3. ASSUME NEW n \in issued
        PROVE row'[n] = IF n \in S THEN [row[n] EXCEPT !.status = "CANCELLED"] ELSE row[n]
    BY <1>8 DEF CancelNotification
  <2>5. ASSUME NEW n \in S
        PROVE  /\ row'[n].status = "CANCELLED"
               /\ row'[n].sent_at = row[n].sent_at
               /\ row'[n].read_at = row[n].read_at
               /\ row'[n].user = row[n].user
               /\ row'[n].content = row[n].content
               /\ row'[n].send_after = row[n].send_after
    <3>1. row[n] \in Row /\ row'[n] = [row[n] EXCEPT !.status = "CANCELLED"]
      BY <1>b, <2>3, <1>c
    <3> QED BY <3>1 DEF Row
  <2>6. Decision(req[c]) = "CANCELLED" /\ Decides(req[c])
    BY <2>1, <1>d, WhoDecides DEF Decision, SettleOps
  <2>7. \A n \in S : row[n].status = "PENDING_SEND" /\ n \in req[c].ids \cap present
    BY <1>b
  <2>8. S \in SUBSET Ids
    BY <1>b
  <2> HIDE DEF S
  <2>4. Settled(c, S)
    BY <2>1, <2>2, <2>3, <2>5, <2>6, <2>7 DEF Settled
  <2> QED BY <2>4, <2>8 DEF Effect
<1>9. ASSUME NEW c \in Calls, MarkSentAsReadBulk(c) PROVE Effect
  <2> DEFINE S == Unread(c)
  <2>0. S \in SUBSET issued /\ S \subseteq Owned(c) /\ \A n \in S : row[n].status = "SENT"
    BY <1>b DEF Unread
  <2>1. Matches(c, S) /\ req[c].op = "mark_sent_as_read_bulk"
    BY <1>9, <2>0 DEF MarkSentAsReadBulk, Matches, Runs, Shape, ShapeOf
  <2>2. issued' = issued /\ present' = present
    BY <1>9, <1>a DEF MarkSentAsReadBulk, issued
  <2>3. ASSUME NEW n \in issued
        PROVE row'[n] = IF n \in S THEN AsRead(row[n], req[c].at) ELSE row[n]
    BY <1>9 DEF MarkSentAsReadBulk
  <2>5. ASSUME NEW n \in S
        PROVE  /\ row'[n].status = "READ"
               /\ row'[n].sent_at = row[n].sent_at
               /\ row'[n].read_at = req[c].at
               /\ row'[n].user = row[n].user
               /\ row'[n].content = row[n].content
               /\ row'[n].send_after = row[n].send_after
    <3>1. row[n] \in Row /\ row'[n] = AsRead(row[n], req[c].at)
      BY <2>0, <2>3, <1>c
    <3> QED BY <3>1 DEF AsRead, Row
  <2>6. \A n \in S : row[n].status = "SENT" /\ n \in present
    BY <2>0 DEF Owned
  <2> HIDE DEF S
  <2>4. MarkedRead(c, S)
    BY <2>1, <2>2, <2>3, <2>5, <2>6, <2>0 DEF MarkedRead, ReadOps
  <2> QED BY <1>a, <2>0, <2>4 DEF Effect
<1>10. ASSUME NEW c \in Calls, Store(c) PROVE Effect
  <2> DEFINE S == req[c].ids \cap present
  <2>1. Matches(c, S) /\ req[c].op \in StoreOps
    BY <1>10, <1>a DEF Store, Matches, Runs, Shape, ShapeOf
  <2>2. issued' = issued /\ present' = present
    BY <1>10, <1>a DEF Store, issued
  <2>3. ASSUME NEW n \in issued
        PROVE row'[n] = IF n \in S THEN [row[n] EXCEPT !.stored[req[c].op] = c]
                        ELSE row[n]
    BY <1>10 DEF Store
  <2>5. ASSUME NEW n \in issued
        PROVE  /\ row'[n].status = row[n].status
               /\ row'[n].sent_at = row[n].sent_at
               /\ row'[n].read_at = row[n].read_at
               /\ row'[n].user = row[n].user
               /\ row'[n].content = row[n].content
               /\ row'[n].send_after = row[n].send_after
    <3>1. row[n] \in Row
      BY <1>c
    <3> QED BY <2>3, <3>1 DEF Row
  <2> HIDE DEF S
  <2>6. ~Decides(req[c]) /\ req[c].op \notin ReadOps
    BY <2>1, <1>d, WhoDecides DEF StoreOps, ReadOps
  <2>4. Wrote(c, S)
    BY <2>1, <2>2, <2>5, <2>6 DEF Wrote
  <2> QED BY <2>4, <1>a DEF Effect, S
<1>11. ASSUME NEW c \in Calls, Fetch(c) PROVE Effect
  BY <1>11 DEF Fetch, Effect, Quiet
<1>12. ASSUME NEW c \in Calls, ListRead(c) PROVE Effect
  BY <1>12 DEF ListRead, Effect, Quiet
<1>13. ASSUME NEW u \in Users, DeleteUser(u) PROVE Effect
  BY <1>13 DEF DeleteUser, Effect, Quiet
<1>14. CASE Tick
  BY <1>14 DEF Tick, Effect, Quiet
<1>15. CASE UNCHANGED vars
  BY <1>15 DEF vars, Effect, Quiet
<1> QED
  BY <1>1, <1>2, <1>3, <1>4, <1>5, <1>6, <1>7, <1>8, <1>9, <1>10, <1>11, <1>12, <1>13,
     <1>14, <1>15 DEF Next, Proceed
-----------------------------------------------------------------------------
(* The shape of a call *)

\* No call has begun: nothing is matched or answered.
LEMMA InitShape == Init => Shape
BY NullAssumption, BlankWellFormed
   DEF Init, Shape, ShapeOf, NoAnswer, ReadOps, AllOps, SettleOps, Blank

\* A call that returns, or that goes on to its next statement, keeps its shape.
LEMMA ReturnShape ==
  ASSUME TypeOK, Shape, NEW c \in Calls, NEW result, NEW seen, NEW H,
         Return(c, result, seen), hit' = [hit EXCEPT ![c] = H], UNCHANGED req,
         result = "refused" => H = {}
  PROVE  Shape'
<1>1. /\ pc'[c] = "done" /\ answer'[c].result = result /\ hit'[c] = H
      /\ \A d \in Calls \ {c} : pc'[d] = pc[d] /\ answer'[d] = answer[d] /\ hit'[d] = hit[d]
  BY DEF TypeOK, Return
<1>2. ShapeOf(c)' /\ \A d \in Calls \ {c} : ShapeOf(d)'
  <2> HIDE DEF NoAnswer
  <2> QED BY <1>1 DEF Shape, ShapeOf, Clock
<1> QED BY <1>2 DEF Shape

\* A call that moves on without answering keeps its shape.
LEMMA GotoShape ==
  ASSUME TypeOK, Shape, NEW c \in Calls, NEW next \in {"attach", "fetch", "list"}, NEW H,
         Goto(c, next), hit' = [hit EXCEPT ![c] = H], UNCHANGED req, pc[c] # "done",
         next = "attach" =>
           req[c].op \in {"persist_notification", "persist_notification_update"},
         next = "fetch" => req[c].op # "mark_sent_as_read_bulk",
         next = "list" => req[c].op = "mark_sent_as_read_bulk"
  PROVE  Shape'
<1>1. /\ pc'[c] = next /\ answer'[c] = NoAnswer /\ hit'[c] = H
      /\ \A d \in Calls \ {c} : pc'[d] = pc[d] /\ answer'[d] = answer[d] /\ hit'[d] = hit[d]
  BY DEF TypeOK, Goto, Shape, ShapeOf
<1>2. NoAnswer.result # "refused"
  BY NullIsNoString DEF NoAnswer, Results
<1>3. ShapeOf(c)' /\ \A d \in Calls \ {c} : ShapeOf(d)'
  <2> HIDE DEF NoAnswer
  <2> QED BY <1>1, <1>2 DEF Shape, ShapeOf, Clock, ReadOps
<1> QED BY <1>3 DEF Shape, ShapeOf

\* A call that refuses has matched nothing, one that goes on has matched a row.
LEMMA MatchedShape ==
  ASSUME TypeOK, Shape, NEW c \in Calls, NEW S, NEW next \in {"attach", "fetch"},
         Matched(c, S, next), UNCHANGED req, pc[c] # "done",
         next = "attach" =>
           req[c].op \in {"persist_notification", "persist_notification_update"},
         req[c].op # "mark_sent_as_read_bulk"
  PROVE  Shape'
<1>1. CASE S = {}
  BY <1>1, ReturnShape DEF Matched
<1>2. CASE S # {}
  BY <1>2, GotoShape DEF Matched
<1> QED BY <1>1, <1>2

\* Every step keeps what a call at each of its statements looks like.
LEMMA ShapeStep == TypeOK /\ Shape /\ [Next]_vars => Shape'
<1> SUFFICES ASSUME TypeOK, Shape, [Next]_vars PROVE Shape'
  OBVIOUS
<1>a. /\ pc \in [Calls -> {"idle", "write", "attach", "fetch", "list", "done"}]
      /\ req \in [Calls -> Request]
      /\ hit \in [Calls -> SUBSET issued]
      /\ answer \in [Calls -> Answer]
  BY DEF TypeOK
<1>1. ASSUME NEW c \in Calls, Begin(c) PROVE Shape'
  <2>1. PICK r \in Requests : r.op \in Ops /\ req' = [req EXCEPT ![c] = r]
    BY <1>1 DEF Begin
  <2>2. r.op # NULL
    BY <2>1, OpsAssumption, NullAssumption
  <2> QED
    BY <1>a, <1>1, <2>1, <2>2, RequestsWellFormed DEF Begin, Shape, ShapeOf, Clock, NoAnswer
<1>b. hit = [d \in Calls |-> hit[d]] /\ \A c \in Calls : hit = [hit EXCEPT ![c] = hit[c]]
  BY <1>a
<1>2. ASSUME NEW c \in Calls, PersistNotification(c) PROVE Shape'
  <2>1. CASE req[c].user \in users \cup {NULL}
    <3>1. PICK n \in Ids \ issued : hit' = [hit EXCEPT ![c] = {n}]
      BY <1>2, <2>1 DEF PersistNotification
    <3> QED BY <1>2, <2>1, <3>1, GotoShape DEF PersistNotification, Runs
  <2>2. CASE req[c].user \notin users \cup {NULL}
    BY <1>2, <1>b, <2>2, ReturnShape DEF PersistNotification
  <2> QED BY <2>1, <2>2
<1>3. ASSUME NEW c \in Calls, PersistNotificationUpdate(c) PROVE Shape'
  BY <1>3, MatchedShape DEF PersistNotificationUpdate, Runs
<1>4. ASSUME NEW c \in Calls, Attach(c) PROVE Shape'
  BY <1>4, <1>b, GotoShape, ReturnShape DEF Attach, Shape, ShapeOf
<1>5. ASSUME NEW c \in Calls, MarkPendingAsSent(c) PROVE Shape'
  BY <1>5, MatchedShape DEF MarkPendingAsSent, Runs
<1>6. ASSUME NEW c \in Calls, MarkPendingAsFailed(c) PROVE Shape'
  BY <1>6, MatchedShape DEF MarkPendingAsFailed, Runs
<1>7. ASSUME NEW c \in Calls, MarkSentAsRead(c) PROVE Shape'
  BY <1>7, MatchedShape DEF MarkSentAsRead, Runs
<1>8. ASSUME NEW c \in Calls, CancelNotification(c) PROVE Shape'
  BY <1>8, ReturnShape DEF CancelNotification
<1>9. ASSUME NEW c \in Calls, MarkSentAsReadBulk(c) PROVE Shape'
  BY <1>9, GotoShape DEF MarkSentAsReadBulk, Runs
<1>10. ASSUME NEW c \in Calls, Store(c) PROVE Shape'
  BY <1>10, ReturnShape DEF Store
<1>11. ASSUME NEW c \in Calls, Fetch(c) PROVE Shape'
  BY <1>11, <1>b, ReturnShape DEF Fetch
<1>12. ASSUME NEW c \in Calls, ListRead(c) PROVE Shape'
  BY <1>12, <1>b, ReturnShape DEF ListRead
<1>13. ASSUME NEW u \in Users, DeleteUser(u) PROVE Shape'
  BY <1>13 DEF DeleteUser, Shape, ShapeOf, Clock
<1>14. CASE Tick
  BY <1>14 DEF Tick, Shape, ShapeOf, Clock
<1>15. CASE UNCHANGED vars
  BY <1>15 DEF vars, Shape, ShapeOf, Clock
<1> QED
  BY <1>1, <1>2, <1>3, <1>4, <1>5, <1>6, <1>7, <1>8, <1>9, <1>10, <1>11, <1>12, <1>13,
     <1>14, <1>15 DEF Next, Proceed

\* Every variable always has its type, and so every row is well formed: no
\* interleaving of the statements leaves a value the columns cannot hold.
THEOREM TypeCorrect == Spec => []TypeOK
<1>1. Init => TypeOK /\ Shape
  BY InitTypeOK, InitShape
<1>2. TypeOK /\ Shape /\ [Next]_vars => TypeOK' /\ Shape'
  BY TypeStep, ShapeStep
<1> QED BY <1>1, <1>2, PTL DEF Spec
-----------------------------------------------------------------------------
(* Outcomes and timestamps *)

\* What the rows and the calls that matched them have to do with each other.
RowInv ==
  /\ OneOutcome
  /\ OutcomeDurable
  /\ StampedByWinner
  /\ BulkScoped
  /\ KeysIssued

\* A call that has matched nothing yet is among nobody's winners.
LEMMA WinnersUnchanged ==
  ASSUME TypeOK, Shape, NEW n \in issued,
         \A c \in Calls : n \in hit'[c] <=> n \in hit[c],
         \A c \in Calls : n \in hit[c] => req'[c] = req[c]
  PROVE  SettledBy(n)' = SettledBy(n) /\ ReadBy(n)' = ReadBy(n)
BY DEF SettledBy, ReadBy

\* Nothing recorded changes: reads, deletions of users, the clock.
LEMMA QuietRows == ASSUME TypeOK, Shape, RowInv, Quiet PROVE RowInv'
<1>1. issued' = issued /\ row' = row /\ hit' = hit /\ req' = req
  BY DEF Quiet, issued
<1>2. \A n \in issued : SettledBy(n)' = SettledBy(n) /\ ReadBy(n)' = ReadBy(n)
  BY <1>1, WinnersUnchanged
<1>3. BulkScoped'
  <2>1. \A c \in Calls : hit[c] \subseteq issued
    BY DEF TypeOK
  <2> QED BY <1>1, <2>1 DEF Quiet, RowInv, BulkScoped, Owned
<1> QED
  BY <1>1, <1>2, <1>3 DEF RowInv, OneOutcome, OutcomeDurable, StampedByWinner, KeysIssued

\* A call begins: it has matched no row yet.
LEMMA StartedRows ==
  ASSUME TypeOK, Shape, RowInv, NEW c \in Calls, Started(c)
  PROVE  RowInv'
<1>1. issued' = issued /\ row' = row /\ hit' = hit /\ present' = present
  BY DEF Started, issued
<1>2. \A d \in Calls : d # c => req'[d] = req[d]
  BY DEF Started, TypeOK
<1>3. hit[c] = {}
  BY DEF Started
<1>4. \A n \in issued : SettledBy(n)' = SettledBy(n) /\ ReadBy(n)' = ReadBy(n)
  BY <1>1, <1>2, <1>3, WinnersUnchanged
<1>5. \A n \in issued : \A d \in SettledBy(n) \cup ReadBy(n) : d # c
  BY <1>3 DEF SettledBy, ReadBy
<1>6. OneOutcome'
  BY <1>1, <1>4 DEF RowInv, OneOutcome
<1>7. OutcomeDurable' /\ StampedByWinner'
  <2>1. \A n \in issued : \A d \in SettledBy(n) \cup ReadBy(n) : req'[d] = req[d]
    BY <1>2, <1>5 DEF SettledBy, ReadBy
  <2> QED BY <1>1, <1>4, <2>1 DEF RowInv, OutcomeDurable, StampedByWinner
<1>8. BulkScoped'
  BY <1>1, <1>2, <1>3 DEF RowInv, BulkScoped, Owned
<1>9. KeysIssued'
  <2>1. PICK r \in Requests : req' = [req EXCEPT ![c] = r]
    BY DEF Started
  <2>2. r.ids \subseteq issued
    BY RequestsWellFormed
  <2> QED BY <1>1, <2>1, <2>2 DEF RowInv, KeysIssued, TypeOK
<1> QED BY <1>6, <1>7, <1>8, <1>9 DEF RowInv

\* A persist inserts a row under a key nobody used.
LEMMA InsertedRows ==
  ASSUME TypeOK, Shape, RowInv, NEW c \in Calls, NEW n \in Ids, Inserted(c, n)
  PROVE  RowInv'
<1>1. /\ issued' = issued \cup {n} /\ n \notin issued /\ req' = req
      /\ req[c].op = "persist_notification"
      /\ \A m \in issued : row'[m] = row[m]
      /\ row'[n].status = "PENDING_SEND" /\ row'[n].sent_at = NULL /\ row'[n].read_at = NULL
  BY DEF Inserted
<1>2. /\ hit[c] = {} /\ hit'[c] = {n}
      /\ \A d \in Calls : d # c => hit'[d] = hit[d]
      /\ \A d \in Calls : hit[d] \subseteq issued
  BY DEF Inserted, TypeOK
<1>3. /\ \A m \in issued : SettledBy(m)' = SettledBy(m) /\ ReadBy(m)' = ReadBy(m)
      /\ SettledBy(n)' = {} /\ ReadBy(n)' = {}
  <2>1. req[c].op \notin ReadOps /\ ~Decides(req[c])
    BY <1>1, WhoDecides DEF ReadOps, TypeOK
  <2> QED BY <1>1, <1>2, <2>1 DEF SettledBy, ReadBy
<1>4. OneOutcome'
  BY <1>1, <1>3 DEF RowInv, OneOutcome
<1>5. OutcomeDurable' /\ StampedByWinner'
  BY <1>1, <1>3 DEF RowInv, OutcomeDurable, StampedByWinner
<1>7. BulkScoped'
  BY <1>1, <1>2 DEF RowInv, BulkScoped, Owned, Inserted
<1>8. KeysIssued'
  BY <1>1 DEF RowInv, KeysIssued
<1> QED BY <1>4, <1>5, <1>7, <1>8 DEF RowInv

\* A pending row is sent, failed or cancelled by a call that has matched nothing yet.
LEMMA SettledRows ==
  ASSUME TypeOK, Shape, RowInv, NEW c \in Calls, NEW S \in SUBSET Ids, Settled(c, S)
  PROVE  RowInv'
<1>1. /\ issued' = issued /\ present' = present /\ req' = req /\ S \subseteq issued
      /\ Decides(req[c])
      /\ \A n \in issued \ S : row'[n] = row[n]
  BY DEF Settled, Matches
<1>2. /\ hit[c] = {} /\ hit'[c] = S
      /\ \A d \in Calls : d # c => hit'[d] = hit[d]
  BY DEF Settled, Matches, TypeOK
<1>a. /\ req[c].op \notin ReadOps
      /\ req[c].op \in SettleOps \cup {"persist_notification_update"}
      /\ Decision(req[c]) \in Onward(req[c])
      /\ Decision(req[c]) # "PENDING_SEND"
  BY <1>1, WhoDecides, DecisionOnward DEF TypeOK
<1>3. /\ \A n \in issued : ReadBy(n)' = ReadBy(n)
      /\ \A n \in issued \ S : SettledBy(n)' = SettledBy(n)
      /\ \A n \in S : SettledBy(n)' = SettledBy(n) \cup {c}
  BY <1>1, <1>2, <1>a DEF SettledBy, ReadBy
<1>4. \A n \in S : SettledBy(n) = {} /\ ReadBy(n) = {}
  BY <1>1 DEF RowInv, OutcomeDurable, Settled
<1>5. OneOutcome'
  BY <1>1, <1>3, <1>4 DEF RowInv, OneOutcome
<1>6. OutcomeDurable'
  <2>1. \A n \in S : row'[n].status = Decision(req[c])
    BY DEF Settled
  <2> QED BY <1>1, <1>3, <1>4, <1>a, <2>1 DEF RowInv, OutcomeDurable
<1>7. StampedByWinner'
  <2>1. ASSUME NEW n \in S PROVE row'[n].sent_at = req[c].at /\ row'[n].read_at = NULL
    <3>1. row[n].sent_at = NULL /\ row[n].read_at = NULL
      BY <1>1, <1>4 DEF RowInv, StampedByWinner
    <3>2. req[c].op # "mark_pending_as_sent" => req[c].at = NULL
      BY <1>a DEF Shape, ShapeOf, SettleOps
    <3> QED BY <3>1, <3>2 DEF Settled
  <2> QED BY <1>1, <1>3, <1>4, <2>1 DEF RowInv, StampedByWinner
<1>8. BulkScoped'
  <2>1. req[c].op # "mark_sent_as_read_bulk"
    BY <1>a DEF ReadOps
  <2> QED BY <1>1, <1>2, <2>1 DEF RowInv, BulkScoped, Owned, Settled, TypeOK
<1>9. KeysIssued'
  BY <1>1 DEF RowInv, KeysIssued
<1> QED BY <1>5, <1>6, <1>7, <1>8, <1>9 DEF RowInv

\* Rows that are SENT become READ by one call.
LEMMA MarkedReadRows ==
  ASSUME TypeOK, Shape, RowInv, NEW c \in Calls, NEW S \in SUBSET Ids, MarkedRead(c, S)
  PROVE  RowInv'
<1>1. /\ issued' = issued /\ present' = present /\ req' = req /\ S \subseteq issued
      /\ req[c].op \in ReadOps
      /\ \A n \in issued \ S : row'[n] = row[n]
  BY DEF MarkedRead, Matches
<1>2. /\ hit[c] = {} /\ hit'[c] = S
      /\ \A d \in Calls : d # c => hit'[d] = hit[d]
      /\ \A d \in Calls : hit[d] \subseteq issued
  BY DEF MarkedRead, Matches, TypeOK
<1>a. ~Decides(req[c])
  BY <1>1, WhoDecides DEF TypeOK
<1>3. /\ \A n \in issued : SettledBy(n)' = SettledBy(n)
      /\ \A n \in issued \ S : ReadBy(n)' = ReadBy(n)
      /\ \A n \in S : ReadBy(n)' = ReadBy(n) \cup {c}
  BY <1>1, <1>2, <1>a DEF SettledBy, ReadBy
<1>4. ASSUME NEW n \in S
      PROVE  /\ ReadBy(n) = {} /\ SettledBy(n) # {}
             /\ \A d \in SettledBy(n) : "READ" \in Onward(req[d])
  <2>1. row[n].status = "SENT" /\ n \in issued
    BY <1>1 DEF MarkedRead
  <2>2. ReadBy(n) = {} /\ SettledBy(n) # {}
    BY <2>1 DEF RowInv, OutcomeDurable
  <2>3. ASSUME NEW d \in SettledBy(n) PROVE "READ" \in Onward(req[d])
    <3>1. "SENT" \in Onward(req[d]) /\ d \in Calls /\ Decides(req[d])
      BY <2>1, <2>3 DEF RowInv, OutcomeDurable, SettledBy
    <3>2. req[d] \in Request
      BY <3>1 DEF TypeOK
    <3> QED BY <3>1, <3>2, DecisionOnward
  <2> QED BY <2>2, <2>3
<1>5. OneOutcome'
  BY <1>1, <1>3, <1>4 DEF RowInv, OneOutcome
<1>6. OutcomeDurable'
  <2>1. \A n \in S : row'[n].status = "READ"
    BY <1>1 DEF MarkedRead
  <2> QED BY <1>1, <1>3, <1>4, <2>1 DEF RowInv, OutcomeDurable
<1>7. StampedByWinner'
  <2>1. \A n \in S : row'[n].read_at = req[c].at /\ row'[n].sent_at = row[n].sent_at
    BY DEF MarkedRead
  <2> QED BY <1>1, <1>3, <1>4, <2>1 DEF RowInv, StampedByWinner
<1>10. BulkScoped'
  <2>1. \A d \in Calls : Owned(d)' = Owned(d)
    <3>1. \A n \in issued : row'[n].user = row[n].user
      BY <1>1 DEF MarkedRead
    <3>2. present \subseteq issued
      BY DEF TypeOK
    <3> QED BY <1>1, <3>1, <3>2 DEF Owned
  <2>2. req[c].op = "mark_sent_as_read_bulk" => S \subseteq Owned(c)
    BY DEF MarkedRead
  <2> QED BY <1>1, <1>2, <2>1, <2>2 DEF RowInv, BulkScoped
<1>11. KeysIssued'
  BY <1>1 DEF RowInv, KeysIssued
<1> QED BY <1>5, <1>6, <1>7, <1>10, <1>11 DEF RowInv

\* An update that decides nothing, or a store_* call, writes columns other than the
\* status and the timestamps.
LEMMA WroteRows ==
  ASSUME TypeOK, Shape, RowInv, NEW c \in Calls, NEW S \in SUBSET Ids, Wrote(c, S)
  PROVE  RowInv'
<1>1. /\ issued' = issued /\ present' = present /\ req' = req
      /\ ~Decides(req[c]) /\ req[c].op \notin ReadOps
      /\ \A n \in issued : /\ row'[n].status = row[n].status
                           /\ row'[n].sent_at = row[n].sent_at
                           /\ row'[n].read_at = row[n].read_at
                           /\ row'[n].user = row[n].user
  BY DEF Wrote, Matches
<1>2. /\ hit[c] = {} /\ hit'[c] = S /\ S \subseteq issued
      /\ \A d \in Calls : d # c => hit'[d] = hit[d]
      /\ \A d \in Calls : hit[d] \subseteq issued
      /\ present \subseteq issued
  BY DEF Wrote, Matches, TypeOK
<1>4. \A n \in issued : SettledBy(n)' = SettledBy(n) /\ ReadBy(n)' = ReadBy(n)
  BY <1>1, <1>2 DEF SettledBy, ReadBy
<1>5. OneOutcome'
  BY <1>1, <1>4 DEF RowInv, OneOutcome
<1>6. OutcomeDurable' /\ StampedByWinner'
  BY <1>1, <1>4 DEF RowInv, OutcomeDurable, StampedByWinner
<1>8. BulkScoped'
  <2>1. \A d \in Calls : Owned(d)' = Owned(d)
    BY <1>1, <1>2 DEF Owned
  <2> QED BY <1>1, <1>2, <2>1 DEF RowInv, BulkScoped, ReadOps
<1>9. KeysIssued'
  BY <1>1 DEF RowInv, KeysIssued
<1> QED BY <1>5, <1>6, <1>8, <1>9 DEF RowInv

\* Every step keeps the invariant of the rows.
LEMMA RowStep == TypeOK /\ Shape /\ RowInv /\ [Next]_vars => RowInv'
<1> SUFFICES ASSUME TypeOK, Shape, RowInv, [Next]_vars PROVE RowInv'
  OBVIOUS
<1>1. Effect
  BY StepEffect
<1> QED BY <1>1, QuietRows, StartedRows, InsertedRows, SettledRows, MarkedReadRows, WroteRows
        DEF Effect

\* The rows persisted before anything happened satisfy the invariant of the rows.
LEMMA InitRows == Init => RowInv
<1> SUFFICES ASSUME Init PROVE RowInv
  OBVIOUS
<1>1. /\ \A c \in Calls : hit[c] = {} /\ req[c] = Blank
      /\ \A n \in issued : /\ row[n].status = "PENDING_SEND"
                           /\ row[n].sent_at = NULL /\ row[n].read_at = NULL
  BY DEF Init, issued, Fresh
<1>2. \A n \in issued : SettledBy(n) = {} /\ ReadBy(n) = {}
  BY <1>1 DEF SettledBy, ReadBy
<1> QED
  BY <1>1, <1>2 DEF RowInv, OneOutcome, OutcomeDurable, StampedByWinner, BulkScoped,
     KeysIssued, Blank
-----------------------------------------------------------------------------
(* Answers *)

\* The three properties of what one call reports.
AnswerOK(c) ==
  /\ answer[c].result = "refused" /\ req[c].op # "mark_sent_as_read" =>
       \A n \in req[c].ids \cap present :
         row[n].status # "PENDING_SEND" /\ c \notin SettledBy(n)
  /\ \A x \in answer[c].seen : x[2] \in Onward(req[c])
  /\ req[c].op = "mark_sent_as_read_bulk" /\ answer[c].result = "ok" =>
       \A n \in hit[c] \cap present : <<n, "READ">> \in answer[c].seen

AnswerInv == \A c \in Calls : AnswerOK(c)

\* What a call reported concerns arguments and matches that no longer change, rows
\* that stay decided, and rows that do not come back.
LEMMA Frame ==
  ASSUME TypeOK, Shape, Effect
  PROVE  /\ \A c \in Calls : answer[c] # NoAnswer => req'[c] = req[c] /\ hit'[c] = hit[c]
         /\ \A n \in issued :
              /\ n \in present' => n \in present
              /\ row[n].status # "PENDING_SEND" => row'[n].status # "PENDING_SEND"
<1>a. /\ \A c \in Calls : answer[c] # NoAnswer => pc[c] = "done"
      /\ present \subseteq issued
  BY DEF Shape, ShapeOf, TypeOK
<1>1. CASE Quiet
  BY <1>1 DEF Quiet
<1>2. ASSUME NEW c \in Calls, Started(c)
      PROVE  /\ row' = row /\ present' = present /\ hit' = hit
             /\ \A d \in Calls : pc[d] = "done" => req'[d] = req[d]
  BY <1>2 DEF Started, TypeOK
<1>3. ASSUME NEW c \in Calls, NEW n \in Ids, Inserted(c, n)
      PROVE  /\ req' = req /\ \A m \in issued : row'[m] = row[m] /\ m # n
             /\ \A d \in Calls : pc[d] = "done" => hit'[d] = hit[d]
             /\ present' = present \cup {n}
  BY <1>3 DEF Inserted, TypeOK
<1>4. ASSUME NEW c \in Calls, NEW S \in SUBSET Ids,
             Settled(c, S) \/ MarkedRead(c, S) \/ Wrote(c, S)
      PROVE  /\ req' = req /\ present' = present
             /\ \A d \in Calls : pc[d] = "done" => hit'[d] = hit[d]
             /\ \A n \in issued :
                  row[n].status # "PENDING_SEND" => row'[n].status # "PENDING_SEND"
  <2>1. Matches(c, S) /\ present' = present
    BY <1>4 DEF Settled, MarkedRead, Wrote
  <2>2. req' = req /\ \A d \in Calls : pc[d] = "done" => hit'[d] = hit[d]
    BY <2>1 DEF Matches, TypeOK
  <2>3. ASSUME NEW n \in issued, row[n].status # "PENDING_SEND"
        PROVE  row'[n].status # "PENDING_SEND"
    <3>1. CASE Settled(c, S)
      BY <2>3, <3>1 DEF Settled
    <3>2. CASE MarkedRead(c, S)
      BY <2>3, <3>2 DEF MarkedRead
    <3>3. CASE Wrote(c, S)
      BY <2>3, <3>3 DEF Wrote
    <3> QED BY <1>4, <3>1, <3>2, <3>3
  <2> QED BY <2>1, <2>2, <2>3
<1>5. CASE \E c \in Calls : Started(c)
  BY <1>5, <1>2, <1>a
<1>6. CASE \E c \in Calls, n \in Ids : Inserted(c, n)
  <2>1. PICK c \in Calls, n \in Ids : Inserted(c, n)
    BY <1>6
  <2> QED BY <2>1, <1>3, <1>a
<1>7. CASE \E c \in Calls, S \in SUBSET Ids :
             Settled(c, S) \/ MarkedRead(c, S) \/ Wrote(c, S)
  <2>1. PICK c \in Calls, S \in SUBSET Ids :
          Settled(c, S) \/ MarkedRead(c, S) \/ Wrote(c, S)
    BY <1>7
  <2> QED BY <2>1, <1>4, <1>a
<1> QED BY <1>1, <1>5, <1>6, <1>7 DEF Effect

\* An answer that was right stays right.
LEMMA AnswerKept ==
  ASSUME TypeOK, Shape, KeysIssued, Effect,
         NEW c \in Calls, AnswerOK(c), answer'[c] = answer[c]
  PROVE  AnswerOK(c)'
<1>1. CASE answer[c] = NoAnswer
  <2>1. NULL \notin {"refused", "ok"}
    BY NullIsNoString DEF Results
  <2> QED BY <1>1, <2>1 DEF AnswerOK, NoAnswer
<1>2. CASE answer[c] # NoAnswer
  <2>1. req'[c] = req[c] /\ hit'[c] = hit[c]
    BY <1>2, Frame
  <2>2. req[c].ids \subseteq issued /\ hit[c] \subseteq issued
    BY DEF TypeOK, KeysIssued
  <2>3. ASSUME answer[c].result = "refused", req[c].op # "mark_sent_as_read",
               NEW n \in req[c].ids \cap present'
        PROVE  row'[n].status # "PENDING_SEND" /\ c \notin SettledBy(n)'
    <3>1. hit[c] = {}
      BY <2>3 DEF Shape, ShapeOf
    <3>2. n \in issued /\ n \in present
      BY <2>2, <2>3, Frame
    <3>3. row[n].status # "PENDING_SEND"
      BY <2>3, <3>2 DEF AnswerOK
    <3> QED BY <2>1, <3>1, <3>2, <3>3, Frame DEF SettledBy
  <2>4. \A n \in hit'[c] \cap present' : n \in hit[c] \cap present
    BY <2>1, <2>2, Frame
  <2> QED BY <2>1, <2>3, <2>4 DEF AnswerOK
<1> QED BY <1>1, <1>2

\* A call that raises, or returns nothing, while it is not refused.
LEMMA PlainReturn ==
  ASSUME TypeOK, NEW c \in Calls, NEW result, Return(c, result, {}), result # "refused",
         result = "ok" => req'[c].op # "mark_sent_as_read_bulk"
  PROVE  AnswerOK(c)'
<1>1. answer'[c].result = result /\ answer'[c].seen = {}
  BY DEF Return, TypeOK
<1> QED BY <1>1 DEF AnswerOK

\* A refused statement matched no row and changed none.
LEMMA RefusedReturn ==
  ASSUME TypeOK, NEW c \in Calls, Return(c, "refused", {}), UNCHANGED <<req, present>>,
         hit' = [hit EXCEPT ![c] = {}], \A n \in issued : row'[n] = row[n],
         req[c].op # "mark_sent_as_read" => Where(c, "PENDING_SEND") = {}
  PROVE  AnswerOK(c)'
<1>1. answer'[c].result = "refused" /\ answer'[c].seen = {} /\ hit'[c] = {}
  BY DEF Return, TypeOK
<1>2. \A n \in req[c].ids \cap present : c \notin SettledBy(n)'
  BY <1>1 DEF SettledBy
<1>3. ASSUME req[c].op # "mark_sent_as_read", NEW n \in req[c].ids \cap present
      PROVE  row'[n].status # "PENDING_SEND"
  BY <1>3 DEF Where, TypeOK
<1> QED BY <1>1, <1>2, <1>3 DEF AnswerOK

\* A mark or an update: it goes on, with no answer yet, or is refused.
LEMMA MatchedAnswer ==
  ASSUME TypeOK, Shape, NEW c \in Calls, NEW s, NEW next, pc[c] # "done",
         Matched(c, Where(c, s), next), UNCHANGED <<req, present>>,
         req[c].op # "mark_sent_as_read" => s = "PENDING_SEND",
         Where(c, s) = {} => \A n \in issued : row'[n] = row[n]
  PROVE  AnswerOK(c)'
<1>1. CASE Where(c, s) = {}
  BY <1>1, RefusedReturn DEF Matched
<1>2. CASE Where(c, s) # {}
  <2>1. answer'[c] = NoAnswer
    BY <1>2 DEF Matched, Goto, Shape, ShapeOf
  <2> QED BY <2>1, NullIsNoString DEF AnswerOK, NoAnswer, Results
<1> QED BY <1>1, <1>2

\* Every step keeps the answers given so far true, and gives a true one.
LEMMA AnswerStep == TypeOK /\ Shape /\ RowInv /\ AnswerInv /\ [Next]_vars => AnswerInv'
<1> SUFFICES ASSUME TypeOK, Shape, RowInv, AnswerInv, [Next]_vars PROVE AnswerInv'
  OBVIOUS
<1>a. Effect /\ KeysIssued
  BY StepEffect DEF RowInv
<1>b. \A d \in Calls : answer'[d] = answer[d] => AnswerOK(d)'
  BY <1>a, AnswerKept DEF AnswerInv
<1>c. ASSUME NEW c \in Calls, AnswerOK(c)', \A d \in Calls \ {c} : answer'[d] = answer[d]
      PROVE  AnswerInv'
  BY <1>b, <1>c DEF AnswerInv
<1>d. ASSUME NEW c \in Calls, NEW result, NEW seen, NEW next, NEW S,
             Return(c, result, seen) \/ Goto(c, next) \/ Matched(c, S, next)
      PROVE  \A d \in Calls \ {c} : answer'[d] = answer[d]
  BY <1>d DEF Return, Goto, Matched, TypeOK
<1>e. \A c \in Calls : pc[c] = "write" => pc[c] # "done"
  OBVIOUS
<1>1. ASSUME NEW c \in Calls, Begin(c) PROVE AnswerInv'
  BY <1>1, <1>b DEF Begin, AnswerInv
<1>2. ASSUME NEW c \in Calls, PersistNotification(c) PROVE AnswerInv'
  <2>1. CASE Return(c, "integrity_error", {})
    BY <2>1, <1>c, <1>d, PlainReturn
  <2>2. CASE UNCHANGED answer
    BY <2>2, <1>b DEF AnswerInv
  <2> QED BY <1>2, <2>1, <2>2 DEF PersistNotification, Goto
<1>3. ASSUME NEW c \in Calls, PersistNotificationUpdate(c) PROVE AnswerInv'
  <2>1. \A n \in issued : Where(c, "PENDING_SEND") = {} => row'[n] = row[n]
    BY <1>3 DEF PersistNotificationUpdate, UpdateMatches
  <2> DEFINE next == IF req[c].attachments THEN "attach" ELSE "fetch"
  <2>2. Matched(c, Where(c, "PENDING_SEND"), next) /\ UNCHANGED <<req, present>>
    BY <1>3 DEF PersistNotificationUpdate, UpdateMatches
  <2> HIDE DEF next
  <2>3. AnswerOK(c)'
    BY <1>3, <2>1, <2>2, MatchedAnswer DEF PersistNotificationUpdate, Runs
  <2> QED BY <2>2, <2>3, <1>c, <1>d
<1>4. ASSUME NEW c \in Calls, Attach(c) PROVE AnswerInv'
  <2>1. CASE Return(c, "attachment_error", {})
    BY <2>1, <1>c, <1>d, PlainReturn
  <2>2. CASE UNCHANGED answer
    BY <2>2, <1>b DEF AnswerInv
  <2> QED BY <1>4, <2>1, <2>2 DEF Attach, Goto
<1>5. ASSUME NEW c \in Calls, MarkPendingAsSent(c) PROVE AnswerInv'
  <2>1. \A n \in issued : Where(c, "PENDING_SEND") = {} => row'[n] = row[n]
    BY <1>5 DEF MarkPendingAsSent
  <2>2. Matched(c, Where(c, "PENDING_SEND"), "fetch") /\ UNCHANGED <<req, present>>
    BY <1>5 DEF MarkPendingAsSent
  <2>3. AnswerOK(c)'
    BY <1>5, <2>1, <2>2, MatchedAnswer DEF MarkPendingAsSent, Runs
  <2> QED BY <2>2, <2>3, <1>c, <1>d
<1>6. ASSUME NEW c \in Calls, MarkPendingAsFailed(c) PROVE AnswerInv'
  <2>1. \A n \in issued : Where(c, "PENDING_SEND") = {} => row'[n] = row[n]
    BY <1>6 DEF MarkPendingAsFailed
  <2>2. Matched(c, Where(c, "PENDING_SEND"), "fetch") /\ UNCHANGED <<req, present>>
    BY <1>6 DEF MarkPendingAsFailed
  <2>3. AnswerOK(c)'
    BY <1>6, <2>1, <2>2, MatchedAnswer DEF MarkPendingAsFailed, Runs
  <2> QED BY <2>2, <2>3, <1>c, <1>d
<1>7. ASSUME NEW c \in Calls, MarkSentAsRead(c) PROVE AnswerInv'
  <2>1. \A n \in issued : Where(c, "SENT") = {} => row'[n] = row[n]
    BY <1>7 DEF MarkSentAsRead
  <2>2. Matched(c, Where(c, "SENT"), "fetch") /\ UNCHANGED <<req, present>>
    BY <1>7 DEF MarkSentAsRead
  <2>3. AnswerOK(c)'
    BY <1>7, <2>1, <2>2, MatchedAnswer DEF MarkSentAsRead, Runs
  <2> QED BY <2>2, <2>3, <1>c, <1>d
<1>8. ASSUME NEW c \in Calls, CancelNotification(c) PROVE AnswerInv'
  <2> DEFINE S == Where(c, "PENDING_SEND")
  <2>1. /\ Return(c, IF S = {} THEN "refused" ELSE "ok", {})
        /\ hit' = [hit EXCEPT ![c] = S] /\ UNCHANGED <<req, present>>
        /\ \A n \in issued : S = {} => row'[n] = row[n]
        /\ req[c].op = "cancel_notification"
    BY <1>8 DEF CancelNotification, Runs
  <2>2. CASE S = {}
    BY <2>1, <2>2, <1>c, <1>d, RefusedReturn
  <2>3. CASE S # {}
    BY <2>1, <2>3, <1>c, <1>d, PlainReturn
  <2> QED BY <2>2, <2>3
<1>9. ASSUME NEW c \in Calls, MarkSentAsReadBulk(c) PROVE AnswerInv'
  BY <1>9, <1>b DEF MarkSentAsReadBulk, Goto, AnswerInv
<1>10. ASSUME NEW c \in Calls, Store(c) PROVE AnswerInv'
  <2>1. Return(c, "ok", {}) /\ req'[c].op # "mark_sent_as_read_bulk"
    BY <1>10 DEF Store, Runs, StoreOps
  <2> QED BY <2>1, <1>c, <1>d, PlainReturn
<1>11. ASSUME NEW c \in Calls, Fetch(c) PROVE AnswerInv'
  <2>1. /\ req' = req /\ hit' = hit /\ row' = row
        /\ req[c].op # "mark_sent_as_read_bulk"
    BY <1>11 DEF Fetch, Shape, ShapeOf
  <2>2. PICK n \in hit[c] : \/ Return(c, "ok", {<<n, Shown(c, n)>>})
                            \/ Return(c, "attachment_error", {})
                            \/ Return(c, "not_found", {})
    BY <1>11 DEF Fetch
  <2>3. CASE Return(c, "ok", {<<n, Shown(c, n)>>})
    <3>1. answer'[c].result = "ok" /\ answer'[c].seen = {<<n, Shown(c, n)>>}
      BY <2>3 DEF Return, TypeOK
    <3>2. n \in issued /\ row[n] \in Row
      BY <2>2 DEF TypeOK
    <3>a. req[c] \in Request
      BY DEF TypeOK
    <3>3. Shown(c, n) \in Onward(req[c])
      <4>1. CASE Decides(req[c])
        <5>1. c \in SettledBy(n) /\ req[c].op # "persist_notification"
          BY <2>2, <4>1, <3>a, WhoDecides DEF SettledBy
        <5> QED BY <3>2, <5>1 DEF Shown, RowInv, OutcomeDurable
      <4>2. CASE req[c].op \in ReadOps
        <5>1. row[n].status = "READ"
          BY <3>2, <4>2, <2>2 DEF RowInv, OutcomeDurable, ReadBy
        <5>2. Onward(req[c]) = {"READ"} /\ req[c].op # "persist_notification"
          BY <3>a, <4>2, DecisionOnward DEF ReadOps
        <5> QED BY <5>1, <5>2 DEF Shown
      <4>3. CASE ~Decides(req[c]) /\ req[c].op \notin ReadOps
        <5>1. Onward(req[c]) = Statuses
          BY <3>a, <4>3, DecisionOnward
        <5> QED BY <3>2, <5>1 DEF Shown, Row, Statuses
      <4> QED BY <4>1, <4>2, <4>3
    <3>4. AnswerOK(c)'
      BY <2>1, <3>1, <3>3 DEF AnswerOK
    <3> QED BY <2>3, <3>4, <1>c, <1>d
  <2>4. CASE Return(c, "attachment_error", {}) \/ Return(c, "not_found", {})
    BY <2>4, <1>c, <1>d, PlainReturn
  <2> QED BY <2>2, <2>3, <2>4
<1>12. ASSUME NEW c \in Calls, ListRead(c) PROVE AnswerInv'
  <2>1. /\ req' = req /\ hit' = hit /\ row' = row /\ present' = present
        /\ req[c].op = "mark_sent_as_read_bulk"
    BY <1>12 DEF ListRead, Shape, ShapeOf
  <2>2. CASE Return(c, "ok", Listed(c) \X {"READ"})
    <3>1. answer'[c].result = "ok" /\ answer'[c].seen = Listed(c) \X {"READ"}
      BY <2>2 DEF Return, TypeOK
    <3>2. hit[c] \cap present \subseteq Listed(c)
      <4>1. ASSUME NEW n \in hit[c] \cap present PROVE n \in Listed(c)
        <5>1. n \in Owned(c)
          BY <2>1 DEF RowInv, BulkScoped
        <5>2. n \in issued /\ c \in ReadBy(n)
          BY <2>1 DEF ReadBy, ReadOps, TypeOK
        <5>3. row[n].status = "READ"
          BY <5>2 DEF RowInv, OutcomeDurable
        <5> QED BY <5>1, <5>3 DEF Listed, Where, Owned
      <4> QED BY <4>1
    <3>a. Onward(req[c]) = {"READ"}
      BY <2>1, DecisionOnward DEF ReadOps, TypeOK
    <3>3. AnswerOK(c)'
      BY <2>1, <3>1, <3>2, <3>a DEF AnswerOK
    <3> QED BY <2>2, <3>3, <1>c, <1>d
  <2>3. CASE Return(c, "user_not_found", {}) \/ Return(c, "attachment_error", {})
    BY <2>3, <1>c, <1>d, PlainReturn
  <2> QED BY <1>12, <2>2, <2>3 DEF ListRead
<1>13. ASSUME NEW u \in Users, DeleteUser(u) PROVE AnswerInv'
  BY <1>13, <1>b DEF DeleteUser, AnswerInv
<1>14. CASE Tick
  BY <1>14, <1>b DEF Tick, AnswerInv
<1>15. CASE UNCHANGED vars
  BY <1>15, <1>b DEF vars, AnswerInv
<1> QED
  BY <1>1, <1>2, <1>3, <1>4, <1>5, <1>6, <1>7, <1>8, <1>9, <1>10, <1>11, <1>12, <1>13,
     <1>14, <1>15 DEF Next, Proceed
-----------------------------------------------------------------------------
(* The invariant *)

\* The inductive invariant: where a call stands, which calls won which rows, and
\* what the calls that returned reported.
Inv == TypeOK /\ Shape /\ RowInv /\ AnswerInv

\* The inductive invariant holds initially.
LEMMA InitInv == Init => Inv
<1> SUFFICES ASSUME Init PROVE Inv
  OBVIOUS
<1>1. TypeOK /\ Shape /\ RowInv
  BY InitTypeOK, InitShape, InitRows
<1>2. AnswerInv
  BY NullIsNoString DEF Init, AnswerInv, AnswerOK, Results
<1> QED BY <1>1, <1>2 DEF Inv

\* The inductive invariant is preserved by every step.
LEMMA InvStep == Inv /\ [Next]_vars => Inv'
BY TypeStep, ShapeStep, RowStep, AnswerStep DEF Inv

\* The inductive invariant holds in every reachable state: every guarantee below
\* about marks, cancels, updates and bulk reads follows from it.
THEOREM Invariance == Spec => []Inv
<1> QED BY InitInv, InvStep, PTL DEF Spec

\* Whatever the number of workers, at most one of the calls racing to send, fail or
\* cancel a notification decides it, and at most one marks it read.
THEOREM OneOutcomeTheorem == Spec => []OneOutcome
<1>1. Inv => OneOutcome
  BY DEF Inv, RowInv
<1> QED BY <1>1, Invariance, PTL

\* The outcome the winning call brought about is never undone.
THEOREM OutcomeDurableTheorem == Spec => []OutcomeDurable
<1>1. Inv => OutcomeDurable
  BY DEF Inv, RowInv
<1> QED BY <1>1, Invariance, PTL

\* sent_at and read_at are those of the calls that won the row, and NULL when none
\* of them stamped it.
THEOREM StampedByWinnerTheorem == Spec => []StampedByWinner
<1>1. Inv => StampedByWinner
  BY DEF Inv, RowInv
<1> QED BY <1>1, Invariance, PTL

\* A call is refused only when another one decided, or the row is gone; what a call
\* returns never contradicts it; a bulk read returns all it marked.
THEOREM AnswersTheorem ==
  Spec => [](RefusedMeansDecided /\ ReportedStatus /\ BulkReturnsWhatItMarked)
<1>1. Inv => RefusedMeansDecided /\ ReportedStatus /\ BulkReturnsWhatItMarked
  BY DEF Inv, AnswerInv, AnswerOK, RefusedMeansDecided, ReportedStatus,
         BulkReturnsWhatItMarked
<1> QED BY <1>1, Invariance, PTL

\* In particular, an object that a handler re-read after its UPDATE never contradicts
\* what the call reports.
THEOREM ReportedStatusTheorem == Spec => []ReportedStatus
BY AnswersTheorem, PTL

\* And the lazy result of a bulk read, consumed at any later time, lacks none of the
\* rows that very call moved to READ.
THEOREM BulkReturnsTheorem == Spec => []BulkReturnsWhatItMarked
BY AnswersTheorem, PTL

-----------------------------------------------------------------------------
(* What no step may do *)

\* What SettledImmutable says of one row.
Frozen(n) ==
  /\ n \in issued'
  /\ row'[n].content = row[n].content
  /\ row'[n].send_after = row[n].send_after
  /\ row'[n].user = row[n].user
  /\ row'[n].sent_at = row[n].sent_at
  /\ \/ row'[n].status = row[n].status
     \/ row[n].status = "SENT" /\ row'[n].status = "READ"
  /\ row[n].read_at # NULL => row'[n].read_at = row[n].read_at

\* A step changes no decided row, other than from SENT to READ.
LEMMA FrozenStep ==
  ASSUME TypeOK, RowInv, Effect, NEW n \in issued, row[n].status # "PENDING_SEND"
  PROVE  Frozen(n)
<1>1. CASE Quiet
  BY <1>1 DEF Quiet, Frozen, issued
<1>2. CASE \E c \in Calls : Started(c)
  BY <1>2 DEF Started, Frozen, issued
<1>3. CASE \E c \in Calls, m \in Ids : Inserted(c, m)
  BY <1>3 DEF Inserted, Frozen
<1>4. ASSUME NEW c \in Calls, NEW S \in SUBSET Ids, Settled(c, S) PROVE Frozen(n)
  BY <1>4 DEF Settled, Frozen
<1>5. ASSUME NEW c \in Calls, NEW S \in SUBSET Ids, MarkedRead(c, S) PROVE Frozen(n)
  <2>1. row[n].read_at # NULL => row[n].status = "READ"
    BY DEF RowInv, StampedByWinner, OutcomeDurable
  <2>2. row[n].read_at # NULL => n \notin S
    BY <1>5, <2>1 DEF MarkedRead
  <2> QED BY <1>5, <2>2 DEF MarkedRead, Frozen
<1>6. ASSUME NEW c \in Calls, NEW S \in SUBSET Ids, Wrote(c, S) PROVE Frozen(n)
  BY <1>6 DEF Wrote, Frozen
<1> QED BY <1>1, <1>2, <1>3, <1>4, <1>5, <1>6 DEF Effect

\* Content, schedule, owner and send time of a decided notification never change,
\* nor anything of a READ one.
THEOREM SettledImmutableTheorem == Spec => SettledImmutable
<1>1. Inv /\ [Next]_vars =>
        [\A n \in issued : row[n].status # "PENDING_SEND" => Frozen(n)]_vars
  BY StepEffect, FrozenStep DEF Inv
<1> QED BY <1>1, Invariance, PTL DEF Spec, SettledImmutable, Frozen

-----------------------------------------------------------------------------
(* Refinement *)

\* Initial states of the table are initial states of the life cycle.
LEMMA LifeInit == Init => Life!Init
<1> SUFFICES ASSUME Init PROVE Life!Init
  OBVIOUS
<1>1. /\ issued = present
      /\ \A n \in issued : row[n].status = "PENDING_SEND"
      /\ \A c \in Calls : hit[c] = {}
  BY DEF Init, issued, Fresh
<1>2. \A n \in Ids : SettledBy(n) = {} /\ ReadBy(n) = {}
  BY <1>1 DEF SettledBy, ReadBy
<1> QED BY <1>1, <1>2 DEF Life!Init, LifeState

\* Every statement is a step of the life cycle or leaves it alone.
LEMMA LifeStep == Inv /\ [Next]_vars => [Life!Next]_Life!vars
<1> SUFFICES ASSUME Inv, [Next]_vars PROVE Life!Next \/ UNCHANGED Life!vars
  OBVIOUS
<1>a. TypeOK /\ Shape /\ RowInv /\ Effect
  BY StepEffect DEF Inv
<1>b. /\ issued \subseteq Ids /\ present \subseteq issued
      /\ \A c \in Calls : hit[c] \subseteq issued
  BY <1>a DEF TypeOK
<1>c. ASSUME \A n \in Ids : /\ LifeState(n)' = LifeState(n)
                            /\ SettledBy(n)' = SettledBy(n)
                            /\ ReadBy(n)' = ReadBy(n)
      PROVE  UNCHANGED Life!vars
  BY <1>c DEF Life!vars
<1>d. \A n \in Ids : n \notin issued => SettledBy(n) = {} /\ ReadBy(n) = {}
  BY <1>b DEF SettledBy, ReadBy
<1>1. CASE Quiet
  <2>1. /\ \A n \in Ids : SettledBy(n)' = SettledBy(n) /\ ReadBy(n)' = ReadBy(n)
        /\ issued' = issued /\ row' = row /\ present' \subseteq present
    BY <1>1 DEF Quiet, SettledBy, ReadBy, issued
  <2> DEFINE D == present \ present'
  <2>2. CASE D = {}
    <3>1. present' = present
      BY <2>1, <2>2
    <3> QED BY <1>c, <2>1, <3>1 DEF LifeState
  <2>3. CASE D # {}
    <3>1. \A n \in D : LifeState(n) \notin {"NONE", "DELETED"}
      BY <1>a, <1>b DEF LifeState, TypeOK, Row, Statuses
    <3>2. \A n \in Ids : LifeState(n)' = IF n \in D THEN "DELETED" ELSE LifeState(n)
      BY <1>b, <2>1 DEF LifeState
    <3>3. D \in SUBSET Ids
      BY <1>b
    <3> HIDE DEF D
    <3>4. Life!Delete(D)
      BY <2>1, <2>3, <3>1, <3>2, <3>3 DEF Life!Delete
    <3> QED BY <3>3, <3>4 DEF Life!Next
  <2> QED BY <2>2, <2>3
<1>2. ASSUME NEW c \in Calls, Started(c) PROVE UNCHANGED Life!vars
  <2>1. issued' = issued /\ row' = row /\ hit' = hit /\ present' = present /\ hit[c] = {}
    BY <1>2 DEF Started, issued
  <2>2. \A d \in Calls : d # c => req'[d] = req[d]
    BY <1>a, <1>2 DEF Started, TypeOK
  <2>3. \A n \in Ids : SettledBy(n)' = SettledBy(n) /\ ReadBy(n)' = ReadBy(n)
    BY <2>1, <2>2 DEF SettledBy, ReadBy
  <2> QED BY <1>c, <2>1, <2>3 DEF LifeState
<1>3. ASSUME NEW c \in Calls, NEW n \in Ids, Inserted(c, n) PROVE Life!Next
  <2>1. \A m \in Ids : SettledBy(m)' = SettledBy(m) /\ ReadBy(m)' = ReadBy(m)
    <3>1. req[c].op \notin ReadOps /\ ~Decides(req[c])
      BY <1>3, <1>a, WhoDecides DEF Inserted, ReadOps, TypeOK
    <3> QED BY <1>3, <1>a, <3>1 DEF Inserted, SettledBy, ReadBy, TypeOK
  <2>2. LifeState(n) = "NONE" /\ LifeState(n)' = "PENDING_SEND"
    BY <1>3, <1>b DEF Inserted, LifeState
  <2>3. \A m \in Ids : m # n => LifeState(m)' = LifeState(m)
    BY <1>3, <1>b DEF Inserted, LifeState
  <2>4. Life!Create(n)
    BY <2>1, <2>2, <2>3 DEF Life!Create
  <2> QED BY <2>4 DEF Life!Next
<1>4. ASSUME NEW c \in Calls, NEW S \in SUBSET Ids, Settled(c, S)
      PROVE  Life!Next \/ UNCHANGED Life!vars
  <2>1. /\ issued' = issued /\ present' = present /\ req' = req
        /\ hit[c] = {} /\ hit'[c] = S /\ \A d \in Calls : d # c => hit'[d] = hit[d]
        /\ Decides(req[c]) /\ req[c] \in Request
    BY <1>4, <1>a DEF Settled, Matches, TypeOK
  <2>a. Decision(req[c]) \in Life!Outcomes /\ req[c].op \notin ReadOps
    BY <2>1, WhoDecides DEF Life!Outcomes
  <2>2. \A n \in Ids : ReadBy(n)' = ReadBy(n) /\ c \notin SettledBy(n) \cup ReadBy(n)
    BY <2>1, <2>a DEF ReadBy, SettledBy
  <2>3. CASE S = {}
    <3>1. \A n \in Ids : SettledBy(n)' = SettledBy(n)
      BY <2>1, <2>3 DEF SettledBy
    <3>2. \A n \in Ids : LifeState(n)' = LifeState(n)
      BY <1>4, <2>1, <2>3 DEF Settled, LifeState
    <3> QED BY <1>c, <2>2, <3>1, <3>2
  <2>4. CASE S # {}
    <3>1. PICK n \in S : S = {n}
      BY <1>4, <1>a, <2>1, <2>4 DEF Settled, Shape, ShapeOf
    <3>2. n \in Ids /\ n \in present /\ row[n].status = "PENDING_SEND"
      BY <1>4, <3>1 DEF Settled
    <3>3. SettledBy(n) = {} /\ LifeState(n) = "PENDING_SEND"
      BY <1>a, <1>b, <3>2 DEF RowInv, OutcomeDurable, LifeState
    <3>4. SettledBy(n)' = {c} /\ \A m \in Ids : m # n => SettledBy(m)' = SettledBy(m)
      BY <2>1, <3>1, <3>3 DEF SettledBy
    <3>5. /\ LifeState(n)' = row'[n].status
          /\ row'[n].status \in Life!Outcomes
          /\ \A m \in Ids : m # n => LifeState(m)' = LifeState(m)
      BY <1>4, <1>b, <2>1, <2>a, <3>1, <3>2 DEF Settled, LifeState
    <3>6. PICK s \in Life!Outcomes : s = row'[n].status
      BY <3>5
    <3>7. Life!Settle(c, n)
      BY <2>2, <3>2, <3>3, <3>4, <3>5, <3>6 DEF Life!Settle, Life!Idle
    <3> QED BY <3>2, <3>7 DEF Life!Next
  <2> QED BY <2>3, <2>4
<1>5. ASSUME NEW c \in Calls, NEW S \in SUBSET Ids, MarkedRead(c, S)
      PROVE  Life!Next \/ UNCHANGED Life!vars
  <2>1. /\ issued' = issued /\ present' = present /\ req' = req
        /\ hit[c] = {} /\ hit'[c] = S /\ \A d \in Calls : d # c => hit'[d] = hit[d]
        /\ req[c].op \in ReadOps
        /\ S \subseteq present /\ S \subseteq issued
        /\ \A n \in issued \ S : row'[n] = row[n]
        /\ \A n \in S : row[n].status = "SENT" /\ row'[n].status = "READ"
    BY <1>5, <1>a DEF MarkedRead, Matches, TypeOK
  <2>2. \A n \in Ids : SettledBy(n)' = SettledBy(n) /\ c \notin SettledBy(n) \cup ReadBy(n)
    <3>1. ~Decides(req[c])
      BY <2>1, <1>a, WhoDecides DEF TypeOK
    <3> QED BY <2>1, <3>1 DEF ReadBy, SettledBy
  <2>3. \A n \in S : ReadBy(n) = {} /\ LifeState(n) = "SENT"
    BY <1>a, <2>1 DEF RowInv, OutcomeDurable, LifeState
  <2>4. \A n \in Ids : ReadBy(n)' = IF n \in S THEN {c} ELSE ReadBy(n)
    BY <2>1, <2>3 DEF ReadBy
  <2>5. \A n \in Ids : LifeState(n)' = IF n \in S THEN "READ" ELSE LifeState(n)
    BY <2>1 DEF LifeState
  <2>6. CASE S = {}
    BY <1>c, <2>2, <2>4, <2>5, <2>6
  <2>7. CASE S # {}
    <3>1. Life!Read(c, S)
      BY <2>2, <2>3, <2>4, <2>5, <2>7 DEF Life!Read, Life!Idle
    <3> QED BY <3>1 DEF Life!Next
  <2> QED BY <2>6, <2>7
<1>6. ASSUME NEW c \in Calls, NEW S \in SUBSET Ids, Wrote(c, S)
      PROVE  UNCHANGED Life!vars
  <2>1. /\ issued' = issued /\ present' = present /\ req' = req
        /\ \A d \in Calls : d # c => hit'[d] = hit[d]
        /\ ~Decides(req[c]) /\ req[c].op \notin ReadOps
        /\ \A n \in issued : row'[n].status = row[n].status
    BY <1>6, <1>a DEF Wrote, Matches, TypeOK
  <2>2. \A n \in Ids : SettledBy(n)' = SettledBy(n) /\ ReadBy(n)' = ReadBy(n)
    BY <2>1 DEF SettledBy, ReadBy
  <2> QED BY <1>c, <2>1, <2>2 DEF LifeState
<1> QED BY <1>a, <1>1, <1>2, <1>3, <1>4, <1>5, <1>6 DEF Effect

\* The statements, however interleaved, implement the life cycle callers rely on.
THEOREM Refinement == Spec => ImplementsLifecycle
BY LifeInit, LifeStep, Invariance, PTL DEF Spec, ImplementsLifecycle, Life!Spec
==============================================================================
