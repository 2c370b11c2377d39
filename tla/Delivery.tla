-------------------------------- MODULE Delivery --------------------------------
(***************************************************************************)
(* From a persisted notification to an email.  Callers persist pending      *)
(* notifications and then, statement by statement, their attachments;       *)
(* senders (loops of the vintasend service, outside the repository) list    *)
(* the pending ones with their attachments, send each through the email     *)
(* adapter and mark it.  Nothing locks a notification: senders overlap,     *)
(* stop half-way, and race with cancels, updates and attachments being      *)
(* deleted.  Only senders mark, and updates name no status, although the    *)
(* backend would let any caller do either (NotificationStore has both).     *)
(***************************************************************************)
EXTENDS Integers, FiniteSets, Sequences, Functions

CONSTANTS
  Notes, Files, Senders,
  Wanted,     \* Wanted[n]: the attachments n is persisted with
  Late,       \* a stored file that updates attach
  UserNotes,  \* notifications to a user; the others are one-off
  Preheaders, \* notifications that have a preheader template
  Worlds,     \* what a deployment may look like; see World
  NULL,
  MaxStops    \* bound on the senders and persisting callers that stop half-way

\* The notifications callers persist, the senders that run, the files whose record
\* carries no storage name, and the templates that cannot be rendered.
World == [notes: SUBSET Notes, senders: SUBSET Senders, broken: SUBSET Files,
          bad: SUBSET (Notes \X {"subject", "preheader", "body"})]

ASSUME FilesAssumption ==
  /\ Wanted \in [Notes -> SUBSET Files]
  /\ Late \in Files
  /\ \A n \in Notes : Late \notin Wanted[n]
ASSUME WorldsAssumption  == Worlds \subseteq World
ASSUME NullAssumption    == NULL \notin Notes
ASSUME SendersAssumption == IsFiniteSet(Senders)
ASSUME StopsAssumption   == MaxStops \in Nat

VARIABLES
  world,      \* the one of Worlds this is; it never changes
  status,     \* status[n]; "none" before it is persisted
  stage,      \* stage[n]: how far persisting its attachments has come
  update,     \* update[n]: the step of an update that attaches Late
  linked,     \* linked[n]: the files of its join rows
  detached,   \* detached[n]: those of the join rows that were deleted (history)
  inactive,   \* notifications whose user was deactivated
  pc,         \* pc[s]: the step of sender s
  queue,      \* queue[s]: the rows its query returned and it has not serialized
  view,       \* view[s]: the serialized notifications it still has to send
  cur,        \* cur[s]: the one it is sending
  tried, attached, failed,  \* its attachments so far: come to, attached, not readable
  outbox,     \* outbox[n]: the emails that went out for n
  stops       \* how many stopped

rows   == <<world, status, stage, update, linked, detached, inactive>>
sender == <<pc, queue, view, cur, tried, attached, failed>>
vars   == <<rows, sender, outbox, stops>>

Decided == {"SENT", "FAILED", "CANCELLED"}

\* A serialized notification: its attachments, those detached by then, and whether
\* it was read before all of them had been stored.
Serialized == [files: SUBSET Files, detached: SUBSET Files, early: BOOLEAN]

\* What a query for the attachments of n returns now.
View(n) == [files |-> linked[n], detached |-> detached[n], early |-> stage[n] # "stored"]

\* An email: what it should carry, what it does, what could not be read, and whether
\* the notification had been decided before.
Email == [listed: Serialized, attached: SUBSET Files, failed: SUBSET Files, decided: BOOLEAN]
-----------------------------------------------------------------------------
(* Callers of the backend *)

\* The row is visible from here on.
Persist(n) ==
  /\ n \in world.notes /\ status[n] = "none"
  /\ status' = [status EXCEPT ![n] = "PENDING_SEND"]
  /\ stage' = [stage EXCEPT ![n] = IF Wanted[n] = {} THEN "stored" ELSE "storing"]
  /\ UNCHANGED <<world, update, linked, detached, inactive, sender, outbox, stops>>

\* What is left to store: a join row that was inserted may have been deleted again.
Unstored(n) == Wanted[n] \ (linked[n] \cup detached[n])

\* One join row; its handle is rebuilt at once, which a broken record refuses.
StoreAttachment(n) ==
  /\ stage[n] = "storing"
  /\ \E f \in Unstored(n) :
       /\ linked' = [linked EXCEPT ![n] = @ \cup {f}]
       /\ stage' = [stage EXCEPT ![n] = IF Unstored(n) = {f} /\ f \notin world.broken
                                        THEN "stored"
                                        ELSE IF f \in world.broken THEN "stopped" ELSE "storing"]
  /\ UNCHANGED <<world, status, update, detached, inactive, sender, outbox, stops>>

\* The caller dies, or a reference to an unknown file raises.
StopPersisting(n) ==
  /\ stage[n] = "storing" /\ stops < MaxStops
  /\ stage' = [stage EXCEPT ![n] = "stopped"]
  /\ stops' = stops + 1
  /\ UNCHANGED <<world, status, update, linked, detached, inactive, sender, outbox>>

Cancel(n) ==
  /\ status[n] = "PENDING_SEND"
  /\ status' = [status EXCEPT ![n] = "CANCELLED"]
  /\ UNCHANGED <<world, stage, update, linked, detached, inactive, sender, outbox, stops>>

\* An update that only attaches a file: pending.exists(), and then the join row.
CheckUpdate(n) ==
  /\ status[n] = "PENDING_SEND" /\ update[n] = "none"
  /\ update' = [update EXCEPT ![n] = "checked"]
  /\ UNCHANGED <<world, status, stage, linked, detached, inactive, sender, outbox, stops>>

LinkUpdate(n) ==
  /\ update[n] = "checked"
  /\ update' = [update EXCEPT ![n] = "done"]
  /\ linked' = [linked EXCEPT ![n] = @ \cup {Late}]
  /\ UNCHANGED <<world, status, stage, detached, inactive, sender, outbox, stops>>

\* delete_notification_attachment, whatever became of the notification.
Detach(n) ==
  \E f \in linked[n] :
    /\ linked' = [linked EXCEPT ![n] = @ \ {f}]
    /\ detached' = [detached EXCEPT ![n] = @ \cup {f}]
    /\ UNCHANGED <<world, status, stage, update, inactive, sender, outbox, stops>>

\* The world around: a user is deactivated.
Deactivate(n) ==
  /\ n \in UserNotes \ inactive /\ inactive' = inactive \cup {n}
  /\ UNCHANGED <<world, status, stage, update, linked, detached, sender, outbox, stops>>
-----------------------------------------------------------------------------
(* Senders *)

\* Mutant of Pending: notifications that were sent are listed again.
PendingOrSent == {n \in Notes : status[n] \in {"PENDING_SEND", "SENT"}}

Pending == {n \in Notes : status[n] = "PENDING_SEND"}

\* get_all_pending_notifications: one query for the rows ...
List(s) ==
  /\ s \in world.senders /\ pc[s] = "idle" /\ Pending # {}
  /\ queue' = [queue EXCEPT ![s] = Pending]
  /\ pc' = [pc EXCEPT ![s] = "serialize"]
  /\ UNCHANGED <<rows, view, cur, tried, attached, failed, outbox, stops>>

\* Mutant of Serialize: a notification with a broken record is left out.
SerializeOthers(s) ==
  /\ pc[s] = "serialize"
  /\ \E n \in queue[s] :
       /\ queue' = [queue EXCEPT ![s] = @ \ {n}]
       /\ view' = IF linked[n] \cap world.broken # {} THEN view
                  ELSE [view EXCEPT ![s] =
                    [m \in DOMAIN @ \cup {n} |->
                       IF m = n THEN View(n) ELSE @[m]]]
       /\ pc' = [pc EXCEPT ![s] = IF queue[s] = {n} THEN "next" ELSE "serialize"]
  /\ UNCHANGED <<rows, cur, tried, attached, failed, outbox, stops>>

\* ... and one for the attachments of each.  A record without a storage name
\* raises, and the whole call returns nothing.
Serialize(s) ==
  /\ pc[s] = "serialize"
  /\ \E n \in queue[s] :
       IF linked[n] \cap world.broken # {}
       THEN /\ queue' = [queue EXCEPT ![s] = {}]
            /\ view' = [view EXCEPT ![s] = <<>>]
            /\ pc' = [pc EXCEPT ![s] = "idle"]
       ELSE /\ queue' = [queue EXCEPT ![s] = @ \ {n}]
            /\ view' = [view EXCEPT ![s] =
                 [m \in DOMAIN @ \cup {n} |->
                    IF m = n THEN View(n) ELSE @[m]]]
            /\ pc' = [pc EXCEPT ![s] = IF queue[s] = {n} THEN "next" ELSE "serialize"]
  /\ UNCHANGED <<rows, cur, tried, attached, failed, outbox, stops>>

\* A one-off notification carries its address; a user's is looked up, and refused
\* when the user is not active any more.
Reachable(n) == n \notin UserNotes \/ n \notin inactive

\* Without a preheader template there is no preheader to render.
Templates(n) == {"subject", "body"} \cup (IF n \in Preheaders THEN {"preheader"} ELSE {})

\* Any template that cannot be rendered raises.
Rendered(n) == \A t \in Templates(n) : <<n, t>> \notin world.bad

\* The adapter makes the message up to its attachments.
Compose(s) ==
  /\ pc[s] = "next"
  /\ \E n \in DOMAIN view[s] :
       /\ cur' = [cur EXCEPT ![s] = n]
       /\ pc' = [pc EXCEPT ![s] =
            IF Reachable(n) /\ Rendered(n) THEN "attach" ELSE "mark_failed"]
  /\ UNCHANGED <<rows, queue, view, tried, attached, failed, outbox, stops>>

\* Mutant of AttachFile: a file that cannot be read ends the loop.
AttachFileOrReturn(s) ==
  /\ pc[s] = "attach"
  /\ \E f \in view[s][cur[s]].files \ tried[s] :
       \/ /\ tried' = [tried EXCEPT ![s] = @ \cup {f}]
          /\ attached' = [attached EXCEPT ![s] = @ \cup {f}]
          /\ UNCHANGED failed
       \/ /\ tried' = [tried EXCEPT ![s] = view[s][cur[s]].files]
          /\ failed' = [failed EXCEPT ![s] = @ \cup {f}]
          /\ UNCHANGED attached
  /\ UNCHANGED <<rows, pc, queue, view, cur, outbox, stops>>

\* Each file is read now, through its handle; whatever is raised, for a file that is
\* gone or a storage that fails just now, it is skipped.
AttachFile(s) ==
  /\ pc[s] = "attach"
  /\ \E f \in view[s][cur[s]].files \ tried[s] :
       /\ tried' = [tried EXCEPT ![s] = @ \cup {f}]
       /\ \/ attached' = [attached EXCEPT ![s] = @ \cup {f}] /\ UNCHANGED failed
          \/ failed' = [failed EXCEPT ![s] = @ \cup {f}] /\ UNCHANGED attached
  /\ UNCHANGED <<rows, pc, queue, view, cur, outbox, stops>>

\* The transport takes the email, or raises.
Send(s) ==
  /\ pc[s] = "attach" /\ tried[s] = view[s][cur[s]].files
  /\ \/ /\ outbox' = [outbox EXCEPT ![cur[s]] =
             Append(@, [listed |-> view[s][cur[s]], attached |-> attached[s],
                        failed |-> failed[s], decided |-> status[cur[s]] \in Decided])]
        /\ pc' = [pc EXCEPT ![s] = "mark_sent"]
     \/ /\ pc' = [pc EXCEPT ![s] = "mark_failed"]
        /\ UNCHANGED outbox
  /\ tried' = [tried EXCEPT ![s] = {}] /\ attached' = [attached EXCEPT ![s] = {}]
  /\ failed' = [failed EXCEPT ![s] = {}]
  /\ UNCHANGED <<rows, queue, view, cur, stops>>

\* Done with cur[s]: the next of the list, or the next list.
Leave(s) ==
  /\ view' = [view EXCEPT ![s] = [m \in DOMAIN @ \ {cur[s]} |-> @[m]]]
  /\ pc' = [pc EXCEPT ![s] = IF DOMAIN view[s] = {cur[s]} THEN "idle" ELSE "next"]
  /\ cur' = [cur EXCEPT ![s] = NULL]

\* Mutant of Mark: a notification that could not be sent is left pending.
MarkSentOnly(s) ==
  /\ pc[s] \in {"mark_sent", "mark_failed"}
  /\ status' = [status EXCEPT ![cur[s]] =
       IF @ = "PENDING_SEND" /\ pc[s] = "mark_sent" THEN "SENT" ELSE @]
  /\ Leave(s)
  /\ UNCHANGED <<world, stage, update, linked, detached, inactive, queue, tried, attached, failed, outbox, stops>>

\* Mutant of Mark: the outcomes are the wrong way round.
MarkSwapped(s) ==
  /\ pc[s] \in {"mark_sent", "mark_failed"}
  /\ status' = [status EXCEPT ![cur[s]] =
       IF @ # "PENDING_SEND" THEN @ ELSE IF pc[s] = "mark_sent" THEN "FAILED" ELSE "SENT"]
  /\ Leave(s)
  /\ UNCHANGED <<world, stage, update, linked, detached, inactive, queue, tried, attached, failed, outbox, stops>>

\* Mutant of Mark: a mark overwrites what has been decided already.
MarkAgain(s) ==
  /\ pc[s] \in {"mark_sent", "mark_failed"}
  /\ status' = [status EXCEPT ![cur[s]] = IF pc[s] = "mark_sent" THEN "SENT" ELSE "FAILED"]
  /\ Leave(s)
  /\ UNCHANGED <<world, stage, update, linked, detached, inactive, queue, tried, attached, failed, outbox, stops>>

\* mark_pending_as_sent and mark_pending_as_failed: no row is updated, and the call
\* raises, when the notification is decided already.
Mark(s) ==
  /\ pc[s] \in {"mark_sent", "mark_failed"}
  /\ status' = [status EXCEPT ![cur[s]] =
       IF @ # "PENDING_SEND" THEN @ ELSE IF pc[s] = "mark_sent" THEN "SENT" ELSE "FAILED"]
  /\ Leave(s)
  /\ UNCHANGED <<world, stage, update, linked, detached, inactive, queue, tried, attached, failed, outbox, stops>>

Crash(s) ==
  /\ pc[s] # "idle" /\ stops < MaxStops
  /\ stops' = stops + 1
  /\ pc' = [pc EXCEPT ![s] = "idle"]
  /\ queue' = [queue EXCEPT ![s] = {}]
  /\ view' = [view EXCEPT ![s] = <<>>] /\ cur' = [cur EXCEPT ![s] = NULL]
  /\ tried' = [tried EXCEPT ![s] = {}] /\ attached' = [attached EXCEPT ![s] = {}]
  /\ failed' = [failed EXCEPT ![s] = {}]
  /\ UNCHANGED <<rows, outbox>>

Init ==
  /\ world \in Worlds
  /\ status = [n \in Notes |-> "none"] /\ stage = [n \in Notes |-> "none"]
  /\ update = [n \in Notes |-> "none"] /\ linked = [n \in Notes |-> {}]
  /\ detached = [n \in Notes |-> {}] /\ inactive = {}
  /\ pc = [s \in Senders |-> "idle"]
  /\ queue = [s \in Senders |-> {}] /\ view = [s \in Senders |-> <<>>]
  /\ cur = [s \in Senders |-> NULL]
  /\ tried = [s \in Senders |-> {}] /\ attached = [s \in Senders |-> {}]
  /\ failed = [s \in Senders |-> {}]
  /\ outbox = [n \in Notes |-> <<>>] /\ stops = 0

Work(s) == List(s) \/ Serialize(s) \/ Compose(s) \/ AttachFile(s) \/ Send(s) \/ Mark(s)

Next ==
  \/ \E n \in Notes :
       \/ Persist(n) \/ StoreAttachment(n) \/ StopPersisting(n) \/ Cancel(n)
       \/ CheckUpdate(n) \/ LinkUpdate(n) \/ Detach(n) \/ Deactivate(n)
  \/ \E s \in Senders : Work(s) \/ Crash(s)

Spec == Init /\ [][Next]_vars

\* Senders are loops: whoever runs them goes on.
FairSpec == Spec /\ \A s \in Senders : WF_vars(Work(s))
-----------------------------------------------------------------------------
(* Properties *)

TypeOK ==
  /\ world \in World
  /\ status \in [Notes -> {"none", "PENDING_SEND"} \cup Decided]
  /\ stage \in [Notes -> {"none", "storing", "stored", "stopped"}]
  /\ update \in [Notes -> {"none", "checked", "done"}]
  /\ linked \in [Notes -> SUBSET Files] /\ detached \in [Notes -> SUBSET Files]
  /\ inactive \subseteq Notes
  /\ pc \in [Senders -> {"idle", "serialize", "next", "attach", "mark_sent", "mark_failed"}]
  /\ queue \in [Senders -> SUBSET Notes]
  /\ \A s \in Senders : DOMAIN view[s] \subseteq Notes /\ view[s] \in [DOMAIN view[s] -> Serialized]
  /\ cur \in [Senders -> Notes \cup {NULL}]
  /\ \A s \in Senders : /\ cur[s] = NULL <=> pc[s] \in {"idle", "serialize", "next"}
                        /\ pc[s] = "next" => DOMAIN view[s] # {}
  /\ tried \in [Senders -> SUBSET Files] /\ attached \in [Senders -> SUBSET Files]
  /\ failed \in [Senders -> SUBSET Files]
  /\ outbox \in [Notes -> Seq(Email)]
  /\ stops \in 0 .. MaxStops

\* No notification is SENT without an email that went out, and none that was never
\* persisted is emailed.
SentWasEmailed == \A n \in Notes :
  /\ status[n] = "SENT" => outbox[n] # <<>>
  /\ outbox[n] # <<>> => status[n] # "none"

\* Overlapping senders repeat an email, and so does one that stops between the
\* email and the mark: at most one email for each sender and each stop.
FewRepeats == \A n \in Notes : Len(outbox[n]) <= Cardinality(world.senders) + stops

\* After a notification is cancelled or marked, only senders that had it listed
\* email it, each once; the one whose mark decided it does not.
DecidedStayQuiet ==
  \A n \in Notes :
    Cardinality({k \in DOMAIN outbox[n] : outbox[n][k].decided})
      <= Cardinality(world.senders) - (IF status[n] \in {"SENT", "FAILED"} THEN 1 ELSE 0)

\* An email lacks an attachment the notification was persisted with only if that
\* one could not be read just then, had been detached when the notification was
\* listed, or it was listed before all of them were stored; it lacks one of those it
\* was listed with only if that one could not be read, whatever became of the others.
GapsExplained ==
  \A n \in Notes : \A k \in DOMAIN outbox[n] :
    LET e == outbox[n][k]
    IN /\ Wanted[n] \ e.attached
            \subseteq e.failed \cup e.listed.detached \cup (IF e.listed.early THEN Files ELSE {})
       /\ e.listed.files \ e.attached \subseteq e.failed

\* One pending notification with a broken attachment keeps every listing from
\* returning, until it is cancelled.
Blocked == \E n \in Pending : linked[n] \cap world.broken # {}

\* Otherwise every pending notification is sent, marked as failed or cancelled in
\* the end, past crashes, inactive users and templates that raise.
EveryPendingDecided ==
  \A n \in Notes : status[n] = "PENDING_SEND" ~> status[n] # "PENDING_SEND" \/ Blocked

\* The life of a notification, whatever is emailed: it is not read here, and each has
\* one call that decides it, the mark or the cancel that came first.
LifeState(n) == IF status[n] = "none" THEN "NONE" ELSE status[n]

Life == INSTANCE Lifecycle WITH
  Ids       <- Notes,
  Calls     <- Notes,
  state     <- [n \in Notes |-> LifeState(n)],
  settledBy <- [n \in Notes |-> IF status[n] \in Decided THEN {n} ELSE {}],
  readBy    <- [n \in Notes |-> {}]

\* Senders that overlap, stop and repeat what was sent, beside callers that cancel and
\* update, decide each notification once, as NotificationStore does.
ImplementsLifecycle == Life!Spec

\* "A failing attachment is logged and skipped; the email still goes out".
FailingAttachmentIsSkipped ==
  \A n \in Notes : status[n] = "PENDING_SEND" ~> status[n] # "PENDING_SEND"
==================================================================================
