------------------------------ MODULE Lifecycle ------------------------------
(***************************************************************************)
(* What DjangoDbNotificationBackend promises its callers about the life    *)
(* of a notification, with no mention of SQL statements, clocks or rows:   *)
(*                                                                         *)
(*   - a notification is decided (it stops pending) at most once, by       *)
(*     exactly one call, and a call decides at most one notification;      *)
(*   - only a SENT notification is ever marked as read, by exactly one     *)
(*     call, while one bulk call may read several at once;                 *)
(*   - a notification may disappear (its user was deleted) and nothing     *)
(*     happens to it afterwards.                                           *)
(*                                                                         *)
(* NotificationStore.tla is the detailed specification that implements it. *)
(***************************************************************************)

CONSTANTS Ids,    \* notifications
          Calls   \* calls made to the backend

VARIABLES state,      \* state[n]: where notification n is in its life
          settledBy,  \* settledBy[n]: the calls that decided n
          readBy      \* readBy[n]: the calls that moved n to READ

vars == <<state, settledBy, readBy>>

\* A mark or a cancel decides on one of the first three; an update of a pending
\* notification may write any of them.
Outcomes == {"SENT", "FAILED", "CANCELLED", "READ"}
States   == {"NONE", "PENDING_SEND", "DELETED"} \cup Outcomes

Init ==
  /\ state \in [Ids -> {"NONE", "PENDING_SEND"}]
  /\ settledBy = [n \in Ids |-> {}]
  /\ readBy    = [n \in Ids |-> {}]

Create(n) ==
  /\ state[n] = "NONE"
  /\ state' = [state EXCEPT ![n] = "PENDING_SEND"]
  /\ UNCHANGED <<settledBy, readBy>>

\* A call has decided or read nothing yet.
Idle(c) == \A n \in Ids : c \notin settledBy[n] \cup readBy[n]

Settle(c, n) ==
  /\ state[n] = "PENDING_SEND"
  /\ settledBy[n] = {}
  /\ settledBy' = [settledBy EXCEPT ![n] = {c}]
  /\ Idle(c)
  /\ \E s \in Outcomes : state' = [state EXCEPT ![n] = s]
  /\ UNCHANGED readBy

Read(c, S) ==
  /\ S # {}
  /\ \A n \in S : state[n] = "SENT" /\ readBy[n] = {}
  /\ readBy' = [n \in Ids |-> IF n \in S THEN {c} ELSE readBy[n]]
  /\ Idle(c)
  /\ state' = [n \in Ids |-> IF n \in S THEN "READ" ELSE state[n]]
  /\ UNCHANGED settledBy

Delete(S) ==
  /\ S # {}
  /\ \A n \in S : state[n] \notin {"NONE", "DELETED"}
  /\ state' = [n \in Ids |-> IF n \in S THEN "DELETED" ELSE state[n]]
  /\ UNCHANGED <<settledBy, readBy>>

Next ==
  \/ \E n \in Ids : Create(n)
  \/ \E c \in Calls, n \in Ids : Settle(c, n)
  \/ \E c \in Calls, S \in SUBSET Ids : Read(c, S)
  \/ \E S \in SUBSET Ids : Delete(S)

Spec == Init /\ [][Next]_vars
==============================================================================
