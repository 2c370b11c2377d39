-------------------------------- MODULE Listing --------------------------------
(***************************************************************************)
(* The listings of the backend: querysets over the notifications, sorted    *)
(* and cut into pages by offset, that a client walks page after page while  *)
(* other callers persist, send, read and reschedule.  A listing call builds *)
(* a lazy query (Ask); the rows are selected when it is consumed (Fetch).   *)
(***************************************************************************)
EXTENDS Integers, FiniteSets, SequencesExt

CONSTANTS
  Plans,       \* what a client lists: sequences of listings, walked one after the other
  Stops,       \* how it ends a listing: at a "short" page, or by the "count"
  SendAfters,  \* the values of send_after
  PageSizes,   \* the page sizes it asks for
  MaxRows, MaxTime,  \* bounds on the rows and on the clock
  MaxChanges   \* bound on the rows that enter and leave a listing during a walk

\* NULL as send_after: SQLite and MySQL sort it before every time.
NULL == 0

Listings == {"pending", "future", "unread", "in_app", "filtered", "by_send_after"}

ASSUME PlansAssumption  == Plans \subseteq Seq(Listings) \ {<<>>}
ASSUME StopsAssumption  == Stops \subseteq {"short", "count"}
ASSUME BoundsAssumption ==
  /\ SendAfters \subseteq Nat /\ PageSizes \subseteq Nat \ {0}
  /\ {MaxRows, MaxTime, MaxChanges} \subseteq Nat \ {0}

VARIABLES
  now, rows,    \* the clock; rows[id]: created, send_after and status
  pc, plan, stop, size,   \* the client: its plan, how it pages
  total,        \* what count_...() answered
  leg, page,    \* the listing of the plan it is at, and the page of it
  at,           \* timezone.now() when it asked for the page
  got,          \* the ids it got, in order
  began,        \* the rows that were listed when the walk began
  touched, departures, arrivals  \* those that left or moved since; how often rows left, came

table == <<now, rows>>
call  == <<plan, stop, size>>
walk  == <<pc, call, total, leg, page, at, got>>
since == <<began, touched, departures, arrivals>>
vars  == <<table, walk, since>>

Row == [created: 1 .. MaxTime, send_after: SendAfters,
        status: {"PENDING_SEND", "SENT", "READ", "FAILED", "CANCELLED"}]

\* Mutant of Members: the future queryset without its second disjunct.
MembersStrictFuture(listing, rs, t) ==
  {i \in DOMAIN rs :
     CASE listing = "pending" -> rs[i].status = "PENDING_SEND" /\ rs[i].send_after <= t
       [] listing = "future" -> rs[i].status = "PENDING_SEND" /\ rs[i].send_after > t
       [] OTHER -> TRUE}

\* Mutant of Members: the in-app listing has the unread rows only.
MembersUnread(listing, rs, t) == {i \in DOMAIN rs : rs[i].status = "SENT"}

\* The rows each queryset filters, with timezone.now() = t.
Members(listing, rs, t) ==
  {i \in DOMAIN rs :
     CASE listing = "pending" -> /\ rs[i].status = "PENDING_SEND"
                                 /\ rs[i].send_after <= t \/ rs[i].send_after = NULL
       [] listing = "future"  -> /\ rs[i].status = "PENDING_SEND"
                                 /\ rs[i].send_after >= t \/ rs[i].send_after # NULL
       [] listing = "unread"  -> rs[i].status = "SENT"
       [] listing = "in_app"  -> rs[i].status \in {"SENT", "READ"}
       [] OTHER -> TRUE}

\* Mutant of Precedes: newest first, without the tiebreaker.
PrecedesUntied(listing, rs, i, j) == rs[i].created > rs[j].created

\* The row i sorts before j.  Rows that no key tells apart come in any order.
Precedes(listing, rs, i, j) ==
  CASE listing \in {"pending", "future"} -> rs[i].created < rs[j].created
    [] listing = "by_send_after" ->
         \/ rs[i].send_after < rs[j].send_after
         \/ rs[i].send_after = rs[j].send_after /\ i < j
    [] OTHER ->
         \/ rs[i].created > rs[j].created
         \/ rs[i].created = rs[j].created /\ i > j

\* What one SELECT with ORDER BY may return.
Results(listing, rs, t) ==
  {s \in SetToSeqs(Members(listing, rs, t)) :
     \A m, n \in DOMAIN s : m < n => ~Precedes(listing, rs, s[n], s[m])}

\* Mutant of Page: pages counted from zero.
PageFromZero(s, p) == SubSeq(s, p * size + 1, Min({(p + 1) * size, Len(s)}))

\* Mutant of Page: whatever the page, the first one.
PageFirst(s, p) == SubSeq(s, 1, Min({size, Len(s)}))

\* queryset[(page - 1) * page_size : ...], cut at the end of the rows.
Page(s, p) == SubSeq(s, (p - 1) * size + 1, Min({p * size, Len(s)}))
-----------------------------------------------------------------------------
(* The client *)

\* The rows that any listing of the plan has.
Listed(rs, t) == UNION {Members(l, rs, t) : l \in ToSet(plan)}

\* The plan is fixed; a count_...() is asked before the first page.
Begin ==
  /\ pc = "idle"
  /\ total' = Cardinality(Members(Head(plan), rows, now))
  /\ began' = Listed(rows, now) /\ pc' = "ask"
  /\ UNCHANGED <<table, call, leg, page, at, got, touched, departures, arrivals>>

Ask ==
  /\ pc = "ask"
  /\ at' = now /\ pc' = "fetch"
  /\ UNCHANGED <<table, call, total, leg, page, got, since>>

\* A short page, or as many pages as the count calls for.
LastPage(p) == IF stop = "short" THEN Len(p) < size ELSE page * size >= total

Fetch ==
  /\ pc = "fetch"
  /\ \E s \in Results(plan[leg], rows, at) :
       LET p == Page(s, page)
       IN /\ got' = got \o p
          /\ page' = IF LastPage(p) THEN 1 ELSE page + 1
          /\ leg' = IF LastPage(p) THEN leg + 1 ELSE leg
  /\ pc' = IF leg' > Len(plan) THEN "done" ELSE "ask"
  /\ UNCHANGED <<table, call, total, at, since>>
-----------------------------------------------------------------------------
(* Other callers, through the handlers of NotificationStore *)

\* Bookkeeping of a change during a walk: rows that left its listings, or came, or
\* were given another send_after.
Noted ==
  IF pc \in {"idle", "done"} THEN UNCHANGED since
  ELSE LET old   == Listed(rows, now)
           new   == Listed(rows', now')
           moved == {i \in old \cap new : rows'[i].send_after # rows[i].send_after}
       IN /\ touched' = touched \cup (old \ new) \cup moved
          /\ departures' = departures + Cardinality((old \ new) \cup moved)
          /\ arrivals' = arrivals + Cardinality((new \ old) \cup moved)
          /\ UNCHANGED began

Change(rs) ==
  /\ pc # "done" /\ departures + arrivals < MaxChanges
  /\ rows' = rs /\ UNCHANGED <<now, walk>>
  /\ Noted

\* created is stamped before the INSERT, so rows may come out of its order.
Persist ==
  /\ Len(rows) < MaxRows
  /\ \E c \in 1 .. now, s \in SendAfters :
       Change(Append(rows, [created |-> c, send_after |-> s, status |-> "PENDING_SEND"]))

\* The marks and cancel_notification.
Settle ==
  \E i \in DOMAIN rows, outcome \in {"SENT", "FAILED", "CANCELLED"} :
    rows[i].status = "PENDING_SEND" /\ Change([rows EXCEPT ![i].status = outcome])

Read ==
  \E i \in DOMAIN rows : rows[i].status = "SENT" /\ Change([rows EXCEPT ![i].status = "READ"])

\* persist_notification_update of send_after.
Reschedule ==
  \E i \in DOMAIN rows, s \in SendAfters :
    rows[i].status = "PENDING_SEND" /\ Change([rows EXCEPT ![i].send_after = s])

Tick ==
  /\ now < MaxTime /\ now' = now + 1
  /\ pc # "done" /\ UNCHANGED rows
  /\ Noted /\ UNCHANGED walk

Init ==
  /\ now = 1 /\ rows = <<>>
  /\ plan \in Plans /\ stop \in Stops /\ size \in PageSizes
  /\ pc = "idle" /\ total = 0 /\ leg = 1 /\ page = 1 /\ at = 0 /\ got = <<>>
  /\ began = {} /\ touched = {} /\ departures = 0 /\ arrivals = 0

Next == Begin \/ Ask \/ Fetch \/ Persist \/ Settle \/ Read \/ Reschedule \/ Tick

Spec == Init /\ [][Next]_vars
-----------------------------------------------------------------------------
(* Properties *)

TypeOK ==
  /\ now \in 1 .. MaxTime /\ rows \in Seq(Row) /\ Len(rows) <= MaxRows
  /\ pc \in {"idle", "ask", "fetch", "done"}
  /\ plan \in Plans /\ stop \in Stops /\ size \in PageSizes
  /\ total \in 0 .. MaxRows /\ page \in 1 .. MaxRows + 1 /\ at \in 0 .. MaxTime
  /\ leg \in 1 .. Len(plan) + 1 /\ ToSet(got) \subseteq DOMAIN rows
  /\ began \subseteq DOMAIN rows /\ touched \subseteq DOMAIN rows

\* The pending and the future listing are sorted by created alone, the others have
\* the id as a tiebreaker.
Ordered ==
  ToSet(plan) \cap {"pending", "future"} # {} =>
    \A i, j \in DOMAIN rows : rows[i].created = rows[j].created => i = j

Missed == (began \ touched) \ ToSet(got)

\* A client that pages to a short page through one totally ordered listing misses at
\* most one untouched row for every row that leaves meanwhile; one that trusts the
\* count taken first may also miss as many as came in.
WalkMissesFew ==
  pc = "done" /\ Len(plan) = 1 /\ Ordered =>
    Cardinality(Missed) <= departures + (IF stop = "count" THEN arrivals ELSE 0)

\* It is shown at most one row twice for every row that comes in or moves.
WalkRepeatsFew ==
  Len(plan) = 1 /\ Ordered => Len(got) - Cardinality(ToSet(got)) <= arrivals

\* Sending and reading never push a notification out of the in-app listing, so a
\* walk of it shows everything that was there when it began, whatever happens.
InAppWalkMissesNothing ==
  pc = "done" /\ stop = "short" /\ plan = <<"in_app">> => began \subseteq ToSet(got)

\* The pending listing and then the future one: between them no notification that
\* stays pending is lost, although each has a clock of its own and time passes.
ScheduleMissesNothing ==
  pc = "done" /\ plan = <<"pending", "future">> /\ size > MaxRows => Missed = {}
================================================================================
