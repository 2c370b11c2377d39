------------------------- MODULE MCNotificationStore -------------------------
(* Small instances of NotificationStore for TLC. *)
EXTENDS NotificationStore, TLC

CONSTANT x1

\* Calls are interchangeable, and so are primary keys: no definition
\* orders or names one of them.
Symmetry == Permutations(Calls) \cup Permutations(Ids)

\* The operations of each run.
Bulk      == ReadOps \cup {"mark_pending_as_sent"}
\* The store_* handlers differ in the column they write: one stands for the three.
OneStore  == AllOps \ {"store_git_commit_sha", "store_template_version"}

\* The calls made so far, what they ask for, and the contents anyone wrote.
Made    == {c \in Calls : pc[c] # "idle"}
Asked   == {req[c] : c \in Made}
Written == ({row[n].content : n \in issued} \cup {r.content : r \in Asked}) \ {KEEP}

\* An update names one column, or none.
Named(r) == {f \in {"content", "send_after", "status"} : r[f] # KEEP}
OneColumn ==
  \A r \in Asked : r.op = "persist_notification_update" => Cardinality(Named(r)) <= 1

\* Two calls of any kind on two notifications, or on one with another content;
\* three that decide or read one.
Bounded ==
  /\ OneColumn
  /\ \/ Cardinality(Made) <= 2 /\ Written \subseteq {x1}
     \/ Cardinality(Made) <= 2 /\ Cardinality(issued) <= 1
     \/ /\ \A r \in Asked : r.op \in ReadOps \/ Decides(r)
        /\ Cardinality(issued) <= 1
        /\ Written \subseteq {x1}

MCNext ==
  \/ \E c \in Calls : (Begin(c) /\ Bounded') \/ Proceed(c)
  \/ \E u \in Users : DeleteUser(u)
  \/ Tick

MCSpec == Init /\ [][MCNext]_vars

\* send_after: none, or a time the clock may reach.
Unscheduled == {NULL}
==============================================================================
