----------------------------- MODULE MCDelivery -----------------------------
(* A small instance of Delivery for TLC. *)
EXTENDS Delivery, TLC

CONSTANTS n1, n2, f1, f2, s1, s2

\* The first notification has an attachment, the second none.
OneFile == n1 :> {f1} @@ n2 :> {}

\* Two senders around one notification.
Overlapping == [notes |-> {n1}, senders |-> {s1, s2}, broken |-> {}, bad |-> {}]

\* One sender and two notifications: the attachment of the first has a record
\* without a storage name, the body of the second cannot be rendered.
Unsendable ==
  [notes |-> {n1, n2}, senders |-> {s1}, broken |-> {f1}, bad |-> {<<n2, "body">>}]

AllWorlds == {Overlapping, Unsendable}
OneBroken == {Unsendable}

\* The files that were detached, and the emails, on their way or out, for which one was
\* not readable.
Detached == {<<n, f>> \in Notes \X Files : f \in detached[n]}
Short    == {<<n, k>> \in Notes \X (1 .. 9) : k \in DOMAIN outbox[n] /\ outbox[n][k].failed # {}}
Cut      == {s \in Senders : failed[s] # {}}

\* One email at most lacks a file for that reason.  Where an update attaches another
\* file, either this happens or one file is detached.
Bounded ==
  /\ Cardinality(Short) + Cardinality(Cut) <= 1
  /\ \/ \A n \in Notes : update[n] = "none"
     \/ Cardinality(Detached) + Cardinality(Short) + Cardinality(Cut) <= 1

MCNext == Next /\ Bounded'

MCSpec     == Init /\ [][MCNext]_vars
MCFairSpec == MCSpec /\ \A s \in Senders : WF_vars(Work(s))
=============================================================================
