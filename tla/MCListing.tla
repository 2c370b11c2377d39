------------------------------ MODULE MCListing ------------------------------
(* A small instance of Listing for TLC. *)
EXTENDS Listing

\* Single listings that are sorted by keys that tell all rows apart.
TotallyOrdered == {<<"unread">>, <<"in_app">>, <<"filtered">>}

\* Listings of what is to be sent.
Queues == {<<"pending">>, <<"future">>, <<"by_send_after">>}

\* What is due and then what is not.
Schedule == {<<"pending", "future">>}

MCPlans == TotallyOrdered \cup Queues \cup Schedule

\* Walks of single rows through each listing, and two whole lists one after the
\* other.  send_after matters to the listings of what is to be sent only, and to walk
\* one of them it is enough that the clock comes to it.
Bounded ==
  IF plan \in TotallyOrdered
  THEN size = 1 /\ now <= 2 /\ \A i \in DOMAIN rows : rows[i].send_after = NULL
  ELSE /\ stop = "short" /\ Len(rows) <= 2
       /\ plan \in Queues => size = 1 /\ now <= 2
       /\ plan \in Schedule => size = 4
==============================================================================
