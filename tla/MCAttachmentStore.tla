-------------------------- MODULE MCAttachmentStore --------------------------
(* Small instances of AttachmentStore for TLC. *)
EXTENDS AttachmentStore, TLC

\* Notifications, keys, names, contents and calls are interchangeable: no
\* definition orders or names one of them.
Symmetry == Permutations(Notes) \cup Permutations(Files) \cup Permutations(Links)
              \cup Permutations(Names) \cup Permutations(Contents)
              \cup Permutations(Calls)

\* The operations of each run.
Reclaiming  == {"store_attachments", "reclaim"}
NoOps       == {}

\* The calls made so far.
Made  == {c \in Calls : pc[c] # "idle"}

\* Two calls that attach a list and a file, or three that attach a file each or
\* unlink, one of which reclaims.
Bounded ==
  \/ Cardinality(Made) <= 2 /\ \E c \in Made : \A d \in Made \ {c} : Len(req[d].items) <= 1
  \/ /\ \A c \in Made : Len(req[c].items) <= 1
     /\ Cardinality({c \in Made : req[c].op = "reclaim"}) = 1

MCNext ==
  \/ \E c \in Calls : (Begin(c) /\ Bounded') \/ Proceed(c)
  \/ \E S \in SUBSET notes : DeleteNotes(S)

MCSpec == Init /\ [][MCNext]_vars
==============================================================================
