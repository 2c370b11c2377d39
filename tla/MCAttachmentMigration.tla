------------------------ MODULE MCAttachmentMigration ------------------------
(* A small instance of AttachmentMigration for TLC. *)
EXTENDS AttachmentMigration, TLC

\* Notifications and storage names are interchangeable.
Symmetry == Permutations(Notes) \cup Permutations(Names)

\* Where operators stop anywhere, or migrate dies, fewer rows and steps: rows are
\* doubled there.  Four steps reach 0005, roll it back and apply it again.
Bounded == (oneGo /\ atomic) \/ moves + made <= 6
==============================================================================
