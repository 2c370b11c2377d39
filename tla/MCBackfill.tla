------------------------------ MODULE MCBackfill ------------------------------
(* Small instances of Backfill for TLC. *)
EXTENDS Backfill, TLC

\* Links, names, contents, calls and workers are interchangeable; primary keys of
\* records are ordered.
Symmetry == Permutations(Links) \cup Permutations(Names) \cup Permutations(Contents)
              \cup Permutations(Calls) \cup Permutations(Runs)

ButReclaim == AllOps \ {"reclaim"}

\* Command lines: with --all and --limit or without, and a dry run.
Plain     == [all |-> FALSE, dry_run |-> FALSE, limit |-> NULL]
AnyOption == [all: BOOLEAN, dry_run: {FALSE}, limit: {NULL, 1}]
               \cup {[Plain EXCEPT !.dry_run = TRUE]}

\* The calls made so far, and the workers that have run the command.
Made    == {c \in Calls : pc[c] # "idle"}
Started == {r \in Runs : at[r] # "idle"}

\* The workers whose last run skipped files that are there.
Failing == {r \in Started : \E f \in skipped[r] : NameOf(f) \in kept}

\* Calls without the command; calls that attach or reclaim beside one worker; or
\* two workers, with any options, where nothing is attached and the storage fails on
\* files that are there for one of them.
Bounded ==
  \/ Started = {}
  \/ /\ Cardinality(Started) <= 1 /\ \A r \in Started : options[r] = Plain
     /\ Failing = {}
     /\ \A c \in Made : req[c].op \in {"store_attachments", "reclaim"}
  \/ notes = {} /\ Made = {} /\ Cardinality(Failing) <= 1

MCNext ==
  \/ \E c \in Calls : \/ Begin(c) /\ notes # {} /\ UNCHANGED <<command, stops>> /\ Bounded'
                      \/ Proceed(c) /\ UNCHANGED <<command, stops>>
  \/ \E S \in SUBSET notes : DeleteNotes(S) /\ UNCHANGED <<command, stops>>
  \/ \E r \in Runs : ((Start(r) \/ Continue(r)) /\ Bounded') \/ Interrupt(r)

MCSpec == BackfillInit /\ [][MCNext]_all
===============================================================================
