------------------------------- MODULE Backfill -------------------------------
(***************************************************************************)
(* The management command backfill_attachment_checksums, run any number of  *)
(* times on the tables of AttachmentStore while callers store and reclaim   *)
(* attachments.  Migration 0005 leaves records without a checksum, which    *)
(* deduplication passes over; the command reads their files and fills it in.*)
(* A (checksum, size) pair is the Contents it was computed from.            *)
(***************************************************************************)
EXTENDS AttachmentStore, FiniteSetsExt

CONSTANTS
  Runs,      \* workers that run the command, again and again
  Options,   \* the command lines they use
  MaxStops   \* bound on the runs that are interrupted

\* Primary keys are integers of a fixed width.
ASSUME FilesAssumption   == Files \subseteq Nat /\ IsFiniteSet(Files)
ASSUME OptionsAssumption == Options \subseteq [all: BOOLEAN, dry_run: BOOLEAN, limit: Nat \cup {NULL}]
ASSUME StopsAssumption   == MaxStops \in Nat

VARIABLES
  at,         \* at[r]: the next step of run r, or how it ended
  options,    \* options[r]: its command line
  rows,       \* rows[r]: the records its query selected and it has not come to
  processed,  \* processed[r]: how many records it has come to
  skipped,    \* skipped[r]: those of them it reported as skipped
  read,       \* read[r]: the bytes it has read and not written the checksum of
  stops       \* interrupted runs so far

command == <<at, options, rows, processed, skipped, read>>
all     == <<vars, command, stops>>

RunSteps == {"next", "write"}

\* The record the iterator yields: they come ordered by primary key.
CurrentRow(r) == Min(DOMAIN rows[r])

Step(r, step)   == at' = [at EXCEPT ![r] = step]
Remaining(r)    == [f \in DOMAIN rows[r] \ {CurrentRow(r)} |-> rows[r][f]]

\* Mutant of Advance: the record is not done with.
AdvanceStuck(r) ==
  /\ processed' = [processed EXCEPT ![r] = @ + 1]
  /\ Step(r, "next")
  /\ UNCHANGED rows

Advance(r) ==
  /\ rows' = [rows EXCEPT ![r] = Remaining(r)]
  /\ processed' = [processed EXCEPT ![r] = @ + 1]
  /\ Step(r, "next")

-----------------------------------------------------------------------------
\* Mutant of Selected: the test on the checksum is the wrong way round.
SelectedFilled(o) == {f \in files : o.all \/ record[f].checksum # NULL}

\* Mutant of Selected: records that have a checksum are not left out.
SelectedAll(o) == files

\* The work set: every record, or those without a checksum.
Selected(o) == {f \in files : o.all \/ record[f].checksum = NULL}

Start(r) ==
  /\ at[r] \notin RunSteps
  /\ \E o \in Options :
       /\ options' = [options EXCEPT ![r] = o]
       /\ rows' = [rows EXCEPT ![r] = [f \in Selected(o) |-> record[f]]]
  /\ processed' = [processed EXCEPT ![r] = 0]
  /\ skipped' = [skipped EXCEPT ![r] = {}]
  /\ Step(r, "next")
  /\ UNCHANGED <<vars, read, stops>>

\* As many records as --limit asks for were come to, those that were skipped or
\* already right included.
LimitReached(r) == options[r].limit # NULL /\ processed[r] >= options[r].limit

\* That, or the records are used up.
Exhausted(r) == DOMAIN rows[r] = {} \/ LimitReached(r)

Finish(r) ==
  /\ at[r] = "next" /\ Exhausted(r)
  /\ Step(r, "done")
  /\ UNCHANGED <<vars, options, rows, processed, skipped, read, stops>>

\* The record has no identifiers, or its file cannot be read: whatever is raised,
\* for a file that is gone or a storage that fails just now, the record is skipped.
Skip(r) ==
  /\ at[r] = "next" /\ ~Exhausted(r)
  /\ skipped' = [skipped EXCEPT ![r] = @ \cup {CurrentRow(r)}]
  /\ Advance(r)
  /\ UNCHANGED <<vars, options, read, stops>>

\* The file is read; nothing is written if the record, as the query saw it, has
\* that checksum, or in a dry run.
Read(r) ==
  /\ at[r] = "next" /\ ~Exhausted(r)
  /\ LET row == rows[r][CurrentRow(r)]
     IN /\ row.name \in kept
        /\ IF row.checksum = blob[row.name] \/ options[r].dry_run
           THEN Advance(r) /\ UNCHANGED read
           ELSE /\ read' = [read EXCEPT ![r] = blob[row.name]]
                /\ Step(r, "write")
                /\ UNCHANGED <<rows, processed>>
  /\ UNCHANGED <<vars, options, skipped, stops>>

\* Mutant of Write: the checksum goes to another record.
WriteAmiss(r) ==
  /\ at[r] = "write"
  /\ record' = [f \in DOMAIN record |->
                  IF f = Max(files) THEN [record[f] EXCEPT !.checksum = read[r]] ELSE record[f]]
  /\ Advance(r)
  /\ UNCHANGED <<notes, files, linked, link, kept, blob, pc, req, hand, fresh, made, before>>
  /\ UNCHANGED <<options, skipped, read, stops>>

\* filter(pk=...).update(...): no row is updated when the record is gone by now.
Write(r) ==
  /\ at[r] = "write"
  /\ record' = [f \in DOMAIN record |->
                  IF f \in files /\ f = CurrentRow(r)
                  THEN [record[f] EXCEPT !.checksum = read[r]] ELSE record[f]]
  /\ Advance(r)
  /\ UNCHANGED <<notes, files, linked, link, kept, blob, pc, req, hand, fresh, made, before>>
  /\ UNCHANGED <<options, skipped, read, stops>>

Interrupt(r) ==
  /\ at[r] \in RunSteps
  /\ stops < MaxStops /\ stops' = stops + 1
  /\ Step(r, "interrupted")
  /\ UNCHANGED <<vars, options, rows, processed, skipped, read>>

Continue(r) == Finish(r) \/ Skip(r) \/ Read(r) \/ Write(r)

Idle ==
  /\ at = [r \in Runs |-> "idle"]
  /\ options = [r \in Runs |-> NULL]
  /\ rows = [r \in Runs |-> <<>>]
  /\ processed = [r \in Runs |-> 0]
  /\ skipped = [r \in Runs |-> {}]
  /\ read = [r \in Runs |-> NULL]
  /\ stops = 0

\* Records as a database may hold them when the command is run, nothing attached:
\* checksums missing, right or stale, and files that are there or gone.  Records as
\* 0005 leaves them, attached and without a checksum, are in Init.
Migrated ==
  /\ files = Files /\ kept \in SUBSET Names
  /\ blob \in [Names -> Contents]
  /\ record \in [files -> [checksum: Contents \cup {NULL}, name: Names]]
  /\ \A f, g \in files : record[f].name = record[g].name => f = g
  /\ notes = {} /\ linked = {} /\ link = <<>>
  /\ pc = [c \in Calls |-> "idle"] /\ req = [c \in Calls |-> Blank]
  /\ hand = [c \in Calls |-> NULL] /\ fresh = [c \in Calls |-> NULL]
  /\ made = [c \in Calls |-> <<>>] /\ before = [c \in Calls |-> {}]

NextAll ==
  \/ Next /\ UNCHANGED <<command, stops>>
  \/ \E r \in Runs : Start(r) \/ Continue(r) \/ Interrupt(r)

\* What AttachmentStore starts from, or what was just migrated.
BackfillInit == (Init \/ Migrated) /\ Idle

\* The command beside callers.
BackfillSpec == BackfillInit /\ [][NextAll]_all
-----------------------------------------------------------------------------
(* Properties *)

BackfillTypeOK ==
  /\ at \in [Runs -> RunSteps \cup {"idle", "done", "interrupted"}]
  /\ options \in [Runs -> Options \cup {NULL}]
  /\ \A r \in Runs : DOMAIN rows[r] \subseteq Files /\ rows[r] \in [DOMAIN rows[r] -> Record]
  /\ processed \in [Runs -> 0 .. Cardinality(Files)]
  /\ skipped \in [Runs -> SUBSET Files]
  /\ read \in [Runs -> Contents \cup {NULL}]

\* A run that came to its end has left no record without a checksum but ones that it
\* reported as skipped, and ones it had selected and not come to when it had come to
\* as many as --limit allows, whatever other runs and callers did meanwhile.
EndedRunsComplete ==
  \A r \in Runs :
    at[r] = "done" /\ ~options[r].dry_run =>
      \A f \in files : record[f].checksum = NULL =>
        f \in skipped[r] \/ (f \in DOMAIN rows[r] /\ LimitReached(r))

\* Overlapping, interrupted and repeated runs only ever correct: a checksum that is
\* already there is changed by --all alone, and what is written is that of the file.
OnlyCorrects ==
  [][\A f \in files : record'[f].checksum # record[f].checksum =>
       /\ record'[f].checksum = blob[NameOf(f)]
       /\ record[f].checksum = NULL \/ \E r \in Runs : at[r] = "write" /\ options[r].all]_all

==============================================================================
