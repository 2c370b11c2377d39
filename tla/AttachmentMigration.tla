------------------------- MODULE AttachmentMigration -------------------------
(***************************************************************************)
(* Migrations 0004 to 0006: the legacy Attachment table, which held a file  *)
(* and a notification per row, is copied into AttachmentFileRecord and      *)
(* NotificationAttachment and then dropped; reversed, it is rebuilt from    *)
(* them.  Operators migrate up and down while the application writes.       *)
(* RunPython is atomic, so a copy is one step whatever its batches.         *)
(***************************************************************************)
EXTENDS Naturals, Sequences, SequencesExt

CONSTANTS
  Notes,    \* notifications
  Names,    \* names the storage can hand out, never the same one twice
  MaxRows,  \* bound on the attachments users make
  MaxMoves, \* bound on the steps of migrate
  NULL,     \* no stored file
  GONE      \* no file record any more

ASSUME BoundsAssumption == MaxRows \in Nat /\ MaxMoves \in Nat
ASSUME NullAssumption   == NULL \notin Names \cup {GONE} /\ GONE \notin Names

VARIABLES
  oneGo,     \* operators migrate end to end, with the application stopped
  atomic,    \* the database commits a migration and its record together
  version,   \* the last migration recorded: 3 is the 1.x schema
  way,       \* "up" or "down": where the last step of migrate went
  ran,       \* 0005 has committed its rows and is not recorded yet
  legacy,    \* the Attachment rows
  files,     \* files[f]: the name in the storage_identifiers of file record f
  links,     \* the NotificationAttachment rows
  kept,      \* names whose bytes the storage holds
  uploaded,  \* names the storage has handed out
  wanted,    \* what users attached and did not detach: notifications and names
  made,      \* attachments made so far
  moves      \* migration steps so far

site   == <<oneGo, atomic>>
tables == <<legacy, files, links>>
vars   == <<site, version, way, ran, tables, kept, uploaded, wanted, made, moves>>

Attachment == [note: Notes, name: Names \cup {NULL}]

AsLegacy(t) == {<<t[k].note, t[k].name>> : k \in DOMAIN t}
AsJoined(ls, fs) == {<<ls[l].note, fs[ls[l].file]>> : l \in DOMAIN ls}

\* What the application shows: the tables its version reads.
Shown == IF version >= 5 THEN AsJoined(links, files) ELSE AsLegacy(legacy)

-----------------------------------------------------------------------------
(* Migrations *)

\* migrate takes a step; end to end, it turns at the ends only.
Move(d) ==
  /\ ~ran
  /\ moves < MaxMoves /\ moves' = moves + 1
  /\ way' = d
  /\ oneGo /\ version \in {4, 5} => way = d

\* What RunPython commits is recorded with it, or by a statement that follows.
Recorded(v) ==
  IF atomic THEN version' = v /\ UNCHANGED ran
                   ELSE ran' = TRUE /\ UNCHANGED version

\* 0004 creates the tables of 2.0, and reversed drops them with what they hold.
CreateTables ==
  /\ Move("up") /\ version = 3 /\ version' = 4
  /\ UNCHANGED <<ran, tables, kept, uploaded, wanted, made, site>>

DropNewTables ==
  /\ Move("down") /\ version = 4 /\ version' = 3
  /\ files' = <<>> /\ links' = <<>>
  /\ UNCHANGED <<ran, legacy, kept, uploaded, wanted, made, site>>

\* Mutant of Forwards: attachments without a stored file are passed over.
ForwardsStoredOnly ==
  /\ Move("up") /\ version = 4 /\ Recorded(5)
  /\ LET rows == SelectSeq(legacy, LAMBDA a : a.name # NULL)
     IN /\ files' = files \o [k \in DOMAIN rows |-> rows[k].name]
        /\ links' = links \o [k \in DOMAIN rows |-> [note |-> rows[k].note, file |-> Len(files) + k]]
  /\ UNCHANGED <<legacy, kept, uploaded, wanted, made, site>>

\* Mutant of Forwards: join rows point past their records.
ForwardsOffByOne ==
  /\ Move("up") /\ version = 4 /\ Recorded(5)
  /\ files' = files \o [k \in DOMAIN legacy |-> legacy[k].name]
  /\ links' = links \o [k \in DOMAIN legacy |-> [note |-> legacy[k].note, file |-> Len(files) + k + 1]]
  /\ UNCHANGED <<legacy, kept, uploaded, wanted, made, site>>

\* 0005: a file record and a join row for each legacy row, which stays.
Forwards ==
  /\ Move("up") /\ version = 4 /\ Recorded(5)
  /\ files' = files \o [k \in DOMAIN legacy |-> legacy[k].name]
  /\ links' = links \o [k \in DOMAIN legacy |-> [note |-> legacy[k].note, file |-> Len(files) + k]]
  /\ UNCHANGED <<legacy, kept, uploaded, wanted, made, site>>

\* 0005 reversed: a legacy row for each join row.  The rows of 2.0 stay.
Backwards ==
  /\ Move("down") /\ version = 5 /\ Recorded(4)
  /\ legacy' = legacy \o [l \in DOMAIN links |->
                           [note |-> links[l].note, name |-> files[links[l].file]]]
  /\ UNCHANGED <<files, links, kept, uploaded, wanted, made, site>>

\* The migration is recorded, or migrate dies first and 0005 is run again.
Record ==
  /\ ran /\ ran' = FALSE
  /\ \/ version' = IF way = "up" THEN 5 ELSE 4
     \/ UNCHANGED version
  /\ UNCHANGED <<way, tables, kept, uploaded, wanted, made, moves, site>>

\* Mutant of DropLegacy: the table stays.
DropNothing ==
  /\ Move("up") /\ version = 5 /\ version' = 6
  /\ UNCHANGED <<ran, tables, kept, uploaded, wanted, made, site>>

\* 0006 drops the legacy table whatever it holds; reversed, it is empty.
DropLegacy ==
  /\ Move("up") /\ version = 5 /\ version' = 6 /\ legacy' = <<>>
  /\ UNCHANGED <<ran, files, links, kept, uploaded, wanted, made, site>>

CreateLegacy ==
  /\ Move("down") /\ version = 6 /\ version' = 5
  /\ UNCHANGED <<ran, tables, kept, uploaded, wanted, made, site>>

-----------------------------------------------------------------------------
(* The application, on the tables of the version it runs at *)

Serving == ~ran /\ (oneGo => version \in {3, 6})
OldApp  == Serving /\ version <= 4
NewApp  == Serving /\ version >= 5

\* A user attaches a file stored under a new name, or none.
Upload(n, m) ==
  /\ made < MaxRows /\ made' = made + 1
  /\ m \notin uploaded
  /\ uploaded' = uploaded \cup ({m} \ {NULL})
  /\ kept' = kept \cup ({m} \ {NULL})
  /\ wanted' = wanted \cup {<<n, m>>}

OldAttach(n, m) ==
  /\ OldApp /\ Upload(n, m)
  /\ legacy' = Append(legacy, [note |-> n, name |-> m])
  /\ UNCHANGED <<version, way, ran, files, links, moves, site>>

OldDetach(k) ==
  /\ OldApp
  /\ legacy' = RemoveAt(legacy, k)
  /\ wanted' = wanted \ ({<<legacy[k].note, legacy[k].name>>} \ AsLegacy(legacy'))
  /\ UNCHANGED <<version, way, ran, files, links, kept, uploaded, made, moves, site>>

NewAttach(n, m) ==
  /\ NewApp /\ m # NULL /\ Upload(n, m)
  /\ files' = Append(files, m)
  /\ links' = Append(links, [note |-> n, file |-> Len(files) + 1])
  /\ UNCHANGED <<version, way, ran, legacy, moves, site>>

\* A file already stored is attached by reference.
Reference(n, f) ==
  /\ NewApp /\ files[f] # GONE
  /\ made < MaxRows /\ made' = made + 1
  /\ links' = Append(links, [note |-> n, file |-> f])
  /\ wanted' = wanted \cup {<<n, files[f]>>}
  /\ UNCHANGED <<version, way, ran, legacy, files, kept, uploaded, moves, site>>

NewDetach(l) ==
  /\ NewApp
  /\ links' = RemoveAt(links, l)
  /\ wanted' = wanted \ ({<<links[l].note, files[links[l].file]>>} \ AsJoined(links', files))
  /\ UNCHANGED <<version, way, ran, legacy, files, kept, uploaded, made, moves, site>>

\* Mutant of Reclaim: the bytes of a file still in use are erased.
ReclaimUsed(f) ==
  /\ NewApp /\ files[f] # GONE
  /\ kept' = kept \ {files[f]}
  /\ UNCHANGED <<version, way, ran, tables, uploaded, wanted, made, moves, site>>

\* An orphaned record is reclaimed: its bytes, then the record.
Reclaim(f) ==
  /\ NewApp /\ files[f] # GONE /\ \A l \in DOMAIN links : links[l].file # f
  /\ kept' = kept \ {files[f]}
  /\ files' = [files EXCEPT ![f] = GONE]
  /\ UNCHANGED <<version, way, ran, legacy, links, uploaded, wanted, made, moves, site>>

Init ==
  /\ oneGo \in BOOLEAN /\ atomic \in BOOLEAN
  /\ version = 3 /\ way = "up" /\ ran = FALSE /\ made = 0 /\ moves = 0
  /\ legacy = <<>> /\ files = <<>> /\ links = <<>>
  /\ kept = {} /\ uploaded = {} /\ wanted = {}

Migrate == \/ CreateTables \/ Forwards \/ DropLegacy
           \/ CreateLegacy \/ Backwards \/ DropNewTables \/ Record

Next ==
  \/ Migrate
  \/ \E n \in Notes, m \in Names \cup {NULL} : OldAttach(n, m) \/ NewAttach(n, m)
  \/ \E k \in DOMAIN legacy : OldDetach(k)
  \/ \E n \in Notes, f \in DOMAIN files : Reference(n, f)
  \/ \E l \in DOMAIN links : NewDetach(l)
  \/ \E f \in DOMAIN files : Reclaim(f)

Spec == Init /\ [][Next]_vars
-----------------------------------------------------------------------------
(* Properties *)

TypeOK ==
  /\ version \in 3 .. 6 /\ way \in {"up", "down"} /\ ran \in BOOLEAN
  /\ legacy \in Seq(Attachment)
  /\ files \in Seq(Names \cup {NULL, GONE})
  /\ links \in Seq([note: Notes, file: DOMAIN files])
  /\ kept \subseteq uploaded /\ uploaded \subseteq Names
  /\ wanted \subseteq Notes \X (Names \cup {NULL})

\* However far operators migrate up and down, whatever is written in between, and
\* even when migrate dies after the copy and runs it again: no attachment is lost.
NothingLost == wanted \subseteq Shown

\* Migrations run end to end, on a database that commits them whole, neither
\* revive an attachment a user deleted nor make one into several.
NothingAdded ==
  oneGo /\ atomic =>
    /\ Shown \subseteq wanted
    /\ Len(IF version >= 5 THEN links ELSE legacy) <= made

\* Upgrading end to end, and rolling back so, leaves the storage with the file of
\* every attachment, whatever is reclaimed in between.  (Another upgrade makes
\* several records of a shared file, and reclaiming one takes the bytes of all.)
FilesKept ==
  oneGo /\ atomic /\ moves <= 6 => \A a \in Shown : a[2] # NULL => a[2] \in kept
==============================================================================
