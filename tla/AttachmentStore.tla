--------------------------- MODULE AttachmentStore ---------------------------
(***************************************************************************)
(* The attachment side of DjangoDbNotificationBackend: AttachmentFileRecord *)
(* rows describing stored blobs, NotificationAttachment rows linking them  *)
(* to notifications, and the bytes a DjangoAttachmentManager keeps in a    *)
(* Django storage.                                                         *)
(*                                                                         *)
(* No handler opens a transaction and the storage is not transactional, so *)
(* each SQL statement and each storage operation is a step of its own.     *)
(* Between two steps other calls run, users disappear, and a call may stop *)
(* for good (its worker dies, or the statement raises), leaving what it    *)
(* wrote.  The notifications themselves are modelled in NotificationStore. *)
(***************************************************************************)
EXTENDS Naturals, Sequences, FiniteSets

CONSTANTS
  Notes,         \* notifications
  Files,         \* primary keys the AttachmentFileRecord table can hand out
  Links,         \* primary keys the NotificationAttachment table can hand out
  Names,         \* names the storage can hand out, never the same one twice
  Contents,      \* byte strings; one stands for its (checksum, size) too
  Calls,         \* calls made on the backend; each is made once
  Ops,           \* the operations callers use
  MaxItems,      \* bound on the attachments of one call
  ReclaimAlone,  \* callers do not reclaim while attachments are being attached
  Stopping,      \* the operations whose calls may stop between two steps
  NULL           \* no value

AttachOps == {"store_attachments", "attach_stored_attachments"}
AllOps    == AttachOps \cup {"store_attachment_file_record",
                             "delete_notification_attachment", "reclaim"}

\* The next step of a call, or how it ended: it returned, raised
\* AttachmentFileNotFoundError, IntegrityError or ProtectedError, or stopped.
Steps    == {"idle", "next", "upload", "insert", "link", "unlink", "list", "erase", "drop"}
Outcomes == {"ok", "file_not_found", "integrity_error", "protected", "stopped"}

ASSUME OpsAssumption    == Ops \subseteq AllOps
ASSUME BoundAssumption  == MaxItems \in Nat
ASSUME SwitchAssumption == ReclaimAlone \in BOOLEAN /\ Stopping \subseteq AllOps
ASSUME NullAssumption   ==
  /\ NULL \notin Notes \cup Links \cup Names \cup Contents
  /\ NULL \notin Files /\ NULL \notin AllOps

VARIABLES
  notes,   \* notifications that exist
  files,   \* file records that exist
  record,  \* record[f]: the columns of f, its last ones once deleted
  linked,  \* join rows that exist
  link,    \* link[l]: the columns of join row l, its last ones once deleted
  kept,    \* names whose bytes the storage holds
  blob,    \* blob[m]: the bytes saved under name m
  pc,      \* pc[c]: the next step of call c, or its outcome
  req,     \* req[c]: the arguments of call c
  hand,    \* hand[c]: the file record call c works on
  fresh,   \* fresh[c]: the name c has uploaded and no record carries yet
  made,    \* made[c]: the join rows c has written, in order
  before   \* before[c]: the join rows written when reclaim c listed its orphans

vars == <<notes, files, record, linked, link, kept, blob, pc, req, hand, fresh, made, before>>

Tables == <<notes, files, record, linked, link, kept, blob>>

\* An attachment to attach: bytes to upload or the id of a stored file.
Item == [content: Contents, file: {NULL}] \cup [content: {NULL}, file: Files]

Record  == [checksum: Contents \cup {NULL}, name: Names]
Link    == [note: Notes, file: Files]
Request == [op: AllOps \cup {NULL}, note: Notes \cup {NULL},
            items: Seq(Item), link: Links \cup {NULL}]

-----------------------------------------------------------------------------
(* Requests *)

Blank == [op |-> NULL, note |-> NULL, items |-> <<>>, link |-> NULL]

ItemLists(S) == UNION {[1 .. k -> S] : k \in 1 .. MaxItems}

\* The attachments of persist_notification, for the notification it inserted.
StoreRequests ==
  [op: {"store_attachments"}, note: notes, items: ItemLists(Item), link: {NULL}]

\* The attachments of persist_notification_update: files already stored.
ResendRequests ==
  [op: {"attach_stored_attachments"}, note: notes,
   items: ItemLists({x \in Item : x.file # NULL}), link: {NULL}]

\* The caller uploads through the manager, then stores the record it got, once:
\* storing the same one again would give two records one name.
RecordRequests ==
  [op: {"store_attachment_file_record"}, note: {NULL},
   items: {<<x>> : x \in {y \in Item : y.file = NULL}}, link: {NULL}]

UnlinkRequests ==
  [op: {"delete_notification_attachment"}, note: {NULL}, items: {<<>>}, link: DOMAIN link]

ReclaimRequests == [op: {"reclaim"}, note: {NULL}, items: {<<>>}, link: {NULL}]

Requests == StoreRequests \cup ResendRequests \cup RecordRequests
              \cup UnlinkRequests \cup ReclaimRequests

FirstStep(op) == CASE op \in AttachOps                        -> "next"
                   [] op = "store_attachment_file_record"     -> "upload"
                   [] op = "delete_notification_attachment"   -> "unlink"
                   [] op = "reclaim"                          -> "list"

Running(op) == {c \in Calls : req[c].op = op /\ pc[c] \in Steps}

\* The caller's side of ReclaimAlone.
Admitted(op) ==
  /\ op = "reclaim"  => \A other \in AttachOps : Running(other) = {}
  /\ op \in AttachOps => Running("reclaim") = {}

-----------------------------------------------------------------------------
(* Statements *)

\* Mutant of Matching: the lookup ignores the checksum.
MatchingAny(x) == files

\* filter(checksum=..., size=...)
Matching(x) == {f \in files : record[f].checksum = x}

References(f) == {l \in linked : link[l].file = f}

\* Mutant of Orphans: files nobody but one notification uses.
OrphansOffByOne == {f \in files : Cardinality(References(f)) <= 1}

\* filter(notification_attachments__isnull=True)
Orphans == {f \in files : References(f) = {}}

\* on_delete=PROTECT: a referenced record is not deleted.
MayDrop(f) == References(f) = {}

\* The attachment call c is at.
Current(c) == req[c].items[Len(made[c]) + 1]

Goto(c, next) == pc' = [pc EXCEPT ![c] = next]
Takes(c, f)   == hand' = [hand EXCEPT ![c] = f]

-----------------------------------------------------------------------------
(* Handlers *)

Begin(c) ==
  /\ pc[c] = "idle"
  /\ \E r \in Requests :
       /\ r.op \in Ops
       /\ ReclaimAlone => Admitted(r.op)
       /\ req' = [req EXCEPT ![c] = r]
       /\ Goto(c, FirstStep(r.op))
  /\ UNCHANGED <<Tables, hand, fresh, made, before>>

\* A reference is looked up by id; an id without a record raises, and what the
\* call has linked so far stays linked.
Resolve(c) ==
  /\ pc[c] = "next" /\ Len(made[c]) < Len(req[c].items)
  /\ Current(c).file # NULL
  /\ \/ /\ Current(c).file \in files
        /\ Takes(c, Current(c).file)
        /\ Goto(c, "link")
     \/ /\ Current(c).file \notin files
        /\ Goto(c, "file_not_found")
        /\ UNCHANGED hand
  /\ UNCHANGED <<Tables, req, fresh, made, before>>

\* Bytes are looked up by checksum first: a hit reuses the record, any one of
\* them if there are several, and a miss leads to an upload.
LookUp(c) ==
  /\ pc[c] = "next" /\ Len(made[c]) < Len(req[c].items)
  /\ Current(c).file = NULL
  /\ \/ \E f \in Matching(Current(c).content) : Takes(c, f) /\ Goto(c, "link")
     \/ /\ Matching(Current(c).content) = {}
        /\ Goto(c, "upload")
        /\ UNCHANGED hand
  /\ UNCHANGED <<Tables, req, fresh, made, before>>

\* manager.upload_file: the storage saves the bytes under a name of their own.
Upload(c) ==
  /\ pc[c] = "upload"
  /\ \E m \in Names \ DOMAIN blob :
       /\ blob' = [k \in DOMAIN blob \cup {m} |->
                     IF k \in DOMAIN blob THEN blob[k] ELSE Current(c).content]
       /\ kept' = kept \cup {m}
       /\ fresh' = [fresh EXCEPT ![c] = m]
  /\ Goto(c, "insert")
  /\ UNCHANGED <<notes, files, record, linked, link, req, hand, made, before>>

\* Mutant of InsertRecord: the identifiers of the upload are not saved.
InsertRecordUnidentified(c) ==
  /\ pc[c] = "insert"
  /\ \E f \in Files \ DOMAIN record :
       /\ record' = [g \in DOMAIN record \cup {f} |->
                       IF g \in DOMAIN record THEN record[g]
                       ELSE [checksum |-> Current(c).content, name |-> NULL]]
       /\ files' = files \cup {f}
       /\ Takes(c, f)
  /\ fresh' = [fresh EXCEPT ![c] = NULL]
  /\ Goto(c, IF req[c].op \in AttachOps THEN "link" ELSE "ok")
  /\ UNCHANGED <<notes, linked, link, kept, blob, req, made, before>>

\* The record of what was uploaded.
InsertRecord(c) ==
  /\ pc[c] = "insert"
  /\ \E f \in Files \ DOMAIN record :
       /\ record' = [g \in DOMAIN record \cup {f} |->
                       IF g \in DOMAIN record THEN record[g]
                       ELSE [checksum |-> Current(c).content, name |-> fresh[c]]]
       /\ files' = files \cup {f}
       /\ Takes(c, f)
  /\ fresh' = [fresh EXCEPT ![c] = NULL]
  /\ Goto(c, IF req[c].op \in AttachOps THEN "link" ELSE "ok")
  /\ UNCHANGED <<notes, linked, link, kept, blob, req, made, before>>

\* Mutant of Linkable: db_constraint=False.
LinkableUnchecked(c) == TRUE

\* The foreign keys of a join row.
Linkable(c) == req[c].note \in notes /\ hand[c] \in files

\* The join row.  The foreign keys refuse it when the notification or the record
\* is gone by now.  The handle is rebuilt after the row is there and raises for a
\* record without a name; every record has one here, and Stop is what a raise does.
InsertLink(c) ==
  /\ pc[c] = "link"
  /\ \/ /\ Linkable(c)
        /\ \E l \in Links \ DOMAIN link :
             /\ link' = [k \in DOMAIN link \cup {l} |->
                           IF k \in DOMAIN link THEN link[k]
                           ELSE [note |-> req[c].note, file |-> hand[c]]]
             /\ linked' = linked \cup {l}
             /\ made' = [made EXCEPT ![c] = Append(@, l)]
        /\ Goto(c, IF Len(made[c]) + 1 = Len(req[c].items) THEN "ok" ELSE "next")
     \/ /\ ~Linkable(c)
        /\ Goto(c, "integrity_error")
        /\ UNCHANGED <<linked, link, made>>
  /\ UNCHANGED <<notes, files, record, kept, blob, req, hand, fresh, before>>

\* Drops the join row only; a key that is gone is no error.
DeleteNotificationAttachment(c) ==
  /\ pc[c] = "unlink"
  /\ linked' = linked \ {req[c].link}
  /\ Goto(c, "ok")
  /\ UNCHANGED <<notes, files, record, link, kept, blob, req, hand, fresh, made, before>>

\* get_orphaned_attachment_files: the caller takes one of the candidates.
ListOrphans(c) ==
  /\ pc[c] = "list"
  /\ before' = [before EXCEPT ![c] = DOMAIN link]
  /\ \/ \E f \in Orphans : Takes(c, f) /\ Goto(c, "erase")
     \/ Orphans = {} /\ Goto(c, "ok") /\ UNCHANGED hand
  /\ UNCHANGED <<Tables, req, fresh, made>>

\* Mutant of EraseBytes: the bytes are left to the storage.
EraseNothing(c) ==
  /\ pc[c] = "erase"
  /\ Goto(c, "drop")
  /\ UNCHANGED <<Tables, req, hand, fresh, made, before>>

\* manager.delete_file_by_identifiers, with the identifiers read by ListOrphans.
EraseBytes(c) ==
  /\ pc[c] = "erase"
  /\ kept' = kept \ {record[hand[c]].name}
  /\ Goto(c, "drop")
  /\ UNCHANGED <<notes, files, record, linked, link, blob, req, hand, fresh, made, before>>

\* delete_attachment_file: refused while a join row references the record.
DropRecord(c) ==
  /\ pc[c] = "drop"
  /\ \/ /\ MayDrop(hand[c])
        /\ files' = files \ {hand[c]}
        /\ Goto(c, "ok")
     \/ /\ ~MayDrop(hand[c])
        /\ Goto(c, "protected")
        /\ UNCHANGED files
  /\ UNCHANGED <<notes, record, linked, link, kept, blob, req, hand, fresh, made, before>>

\* The worker dies, or a statement or storage operation raises.
Stop(c) ==
  /\ req[c].op \in Stopping
  /\ pc[c] \in Steps \ {"idle"}
  /\ Goto(c, "stopped")
  /\ UNCHANGED <<Tables, req, hand, fresh, made, before>>

-----------------------------------------------------------------------------
(* Environment *)

\* A user is deleted: the notifications go, and their join rows with them.
DeleteNotes(S) ==
  /\ S # {}
  /\ notes'  = notes \ S
  /\ linked' = {l \in linked : link[l].note \notin S}
  /\ UNCHANGED <<files, record, link, kept, blob, pc, req, hand, fresh, made, before>>

\* Files stored earlier, each under a name and with a checksum of its own, some of
\* them linked.  Records copied by migration 0005 have no checksum.
Init ==
  /\ notes \in SUBSET Notes
  /\ files \in SUBSET Files
  /\ kept  \in SUBSET Names
  /\ blob   \in [kept -> Contents]
  /\ record \in [files -> [checksum: Contents \cup {NULL}, name: kept]]
  /\ \A f, g \in files :
       \/ f = g
       \/ /\ record[f].name # record[g].name
          /\ record[f].checksum = NULL \/ record[f].checksum # record[g].checksum
  /\ \A f \in files : record[f].checksum \in {NULL, blob[record[f].name]}
  /\ \A m \in kept : \E f \in files : record[f].name = m
  /\ linked \in SUBSET Links
  /\ link \in [linked -> [note: notes, file: files]]
  /\ pc     = [c \in Calls |-> "idle"]
  /\ req    = [c \in Calls |-> Blank]
  /\ hand   = [c \in Calls |-> NULL]
  /\ fresh  = [c \in Calls |-> NULL]
  /\ made   = [c \in Calls |-> <<>>]
  /\ before = [c \in Calls |-> {}]

\* The statements of a call that has begun.
Proceed(c) ==
  \/ Resolve(c)
  \/ LookUp(c)
  \/ Upload(c)
  \/ InsertRecord(c)
  \/ InsertLink(c)
  \/ DeleteNotificationAttachment(c)
  \/ ListOrphans(c)
  \/ EraseBytes(c)
  \/ DropRecord(c)
  \/ Stop(c)

Handler(c) == Begin(c) \/ Proceed(c)

Next ==
  \/ \E c \in Calls : Handler(c)
  \/ \E S \in SUBSET notes : DeleteNotes(S)

Spec == Init /\ [][Next]_vars
-----------------------------------------------------------------------------
(* Properties *)

\* The record a join row points at, and the name that record's bytes are under.
FileOf(l) == link[l].file
NameOf(f) == record[f].name

TypeOK ==
  /\ notes \in SUBSET Notes
  /\ DOMAIN record \in SUBSET Files /\ files \in SUBSET DOMAIN record
  /\ record \in [DOMAIN record -> Record]
  /\ DOMAIN link \in SUBSET Links /\ linked \in SUBSET DOMAIN link
  /\ link \in [DOMAIN link -> Link]
  /\ DOMAIN blob \in SUBSET Names /\ kept \in SUBSET DOMAIN blob
  /\ blob \in [DOMAIN blob -> Contents]
  /\ pc \in [Calls -> Steps \cup Outcomes]
  /\ req \in [Calls -> Request]
  /\ hand \in [Calls -> DOMAIN record \cup {NULL}]
  /\ fresh \in [Calls -> DOMAIN blob \cup {NULL}]
  /\ made \in [Calls -> Seq(DOMAIN link)]
  /\ before \in [Calls -> SUBSET DOMAIN link]

\* However deletions of users, records and join rows race with calls that attach,
\* a join row always has its notification and its file record: reclaiming a
\* record that was linked since it was listed as an orphan is refused.
LinksResolve ==
  \A l \in linked : link[l].note \in notes /\ FileOf(l) \in files

\* Every join row a call wrote is for its notification and, in order, for what it
\* was asked to attach: the file referenced, or a record whose bytes are exactly
\* those uploaded, whether this call stored them or deduplication found them.  A
\* call that returned has attached everything.
AttachedWhatWasAsked ==
  \A c \in Calls :
    /\ \A i \in DOMAIN made[c] :
         LET l == made[c][i]
             x == req[c].items[i]
         IN /\ link[l].note = req[c].note
            /\ IF x.file = NULL THEN blob[NameOf(FileOf(l))] = x.content
               ELSE FileOf(l) = x.file
    /\ req[c].op \in AttachOps /\ pc[c] = "ok" => Len(made[c]) = Len(req[c].items)

\* Reclaiming takes the bytes of no attachment that existed when the orphans were
\* listed: an attachment without bytes was linked after a reclaim chose its file.
EstablishedLinksKeepBytes ==
  \A l \in linked :
    NameOf(FileOf(l)) \notin kept =>
      \E c \in Calls :
        /\ req[c].op = "reclaim" /\ pc[c] \notin {"idle", "list", "erase"}
        /\ hand[c] = FileOf(l)
        /\ l \notin before[c]

\* Bytes the storage keeps can always be found: a record carries their name,
\* unless the call that uploaded them has not inserted it yet, or stopped before
\* it did.  Reclaiming erases before it drops, so it never strands bytes.
BytesAccounted ==
  \A m \in kept :
    \/ \E f \in files : NameOf(f) = m
    \/ \E c \in Calls : fresh[c] = m

\* An attachment can be read back.  Holds when callers do not reclaim while others
\* attach and a reclaim, once begun, is not cut short.
BackedLinks == \A l \in linked : NameOf(FileOf(l)) \in kept

\* get_orphaned_attachment_files: it returns "file records no longer referenced by
\* any notification join row", and the two steps it documents remove their bytes.
ReclaimSparesReferenced == BackedLinks

\* _store_attachments: "a matching existing file record is reused and no upload
\* happens": bytes handed in by a call that returned are there to be read.
UploadsReadable ==
  \A c \in Calls : \A i \in DOMAIN made[c] :
    pc[c] = "ok" /\ made[c][i] \in linked /\ req[c].items[i].file = NULL =>
      NameOf(FileOf(made[c][i])) \in kept
==============================================================================
