------------------------ MODULE AttachmentStoreProofs ------------------------
(***************************************************************************)
(* Proofs about AttachmentStore, for any number of notifications, files,   *)
(* join rows, names, contents and concurrent calls.                        *)
(***************************************************************************)
EXTENDS AttachmentStore, SequenceTheorems, TLAPS

\* The steps at which a call has an attachment before it.
AtItem == {"next", "upload", "insert", "link"}

\* Where a call stands tells what it has done and what it holds.
ShapeOf(c) ==
  /\ pc[c] = "idle" =>
       req[c] = Blank /\ hand[c] = NULL /\ fresh[c] = NULL /\ made[c] = <<>>
  /\ pc[c] # "idle" => req[c].op \in AllOps
  /\ pc[c] \in {"next", "link"} => req[c].op \in AttachOps
  /\ pc[c] \in {"upload", "insert"} =>
       req[c].op \in AttachOps \cup {"store_attachment_file_record"}
  /\ pc[c] = "unlink" => req[c].op = "delete_notification_attachment"
  /\ pc[c] \in {"list", "erase", "drop"} => req[c].op = "reclaim"
  /\ req[c].op \in AttachOps => req[c].note \in Notes
  /\ Len(made[c]) <= Len(req[c].items)
  /\ pc[c] \in AtItem => Len(made[c]) < Len(req[c].items)
  /\ pc[c] \in {"upload", "insert"} => Current(c).file = NULL
  /\ pc[c] = "insert" => fresh[c] # NULL
  /\ fresh[c] # NULL => pc[c] \in {"insert", "stopped"}
  /\ pc[c] \in {"link", "erase", "drop"} => hand[c] # NULL
  /\ pc[c] = "list" => hand[c] = NULL
  /\ req[c].op \in AttachOps /\ pc[c] = "ok" => Len(made[c]) = Len(req[c].items)

Shape == \A c \in Calls : ShapeOf(c)

\* Join rows, those that are gone included, name records that once were written.
LinksRecorded == \A l \in DOMAIN link : FileOf(l) \in DOMAIN record

\* A record describes the bytes under its name, and no two share a name.
RecordsTell ==
  \A f \in DOMAIN record :
    /\ NameOf(f) \in DOMAIN blob
    /\ record[f].checksum # NULL => blob[NameOf(f)] = record[f].checksum
    /\ \A g \in DOMAIN record : NameOf(f) = NameOf(g) => f = g

\* What a call has uploaded is its own, and kept, until it inserts the record.
FreshOwned ==
  \A c \in Calls : fresh[c] # NULL =>
    /\ fresh[c] \in kept
    /\ \A f \in DOMAIN record : NameOf(f) # fresh[c]
    /\ \A d \in Calls : fresh[d] = fresh[c] => c = d
    /\ pc[c] = "insert" => blob[fresh[c]] = Current(c).content

\* File f is what attachment x asks for.
Serves(f, x) == IF x.file = NULL THEN blob[NameOf(f)] = x.content ELSE f = x.file

\* The record in hand is what the attachment at hand asks for.
InHand == \A c \in Calls : pc[c] = "link" => Serves(hand[c], Current(c))

\* What is linked to the file of a reclaim was linked after it was listed.
LinkedSince ==
  \A c \in Calls : req[c].op = "reclaim" =>
    \A l \in linked : FileOf(l) = hand[c] => l \notin before[c]

\* Only a reclaim takes the bytes of a record.
TakenByReclaim ==
  \A f \in files :
    NameOf(f) \notin kept =>
      \E c \in Calls :
        req[c].op = "reclaim" /\ pc[c] \notin {"idle", "list", "erase"} /\ hand[c] = f

\* A record is dropped after its bytes.
DroppedLast == \A c \in Calls : pc[c] = "drop" => NameOf(hand[c]) \notin kept

Inv ==
  /\ TypeOK
  /\ Shape
  /\ LinksRecorded
  /\ RecordsTell
  /\ FreshOwned
  /\ InHand
  /\ AttachedWhatWasAsked
  /\ LinksResolve
  /\ LinkedSince
  /\ TakenByReclaim
  /\ DroppedLast
  /\ BytesAccounted

\* A reclaim is at work on file f.
Reclaimed(f) == \E c \in Calls : pc[c] = "drop" /\ hand[c] = f

\* What the two assumptions on callers add: while a reclaim runs nobody attaches,
\* so what it chose stays an orphan, and only what it is about to drop lacks bytes.
Calm ==
  /\ Running("reclaim") = {} \/ \A op \in AttachOps : Running(op) = {}
  /\ \A c \in Calls : pc[c] \in {"erase", "drop"} => References(hand[c]) = {}
  /\ \A c \in Calls : req[c].op = "reclaim" => pc[c] # "stopped"
  /\ \A f \in files : NameOf(f) \in kept \/ Reclaimed(f)

-----------------------------------------------------------------------------
(* Requests *)

\* The attachments of a request are a non-empty sequence.
LEMMA ItemListsAreSeqs ==
  ASSUME NEW S, NEW s \in ItemLists(S)
  PROVE  s \in Seq(S) /\ Len(s) \in Nat /\ Len(s) > 0
<1>1. PICK k \in 1 .. MaxItems : s \in [1 .. k -> S]
  BY DEF ItemLists
<1>2. k \in Nat /\ k > 0
  BY <1>1, BoundAssumption
<1> QED
  BY <1>1, <1>2

\* A call not made yet carries no operation and no attachments.
LEMMA BlankWellFormed == Blank \in Request /\ Blank.op = NULL /\ Len(Blank.items) = 0
BY DEF Blank, Request

\* A request is well formed, and one that attaches has a notification and
\* something to attach.
LEMMA RequestsWellFormed ==
  ASSUME TypeOK, NEW r \in Requests
  PROVE  /\ r \in Request
         /\ r.op \in AllOps
         /\ r.op \in AttachOps \cup {"store_attachment_file_record"} => Len(r.items) > 0
         /\ r.op \in AttachOps => r.note \in Notes
         /\ r.op = "store_attachment_file_record" => r.items[1].file = NULL
<1>0. notes \in SUBSET Notes /\ DOMAIN link \in SUBSET Links
  BY DEF TypeOK
<1>1. CASE r \in StoreRequests
  <2>1. /\ r.op = "store_attachments" /\ r.note \in notes /\ r.items \in ItemLists(Item)
        /\ r.link = NULL
        /\ r = [op |-> r.op, note |-> r.note, items |-> r.items, link |-> r.link]
    BY <1>1 DEF StoreRequests
  <2>2. r.items \in Seq(Item) /\ Len(r.items) > 0
    BY <2>1, ItemListsAreSeqs
  <2> QED
    BY <1>0, <2>1, <2>2 DEF Request, AllOps, AttachOps
<1>2. CASE r \in ResendRequests
  <2> DEFINE R == {x \in Item : x.file # NULL}
  <2>1. /\ r.op = "attach_stored_attachments" /\ r.note \in notes /\ r.items \in ItemLists(R)
        /\ r.link = NULL
        /\ r = [op |-> r.op, note |-> r.note, items |-> r.items, link |-> r.link]
    BY <1>2 DEF ResendRequests
  <2> HIDE DEF R
  <2>2. r.items \in Seq(R) /\ Len(r.items) > 0
    BY <2>1, ItemListsAreSeqs
  <2>3. R \subseteq Item
    BY DEF R
  <2>4. r.items \in Seq(Item)
    BY <2>2, <2>3
  <2> QED
    BY <1>0, <2>1, <2>2, <2>4 DEF Request, AllOps, AttachOps
<1>3. CASE r \in RecordRequests
  <2>1. PICK x \in Item : x.file = NULL /\ r.items = <<x>>
    BY <1>3 DEF RecordRequests
  <2>2. /\ r.op = "store_attachment_file_record" /\ r.note = NULL /\ r.link = NULL
        /\ r = [op |-> r.op, note |-> r.note, items |-> r.items, link |-> r.link]
    BY <1>3 DEF RecordRequests
  <2>3. r.items \in Seq(Item) /\ Len(r.items) = 1 /\ r.items[1] = x
    BY <2>1
  <2>4. r \in Request
    BY <2>2, <2>3 DEF Request, AllOps
  <2>5. r.items[1].file = NULL /\ Len(r.items) > 0
    BY <2>1, <2>3
  <2> QED
    BY <2>2, <2>4, <2>5 DEF AllOps, AttachOps
<1>4. CASE r \in UnlinkRequests
  <2>1. /\ r.op = "delete_notification_attachment" /\ r.note = NULL /\ r.items = <<>>
        /\ r.link \in Links
        /\ r = [op |-> r.op, note |-> r.note, items |-> r.items, link |-> r.link]
    BY <1>0, <1>4 DEF UnlinkRequests
  <2>2. r.items \in Seq(Item)
    BY <2>1
  <2>3. r \in Request
    BY <2>1, <2>2 DEF Request, AllOps
  <2> QED
    BY <2>1, <2>3 DEF AllOps, AttachOps
<1>5. CASE r \in ReclaimRequests
  <2>1. /\ r.op = "reclaim" /\ r.note = NULL /\ r.items = <<>> /\ r.link = NULL
        /\ r = [op |-> r.op, note |-> r.note, items |-> r.items, link |-> r.link]
    BY <1>5 DEF ReclaimRequests
  <2>2. r.items \in Seq(Item)
    BY <2>1
  <2>3. r \in Request
    BY <2>1, <2>2 DEF Request, AllOps
  <2> QED
    BY <2>1, <2>3 DEF AllOps, AttachOps
<1> QED
  BY <1>1, <1>2, <1>3, <1>4, <1>5 DEF Requests

\* The attachment a call is at, while it has one.
LEMMA CurrentIsItem ==
  ASSUME TypeOK, NEW c \in Calls, Len(made[c]) < Len(req[c].items)
  PROVE  /\ Current(c) \in Item
         /\ Current(c).file = NULL => Current(c).content \in Contents
         /\ Current(c).file # NULL => Current(c).file \in Files
<1>1. made[c] \in Seq(DOMAIN link) /\ req[c].items \in Seq(Item)
  BY DEF TypeOK, Request
<1>2. Len(made[c]) + 1 \in 1 .. Len(req[c].items)
  BY <1>1
<1>3. Current(c) \in Item
  BY <1>1, <1>2 DEF Current
<1> QED
  BY <1>3, NullAssumption DEF Item

-----------------------------------------------------------------------------
(* Types *)

\* Initially every value is well typed.
LEMMA TypeInit == Init => TypeOK
<1> SUFFICES ASSUME Init PROVE TypeOK
  OBVIOUS
<1>1. /\ notes \in SUBSET Notes
      /\ DOMAIN record = files /\ files \in SUBSET Files
      /\ DOMAIN link = linked /\ linked \in SUBSET Links
      /\ DOMAIN blob = kept /\ kept \in SUBSET Names /\ blob \in [kept -> Contents]
  BY DEF Init
<1>2. record \in [DOMAIN record -> Record] /\ link \in [DOMAIN link -> Link]
  BY DEF Init, Record, Link
<1>3. /\ pc \in [Calls -> Steps \cup Outcomes]
      /\ hand \in [Calls -> DOMAIN record \cup {NULL}]
      /\ fresh \in [Calls -> DOMAIN blob \cup {NULL}]
      /\ before \in [Calls -> SUBSET DOMAIN link]
  BY DEF Init, Steps
<1>4. req \in [Calls -> Request]
  BY BlankWellFormed DEF Init
<1>5. made \in [Calls -> Seq(DOMAIN link)]
  BY DEF Init
<1> QED
  BY <1>1, <1>2, <1>3, <1>4, <1>5 DEF TypeOK

\* The first step of every operation is a step.
LEMMA FirstSteps ==
  ASSUME NEW op \in AllOps
  PROVE  /\ FirstStep(op) \in Steps \ {"idle"}
         /\ op \in AttachOps => FirstStep(op) = "next"
         /\ op = "store_attachment_file_record" => FirstStep(op) = "upload"
         /\ op = "delete_notification_attachment" => FirstStep(op) = "unlink"
         /\ op = "reclaim" => FirstStep(op) = "list"
BY DEF FirstStep, AllOps, AttachOps, Steps

\* Every step keeps every value well typed.
LEMMA TypeStep ==
  ASSUME TypeOK, Shape, [Next]_vars
  PROVE  TypeOK'
<1> USE DEF TypeOK
<1>1. ASSUME NEW c \in Calls, Begin(c) PROVE TypeOK'
  <2>1. PICK r \in Requests : req' = [req EXCEPT ![c] = r]
                              /\ pc' = [pc EXCEPT ![c] = FirstStep(r.op)]
    BY <1>1 DEF Begin, Goto
  <2>2. r \in Request /\ FirstStep(r.op) \in Steps
    BY RequestsWellFormed, FirstSteps
  <2>3. req' \in [Calls -> Request]
    BY <2>1, <2>2
  <2>4. pc' \in [Calls -> Steps \cup Outcomes]
    BY <2>1, <2>2
  <2> QED
    BY <1>1, <2>3, <2>4 DEF Begin, Tables
<1>2. ASSUME NEW c \in Calls, Resolve(c) PROVE TypeOK'
  <2>1. pc' \in [Calls -> Steps \cup Outcomes] /\ hand' \in [Calls -> DOMAIN record \cup {NULL}]
    BY <1>2 DEF Resolve, Goto, Takes, Steps, Outcomes
  <2> QED
    BY <1>2, <2>1 DEF Resolve, Tables
<1>3. ASSUME NEW c \in Calls, LookUp(c) PROVE TypeOK'
  <2>1. pc' \in [Calls -> Steps \cup Outcomes] /\ hand' \in [Calls -> DOMAIN record \cup {NULL}]
    BY <1>3 DEF LookUp, Goto, Takes, Matching, Steps, Outcomes
  <2> QED
    BY <1>3, <2>1 DEF LookUp, Tables
<1>4. ASSUME NEW c \in Calls, Upload(c) PROVE TypeOK'
  <2>1. Current(c).content \in Contents
    BY <1>4, CurrentIsItem DEF Upload, Shape, ShapeOf, AtItem
  <2>2. PICK m \in Names \ DOMAIN blob :
          /\ blob' = [k \in DOMAIN blob \cup {m} |->
                        IF k \in DOMAIN blob THEN blob[k] ELSE Current(c).content]
          /\ kept' = kept \cup {m}
          /\ fresh' = [fresh EXCEPT ![c] = m]
    BY <1>4 DEF Upload
  <2>3. DOMAIN blob' = DOMAIN blob \cup {m} /\ blob' \in [DOMAIN blob' -> Contents]
    BY <2>1, <2>2
  <2>4. fresh' \in [Calls -> DOMAIN blob' \cup {NULL}]
    BY <2>2, <2>3
  <2>5. pc' \in [Calls -> Steps \cup Outcomes]
    BY <1>4 DEF Upload, Goto, Steps
  <2> QED
    BY <1>4, <2>2, <2>3, <2>4, <2>5 DEF Upload
<1>5. ASSUME NEW c \in Calls, InsertRecord(c) PROVE TypeOK'
  <2>1. Current(c).content \in Contents /\ fresh[c] \in Names
    BY <1>5, CurrentIsItem DEF InsertRecord, Shape, ShapeOf, AtItem
  <2>2. PICK f \in Files \ DOMAIN record :
          /\ record' = [g \in DOMAIN record \cup {f} |->
                          IF g \in DOMAIN record THEN record[g]
                          ELSE [checksum |-> Current(c).content, name |-> fresh[c]]]
          /\ files' = files \cup {f}
          /\ hand' = [hand EXCEPT ![c] = f]
    BY <1>5 DEF InsertRecord, Takes
  <2>3. [checksum |-> Current(c).content, name |-> fresh[c]] \in Record
    BY <2>1 DEF Record
  <2>4. DOMAIN record' = DOMAIN record \cup {f} /\ record' \in [DOMAIN record' -> Record]
    BY <2>2, <2>3
  <2>5. hand' \in [Calls -> DOMAIN record' \cup {NULL}]
    BY <2>2, <2>4
  <2>6. fresh' \in [Calls -> DOMAIN blob \cup {NULL}]
    BY <1>5 DEF InsertRecord
  <2>7. pc' \in [Calls -> Steps \cup Outcomes]
    BY <1>5 DEF InsertRecord, Goto, Steps, Outcomes
  <2> QED
    BY <1>5, <2>2, <2>4, <2>5, <2>6, <2>7 DEF InsertRecord
<1>6. ASSUME NEW c \in Calls, InsertLink(c) PROVE TypeOK'
  <2>1. pc' \in [Calls -> Steps \cup Outcomes]
    BY <1>6 DEF InsertLink, Goto, Steps, Outcomes
  <2>2. CASE Linkable(c)
    <3>1. PICK l \in Links \ DOMAIN link :
            /\ link' = [k \in DOMAIN link \cup {l} |->
                          IF k \in DOMAIN link THEN link[k]
                          ELSE [note |-> req[c].note, file |-> hand[c]]]
            /\ linked' = linked \cup {l}
            /\ made' = [made EXCEPT ![c] = Append(@, l)]
      BY <1>6, <2>2 DEF InsertLink
    <3>2. [note |-> req[c].note, file |-> hand[c]] \in Link
      BY <2>2 DEF Linkable, Link
    <3>3. DOMAIN link' = DOMAIN link \cup {l} /\ link' \in [DOMAIN link' -> Link]
      BY <3>1, <3>2
    <3>4. ASSUME NEW d \in Calls PROVE made[d] \in Seq(DOMAIN link')
      BY <3>3, SeqMonotonic
    <3>5. Append(made[c], l) \in Seq(DOMAIN link')
      BY <3>3, <3>4
    <3>6. made' \in [Calls -> Seq(DOMAIN link')]
      BY <3>1, <3>4, <3>5
    <3>7. before' \in [Calls -> SUBSET DOMAIN link']
      BY <1>6, <3>3 DEF InsertLink
    <3> QED
      BY <1>6, <2>1, <3>1, <3>3, <3>6, <3>7 DEF InsertLink
  <2>3. CASE ~Linkable(c)
    BY <1>6, <2>1, <2>3 DEF InsertLink
  <2> QED
    BY <2>2, <2>3
<1>7. ASSUME NEW c \in Calls, DeleteNotificationAttachment(c) PROVE TypeOK'
  BY <1>7 DEF DeleteNotificationAttachment, Goto, Steps, Outcomes
<1>8. ASSUME NEW c \in Calls, ListOrphans(c) PROVE TypeOK'
  <2>1. /\ pc' \in [Calls -> Steps \cup Outcomes]
        /\ hand' \in [Calls -> DOMAIN record \cup {NULL}]
    BY <1>8 DEF ListOrphans, Goto, Takes, Orphans, Steps, Outcomes
  <2>2. before' \in [Calls -> SUBSET DOMAIN link]
    BY <1>8 DEF ListOrphans
  <2> QED
    BY <1>8, <2>1, <2>2 DEF ListOrphans, Tables
<1>9. ASSUME NEW c \in Calls, EraseBytes(c) PROVE TypeOK'
  BY <1>9 DEF EraseBytes, Goto, Steps
<1>10. ASSUME NEW c \in Calls, DropRecord(c) PROVE TypeOK'
  BY <1>10 DEF DropRecord, Goto, Steps, Outcomes
<1>11. ASSUME NEW c \in Calls, Stop(c) PROVE TypeOK'
  BY <1>11 DEF Stop, Tables, Goto, Outcomes
<1>12. ASSUME NEW S \in SUBSET notes, DeleteNotes(S) PROVE TypeOK'
  BY <1>12 DEF DeleteNotes
<1>13. CASE UNCHANGED vars
  BY <1>13 DEF vars
<1> QED
  BY <1>1, <1>2, <1>3, <1>4, <1>5, <1>6, <1>7, <1>8, <1>9, <1>10, <1>11, <1>12, <1>13
     DEF Next, Handler, Proceed

-----------------------------------------------------------------------------
(* What a step leaves alone *)

\* Rows and bytes, once written, never change: only their presence does.
LEMMA Written ==
  ASSUME TypeOK, [Next]_vars
  PROVE  /\ DOMAIN record \subseteq DOMAIN record'
         /\ \A f \in DOMAIN record : record'[f] = record[f]
         /\ DOMAIN link \subseteq DOMAIN link'
         /\ \A l \in DOMAIN link : link'[l] = link[l]
         /\ DOMAIN blob \subseteq DOMAIN blob'
         /\ \A m \in DOMAIN blob : blob'[m] = blob[m]
<1>1. ASSUME NEW c \in Calls, Upload(c)
      PROVE  /\ UNCHANGED <<record, link>>
             /\ DOMAIN blob \subseteq DOMAIN blob'
             /\ \A m \in DOMAIN blob : blob'[m] = blob[m]
  BY <1>1 DEF Upload
<1>2. ASSUME NEW c \in Calls, InsertRecord(c)
      PROVE  /\ UNCHANGED <<blob, link>>
             /\ DOMAIN record \subseteq DOMAIN record'
             /\ \A f \in DOMAIN record : record'[f] = record[f]
  BY <1>2 DEF InsertRecord
<1>3. ASSUME NEW c \in Calls, InsertLink(c)
      PROVE  /\ UNCHANGED <<blob, record>>
             /\ DOMAIN link \subseteq DOMAIN link'
             /\ \A l \in DOMAIN link : link'[l] = link[l]
  BY <1>3 DEF InsertLink
<1>4. ASSUME NEW c \in Calls,
             \/ Begin(c) \/ Resolve(c) \/ LookUp(c) \/ DeleteNotificationAttachment(c)
             \/ ListOrphans(c) \/ EraseBytes(c) \/ DropRecord(c) \/ Stop(c)
      PROVE  UNCHANGED <<record, link, blob>>
  BY <1>4 DEF Begin, Resolve, LookUp, DeleteNotificationAttachment, ListOrphans, EraseBytes,
              DropRecord, Stop, Tables
<1>5. ASSUME NEW S \in SUBSET notes, DeleteNotes(S) PROVE UNCHANGED <<record, link, blob>>
  BY <1>5 DEF DeleteNotes
<1>6. CASE UNCHANGED vars
  BY <1>6 DEF vars
<1> QED
  BY <1>1, <1>2, <1>3, <1>4, <1>5, <1>6 DEF Next, Handler, Proceed

\* A call moves only itself.
LEMMA Undisturbed ==
  ASSUME TypeOK, NEW c \in Calls, Handler(c), NEW d \in Calls, d # c
  PROVE  /\ pc'[d] = pc[d] /\ req'[d] = req[d] /\ hand'[d] = hand[d]
         /\ fresh'[d] = fresh[d] /\ made'[d] = made[d] /\ before'[d] = before[d]
<1> USE DEF TypeOK, Goto, Takes
<1>1. CASE Begin(c)
  BY <1>1 DEF Begin
<1>2. CASE Resolve(c)
  BY <1>2 DEF Resolve
<1>3. CASE LookUp(c)
  BY <1>3 DEF LookUp
<1>4. CASE Upload(c)
  BY <1>4 DEF Upload
<1>5. CASE InsertRecord(c)
  BY <1>5 DEF InsertRecord
<1>6. CASE InsertLink(c)
  BY <1>6 DEF InsertLink
<1>7. CASE DeleteNotificationAttachment(c)
  BY <1>7 DEF DeleteNotificationAttachment
<1>8. CASE ListOrphans(c)
  BY <1>8 DEF ListOrphans
<1>9. CASE EraseBytes(c)
  BY <1>9 DEF EraseBytes
<1>10. CASE DropRecord(c)
  BY <1>10 DEF DropRecord
<1>11. CASE Stop(c)
  BY <1>11 DEF Stop
<1> QED
  BY <1>1, <1>2, <1>3, <1>4, <1>5, <1>6, <1>7, <1>8, <1>9, <1>10, <1>11 DEF Handler, Proceed

\* The progress of all calls, which deletions of users and stuttering leave alone.
progress == <<pc, req, hand, fresh, made, before>>

\* A step is a handler's, or a deletion of users, or it changes nothing.
LEMMA StepKinds ==
  ASSUME [Next]_vars
  PROVE  \/ \E c \in Calls : Handler(c)
         \/ (\E S \in SUBSET notes : DeleteNotes(S)) /\ UNCHANGED progress
         \/ UNCHANGED vars /\ UNCHANGED progress
BY DEF Next, DeleteNotes, vars, progress

-----------------------------------------------------------------------------
(* Where calls stand *)

\* Initially no call has done anything.
LEMMA ShapeInit == Init => Shape
<1> SUFFICES ASSUME Init, NEW c \in Calls PROVE ShapeOf(c)
  BY DEF Shape
<1>1. /\ pc[c] = "idle" /\ req[c] = Blank /\ hand[c] = NULL /\ fresh[c] = NULL
      /\ made[c] = <<>> /\ Len(made[c]) = 0
  BY DEF Init
<1>2. Blank.op = NULL /\ Len(Blank.items) = 0 /\ NULL \notin AttachOps /\ NULL # "reclaim"
  BY BlankWellFormed, NullAssumption DEF AllOps
<1> QED
  BY <1>1, <1>2 DEF ShapeOf, AtItem

\* A call that moves stands where its statements have brought it.
LEMMA ShapeMover ==
  ASSUME TypeOK, TypeOK', Shape, NEW c \in Calls, Handler(c)
  PROVE  ShapeOf(c)'
<1> USE DEF Goto, Takes
<1>0. ShapeOf(c)
  BY DEF Shape
<1>t. pc[c] \in Steps \cup Outcomes /\ Len(made[c]) \in Nat /\ Len(req[c].items) \in Nat
  BY DEF TypeOK, Request
<1>1. CASE Begin(c)
  <2>1. PICK r \in Requests : req'[c] = r /\ pc'[c] = FirstStep(r.op)
    BY <1>1 DEF Begin, TypeOK
  <2>2. /\ r.op \in AllOps
        /\ r.op \in AttachOps \cup {"store_attachment_file_record"} => Len(r.items) > 0
        /\ r.op \in AttachOps => r.note \in Notes
        /\ r.op = "store_attachment_file_record" => r.items[1].file = NULL
        /\ Len(r.items) \in Nat
    BY RequestsWellFormed DEF Request
  <2>3. /\ made'[c] = <<>> /\ hand'[c] = NULL /\ fresh'[c] = NULL
    BY <1>1, <1>0 DEF Begin, ShapeOf
  <2>4. Len(made'[c]) = 0
    BY <2>3
  <2>5. r.op \in AllOps /\ r.op = "store_attachment_file_record" => Current(c)'.file = NULL
    BY <2>1, <2>2, <2>4 DEF Current
  <2>6. CASE r.op \in AttachOps
    <3>1. pc'[c] = "next" /\ r.op # "reclaim"
      BY <2>1, <2>2, <2>6, FirstSteps DEF AttachOps
    <3> QED
      BY <2>1, <2>2, <2>3, <2>4, <2>6, <3>1 DEF ShapeOf, AtItem
  <2>7. CASE r.op = "store_attachment_file_record"
    <3>1. pc'[c] = "upload"
      BY <2>1, <2>2, <2>7, FirstSteps
    <3> QED
      BY <2>1, <2>2, <2>3, <2>4, <2>5, <2>7, <3>1 DEF ShapeOf, AtItem, AttachOps
  <2>8. CASE r.op = "delete_notification_attachment"
    <3>1. pc'[c] = "unlink"
      BY <2>1, <2>2, <2>8, FirstSteps
    <3> QED
      BY <2>1, <2>2, <2>3, <2>4, <2>8, <3>1 DEF ShapeOf, AtItem, AttachOps
  <2>9. CASE r.op = "reclaim"
    <3>1. pc'[c] = "list"
      BY <2>1, <2>2, <2>9, FirstSteps
    <3> QED
      BY <2>1, <2>2, <2>3, <2>4, <2>9, <3>1 DEF ShapeOf, AtItem, AttachOps
  <2> QED
    BY <2>2, <2>6, <2>7, <2>8, <2>9 DEF AllOps
<1>2. CASE Resolve(c)
  <2>1. /\ pc[c] = "next" /\ Len(made[c]) < Len(req[c].items)
        /\ req'[c] = req[c] /\ made'[c] = made[c] /\ fresh'[c] = fresh[c]
    BY <1>2 DEF Resolve
  <2>2. \/ pc'[c] = "link" /\ hand'[c] \in files
        \/ pc'[c] = "file_not_found" /\ hand'[c] = hand[c]
    BY <1>2 DEF Resolve, TypeOK
  <2>3. NULL \notin files
    BY NullAssumption DEF TypeOK
  <2> QED
    BY <1>0, <1>t, <2>1, <2>2, <2>3 DEF ShapeOf, AtItem
<1>3. CASE LookUp(c)
  <2>1. /\ pc[c] = "next" /\ Len(made[c]) < Len(req[c].items) /\ Current(c).file = NULL
        /\ req'[c] = req[c] /\ made'[c] = made[c] /\ fresh'[c] = fresh[c]
    BY <1>3 DEF LookUp
  <2>2. \/ pc'[c] = "link" /\ hand'[c] \in files
        \/ pc'[c] = "upload" /\ hand'[c] = hand[c]
    BY <1>3 DEF LookUp, TypeOK, Matching
  <2>3. NULL \notin files
    BY NullAssumption DEF TypeOK
  <2>4. Current(c)' = Current(c)
    BY <2>1 DEF Current
  <2> QED
    BY <1>0, <1>t, <2>1, <2>2, <2>3, <2>4 DEF ShapeOf, AtItem
<1>4. CASE Upload(c)
  <2>1. /\ pc[c] = "upload" /\ pc'[c] = "insert"
        /\ req'[c] = req[c] /\ made'[c] = made[c] /\ hand'[c] = hand[c]
    BY <1>4 DEF Upload, TypeOK
  <2>2. fresh'[c] # NULL
    BY <1>4, NullAssumption DEF Upload, TypeOK
  <2>3. Current(c)' = Current(c)
    BY <2>1 DEF Current
  <2> QED
    BY <1>0, <1>t, <2>1, <2>2, <2>3 DEF ShapeOf, AtItem
<1>5. CASE InsertRecord(c)
  <2>1. /\ pc[c] = "insert" /\ pc'[c] = (IF req[c].op \in AttachOps THEN "link" ELSE "ok")
        /\ req'[c] = req[c] /\ made'[c] = made[c] /\ fresh'[c] = NULL
    BY <1>5 DEF InsertRecord, TypeOK
  <2>2. hand'[c] # NULL
    BY <1>5, NullAssumption DEF InsertRecord, TypeOK
  <2> QED
    BY <1>0, <1>t, <2>1, <2>2 DEF ShapeOf, AtItem
<1>6. CASE InsertLink(c)
  <2>1. pc[c] = "link" /\ req'[c] = req[c] /\ fresh'[c] = fresh[c] /\ hand'[c] = hand[c]
    BY <1>6 DEF InsertLink
  <2>2. CASE Linkable(c)
    <3>1. PICK l \in Links : made' = [made EXCEPT ![c] = Append(@, l)]
      BY <1>6, <2>2 DEF InsertLink
    <3>2. Len(made'[c]) = Len(made[c]) + 1
      BY <3>1 DEF TypeOK
    <3>3. pc'[c] = IF Len(made[c]) + 1 = Len(req[c].items) THEN "ok" ELSE "next"
      BY <1>6, <2>2 DEF InsertLink, TypeOK
    <3> QED
      BY <1>0, <1>t, <2>1, <3>2, <3>3 DEF ShapeOf, AtItem
  <2>3. CASE ~Linkable(c)
    BY <1>6, <1>0, <1>t, <2>1, <2>3 DEF InsertLink, TypeOK, ShapeOf, AtItem
  <2> QED
    BY <2>2, <2>3
<1>7. CASE DeleteNotificationAttachment(c)
  <2>1. /\ pc[c] = "unlink" /\ pc'[c] = "ok"
        /\ req'[c] = req[c] /\ made'[c] = made[c] /\ fresh'[c] = fresh[c]
    BY <1>7 DEF DeleteNotificationAttachment, TypeOK
  <2> QED
    BY <1>0, <1>t, <2>1 DEF ShapeOf, AtItem, AttachOps
<1>8. CASE ListOrphans(c)
  <2>1. /\ pc[c] = "list" /\ req'[c] = req[c] /\ made'[c] = made[c] /\ fresh'[c] = fresh[c]
    BY <1>8 DEF ListOrphans
  <2>2. (pc'[c] = "erase" /\ hand'[c] \in files) \/ pc'[c] = "ok"
    BY <1>8 DEF ListOrphans, Orphans, TypeOK
  <2>3. NULL \notin files
    BY NullAssumption DEF TypeOK
  <2> QED
    BY <1>0, <1>t, <2>1, <2>2, <2>3 DEF ShapeOf, AtItem, AttachOps
<1>9. CASE EraseBytes(c)
  <2>1. /\ pc[c] = "erase" /\ pc'[c] = "drop" /\ hand'[c] = hand[c]
        /\ req'[c] = req[c] /\ made'[c] = made[c] /\ fresh'[c] = fresh[c]
    BY <1>9 DEF EraseBytes, TypeOK
  <2> QED
    BY <1>0, <1>t, <2>1 DEF ShapeOf, AtItem
<1>10. CASE DropRecord(c)
  <2>1. /\ pc[c] = "drop" /\ pc'[c] \in {"ok", "protected"}
        /\ req'[c] = req[c] /\ made'[c] = made[c] /\ fresh'[c] = fresh[c]
    BY <1>10 DEF DropRecord, TypeOK
  <2> QED
    BY <1>0, <1>t, <2>1 DEF ShapeOf, AtItem, AttachOps
<1>11. CASE Stop(c)
  <2>1. /\ pc[c] # "idle" /\ pc'[c] = "stopped"
        /\ req'[c] = req[c] /\ made'[c] = made[c] /\ fresh'[c] = fresh[c]
    BY <1>11 DEF Stop, TypeOK
  <2> QED
    BY <1>0, <1>t, <2>1 DEF ShapeOf, AtItem
<1> QED
  BY <1>1, <1>2, <1>3, <1>4, <1>5, <1>6, <1>7, <1>8, <1>9, <1>10, <1>11 DEF Handler, Proceed

\* Every step leaves every call where its statements have brought it.
LEMMA ShapeStep ==
  ASSUME TypeOK, TypeOK', Shape, [Next]_vars
  PROVE  Shape'
<1>1. ASSUME NEW c \in Calls, Handler(c) PROVE Shape'
  <2>1. ASSUME NEW d \in Calls, d # c PROVE ShapeOf(d)'
    <3>1. /\ pc'[d] = pc[d] /\ req'[d] = req[d] /\ hand'[d] = hand[d]
          /\ fresh'[d] = fresh[d] /\ made'[d] = made[d]
      BY <1>1, <2>1, Undisturbed
    <3>2. Current(d)' = Current(d)
      BY <3>1 DEF Current
    <3>3. ShapeOf(d)
      BY DEF Shape
    <3> QED
      BY <3>1, <3>2, <3>3 DEF ShapeOf
  <2> QED
    BY <1>1, <2>1, ShapeMover DEF Shape
<1>2. CASE UNCHANGED progress
  BY <1>2 DEF progress, Shape, ShapeOf, Current
<1> QED
  BY <1>1, <1>2, StepKinds

-----------------------------------------------------------------------------
(* Where rows and bytes come from *)

\* A new join row is the one a call inserts, for its notification and the record
\* it holds.
LEMMA LinkOrigin ==
  ASSUME TypeOK, [Next]_vars, NEW l \in DOMAIN link', l \notin DOMAIN link
  PROVE  \E c \in Calls :
           /\ InsertLink(c) /\ Linkable(c)
           /\ link'[l] = [note |-> req[c].note, file |-> hand[c]]
<1>1. ASSUME NEW c \in Calls, InsertLink(c), Linkable(c)
      PROVE  link'[l] = [note |-> req[c].note, file |-> hand[c]]
  BY <1>1 DEF InsertLink
<1>2. ASSUME NEW c \in Calls, InsertLink(c), ~Linkable(c) PROVE FALSE
  BY <1>2 DEF InsertLink
<1>3. ASSUME NEW c \in Calls, Handler(c), ~InsertLink(c) PROVE FALSE
  BY <1>3 DEF Handler, Proceed, Begin, Resolve, LookUp, Upload, InsertRecord,
     DeleteNotificationAttachment, ListOrphans, EraseBytes, DropRecord, Stop, Tables
<1>4. ASSUME NEW S \in SUBSET notes, DeleteNotes(S) PROVE FALSE
  BY <1>4 DEF DeleteNotes
<1> QED
  BY <1>1, <1>2, <1>3, <1>4 DEF Next, vars

\* A join row that is gone does not come back.
LEMMA LinkedOnce ==
  ASSUME TypeOK, [Next]_vars, NEW l \in linked', l \in DOMAIN link
  PROVE  l \in linked
<1>1. ASSUME NEW c \in Calls, InsertLink(c) PROVE l \in linked
  BY <1>1 DEF InsertLink
<1>2. ASSUME NEW c \in Calls, Handler(c), ~InsertLink(c) PROVE l \in linked
  BY <1>2 DEF Handler, Proceed, Begin, Resolve, LookUp, Upload, InsertRecord,
     DeleteNotificationAttachment, ListOrphans, EraseBytes, DropRecord, Stop, Tables
<1>3. ASSUME NEW S \in SUBSET notes, DeleteNotes(S) PROVE l \in linked
  BY <1>3 DEF DeleteNotes
<1> QED
  BY <1>1, <1>2, <1>3 DEF Next, vars

\* A new record is the one a call inserts, for what it uploaded.
LEMMA RecordOrigin ==
  ASSUME TypeOK, [Next]_vars, NEW f \in DOMAIN record', f \notin DOMAIN record
  PROVE  \E c \in Calls :
           /\ InsertRecord(c)
           /\ record'[f] = [checksum |-> Current(c).content, name |-> fresh[c]]
           /\ DOMAIN record' = DOMAIN record \cup {f}
           /\ hand'[c] = f
<1>1. ASSUME NEW c \in Calls, InsertRecord(c)
      PROVE  /\ record'[f] = [checksum |-> Current(c).content, name |-> fresh[c]]
             /\ DOMAIN record' = DOMAIN record \cup {f}
             /\ hand'[c] = f
  BY <1>1 DEF InsertRecord, Takes, TypeOK
<1>2. ASSUME NEW c \in Calls, Handler(c), ~InsertRecord(c) PROVE FALSE
  BY <1>2 DEF Handler, Proceed, Begin, Resolve, LookUp, Upload, InsertLink,
     DeleteNotificationAttachment, ListOrphans, EraseBytes, DropRecord, Stop, Tables
<1>3. ASSUME NEW S \in SUBSET notes, DeleteNotes(S) PROVE FALSE
  BY <1>3 DEF DeleteNotes
<1> QED
  BY <1>1, <1>2, <1>3 DEF Next, vars

\* A record that is gone does not come back, and only DropRecord removes one.
LEMMA FilesOnce ==
  ASSUME TypeOK, [Next]_vars
  PROVE  /\ \A f \in files' : f \in DOMAIN record => f \in files
         /\ \A f \in files : f \notin files' =>
              \E c \in Calls : DropRecord(c) /\ MayDrop(hand[c]) /\ f = hand[c]
<1>1. ASSUME NEW c \in Calls, InsertRecord(c)
      PROVE  files \subseteq files' /\ \A f \in files' : f \in DOMAIN record => f \in files
  BY <1>1 DEF InsertRecord
<1>2. ASSUME NEW c \in Calls, DropRecord(c)
      PROVE  /\ files' \subseteq files
             /\ \A f \in files : f \notin files' => MayDrop(hand[c]) /\ f = hand[c]
  BY <1>2 DEF DropRecord
<1>3. ASSUME NEW c \in Calls, Handler(c), ~InsertRecord(c), ~DropRecord(c) PROVE files' = files
  BY <1>3 DEF Handler, Proceed, Begin, Resolve, LookUp, Upload, InsertLink,
     DeleteNotificationAttachment, ListOrphans, EraseBytes, Stop, Tables
<1>4. ASSUME NEW S \in SUBSET notes, DeleteNotes(S) PROVE files' = files
  BY <1>4 DEF DeleteNotes
<1> QED
  BY <1>1, <1>2, <1>3, <1>4 DEF Next, vars

\* Bytes that are gone do not come back, and only EraseBytes removes any.
LEMMA KeptOnce ==
  ASSUME TypeOK, [Next]_vars
  PROVE  /\ \A m \in kept' : m \in DOMAIN blob => m \in kept
         /\ \A m \in kept : m \notin kept' =>
              \E c \in Calls : EraseBytes(c) /\ m = NameOf(hand[c])
<1>1. ASSUME NEW c \in Calls, Upload(c)
      PROVE  kept \subseteq kept' /\ \A m \in kept' : m \in DOMAIN blob => m \in kept
  BY <1>1 DEF Upload
<1>2. ASSUME NEW c \in Calls, EraseBytes(c)
      PROVE  kept' \subseteq kept /\ \A m \in kept : m \notin kept' => m = NameOf(hand[c])
  BY <1>2 DEF EraseBytes, NameOf
<1>3. ASSUME NEW c \in Calls, Handler(c), ~Upload(c), ~EraseBytes(c) PROVE kept' = kept
  BY <1>3 DEF Handler, Proceed, Begin, Resolve, LookUp, InsertRecord, InsertLink,
     DeleteNotificationAttachment, ListOrphans, DropRecord, Stop, Tables
<1>4. ASSUME NEW S \in SUBSET notes, DeleteNotes(S) PROVE kept' = kept
  BY <1>4 DEF DeleteNotes
<1> QED
  BY <1>1, <1>2, <1>3, <1>4 DEF Next, vars

-----------------------------------------------------------------------------
(* The invariants on rows and bytes *)

\* A join row is written for a record that exists.
LEMMA LinksRecordedStep ==
  ASSUME TypeOK, LinksRecorded, [Next]_vars
  PROVE  LinksRecorded'
<1> SUFFICES ASSUME NEW l \in DOMAIN link' PROVE link'[l].file \in DOMAIN record'
  BY DEF LinksRecorded, FileOf
<1>1. CASE l \in DOMAIN link
  BY <1>1, Written DEF LinksRecorded, FileOf
<1>2. CASE l \notin DOMAIN link
  <2>1. PICK c \in Calls : Linkable(c) /\ link'[l] = [note |-> req[c].note, file |-> hand[c]]
    BY <1>2, LinkOrigin
  <2>2. hand[c] \in DOMAIN record
    BY <2>1 DEF Linkable, TypeOK
  <2> QED
    BY <2>1, <2>2, Written
<1> QED
  BY <1>1, <1>2

\* A record inserted names bytes of its own, with their checksum.
LEMMA RecordsTellStep ==
  ASSUME TypeOK, Shape, RecordsTell, FreshOwned, [Next]_vars
  PROVE  RecordsTell'
<1>1. ASSUME NEW f \in DOMAIN record
      PROVE  /\ record'[f] = record[f] /\ record[f].name \in DOMAIN blob'
             /\ blob'[record[f].name] = blob[record[f].name]
             /\ record[f].checksum # NULL => blob[record[f].name] = record[f].checksum
  BY <1>1, Written DEF RecordsTell, NameOf
<1>2. ASSUME NEW f \in DOMAIN record, NEW g \in DOMAIN record, record[f].name = record[g].name
      PROVE  f = g
  BY <1>2 DEF RecordsTell, NameOf
<1>3. CASE DOMAIN record' = DOMAIN record
  BY <1>1, <1>2, <1>3 DEF RecordsTell, NameOf
<1>4. ASSUME NEW n \in DOMAIN record', n \notin DOMAIN record PROVE RecordsTell'
  <2>1. PICK c \in Calls :
          /\ InsertRecord(c)
          /\ record'[n] = [checksum |-> Current(c).content, name |-> fresh[c]]
          /\ DOMAIN record' = DOMAIN record \cup {n}
    BY <1>4, RecordOrigin
  <2>2. pc[c] = "insert" /\ blob' = blob
    BY <2>1 DEF InsertRecord
  <2>3. fresh[c] # NULL
    BY <2>2 DEF Shape, ShapeOf
  <2>4. /\ fresh[c] \in DOMAIN blob /\ blob[fresh[c]] = Current(c).content
        /\ \A f \in DOMAIN record : record[f].name # fresh[c]
    BY <2>2, <2>3 DEF FreshOwned, TypeOK, NameOf
  <2>5. record'[n].name = fresh[c] /\ record'[n].checksum = Current(c).content
    BY <2>1
  <2>6. ASSUME NEW f \in DOMAIN record'
        PROVE  /\ record'[f].name \in DOMAIN blob'
               /\ record'[f].checksum # NULL => blob'[record'[f].name] = record'[f].checksum
    <3>1. CASE f = n
      BY <2>2, <2>4, <2>5, <3>1
    <3>2. CASE f \in DOMAIN record
      BY <1>1, <3>2
    <3> QED
      BY <2>1, <3>1, <3>2
  <2>7. ASSUME NEW f \in DOMAIN record', NEW g \in DOMAIN record',
               record'[f].name = record'[g].name
        PROVE  f = g
    <3>1. CASE f = n /\ g \in DOMAIN record
      BY <1>1, <2>4, <2>5, <2>7, <3>1
    <3>2. CASE g = n /\ f \in DOMAIN record
      BY <1>1, <2>4, <2>5, <2>7, <3>2
    <3>3. CASE f \in DOMAIN record /\ g \in DOMAIN record
      BY <1>1, <1>2, <2>7, <3>3
    <3> QED
      BY <2>1, <3>1, <3>2, <3>3
  <2> QED
    BY <2>6, <2>7 DEF RecordsTell, NameOf
<1> QED
  BY <1>3, <1>4, Written

\* Nobody else erases, records or uploads under a name a call has uploaded.
LEMMA FreshOwnedStep ==
  ASSUME TypeOK, Shape, RecordsTell, FreshOwned, [Next]_vars
  PROVE  FreshOwned'
<1>1. ASSUME NEW e \in Calls, fresh[e] # NULL
      PROVE  /\ fresh[e] \in DOMAIN blob /\ blob'[fresh[e]] = blob[fresh[e]]
             /\ fresh[e] \in kept'
  <2>1. fresh[e] \in kept /\ fresh[e] \in DOMAIN blob /\ \A f \in DOMAIN record : NameOf(f) # fresh[e]
    BY <1>1 DEF FreshOwned, TypeOK
  <2>2. ASSUME fresh[e] \notin kept' PROVE FALSE
    <3>1. PICK c \in Calls : EraseBytes(c) /\ fresh[e] = NameOf(hand[c])
      BY <2>1, <2>2, KeptOnce
    <3>2. hand[c] \in DOMAIN record
      BY <3>1 DEF EraseBytes, Shape, ShapeOf, TypeOK
    <3> QED
      BY <2>1, <3>1, <3>2
  <2> QED
    BY <2>1, <2>2, Written
<1>2. ASSUME NEW c \in Calls, Upload(c) PROVE FreshOwned'
  <2>1. PICK m \in Names \ DOMAIN blob :
          /\ blob' = [k \in DOMAIN blob \cup {m} |->
                        IF k \in DOMAIN blob THEN blob[k] ELSE Current(c).content]
          /\ kept' = kept \cup {m}
          /\ fresh' = [fresh EXCEPT ![c] = m]
    BY <1>2 DEF Upload
  <2>2. /\ UNCHANGED <<record, req, made>> /\ pc[c] = "upload"
        /\ blob'[m] = Current(c).content /\ m \in kept'
        /\ fresh'[c] = m /\ \A d \in Calls : d # c => fresh'[d] = fresh[d] /\ pc'[d] = pc[d]
    BY <1>2, <2>1 DEF Upload, Goto, TypeOK
  <2>3. \A d \in Calls : Current(d)' = Current(d)
    BY <2>2 DEF Current
  <2>4. ASSUME NEW f \in DOMAIN record PROVE NameOf(f)' = NameOf(f) /\ NameOf(f) # m
    BY <2>2 DEF NameOf, RecordsTell
  <2>5. ASSUME NEW d \in Calls, fresh[d] # NULL PROVE fresh[d] # m
    BY <1>1, <2>5
  <2>6. ASSUME NEW e \in Calls, fresh'[e] # NULL
        PROVE  /\ fresh'[e] \in kept'
               /\ \A f \in DOMAIN record' : NameOf(f)' # fresh'[e]
               /\ \A d \in Calls : fresh'[d] = fresh'[e] => e = d
               /\ pc'[e] = "insert" => blob'[fresh'[e]] = Current(e)'.content
    <3>1. CASE e = c
      BY <2>2, <2>3, <2>4, <2>5, <3>1, NullAssumption
    <3>2. CASE e # c
      <4>1. /\ fresh'[e] = fresh[e] /\ pc'[e] = pc[e] /\ fresh[e] # NULL /\ fresh[e] # m
        BY <2>2, <2>5, <2>6, <3>2
      <4>2. \A d \in Calls : fresh'[d] = fresh[e] => e = d
        BY <2>2, <4>1 DEF FreshOwned
      <4> QED
        BY <1>1, <2>2, <2>3, <2>4, <4>1, <4>2 DEF FreshOwned
    <3> QED
      BY <3>1, <3>2
  <2> QED
    BY <2>6 DEF FreshOwned
<1>3. ASSUME NEW c \in Calls, InsertRecord(c) PROVE FreshOwned'
  <2>1. /\ fresh'[c] = NULL /\ UNCHANGED <<req, made>> /\ pc[c] = "insert"
        /\ \A d \in Calls : d # c => fresh'[d] = fresh[d] /\ pc'[d] = pc[d]
    BY <1>3 DEF InsertRecord, Goto, TypeOK
  <2>2. \A d \in Calls : Current(d)' = Current(d)
    BY <2>1 DEF Current
  <2>3. PICK n \in Files \ DOMAIN record :
          record' = [g \in DOMAIN record \cup {n} |->
                       IF g \in DOMAIN record THEN record[g]
                       ELSE [checksum |-> Current(c).content, name |-> fresh[c]]]
    BY <1>3 DEF InsertRecord
  <2>4. fresh[c] # NULL
    BY <2>1 DEF Shape, ShapeOf
  <2>5. ASSUME NEW e \in Calls, fresh'[e] # NULL
        PROVE  /\ fresh'[e] \in kept'
               /\ \A f \in DOMAIN record' : NameOf(f)' # fresh'[e]
               /\ \A d \in Calls : fresh'[d] = fresh'[e] => e = d
               /\ pc'[e] = "insert" => blob'[fresh'[e]] = Current(e)'.content
    <3>1. e # c /\ fresh'[e] = fresh[e] /\ pc'[e] = pc[e] /\ fresh[e] # NULL
      BY <2>1, <2>5
    <3>2. fresh[c] # fresh[e]
      BY <2>4, <3>1 DEF FreshOwned
    <3>3. ASSUME NEW f \in DOMAIN record' PROVE record'[f].name # fresh[e]
      <4>1. CASE f \in DOMAIN record
        BY <2>3, <3>1, <4>1 DEF FreshOwned, NameOf
      <4>2. CASE f = n
        BY <2>3, <3>2, <4>2
      <4> QED
        BY <2>3, <4>1, <4>2
    <3>4. \A d \in Calls : fresh'[d] = fresh[e] => e = d
      BY <2>1, <3>1 DEF FreshOwned
    <3> QED
      BY <1>1, <2>2, <3>1, <3>3, <3>4 DEF FreshOwned, NameOf
  <2> QED
    BY <2>5 DEF FreshOwned
<1>4. ASSUME record' = record, fresh' = fresh,
             \A e \in Calls : fresh[e] # NULL /\ pc'[e] = "insert" =>
                                pc[e] = "insert" /\ Current(e)' = Current(e)
      PROVE  FreshOwned'
  <2>1. ASSUME NEW e \in Calls, fresh'[e] # NULL
        PROVE  /\ fresh'[e] \in kept'
               /\ \A f \in DOMAIN record' : NameOf(f)' # fresh'[e]
               /\ \A d \in Calls : fresh'[d] = fresh'[e] => e = d
               /\ pc'[e] = "insert" => blob'[fresh'[e]] = Current(e)'.content
    BY <1>1, <1>4, <2>1 DEF FreshOwned, NameOf
  <2> QED
    BY <2>1 DEF FreshOwned
<1>5. ASSUME NEW c \in Calls, Handler(c), ~Upload(c), ~InsertRecord(c) PROVE FreshOwned'
  <2>1. record' = record /\ fresh' = fresh
    BY <1>5 DEF Handler, Proceed, Begin, Resolve, LookUp, InsertLink, DeleteNotificationAttachment,
       ListOrphans, EraseBytes, DropRecord, Stop, Tables
  <2>2. pc'[c] # "insert" \/ fresh[c] = NULL
    <3>1. CASE Begin(c)
      BY <3>1 DEF Begin, Shape, ShapeOf
    <3>2. CASE ~Begin(c)
      BY <1>5, <3>2 DEF Handler, Proceed, Resolve, LookUp, InsertLink, DeleteNotificationAttachment,
         ListOrphans, EraseBytes, DropRecord, Stop, Goto, TypeOK
    <3> QED
      BY <3>1, <3>2
  <2>3. ASSUME NEW e \in Calls, e # c PROVE pc'[e] = pc[e] /\ Current(e)' = Current(e)
    BY <1>5, <2>3, Undisturbed DEF Current
  <2> QED
    BY <1>4, <2>1, <2>2, <2>3
<1>6. CASE UNCHANGED progress /\ record' = record
  BY <1>4, <1>6 DEF progress, Current
<1>7. ASSUME NEW S \in SUBSET notes, DeleteNotes(S) PROVE record' = record
  BY <1>7 DEF DeleteNotes
<1> QED
  BY <1>2, <1>3, <1>5, <1>6, <1>7, StepKinds DEF vars

\* A reclaim past its erasure keeps its file in hand.
LEMMA TakerStays ==
  ASSUME TypeOK, Shape, [Next]_vars, NEW d \in Calls,
         req[d].op = "reclaim", pc[d] \notin {"idle", "list", "erase"}
  PROVE  req'[d].op = "reclaim" /\ pc'[d] \notin {"idle", "list", "erase"} /\ hand'[d] = hand[d]
<1>0. ShapeOf(d)
  BY DEF Shape
<1>1. ASSUME NEW c \in Calls, Handler(c), c # d
      PROVE  req'[d] = req[d] /\ pc'[d] = pc[d] /\ hand'[d] = hand[d]
  BY <1>1, Undisturbed
<1>2. CASE Handler(d)
  <2>1. DropRecord(d) \/ Stop(d)
    BY <1>0, <1>2 DEF Handler, Proceed, ShapeOf, Begin, Resolve, LookUp, Upload, InsertRecord, InsertLink,
       DeleteNotificationAttachment, ListOrphans, EraseBytes, DropRecord, Stop, AttachOps
  <2> QED
    BY <2>1 DEF DropRecord, Stop, Goto, TypeOK
<1>3. CASE UNCHANGED progress
  BY <1>3 DEF progress
<1> QED
  BY <1>1, <1>2, <1>3, StepKinds

\* Erasing is a reclaim's, and what is inserted is kept.
LEMMA TakenByReclaimStep ==
  ASSUME TypeOK, TypeOK', Shape, RecordsTell, FreshOwned, TakenByReclaim, [Next]_vars
  PROVE  TakenByReclaim'
<1> DEFINE Taker(c, f) ==
      req[c].op = "reclaim" /\ pc[c] \notin {"idle", "list", "erase"} /\ hand[c] = f
<1> SUFFICES ASSUME NEW f \in files', record'[f].name \notin kept'
             PROVE  \E c \in Calls : /\ req'[c].op = "reclaim"
                                     /\ pc'[c] \notin {"idle", "list", "erase"}
                                     /\ hand'[c] = f
  BY DEF TakenByReclaim, NameOf
<1>1. CASE f \notin files
  <2>1. f \in DOMAIN record' /\ f \notin DOMAIN record
    BY <1>1, FilesOnce DEF TypeOK
  <2>2. PICK c \in Calls :
          /\ InsertRecord(c)
          /\ record'[f] = [checksum |-> Current(c).content, name |-> fresh[c]]
    BY <2>1, RecordOrigin
  <2>3. fresh[c] # NULL /\ kept' = kept
    BY <2>2 DEF InsertRecord, Shape, ShapeOf
  <2>4. record'[f].name \in kept'
    BY <2>2, <2>3 DEF FreshOwned
  <2> QED
    BY <2>4
<1>2. CASE f \in files
  <2>1. f \in DOMAIN record /\ record'[f] = record[f] /\ record[f].name \in DOMAIN blob
    BY <1>2, Written DEF TypeOK, RecordsTell, NameOf
  <2>2. CASE record[f].name \in kept
    <3>1. PICK c \in Calls : EraseBytes(c) /\ record[f].name = NameOf(hand[c])
      BY <2>1, <2>2, KeptOnce
    <3>2. /\ pc[c] = "erase" /\ pc'[c] = "drop" /\ hand'[c] = hand[c] /\ req'[c] = req[c]
      BY <3>1 DEF EraseBytes, Goto, TypeOK
    <3>3. req[c].op = "reclaim" /\ hand[c] \in DOMAIN record
      BY <3>2 DEF Shape, ShapeOf, TypeOK
    <3>4. hand[c] = f
      BY <2>1, <3>1, <3>3 DEF RecordsTell, NameOf
    <3> QED
      BY <3>2, <3>3, <3>4
  <2>3. CASE record[f].name \notin kept
    <3>1. PICK c \in Calls : Taker(c, f)
      BY <1>2, <2>3 DEF TakenByReclaim, NameOf
    <3> QED
      BY <3>1, TakerStays
  <2> QED
    BY <2>2, <2>3
<1> QED
  BY <1>1, <1>2

\* EraseBytes comes before DropRecord, and erased bytes do not come back.
LEMMA DroppedLastStep ==
  ASSUME TypeOK, Shape, RecordsTell, DroppedLast, [Next]_vars
  PROVE  DroppedLast'
<1> SUFFICES ASSUME NEW d \in Calls, pc'[d] = "drop" PROVE record'[hand'[d]].name \notin kept'
  BY DEF DroppedLast, NameOf
<1>1. CASE EraseBytes(d)
  BY <1>1 DEF EraseBytes
<1>2. CASE ~EraseBytes(d)
  <2>1. pc[d] = "drop" /\ hand'[d] = hand[d]
    <3>1. ASSUME NEW c \in Calls, Handler(c), c # d PROVE pc'[d] = pc[d] /\ hand'[d] = hand[d]
      BY <3>1, Undisturbed
    <3>2. CASE Begin(d)
      <4>1. PICK r \in Requests : pc'[d] = FirstStep(r.op)
        BY <3>2 DEF Begin, Goto, TypeOK
      <4> QED
        BY <4>1, RequestsWellFormed DEF FirstStep, AllOps, AttachOps
    <3>3. CASE Handler(d) /\ ~Begin(d)
      BY <1>2, <3>3 DEF Handler, Proceed, Resolve, LookUp, Upload, InsertRecord, InsertLink,
         DeleteNotificationAttachment, ListOrphans, DropRecord, Stop, Goto, TypeOK
    <3>4. CASE UNCHANGED progress
      BY <3>4 DEF progress
    <3> QED
      BY <3>1, <3>2, <3>3, <3>4, StepKinds
  <2>2. hand[d] \in DOMAIN record
    BY <2>1 DEF Shape, ShapeOf, TypeOK
  <2>3. record[hand[d]].name \in DOMAIN blob /\ record[hand[d]].name \notin kept
    BY <2>1, <2>2 DEF RecordsTell, DroppedLast, NameOf
  <2> QED
    BY <2>1, <2>2, <2>3, Written, KeptOnce
<1> QED
  BY <1>1, <1>2

\* Bytes pass from the call that uploads them to the record it inserts, and a
\* record goes after them.
LEMMA BytesAccountedStep ==
  ASSUME TypeOK, Shape, RecordsTell, FreshOwned, DroppedLast, BytesAccounted, [Next]_vars
  PROVE  BytesAccounted'
<1> SUFFICES ASSUME NEW m \in kept'
             PROVE  (\E f \in files' : record'[f].name = m) \/ (\E c \in Calls : fresh'[c] = m)
  BY DEF BytesAccounted, NameOf
<1>1. CASE m \notin kept
  <2>1. ASSUME NEW c \in Calls, Upload(c) PROVE fresh'[c] = m
    BY <1>1, <2>1 DEF Upload, TypeOK
  <2>2. ASSUME NEW c \in Calls, Handler(c), ~Upload(c) PROVE FALSE
    BY <1>1, <2>2 DEF Handler, Proceed, Begin, Resolve, LookUp, InsertRecord, InsertLink,
       DeleteNotificationAttachment, ListOrphans, EraseBytes, DropRecord, Stop, Tables
  <2>3. ASSUME NEW S \in SUBSET notes, DeleteNotes(S) PROVE FALSE
    BY <1>1, <2>3 DEF DeleteNotes
  <2> QED
    BY <1>1, <2>1, <2>2, <2>3 DEF Next, vars
<1>2. ASSUME m \in kept, NEW f \in files, record[f].name = m
      PROVE  \E g \in files' : record'[g].name = m
  <2>1. record'[f] = record[f]
    BY Written DEF TypeOK
  <2>2. ASSUME f \notin files' PROVE FALSE
    <3>1. PICK c \in Calls : DropRecord(c) /\ f = hand[c]
      BY <2>2, FilesOnce
    <3>2. pc[c] = "drop"
      BY <3>1 DEF DropRecord
    <3> QED
      BY <1>2, <3>1, <3>2 DEF DroppedLast, NameOf
  <2> QED
    BY <1>2, <2>1, <2>2
<1>3. ASSUME m \in kept, NEW c \in Calls, fresh[c] = m, fresh'[c] # m
      PROVE  \E g \in files' : record'[g].name = m
  <2>1. m # NULL /\ pc[c] \in {"insert", "stopped"}
    <3>1. m # NULL
      BY <1>3, NullAssumption DEF TypeOK
    <3> QED
      BY <1>3, <3>1 DEF Shape, ShapeOf
  <2>2. InsertRecord(c)
    <3>1. ASSUME NEW d \in Calls, Handler(d), d # c PROVE FALSE
      BY <1>3, <3>1, Undisturbed
    <3>2. CASE Handler(c) /\ ~InsertRecord(c)
      BY <1>3, <2>1, <3>2 DEF Handler, Proceed, Begin, Resolve, LookUp, Upload, InsertLink,
         DeleteNotificationAttachment, ListOrphans, EraseBytes, DropRecord, Stop
    <3>3. CASE UNCHANGED progress
      BY <1>3, <3>3 DEF progress
    <3> QED
      BY <3>1, <3>2, <3>3, StepKinds
  <2>3. PICK f \in Files \ DOMAIN record :
          /\ record' = [g \in DOMAIN record \cup {f} |->
                          IF g \in DOMAIN record THEN record[g]
                          ELSE [checksum |-> Current(c).content, name |-> fresh[c]]]
          /\ files' = files \cup {f}
    BY <2>2 DEF InsertRecord
  <2>4. f \in files' /\ record'[f].name = fresh[c]
    BY <2>3
  <2> QED
    BY <1>3, <2>4
<1> QED
  BY <1>1, <1>2, <1>3 DEF BytesAccounted, NameOf

\* A join row goes with its notification, and keeps its record from being deleted.
LEMMA LinksResolveStep ==
  ASSUME TypeOK, TypeOK', LinksResolve, [Next]_vars
  PROVE  LinksResolve'
<1> SUFFICES ASSUME NEW l \in linked' PROVE link'[l].note \in notes' /\ link'[l].file \in files'
  BY DEF LinksResolve, FileOf
<1>1. CASE l \in DOMAIN link
  <2>1. l \in linked /\ link'[l] = link[l]
    BY <1>1, LinkedOnce, Written
  <2>2. link[l].note \in notes /\ link[l].file \in files
    BY <2>1 DEF LinksResolve, FileOf
  <2>3. link[l].file \in files'
    <3>1. ASSUME link[l].file \notin files' PROVE FALSE
      <4>1. PICK c \in Calls : DropRecord(c) /\ MayDrop(hand[c]) /\ link[l].file = hand[c]
        BY <2>2, <3>1, FilesOnce
      <4> QED
        BY <2>1, <4>1 DEF MayDrop, References
    <3> QED
      BY <3>1
  <2>4. link[l].note \in notes'
    <3>1. ASSUME NEW c \in Calls, Handler(c) PROVE notes' = notes
      BY <3>1 DEF Handler, Proceed, Begin, Resolve, LookUp, Upload, InsertRecord, InsertLink,
         DeleteNotificationAttachment, ListOrphans, EraseBytes, DropRecord, Stop, Tables
    <3>2. ASSUME NEW S \in SUBSET notes, DeleteNotes(S) PROVE link[l].note \in notes'
      BY <2>2, <3>2 DEF DeleteNotes
    <3> QED
      BY <2>2, <3>1, <3>2 DEF Next, vars
  <2> QED
    BY <2>1, <2>3, <2>4
<1>2. CASE l \notin DOMAIN link
  <2>1. l \in DOMAIN link'
    BY DEF TypeOK
  <2>2. PICK c \in Calls : /\ InsertLink(c) /\ Linkable(c)
                           /\ link'[l] = [note |-> req[c].note, file |-> hand[c]]
    BY <1>2, <2>1, LinkOrigin
  <2>3. UNCHANGED <<notes, files>>
    BY <2>2 DEF InsertLink
  <2> QED
    BY <2>2, <2>3 DEF Linkable
<1> QED
  BY <1>1, <1>2

\* What ListOrphans chose was not linked, and whatever is linked later is new.
LEMMA LinkedSinceStep ==
  ASSUME TypeOK, TypeOK', Shape, LinkedSince, [Next]_vars
  PROVE  LinkedSince'
<1> SUFFICES ASSUME NEW d \in Calls, req'[d].op = "reclaim",
                    NEW l \in linked', link'[l].file = hand'[d]
             PROVE  l \notin before'[d]
  BY DEF LinkedSince, FileOf
<1>0. hand'[d] # NULL
  BY NullAssumption DEF TypeOK, Link
<1>1. CASE req'[d] = req[d] /\ hand'[d] = hand[d] /\ before'[d] = before[d]
  <2>1. CASE l \in DOMAIN link
    BY <1>1, <2>1, LinkedOnce, Written DEF LinkedSince, FileOf
  <2>2. CASE l \notin DOMAIN link
    BY <1>1, <2>2 DEF TypeOK
  <2> QED
    BY <2>1, <2>2
<1>2. CASE Begin(d)
  BY <1>0, <1>2 DEF Begin, Shape, ShapeOf
<1>3. CASE ListOrphans(d)
  <2>1. l \in linked /\ link' = link
    BY <1>3 DEF ListOrphans, Tables
  <2>2. CASE hand'[d] \in Orphans
    BY <1>0, <2>1, <2>2 DEF Orphans, References
  <2>3. CASE hand'[d] = hand[d]
    BY <1>0, <1>3, <2>3 DEF ListOrphans, Shape, ShapeOf
  <2> QED
    BY <1>3, <2>2, <2>3 DEF ListOrphans, Takes, TypeOK
<1>4. CASE Handler(d) /\ ~Begin(d) /\ ~ListOrphans(d)
  <2>1. req'[d] = req[d]
    BY <1>4 DEF Handler, Proceed, Resolve, LookUp, Upload, InsertRecord, InsertLink,
       DeleteNotificationAttachment, EraseBytes, DropRecord, Stop
  <2>2. EraseBytes(d) \/ DropRecord(d) \/ Stop(d)
    <3>1. ShapeOf(d)
      BY DEF Shape
    <3> QED
      BY <1>4, <2>1, <3>1 DEF Handler, Proceed, ShapeOf, AttachOps, Resolve, LookUp, Upload, InsertRecord,
         InsertLink, DeleteNotificationAttachment
  <2> QED
    BY <1>1, <2>2 DEF EraseBytes, DropRecord, Stop
<1>5. ASSUME NEW c \in Calls, Handler(c), c # d
      PROVE  req'[d] = req[d] /\ hand'[d] = hand[d] /\ before'[d] = before[d]
  BY <1>5, Undisturbed
<1>6. CASE UNCHANGED progress
  BY <1>1, <1>6 DEF progress
<1> QED
  BY <1>1, <1>2, <1>3, <1>4, <1>5, <1>6, StepKinds

-----------------------------------------------------------------------------
(* What calls attach *)

\* What served an attachment serves it for good.
LEMMA ServesOn ==
  ASSUME TypeOK, RecordsTell, [Next]_vars, NEW f \in DOMAIN record
  PROVE  record'[f] = record[f] /\ blob'[NameOf(f)] = blob[NameOf(f)]
BY Written DEF RecordsTell, NameOf

\* A record found by id, found by checksum or just inserted serves the attachment.
LEMMA InHandStep ==
  ASSUME TypeOK, Shape, RecordsTell, FreshOwned, InHand, [Next]_vars
  PROVE  InHand'
<1> SUFFICES ASSUME NEW d \in Calls, pc'[d] = "link"
             PROVE  IF Current(d)'.file = NULL
                    THEN blob'[record'[hand'[d]].name] = Current(d)'.content
                    ELSE hand'[d] = Current(d)'.file
  BY DEF InHand, Serves, NameOf
<1>0. ShapeOf(d)
  BY DEF Shape
<1>1. CASE pc[d] = "link" /\ hand'[d] = hand[d] /\ req'[d] = req[d] /\ made'[d] = made[d]
  <2>1. Current(d)' = Current(d)
    BY <1>1 DEF Current
  <2>2. hand[d] \in DOMAIN record
    BY <1>0, <1>1 DEF ShapeOf, TypeOK
  <2> QED
    BY <1>1, <2>1, <2>2, ServesOn DEF InHand, Serves, NameOf
<1>2. CASE Resolve(d)
  <2>1. /\ Current(d).file # NULL /\ hand'[d] = Current(d).file
        /\ req'[d] = req[d] /\ made'[d] = made[d]
    BY <1>2 DEF Resolve, Goto, Takes, TypeOK
  <2> QED
    BY <2>1 DEF Current
<1>3. CASE LookUp(d)
  <2>1. /\ Current(d).file = NULL /\ hand'[d] \in Matching(Current(d).content)
        /\ Len(made[d]) < Len(req[d].items)
        /\ UNCHANGED <<req, made, record, blob>>
    BY <1>3 DEF LookUp, Goto, Takes, TypeOK, Tables
  <2>2. Current(d).content # NULL
    BY <2>1, CurrentIsItem, NullAssumption
  <2>3. hand'[d] \in DOMAIN record /\ record[hand'[d]].checksum = Current(d).content
    BY <2>1 DEF Matching, TypeOK
  <2>4. blob[record[hand'[d]].name] = Current(d).content
    BY <2>2, <2>3 DEF RecordsTell, NameOf
  <2>5. Current(d)' = Current(d)
    BY <2>1 DEF Current
  <2> QED
    BY <2>1, <2>4, <2>5
<1>4. CASE InsertRecord(d)
  <2>1. PICK f \in Files \ DOMAIN record :
          /\ record' = [g \in DOMAIN record \cup {f} |->
                          IF g \in DOMAIN record THEN record[g]
                          ELSE [checksum |-> Current(d).content, name |-> fresh[d]]]
          /\ hand' = [hand EXCEPT ![d] = f]
    BY <1>4 DEF InsertRecord, Takes
  <2>2. hand'[d] = f /\ record'[f].name = fresh[d]
    BY <2>1 DEF TypeOK
  <2>3. pc[d] = "insert" /\ UNCHANGED <<req, made, blob>>
    BY <1>4 DEF InsertRecord
  <2>4. fresh[d] # NULL /\ Current(d).file = NULL /\ blob[fresh[d]] = Current(d).content
    BY <1>0, <2>3 DEF ShapeOf, FreshOwned
  <2>5. Current(d)' = Current(d)
    BY <2>3 DEF Current
  <2> QED
    BY <2>2, <2>3, <2>4, <2>5
<1>5. ASSUME Begin(d) PROVE FALSE
  <2>1. PICK r \in Requests : pc'[d] = FirstStep(r.op)
    BY <1>5 DEF Begin, Goto, TypeOK
  <2> QED
    BY <2>1, RequestsWellFormed DEF FirstStep, AllOps, AttachOps
<1>6. ASSUME Handler(d), ~Begin(d), ~Resolve(d), ~LookUp(d), ~InsertRecord(d) PROVE FALSE
  BY <1>6 DEF Handler, Proceed, Upload, InsertLink, DeleteNotificationAttachment, ListOrphans, EraseBytes,
     DropRecord, Stop, Goto, TypeOK
<1>7. ASSUME NEW c \in Calls, Handler(c), c # d
      PROVE  pc[d] = "link" /\ hand'[d] = hand[d] /\ req'[d] = req[d] /\ made'[d] = made[d]
  BY <1>7, Undisturbed
<1>8. CASE UNCHANGED progress
  BY <1>1, <1>8 DEF progress
<1> QED
  BY <1>1, <1>2, <1>3, <1>4, <1>5, <1>6, <1>7, <1>8, StepKinds

\* A join row is written for the attachment at hand, and what it says stays true.
LEMMA AttachedStep ==
  ASSUME TypeOK, TypeOK', Shape, Shape', LinksRecorded, RecordsTell, InHand,
         AttachedWhatWasAsked, [Next]_vars
  PROVE  AttachedWhatWasAsked'
<1> DEFINE Right(c, i) ==
      /\ link[made[c][i]].note = req[c].note
      /\ IF req[c].items[i].file = NULL
         THEN blob[record[link[made[c][i]].file].name] = req[c].items[i].content
         ELSE link[made[c][i]].file = req[c].items[i].file
<1>1. SUFFICES ASSUME NEW d \in Calls, NEW i \in DOMAIN made'[d] PROVE Right(d, i)'
  BY DEF AttachedWhatWasAsked, FileOf, NameOf, Shape, ShapeOf
<1>2. ASSUME i \in DOMAIN made[d], made'[d][i] = made[d][i], req'[d] = req[d] PROVE Right(d, i)'
  <2>1. made[d][i] \in DOMAIN link
    BY <1>2 DEF TypeOK
  <2>2. link'[made[d][i]] = link[made[d][i]] /\ link[made[d][i]].file \in DOMAIN record
    BY <2>1, Written DEF LinksRecorded, FileOf
  <2>3. Right(d, i)
    BY <1>2 DEF AttachedWhatWasAsked, FileOf, NameOf
  <2>4. /\ record'[link[made[d][i]].file] = record[link[made[d][i]].file]
        /\ blob'[record[link[made[d][i]].file].name] = blob[record[link[made[d][i]].file].name]
    BY <2>2, ServesOn DEF NameOf
  <2> QED
    BY <1>2, <2>2, <2>3, <2>4
<1>3. CASE InsertLink(d) /\ Linkable(d)
  <2>1. PICK l \in Links \ DOMAIN link :
          /\ link' = [k \in DOMAIN link \cup {l} |->
                        IF k \in DOMAIN link THEN link[k]
                        ELSE [note |-> req[d].note, file |-> hand[d]]]
          /\ made' = [made EXCEPT ![d] = Append(@, l)]
    BY <1>3 DEF InsertLink
  <2>2. UNCHANGED <<req, record, blob>> /\ pc[d] = "link"
    BY <1>3 DEF InsertLink
  <2>3. made'[d] = Append(made[d], l) /\ made[d] \in Seq(DOMAIN link)
    BY <2>1 DEF TypeOK
  <2>4. CASE i = Len(made[d]) + 1
    <3>1. made'[d][i] = l /\ link'[l] = [note |-> req[d].note, file |-> hand[d]]
      BY <2>1, <2>3, <2>4
    <3>2. Current(d) = req[d].items[i] /\ Serves(hand[d], Current(d))
      BY <2>2, <2>4 DEF Current, InHand
    <3> QED
      BY <2>2, <3>1, <3>2 DEF Serves, NameOf
  <2>5. CASE i # Len(made[d]) + 1
    <3>1. i \in DOMAIN made[d] /\ made'[d][i] = made[d][i]
      BY <2>3, <2>5
    <3> QED
      BY <1>2, <2>2, <3>1
  <2> QED
    BY <2>4, <2>5
<1>4. CASE Begin(d)
  <2>1. made'[d] = <<>>
    BY <1>4 DEF Begin, Shape, ShapeOf
  <2> QED
    BY <2>1
<1>5. ASSUME Handler(d), ~Begin(d), ~(InsertLink(d) /\ Linkable(d))
      PROVE  made'[d] = made[d] /\ req'[d] = req[d]
  BY <1>5 DEF Handler, Proceed, Resolve, LookUp, Upload, InsertRecord, InsertLink,
     DeleteNotificationAttachment, ListOrphans, EraseBytes, DropRecord, Stop
<1>6. ASSUME NEW c \in Calls, Handler(c), c # d PROVE made'[d] = made[d] /\ req'[d] = req[d]
  BY <1>6, Undisturbed
<1>7. ASSUME UNCHANGED progress PROVE made'[d] = made[d] /\ req'[d] = req[d]
  BY <1>7 DEF progress
<1>8. ASSUME made'[d] = made[d], req'[d] = req[d] PROVE Right(d, i)'
  BY <1>2, <1>8
<1> HIDE DEF Right
<1> QED
  BY <1>3, <1>4, <1>5, <1>6, <1>7, <1>8, StepKinds

-----------------------------------------------------------------------------
(* The inductive invariant *)

\* Files stored earlier satisfy it.
LEMMA InvInit == Init => Inv
<1> SUFFICES ASSUME Init PROVE Inv
  OBVIOUS
<1>1. TypeOK /\ Shape
  BY TypeInit, ShapeInit
<1>2. /\ \A c \in Calls : pc[c] = "idle" /\ req[c] = Blank /\ fresh[c] = NULL /\ made[c] = <<>>
      /\ DOMAIN record = files /\ DOMAIN blob = kept /\ DOMAIN link = linked
      /\ \A f \in files : record[f].name \in kept
      /\ \A l \in linked : link[l].note \in notes /\ link[l].file \in files
  BY DEF Init
<1>3. LinksRecorded /\ LinksResolve
  BY <1>2 DEF LinksRecorded, LinksResolve, FileOf
<1>4. RecordsTell
  BY <1>2 DEF Init, RecordsTell, NameOf
<1>5. FreshOwned /\ InHand /\ DroppedLast
  BY <1>2 DEF FreshOwned, InHand, DroppedLast
<1>6. Blank.op \notin AttachOps /\ Blank.op # "reclaim"
  BY BlankWellFormed, NullAssumption DEF AllOps
<1>7. AttachedWhatWasAsked /\ LinkedSince
  BY <1>2, <1>6 DEF AttachedWhatWasAsked, LinkedSince
<1>8. TakenByReclaim /\ BytesAccounted
  BY <1>2 DEF Init, TakenByReclaim, BytesAccounted, NameOf
<1> QED
  BY <1>1, <1>3, <1>4, <1>5, <1>7, <1>8 DEF Inv

\* Every step preserves it.
LEMMA InvStep == Inv /\ [Next]_vars => Inv'
<1> SUFFICES ASSUME Inv, [Next]_vars PROVE Inv'
  OBVIOUS
<1>0. /\ TypeOK /\ Shape /\ LinksRecorded /\ RecordsTell /\ FreshOwned /\ InHand
      /\ AttachedWhatWasAsked /\ LinksResolve /\ LinkedSince /\ TakenByReclaim
      /\ DroppedLast /\ BytesAccounted
  BY DEF Inv
<1>1. TypeOK'
  BY <1>0, TypeStep
<1>2. Shape'
  BY <1>0, <1>1, ShapeStep
<1>3. LinksRecorded' /\ RecordsTell' /\ FreshOwned' /\ InHand' /\ DroppedLast'
  BY <1>0, LinksRecordedStep, RecordsTellStep, FreshOwnedStep, InHandStep, DroppedLastStep
<1>4. AttachedWhatWasAsked'
  BY <1>0, <1>1, <1>2, AttachedStep
<1>5. LinksResolve' /\ LinkedSince' /\ TakenByReclaim'
  BY <1>0, <1>1, LinksResolveStep, LinkedSinceStep, TakenByReclaimStep
<1>6. BytesAccounted'
  BY <1>0, BytesAccountedStep
<1> QED
  BY <1>1, <1>2, <1>3, <1>4, <1>5, <1>6 DEF Inv

\* An attachment without bytes: a reclaim took them, and the row is younger.
LEMMA EstablishedFollows == Inv => EstablishedLinksKeepBytes
<1> SUFFICES ASSUME Inv, NEW l \in linked, NameOf(FileOf(l)) \notin kept
             PROVE  \E c \in Calls :
                      /\ req[c].op = "reclaim" /\ pc[c] \notin {"idle", "list", "erase"}
                      /\ hand[c] = FileOf(l)
                      /\ l \notin before[c]
  BY DEF EstablishedLinksKeepBytes
<1>1. FileOf(l) \in files
  BY DEF Inv, LinksResolve
<1>2. PICK c \in Calls : /\ req[c].op = "reclaim" /\ pc[c] \notin {"idle", "list", "erase"}
                         /\ hand[c] = FileOf(l)
  BY <1>1 DEF Inv, TakenByReclaim
<1>3. l \notin before[c]
  BY <1>2 DEF Inv, LinkedSince
<1> QED
  BY <1>2, <1>3

\* The inductive invariant holds in every reachable state.
THEOREM Invariance == Spec => []Inv
<1> QED
  BY InvInit, InvStep, PTL DEF Spec

\* Rows, requests and what calls hold stay well typed, for any number of
\* notifications, files, contents and calls.
THEOREM TypeCorrect == Spec => []TypeOK
<1>1. Inv => TypeOK
  BY DEF Inv
<1> QED
  BY Invariance, <1>1, PTL

\* A join row always has its notification and its file record.
THEOREM LinksResolveTheorem == Spec => []LinksResolve
<1>1. Inv => LinksResolve
  BY DEF Inv
<1> QED
  BY Invariance, <1>1, PTL

\* _store_attachments and _attach_stored_attachments attach what they are asked to,
\* in order, whatever happens to the records they find.
THEOREM AttachedTheorem == Spec => []AttachedWhatWasAsked
<1>1. Inv => AttachedWhatWasAsked
  BY DEF Inv
<1> QED
  BY Invariance, <1>1, PTL

\* Bytes the storage keeps are named by a record or by the call that uploaded them.
THEOREM BytesAccountedTheorem == Spec => []BytesAccounted
<1>1. Inv => BytesAccounted
  BY DEF Inv
<1> QED
  BY Invariance, <1>1, PTL

\* Reclaiming takes the bytes of no attachment older than its listing.
THEOREM EstablishedTheorem == Spec => []EstablishedLinksKeepBytes
<1> QED
  BY Invariance, EstablishedFollows, PTL

-----------------------------------------------------------------------------
(* Callers that reclaim alone *)

\* A call that runs after a step ran before it, or has just begun.
LEMMA RunningOn ==
  ASSUME TypeOK, Shape, [Next]_vars, NEW op \in AllOps, NEW d \in Running(op)'
  PROVE  \/ d \in Running(op)
         \/ Begin(d) /\ op \in Ops /\ (ReclaimAlone => Admitted(op))
<1>0. d \in Calls /\ req'[d].op = op /\ pc'[d] \in Steps
  BY DEF Running
<1>1. ASSUME NEW c \in Calls, Handler(c), c # d PROVE d \in Running(op)
  <2>1. pc'[d] = pc[d] /\ req'[d] = req[d]
    BY <1>0, <1>1, Undisturbed
  <2> QED
    BY <1>0, <2>1 DEF Running
<1>2. CASE Begin(d)
  <2>1. PICK r \in Requests : r.op \in Ops /\ (ReclaimAlone => Admitted(r.op))
                              /\ req' = [req EXCEPT ![d] = r]
    BY <1>2 DEF Begin
  <2>2. req'[d] = r
    BY <1>0, <2>1 DEF TypeOK
  <2> QED
    BY <1>0, <1>2, <2>1, <2>2
<1>3. CASE Handler(d) /\ ~Begin(d)
  <2>1. pc[d] \in Steps /\ req'[d] = req[d]
    BY <1>3 DEF Handler, Proceed, Resolve, LookUp, Upload, InsertRecord, InsertLink,
       DeleteNotificationAttachment, ListOrphans, EraseBytes, DropRecord, Stop, Steps
  <2> QED
    BY <1>0, <2>1 DEF Running
<1>4. CASE UNCHANGED progress
  BY <1>0, <1>4 DEF Running, progress
<1> QED
  BY <1>1, <1>2, <1>3, <1>4, StepKinds

\* Nobody reclaims while others attach.
LEMMA AloneStep ==
  ASSUME ReclaimAlone, TypeOK, Shape, [Next]_vars,
         Running("reclaim") = {} \/ \A op \in AttachOps : Running(op) = {}
  PROVE  (Running("reclaim") = {} \/ \A op \in AttachOps : Running(op) = {})'
<1> SUFFICES ASSUME NEW c \in Running("reclaim")', NEW op \in AttachOps, NEW d \in Running(op)'
             PROVE  FALSE
  OBVIOUS
<1>0. op \in AllOps /\ "reclaim" \in AllOps /\ op # "reclaim" /\ "reclaim" \notin AttachOps
  BY DEF AllOps, AttachOps
<1>1. c \in Running("reclaim") \/ (Begin(c) /\ Admitted("reclaim"))
  BY <1>0, RunningOn
<1>2. d \in Running(op) \/ (Begin(d) /\ Admitted(op))
  BY <1>0, RunningOn
<1>3. c \in Calls /\ d \in Calls /\ c # d
  BY <1>0 DEF Running
<1>4. ASSUME Begin(c), Begin(d) PROVE FALSE
  <2>1. Handler(c)
    BY <1>4 DEF Handler, Proceed
  <2>2. pc'[d] = pc[d] /\ pc[d] = "idle"
    BY <1>3, <1>4, <2>1, Undisturbed DEF Begin
  <2>3. PICK r \in Requests : pc'[d] = FirstStep(r.op)
    BY <1>3, <1>4 DEF Begin, Goto, TypeOK
  <2> QED
    BY <2>2, <2>3, RequestsWellFormed DEF FirstStep, AllOps, AttachOps
<1>5. CASE c \in Running("reclaim") /\ d \in Running(op)
  BY <1>5
<1>6. CASE c \in Running("reclaim") /\ Admitted(op)
  BY <1>6 DEF Admitted
<1>7. CASE d \in Running(op) /\ Admitted("reclaim")
  BY <1>7 DEF Admitted
<1> QED
  BY <1>1, <1>2, <1>4, <1>5, <1>6, <1>7

\* What a reclaim works on stays an orphan: whoever could link it does not run.
LEMMA OrphansStep ==
  ASSUME Inv, Calm, [Next]_vars, NEW d \in Calls, pc'[d] \in {"erase", "drop"}
  PROVE  References(hand[d])' = {}
<1> SUFFICES ASSUME NEW l \in linked', link'[l].file = hand'[d] PROVE FALSE
  BY DEF References
<1>0. TypeOK /\ Shape
  BY DEF Inv
<1>1. \/ pc[d] \in {"erase", "drop"} /\ hand'[d] = hand[d]
      \/ ListOrphans(d) /\ hand'[d] \in Orphans
  <2>1. ASSUME NEW c \in Calls, Handler(c), c # d PROVE pc'[d] = pc[d] /\ hand'[d] = hand[d]
    BY <1>0, <2>1, Undisturbed
  <2>2. CASE Begin(d)
    <3>1. PICK r \in Requests : pc'[d] = FirstStep(r.op)
      BY <1>0, <2>2 DEF Begin, Goto, TypeOK
    <3> QED
      BY <1>0, <3>1, RequestsWellFormed DEF FirstStep, AllOps, AttachOps
  <2>3. CASE Handler(d) /\ ~Begin(d)
    BY <1>0, <2>3 DEF Handler, Proceed, Resolve, LookUp, Upload, InsertRecord, InsertLink,
       DeleteNotificationAttachment, ListOrphans, EraseBytes, DropRecord, Stop, Goto, Takes, TypeOK
  <2>4. CASE UNCHANGED progress
    BY <2>4 DEF progress
  <2> QED
    BY <2>1, <2>2, <2>3, <2>4, StepKinds
<1>2. CASE l \in DOMAIN link
  <2>1. l \in linked /\ link'[l] = link[l]
    BY <1>0, <1>2, LinkedOnce, Written
  <2>2. l \in References(hand'[d])
    BY <2>1 DEF References
  <2> QED
    BY <1>1, <2>2 DEF Calm, Orphans
<1>3. CASE l \notin DOMAIN link
  <2>1. l \in DOMAIN link'
    BY <1>0, TypeStep DEF TypeOK
  <2>2. PICK c \in Calls : InsertLink(c)
    BY <1>0, <1>3, <2>1, LinkOrigin
  <2>3. pc[c] = "link" /\ req[c].op \in AttachOps /\ Handler(c)
    BY <1>0, <2>2 DEF InsertLink, Handler, Proceed, Shape, ShapeOf
  <2>4. c # d
    BY <1>0, <2>2 DEF InsertLink, Goto, TypeOK
  <2>5. pc[d] \in {"erase", "drop"}
    BY <1>0, <2>3, <2>4, Undisturbed
  <2>6. c \in Running(req[c].op) /\ d \in Running("reclaim")
    BY <1>0, <2>3, <2>5 DEF Running, Steps, Shape, ShapeOf
  <2> QED
    BY <2>3, <2>6 DEF Calm
<1> QED
  BY <1>2, <1>3

\* Only calls of the operations in Stopping stop.
LEMMA StoppedStep ==
  ASSUME "reclaim" \notin Stopping, TypeOK, Shape, [Next]_vars,
         \A c \in Calls : req[c].op = "reclaim" => pc[c] # "stopped",
         NEW d \in Calls, req'[d].op = "reclaim"
  PROVE  pc'[d] # "stopped"
<1>1. ASSUME NEW c \in Calls, Handler(c), c # d PROVE pc'[d] = pc[d] /\ req'[d] = req[d]
  BY <1>1, Undisturbed
<1>2. CASE Begin(d)
  <2>1. PICK r \in Requests : pc'[d] = FirstStep(r.op)
    BY <1>2 DEF Begin, Goto, TypeOK
  <2> QED
    BY <2>1, RequestsWellFormed DEF FirstStep, AllOps, AttachOps
<1>3. CASE Stop(d)
  BY <1>3 DEF Stop
<1>4. ASSUME Handler(d), ~Begin(d), ~Stop(d) PROVE pc'[d] # "stopped"
  BY <1>4 DEF Handler, Proceed, Resolve, LookUp, Upload, InsertRecord, InsertLink,
     DeleteNotificationAttachment, ListOrphans, EraseBytes, DropRecord, Goto, TypeOK
<1>5. CASE UNCHANGED progress
  BY <1>5 DEF progress
<1> QED
  BY <1>1, <1>2, <1>3, <1>4, <1>5, StepKinds

\* A record lacks bytes only while the reclaim that erased them is about to drop it.
LEMMA ReclaimedStep ==
  ASSUME "reclaim" \notin Stopping, Inv, Calm, [Next]_vars, NEW f \in files',
         NameOf(f)' \notin kept'
  PROVE  Reclaimed(f)'
<1>0. TypeOK /\ Shape /\ RecordsTell /\ Inv'
  BY InvStep DEF Inv
<1>1. PICK c \in Calls : /\ req'[c].op = "reclaim" /\ pc'[c] \notin {"idle", "list", "erase"}
                        /\ hand'[c] = f
  BY <1>0 DEF Inv, TakenByReclaim
<1>2. CASE f \notin files \/ record[f].name \in kept
  <2>1. ASSUME f \notin files PROVE FALSE
    <3>1. f \in DOMAIN record' /\ f \notin DOMAIN record
      BY <1>0, <2>1, FilesOnce DEF Inv, TypeOK
    <3>2. PICK d \in Calls : /\ InsertRecord(d)
                            /\ record'[f] = [checksum |-> Current(d).content, name |-> fresh[d]]
      BY <1>0, <3>1, RecordOrigin
    <3>3. fresh[d] # NULL /\ kept' = kept
      BY <1>0, <3>2 DEF InsertRecord, Shape, ShapeOf
    <3> QED
      BY <3>2, <3>3 DEF Inv, FreshOwned, NameOf
  <2>2. f \in files /\ record[f].name \in kept /\ record'[f] = record[f]
    BY <1>0, <1>2, <2>1, Written DEF TypeOK
  <2>3. PICK d \in Calls : EraseBytes(d) /\ record[f].name = NameOf(hand[d])
    BY <1>0, <2>2, KeptOnce DEF NameOf
  <2>4. hand[d] \in DOMAIN record /\ pc'[d] = "drop" /\ hand'[d] = hand[d]
    BY <1>0, <2>3 DEF EraseBytes, Goto, Shape, ShapeOf, TypeOK
  <2>5. hand[d] = f
    BY <1>0, <2>2, <2>3, <2>4 DEF RecordsTell, NameOf, TypeOK
  <2> QED
    BY <2>4, <2>5 DEF Reclaimed
<1>3. CASE f \in files /\ record[f].name \notin kept
  <2>1. PICK d \in Calls : pc[d] = "drop" /\ hand[d] = f
    BY <1>3 DEF Calm, Reclaimed, NameOf
  <2>2. CASE Handler(d)
    <3>1. ~Stop(d)
      BY <1>0, <2>1 DEF Stop, Shape, ShapeOf
    <3>2. DropRecord(d)
      BY <2>1, <2>2, <3>1 DEF Handler, Proceed, Begin, Resolve, LookUp, Upload, InsertRecord, InsertLink,
         DeleteNotificationAttachment, ListOrphans, EraseBytes
    <3>3. MayDrop(hand[d])
      BY <2>1 DEF Calm, MayDrop
    <3>4. f \notin files'
      BY <2>1, <3>2, <3>3 DEF DropRecord
    <3> QED
      BY <3>4
  <2>3. CASE ~Handler(d)
    <3>1. pc'[d] = pc[d] /\ hand'[d] = hand[d]
      <4>1. ASSUME NEW e \in Calls, Handler(e) PROVE pc'[d] = pc[d] /\ hand'[d] = hand[d]
        BY <1>0, <2>3, <4>1, Undisturbed
      <4> QED
        BY <4>1, StepKinds DEF progress
    <3> QED
      BY <2>1, <3>1 DEF Reclaimed
  <2> QED
    BY <2>2, <2>3
<1> QED
  BY <1>2, <1>3

\* At first no reclaim is at work, and every record has its bytes.
LEMMA CalmInit == Init => Calm
<1> SUFFICES ASSUME Init PROVE Calm
  OBVIOUS
<1>1. \A c \in Calls : pc[c] = "idle" /\ req[c].op = NULL
  BY BlankWellFormed DEF Init
<1>2. Running("reclaim") = {}
  BY <1>1, NullAssumption DEF Running, AllOps
<1>3. \A f \in files : NameOf(f) \in kept
  BY DEF Init, NameOf
<1> QED
  BY <1>1, <1>2, <1>3 DEF Calm

\* Callers that reclaim alone, and reclaims that are not cut short, stay so.
LEMMA CalmStep ==
  ASSUME ReclaimAlone, "reclaim" \notin Stopping, Inv, Calm, [Next]_vars
  PROVE  Calm'
<1>1. TypeOK /\ Shape
  BY DEF Inv
<1>2. (Running("reclaim") = {} \/ \A op \in AttachOps : Running(op) = {})'
  BY <1>1, AloneStep DEF Calm
<1>3. \A c \in Calls : pc'[c] \in {"erase", "drop"} => References(hand[c])' = {}
  BY OrphansStep
<1>4. \A c \in Calls : req'[c].op = "reclaim" => pc'[c] # "stopped"
  BY <1>1, StoppedStep DEF Calm
<1>5. \A f \in files' : NameOf(f)' \in kept' \/ Reclaimed(f)'
  BY ReclaimedStep
<1> QED
  BY <1>2, <1>3, <1>4, <1>5 DEF Calm

\* What lacks bytes is about to be dropped, and nothing is linked to it.
LEMMA BackedFollows == Inv /\ Calm => BackedLinks
<1> SUFFICES ASSUME Inv, Calm, NEW l \in linked, NameOf(FileOf(l)) \notin kept PROVE FALSE
  BY DEF BackedLinks
<1>1. FileOf(l) \in files
  BY DEF Inv, LinksResolve
<1>2. PICK c \in Calls : pc[c] = "drop" /\ hand[c] = FileOf(l)
  BY <1>1 DEF Calm, Reclaimed
<1>3. l \in References(hand[c])
  BY <1>2 DEF References, FileOf
<1> QED
  BY <1>2, <1>3 DEF Calm

\* When callers reclaim alone and a reclaim is not cut short, every attachment can
\* be read back, whatever else races or stops.
THEOREM BackedLinksTheorem ==
  ASSUME ReclaimAlone, "reclaim" \notin Stopping
  PROVE  Spec => []BackedLinks
<1>1. Init => Inv /\ Calm
  BY InvInit, CalmInit
<1>2. Inv /\ Calm /\ [Next]_vars => Inv' /\ Calm'
  BY InvStep, CalmStep
<1> QED
  BY <1>1, <1>2, BackedFollows, PTL DEF Spec
=============================================================================
