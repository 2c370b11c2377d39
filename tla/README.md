# vintasend-django in TLA+

A verification project for `vintasend_django`: the Django implementations of a
VintaSend notification backend, attachment manager, email adapter and template
renderer. Several workers, web requests, management commands and scripts share
one database and one file storage through this code, and almost nothing in it
opens a transaction. What can go wrong is therefore in the interleaving of SQL
statements and storage operations, which is what the specifications are about.

Line numbers refer to
`src/vintasend_django/services/notification_backends/django_db_notification_backend.py`
unless another file is named.

## The system

| component | state | operations | modelled in |
|---|---|---|---|
| notification store | `Notification` rows: status, content, timestamps, what was used to send | persist, persist one-off, update, mark sent / failed / read, bulk read, cancel, three `store_*` writes | `NotificationStore`, `Lifecycle` |
| attachment store | `AttachmentFileRecord` rows, `NotificationAttachment` join rows | store uploads and references, link stored files (resend), store a record, list orphans, delete a record, delete a join row | `AttachmentStore` |
| storage attachment manager (`django_storage.py`) | files in a Django storage | upload, delete by identifiers, rebuild a handle | `AttachmentStore` |
| attachment handle (`attachment_file.py`) | none | read (`Delivery`, `Backfill`); stream, url, delete | partly |
| listings (pending, future, in-app, filtered) | none, reads rows | querysets, ordering, offset pagination, counts | `Listing` |
| filter translation (`filters.py`, 716-761) | none | filter to SQL in negation normal form | `FilterTranslation` |
| email adapter (`django_email.py`) | none | find the recipient, render, read attachments, send | `Delivery` |
| template renderer | none | render subject, body, preheader; any of them may raise | `Delivery` |
| backfill command | rewrites checksums of file records | a pass over the records, `--all`, `--dry-run`, `--limit` | `Backfill` |
| attachment migration (0004-0006) | copies legacy rows to the two tables, drops the legacy table | forwards, backwards | `AttachmentMigration` |
| schema migrations | tables and columns | generated | the attachment tables in `AttachmentMigration` |
| settings, choices, app, test helpers | | | not modelled: configuration |

How they interact:

* A caller (the `vintasend` service, a view, a script) calls the backend; each
  handler is a short sequence of SQL statements under autocommit. The one
  explicit transaction (640) holds one statement. Calls of different processes
  interleave between any two statements.
* `persist_*` inserts a row and then calls `_store_attachments`;
  `persist_notification_update` updates a row and then calls
  `_attach_stored_attachments`. These are the two ways the notification store
  enters the attachment store. Failures there do not undo the row.
* The attachment store owns rows and calls the manager for bytes. Rows and bytes
  live in two systems without a common transaction.
* Every object the backend returns is serialised with its attachments
  (`get_attachments`, 344), so a record the manager cannot rebuild makes reads
  of its notification raise.
* Deleting a user cascades to notifications and from them to join rows
  (`models.py` 15 and 134); a file record is protected from deletion while a
  join row references it (`models.py` 137).
* The result of `mark_sent_as_read_bulk`, like all listings, is a generator over
  a query that runs when the caller consumes it.
* A sender of the `vintasend` service lists the pending notifications, hands each
  to the email adapter and marks it. Nothing claims a notification in between.
* The backfill command and the migrations rewrite the tables of the attachment
  store beside, before and after the processes that use them.

Hard behaviours: concurrent decisions on one row; re-reading a row after the
UPDATE; results consumed later; failing between statements; check-then-act on
checksums and orphans; two-system deletion. Each is listed at its line in
`PROJECT.json` under `hazards`, with the properties that would catch it.

## Modules

### Lifecycle

What the backend promises about one notification, without rows, clocks or
statements: it is decided (it leaves PENDING_SEND, by a mark, a cancel or an update
that writes another status, READ included) at most once by one call, only a SENT one
is marked read, by one call, and a bulk call may read several at once.

### NotificationStore

The `Notification` table and the calls on it. A call is made once, goes from
`idle` through its statements to `done`, and keeps its arguments (`req`), the rows
its UPDATE or INSERT matched (`hit`, a history variable) and what it returned or
raised (`answer`).

| model | code |
|---|---|
| `Begin` | arguments evaluated, `timezone.now()` read (475, 495, 642) before the UPDATE |
| `PersistNotification` | INSERT, 380 and 420; IntegrityError when the user is gone |
| `PersistNotificationUpdate` | conditional UPDATE or `exists()`, 451-463; the UPDATE takes any column, so it may write a status, which decides the notification without stamping it (`UpdateStatuses`) |
| `Attach` | attachments of either, 396, 439, 466; succeeds or raises (detail in `AttachmentStore`) |
| `MarkPendingAsSent`, `MarkPendingAsFailed`, `MarkSentAsRead`, `CancelNotification` | the conditional UPDATEs, 473-506 |
| `MarkSentAsReadBulk`, `ListRead` | the UPDATE (640-643); its lazy result when consumed (645, 96-99, 113-115) |
| `Store` | the unconditional UPDATEs of 684-712: the last call's value replaces the one before |
| `Fetch` | the re-read and serialisation, 398, 441, 468, 478, 488, 498 |
| `DeleteUser`, `Tick` | the CASCADE of `models.py` 15; the clock |

Data is reduced to what properties tell apart: the content of a notification is
one value, `context_used`, `git_commit_sha` and `used_template_version` each hold the
`store_*` call that wrote last, the clock is a small range. Deleted rows keep their
last columns in `row` so that properties can speak of them; `present` says which
exist. An update may name the content, `send_after`, the status and attachments. That
it names no `user`, `sent_at`, `read_at` or `store_*` column is an assumption on
callers: line 455 would write them, and nothing in the repository does.

### AttachmentStore

File records, join rows and stored bytes. `pc[c]` is the next statement of a call
or the way it ended. A list of attachments is processed by the loop of
`_store_attachments`: `Resolve` (a reference, 229-235) or `LookUp` (checksum, 252),
on a miss `Upload` (`django_storage.py` 41) and `InsertRecord` (261), then
`InsertLink` (236, 269). `_attach_stored_attachments` (279) is the same loop over
references. A reclaim is the caller's procedure of the docstring at 333:
`ListOrphans`, `EraseBytes` (`django_storage.py` 72), `DropRecord` (330, PROTECT).
`Stop` ends a call between any two steps: its worker died, or the statement or
the storage raised; what it wrote stays.

Byte strings stand for their own (checksum, size): SHA-256 is taken to be
injective. Storage names are never handed out twice (uuid prefix and
`Storage.save`), and a caller stores a record it uploaded once (305 would give two
records one name). Every record has a name; that the handle of a nameless one raises
after its join row was written (242, 275) is a `Stop` here, and modelled in `Delivery`.
`DeleteNotes` is the cascade, which the database applies or
refuses as a whole. Initial states hold files stored earlier, under distinct
names, some of them linked, some without a checksum as migration 0005 leaves them.

`Proceed(c)` is the step of a call that was begun, `Handler(c)` that or its
beginning. Two constants describe the environment: `ReclaimAlone` (callers do not reclaim
while others attach) and `Stopping` (the operations whose calls may stop).

### FilterTranslation

`_translate_filter` (725-761) and the leaves and combinators of `filters.py`. The
code keeps no state between calls; what the module has as state is the recursion,
run on an explicit stack with a frame per call that has not returned, so that
nothing bounds how deep filters nest and no recursive operator is needed.

| model | code |
|---|---|
| `Frame` | one call of `_translate_filter`: its filter, whether it is negated, the operands done so far and their `Q` |
| `Call`, `Under` | a nested filter, 733-742; `not` turns the negation over (742) |
| `Leaf`, `LeafQ`, `FieldLeaf` | a key of a field filter, 752-760 and `filters.py` 163-193 |
| `Return`, `Result` | what a call returns, 736-750: the combined operands, or `Q()` or `MATCH_NOTHING` when there are none |
| `Give`, `Combiner` | `and_all` and `or_all` (`filters.py` 196-205) under De Morgan (735, 739); they reduce from the left, so an operand can be combined as soon as it is translated |

A `Q` is reduced to what the translation and the database make of it: whether it has
conditions (`empty`, which is what makes `Q` drop an operand, by `&` and `|` alike),
and what they are worth on each row under SQL's three truth values, below an odd
number of negations or not (`sql[negated][row]`). Under a negation Django adds
`IS NOT NULL` to comparisons of nullable columns, which `Compare` models; with it the
`__isnull` the code adds (757-759) repeats what the database already does, and the
run shows that the two agree. A lookup is reduced to the set of column values it
matches, so choices, memberships, versions and strings have one shape; ranges keep
their bounds.

The reference is the in-memory evaluator of the `vintasend` package, which the
docstring names. It is the constant `Holds`, of which `HoldsAssumption` says what it
makes of a filter in terms of its operands (`Accepts`): a recursive definition that
this assumption characterises without being one. `FiltersAssumption` says that the
operands of a filter are filters too, and `FieldsAssumption` that no column is called
`NULL`. `MCFilterTranslation` gives `Holds` as a recursive operator, and TLC evaluates
the three assumptions on it. `dropped` is a history variable: some disjunction had
exactly one operand without conditions.

### Backfill

The command `backfill_attachment_checksums` on the tables of `AttachmentStore`,
which it extends: its runs interleave with every call of that module.

| model | code (`backfill_attachment_checksums.py`) |
|---|---|
| `Start`, `Selected` | the options and the query of the work set, 65-84; `rows[r]` is what the query returned, and is stale from then on |
| `CurrentRow`, `Advance`, `Exhausted` | the iteration in primary-key order and the test of `--limit`, 85-88 |
| `Skip` | no identifiers, or a read that raises for whatever reason, be the file gone or the storage out of reach just then, 90-105; `skipped` is what the command reports |
| `Read` | the bytes, the comparison with the row as selected, `--dry-run`, 98-114 |
| `Write` | `filter(pk=...).update(...)`, 116-119: by primary key, whatever happened to the record |
| `Finish` | 121-126 |
| `Interrupt` | the operator or the machine stops the command |

It starts either from what `AttachmentStore` starts from, where records without a
checksum are attached as 0005 leaves them, or from `Migrated`: records whose checksum
is missing, right or stale, and whose file is there or gone. These have no join rows,
because an attachment whose file is gone cannot be read back whatever the command
does, which is what `BackedLinks` is about.

### AttachmentMigration

The legacy `Attachment` table, the two tables of 2.0, the last migration recorded,
and what users attached and did not detach (`wanted`).

| model | code |
|---|---|
| `CreateTables`, `DropNewTables` | 0004, forwards and reversed |
| `Forwards`, `Backwards` | `forwards` and `backwards` of 0005 (39-86, 89-123): a record and a join row per legacy row; a legacy row per join row. Neither removes what it copied |
| `DropLegacy`, `CreateLegacy` | 0006, which drops the legacy table whatever it holds; reversed, it creates an empty one |
| `Recorded`, `Record` | the row Django writes for a migration that was applied: with the copy where DDL and data are transactional, else after it, so that migrate may die in between and repeat the copy |
| `OldAttach`, `OldDetach` | the application of 1.x, at versions up to 4 |
| `NewAttach`, `Reference`, `NewDetach`, `Reclaim` | the application of 2.0, from 5 on |

Two variables chosen at the start say what the operators and the database do:
`oneGo` (migrations are applied and reversed end to end with the application
stopped) and `atomic` (a migration commits with its record). The batches of 500
inside a copy are one step because `RunPython` is atomic.

### Listing

The querysets of 56-89 and 648-674 with their orders, pages by offset (91-94),
lazy consumption (96-104), counts (614-618), and a client that walks them while
other callers change rows. `Members` says which rows a queryset filters at a time,
`Precedes` how it sorts, `Results` what one SELECT may return: rows that no key
tells apart come in any order. A call takes `timezone.now()` when the queryset is
built (`Ask`) and selects when it is consumed (`Fetch`). A client either stops at
a short page or fetches as many pages as a count taken first calls for. The
history variables `began`, `touched`, `departures` and `arrivals` record which rows
were listed when the walk began and what came, went and moved since.

### Delivery

From a persisted notification to an email, composed of the handlers of the two
stores as far as a sender sees them, the email adapter, and the loop of the
`vintasend` service that calls both (outside the repository, so modelled from how
the backend and the adapter are meant to be called).

| model | code |
|---|---|
| `Persist`, `StoreAttachment`, `StopPersisting` | `persist_notification`: the INSERT (380), then a join row per attachment (269-275), each of which may be the last |
| `CheckUpdate`, `LinkUpdate` | an update that names only attachments: `exists()` (460), then the join row (465) |
| `Cancel` | 500-506 |
| `List`, `Serialize` | `get_all_pending_notifications` (539-552): one query for the rows, one per notification for its attachments; one that cannot be rebuilt raises out of the whole call |
| `Compose` | recipient and templates, `django_email.py` 42-65 and 72-89, renderer 59-105; an inactive user or a template that raises ends in `mark_pending_as_failed` |
| `Detach` | `delete_notification_attachment` (353-360), at any time; `detached` remembers it |
| `AttachFile` | `_attach_files` (91-119): each file is read now; one that raises, for good or just then, is logged and skipped |
| `Send`, `Mark` | the transport; `mark_pending_as_sent` or `_failed`, which updates nothing when the notification is decided already |
| `Crash`, `Deactivate` | a worker dies; a user is deactivated |

`world`, chosen at the start, is a deployment: its notifications, how many senders
overlap, which records have no storage name, which templates raise. Only senders mark
and no update writes a status here: the backend would let any caller do both
(`NotificationStore` has them), but then SENT need not mean emailed.

`ImplementsLifecycle` maps the status of each notification to `Lifecycle`, with the
notification itself as the call that decided it: the model of the senders and
`NotificationStore` were written apart, and both are shown to implement the same
abstract specification.

### MC modules

`MCNotificationStore`, `MCAttachmentStore`, `MCBackfill`, `MCAttachmentMigration`,
`MCListing`, `MCDelivery` and `MCFilterTranslation` are the instances for TLC: the
symmetry sets, the worlds, plans, filters and rows, and the bounds. Where a bound
concerns which calls are made or which reads fail, the MC module states it in a
next-state relation of its own (`MCNext`), which differs from `Next` only in the steps
that would leave the bound (`Bounded`).

### Proof modules

`NotificationStoreProofs`, `AttachmentStoreProofs`, `AttachmentMigrationProofs`,
`BackfillProofs`, `ListingProofs`, `DeliveryProofs` and `FilterTranslationProofs`: the
theorems, see below.
`BackfillProofs` builds on the invariant of `AttachmentStoreProofs`. `Rankings` holds
the lemmas about ranks in ordered sets that `ListingProofs` rests on, and nothing of
the program.

## Runs

| run | question | result |
|---|---|---|
| `store` | calls that persist, update, mark, read, cancel or store: one outcome per notification, never undone, stamped by the call that won it, truthfully reported, complete in the lazy bulk result; decided rows immutable; the statements implement `Lifecycle` | holds |
| `bulk_skips_raise` | "already READ ids are simply skipped and never raise" (627-629) | violated: a READ one-off in an unscoped call raises when the result is consumed |
| `attachments` | calls that attach, unlink and reclaim, any of which may stop: join rows resolve and are what was asked, bytes are accounted for, reclaiming takes nothing older than its listing | holds |
| `reclaim_races_attach` | the documented reclaim spares referenced files (334-338) | violated: a file attached between the listing and the erasure loses its bytes |
| `reclaim_cut_short` | an upload answered by deduplication is readable (219-221) | violated: a record left without bytes by an interrupted reclaim keeps being handed out |
| `backfill` | the command, interrupted and overlapping, beside callers: a run that ends leaves no record without a checksum but those it reported as skipped and those that `--limit` kept it from coming to, a checksum that is there is replaced by `--all` alone and by the right one, attachments are what was asked for, and readable as long as callers reclaim alone and reclaims are not cut short | holds |
| `migration` | upgrades and rollbacks with writes in between: nothing is lost, whatever the order and even when migrate dies; end to end on a transactional database nothing is revived or doubled and every shown file is stored | holds |
| `listing` | a client that pages through one listing misses at most one row per row that left (with a count, or came), repeats at most one per row that came; the in-app listing misses nothing; pending then future loses nothing that stays pending | holds |
| `delivery` | a SENT notification was emailed; a notification is emailed at most once per sender and stop; after it is decided, only senders that had listed it email it; what an email lacks could not be read, had been detached, or was not stored when it was listed; every pending notification is decided or a broken attachment blocks the listing; the statuses are those of `Lifecycle` | holds |
| `delivery_blocked` | "a failing attachment is logged and skipped; the email still goes out" (`test_adapters.py` 206) | violated: a record without a storage name makes every listing of pending notifications raise, so nothing is ever sent |
| `filter_agrees` | the database keeps no row the reference evaluator rejects, and every one it accepts as long as no disjunction has an operand that keeps every row | holds |
| `filter_drops_empty` | the same without that exception: "empty `{}` matches everything" (744) | violated: `{"or": [{}, X]}` keeps only the rows of X |

### Bounds and why they suffice

* `store`. A race on one row needs two calls and a third to follow or precede
  them (send, read, read again). The run takes three calls that decide or read on
  one notification; and two calls of any kind on two notifications, or on one with
  another content. An update names one column at most (`OneColumn`) and writes SENT or
  READ, the two statuses that calls treat differently from then on; one `store_*`
  operation stands for the three, which differ in their column only. Two notifications are what a bulk call needs to find its ids in
  different states. `MaxNow = 1` makes every pair of stamps differ or agree; one
  user and one-offs give both values of every scope test. All the properties of
  this run are also proved without bounds.
* `attachments`. An interaction needs a file that is shared and one that is not
  (`Files`, `Names`, `Links` of two or three), equal and different bytes, and three
  calls (attach, reclaim, and one that deletes or attaches again); a list of two is
  checked beside one other call. When keys or names run out the step that needs
  one is not taken. These properties are proved too.
* `backfill`. Two workers with every combination of options where nothing else
  runs, one of which meets reads that fail on files that are there, and one worker
  beside two calls that attach or reclaim: what a run of the
  command can meet is a record written, dropped or rewritten between its query, its
  read and its write, for which one other actor and two records are enough. One
  interruption per behaviour; interrupted and ended workers run again.
* `migration`. Two notifications, two names and up to three attachments give a
  shared file, two files on a notification and one without a file. Nine steps of
  migrate are up, down and up again; where operators stop anywhere, or migrate
  dies, attachments and steps together are at most six, which reaches 0005, its
  reversal and its second application with two attachments.
* `listing`. Pages of one row make every row a page boundary; three rows and three
  arrivals or departures let a walk lose and repeat in every position. Whole lists
  (`size = 4`) are for the two listings that are read one after the other, where
  two rows suffice because each is judged alone. `send_after` is none, or due at
  the second of three times.
* `delivery`. One notification with one attachment under two senders: claims are
  per notification, so two senders and one stop show every overlap of two. And one
  sender with two notifications, one that blocks the listing and one that cannot
  be rendered. One email at most lacks a file that could not be read, and where an
  update attaches another file this happens or one file is detached: the reasons for
  an email without an attachment are judged email by email.
* Filters: every item of three columns (matched by value, matched by value and
  nullable, matched by range and nullable), with values, empty lists, misfits,
  every pair of bounds and an unknown field; field filters of up to two keys; and
  groups of up to two members over five kinds of filter, nested twice and negated
  at each level (of two nested groups, one has a single member), which exercises De
  Morgan on every pair of connectives. The theorems need no bound. Rows take
  every value and NULL in each nullable column.

Deadlock is not checked where calls are made once, users and operators may stop,
or a walk ends: those systems do stop.

### Fairness

Only `Delivery` assumes any: `FairSpec` (`MCFairSpec` within the bounds of the run) is
weak fairness of `Work(s)` for each sender, the loop that lists, sends and marks. Senders are run again and again by
whoever deploys them (a periodic task or a management command of the service), a
step of theirs waits for nobody, and one that dies is started again, so a step
that stays possible is taken in the end. Callers that persist, update or cancel,
operators and the storage owe nothing. Weak fairness is enough: nothing another
actor does can disable a sender for good (a read that keeps failing ends in the email
without that file), as its steps depend on its own program
counter only, and `List` on there being a pending notification. Everywhere else a
call is a finite sequence of statements that waits for nothing and retries
nothing, and no liveness is claimed.

### What the models show besides

Behaviour that contradicts no property and no document, but that one should know:

* Two concurrent uploads of the same bytes both miss the lookup (252) and store two
  records; no unique constraint backs the deduplication. `Matching` then picks one.
* With `--limit`, records that are skipped count and stay at the front of the work
  set: as many unreadable ones as the limit are all that any run comes
  to, however often the command is repeated. `EndedRunsComplete` says what a run with
  a limit leaves: what it reported as skipped, and records it had selected and not
  come to.
* After a rollback and a second upgrade a shared file has several records with one
  storage name, and reclaiming one erases the bytes of all. This is why `FilesKept`
  is limited to six steps of migrate: up, and down again.
* On a database that commits the copy of 0005 apart from its record, a migrate that
  dies in between doubles the rows when it runs again. Rolling back only 0005 leaves
  the tables of 2.0 filled, and applying it again doubles them too. `NothingLost`
  holds even so; `NothingAdded` is about the other databases and operators.
* Processes of 1.x that still write between 0005 and 0006 would have their rows
  dropped by 0006; the model has the old application run at versions up to 4 only.
* An update that names only attachments can be accepted and then link its file to a
  notification that was sent meanwhile (460-466).
* The pending and the future listing sort by `created` alone: rows with equal stamps
  may change places between two pages. The guarantees on walks assume there are none.
* Overlapping senders, and a sender that stops between the email and the mark, send
  a notification again. `FewRepeats` says how often at most.
* A notification persisted with attachments can be listed, and sent, before they are
  stored; `GapsExplained` says that this, attachments deleted before the listing and
  files that cannot be read are the only reasons for an email without them.
* `persist_notification_update` writes whatever columns it is given: one that writes
  `status=SENT`, as `test_django_db_notification_backend.py` 218-221 does, leaves a SENT
  notification without `sent_at` that no mark decided. `OneOutcome` and `Lifecycle`
  count that update as the call that decided it, and `StampedByWinner` says that it
  stamps nothing.
* A second `store_*` call overwrites the value of the first (684-712), a retried
  delivery's context that of the one before.

## Proofs

`NotificationStoreProofs` proves, for any sets of notifications, users, calls,
contents and times, and any statuses that updates may write:

* `TypeCorrect` — the type invariant;
* `OneOutcomeTheorem`, `OutcomeDurableTheorem`, `StampedByWinnerTheorem`,
  `AnswersTheorem`, `ReportedStatusTheorem`, `BulkReturnsTheorem` — every safety
  invariant of `store`;
* `SettledImmutableTheorem` — the action property;
* `Refinement` — `Spec => Life!Spec`: initial states map to initial states, every
  step to a step of `Lifecycle` or a stutter.

Assumptions: `OpsAssumption`, `NowAssumption`, `NullAssumption` and
`UpdateAssumption` (updates write statuses there are) of `NotificationStore`, which TLC
evaluates in every run of the module. `NULL` must not be a user, a time, an operation,
a status or a result, and `KEEP` not a column value.

The argument. `Inv` is the conjunction of

* `TypeOK`;
* `Shape`: where a call stands tells what it has done (an idle call has no
  request, a call that has not written has matched nothing, a refused call has
  matched nothing, a deciding call names one row, ...). None of the properties is
  inductive without it: `OneOutcome` needs to know that a call about to decide has
  not decided yet;
* `RowInv`: the invariants on rows, which support each other (`StampedByWinner`
  needs `OutcomeDurable` to know that a pending row has no winner);
* `AnswerInv`: each answer given is true, and stays true as others go on.

`Decides` tells from the arguments of a call whether it decides the rows it matches,
and `Onward` which statuses these may show afterwards; `WhoDecides` and `DecisionOnward`
say what either comes to per operation. `StepEffect` reduces the thirteen kinds of step to six effects on the rows (nothing, a
call started, a row inserted, a row settled, rows read, columns written); the row
invariants are proved once per effect. `AnswerInv` uses that rows move only onward.
The refinement and the action property follow from `Inv` and the same effects.

`AttachmentStoreProofs` proves, for any sets of notifications, files, join rows,
names, contents and calls, and lists of any length:

* `TypeCorrect`, `LinksResolveTheorem`, `AttachedTheorem`, `BytesAccountedTheorem`,
  `EstablishedTheorem` — the type invariant and the four safety invariants that hold
  of any callers;
* `BackedLinksTheorem` — `BackedLinks`, from `ReclaimAlone` and
  `"reclaim" \notin Stopping`, the two assumptions on callers whose absence the runs
  `reclaim_races_attach` and `reclaim_cut_short` show to matter.

Assumptions: `BoundAssumption`, `NullAssumption` and (for `ReclaimAlone`)
`SwitchAssumption` of `AttachmentStore`, which TLC evaluates in every run of it.

The argument. `Inv` adds to the properties what keeps them true:

* `Shape`: where a call stands tells what it holds;
* `LinksRecorded`, `RecordsTell`: join rows name records that were written, a record
  names bytes with its checksum, and no two share a name. Without the last, erasing
  one record's bytes would take another's;
* `FreshOwned`: between upload and insert the bytes are the call's alone, and nobody
  can erase them, because nobody holds a record with their name;
* `InHand`: a call about to link holds a record that serves the attachment at hand;
* `LinkedSince`, `TakenByReclaim`: a join row to a file that a reclaim holds is
  younger than its listing, and only reclaims take bytes. Together they give
  `EstablishedLinksKeepBytes`, which is not inductive alone: a new join row could be
  written for a file that lost its bytes for no reason the invariant knows;
* `DroppedLast`: a record goes after its bytes, so dropping one strands none.

Primary keys and names are never handed out twice and rows are never rewritten, so
most steps leave most of this alone: `Written`, `Undisturbed`, `LinkOrigin`,
`RecordOrigin`, `LinkedOnce`, `FilesOnce` and `KeptOnce` say it once, and each
invariant has one lemma that rests on them. `Calm` is what the two assumptions add
for `BackedLinks`: what a reclaim chose stays an orphan, because whoever could link
it does not run.

`AttachmentMigrationProofs` proves, for any sets of notifications and names, any
number of attachments and of steps of migrate:

* `TypeCorrect` — the type invariant;
* `NothingLostTheorem` — no attachment is lost, also where migrate dies between a
  copy and its record, and whatever the order of upgrades, rollbacks and writes;
* `NothingAddedTheorem` — end to end, on a database that commits a migration whole,
  nothing deleted comes back and nothing is doubled, for any number of upgrades and
  rollbacks;
* `FilesKeptTheorem` — one upgrade and one rollback, end to end, keep the bytes of
  every attachment.

Assumption: `NullAssumption` of `AttachmentMigration`, evaluated in the run
`migration`.

The argument. What is shown is read from one of two sets of tables, so the
invariant must say which of them is complete when: `LegacyComplete` at versions up
to 4, `JoinedComplete` from 5 on, and both while a copy is committed and not yet
recorded (`ran`), because the record may still be made or not. `RanTells` says that
a copy that awaits its record goes the way migrate goes, so that the version it is
recorded as is the one whose tables it filled. `LinksAlive` (no join row without its
record, because a reclaim takes orphans only) is what the type of the rows that
`Backwards` writes needs.

On top of this invariant, `EndToEnd` follows migrations that only turn at the ends:
the tables a copy goes to are empty (`NewEmpty`, `LegacyEmpty`), so that the copy is
all they hold. `OneRound` counts the steps of migrate: within one round the number of
steps tells the version (`AtMove`), reclaims happen at one point of it only, and up to
there no two rows have one file (`LegacyOnce`, `FilesOnce`), so that what is erased
was of the reclaimed record alone.

`BackfillProofs` proves, for any number of workers that run the command, with any
options, on any records, beside any callers:

* `BackfillTypeCorrect` — the type invariant; with it, that no run comes to more
  records than there can be;
* `EndedRunsTheorem` — a run that ended has left no record without a checksum but those
  it reported as skipped and those that `--limit` kept it from coming to;
* `OnlyCorrectsTheorem` — the action property: what is there is changed by `--all`
  alone, and what is written is right;
* `BackfilledAttachTheorem`, `BackfilledBackedTheorem` — what `AttachmentStoreProofs`
  shows of callers (the second from the same two assumptions on them) holds beside
  the command too.

Assumptions: those of `AttachmentStore`, `OptionsAssumption`, and `FilesAssumption`:
primary keys are numbers, of which a column of fixed width has finitely many.

The argument. What a run holds is stale, so the invariant says how far it may be off.
`Selection`: a checksum that is not the one the run saw is that of the file, and
without `--all` the run has seen none. That makes a late `Write` harmless, because
the bytes under a name never change. `Progress`: a run comes to each record once
(what it has processed and what is left together are at most all there are), and is
through, or at its limit, when it ends. `Covered`: a record has a checksum, is still
before the run, or was skipped by it. `Corrected` is what every step of anybody leaves
true (rows, bytes and names stay, a checksum changes only into that of the file, a new
record has one): steps of the store satisfy it (`StoreCorrects`), writes of the
command too (`WriteCorrects`), and a run that does not move keeps its part of the
invariant through any such step (`RunUndisturbed`). For the callers,
`WriteKeepsStore` shows that a write preserves `Inv` of `AttachmentStoreProofs`. From
`Migrated`, where a checksum may be stale and `Inv` fails, there are no notifications
and nobody can attach (`Untouched`).

`ListingProofs` proves, for any rows, page sizes, plans, clocks and changes by others:

* `TypeCorrect` — the type invariant;
* `WalkRepeatsFewTheorem`, `WalkMissesFewTheorem` — what offset pages repeat and miss;
* `InAppWalkTheorem` — a walk of the in-app listing to a short page misses nothing;
* `ScheduleTheorem` — pending, then future, lose nothing that stays pending.

Assumptions: `PlansAssumption` (a plan names at least one listing), `StopsAssumption`
and `BoundsAssumption` of `Listing`, evaluated in the run `listing`.

The argument. A page of a total order is the rows whose rank (the number of rows that
sort before them) lies between two bounds: `PageRanks` in `Rankings`. A row that comes
or leaves shifts every rank by at most one, so at most one row crosses the border
`Passed` between what the client has walked past and what it has not
(`RankShifts`, `PushedOut`, `BeyondAfterInsert`, `AmongAfterRemove`).
`RepeatsAccounted` counts what was shown twice *and* what the client has but which
lies before it again, and what has come but is not due at the moment of the page
asked for, since each of these can become a repeat without anything more coming in.
`MissesAccounted` counts the rows walked past without being shown, and bounds what a
count taken first leaves out by the number that came. `WalkMissesFew` speaks of one
listing only: through several listings a row that changes from a later one to an
earlier one is missed although it never left the plan, so no bound in terms of
`departures` is inductive there. Plans of two are the subject of `ScheduleKept`: a row
that stays pending is in one of the two, and one that the first did not show has a
`send_after`, which is all that the second asks for. `InAppKept`: nothing leaves the in-app listing, as READ rows are in it too.

`DeliveryProofs` proves, for any notifications, files, attachments, worlds, number of
overlapping senders and stops:

* `TypeCorrect` — the type invariant;
* `SentWasEmailedTheorem` — what is SENT was emailed, and what was emailed persisted;
* `GapsExplainedTheorem` — why an email lacks an attachment;
* `DecidedStayQuietTheorem` — who may still email what is decided;
* `FewRepeatsTheorem` — how often a notification is emailed at most;
* `DeliveryImplementsLifecycle` — `Spec => Life!Spec`.

Assumptions: those of `Delivery`, evaluated in the run `delivery`; there are finitely
many senders.

The argument. `Accounted` follows what senders hold: everything listed was persisted,
and whoever is about to mark has emailed. `Explained`: what a sender tried and did not
attach could not be read, and what it serialized after everything was stored lacks
nothing but what had been detached. The
last two theorems count. An email sent before the notification is decided belongs to a
sender that still has to mark it, or to one that stopped (`Marking`, `Few`). From the
decision on nobody lists the notification again, so every further email uses up one
of the senders that have it listed (`MayEmail`, `Quiet`), and the sender whose mark
decided is not among them. Neither count is inductive for the emails alone.

The refinement needs only the type invariant: `StatusSteps` says how a status may
change and `OneStatus` that a step changes that of one notification.

`FilterTranslationProofs` proves, for any fields, values, rows and filters, nested to
any depth:

* `FiltersKeepNoMore` — the translation never keeps a row that the reference rejects;
* `FiltersAgree` — it keeps exactly the rows the reference accepts, unless some
  disjunction dropped an operand.

Assumptions: `FieldsAssumption`, `FiltersAssumption` and `HoldsAssumption` of
`FilterTranslation`, evaluated in the run `filter_agrees`.

The argument. No induction over filters is needed, because the invariant `IInv` speaks
of every frame of the stack at once. `FrameOK`: its `Q` is well formed, and one
without conditions keeps every row (`Sound`). `Tight`: the rows that the `Q` of the
operands done so far keeps are rows that these operands mean to accept (`DoneMeant`,
which is `Holds` of each of them, negated or not, joined as De Morgan has it); `Exact`
is the converse, as long as nothing was dropped. `CallsNest` says that each frame waits
for the operand the next one translates, under its negation, so that what a call
returns (`ResultMeans`) is what its caller has to combine (`GiveMeans`). The leaves are
`LeafMeans`: an item, negated or not, is worth on every row what the reference makes of
it, NULL columns included; this is where the `__isnull` of a negated leaf is needed.
Where the two directions part is one case of `CombineKeeps`: a disjunction with one
operand without conditions keeps the rows of the other only, which are too few, never
too many. That is why `NeverTooMany` holds of all filters.

Model-checked only:

* `EveryPendingDecided`: liveness under fairness is out of the prover's reach;
* that `MCHolds`, the recursive definition of the reference evaluator, satisfies
  `HoldsAssumption`: TLC evaluates it on the filters of `filter_agrees`. For all filters
  it is an unfolding of the definition, which the provers cannot expand;
* the five disagreements with the documentation: a counterexample needs no proof.

## Not modelled, and why

* `get_notification` (508, with `select_for_update` on request) changes nothing: what
  such a read returns is `Fetch` and `Serialize`.
* `AttachmentFile.delete` erases bytes whatever the rows say; it is offered to
  callers and called by nothing here. `stream` and `url` keep no state.
* The base classes, the service and the exceptions come from the `vintasend`
  package, outside this repository: callers are modelled as arbitrary, and its loop
  over pending notifications as far as the adapter and the backend are called by it.
* What an email says, settings, and the generated schema migrations that touch no
  attachment table have no behaviour beyond their text.
* Values of columns that no handler tests (titles, templates, tenants).

## Plan

Every safety invariant, action property and refinement of the runs is proved. What is
left would extend the model rather than the proofs:

1. Updates that link attachments late (460-466): `Delivery` has the step, but nothing
   in the repository says what a caller may expect of it.
2. Processes of 1.x that write while 0005 and 0006 are applied, should the release notes
   come to promise an upgrade without a stop.
