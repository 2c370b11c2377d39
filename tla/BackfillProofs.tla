---------------------------- MODULE BackfillProofs ----------------------------
(***************************************************************************)
(* Proofs about Backfill, for any number of workers that run the command    *)
(* with any options beside any callers, over any attachments.               *)
(***************************************************************************)
EXTENDS Backfill, AttachmentStoreProofs, FiniteSetTheorems, WellFoundedInduction

\* The name in a record was handed out by the storage.
Named == \A f \in DOMAIN record : NameOf(f) \in DOMAIN blob

\* What a run has selected are records as they were then.  A checksum that is not the
\* one it saw is that of the file; without --all it has seen none.
Selection(r) ==
  /\ DOMAIN rows[r] \subseteq DOMAIN record
  /\ \A f \in DOMAIN rows[r] :
       /\ rows[r][f].name = NameOf(f)
       /\ record[f].checksum \in {rows[r][f].checksum, blob[NameOf(f)]}
       /\ options[r].all \/ rows[r][f].checksum = NULL

\* A run comes to each record once, and writes what it read of the one it is at.
Progress(r) ==
  /\ at[r] # "idle" => options[r] \in Options
  /\ processed[r] + Cardinality(DOMAIN rows[r]) <= Cardinality(Files)
  /\ at[r] = "write" => DOMAIN rows[r] # {} /\ read[r] = blob[NameOf(CurrentRow(r))]
  /\ at[r] = "done" => Exhausted(r)

\* A record has a checksum, or is among those a run that fills them in has skipped or
\* not come to.
Covered(r) ==
  at[r] \in RunSteps \cup {"done"} /\ ~options[r].dry_run =>
    \A f \in files : f \in DOMAIN rows[r] \/ record[f].checksum # NULL \/ f \in skipped[r]

RunKept(r) == Selection(r) /\ Progress(r) /\ Covered(r)

Typed == TypeOK /\ Shape /\ Named /\ BackfillTypeOK /\ DOMAIN rows = Runs

BackfillInv == Typed /\ \A r \in Runs : RunKept(r)

\* What no step undoes: rows and bytes stay, names too, and a checksum changes into
\* that of the file; a record that is new has one.
Corrected ==
  /\ DOMAIN record \subseteq DOMAIN record' /\ DOMAIN blob \subseteq DOMAIN blob'
  /\ \A m \in DOMAIN blob : blob'[m] = blob[m]
  /\ \A f \in DOMAIN record :
       /\ record'[f].name = record[f].name
       /\ record'[f].checksum \in {record[f].checksum, blob[NameOf(f)]}
  /\ \A f \in files' : f \in files \/ record'[f].checksum # NULL

-----------------------------------------------------------------------------
(* Records *)

\* A set of primary keys has a first one.
LEMMA FirstKey ==
  ASSUME NEW S \in SUBSET Nat, S # {}
  PROVE  Min(S) \in S
<1>1. \E x \in S : \A y \in S : <<y, x>> \notin OpToRel(<, Nat)
  BY WFMin, NatLessThanWellFounded, Zenon
<1>2. PICK x \in S : \A y \in S : <<y, x>> \notin OpToRel(<, Nat)
  BY <1>1, Zenon
<1>3. ASSUME NEW y \in S
      PROVE  x =< y
  <2>1. <<y, x>> \notin OpToRel(<, Nat) /\ <<y, x>> \in Nat \X Nat
    BY <1>2, Zenon
  <2>2. ~(y < x)
    BY <2>1, Zenon DEF OpToRel
  <2>3. QED
    BY <2>2
<1>4. QED
  BY <1>3 DEF Min

\* The record a run is at is one that it selected.
LEMMA CurrentRowSelected ==
  ASSUME Typed, NEW r \in Runs, RunKept(r), DOMAIN rows[r] # {}
  PROVE  /\ CurrentRow(r) \in DOMAIN rows[r] /\ CurrentRow(r) \in DOMAIN record
         /\ CurrentRow(r) \in Files /\ IsFiniteSet(DOMAIN rows[r])
<1>1. DOMAIN rows[r] \subseteq Files
  BY DEF Typed, BackfillTypeOK
<1>2. DOMAIN rows[r] \in SUBSET Nat /\ IsFiniteSet(DOMAIN rows[r])
  BY <1>1, FilesAssumption, FS_Subset
<1>3. CurrentRow(r) \in DOMAIN rows[r]
  BY <1>2, FirstKey DEF CurrentRow
<1>4. QED
  BY <1>1, <1>2, <1>3 DEF RunKept, Selection

\* Calls of the store leave checksums alone and insert records that have one.
LEMMA StoreCorrects ==
  ASSUME TypeOK, Shape, Named, [Next]_vars
  PROVE  Corrected /\ Named'
<1>1. /\ DOMAIN record \subseteq DOMAIN record'
      /\ \A f \in DOMAIN record : record'[f] = record[f]
      /\ DOMAIN blob \subseteq DOMAIN blob'
      /\ \A m \in DOMAIN blob : blob'[m] = blob[m]
  BY Written
<1>2. ASSUME NEW f \in DOMAIN record', f \notin DOMAIN record
      PROVE  record'[f].checksum # NULL /\ record'[f].name \in DOMAIN blob
  <2>1. PICK c \in Calls :
          /\ InsertRecord(c)
          /\ record'[f] = [checksum |-> Current(c).content, name |-> fresh[c]]
    BY <1>2, RecordOrigin
  <2>2. pc[c] = "insert" /\ Len(made[c]) < Len(req[c].items) /\ Current(c).file = NULL /\ fresh[c] # NULL
    BY <2>1 DEF InsertRecord, Shape, ShapeOf, AtItem
  <2>3. Current(c).content \in Contents
    BY <2>2, CurrentIsItem
  <2>4. fresh[c] \in DOMAIN blob
    BY <2>2 DEF TypeOK
  <2>5. QED
    BY <2>1, <2>3, <2>4, NullAssumption
<1>3. ASSUME NEW f \in files', f \notin files
      PROVE  record'[f].checksum # NULL
  <2>1. f \in DOMAIN record' /\ f \notin DOMAIN record
    BY <1>3, TypeStep, FilesOnce DEF TypeOK
  <2>2. QED
    BY <1>2, <2>1
<1>4. Named'
  BY <1>1, <1>2 DEF Named, NameOf
<1>5. QED
  BY <1>1, <1>3, <1>4 DEF Corrected

\* A run writes the checksum of the file, and that alone.
LEMMA WriteCorrects ==
  ASSUME Typed, NEW r \in Runs, RunKept(r), Write(r)
  PROVE  /\ Corrected /\ TypeOK' /\ Shape' /\ Named'
         /\ \A f \in DOMAIN record : f # CurrentRow(r) => record'[f] = record[f]
         /\ CurrentRow(r) \in files => record'[CurrentRow(r)].checksum = blob[NameOf(CurrentRow(r))]
<1> DEFINE i == CurrentRow(r)
<1>1. i \in DOMAIN rows[r] /\ i \in DOMAIN record /\ read[r] = blob[NameOf(i)]
  BY CurrentRowSelected DEF Write, RunKept, Progress
<1>2. record' = [f \in DOMAIN record |->
                   IF f \in files /\ f = i
                   THEN [record[f] EXCEPT !.checksum = read[r]] ELSE record[f]]
  BY DEF Write
<1>3. /\ notes' = notes /\ files' = files /\ linked' = linked /\ link' = link /\ kept' = kept
      /\ blob' = blob /\ pc' = pc /\ req' = req /\ hand' = hand /\ fresh' = fresh
      /\ made' = made /\ before' = before
  BY DEF Write
<1> HIDE DEF i
<1>4. TypeOK /\ Shape /\ Named /\ blob[NameOf(i)] \in Contents
  BY <1>1 DEF Typed, TypeOK, Named
<1>5. record \in [DOMAIN record -> Record] /\ DOMAIN record' = DOMAIN record
  BY <1>2, <1>4 DEF TypeOK
<1>6. ASSUME NEW f \in DOMAIN record
      PROVE  /\ record'[f] \in Record /\ record'[f].name = record[f].name
             /\ record'[f].checksum \in {record[f].checksum, blob[NameOf(f)]}
             /\ f # i => record'[f] = record[f]
             /\ f \in files /\ f = i => record'[f].checksum = blob[NameOf(f)]
  <2>1. record[f] \in Record
    BY <1>5
  <2>2. CASE f \in files /\ f = i
    <3>1. record'[f] = [record[f] EXCEPT !.checksum = blob[NameOf(f)]]
      BY <1>1, <1>2, <2>2
    <3>2. QED
      BY <1>4, <2>1, <2>2, <3>1 DEF Record
  <2>3. CASE ~(f \in files /\ f = i)
    BY <1>2, <2>1, <2>3
  <2>4. QED
    BY <2>2, <2>3
<1>7. record' \in [DOMAIN record' -> Record]
  BY <1>2, <1>5, <1>6
<1>8. TypeOK'
  BY <1>3, <1>4, <1>5, <1>7 DEF TypeOK
<1>9. Shape'
  BY <1>3, <1>4 DEF Shape, ShapeOf, Current
<1>10. Named'
  BY <1>3, <1>4, <1>5, <1>6 DEF Named, NameOf
<1>11. Corrected
  BY <1>3, <1>5, <1>6 DEF Corrected
<1>12. QED
  BY <1>1, <1>6, <1>8, <1>9, <1>10, <1>11 DEF i

-----------------------------------------------------------------------------
(* Runs *)

\* A run that does not move keeps what it has selected, whatever others correct.
LEMMA RunUndisturbed ==
  ASSUME Typed, Corrected, TypeOK', NEW r \in Runs, RunKept(r),
         rows'[r] = rows[r], options'[r] = options[r], processed'[r] = processed[r],
         read'[r] = read[r], skipped'[r] = skipped[r],
         at'[r] = at[r] \/ (at[r] \in RunSteps /\ at'[r] = "interrupted")
  PROVE  RunKept(r)'
<1>1. /\ DOMAIN rows[r] \subseteq DOMAIN record /\ files \subseteq DOMAIN record
      /\ \A f \in DOMAIN record : NameOf(f) \in DOMAIN blob
      /\ \A m \in DOMAIN blob : blob[m] # NULL
  BY NullAssumption DEF RunKept, Selection, Typed, TypeOK, Named
<1>2. \A f \in DOMAIN record :
        /\ f \in DOMAIN record' /\ NameOf(f)' = NameOf(f) /\ blob'[NameOf(f)] = blob[NameOf(f)]
        /\ record'[f].checksum \in {record[f].checksum, blob[NameOf(f)]}
  BY <1>1 DEF Corrected, NameOf
<1>3. Selection(r)'
  <2> SUFFICES ASSUME NEW f \in DOMAIN rows[r]
               PROVE  /\ f \in DOMAIN record'
                      /\ rows[r][f].name = record'[f].name
                      /\ record'[f].checksum \in {rows[r][f].checksum, blob'[record'[f].name]}
                      /\ options[r].all \/ rows[r][f].checksum = NULL
    BY DEF Selection, NameOf
  <2>1. /\ f \in DOMAIN record /\ rows[r][f].name = NameOf(f)
        /\ record[f].checksum \in {rows[r][f].checksum, blob[NameOf(f)]}
        /\ options[r].all \/ rows[r][f].checksum = NULL
    BY DEF RunKept, Selection
  <2>2. record'[f].name = NameOf(f)
    BY <1>2, <2>1 DEF NameOf
  <2>3. record'[f].checksum \in {rows[r][f].checksum, blob'[record'[f].name]}
    BY <1>2, <2>1, <2>2
  <2>4. QED
    BY <1>2, <2>1, <2>2, <2>3
<1>4. Progress(r)'
  <2>1. ASSUME at'[r] = "write"
        PROVE  DOMAIN rows'[r] # {} /\ read'[r] = blob'[NameOf(CurrentRow(r))']
    <3>1. at[r] = "write" /\ DOMAIN rows[r] # {} /\ read[r] = blob[NameOf(CurrentRow(r))]
      BY <2>1 DEF RunKept, Progress
    <3>2. CurrentRow(r) \in DOMAIN record
      BY <3>1, CurrentRowSelected
    <3>3. CurrentRow(r)' = CurrentRow(r)
      BY DEF CurrentRow
    <3>4. NameOf(CurrentRow(r))' = record'[CurrentRow(r)].name
      BY <3>3 DEF NameOf
    <3>5. blob'[record'[CurrentRow(r)].name] = blob[NameOf(CurrentRow(r))]
      BY <1>2, <3>2 DEF NameOf
    <3>6. QED
      BY <3>1, <3>4, <3>5
  <2>2. at'[r] = at[r] \/ (at[r] \in RunSteps /\ at'[r] = "interrupted")
    OBVIOUS
  <2>3. at'[r] # "idle" => options'[r] \in Options
    <3>1. at[r] # "idle" => options[r] \in Options
      BY DEF RunKept, Progress
    <3>2. QED
      BY <2>2, <3>1 DEF RunSteps
  <2>4. QED
    BY <2>1, <2>2, <2>3 DEF RunKept, Progress, Exhausted, LimitReached
<1>5. Covered(r)'
  <2> SUFFICES ASSUME at'[r] \in RunSteps \cup {"done"}, ~options[r].dry_run,
                      NEW f \in files'
               PROVE  f \in DOMAIN rows[r] \/ record'[f].checksum # NULL \/ f \in skipped[r]
    BY DEF Covered
  <2>1. at[r] \in RunSteps \cup {"done"}
    BY DEF RunSteps
  <2>2. CASE f \notin files
    BY <2>2 DEF Corrected
  <2>3. CASE f \in files
    <3>1. f \in DOMAIN record
      BY <1>1, <2>3
    <3>2. f \in DOMAIN rows[r] \/ record[f].checksum # NULL \/ f \in skipped[r]
      BY <2>1, <2>3 DEF RunKept, Covered
    <3>3. blob[NameOf(f)] # NULL
      BY <1>1, <3>1
    <3>4. record'[f].checksum \in {record[f].checksum, blob[NameOf(f)]}
      BY <1>2, <3>1
    <3>5. QED
      BY <3>2, <3>3, <3>4
  <2>4. QED
    BY <2>2, <2>3
<1>6. QED
  BY <1>3, <1>4, <1>5 DEF RunKept

\* A run that is done with a record that it skips, that is gone, or that has a
\* checksum, goes on to the next.
LEMMA RunAdvanced ==
  ASSUME Typed, Corrected, TypeOK', NEW r \in Runs, RunKept(r), Advance(r),
         at[r] \in RunSteps, DOMAIN rows[r] # {}, options'[r] = options[r],
         skipped[r] \subseteq skipped'[r],
         options[r].dry_run \/ CurrentRow(r) \notin files' \/ CurrentRow(r) \in skipped'[r]
           \/ record'[CurrentRow(r)].checksum # NULL
  PROVE  /\ RunKept(r)' /\ processed'[r] \in 0 .. Cardinality(Files)
         /\ DOMAIN rows'[r] \subseteq Files /\ rows'[r] \in [DOMAIN rows'[r] -> Record]
<1> DEFINE i == CurrentRow(r)
           n == Cardinality(DOMAIN rows[r])
           m == Cardinality(Files)
<1>1. i \in DOMAIN rows[r] /\ i \in DOMAIN record /\ IsFiniteSet(DOMAIN rows[r])
  BY CurrentRowSelected
<1>2. /\ rows' = [rows EXCEPT ![r] = Remaining(r)]
      /\ processed' = [processed EXCEPT ![r] = @ + 1]
      /\ at' = [at EXCEPT ![r] = "next"]
  BY DEF Advance, Step
<1>3. /\ DOMAIN rows = Runs /\ processed \in [Runs -> 0 .. Cardinality(Files)] /\ DOMAIN at = Runs
      /\ DOMAIN rows[r] \subseteq Files /\ rows[r] \in [DOMAIN rows[r] -> Record]
  BY DEF Typed, BackfillTypeOK
<1>4. /\ rows'[r] = Remaining(r) /\ processed'[r] = processed[r] + 1 /\ at'[r] = "next"
  BY <1>2, <1>3
<1>5. /\ DOMAIN rows'[r] = DOMAIN rows[r] \ {i}
      /\ \A f \in DOMAIN rows'[r] : rows'[r][f] = rows[r][f]
      /\ rows'[r] \in [DOMAIN rows'[r] -> Record]
  <2>1. Remaining(r) = [f \in DOMAIN rows[r] \ {i} |-> rows[r][f]]
    BY DEF Remaining
  <2> HIDE DEF i
  <2>2. QED
    BY <1>3, <1>4, <2>1
<1>6. /\ files \subseteq DOMAIN record
      /\ \A f \in DOMAIN record : NameOf(f) \in DOMAIN blob
      /\ \A b \in DOMAIN blob : blob[b] # NULL
  BY NullAssumption DEF Typed, TypeOK, Named
<1>7. \A f \in DOMAIN record :
        /\ f \in DOMAIN record' /\ NameOf(f)' = NameOf(f) /\ blob'[NameOf(f)] = blob[NameOf(f)]
        /\ record'[f].checksum \in {record[f].checksum, blob[NameOf(f)]}
  BY <1>6 DEF Corrected, NameOf
<1>8. Selection(r)'
  <2> SUFFICES ASSUME NEW f \in DOMAIN rows'[r]
               PROVE  /\ f \in DOMAIN record'
                      /\ rows'[r][f].name = record'[f].name
                      /\ record'[f].checksum \in {rows'[r][f].checksum, blob'[record'[f].name]}
                      /\ options[r].all \/ rows'[r][f].checksum = NULL
    BY DEF Selection, NameOf
  <2>0. f \in DOMAIN rows[r] /\ rows'[r][f] = rows[r][f]
    BY <1>5
  <2>1. /\ f \in DOMAIN record /\ rows[r][f].name = NameOf(f)
        /\ record[f].checksum \in {rows[r][f].checksum, blob[NameOf(f)]}
        /\ options[r].all \/ rows[r][f].checksum = NULL
    BY <2>0 DEF RunKept, Selection
  <2>2. record'[f].name = NameOf(f)
    BY <1>7, <2>1 DEF NameOf
  <2>3. record'[f].checksum \in {rows[r][f].checksum, blob'[record'[f].name]}
    BY <1>7, <2>1, <2>2
  <2>4. QED
    BY <1>7, <2>0, <2>1, <2>2, <2>3
<1>9. /\ processed'[r] + Cardinality(DOMAIN rows'[r]) <= m
      /\ processed'[r] \in 0 .. m
  <2>1. Cardinality(DOMAIN rows[r] \ {i}) = n - 1 /\ n \in Nat
    BY <1>1, FS_RemoveElement, FS_CardinalityType
  <2>2. processed[r] + n <= m /\ processed[r] \in Nat /\ m \in Nat
    <3>1. processed[r] + n <= m
      BY DEF RunKept, Progress
    <3>2. m \in Nat
      BY FilesAssumption, FS_CardinalityType
    <3>3. QED
      BY <1>3, <3>1, <3>2
  <2>3. Cardinality(DOMAIN rows'[r]) = n - 1
    BY <1>5, <2>1
  <2>4. n # 0
    BY <1>1, FS_EmptySet
  <2> HIDE DEF n, m
  <2>5. QED
    BY <1>4, <2>1, <2>2, <2>3, <2>4
<1>10. Progress(r)'
  <2>1. options[r] \in Options
    BY DEF RunKept, Progress, RunSteps
  <2>2. QED
    BY <1>4, <1>9, <2>1 DEF Progress
<1>11. Covered(r)'
  <2> SUFFICES ASSUME ~options[r].dry_run,
                      NEW f \in files'
               PROVE  f \in DOMAIN rows'[r] \/ record'[f].checksum # NULL \/ f \in skipped'[r]
    BY DEF Covered
  <2>1. CASE f \notin files
    BY <2>1 DEF Corrected
  <2>2. CASE f \in files
    <3>1. f \in DOMAIN record
      BY <1>6, <2>2
    <3>2. f \in DOMAIN rows[r] \/ record[f].checksum # NULL \/ f \in skipped'[r]
      BY <2>2 DEF RunKept, Covered
    <3>3. blob[NameOf(f)] # NULL
      BY <1>6, <3>1
    <3>4. record'[f].checksum \in {record[f].checksum, blob[NameOf(f)]}
      BY <1>7, <3>1
    <3>5. f = i => record'[f].checksum # NULL \/ f \in skipped'[r]
      BY <2>2
    <3>6. QED
      BY <1>5, <3>2, <3>3, <3>4, <3>5
  <2>3. QED
    BY <2>1, <2>2
<1>12. QED
  BY <1>3, <1>5, <1>8, <1>9, <1>10, <1>11 DEF RunKept

-----------------------------------------------------------------------------
(* Steps *)

\* Nothing is undone by a step that leaves the tables alone.
LEMMA StandingStill ==
  ASSUME Typed, UNCHANGED vars
  PROVE  Corrected /\ TypeOK' /\ Shape' /\ Named'
<1>1. [Next]_vars
  OBVIOUS
<1>2. TypeOK /\ Shape /\ Named
  BY DEF Typed
<1>3. TypeOK'
  BY <1>1, <1>2, TypeStep
<1>4. Shape'
  BY <1>1, <1>2, <1>3, ShapeStep
<1>5. Corrected /\ Named'
  BY <1>1, <1>2, StoreCorrects
<1>6. QED
  BY <1>3, <1>4, <1>5

\* Steps of callers and users.
LEMMA StoreStep ==
  ASSUME BackfillInv, [Next]_vars, UNCHANGED <<command, stops>>
  PROVE  BackfillInv'
<1>1. Typed /\ TypeOK /\ Shape /\ Named /\ BackfillTypeOK
  BY DEF BackfillInv, Typed
<1>2. TypeOK'
  BY <1>1, TypeStep
<1>3. Shape'
  BY <1>1, <1>2, ShapeStep
<1>4. Corrected /\ Named'
  BY <1>1, StoreCorrects
<1>5. at' = at /\ options' = options /\ rows' = rows /\ processed' = processed
      /\ skipped' = skipped /\ read' = read
  BY DEF command
<1>6. BackfillTypeOK' /\ DOMAIN rows' = Runs
  BY <1>1, <1>5 DEF BackfillTypeOK, Typed
<1>7. ASSUME NEW r \in Runs
      PROVE  RunKept(r)'
  <2>1. RunKept(r)
    BY DEF BackfillInv
  <2>2. /\ rows'[r] = rows[r] /\ options'[r] = options[r] /\ processed'[r] = processed[r]
        /\ skipped'[r] = skipped[r] /\ read'[r] = read[r] /\ at'[r] = at[r]
    BY <1>5
  <2>3. QED
    BY <1>1, <1>2, <1>4, <2>1, <2>2, RunUndisturbed
<1>8. QED
  BY <1>2, <1>3, <1>4, <1>6, <1>7 DEF BackfillInv, Typed

\* One run moves: the others keep what they have.
LEMMA OneRunMoves ==
  ASSUME BackfillInv, Corrected, TypeOK', Shape', Named', BackfillTypeOK', DOMAIN rows' = Runs,
         NEW r \in Runs, RunKept(r)',
         \A s \in Runs \ {r} :
           /\ rows'[s] = rows[s] /\ options'[s] = options[s] /\ processed'[s] = processed[s]
           /\ skipped'[s] = skipped[s] /\ read'[s] = read[s] /\ at'[s] = at[s]
  PROVE  BackfillInv'
<1>1. ASSUME NEW s \in Runs, s # r
      PROVE  RunKept(s)'
  <2>1. RunKept(s) /\ Typed
    BY DEF BackfillInv
  <2>2. /\ rows'[s] = rows[s] /\ options'[s] = options[s] /\ processed'[s] = processed[s]
        /\ skipped'[s] = skipped[s] /\ read'[s] = read[s] /\ at'[s] = at[s]
    BY <1>1
  <2>3. QED
    BY <2>1, <2>2, RunUndisturbed
<1>2. QED
  BY <1>1 DEF BackfillInv, Typed

\* A run that starts has before it every record that it is to fill in.
LEMMA StartStep ==
  ASSUME BackfillInv, NEW r \in Runs, Start(r)
  PROVE  BackfillInv'
<1>1. Typed /\ TypeOK /\ Shape /\ Named /\ BackfillTypeOK /\ DOMAIN rows = Runs
  BY DEF BackfillInv, Typed
<1>2. UNCHANGED vars /\ read' = read
  BY DEF Start
<1>3. Corrected /\ TypeOK' /\ Shape' /\ Named'
  BY <1>1, <1>2, StandingStill
<1>4. record' = record /\ files' = files /\ kept' = kept /\ blob' = blob
  BY <1>2 DEF vars
<1>5. PICK o \in Options :
        /\ options' = [options EXCEPT ![r] = o]
        /\ rows' = [rows EXCEPT ![r] = [f \in Selected(o) |-> record[f]]]
  BY DEF Start
<1>6. /\ processed' = [processed EXCEPT ![r] = 0] /\ skipped' = [skipped EXCEPT ![r] = {}]
      /\ at' = [at EXCEPT ![r] = "next"]
  BY DEF Start, Step
<1> DEFINE selected == [f \in Selected(o) |-> record[f]]
           m == Cardinality(Files)
<1>7. /\ DOMAIN selected = Selected(o) /\ Selected(o) \subseteq files
      /\ \A f \in Selected(o) : selected[f] = record[f] /\ (o.all \/ record[f].checksum = NULL)
      /\ \A f \in files : f \in Selected(o) \/ record[f].checksum # NULL
  BY DEF Selected
<1>8. files \subseteq Files /\ files \subseteq DOMAIN record /\ record \in [DOMAIN record -> Record]
  BY <1>1 DEF TypeOK
<1>9. selected \in [DOMAIN selected -> Record] /\ DOMAIN selected \subseteq Files
  BY <1>7, <1>8
<1>10. m \in Nat /\ Cardinality(DOMAIN selected) <= m
  BY <1>9, FilesAssumption, FS_Subset, FS_CardinalityType
<1>11. /\ at \in [Runs -> RunSteps \cup {"idle", "done", "interrupted"}]
       /\ options \in [Runs -> Options \cup {NULL}]
       /\ processed \in [Runs -> 0 .. m] /\ skipped \in [Runs -> SUBSET Files]
       /\ read \in [Runs -> Contents \cup {NULL}]
  BY <1>1 DEF BackfillTypeOK
<1> HIDE DEF selected, m
<1>12. /\ rows' = [rows EXCEPT ![r] = selected]
       /\ rows'[r] = selected /\ options'[r] = o /\ processed'[r] = 0 /\ at'[r] = "next"
  BY <1>1, <1>5, <1>6, <1>11 DEF selected
<1>13. \A s \in Runs \ {r} :
         /\ rows'[s] = rows[s] /\ options'[s] = options[s] /\ processed'[s] = processed[s]
         /\ skipped'[s] = skipped[s] /\ read'[s] = read[s] /\ at'[s] = at[s]
  BY <1>1, <1>2, <1>5, <1>6, <1>11, <1>12
<1>14. BackfillTypeOK' /\ DOMAIN rows' = Runs
  <2>1. at' \in [Runs -> RunSteps \cup {"idle", "done", "interrupted"}]
    BY <1>6, <1>11 DEF RunSteps
  <2>2. options' \in [Runs -> Options \cup {NULL}]
    BY <1>5, <1>11
  <2>3. processed' \in [Runs -> 0 .. m] /\ skipped' \in [Runs -> SUBSET Files]
    BY <1>6, <1>10, <1>11
  <2>4. DOMAIN rows' = Runs
    BY <1>1, <1>12
  <2>5. ASSUME NEW s \in Runs
        PROVE  DOMAIN rows'[s] \subseteq Files /\ rows'[s] \in [DOMAIN rows'[s] -> Record]
    <3>1. CASE s = r
      BY <1>9, <1>12, <3>1
    <3>2. CASE s # r
      BY <1>1, <1>13, <3>2 DEF BackfillTypeOK
    <3>3. QED
      BY <3>1, <3>2
  <2>6. QED
    BY <1>2, <1>11, <2>1, <2>2, <2>3, <2>4, <2>5 DEF BackfillTypeOK, m
<1>15. RunKept(r)'
  <2>1. Selection(r)'
    BY <1>4, <1>7, <1>8, <1>12 DEF Selection, NameOf
  <2>2. Progress(r)'
    <3>1. Cardinality(DOMAIN rows'[r]) = Cardinality(DOMAIN selected)
      BY <1>12
    <3> DEFINE n == Cardinality(DOMAIN rows'[r])
    <3>2. n \in Nat /\ n <= m
      BY <1>9, <1>10, <3>1, FilesAssumption, FS_Subset, FS_CardinalityType
    <3> HIDE DEF n
    <3>3. 0 + n <= m
      BY <1>10, <3>2
    <3>4. processed'[r] + Cardinality(DOMAIN rows'[r]) <= Cardinality(Files)
      BY <1>12, <3>3 DEF n, m
    <3>5. QED
      BY <1>12, <3>4 DEF Progress
  <2>3. Covered(r)'
    BY <1>4, <1>7, <1>12 DEF Covered, NameOf
  <2>4. QED
    BY <2>1, <2>2, <2>3 DEF RunKept
<1>16. QED
  BY <1>3, <1>13, <1>14, <1>15, OneRunMoves

\* A run ends when it is through, or has come to as many records as it may.
LEMMA FinishStep ==
  ASSUME BackfillInv, NEW r \in Runs, Finish(r)
  PROVE  BackfillInv'
<1>1. Typed /\ BackfillTypeOK /\ DOMAIN rows = Runs /\ RunKept(r)
  BY DEF BackfillInv, Typed
<1>2. /\ UNCHANGED vars /\ at[r] = "next" /\ Exhausted(r) /\ at' = [at EXCEPT ![r] = "done"]
      /\ options' = options /\ rows' = rows /\ processed' = processed
      /\ skipped' = skipped /\ read' = read
  BY DEF Finish, Step
<1>3. Corrected /\ TypeOK' /\ Shape' /\ Named'
  BY <1>1, <1>2, StandingStill
<1>4. record' = record /\ files' = files /\ kept' = kept /\ blob' = blob
  BY <1>2 DEF vars
<1>5. /\ at' \in [Runs -> RunSteps \cup {"idle", "done", "interrupted"}]
      /\ at'[r] = "done" /\ \A s \in Runs \ {r} : at'[s] = at[s]
  BY <1>1, <1>2 DEF BackfillTypeOK
<1>6. BackfillTypeOK' /\ DOMAIN rows' = Runs
  BY <1>1, <1>2, <1>5 DEF BackfillTypeOK
<1>7. RunKept(r)'
  <2>1. Selection(r)'
    BY <1>1, <1>2, <1>4 DEF RunKept, Selection, NameOf
  <2>2. Progress(r)'
    BY <1>1, <1>2, <1>5 DEF RunKept, Progress, Exhausted, LimitReached
  <2>3. Covered(r)'
    BY <1>1, <1>2, <1>4, <1>5 DEF RunKept, Covered, RunSteps
  <2>4. QED
    BY <2>1, <2>2, <2>3 DEF RunKept
<1>8. QED
  BY <1>2, <1>3, <1>5, <1>6, <1>7, OneRunMoves

\* A run that is killed or raises leaves what it wrote.
LEMMA InterruptStep ==
  ASSUME BackfillInv, NEW r \in Runs, Interrupt(r)
  PROVE  BackfillInv'
<1>1. Typed /\ BackfillTypeOK /\ DOMAIN rows = Runs /\ RunKept(r)
  BY DEF BackfillInv, Typed
<1>2. /\ UNCHANGED vars /\ at[r] \in RunSteps /\ at' = [at EXCEPT ![r] = "interrupted"]
      /\ options' = options /\ rows' = rows /\ processed' = processed
      /\ skipped' = skipped /\ read' = read
  BY DEF Interrupt, Step
<1>3. Corrected /\ TypeOK' /\ Shape' /\ Named'
  BY <1>1, <1>2, StandingStill
<1>4. /\ at' \in [Runs -> RunSteps \cup {"idle", "done", "interrupted"}]
      /\ at'[r] = "interrupted" /\ \A s \in Runs \ {r} : at'[s] = at[s]
  BY <1>1, <1>2 DEF BackfillTypeOK
<1>5. BackfillTypeOK' /\ DOMAIN rows' = Runs
  BY <1>1, <1>2, <1>4 DEF BackfillTypeOK
<1>6. RunKept(r)'
  BY <1>1, <1>2, <1>3, <1>4, RunUndisturbed
<1>7. QED
  BY <1>2, <1>3, <1>4, <1>5, <1>6, OneRunMoves

\* The step of a run that goes on to the next record.
LEMMA AdvanceStep ==
  ASSUME BackfillInv, Corrected, TypeOK', Shape', Named', NEW r \in Runs, Advance(r),
         at[r] \in RunSteps, DOMAIN rows[r] # {}, options' = options, read' = read,
         NEW F \in SUBSET Files, skipped' = [skipped EXCEPT ![r] = @ \cup F],
         options[r].dry_run \/ CurrentRow(r) \notin files' \/ CurrentRow(r) \in F
           \/ record'[CurrentRow(r)].checksum # NULL
  PROVE  BackfillInv'
<1>1. Typed /\ BackfillTypeOK /\ DOMAIN rows = Runs /\ RunKept(r)
  BY DEF BackfillInv, Typed
<1>0. /\ skipped \in [Runs -> SUBSET Files] /\ skipped' \in [Runs -> SUBSET Files]
      /\ skipped'[r] = skipped[r] \cup F /\ \A s \in Runs \ {r} : skipped'[s] = skipped[s]
  <2>1. skipped \in [Runs -> SUBSET Files]
    BY <1>1 DEF BackfillTypeOK
  <2>2. QED
    BY <2>1
<1>2. /\ RunKept(r)' /\ processed'[r] \in 0 .. Cardinality(Files)
      /\ DOMAIN rows'[r] \subseteq Files /\ rows'[r] \in [DOMAIN rows'[r] -> Record]
  BY <1>0, <1>1, RunAdvanced
<1> DEFINE m == Cardinality(Files)
           rest == Remaining(r)
<1> HIDE DEF m, rest
<1>3. /\ rows' = [rows EXCEPT ![r] = rest]
      /\ processed' = [processed EXCEPT ![r] = @ + 1]
      /\ at' = [at EXCEPT ![r] = "next"]
  BY DEF Advance, Step, rest
<1>4. at \in [Runs -> RunSteps \cup {"idle", "done", "interrupted"}] /\ processed \in [Runs -> 0 .. m]
  BY <1>1 DEF BackfillTypeOK, m
<1>5. \A s \in Runs \ {r} :
        /\ rows'[s] = rows[s] /\ options'[s] = options[s] /\ processed'[s] = processed[s]
        /\ skipped'[s] = skipped[s] /\ read'[s] = read[s] /\ at'[s] = at[s]
  BY <1>0, <1>1, <1>3, <1>4
<1>6. BackfillTypeOK' /\ DOMAIN rows' = Runs
  <2>1. at' \in [Runs -> RunSteps \cup {"idle", "done", "interrupted"}]
    BY <1>3, <1>4 DEF RunSteps
  <2>2. processed' \in [Runs -> 0 .. m]
    <3>1. processed'[r] \in 0 .. m
      BY <1>2 DEF m
    <3>2. DOMAIN processed' = Runs /\ processed' = [s \in Runs |-> processed'[s]]
      BY <1>3, <1>4
    <3>3. \A s \in Runs : processed'[s] \in 0 .. m
      BY <1>4, <1>5, <3>1
    <3>4. QED
      BY <3>2, <3>3
  <2>3. DOMAIN rows' = Runs
    BY <1>1, <1>3
  <2>4. ASSUME NEW s \in Runs
        PROVE  DOMAIN rows'[s] \subseteq Files /\ rows'[s] \in [DOMAIN rows'[s] -> Record]
    <3>1. CASE s = r
      BY <1>2, <3>1
    <3>2. CASE s # r
      BY <1>1, <1>5, <3>2 DEF BackfillTypeOK
    <3>3. QED
      BY <3>1, <3>2
  <2>5. QED
    BY <1>0, <1>1, <2>1, <2>2, <2>3, <2>4 DEF BackfillTypeOK, m
<1>7. QED
  BY <1>2, <1>5, <1>6, OneRunMoves

\* A step that skips no record adds none to those that a run has skipped.
LEMMA NothingSkipped ==
  ASSUME Typed, NEW r \in Runs, skipped' = skipped
  PROVE  \E F \in SUBSET Files : skipped' = [skipped EXCEPT ![r] = @ \cup F]
<1>1. skipped \in [Runs -> SUBSET Files]
  BY DEF Typed, BackfillTypeOK
<1>2. skipped[r] \cup {} = skipped[r]
  OBVIOUS
<1>3. skipped' = [skipped EXCEPT ![r] = @ \cup {}]
  BY <1>1, <1>2
<1>4. QED
  BY <1>3

\* A record that cannot be read is passed over, and is one that is reported.
LEMMA SkipStep ==
  ASSUME BackfillInv, NEW r \in Runs, Skip(r)
  PROVE  BackfillInv'
<1>1. Typed /\ RunKept(r)
  BY DEF BackfillInv
<1>2. /\ UNCHANGED vars /\ Advance(r) /\ at[r] = "next" /\ ~Exhausted(r)
      /\ options' = options /\ read' = read
      /\ skipped' = [skipped EXCEPT ![r] = @ \cup {CurrentRow(r)}]
  BY DEF Skip
<1>3. Corrected /\ TypeOK' /\ Shape' /\ Named'
  BY <1>1, <1>2, StandingStill
<1>4. DOMAIN rows[r] # {} /\ at[r] \in RunSteps
  BY <1>2 DEF Exhausted, RunSteps
<1>5. {CurrentRow(r)} \in SUBSET Files
  BY <1>1, <1>4, CurrentRowSelected
<1>6. QED
  BY <1>2, <1>3, <1>4, <1>5, AdvanceStep

\* A record that is right already has a checksum, and what is read of any other is that
\* of its file.
LEMMA ReadStep ==
  ASSUME BackfillInv, NEW r \in Runs, Read(r)
  PROVE  BackfillInv'
<1> DEFINE i == CurrentRow(r)
<1>1. Typed /\ TypeOK /\ Named /\ BackfillTypeOK /\ DOMAIN rows = Runs /\ RunKept(r)
  BY DEF BackfillInv, Typed
<1>2. /\ UNCHANGED vars /\ at[r] = "next" /\ ~Exhausted(r)
      /\ options' = options /\ skipped' = skipped
  BY DEF Read
<1>3. Corrected /\ TypeOK' /\ Shape' /\ Named'
  BY <1>1, <1>2, StandingStill
<1>4. DOMAIN rows[r] # {} /\ at[r] \in RunSteps
  BY <1>2 DEF Exhausted, RunSteps
<1>5. i \in DOMAIN rows[r] /\ i \in DOMAIN record
  BY <1>1, <1>4, CurrentRowSelected
<1>6. /\ rows[r][i].name = NameOf(i) /\ NameOf(i) \in DOMAIN blob
      /\ record[i].checksum \in {rows[r][i].checksum, blob[NameOf(i)]}
      /\ blob[NameOf(i)] \in Contents
  BY <1>1, <1>5 DEF RunKept, Selection, Named, TypeOK
<1>7. /\ record' = record /\ files' = files /\ kept' = kept /\ blob' = blob
  BY <1>2 DEF vars
<1>8. CASE Advance(r) /\ read' = read /\ (rows[r][i].checksum = blob[rows[r][i].name] \/ options[r].dry_run)
  <2>1. options[r].dry_run \/ record'[i].checksum # NULL
    BY <1>6, <1>7, <1>8, NullAssumption
  <2>2. PICK F \in SUBSET Files : skipped' = [skipped EXCEPT ![r] = @ \cup F]
    BY <1>1, <1>2, NothingSkipped
  <2>3. QED
    BY <1>2, <1>3, <1>4, <1>8, <2>1, <2>2, AdvanceStep
<1>9. CASE /\ read' = [read EXCEPT ![r] = blob[rows[r][i].name]]
           /\ Step(r, "write") /\ rows' = rows /\ processed' = processed
  <2>1. /\ read' = [read EXCEPT ![r] = blob[NameOf(i)]]
        /\ at' = [at EXCEPT ![r] = "write"] /\ rows' = rows /\ processed' = processed
    BY <1>6, <1>9 DEF Step
  <2>2. /\ at \in [Runs -> RunSteps \cup {"idle", "done", "interrupted"}]
        /\ read \in [Runs -> Contents \cup {NULL}]
    BY <1>1 DEF BackfillTypeOK
  <2>3. /\ at' \in [Runs -> RunSteps \cup {"idle", "done", "interrupted"}]
        /\ at'[r] = "write" /\ \A s \in Runs \ {r} : at'[s] = at[s]
    BY <2>1, <2>2 DEF RunSteps
  <2>4. /\ read' \in [Runs -> Contents \cup {NULL}]
        /\ read'[r] = blob[NameOf(i)] /\ \A s \in Runs \ {r} : read'[s] = read[s]
    BY <1>6, <2>1, <2>2
  <2>5. BackfillTypeOK' /\ DOMAIN rows' = Runs
    BY <1>1, <1>2, <2>1, <2>3, <2>4 DEF BackfillTypeOK
  <2>6. Selection(r)'
    BY <1>1, <1>2, <1>7, <2>1 DEF RunKept, Selection, NameOf
  <2>7. CurrentRow(r)' = i /\ NameOf(CurrentRow(r))' = NameOf(i)
    <3>1. CurrentRow(r)' = i
      BY <2>1 DEF CurrentRow
    <3>2. QED
      BY <1>7, <3>1 DEF NameOf
  <2>8. Progress(r)'
    BY <1>1, <1>2, <1>4, <1>7, <2>1, <2>3, <2>4, <2>7 DEF RunKept, Progress
  <2>9. Covered(r)'
    BY <1>1, <1>2, <1>4, <1>7, <2>1, <2>3 DEF RunKept, Covered
  <2>10. RunKept(r)'
    BY <2>6, <2>8, <2>9 DEF RunKept
  <2>11. QED
    BY <1>2, <1>3, <2>1, <2>3, <2>4, <2>5, <2>10, OneRunMoves
<1>10. QED
  BY <1>8, <1>9 DEF Read

\* A record that is still there has a checksum once it is written.
LEMMA WriteStep ==
  ASSUME BackfillInv, NEW r \in Runs, Write(r)
  PROVE  BackfillInv'
<1>1. Typed /\ TypeOK /\ Named /\ RunKept(r)
  BY DEF BackfillInv, Typed
<1>2. /\ at[r] = "write" /\ Advance(r) /\ options' = options /\ read' = read /\ files' = files
      /\ skipped' = skipped
  BY DEF Write
<1>3. /\ Corrected /\ TypeOK' /\ Shape' /\ Named'
      /\ CurrentRow(r) \in files => record'[CurrentRow(r)].checksum = blob[NameOf(CurrentRow(r))]
  BY <1>1, WriteCorrects
<1>4. at[r] \in RunSteps /\ DOMAIN rows[r] # {}
  BY <1>1, <1>2 DEF RunSteps, RunKept, Progress
<1>5. CurrentRow(r) \in DOMAIN record
  BY <1>1, <1>4, CurrentRowSelected
<1>6. blob[NameOf(CurrentRow(r))] # NULL
  BY <1>1, <1>5, NullAssumption DEF Named, TypeOK
<1>7. CurrentRow(r) \notin files' \/ record'[CurrentRow(r)].checksum # NULL
  BY <1>2, <1>3, <1>6
<1>8. PICK F \in SUBSET Files : skipped' = [skipped EXCEPT ![r] = @ \cup F]
  BY <1>1, <1>2, NothingSkipped
<1>9. QED
  BY <1>2, <1>3, <1>4, <1>7, <1>8, AdvanceStep

\* No run is under way at first.
LEMMA BackfillInvInit == BackfillInit => BackfillInv
<1> SUFFICES ASSUME BackfillInit PROVE BackfillInv
  OBVIOUS
<1>1. TypeOK /\ Shape /\ Named
  <2>1. CASE Init
    <3>1. TypeOK /\ Shape
      BY <2>1, TypeInit, ShapeInit
    <3>2. Named
      BY <2>1 DEF Init, Named, NameOf
    <3>3. QED
      BY <3>1, <3>2
  <2>2. CASE Migrated
    <3>1. /\ files = Files /\ kept \subseteq Names /\ blob \in [Names -> Contents]
          /\ record \in [files -> [checksum: Contents \cup {NULL}, name: Names]]
          /\ notes = {} /\ linked = {} /\ link = <<>>
      BY <2>2 DEF Migrated
    <3>2. /\ pc = [c \in Calls |-> "idle"] /\ req = [c \in Calls |-> Blank]
          /\ hand = [c \in Calls |-> NULL] /\ fresh = [c \in Calls |-> NULL]
          /\ made = [c \in Calls |-> <<>>] /\ before = [c \in Calls |-> {}]
      BY <2>2 DEF Migrated
    <3>3. DOMAIN link = {} /\ link \in [{} -> Link]
      BY <3>1
    <3>4. Blank \in Request /\ Blank.op = NULL /\ Len(Blank.items) = 0
      BY BlankWellFormed
    <3>5. /\ pc \in [Calls -> Steps \cup Outcomes]
          /\ hand \in [Calls -> Files \cup {NULL}]
          /\ fresh \in [Calls -> DOMAIN blob \cup {NULL}]
          /\ req \in [Calls -> Request]
          /\ before \in [Calls -> SUBSET Links]
      BY <3>2, <3>4 DEF Steps
    <3>6. TypeOK
      BY <3>1, <3>2, <3>3, <3>5 DEF TypeOK, Record
    <3>7. Shape
      <4> SUFFICES ASSUME NEW c \in Calls PROVE ShapeOf(c)
        BY DEF Shape
      <4>1. /\ pc[c] = "idle" /\ req[c] = Blank /\ hand[c] = NULL /\ fresh[c] = NULL
            /\ made[c] = <<>> /\ Len(made[c]) = 0
        BY <3>2
      <4>2. Blank.op \notin AllOps
        BY <3>4, NullAssumption
      <4>3. QED
        BY <3>4, <4>1, <4>2 DEF ShapeOf, AtItem, AllOps
    <3>8. Named
      BY <3>1 DEF Named, NameOf
    <3>9. QED
      BY <3>6, <3>7, <3>8
  <2>3. QED
    BY <2>1, <2>2 DEF BackfillInit
<1>2. /\ at = [r \in Runs |-> "idle"] /\ options = [r \in Runs |-> NULL]
      /\ rows = [r \in Runs |-> <<>>] /\ processed = [r \in Runs |-> 0]
      /\ skipped = [r \in Runs |-> {}] /\ read = [r \in Runs |-> NULL]
  BY DEF BackfillInit, Idle
<1>3. DOMAIN rows = Runs /\ \A r \in Runs : DOMAIN rows[r] = {} /\ rows[r] \in [{} -> Record]
  BY <1>2
<1>4. Cardinality(Files) \in Nat /\ 0 \in 0 .. Cardinality(Files)
  BY FilesAssumption, FS_CardinalityType
<1>5. BackfillTypeOK
  BY <1>2, <1>3, <1>4 DEF BackfillTypeOK
<1>6. ASSUME NEW r \in Runs
      PROVE  RunKept(r)
  <2>1. DOMAIN rows[r] = {} /\ processed[r] = 0 /\ at[r] = "idle"
    BY <1>2, <1>3
  <2>2. Cardinality(DOMAIN rows[r]) = 0
    BY <2>1, FS_EmptySet
  <2>3. Progress(r)
    BY <1>4, <2>1, <2>2 DEF Progress
  <2>4. Selection(r) /\ Covered(r)
    BY <2>1 DEF Selection, Covered, RunSteps
  <2>5. QED
    BY <2>3, <2>4 DEF RunKept
<1>7. QED
  BY <1>1, <1>3, <1>5, <1>6 DEF BackfillInv, Typed

\* Every step of the command, of callers and of users keeps what the runs rely on.
LEMMA BackfillInvStep == BackfillInv /\ [NextAll]_all => BackfillInv'
<1> SUFFICES ASSUME BackfillInv, [NextAll]_all PROVE BackfillInv'
  OBVIOUS
<1>1. CASE Next /\ UNCHANGED <<command, stops>>
  BY <1>1, StoreStep
<1>2. ASSUME NEW r \in Runs, Start(r) PROVE BackfillInv'
  BY <1>2, StartStep
<1>3. ASSUME NEW r \in Runs, Finish(r) PROVE BackfillInv'
  BY <1>3, FinishStep
<1>4. ASSUME NEW r \in Runs, Skip(r) PROVE BackfillInv'
  BY <1>4, SkipStep
<1>5. ASSUME NEW r \in Runs, Read(r) PROVE BackfillInv'
  BY <1>5, ReadStep
<1>6. ASSUME NEW r \in Runs, Write(r) PROVE BackfillInv'
  BY <1>6, WriteStep
<1>7. ASSUME NEW r \in Runs, Interrupt(r) PROVE BackfillInv'
  BY <1>7, InterruptStep
<1>8. CASE UNCHANGED all
  <2>1. UNCHANGED vars /\ UNCHANGED <<command, stops>>
    BY <1>8 DEF all, command
  <2>2. QED
    BY <2>1, StoreStep
<1>9. QED
  BY <1>1, <1>2, <1>3, <1>4, <1>5, <1>6, <1>7, <1>8 DEF NextAll, Continue

-----------------------------------------------------------------------------
(* Theorems *)

\* What the runs rely on always holds.
THEOREM BackfillInvariance == BackfillSpec => []BackfillInv
<1> QED
  BY BackfillInvInit, BackfillInvStep, PTL DEF BackfillSpec

\* Runs of the command stay well typed, and none comes to more records than there are,
\* for any number of workers, options and records.
THEOREM BackfillTypeCorrect == BackfillSpec => []BackfillTypeOK
<1>1. BackfillInv => BackfillTypeOK
  BY DEF BackfillInv, Typed
<1> QED
  BY BackfillInvariance, <1>1, PTL

\* A run of the command that came to its end has left no record without a checksum but
\* those it reported as skipped and those behind as many as --limit let it come to.
THEOREM EndedRunsTheorem == BackfillSpec => []EndedRunsComplete
<1>1. ASSUME BackfillInv PROVE EndedRunsComplete
  <2> SUFFICES ASSUME NEW r \in Runs, at[r] = "done", ~options[r].dry_run,
                      NEW f \in files, record[f].checksum = NULL, f \notin skipped[r]
               PROVE  f \in DOMAIN rows[r] /\ LimitReached(r)
    BY DEF EndedRunsComplete
  <2>1. RunKept(r)
    BY <1>1 DEF BackfillInv
  <2>2. f \in DOMAIN rows[r]
    BY <2>1 DEF RunKept, Covered
  <2>3. LimitReached(r)
    BY <2>1, <2>2 DEF RunKept, Progress, Exhausted
  <2>4. QED
    BY <2>2, <2>3
<1> QED
  BY BackfillInvariance, <1>1, PTL

\* Overlapping, interrupted and repeated runs of the command only ever correct: none
\* undoes what another, or a caller, has written.
THEOREM OnlyCorrectsTheorem == BackfillSpec => OnlyCorrects
<1>1. ASSUME BackfillInv, [NextAll]_all
      PROVE  [\A f \in files : record'[f].checksum # record[f].checksum =>
                /\ record'[f].checksum = blob[NameOf(f)]
                /\ record[f].checksum = NULL \/ \E r \in Runs : at[r] = "write" /\ options[r].all]_all
  <2> SUFFICES ASSUME NEW f \in files, record'[f].checksum # record[f].checksum
               PROVE  /\ record'[f].checksum = blob[NameOf(f)]
                      /\ record[f].checksum = NULL \/ \E r \in Runs : at[r] = "write" /\ options[r].all
    OBVIOUS
  <2>1. Typed /\ TypeOK /\ f \in DOMAIN record
    BY <1>1 DEF BackfillInv, Typed, TypeOK
  <2>2. record' # record
    OBVIOUS
  <2>3. ~[Next]_vars
    BY <2>1, Written
  <2>4. PICK r \in Runs : Write(r)
    BY <1>1, <2>2, <2>3 DEF NextAll, Continue, Start, Finish, Skip, Read, Interrupt, vars, all
  <2>5. RunKept(r) /\ at[r] = "write"
    BY <1>1, <2>4 DEF BackfillInv, Write
  <2>6. /\ Corrected /\ \A g \in DOMAIN record : g # CurrentRow(r) => record'[g] = record[g]
        /\ CurrentRow(r) \in files => record'[CurrentRow(r)].checksum = blob[NameOf(CurrentRow(r))]
    BY <2>1, <2>4, <2>5, WriteCorrects
  <2>7. f = CurrentRow(r)
    BY <2>1, <2>6
  <2>8. record'[f].checksum = blob[NameOf(f)]
    BY <2>6, <2>7
  <2>9. f \in DOMAIN rows[r]
    BY <2>1, <2>5, <2>7, CurrentRowSelected DEF RunKept, Progress
  <2>10. /\ record[f].checksum \in {rows[r][f].checksum, blob[NameOf(f)]}
         /\ options[r].all \/ rows[r][f].checksum = NULL
    BY <2>5, <2>9 DEF RunKept, Selection
  <2>11. QED
    BY <2>5, <2>8, <2>10
<1> QED
  BY BackfillInvariance, <1>1, PTL DEF BackfillSpec, OnlyCorrects

-----------------------------------------------------------------------------
(* Callers beside the command *)

\* What was just migrated has no notifications, and nothing can be attached.
Untouched ==
  /\ notes = {} /\ linked = {}
  /\ \A c \in Calls : made[c] = <<>> /\ req[c].op \notin AttachOps

\* A run leaves the tables alone, or fills in a checksum.
LEMMA CommandSteps ==
  ASSUME NEW r \in Runs, Start(r) \/ Continue(r) \/ Interrupt(r)
  PROVE  UNCHANGED vars \/ Write(r)
BY DEF Start, Continue, Finish, Skip, Read, Interrupt

\* Nobody attaches where there is nothing to attach to.
LEMMA UntouchedStep ==
  ASSUME TypeOK, Shape, Untouched, [Next]_vars
  PROVE  Untouched'
<1> USE DEF Untouched
<1>1. ASSUME NEW c \in Calls, Begin(c)
      PROVE  Untouched'
  <2>1. PICK q \in Requests : req' = [req EXCEPT ![c] = q]
    BY <1>1 DEF Begin
  <2>2. q.op \notin AttachOps
    BY <2>1 DEF Requests, StoreRequests, ResendRequests, RecordRequests, UnlinkRequests,
       ReclaimRequests, AttachOps
  <2>3. \A d \in Calls : req'[d].op \notin AttachOps
    BY <2>1, <2>2 DEF TypeOK
  <2>4. QED
    BY <1>1, <2>3 DEF Begin, Tables
<1>2. ASSUME NEW c \in Calls, InsertLink(c)
      PROVE  FALSE
  BY <1>2 DEF InsertLink, Shape, ShapeOf
<1>3. ASSUME NEW c \in Calls,
             \/ Resolve(c) \/ LookUp(c) \/ Upload(c) \/ InsertRecord(c)
             \/ DeleteNotificationAttachment(c) \/ ListOrphans(c) \/ EraseBytes(c)
             \/ DropRecord(c) \/ Stop(c)
      PROVE  Untouched'
  <2>1. /\ notes' = notes /\ made' = made /\ req' = req /\ linked' \subseteq linked
    BY <1>3 DEF Resolve, LookUp, Upload, InsertRecord, DeleteNotificationAttachment, ListOrphans,
       EraseBytes, DropRecord, Stop, Tables
  <2>2. QED
    BY <2>1
<1>4. ASSUME NEW S \in SUBSET notes, DeleteNotes(S)
      PROVE  FALSE
  BY <1>4 DEF DeleteNotes
<1>5. CASE UNCHANGED vars
  BY <1>5 DEF vars
<1>6. QED
  BY <1>1, <1>2, <1>3, <1>4, <1>5 DEF Next, Handler, Proceed

\* Filling in a checksum disturbs no caller: records keep their names, and a checksum
\* that is written is that of the bytes.
LEMMA WriteKeepsStore ==
  ASSUME Inv, BackfillInv, NEW r \in Runs, Write(r)
  PROVE  Inv' /\ (Calm => Calm')
<1>1. /\ TypeOK /\ Shape /\ LinksRecorded /\ RecordsTell /\ FreshOwned /\ InHand
      /\ AttachedWhatWasAsked /\ LinksResolve /\ LinkedSince /\ TakenByReclaim
      /\ DroppedLast /\ BytesAccounted
  BY DEF Inv
<1>2. Corrected /\ TypeOK' /\ Shape'
  BY WriteCorrects DEF BackfillInv
<1>3. /\ notes' = notes /\ files' = files /\ linked' = linked /\ link' = link /\ kept' = kept
      /\ blob' = blob /\ pc' = pc /\ req' = req /\ hand' = hand /\ fresh' = fresh
      /\ made' = made /\ before' = before /\ DOMAIN record' = DOMAIN record
  BY DEF Write
<1>4. \A f \in DOMAIN record :
        /\ record'[f].name = record[f].name
        /\ record'[f].checksum \in {record[f].checksum, blob[record[f].name]}
  BY <1>2 DEF Corrected, NameOf
<1>5. files \subseteq DOMAIN record
  BY <1>1 DEF TypeOK
<1>6. \A l \in DOMAIN link : link[l].file \in DOMAIN record
  BY <1>1 DEF LinksRecorded, FileOf
<1>7. LinksRecorded' /\ LinksResolve' /\ LinkedSince'
  BY <1>1, <1>3 DEF LinksRecorded, LinksResolve, LinkedSince, FileOf
<1>8. RecordsTell'
  <2>1. \A f \in DOMAIN record :
          /\ record[f].name \in DOMAIN blob
          /\ record[f].checksum # NULL => blob[record[f].name] = record[f].checksum
          /\ \A g \in DOMAIN record : record[f].name = record[g].name => f = g
    BY <1>1 DEF RecordsTell, NameOf
  <2>2. \A f \in DOMAIN record :
          /\ record'[f].name \in DOMAIN blob
          /\ record'[f].checksum # NULL => blob[record'[f].name] = record'[f].checksum
          /\ \A g \in DOMAIN record : record'[f].name = record'[g].name => f = g
    BY <1>4, <2>1
  <2>3. QED
    BY <1>3, <2>2 DEF RecordsTell, NameOf
<1>9. FreshOwned'
  BY <1>1, <1>3, <1>4 DEF FreshOwned, NameOf, Current
<1>10. InHand'
  <2> SUFFICES ASSUME NEW c \in Calls, pc[c] = "link"
               PROVE  Serves(hand[c], Current(c))'
    BY <1>3 DEF InHand
  <2>1. hand[c] \in DOMAIN record
    BY <1>1 DEF TypeOK, Shape, ShapeOf
  <2>2. Serves(hand[c], Current(c))
    BY <1>1 DEF InHand
  <2>3. QED
    BY <1>3, <1>4, <2>1, <2>2 DEF Serves, NameOf, Current
<1>11. AttachedWhatWasAsked'
  <2>1. ASSUME NEW c \in Calls, NEW k \in DOMAIN made[c]
        PROVE  made[c][k] \in DOMAIN link
    BY <1>1, <2>1, ElementOfSeq DEF TypeOK
  <2>2. ASSUME NEW c \in Calls, NEW k \in DOMAIN made[c]
        PROVE  record'[link[made[c][k]].file].name = record[link[made[c][k]].file].name
    BY <1>4, <1>6, <2>1
  <2>3. QED
    BY <1>1, <1>3, <2>2 DEF AttachedWhatWasAsked, NameOf, FileOf
<1>12. TakenByReclaim' /\ BytesAccounted'
  BY <1>1, <1>3, <1>4, <1>5 DEF TakenByReclaim, BytesAccounted, NameOf
<1>13. DroppedLast'
  <2> SUFFICES ASSUME NEW c \in Calls, pc[c] = "drop"
               PROVE  record'[hand[c]].name \notin kept
    BY <1>3 DEF DroppedLast, NameOf
  <2>1. hand[c] \in DOMAIN record
    BY <1>1 DEF TypeOK, Shape, ShapeOf
  <2>2. QED
    BY <1>1, <1>4, <2>1 DEF DroppedLast, NameOf
<1>14. Calm => Calm'
  BY <1>3, <1>4, <1>5 DEF Calm, Running, References, Reclaimed, NameOf
<1>15. QED
  BY <1>2, <1>7, <1>8, <1>9, <1>10, <1>11, <1>12, <1>13, <1>14 DEF Inv

\* At first the tables are those callers start from, or those just migrated.
LEMMA CallersInit == BackfillInit => (Inv /\ Calm) \/ Untouched
<1>1. Init => Inv /\ Calm
  BY InvInit, CalmInit
<1>2. ASSUME Migrated PROVE Untouched
  BY <1>2, BlankWellFormed, NullAssumption DEF Migrated, Untouched, AllOps
<1>3. QED
  BY <1>1, <1>2 DEF BackfillInit

\* Callers keep what they rely on beside the command.
LEMMA CallersStep ==
  ASSUME BackfillInv, Inv \/ Untouched, [NextAll]_all
  PROVE  Inv' \/ Untouched'
<1>1. TypeOK /\ Shape
  BY DEF BackfillInv, Typed
<1>2. CASE [Next]_vars
  BY <1>1, <1>2, InvStep, UntouchedStep
<1>3. ASSUME NEW r \in Runs, Write(r)
      PROVE  Inv' \/ Untouched'
  BY <1>3, WriteKeepsStore DEF Untouched, Write
<1>4. QED
  BY <1>2, <1>3, CommandSteps DEF NextAll, all

\* So do callers that reclaim alone.
LEMMA AloneCallersStep ==
  ASSUME ReclaimAlone, "reclaim" \notin Stopping, BackfillInv, (Inv /\ Calm) \/ Untouched,
         [NextAll]_all
  PROVE  (Inv' /\ Calm') \/ Untouched'
<1>1. TypeOK /\ Shape
  BY DEF BackfillInv, Typed
<1>2. CASE [Next]_vars
  BY <1>1, <1>2, InvStep, CalmStep, UntouchedStep
<1>3. ASSUME NEW r \in Runs, Write(r)
      PROVE  (Inv' /\ Calm') \/ Untouched'
  BY <1>3, WriteKeepsStore DEF Untouched, Write
<1>4. QED
  BY <1>2, <1>3, CommandSteps DEF NextAll, all

\* While the command fills in checksums, callers still get what they asked to attach:
\* a record that deduplication finds by a checksum the command wrote has those bytes.
THEOREM BackfilledAttachTheorem == BackfillSpec => []AttachedWhatWasAsked
<1>1. BackfillInit => Inv \/ Untouched
  BY CallersInit
<1>2. BackfillInv /\ (Inv \/ Untouched) /\ [NextAll]_all => (Inv \/ Untouched)'
  BY CallersStep
<1>3. Inv \/ Untouched => AttachedWhatWasAsked
  BY DEF Inv, Untouched, AttachedWhatWasAsked
<1> QED
  BY BackfillInvariance, <1>1, <1>2, <1>3, PTL DEF BackfillSpec

\* While the command fills in checksums, attachments of callers that reclaim alone can
\* still be read back: reclaiming a record that is being filled in harms no other.
THEOREM BackfilledBackedTheorem ==
  ASSUME ReclaimAlone, "reclaim" \notin Stopping
  PROVE  BackfillSpec => []BackedLinks
<1>1. BackfillInit => (Inv /\ Calm) \/ Untouched
  BY CallersInit
<1>2. BackfillInv /\ ((Inv /\ Calm) \/ Untouched) /\ [NextAll]_all => ((Inv /\ Calm) \/ Untouched)'
  BY AloneCallersStep
<1>3. Untouched => BackedLinks
  BY DEF Untouched, BackedLinks
<1> QED
  BY BackfillInvariance, BackedFollows, <1>1, <1>2, <1>3, PTL DEF BackfillSpec

==============================================================================
