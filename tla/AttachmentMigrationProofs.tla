---------------------- MODULE AttachmentMigrationProofs ----------------------
(***************************************************************************)
(* Proofs about AttachmentMigration, for any notifications and storage      *)
(* names and any number of attachments and steps of migrate.                *)
(***************************************************************************)
EXTENDS AttachmentMigration, SequenceTheorems, TLAPS

\* No join row is left without its file record.
LinksAlive == \A l \in DOMAIN links : files[links[l].file] # GONE

\* A copy that is committed and not recorded went where migrate went.
RanTells == ran => \/ version = 4 /\ way = "up"
                   \/ version = 5 /\ way = "down"

\* The tables of 1.x, while they are the ones to read, or the copy is made from them.
LegacyComplete == version <= 4 \/ ran => wanted \subseteq AsLegacy(legacy)

\* The tables of 2.0, likewise.
JoinedComplete == version >= 5 \/ ran => wanted \subseteq AsJoined(links, files)

Inv == TypeOK /\ LinksAlive /\ RanTells /\ LegacyComplete /\ JoinedComplete

-----------------------------------------------------------------------------
(* What leaves a sequence *)

\* The rows of a table.
LEMMA Rows ==
  ASSUME NEW S, NEW s \in Seq(S)
  PROVE  Len(s) \in Nat /\ DOMAIN s = 1 .. Len(s) /\ \A i \in DOMAIN s : s[i] \in S
BY LenProperties, ElementOfSeq

\* A table is of the rows that are in it.
LEMMA RowsOf ==
  ASSUME NEW S, NEW T, NEW s \in Seq(S), \A i \in DOMAIN s : s[i] \in T
  PROVE  s \in Seq(T)
<1>1. Len(s) \in Nat /\ DOMAIN s = 1 .. Len(s)
  BY LenProperties
<1>2. s = [i \in 1 .. Len(s) |-> s[i]]
  BY LenProperties
<1>3. [i \in 1 .. Len(s) |-> s[i]] \in Seq(T)
  BY <1>1
<1> QED BY <1>2, <1>3

\* Rows made one for each of n.
LEMMA RowsMade ==
  ASSUME NEW S, NEW n \in Nat, NEW f \in [1 .. n -> S]
  PROVE  f \in Seq(S) /\ Len(f) = n
<1>1. f \in Seq(S)
  OBVIOUS
<1> QED BY <1>1, LenProperties

\* RemoveAt keeps every element but one, brings in none and makes no copies.
LEMMA Remaining ==
  ASSUME NEW S, NEW s \in Seq(S), NEW k \in DOMAIN s
  PROVE  /\ RemoveAt(s, k) \in Seq(S)
         /\ Len(RemoveAt(s, k)) = Len(s) - 1
         /\ \A i \in DOMAIN s : i # k => \E j \in DOMAIN RemoveAt(s, k) : RemoveAt(s, k)[j] = s[i]
         /\ \A j \in DOMAIN RemoveAt(s, k) : \E i \in DOMAIN s : s[i] = RemoveAt(s, k)[j]
         /\ \A i \in DOMAIN RemoveAt(s, k) : \A j \in DOMAIN RemoveAt(s, k) : i # j =>
              \E p \in DOMAIN s : \E q \in DOMAIN s :
                p # q /\ s[p] = RemoveAt(s, k)[i] /\ s[q] = RemoveAt(s, k)[j]
<1> DEFINE n == Len(s)
           a == SubSeq(s, 1, k - 1)
           b == SubSeq(s, k + 1, n)
           r == a \o b
<1>1. n \in Nat /\ DOMAIN s = 1 .. n /\ k \in 1 .. n
  BY Rows
<1>2. \A i \in 1 .. n : s[i] \in S
  BY Rows
<1>3. /\ a \in Seq(S) /\ Len(a) = k - 1
      /\ \A i \in 1 .. k - 1 : a[i] = s[i]
  <2>1. 1 \in Int /\ k - 1 \in Int /\ \A i \in 1 .. k - 1 : s[i] \in S
    BY <1>1, <1>2
  <2>2. /\ a \in Seq(S) /\ Len(a) = (IF 1 <= k - 1 THEN k - 1 - 1 + 1 ELSE 0)
        /\ \A i \in 1 .. k - 1 - 1 + 1 : a[i] = s[1 + i - 1]
    BY <2>1, SubSeqProperties
  <2> HIDE DEF a, n
  <2> QED BY <1>1, <2>2
<1>4. /\ b \in Seq(S) /\ Len(b) = n - k
      /\ \A i \in 1 .. n - k : b[i] = s[k + i]
  <2>1. k + 1 \in Int /\ n \in Int /\ \A i \in k + 1 .. n : s[i] \in S
    BY <1>1, <1>2
  <2>2. /\ b \in Seq(S) /\ Len(b) = (IF k + 1 <= n THEN n - (k + 1) + 1 ELSE 0)
        /\ \A i \in 1 .. n - (k + 1) + 1 : b[i] = s[k + 1 + i - 1]
    BY <2>1, SubSeqProperties
  <2> HIDE DEF b, n
  <2>3. Len(b) = n - k
    BY <1>1, <2>2
  <2>4. ASSUME NEW i \in 1 .. n - k PROVE b[i] = s[k + i]
    <3>1. i \in 1 .. n - (k + 1) + 1 /\ k + 1 + i - 1 = k + i
      BY <1>1
    <3> QED BY <2>2, <3>1
  <2> QED BY <2>2, <2>3, <2>4
<1>5. RemoveAt(s, k) = r
  BY DEF RemoveAt
<1> HIDE DEF a, b, n
<1>6. /\ r \in Seq(S) /\ Len(r) = Len(a) + Len(b)
      /\ \A i \in 1 .. Len(a) + Len(b) : r[i] = IF i <= Len(a) THEN a[i] ELSE b[i - Len(a)]
  BY <1>3, <1>4, ConcatProperties
<1> HIDE DEF r
<1>7. Len(r) = n - 1 /\ DOMAIN r = 1 .. n - 1
  <2>1. Len(r) = n - 1
    BY <1>1, <1>3, <1>4, <1>6
  <2> QED BY <1>6, <2>1, Rows
<1>8. ASSUME NEW i \in 1 .. k - 1 PROVE r[i] = s[i] /\ i \in 1 .. n - 1 /\ i \in 1 .. n
  <2>1. /\ i \in 1 .. Len(a) + Len(b) /\ i <= Len(a) /\ i \in 1 .. n - 1 /\ i \in 1 .. n
    BY <1>1, <1>3, <1>4
  <2> QED BY <1>3, <1>6, <2>1
<1>9. ASSUME NEW i \in k .. n - 1 PROVE r[i] = s[i + 1] /\ i \in 1 .. n - 1 /\ i + 1 \in 1 .. n
  <2>1. /\ i \in 1 .. Len(a) + Len(b) /\ ~(i <= Len(a)) /\ i \in 1 .. n - 1 /\ i + 1 \in 1 .. n
        /\ i - Len(a) \in 1 .. n - k /\ k + (i - Len(a)) = i + 1
    BY <1>1, <1>3, <1>4
  <2> QED BY <1>4, <1>6, <2>1
<1>10. ASSUME NEW i \in 1 .. n, i # k PROVE \E j \in 1 .. n - 1 : r[j] = s[i]
  <2>1. i \in 1 .. k - 1 \/ (i - 1 \in k .. n - 1 /\ (i - 1) + 1 = i)
    BY <1>1, <1>10
  <2>2. CASE i \in 1 .. k - 1
    BY <1>8, <2>2
  <2>3. CASE i - 1 \in k .. n - 1 /\ (i - 1) + 1 = i
    BY <1>9, <2>3
  <2> QED BY <2>1, <2>2, <2>3
<1>11. ASSUME NEW j \in 1 .. n - 1 PROVE \E i \in 1 .. n : s[i] = r[j]
  <2>1. j \in 1 .. k - 1 \/ j \in k .. n - 1
    BY <1>1
  <2> QED BY <1>8, <1>9, <2>1
<1>12. ASSUME NEW i \in 1 .. n - 1, NEW j \in 1 .. n - 1, i # j
       PROVE  \E p \in 1 .. n : \E q \in 1 .. n : p # q /\ s[p] = r[i] /\ s[q] = r[j]
  <2> DEFINE from(m) == IF m < k THEN m ELSE m + 1
  <2>1. ASSUME NEW m \in 1 .. n - 1 PROVE from(m) \in 1 .. n /\ s[from(m)] = r[m]
    <3>1. (m \in 1 .. k - 1 /\ m < k) \/ (m \in k .. n - 1 /\ ~(m < k))
      BY <1>1
    <3> QED BY <1>8, <1>9, <3>1
  <2>2. from(i) # from(j)
    BY <1>1, <1>12
  <2> HIDE DEF from
  <2> QED BY <2>1, <2>2
<1>13. \A i \in DOMAIN s : i # k => \E j \in DOMAIN r : r[j] = s[i]
  BY <1>1, <1>7, <1>10
<1>14. \A j \in DOMAIN r : \E i \in DOMAIN s : s[i] = r[j]
  BY <1>1, <1>7, <1>11
<1>15. ASSUME NEW i \in DOMAIN r, NEW j \in DOMAIN r, i # j
       PROVE  \E p \in DOMAIN s : \E q \in DOMAIN s : p # q /\ s[p] = r[i] /\ s[q] = r[j]
  <2>1. i \in 1 .. n - 1 /\ j \in 1 .. n - 1
    BY <1>7
  <2>2. PICK p \in 1 .. n : \E q \in 1 .. n : p # q /\ s[p] = r[i] /\ s[q] = r[j]
    BY <1>12, <1>15, <2>1
  <2>3. PICK q \in 1 .. n : p # q /\ s[p] = r[i] /\ s[q] = r[j]
    BY <2>2
  <2> QED BY <1>1, <2>3
<1>16. Len(r) = Len(s) - 1
  BY <1>7 DEF n
<1> HIDE DEF n
<1>17. \A i \in DOMAIN r : \A j \in DOMAIN r : i # j =>
         \E p \in DOMAIN s : \E q \in DOMAIN s : p # q /\ s[p] = r[i] /\ s[q] = r[j]
  BY <1>15
<1>18. r \in Seq(S)
  BY <1>6
<1>19. /\ RemoveAt(s, k) \in Seq(S)
       /\ Len(RemoveAt(s, k)) = Len(s) - 1
       /\ \A i \in DOMAIN s : i # k => \E j \in DOMAIN RemoveAt(s, k) : RemoveAt(s, k)[j] = s[i]
       /\ \A j \in DOMAIN RemoveAt(s, k) : \E i \in DOMAIN s : s[i] = RemoveAt(s, k)[j]
  BY <1>5, <1>13, <1>14, <1>16, <1>18
<1>20. \A i \in DOMAIN RemoveAt(s, k) : \A j \in DOMAIN RemoveAt(s, k) : i # j =>
         \E p \in DOMAIN s : \E q \in DOMAIN s :
           p # q /\ s[p] = RemoveAt(s, k)[i] /\ s[q] = RemoveAt(s, k)[j]
  BY <1>5, <1>17
<1> QED BY <1>19, <1>20

\* That it keeps every element but one and brings in none.
LEMMA Removed ==
  ASSUME NEW S, NEW s \in Seq(S), NEW k \in DOMAIN s
  PROVE  /\ RemoveAt(s, k) \in Seq(S)
         /\ Len(RemoveAt(s, k)) = Len(s) - 1
         /\ \A i \in DOMAIN s : i # k => \E j \in DOMAIN RemoveAt(s, k) : RemoveAt(s, k)[j] = s[i]
         /\ \A j \in DOMAIN RemoveAt(s, k) : \E i \in DOMAIN s : s[i] = RemoveAt(s, k)[j]
BY Remaining

\* That it makes no copies.
LEMMA Apart ==
  ASSUME NEW S, NEW s \in Seq(S), NEW k \in DOMAIN s,
         NEW i \in DOMAIN RemoveAt(s, k), NEW j \in DOMAIN RemoveAt(s, k), i # j
  PROVE  \E p \in DOMAIN s : \E q \in DOMAIN s :
           p # q /\ s[p] = RemoveAt(s, k)[i] /\ s[q] = RemoveAt(s, k)[j]
BY Remaining

\* Rows put behind others leave those in place.
LEMMA Appended ==
  ASSUME NEW S, NEW s \in Seq(S), NEW t \in Seq(S)
  PROVE  /\ s \o t \in Seq(S)
         /\ Len(s \o t) = Len(s) + Len(t)
         /\ \A i \in DOMAIN s : i \in DOMAIN (s \o t) /\ (s \o t)[i] = s[i]
         /\ \A i \in DOMAIN t : Len(s) + i \in DOMAIN (s \o t) /\ (s \o t)[Len(s) + i] = t[i]
         /\ \A i \in DOMAIN (s \o t) : i \in DOMAIN s \/ \E j \in DOMAIN t : i = Len(s) + j
<1>1. /\ Len(s) \in Nat /\ DOMAIN s = 1 .. Len(s)
      /\ Len(t) \in Nat /\ DOMAIN t = 1 .. Len(t)
  BY Rows
<1>2. /\ s \o t \in Seq(S)
      /\ Len(s \o t) = Len(s) + Len(t)
      /\ \A i \in 1 .. Len(s) + Len(t) :
           (s \o t)[i] = IF i <= Len(s) THEN s[i] ELSE t[i - Len(s)]
  BY ConcatProperties
<1>3. DOMAIN (s \o t) = 1 .. Len(s) + Len(t)
  BY <1>2, Rows
<1>4. ASSUME NEW i \in 1 .. Len(s) PROVE i \in DOMAIN (s \o t) /\ (s \o t)[i] = s[i]
  BY <1>1, <1>2, <1>3
<1>5. ASSUME NEW i \in 1 .. Len(t)
      PROVE  Len(s) + i \in DOMAIN (s \o t) /\ (s \o t)[Len(s) + i] = t[i]
  <2>1. /\ Len(s) + i \in 1 .. Len(s) + Len(t) /\ ~(Len(s) + i <= Len(s))
        /\ Len(s) + i - Len(s) = i
    BY <1>1
  <2> QED BY <1>2, <1>3, <2>1
<1>6. ASSUME NEW i \in 1 .. Len(s) + Len(t)
      PROVE  i \in 1 .. Len(s) \/ \E j \in 1 .. Len(t) : i = Len(s) + j
  <2>1. CASE i > Len(s)
    <3>1. i - Len(s) \in 1 .. Len(t) /\ i = Len(s) + (i - Len(s))
      BY <1>1, <2>1
    <3> QED BY <3>1
  <2> QED BY <1>1, <2>1
<1> QED BY <1>1, <1>2, <1>3, <1>4, <1>5, <1>6

-----------------------------------------------------------------------------
(* The invariant *)

\* Before the first migration there is nothing to lose.
LEMMA InitInv == Init => Inv
<1> SUFFICES ASSUME Init PROVE Inv
  OBVIOUS
<1>1. TypeOK
  <2>1. \A S : <<>> \in Seq(S)
    BY EmptySeq
  <2>2. /\ legacy \in Seq(Attachment) /\ files \in Seq(Names \cup {NULL, GONE})
        /\ links \in Seq([note: Notes, file: DOMAIN files])
    BY <2>1 DEF Init
  <2>3. version \in 3 .. 6
    BY DEF Init
  <2>4. /\ way \in {"up", "down"} /\ ran \in BOOLEAN
        /\ kept \subseteq uploaded /\ uploaded \subseteq Names
        /\ wanted \subseteq Notes \X (Names \cup {NULL})
    BY Zenon DEF Init
  <2> QED BY <2>2, <2>3, <2>4 DEF TypeOK
<1>2. LinksAlive /\ RanTells /\ LegacyComplete /\ JoinedComplete
  BY DEF Init, LinksAlive, RanTells, LegacyComplete, JoinedComplete
<1> QED BY <1>1, <1>2 DEF Inv

\* Every step of migrate leaves the tables to be read complete.
LEMMA MigrateStep == ASSUME Inv, Migrate PROVE Inv'
<1> USE DEF Inv
<1>1. CASE CreateTables
  BY <1>1 DEF CreateTables, Move, site, tables, TypeOK, LinksAlive, RanTells,
              LegacyComplete, JoinedComplete, AsLegacy, AsJoined
<1>2. CASE DropNewTables
  <2>1. TypeOK' /\ LinksAlive'
    BY <1>2 DEF DropNewTables, Move, TypeOK, LinksAlive
  <2> QED BY <1>2, <2>1 DEF DropNewTables, Move, RanTells, LegacyComplete, JoinedComplete, AsLegacy
<1>3. CASE Forwards
  <2> DEFINE fs == [k \in DOMAIN legacy |-> legacy[k].name]
             ls == [k \in DOMAIN legacy |-> [note |-> legacy[k].note, file |-> Len(files) + k]]
             D  == 1 .. Len(files) + Len(legacy)
  <2>1. /\ files' = files \o fs /\ links' = links \o ls /\ legacy' = legacy /\ wanted' = wanted
        /\ kept' = kept /\ uploaded' = uploaded /\ ~ran /\ version = 4 /\ way' = "up"
        /\ \/ version' = 5 /\ ran' = ran
           \/ ran' = TRUE /\ version' = version
    BY <1>3 DEF Forwards, Recorded, Move
  <2>2. /\ legacy \in Seq(Attachment) /\ DOMAIN legacy = 1 .. Len(legacy) /\ Len(legacy) \in Nat
        /\ files \in Seq(Names \cup {NULL, GONE}) /\ DOMAIN files = 1 .. Len(files) /\ Len(files) \in Nat
        /\ links \in Seq([note: Notes, file: DOMAIN files]) /\ Len(links) \in Nat
    BY DEF TypeOK
  <2>a. \A k \in DOMAIN legacy : legacy[k].note \in Notes /\ legacy[k].name \in Names \cup {NULL}
    <3>1. \A k \in DOMAIN legacy : legacy[k] \in Attachment
      BY <2>2, Rows
    <3> QED BY <3>1 DEF Attachment
  <2>3. /\ fs \in Seq(Names \cup {NULL, GONE}) /\ Len(fs) = Len(legacy)
        /\ \A k \in DOMAIN legacy : fs[k] \in Names \cup {NULL}
    <3>1. fs \in [1 .. Len(legacy) -> Names \cup {NULL, GONE}]
      BY <2>2, <2>a
    <3> HIDE DEF fs
    <3>2. fs \in Seq(Names \cup {NULL, GONE}) /\ Len(fs) = Len(legacy)
      BY <2>2, <3>1, RowsMade
    <3> QED BY <2>a, <3>2 DEF fs
  <2>4. ls \in Seq([note: Notes, file: D]) /\ Len(ls) = Len(legacy)
    <3>1. \A k \in DOMAIN legacy : Len(files) + k \in D
      BY <2>2
    <3>2. ls \in [1 .. Len(legacy) -> [note: Notes, file: D]]
      BY <2>2, <2>a, <3>1
    <3> HIDE DEF ls, D
    <3> QED BY <2>2, <3>2, RowsMade
  <2>5. links \in Seq([note: Notes, file: D])
    <3>1. \A f \in DOMAIN files : f \in D
      BY <2>2
    <3> HIDE DEF D
    <3>2. \A l \in DOMAIN links : links[l] \in [note: Notes, file: DOMAIN files]
      BY <2>2, Rows
    <3>3. \A l \in DOMAIN links : links[l] \in [note: Notes, file: D]
      BY <3>1, <3>2
    <3> DEFINE R == [note: Notes, file: DOMAIN files]
               T == [note: Notes, file: D]
    <3>4. links \in Seq(R) /\ \A l \in DOMAIN links : links[l] \in T
      BY <2>2, <3>3
    <3> HIDE DEF R, T
    <3>5. links \in Seq(T)
      BY <3>4, RowsOf
    <3> QED BY <3>5 DEF T
  <2>6. \A k \in DOMAIN legacy : ls[k].note = legacy[k].note /\ ls[k].file = Len(files) + k
    OBVIOUS
  <2>7. \A k \in DOMAIN legacy : fs[k] = legacy[k].name
    OBVIOUS
  <2> HIDE DEF fs, ls
  <2>8. /\ files' \in Seq(Names \cup {NULL, GONE}) /\ Len(files') = Len(files) + Len(legacy)
        /\ \A i \in DOMAIN files : files'[i] = files[i]
        /\ \A k \in DOMAIN legacy : files'[Len(files) + k] = fs[k]
    <3>1. /\ DOMAIN fs = DOMAIN legacy
          /\ files \o fs \in Seq(Names \cup {NULL, GONE}) /\ Len(files \o fs) = Len(files) + Len(fs)
          /\ \A i \in DOMAIN files : (files \o fs)[i] = files[i]
          /\ \A i \in DOMAIN fs : (files \o fs)[Len(files) + i] = fs[i]
      <4>1. DOMAIN fs = DOMAIN legacy
        BY <2>2, <2>3, Rows
      <4>2. files \in Seq(Names \cup {NULL, GONE}) /\ fs \in Seq(Names \cup {NULL, GONE})
        BY <2>2, <2>3
      <4> QED BY <4>1, <4>2, Appended
    <3> QED BY <2>1, <2>3, <3>1
  <2>9. /\ links' \in Seq([note: Notes, file: D])
        /\ \A l \in DOMAIN links : l \in DOMAIN links' /\ links'[l] = links[l]
        /\ \A k \in DOMAIN legacy :
             Len(links) + k \in DOMAIN links' /\ links'[Len(links) + k] = ls[k]
        /\ \A l \in DOMAIN links' :
             l \in DOMAIN links \/ \E k \in DOMAIN legacy : l = Len(links) + k
    <3>1. DOMAIN ls = DOMAIN legacy
      BY <2>2, <2>4, Rows
    <3>2. /\ links \o ls \in Seq([note: Notes, file: D])
          /\ \A l \in DOMAIN links : l \in DOMAIN (links \o ls) /\ (links \o ls)[l] = links[l]
          /\ \A k \in DOMAIN ls :
               Len(links) + k \in DOMAIN (links \o ls) /\ (links \o ls)[Len(links) + k] = ls[k]
          /\ \A l \in DOMAIN (links \o ls) :
               l \in DOMAIN links \/ \E k \in DOMAIN ls : l = Len(links) + k
      BY <2>4, <2>5, Appended
    <3> QED BY <2>1, <3>1, <3>2
  <2>10. DOMAIN files' = D
    BY <2>2, <2>8
  <2>11. TypeOK'
    <3>1. links' \in Seq([note: Notes, file: DOMAIN files'])
      BY <2>9, <2>10
    <3>2. version' \in 3 .. 6
      BY <2>1
    <3>3. ran' \in BOOLEAN
      BY <2>1, Zenon DEF TypeOK
    <3> QED BY <2>1, <2>8, <3>1, <3>2, <3>3 DEF TypeOK
  <2>12. LinksAlive'
    <3>1. \A k \in DOMAIN legacy : fs[k] # GONE
      BY <2>3, NullAssumption
    <3>2. \A k \in DOMAIN legacy : files'[links'[Len(links) + k].file] # GONE
      <4> TAKE k \in DOMAIN legacy
      <4>1. links'[Len(links) + k].file = Len(files) + k
        BY <2>6, <2>9
      <4>2. files'[Len(files) + k] # GONE
        BY <2>8, <3>1
      <4> QED BY <4>1, <4>2
    <3>a. \A l \in DOMAIN links : links[l].file \in DOMAIN files /\ files[links[l].file] # GONE
      <4>1. \A l \in DOMAIN links : links[l] \in [note: Notes, file: DOMAIN files]
        BY <2>2, Rows
      <4> QED BY <4>1 DEF LinksAlive
    <3>3. \A l \in DOMAIN links : files'[links'[l].file] # GONE
      BY <2>8, <2>9, <3>a
    <3> QED BY <2>9, <3>2, <3>3 DEF LinksAlive
  <2>13. AsLegacy(legacy) \subseteq AsJoined(links', files')
    <3> SUFFICES ASSUME NEW k \in DOMAIN legacy
                 PROVE  <<legacy[k].note, legacy[k].name>> \in AsJoined(links', files')
      BY DEF AsLegacy
    <3>1. /\ Len(links) + k \in DOMAIN links'
          /\ links'[Len(links) + k].note = legacy[k].note
          /\ files'[links'[Len(links) + k].file] = legacy[k].name
      BY <2>6, <2>7, <2>8, <2>9
    <3> QED BY <3>1 DEF AsJoined
  <2> QED BY <2>1, <2>11, <2>12, <2>13 DEF RanTells, LegacyComplete, JoinedComplete
<1>4. CASE Backwards
  <2> DEFINE rs == [l \in DOMAIN links |-> [note |-> links[l].note, name |-> files[links[l].file]]]
  <2>1. /\ legacy' = legacy \o rs /\ files' = files /\ links' = links /\ wanted' = wanted
        /\ kept' = kept /\ uploaded' = uploaded /\ ~ran /\ version = 5 /\ way' = "down"
        /\ \/ version' = 4 /\ ran' = ran
           \/ ran' = TRUE /\ version' = version
    BY <1>4 DEF Backwards, Recorded, Move
  <2>2. /\ legacy \in Seq(Attachment) /\ files \in Seq(Names \cup {NULL, GONE})
        /\ links \in Seq([note: Notes, file: DOMAIN files])
        /\ DOMAIN links = 1 .. Len(links) /\ Len(links) \in Nat
    BY DEF TypeOK
  <2>3. \A l \in DOMAIN links : links[l].note \in Notes /\ files[links[l].file] \in Names \cup {NULL}
    <3>1. \A l \in DOMAIN links : links[l] \in [note: Notes, file: DOMAIN files]
      BY <2>2, Rows
    <3>2. \A f \in DOMAIN files : files[f] \in Names \cup {NULL, GONE}
      BY <2>2, Rows
    <3> QED BY <3>1, <3>2 DEF LinksAlive
  <2>4. rs \in Seq(Attachment) /\ DOMAIN rs = DOMAIN links
    <3>2. rs \in [1 .. Len(links) -> Attachment]
      BY <2>2, <2>3 DEF Attachment
    <3> HIDE DEF rs
    <3>3. rs \in Seq(Attachment) /\ Len(rs) = Len(links)
      BY <2>2, <3>2, RowsMade
    <3> QED BY <2>2, <3>2, <3>3
  <2>5. \A l \in DOMAIN links : rs[l].note = links[l].note /\ rs[l].name = files[links[l].file]
    OBVIOUS
  <2> HIDE DEF rs
  <2>6. /\ legacy' \in Seq(Attachment)
        /\ \A l \in DOMAIN links :
             Len(legacy) + l \in DOMAIN legacy' /\ legacy'[Len(legacy) + l] = rs[l]
    <3>1. /\ legacy \o rs \in Seq(Attachment)
          /\ \A l \in DOMAIN rs :
               /\ Len(legacy) + l \in DOMAIN (legacy \o rs)
               /\ (legacy \o rs)[Len(legacy) + l] = rs[l]
      BY <2>2, <2>4, Appended
    <3> QED BY <2>1, <2>4, <3>1
  <2>7. AsJoined(links, files) \subseteq AsLegacy(legacy')
    BY <2>5, <2>6 DEF AsJoined, AsLegacy
  <2>8. TypeOK'
    <3>1. version' \in 3 .. 6
      BY <2>1
    <3>2. ran' \in BOOLEAN
      BY <2>1, Zenon DEF TypeOK
    <3> QED BY <2>1, <2>6, <3>1, <3>2 DEF TypeOK
  <2> QED BY <2>1, <2>7, <2>8 DEF LinksAlive, RanTells, LegacyComplete, JoinedComplete
<1>5. CASE Record
  <2>1. /\ legacy' = legacy /\ files' = files /\ links' = links /\ wanted' = wanted
        /\ kept' = kept /\ uploaded' = uploaded /\ way' = way /\ ran /\ ran' = FALSE
        /\ version' \in {4, 5}
    BY <1>5 DEF Record, tables, RanTells
  <2>2. AsLegacy(legacy)' = AsLegacy(legacy) /\ AsJoined(links, files)' = AsJoined(links, files)
    BY <2>1 DEF AsLegacy, AsJoined
  <2>a. version' \in 3 .. 6
    BY <2>1
  <2>b. ran' \in BOOLEAN
    BY <2>1, Zenon
  <2>3. TypeOK'
    BY <2>1, <2>a, <2>b DEF TypeOK
  <2> QED BY <2>1, <2>2, <2>3 DEF LinksAlive, RanTells, LegacyComplete, JoinedComplete
<1>6. CASE DropLegacy
  <2>1. TypeOK' /\ LinksAlive'
    BY <1>6 DEF DropLegacy, Move, TypeOK, LinksAlive
  <2> QED BY <1>6, <2>1 DEF DropLegacy, Move, RanTells, LegacyComplete, JoinedComplete, AsJoined
<1>7. CASE CreateLegacy
  BY <1>7 DEF CreateLegacy, Move, site, tables, TypeOK, LinksAlive, RanTells,
              LegacyComplete, JoinedComplete, AsLegacy, AsJoined
<1> QED BY Migrate, <1>1, <1>2, <1>3, <1>4, <1>5, <1>6, <1>7 DEF Migrate

\* So does the application, and it loses track of nothing users attached.
LEMMA ServingStep ==
  ASSUME Inv,
         \/ \E n \in Notes, m \in Names \cup {NULL} : OldAttach(n, m) \/ NewAttach(n, m)
         \/ \E k \in DOMAIN legacy : OldDetach(k)
         \/ \E n \in Notes, f \in DOMAIN files : Reference(n, f)
         \/ \E l \in DOMAIN links : NewDetach(l)
         \/ \E f \in DOMAIN files : Reclaim(f)
  PROVE  Inv'
<1>t. /\ legacy \in Seq(Attachment) /\ Len(legacy) \in Nat
      /\ files \in Seq(Names \cup {NULL, GONE}) /\ Len(files) \in Nat
      /\ DOMAIN files = 1 .. Len(files)
      /\ links \in Seq([note: Notes, file: DOMAIN files]) /\ Len(links) \in Nat
      /\ version \in 3 .. 6 /\ ran \in BOOLEAN
  BY DEF Inv, TypeOK
<1>1. ASSUME NEW n \in Notes, NEW m \in Names \cup {NULL}, OldAttach(n, m) PROVE Inv'
  <2> DEFINE a == [note |-> n, name |-> m]
  <2>1. /\ legacy' = Append(legacy, a) /\ files' = files /\ links' = links
        /\ version' = version /\ version <= 4 /\ ~ran /\ ran' = ran /\ way' = way
        /\ wanted' = wanted \cup {<<n, m>>}
        /\ uploaded' = uploaded \cup ({m} \ {NULL}) /\ kept' = kept \cup ({m} \ {NULL})
    BY <1>1 DEF OldAttach, OldApp, Serving, Upload
  <2>2. a \in Attachment /\ a.note = n /\ a.name = m
    BY DEF Attachment
  <2> HIDE DEF a
  <2>3. /\ legacy' \in Seq(Attachment) /\ Len(legacy') = Len(legacy) + 1
        /\ \A k \in DOMAIN legacy : k \in DOMAIN legacy' /\ legacy'[k] = legacy[k]
        /\ Len(legacy) + 1 \in DOMAIN legacy' /\ legacy'[Len(legacy) + 1] = a
    BY <1>t, <2>1, <2>2
  <2>4. AsLegacy(legacy) \cup {<<n, m>>} \subseteq AsLegacy(legacy')
    BY <2>2, <2>3 DEF AsLegacy
  <2>5. TypeOK'
    BY <2>1, <2>3 DEF Inv, TypeOK
  <2> QED
    BY <1>t, <2>1, <2>4, <2>5 DEF Inv, LinksAlive, RanTells, LegacyComplete, JoinedComplete
<1>2. ASSUME NEW n \in Notes, NEW m \in Names \cup {NULL}, NewAttach(n, m) PROVE Inv'
  <2> DEFINE r == [note |-> n, file |-> Len(files) + 1]
             D == 1 .. Len(files) + 1
  <2>1. /\ legacy' = legacy /\ files' = Append(files, m) /\ links' = Append(links, r)
        /\ version' = version /\ version >= 5 /\ ~ran /\ ran' = ran /\ way' = way
        /\ wanted' = wanted \cup {<<n, m>>} /\ m \in Names
        /\ uploaded' = uploaded \cup ({m} \ {NULL}) /\ kept' = kept \cup ({m} \ {NULL})
    BY <1>2 DEF NewAttach, NewApp, Serving, Upload
  <2>2. r \in [note: Notes, file: D] /\ r.note = n /\ r.file = Len(files) + 1
    BY <1>t
  <2>3. links \in Seq([note: Notes, file: D])
    <3>1. \A f \in DOMAIN files : f \in D
      BY <1>t
    <3> HIDE DEF D
    <3>2. \A l \in DOMAIN links : links[l] \in [note: Notes, file: DOMAIN files]
      BY <1>t, Rows
    <3>3. \A l \in DOMAIN links : links[l] \in [note: Notes, file: D]
      BY <3>1, <3>2
    <3> DEFINE R == [note: Notes, file: DOMAIN files]
               T == [note: Notes, file: D]
    <3>4. links \in Seq(R) /\ \A l \in DOMAIN links : links[l] \in T
      BY <1>t, <3>3
    <3> HIDE DEF R, T
    <3>5. links \in Seq(T)
      BY <3>4, RowsOf
    <3> QED BY <3>5 DEF T
  <2> HIDE DEF r
  <2>4. /\ files' \in Seq(Names \cup {NULL, GONE}) /\ DOMAIN files' = D
        /\ \A f \in DOMAIN files : files'[f] = files[f]
        /\ files'[Len(files) + 1] = m
    BY <1>t, <2>1, AppendProperties, Rows
  <2>5. /\ links' \in Seq([note: Notes, file: D]) /\ Len(links') = Len(links) + 1
        /\ \A l \in DOMAIN links : l \in DOMAIN links' /\ links'[l] = links[l]
        /\ Len(links) + 1 \in DOMAIN links' /\ links'[Len(links) + 1] = r
        /\ \A l \in DOMAIN links' : l \in DOMAIN links \/ l = Len(links) + 1
    BY <1>t, <2>1, <2>2, <2>3
  <2>6. \A l \in DOMAIN links : links[l].file \in DOMAIN files /\ files[links[l].file] # GONE
    <3>1. \A l \in DOMAIN links : links[l] \in [note: Notes, file: DOMAIN files]
      BY <1>t, Rows
    <3> QED BY <3>1 DEF Inv, LinksAlive
  <2>7. LinksAlive'
    BY <2>1, <2>2, <2>4, <2>5, <2>6, NullAssumption DEF LinksAlive
  <2>8. AsJoined(links, files) \cup {<<n, m>>} \subseteq AsJoined(links', files')
    BY <2>2, <2>4, <2>5, <2>6 DEF AsJoined
  <2>9. TypeOK'
    BY <2>1, <2>4, <2>5 DEF Inv, TypeOK
  <2> QED
    BY <1>t, <2>1, <2>7, <2>8, <2>9 DEF Inv, RanTells, LegacyComplete, JoinedComplete
<1>3. ASSUME NEW k \in DOMAIN legacy, OldDetach(k) PROVE Inv'
  <2> DEFINE gone == <<legacy[k].note, legacy[k].name>>
  <2>1. /\ legacy' = RemoveAt(legacy, k) /\ files' = files /\ links' = links
        /\ version' = version /\ version <= 4 /\ ~ran /\ ran' = ran /\ way' = way
        /\ wanted' = wanted \ ({gone} \ AsLegacy(legacy'))
        /\ uploaded' = uploaded /\ kept' = kept
    BY <1>3 DEF OldDetach, OldApp, Serving
  <2>2. /\ legacy' \in Seq(Attachment)
        /\ \A i \in DOMAIN legacy : i # k => \E j \in DOMAIN legacy' : legacy'[j] = legacy[i]
    BY <1>t, <2>1, Removed
  <2>3. AsLegacy(legacy) \subseteq AsLegacy(legacy') \cup {gone}
    BY <2>2 DEF AsLegacy
  <2>4. TypeOK'
    BY <2>1, <2>2 DEF Inv, TypeOK
  <2> QED
    BY <1>t, <2>1, <2>3, <2>4 DEF Inv, LinksAlive, RanTells, LegacyComplete, JoinedComplete
<1>4. ASSUME NEW n \in Notes, NEW f \in DOMAIN files, Reference(n, f) PROVE Inv'
  <2> DEFINE r == [note |-> n, file |-> f]
  <2>1. /\ legacy' = legacy /\ files' = files /\ links' = Append(links, r) /\ files[f] # GONE
        /\ version' = version /\ version >= 5 /\ ~ran /\ ran' = ran /\ way' = way
        /\ wanted' = wanted \cup {<<n, files[f]>>}
        /\ uploaded' = uploaded /\ kept' = kept
    BY <1>4 DEF Reference, NewApp, Serving
  <2>2. r \in [note: Notes, file: DOMAIN files] /\ r.note = n /\ r.file = f
    OBVIOUS
  <2> HIDE DEF r
  <2>3. /\ links' \in Seq([note: Notes, file: DOMAIN files])
        /\ \A l \in DOMAIN links : l \in DOMAIN links' /\ links'[l] = links[l]
        /\ Len(links) + 1 \in DOMAIN links' /\ links'[Len(links) + 1] = r
        /\ \A l \in DOMAIN links' : l \in DOMAIN links \/ l = Len(links) + 1
    BY <1>t, <2>1, <2>2
  <2>4. LinksAlive'
    BY <2>1, <2>2, <2>3 DEF Inv, LinksAlive
  <2>5. AsJoined(links, files) \cup {<<n, files[f]>>} \subseteq AsJoined(links', files')
    <3>1. \A l \in DOMAIN links : <<links[l].note, files[links[l].file]>> \in AsJoined(links', files)
      BY <2>3 DEF AsJoined
    <3>2. links'[Len(links) + 1].note = n /\ links'[Len(links) + 1].file = f
      BY <2>2, <2>3
    <3>3. <<n, files[f]>> \in AsJoined(links', files)
      BY <2>3, <3>2 DEF AsJoined
    <3>4. AsJoined(links, files) \cup {<<n, files[f]>>} \subseteq AsJoined(links', files)
      BY <3>1, <3>3 DEF AsJoined
    <3> QED BY <2>1, <3>4
  <2>6. files[f] \in Names \cup {NULL}
    BY <1>t, <2>1
  <2>7. TypeOK'
    BY <2>1, <2>3, <2>6 DEF Inv, TypeOK
  <2> QED
    BY <1>t, <2>1, <2>4, <2>5, <2>7 DEF Inv, RanTells, LegacyComplete, JoinedComplete
<1>5. ASSUME NEW k \in DOMAIN links, NewDetach(k) PROVE Inv'
  <2> DEFINE gone == <<links[k].note, files[links[k].file]>>
  <2>1. /\ legacy' = legacy /\ files' = files /\ links' = RemoveAt(links, k)
        /\ version' = version /\ version >= 5 /\ ~ran /\ ran' = ran /\ way' = way
        /\ wanted' = wanted \ ({gone} \ AsJoined(links', files))
        /\ uploaded' = uploaded /\ kept' = kept
    BY <1>5 DEF NewDetach, NewApp, Serving
  <2>2. /\ links' \in Seq([note: Notes, file: DOMAIN files])
        /\ \A i \in DOMAIN links : i # k => \E j \in DOMAIN links' : links'[j] = links[i]
        /\ \A j \in DOMAIN links' : \E i \in DOMAIN links : links[i] = links'[j]
    BY <1>t, <2>1, Removed
  <2>3. AsJoined(links, files) \subseteq AsJoined(links', files) \cup {gone}
    BY <2>2 DEF AsJoined
  <2>4. LinksAlive'
    BY <2>1, <2>2 DEF Inv, LinksAlive
  <2>5. TypeOK'
    BY <2>1, <2>2 DEF Inv, TypeOK
  <2> QED
    BY <1>t, <2>1, <2>3, <2>4, <2>5 DEF Inv, RanTells, LegacyComplete, JoinedComplete
<1>6. ASSUME NEW f \in DOMAIN files, Reclaim(f) PROVE Inv'
  <2>1. /\ legacy' = legacy /\ files' = [files EXCEPT ![f] = GONE] /\ links' = links
        /\ version' = version /\ version >= 5 /\ ~ran /\ ran' = ran /\ way' = way
        /\ wanted' = wanted /\ uploaded' = uploaded /\ kept' \subseteq kept
        /\ \A l \in DOMAIN links : links[l].file # f
    BY <1>6 DEF Reclaim, NewApp, Serving
  <2>2. files' \in Seq(Names \cup {NULL, GONE}) /\ DOMAIN files' = DOMAIN files
    BY <1>t, <2>1
  <2>3. \A l \in DOMAIN links : files'[links[l].file] = files[links[l].file]
    BY <1>t, <2>1
  <2>4. AsJoined(links', files') = AsJoined(links, files)
    BY <2>1, <2>3 DEF AsJoined
  <2>5. TypeOK'
    BY <2>1, <2>2 DEF Inv, TypeOK
  <2> QED
    BY <1>t, <2>1, <2>3, <2>4, <2>5 DEF Inv, LinksAlive, RanTells, LegacyComplete, JoinedComplete
<1> QED BY <1>1, <1>2, <1>3, <1>4, <1>5, <1>6

\* The invariant is inductive.
LEMMA InvStep == Inv /\ [Next]_vars => Inv'
<1> SUFFICES ASSUME Inv, [Next]_vars PROVE Inv'
  OBVIOUS
<1>1. CASE Next
  BY <1>1, MigrateStep, ServingStep DEF Next
<1>2. CASE UNCHANGED vars
  BY <1>2 DEF vars, tables, site, Inv, TypeOK, LinksAlive, RanTells, LegacyComplete,
              JoinedComplete, AsLegacy, AsJoined
<1> QED BY <1>1, <1>2

-----------------------------------------------------------------------------
(* Theorems *)

\* Tables are complete when they are the ones to read, wherever migrate stands.
THEOREM Invariance == Spec => []Inv
BY InitInv, InvStep, PTL DEF Spec

\* Rows of either version are well formed, and join rows have their records.
THEOREM TypeCorrect == Spec => []TypeOK
<1>1. Inv => TypeOK
  BY DEF Inv
<1> QED BY <1>1, Invariance, PTL

\* No attachment is lost, however far operators migrate up and down, whatever is
\* written between the steps, and even when migrate dies after the copy of 0005 and
\* runs it again.
THEOREM NothingLostTheorem == Spec => []NothingLost
<1>1. Inv => NothingLost
  BY DEF Inv, TypeOK, LegacyComplete, JoinedComplete, NothingLost, Shown
<1> QED BY <1>1, Invariance, PTL

-----------------------------------------------------------------------------
(* Migrations run end to end add nothing *)

\* The tables that are read have what users attached, a row for each at most.
LegacyExact == version <= 4 => AsLegacy(legacy) \subseteq wanted /\ Len(legacy) <= made
JoinedExact == version >= 5 => AsJoined(links, files) \subseteq wanted /\ Len(links) <= made

\* The tables that a copy goes to are empty.
NewEmpty    == version = 3 \/ (version = 4 /\ way = "up") => files = <<>> /\ links = <<>>
LegacyEmpty == version = 6 \/ (version = 5 /\ way = "down") => legacy = <<>>

Exact == ~ran /\ LegacyExact /\ JoinedExact /\ NewEmpty /\ LegacyEmpty

EndToEnd == made \in Nat /\ (oneGo /\ atomic => Exact)

\* The copy of 0005 finds the tables of 2.0 empty, and reversed the legacy one; the
\* other steps of migrate leave the rows that are read alone.
LEMMA ExactMigrate ==
  ASSUME Inv, made \in Nat, oneGo, atomic, Exact, Migrate
  PROVE  Exact' /\ made' \in Nat
<1>t. /\ legacy \in Seq(Attachment) /\ DOMAIN legacy = 1 .. Len(legacy) /\ Len(legacy) \in Nat
      /\ files \in Seq(Names \cup {NULL, GONE}) /\ links \in Seq([note: Notes, file: DOMAIN files])
      /\ DOMAIN links = 1 .. Len(links) /\ Len(links) \in Nat
  BY DEF Inv, TypeOK
<1>1. CASE CreateTables
  <2>1. /\ legacy' = legacy /\ files' = files /\ links' = links /\ wanted' = wanted
        /\ made' = made /\ version = 3 /\ version' = 4 /\ way' = "up" /\ ~ran'
    BY <1>1 DEF CreateTables, Move, Exact, tables
  <2>2. AsLegacy(legacy') = AsLegacy(legacy)
    BY <2>1
  <2>3. LegacyExact /\ NewEmpty
    BY Zenon DEF Exact
  <2>4. LegacyExact' /\ JoinedExact' /\ NewEmpty' /\ LegacyEmpty'
    BY <2>1, <2>2, <2>3 DEF LegacyExact, JoinedExact, NewEmpty, LegacyEmpty
  <2> QED BY <2>1, <2>4 DEF Exact
<1>2. CASE DropNewTables
  BY <1>2 DEF DropNewTables, Move, Exact, LegacyExact, JoinedExact, NewEmpty, LegacyEmpty, AsLegacy
<1>3. CASE Forwards
  <2> DEFINE fs == [k \in DOMAIN legacy |-> legacy[k].name]
             ls == [k \in DOMAIN legacy |-> [note |-> legacy[k].note, file |-> k]]
  <2>1. /\ version = 4 /\ way = "up" /\ version' = 5 /\ way' = "up" /\ ~ran' /\ legacy' = legacy
        /\ wanted' = wanted /\ made' = made
    BY <1>3 DEF Forwards, Recorded, Move, Exact
  <2>2. files = <<>> /\ links = <<>> /\ Len(files) = 0
    BY <2>1 DEF Exact, NewEmpty
  <2>3. /\ files' = <<>> \o fs
        /\ links' = <<>> \o [k \in DOMAIN legacy |-> [note |-> legacy[k].note, file |-> 0 + k]]
    BY <1>3, <2>2 DEF Forwards
  <2>4. \A k \in DOMAIN legacy : 0 + k = k
    BY <1>t
  <2>5. files' = <<>> \o fs /\ links' = <<>> \o ls
    BY <2>3, <2>4
  <2>6. \A k \in DOMAIN legacy : legacy[k].note \in Notes /\ legacy[k].name \in Names \cup {NULL}
    <3>1. \A k \in DOMAIN legacy : legacy[k] \in Attachment
      BY <1>t, Rows
    <3> QED BY <3>1 DEF Attachment
  <2>7. /\ fs \in [1 .. Len(legacy) -> Names \cup {NULL}]
        /\ ls \in [1 .. Len(legacy) -> [note: Notes, file: Nat]]
    BY <1>t, <2>6
  <2>8. \A k \in DOMAIN legacy :
          fs[k] = legacy[k].name /\ ls[k].note = legacy[k].note /\ ls[k].file = k
    OBVIOUS
  <2> HIDE DEF fs, ls
  <2>9. fs \in Seq(Names \cup {NULL}) /\ ls \in Seq([note: Notes, file: Nat]) /\ Len(ls) = Len(legacy)
    BY <1>t, <2>7, RowsMade
  <2>10. files' = fs /\ links' = ls /\ DOMAIN ls = DOMAIN legacy
    <3>1. <<>> \o fs = fs /\ <<>> \o ls = ls
      BY <2>9, ConcatEmptySeq
    <3> QED BY <1>t, <2>5, <2>7, <3>1
  <2>11. AsJoined(ls, fs) \subseteq AsLegacy(legacy)
    BY <2>8, <2>10 DEF AsJoined, AsLegacy
  <2>12. AsJoined(links', files') \subseteq wanted' /\ Len(links') <= made'
    <3>1. AsLegacy(legacy) \subseteq wanted /\ Len(legacy) <= made
      BY <2>1 DEF Exact, LegacyExact
    <3> QED BY <2>1, <2>9, <2>10, <2>11, <3>1
  <2>13. LegacyExact' /\ NewEmpty' /\ LegacyEmpty'
    BY <2>1 DEF LegacyExact, NewEmpty, LegacyEmpty
  <2> QED BY <2>1, <2>12, <2>13 DEF Exact, JoinedExact
<1>4. CASE Backwards
  <2> DEFINE rs == [l \in DOMAIN links |-> [note |-> links[l].note, name |-> files[links[l].file]]]
  <2>1. /\ version = 5 /\ way = "down" /\ version' = 4 /\ way' = "down" /\ ~ran'
        /\ files' = files /\ links' = links /\ legacy' = legacy \o rs
        /\ wanted' = wanted /\ made' = made
    BY <1>4 DEF Backwards, Recorded, Move, Exact
  <2>2. legacy = <<>>
    BY <2>1 DEF Exact, LegacyEmpty
  <2>3. rs \in [1 .. Len(links) -> {rs[l] : l \in DOMAIN links}]
    BY <1>t
  <2>4. \A l \in DOMAIN links : rs[l].note = links[l].note /\ rs[l].name = files[links[l].file]
    OBVIOUS
  <2> HIDE DEF rs
  <2>5. rs \in Seq({rs[l] : l \in DOMAIN links}) /\ Len(rs) = Len(links)
    BY <1>t, <2>3, RowsMade
  <2>6. legacy' = rs /\ DOMAIN rs = DOMAIN links
    <3>1. <<>> \o rs = rs
      BY <2>5, ConcatEmptySeq
    <3> QED BY <1>t, <2>1, <2>2, <2>3, <3>1
  <2>7. AsLegacy(rs) \subseteq AsJoined(links, files)
    BY <2>4, <2>6 DEF AsJoined, AsLegacy
  <2>8. AsLegacy(legacy') \subseteq wanted' /\ Len(legacy') <= made'
    <3>1. AsJoined(links, files) \subseteq wanted /\ Len(links) <= made
      BY <2>1 DEF Exact, JoinedExact
    <3> QED BY <2>1, <2>5, <2>6, <2>7, <3>1
  <2>9. JoinedExact' /\ NewEmpty' /\ LegacyEmpty'
    BY <2>1 DEF JoinedExact, NewEmpty, LegacyEmpty
  <2> QED BY <2>1, <2>8, <2>9 DEF Exact, LegacyExact
<1>5. CASE Record
  BY <1>5 DEF Record, Exact
<1>6. CASE DropLegacy
  BY <1>6 DEF DropLegacy, Move, Exact, LegacyExact, JoinedExact, NewEmpty, LegacyEmpty, AsJoined
<1>7. CASE CreateLegacy
  <2>1. /\ legacy' = legacy /\ files' = files /\ links' = links /\ wanted' = wanted
        /\ made' = made /\ version = 6 /\ version' = 5 /\ way' = "down" /\ ~ran'
    BY <1>7 DEF CreateLegacy, Move, Exact, tables
  <2>2. AsJoined(links', files') = AsJoined(links, files)
    BY <2>1
  <2>3. JoinedExact /\ LegacyEmpty
    BY Zenon DEF Exact
  <2>4. LegacyExact' /\ JoinedExact' /\ NewEmpty' /\ LegacyEmpty'
    BY <2>1, <2>2, <2>3 DEF LegacyExact, JoinedExact, NewEmpty, LegacyEmpty
  <2> QED BY <2>1, <2>4 DEF Exact
<1> QED BY Migrate, <1>1, <1>2, <1>3, <1>4, <1>5, <1>6, <1>7 DEF Migrate

\* The application writes at the ends only, and what it writes users wanted.
LEMMA ExactServing ==
  ASSUME Inv, made \in Nat, oneGo, atomic, Exact,
         \/ \E n \in Notes, m \in Names \cup {NULL} : OldAttach(n, m) \/ NewAttach(n, m)
         \/ \E k \in DOMAIN legacy : OldDetach(k)
         \/ \E n \in Notes, f \in DOMAIN files : Reference(n, f)
         \/ \E l \in DOMAIN links : NewDetach(l)
         \/ \E f \in DOMAIN files : Reclaim(f)
  PROVE  Exact' /\ made' \in Nat
<1>t. /\ legacy \in Seq(Attachment) /\ Len(legacy) \in Nat /\ DOMAIN legacy = 1 .. Len(legacy)
      /\ files \in Seq(Names \cup {NULL, GONE}) /\ Len(files) \in Nat
      /\ DOMAIN files = 1 .. Len(files) /\ DOMAIN links = 1 .. Len(links)
      /\ links \in Seq([note: Notes, file: DOMAIN files]) /\ Len(links) \in Nat
      /\ version \in 3 .. 6
  BY DEF Inv, TypeOK
<1>l. \A l \in DOMAIN links : links[l].file \in DOMAIN files
  <2>1. \A l \in DOMAIN links : links[l] \in [note: Notes, file: DOMAIN files]
    BY <1>t, Rows
  <2> QED BY <2>1
<1>1. ASSUME NEW n \in Notes, NEW m \in Names \cup {NULL}, OldAttach(n, m)
      PROVE  Exact' /\ made' \in Nat
  <2> DEFINE a == [note |-> n, name |-> m]
  <2>1. /\ legacy' = Append(legacy, a) /\ files' = files /\ links' = links
        /\ version = 3 /\ version' = version /\ ~ran' /\ way' = way
        /\ wanted' = wanted \cup {<<n, m>>} /\ made' = made + 1
    BY <1>t, <1>1 DEF OldAttach, OldApp, Serving, Upload, Exact
  <2>2. a \in Attachment /\ a.note = n /\ a.name = m
    BY DEF Attachment
  <2> HIDE DEF a
  <2>3. /\ Len(legacy') = Len(legacy) + 1
        /\ \A k \in DOMAIN legacy : legacy'[k] = legacy[k]
        /\ legacy'[Len(legacy) + 1] = a
        /\ \A k \in DOMAIN legacy' : k \in DOMAIN legacy \/ k = Len(legacy) + 1
    BY <1>t, <2>1, <2>2
  <2>4. AsLegacy(legacy') \subseteq AsLegacy(legacy) \cup {<<n, m>>}
    BY <2>2, <2>3 DEF AsLegacy
  <2>5. AsLegacy(legacy) \subseteq wanted /\ Len(legacy) <= made /\ files = <<>> /\ links = <<>>
    BY <2>1 DEF Exact, LegacyExact, NewEmpty
  <2>6. LegacyExact' /\ JoinedExact' /\ made' \in Nat
    BY <1>t, <2>1, <2>3, <2>4, <2>5 DEF LegacyExact, JoinedExact
  <2>7. NewEmpty' /\ LegacyEmpty'
    BY <2>1, <2>5 DEF NewEmpty, LegacyEmpty
  <2> QED BY <2>1, <2>6, <2>7 DEF Exact
<1>2. ASSUME NEW n \in Notes, NEW m \in Names \cup {NULL}, NewAttach(n, m)
      PROVE  Exact' /\ made' \in Nat
  <2> DEFINE r == [note |-> n, file |-> Len(files) + 1]
  <2>1. /\ legacy' = legacy /\ files' = Append(files, m) /\ links' = Append(links, r)
        /\ version = 6 /\ version' = version /\ ~ran' /\ way' = way
        /\ wanted' = wanted \cup {<<n, m>>} /\ made' = made + 1
    BY <1>t, <1>2 DEF NewAttach, NewApp, Serving, Upload, Exact
  <2>2. r.note = n /\ r.file = Len(files) + 1
    OBVIOUS
  <2> HIDE DEF r
  <2>3. /\ \A f \in DOMAIN files : files'[f] = files[f]
        /\ files'[Len(files) + 1] = m
    BY <1>t, <2>1, AppendProperties, Rows
  <2>4. /\ Len(links') = Len(links) + 1
        /\ \A l \in DOMAIN links : links'[l] = links[l]
        /\ links'[Len(links) + 1] = r
        /\ \A l \in DOMAIN links' : l \in DOMAIN links \/ l = Len(links) + 1
    BY <1>t, <2>1
  <2>5. AsJoined(links', files') \subseteq AsJoined(links, files) \cup {<<n, m>>}
    BY <1>l, <2>2, <2>3, <2>4 DEF AsJoined
  <2>6. AsJoined(links, files) \subseteq wanted /\ Len(links) <= made /\ legacy = <<>>
    BY <2>1 DEF Exact, JoinedExact, LegacyEmpty
  <2>7. LegacyExact' /\ JoinedExact' /\ made' \in Nat
    BY <1>t, <2>1, <2>4, <2>5, <2>6 DEF LegacyExact, JoinedExact
  <2>8. NewEmpty' /\ LegacyEmpty'
    BY <2>1, <2>6 DEF NewEmpty, LegacyEmpty
  <2> QED BY <2>1, <2>7, <2>8 DEF Exact
<1>3. ASSUME NEW k \in DOMAIN legacy, OldDetach(k) PROVE Exact' /\ made' \in Nat
  <2> DEFINE gone == <<legacy[k].note, legacy[k].name>>
  <2>1. /\ legacy' = RemoveAt(legacy, k) /\ files' = files /\ links' = links
        /\ version = 3 /\ version' = version /\ ~ran' /\ way' = way /\ made' = made
        /\ wanted' = wanted \ ({gone} \ AsLegacy(legacy'))
    BY <1>t, <1>3 DEF OldDetach, OldApp, Serving, Exact
  <2>2. /\ Len(legacy') = Len(legacy) - 1
        /\ \A j \in DOMAIN legacy' : \E i \in DOMAIN legacy : legacy[i] = legacy'[j]
    BY <1>t, <2>1, Removed
  <2>3. AsLegacy(legacy') \subseteq AsLegacy(legacy)
    BY <2>2 DEF AsLegacy
  <2>4. AsLegacy(legacy) \subseteq wanted /\ Len(legacy) <= made /\ files = <<>> /\ links = <<>>
    BY <2>1 DEF Exact, LegacyExact, NewEmpty
  <2> HIDE DEF gone
  <2>5. AsLegacy(legacy') \subseteq wanted'
    BY <2>1, <2>3, <2>4, Zenon
  <2>6. Len(legacy') <= made' /\ made' \in Nat
    BY <1>t, <2>1, <2>2, <2>4
  <2>7. LegacyExact' /\ JoinedExact'
    BY <2>1, <2>5, <2>6 DEF LegacyExact, JoinedExact
  <2>8. NewEmpty' /\ LegacyEmpty'
    BY <2>1, <2>4 DEF NewEmpty, LegacyEmpty
  <2> QED BY <2>1, <2>6, <2>7, <2>8 DEF Exact
<1>4. ASSUME NEW n \in Notes, NEW f \in DOMAIN files, Reference(n, f)
      PROVE  Exact' /\ made' \in Nat
  <2> DEFINE r == [note |-> n, file |-> f]
  <2>1. /\ legacy' = legacy /\ files' = files /\ links' = Append(links, r)
        /\ version = 6 /\ version' = version /\ ~ran' /\ way' = way
        /\ wanted' = wanted \cup {<<n, files[f]>>} /\ made' = made + 1
    BY <1>t, <1>4 DEF Reference, NewApp, Serving, Exact
  <2>2. r.note = n /\ r.file = f
    OBVIOUS
  <2> HIDE DEF r
  <2>3. /\ Len(links') = Len(links) + 1
        /\ \A l \in DOMAIN links : links'[l] = links[l]
        /\ links'[Len(links) + 1] = r
        /\ \A l \in DOMAIN links' : l \in DOMAIN links \/ l = Len(links) + 1
    BY <1>t, <2>1
  <2>4. AsJoined(links', files) \subseteq AsJoined(links, files) \cup {<<n, files[f]>>}
    BY <2>2, <2>3 DEF AsJoined
  <2>5. AsJoined(links, files) \subseteq wanted /\ Len(links) <= made /\ legacy = <<>>
    BY <2>1 DEF Exact, JoinedExact, LegacyEmpty
  <2>6. LegacyExact' /\ JoinedExact' /\ made' \in Nat
    BY <1>t, <2>1, <2>3, <2>4, <2>5 DEF LegacyExact, JoinedExact
  <2>7. NewEmpty' /\ LegacyEmpty'
    BY <2>1, <2>5 DEF NewEmpty, LegacyEmpty
  <2> QED BY <2>1, <2>6, <2>7 DEF Exact
<1>5. ASSUME NEW k \in DOMAIN links, NewDetach(k) PROVE Exact' /\ made' \in Nat
  <2> DEFINE gone == <<links[k].note, files[links[k].file]>>
  <2>1. /\ legacy' = legacy /\ files' = files /\ links' = RemoveAt(links, k)
        /\ version = 6 /\ version' = version /\ ~ran' /\ way' = way /\ made' = made
        /\ wanted' = wanted \ ({gone} \ AsJoined(links', files))
    BY <1>t, <1>5 DEF NewDetach, NewApp, Serving, Exact
  <2>2. /\ Len(links') = Len(links) - 1
        /\ \A j \in DOMAIN links' : \E i \in DOMAIN links : links[i] = links'[j]
    BY <1>t, <2>1, Removed
  <2>3. AsJoined(links', files) \subseteq AsJoined(links, files)
    BY <2>2 DEF AsJoined
  <2>4. AsJoined(links, files) \subseteq wanted /\ Len(links) <= made /\ legacy = <<>>
    BY <2>1 DEF Exact, JoinedExact, LegacyEmpty
  <2> HIDE DEF gone
  <2>5. AsJoined(links', files) \subseteq wanted'
    BY <2>1, <2>3, <2>4, Zenon
  <2>6. Len(links') <= made' /\ made' \in Nat
    BY <1>t, <2>1, <2>2, <2>4
  <2>7. LegacyExact' /\ JoinedExact'
    BY <2>1, <2>5, <2>6 DEF LegacyExact, JoinedExact
  <2>8. NewEmpty' /\ LegacyEmpty'
    BY <2>1, <2>4 DEF NewEmpty, LegacyEmpty
  <2> QED BY <2>1, <2>6, <2>7, <2>8 DEF Exact
<1>6. ASSUME NEW f \in DOMAIN files, Reclaim(f) PROVE Exact' /\ made' \in Nat
  <2>1. /\ legacy' = legacy /\ files' = [files EXCEPT ![f] = GONE] /\ links' = links
        /\ version = 6 /\ version' = version /\ ~ran' /\ way' = way
        /\ wanted' = wanted /\ made' = made
        /\ \A l \in DOMAIN links : links[l].file # f
    BY <1>t, <1>6 DEF Reclaim, NewApp, Serving, tables, Exact
  <2>2. \A l \in DOMAIN links : files'[links[l].file] = files[links[l].file]
    BY <1>t, <2>1
  <2>3. AsJoined(links', files') = AsJoined(links, files)
    BY <2>1, <2>2 DEF AsJoined
  <2>4. AsJoined(links, files) \subseteq wanted /\ Len(links) <= made /\ legacy = <<>>
    BY <2>1 DEF Exact, JoinedExact, LegacyEmpty
  <2>5. LegacyExact' /\ JoinedExact' /\ made' \in Nat
    BY <2>1, <2>3, <2>4 DEF LegacyExact, JoinedExact
  <2>6. NewEmpty' /\ LegacyEmpty'
    BY <2>1, <2>4 DEF NewEmpty, LegacyEmpty
  <2> QED BY <2>1, <2>5, <2>6 DEF Exact
<1> QED BY <1>1, <1>2, <1>3, <1>4, <1>5, <1>6

\* Nothing is there before the first migration.
LEMMA InitEndToEnd == Init => EndToEnd
<1> SUFFICES ASSUME Init PROVE EndToEnd
  OBVIOUS
<1>1. /\ legacy = <<>> /\ files = <<>> /\ links = <<>> /\ version = 3 /\ made = 0
      /\ DOMAIN legacy = {} /\ Len(legacy) = 0
  BY DEF Init
<1>2. ~ran
  BY Zenon DEF Init
<1>3. AsLegacy(legacy) = {}
  BY <1>1 DEF AsLegacy
<1>4. LegacyExact /\ JoinedExact /\ NewEmpty /\ LegacyEmpty
  BY <1>1, <1>3 DEF LegacyExact, JoinedExact, NewEmpty, LegacyEmpty
<1> QED BY <1>1, <1>2, <1>4 DEF EndToEnd, Exact

\* Attachments are counted whoever migrates.
LEMMA MadeStep == made \in Nat /\ [Next]_vars => made' \in Nat
<1> SUFFICES ASSUME made \in Nat, [Next]_vars PROVE made' = made \/ made' = made + 1
  OBVIOUS
<1>1. CASE Migrate
  BY <1>1 DEF Migrate, CreateTables, DropNewTables, Forwards, Backwards, Record, DropLegacy, CreateLegacy
<1>2. CASE UNCHANGED vars
  BY <1>2 DEF vars
<1>3. ASSUME NEW n \in Notes, NEW m \in Names \cup {NULL}, OldAttach(n, m) \/ NewAttach(n, m)
      PROVE  made' = made + 1
  BY <1>3 DEF OldAttach, NewAttach, Upload
<1>4. ASSUME NEW k \in DOMAIN legacy, OldDetach(k) PROVE made' = made
  BY <1>4 DEF OldDetach
<1>5. ASSUME NEW n \in Notes, NEW f \in DOMAIN files, Reference(n, f) PROVE made' = made + 1
  BY <1>5 DEF Reference
<1>6. ASSUME NEW l \in DOMAIN links, NewDetach(l) PROVE made' = made
  BY <1>6 DEF NewDetach
<1>7. ASSUME NEW f \in DOMAIN files, Reclaim(f) PROVE made' = made
  BY <1>7 DEF Reclaim
<1> QED BY <1>1, <1>2, <1>3, <1>4, <1>5, <1>6, <1>7 DEF Next

\* Nobody changes how a site migrates.
LEMMA SiteStep == [Next]_vars => oneGo' = oneGo /\ atomic' = atomic
BY DEF Next, vars, site, Migrate, CreateTables, DropNewTables, Forwards, Backwards, Record, DropLegacy,
       CreateLegacy, OldAttach, NewAttach, OldDetach, NewDetach, Reference, Reclaim

\* With Inv, EndToEnd is inductive.
LEMMA EndToEndStep == Inv /\ EndToEnd /\ [Next]_vars => EndToEnd'
<1> SUFFICES ASSUME Inv, EndToEnd, [Next]_vars, oneGo', atomic'
             PROVE  Exact'
  BY MadeStep, Zenon DEF EndToEnd
<1>1. made \in Nat /\ Exact /\ oneGo /\ atomic
  BY SiteStep, Zenon DEF EndToEnd
<1>2. CASE Next
  BY <1>1, <1>2, ExactMigrate, ExactServing DEF Next
<1>3. CASE UNCHANGED vars
  BY <1>1, <1>3 DEF vars, tables, Exact, LegacyExact, JoinedExact, NewEmpty, LegacyEmpty,
                    AsLegacy, AsJoined
<1> QED BY <1>2, <1>3

\* Migrations run end to end, on a database that commits them whole, neither
\* revive an attachment a user deleted nor make one into several.
THEOREM NothingAddedTheorem == Spec => []NothingAdded
<1>1. Inv /\ EndToEnd => NothingAdded
  <2> SUFFICES ASSUME Inv, EndToEnd, oneGo, atomic
               PROVE  /\ Shown \subseteq wanted
                      /\ Len(IF version >= 5 THEN links ELSE legacy) <= made
    BY Zenon DEF NothingAdded
  <2>1. LegacyExact /\ JoinedExact
    BY Zenon DEF EndToEnd, Exact
  <2>2. version \in 3 .. 6
    BY DEF Inv, TypeOK
  <2> QED BY <2>1, <2>2 DEF LegacyExact, JoinedExact, Shown
<1>2. Init => EndToEnd
  BY InitEndToEnd
<1>3. Spec => []EndToEnd
  BY <1>2, Invariance, EndToEndStep, PTL DEF Spec
<1> QED BY <1>1, <1>3, Invariance, PTL

-----------------------------------------------------------------------------
(* One upgrade and one rollback keep the files *)

\* Where migrations run end to end, the number of steps tells where they stand.
AtMove ==
  /\ version = IF moves <= 3 THEN 3 + moves ELSE 9 - moves
  /\ moves \in {1, 2} => way = "up"
  /\ moves \in {4, 5} => way = "down"

\* The bytes of the rows that are read are in the storage.
LegacyHere == version <= 4 =>
  \A k \in DOMAIN legacy : legacy[k].name \in Names => legacy[k].name \in kept
FilesHere  == version >= 5 =>
  \A f \in DOMAIN files : files[f] \in Names => files[f] \in kept

\* Until the copy, and from it to the rollback, no two rows have one file.
LegacyOnce == moves <= 1 =>
  \A i, j \in DOMAIN legacy : i # j /\ legacy[i].name \in Names => legacy[i].name # legacy[j].name
FilesOnce  == moves \in {2, 3} =>
  \A f, g \in DOMAIN files : f # g /\ files[f] \in Names => files[f] # files[g]

Round == AtMove /\ LegacyHere /\ FilesHere /\ LegacyOnce /\ FilesOnce

OneRound == moves \in Nat /\ (oneGo /\ atomic /\ moves <= 6 => Round)

\* Each step of migrate is the next of the round, and hands the files on.
LEMMA RoundMigrate ==
  ASSUME Inv, oneGo, atomic, Exact, moves \in Nat, moves' <= 6, moves <= 6, Round, Migrate
  PROVE  Round'
<1>t. /\ legacy \in Seq(Attachment) /\ DOMAIN legacy = 1 .. Len(legacy) /\ Len(legacy) \in Nat
      /\ files \in Seq(Names \cup {NULL, GONE})
      /\ links \in Seq([note: Notes, file: DOMAIN files]) /\ DOMAIN links = 1 .. Len(links)
      /\ Len(links) \in Nat
  BY DEF Inv, TypeOK
<1>a. AtMove
  BY DEF Round
<1>1. CASE CreateTables
  <2>1. /\ version = 3 /\ version' = 4 /\ moves' = moves + 1 /\ way' = "up"
        /\ legacy' = legacy /\ files' = files /\ kept' = kept
    BY <1>1 DEF CreateTables, Move, tables
  <2>2. moves = 0 /\ moves' = 1
    BY <1>a, <2>1 DEF AtMove
  <2>3. AtMove' /\ LegacyHere' /\ LegacyOnce'
    BY <2>1, <2>2 DEF Round, AtMove, LegacyHere, LegacyOnce
  <2>4. FilesHere' /\ FilesOnce'
    BY <2>1, <2>2 DEF FilesHere, FilesOnce
  <2> QED BY <2>3, <2>4 DEF Round
<1>2. CASE DropNewTables
  <2>1. /\ version = 4 /\ version' = 3 /\ moves' = moves + 1 /\ way = "down"
        /\ legacy' = legacy /\ kept' = kept
    BY <1>2 DEF DropNewTables, Move
  <2>2. moves = 5 /\ moves' = 6
    BY <1>a, <2>1 DEF AtMove
  <2>3. AtMove' /\ LegacyHere' /\ LegacyOnce'
    BY <2>1, <2>2 DEF Round, AtMove, LegacyHere, LegacyOnce
  <2>4. FilesHere' /\ FilesOnce'
    BY <2>1, <2>2 DEF FilesHere, FilesOnce
  <2> QED BY <2>3, <2>4 DEF Round
<1>3. CASE Forwards
  <2> DEFINE fs == [k \in DOMAIN legacy |-> legacy[k].name]
  <2>1. /\ version = 4 /\ version' = 5 /\ moves' = moves + 1 /\ way = "up" /\ way' = "up"
        /\ files' = files \o fs /\ kept' = kept
    BY <1>3 DEF Forwards, Recorded, Move
  <2>2. moves = 1 /\ moves' = 2
    BY <1>a, <2>1 DEF AtMove
  <2>3. files = <<>>
    BY <2>1 DEF Exact, NewEmpty
  <2>4. fs \in [1 .. Len(legacy) -> {fs[k] : k \in DOMAIN legacy}]
    BY <1>t
  <2>5. \A k \in DOMAIN legacy : fs[k] = legacy[k].name
    OBVIOUS
  <2> HIDE DEF fs
  <2>6. fs \in Seq({fs[k] : k \in DOMAIN legacy}) /\ DOMAIN fs = DOMAIN legacy
    BY <1>t, <2>4, RowsMade
  <2>7. files' = fs
    <3>1. <<>> \o fs = fs
      BY <2>6, ConcatEmptySeq
    <3> QED BY <2>1, <2>3, <3>1
  <2>8. \A k \in DOMAIN legacy : legacy[k].name \in Names => legacy[k].name \in kept
    BY <2>1 DEF Round, LegacyHere
  <2>9. \A i, j \in DOMAIN legacy :
          i # j /\ legacy[i].name \in Names => legacy[i].name # legacy[j].name
    BY <2>2 DEF Round, LegacyOnce
  <2>10. FilesHere' /\ FilesOnce'
    BY <2>1, <2>5, <2>6, <2>7, <2>8, <2>9 DEF FilesHere, FilesOnce
  <2>11. AtMove' /\ LegacyHere' /\ LegacyOnce'
    BY <2>1, <2>2 DEF AtMove, LegacyHere, LegacyOnce
  <2> QED BY <2>10, <2>11 DEF Round
<1>4. CASE Backwards
  <2> DEFINE rs == [l \in DOMAIN links |-> [note |-> links[l].note, name |-> files[links[l].file]]]
  <2>1. /\ version = 5 /\ version' = 4 /\ moves' = moves + 1 /\ way = "down" /\ way' = "down"
        /\ legacy' = legacy \o rs /\ kept' = kept
    BY <1>4 DEF Backwards, Recorded, Move
  <2>2. moves = 4 /\ moves' = 5
    BY <1>a, <2>1 DEF AtMove
  <2>3. legacy = <<>>
    BY <2>1 DEF Exact, LegacyEmpty
  <2>4. rs \in [1 .. Len(links) -> {rs[l] : l \in DOMAIN links}]
    BY <1>t
  <2>5. \A l \in DOMAIN links : rs[l].name = files[links[l].file]
    OBVIOUS
  <2> HIDE DEF rs
  <2>6. rs \in Seq({rs[l] : l \in DOMAIN links}) /\ DOMAIN rs = DOMAIN links
    BY <1>t, <2>4, RowsMade
  <2>7. legacy' = rs
    <3>1. <<>> \o rs = rs
      BY <2>6, ConcatEmptySeq
    <3> QED BY <2>1, <2>3, <3>1
  <2>8. \A l \in DOMAIN links : links[l].file \in DOMAIN files
    <3>1. \A l \in DOMAIN links : links[l] \in [note: Notes, file: DOMAIN files]
      BY <1>t, Rows
    <3> QED BY <3>1
  <2>9. \A f \in DOMAIN files : files[f] \in Names => files[f] \in kept
    BY <2>1 DEF Round, FilesHere
  <2>10. LegacyHere'
    BY <2>1, <2>5, <2>6, <2>7, <2>8, <2>9 DEF LegacyHere
  <2>11. AtMove' /\ FilesHere' /\ LegacyOnce' /\ FilesOnce'
    BY <2>1, <2>2 DEF AtMove, FilesHere, LegacyOnce, FilesOnce
  <2> QED BY <2>10, <2>11 DEF Round
<1>5. CASE Record
  BY <1>5 DEF Record, Exact
<1>6. CASE DropLegacy
  <2>1. /\ version = 5 /\ version' = 6 /\ moves' = moves + 1 /\ way = "up"
        /\ files' = files /\ kept' = kept
    BY <1>6 DEF DropLegacy, Move
  <2>2. moves = 2 /\ moves' = 3
    BY <1>a, <2>1 DEF AtMove
  <2>3. FilesHere' /\ FilesOnce'
    BY <2>1, <2>2 DEF Round, FilesHere, FilesOnce
  <2>4. AtMove' /\ LegacyHere' /\ LegacyOnce'
    BY <2>1, <2>2 DEF AtMove, LegacyHere, LegacyOnce
  <2> QED BY <2>3, <2>4 DEF Round
<1>7. CASE CreateLegacy
  <2>1. /\ version = 6 /\ version' = 5 /\ moves' = moves + 1 /\ way' = "down"
        /\ files' = files /\ kept' = kept
    BY <1>7 DEF CreateLegacy, Move, tables
  <2>2. moves = 3 /\ moves' = 4
    BY <1>a, <2>1 DEF AtMove
  <2>3. FilesHere' /\ FilesOnce'
    BY <2>1, <2>2 DEF Round, FilesHere, FilesOnce
  <2>4. AtMove' /\ LegacyHere' /\ LegacyOnce'
    BY <2>1, <2>2 DEF AtMove, LegacyHere, LegacyOnce
  <2> QED BY <2>3, <2>4 DEF Round
<1> QED BY Migrate, <1>1, <1>2, <1>3, <1>4, <1>5, <1>6, <1>7 DEF Migrate

\* What the application stores gets a name of its own, and what it reclaims is of
\* one record only.
LEMMA RoundServing ==
  ASSUME Inv, oneGo, atomic, Exact, moves \in Nat, moves <= 6, Round,
         \/ \E n \in Notes, m \in Names \cup {NULL} : OldAttach(n, m) \/ NewAttach(n, m)
         \/ \E k \in DOMAIN legacy : OldDetach(k)
         \/ \E n \in Notes, f \in DOMAIN files : Reference(n, f)
         \/ \E l \in DOMAIN links : NewDetach(l)
         \/ \E f \in DOMAIN files : Reclaim(f)
  PROVE  Round'
<1>t. /\ legacy \in Seq(Attachment) /\ Len(legacy) \in Nat /\ DOMAIN legacy = 1 .. Len(legacy)
      /\ files \in Seq(Names \cup {NULL, GONE}) /\ Len(files) \in Nat
      /\ DOMAIN files = 1 .. Len(files) /\ version \in 3 .. 6
  BY DEF Inv, TypeOK
<1>k. kept \subseteq uploaded /\ uploaded \subseteq Names
  BY Zenon DEF Inv, TypeOK
<1>a. AtMove /\ LegacyHere /\ FilesHere /\ LegacyOnce /\ FilesOnce
  BY Zenon DEF Round
<1>1. ASSUME NEW n \in Notes, NEW m \in Names \cup {NULL}, OldAttach(n, m) PROVE Round'
  <2> DEFINE a == [note |-> n, name |-> m]
  <2>1. /\ version = 3 /\ version' = 3 /\ moves' = moves /\ way' = way
        /\ legacy' = Append(legacy, a)
        /\ m \notin uploaded /\ kept' = kept \cup ({m} \ {NULL})
    BY <1>t, <1>1 DEF OldAttach, OldApp, Serving, Upload
  <2>2. a \in Attachment /\ a.name = m
    BY DEF Attachment
  <2> HIDE DEF a
  <2>3. /\ \A k \in DOMAIN legacy : legacy'[k] = legacy[k]
        /\ legacy'[Len(legacy) + 1] = a
        /\ \A k \in DOMAIN legacy' : k \in DOMAIN legacy \/ k = Len(legacy) + 1
    BY <1>t, <2>1, <2>2
  <2>4. \A k \in DOMAIN legacy : legacy[k].name \in Names => legacy[k].name \in kept
    BY <1>a, <2>1 DEF LegacyHere
  <2>5. LegacyHere'
    BY <2>1, <2>2, <2>3, <2>4, NullAssumption DEF LegacyHere
  <2>6. LegacyOnce'
    <3> SUFFICES ASSUME moves <= 1, NEW i \in DOMAIN legacy', NEW j \in DOMAIN legacy', i # j,
                        legacy'[i].name \in Names
                 PROVE  legacy'[i].name # legacy'[j].name
      BY <2>1 DEF LegacyOnce
    <3>1. \A k \in DOMAIN legacy : legacy[k].name \in Names => legacy[k].name # m
      BY <1>k, <2>1, <2>4
    <3>2. CASE i \in DOMAIN legacy /\ j \in DOMAIN legacy
      <4>1. legacy'[i] = legacy[i] /\ legacy'[j] = legacy[j]
        BY <2>3, <3>2
      <4> QED BY <1>a, <3>2, <4>1 DEF LegacyOnce
    <3>3. CASE i \in DOMAIN legacy /\ j = Len(legacy) + 1
      BY <2>2, <2>3, <3>1, <3>3
    <3>4. CASE i = Len(legacy) + 1 /\ j \in DOMAIN legacy
      BY <2>2, <2>3, <3>1, <3>4
    <3> QED BY <2>3, <3>2, <3>3, <3>4
  <2>7. AtMove' /\ FilesHere' /\ FilesOnce'
    BY <1>a, <2>1 DEF AtMove, FilesHere, FilesOnce
  <2> QED BY <2>5, <2>6, <2>7 DEF Round
<1>2. ASSUME NEW n \in Notes, NEW m \in Names \cup {NULL}, NewAttach(n, m) PROVE Round'
  <2>1. /\ version = 6 /\ version' = 6 /\ moves' = moves /\ way' = way
        /\ files' = Append(files, m)
        /\ m \notin uploaded /\ kept' = kept \cup ({m} \ {NULL})
    BY <1>t, <1>2 DEF NewAttach, NewApp, Serving, Upload
  <2>2. moves = 3
    BY <1>a, <2>1 DEF AtMove
  <2>3. /\ \A f \in DOMAIN files : files'[f] = files[f]
        /\ files'[Len(files) + 1] = m
        /\ \A f \in DOMAIN files' : f \in DOMAIN files \/ f = Len(files) + 1
    <3>1. m \in Names \cup {NULL, GONE}
      OBVIOUS
    <3> QED BY <1>t, <2>1, <3>1, AppendProperties, Rows
  <2>4. \A f \in DOMAIN files : files[f] \in Names => files[f] \in kept
    BY <1>a, <2>1 DEF FilesHere
  <2>5. FilesHere'
    BY <2>1, <2>3, <2>4, NullAssumption DEF FilesHere
  <2>6. FilesOnce'
    <3> SUFFICES ASSUME NEW i \in DOMAIN files', NEW j \in DOMAIN files', i # j,
                        files'[i] \in Names
                 PROVE  files'[i] # files'[j]
      BY DEF FilesOnce
    <3>1. \A f \in DOMAIN files : files[f] \in Names => files[f] # m
      BY <1>k, <2>1, <2>4
    <3>2. CASE i \in DOMAIN files /\ j \in DOMAIN files
      <4>1. files'[i] = files[i] /\ files'[j] = files[j]
        BY <2>3, <3>2
      <4> QED BY <1>a, <2>2, <3>2, <4>1 DEF FilesOnce
    <3>3. CASE i \in DOMAIN files /\ j = Len(files) + 1
      BY <2>3, <3>1, <3>3
    <3>4. CASE i = Len(files) + 1 /\ j \in DOMAIN files
      BY <2>3, <3>1, <3>4
    <3> QED BY <2>3, <3>2, <3>3, <3>4
  <2>7. AtMove' /\ LegacyHere' /\ LegacyOnce'
    BY <1>a, <2>1, <2>2 DEF AtMove, LegacyHere, LegacyOnce
  <2> QED BY <2>5, <2>6, <2>7 DEF Round
<1>3. ASSUME NEW k \in DOMAIN legacy, OldDetach(k) PROVE Round'
  <2>1. /\ version = 3 /\ version' = 3 /\ moves' = moves /\ way' = way
        /\ legacy' = RemoveAt(legacy, k) /\ kept' = kept
    BY <1>t, <1>3 DEF OldDetach, OldApp, Serving
  <2>2. \A j \in DOMAIN legacy' : \E i \in DOMAIN legacy : legacy[i] = legacy'[j]
    BY <1>t, <2>1, Removed
  <2>3. \A i \in DOMAIN legacy : legacy[i].name \in Names => legacy[i].name \in kept
    BY <1>a, <2>1 DEF LegacyHere
  <2>4. LegacyHere'
    BY <2>1, <2>2, <2>3 DEF LegacyHere
  <2>5. LegacyOnce'
    <3> SUFFICES ASSUME moves <= 1, NEW i \in DOMAIN legacy', NEW j \in DOMAIN legacy', i # j,
                        legacy'[i].name \in Names
                 PROVE  legacy'[i].name # legacy'[j].name
      BY <2>1 DEF LegacyOnce
    <3> DEFINE r == RemoveAt(legacy, k)
    <3>1. i \in DOMAIN r /\ j \in DOMAIN r /\ legacy'[i] = r[i] /\ legacy'[j] = r[j]
      BY <2>1
    <3>2. \E p \in DOMAIN legacy : \E q \in DOMAIN legacy :
            p # q /\ legacy[p] = r[i] /\ legacy[q] = r[j]
      BY <1>t, <3>1, Apart
    <3>3. PICK p \in DOMAIN legacy : \E q \in DOMAIN legacy :
            p # q /\ legacy[p] = legacy'[i] /\ legacy[q] = legacy'[j]
      BY <3>1, <3>2, Zenon
    <3>4. PICK q \in DOMAIN legacy :
            p # q /\ legacy[p] = legacy'[i] /\ legacy[q] = legacy'[j]
      BY <3>3
    <3> QED BY <1>a, <3>4 DEF LegacyOnce
  <2>6. AtMove' /\ FilesHere' /\ FilesOnce'
    BY <1>a, <2>1 DEF AtMove, FilesHere, FilesOnce
  <2> QED BY <2>4, <2>5, <2>6 DEF Round
<1>4. ASSUME \/ \E n \in Notes, f \in DOMAIN files : Reference(n, f)
             \/ \E l \in DOMAIN links : NewDetach(l)
      PROVE  Round'
  <2>1. /\ version' = version /\ moves' = moves /\ way' = way
        /\ legacy' = legacy /\ files' = files /\ kept' = kept
    BY <1>4 DEF Reference, NewDetach
  <2> QED BY <1>a, <2>1 DEF Round, AtMove, LegacyHere, FilesHere, LegacyOnce, FilesOnce
<1>5. ASSUME NEW f \in DOMAIN files, Reclaim(f) PROVE Round'
  <2>1. /\ version = 6 /\ version' = 6 /\ moves' = moves /\ way' = way
        /\ files' = [files EXCEPT ![f] = GONE] /\ kept' = kept \ {files[f]}
    BY <1>t, <1>5 DEF Reclaim, NewApp, Serving
  <2>2. moves = 3
    BY <1>a, <2>1 DEF AtMove
  <2>3. /\ DOMAIN files' = DOMAIN files /\ files'[f] = GONE
        /\ \A g \in DOMAIN files : g # f => files'[g] = files[g]
    BY <2>1
  <2>4. /\ \A g \in DOMAIN files : files[g] \in Names => files[g] \in kept
        /\ \A g, h \in DOMAIN files : g # h /\ files[g] \in Names => files[g] # files[h]
    BY <1>a, <2>1, <2>2 DEF FilesHere, FilesOnce
  <2>5. FilesHere'
    BY <2>1, <2>3, <2>4, NullAssumption DEF FilesHere
  <2>6. FilesOnce'
    BY <2>3, <2>4, NullAssumption DEF FilesOnce
  <2>7. AtMove' /\ LegacyHere' /\ LegacyOnce'
    BY <1>a, <2>1, <2>2 DEF AtMove, LegacyHere, LegacyOnce
  <2> QED BY <2>5, <2>6, <2>7 DEF Round
<1> QED BY <1>1, <1>2, <1>3, <1>4, <1>5

\* The first step of migrate is still to come.
LEMMA InitOneRound == Init => OneRound
BY DEF Init, OneRound, Round, AtMove, LegacyHere, FilesHere, LegacyOnce, FilesOnce

\* Steps of migrate are counted.
LEMMA MovesStep == moves \in Nat /\ [Next]_vars => moves' = moves \/ moves' = moves + 1
<1> SUFFICES ASSUME moves \in Nat, [Next]_vars PROVE moves' = moves \/ moves' = moves + 1
  OBVIOUS
<1>1. CASE Migrate
  BY <1>1 DEF Migrate, Move, CreateTables, DropNewTables, Forwards, Backwards, Record,
              DropLegacy, CreateLegacy
<1>2. CASE UNCHANGED vars
  BY <1>2 DEF vars
<1>3. ASSUME NEW n \in Notes, NEW m \in Names \cup {NULL}, OldAttach(n, m) \/ NewAttach(n, m)
      PROVE  moves' = moves
  BY <1>3 DEF OldAttach, NewAttach
<1>4. ASSUME NEW k \in DOMAIN legacy, OldDetach(k) PROVE moves' = moves
  BY <1>4 DEF OldDetach
<1>5. ASSUME NEW n \in Notes, NEW f \in DOMAIN files, Reference(n, f) PROVE moves' = moves
  BY <1>5 DEF Reference
<1>6. ASSUME NEW l \in DOMAIN links, NewDetach(l) PROVE moves' = moves
  BY <1>6 DEF NewDetach
<1>7. ASSUME NEW f \in DOMAIN files, Reclaim(f) PROVE moves' = moves
  BY <1>7 DEF Reclaim
<1> QED BY <1>1, <1>2, <1>3, <1>4, <1>5, <1>6, <1>7 DEF Next

\* With Inv and EndToEnd, OneRound is inductive.
LEMMA OneRoundStep == Inv /\ EndToEnd /\ OneRound /\ [Next]_vars => OneRound'
<1> SUFFICES ASSUME Inv, EndToEnd, OneRound, [Next]_vars PROVE OneRound'
  OBVIOUS
<1>1. moves \in Nat /\ (moves' = moves \/ moves' = moves + 1)
  BY MovesStep DEF OneRound
<1>2. moves' \in Nat /\ (moves' <= 6 => moves <= 6)
  BY <1>1
<1>3. ASSUME oneGo', atomic', moves' <= 6 PROVE Round'
  <2>1. oneGo /\ atomic
    BY SiteStep, <1>3, Zenon
  <2>2. Exact /\ Round /\ moves <= 6
    BY <1>2, <1>3, <2>1, Zenon DEF EndToEnd, OneRound
  <2>3. CASE Next
    BY <1>1, <1>3, <2>1, <2>2, <2>3, RoundMigrate, RoundServing DEF Next
  <2>4. CASE UNCHANGED vars
    <3>1. /\ version' = version /\ moves' = moves /\ way' = way
          /\ legacy' = legacy /\ files' = files /\ kept' = kept
      BY <2>4 DEF vars, tables
    <3> QED BY <2>2, <3>1 DEF Round, AtMove, LegacyHere, FilesHere, LegacyOnce, FilesOnce
  <2> QED BY <2>3, <2>4
<1> QED BY <1>2, <1>3, Zenon DEF OneRound

\* Upgrading end to end, and rolling back so, leaves the storage with the file of
\* every attachment, whatever is reclaimed in between.
THEOREM FilesKeptTheorem == Spec => []FilesKept
<1>1. Inv /\ OneRound => FilesKept
  <2> SUFFICES ASSUME Inv, OneRound, oneGo, atomic, moves <= 6, NEW a \in Shown, a[2] # NULL
               PROVE  a[2] \in kept
    BY Zenon DEF FilesKept
  <2>1. LegacyHere /\ FilesHere
    BY Zenon DEF OneRound, Round
  <2>2. /\ version \in 3 .. 6 /\ legacy \in Seq(Attachment)
        /\ files \in Seq(Names \cup {NULL, GONE})
        /\ links \in Seq([note: Notes, file: DOMAIN files])
    BY DEF Inv, TypeOK
  <2>3. CASE version >= 5
    <3>1. PICK l \in DOMAIN links : a = <<links[l].note, files[links[l].file]>>
      BY <2>3 DEF Shown, AsJoined
    <3>2. links[l] \in [note: Notes, file: DOMAIN files]
      BY <2>2, Rows
    <3>3. links[l].file \in DOMAIN files
      BY <3>2
    <3>4. files[links[l].file] \in Names \cup {NULL, GONE}
      BY <2>2, <3>3, Rows
    <3>5. files[links[l].file] # GONE
      BY Zenon DEF Inv, LinksAlive
    <3> QED BY <2>1, <2>3, <3>1, <3>3, <3>4, <3>5 DEF FilesHere
  <2>4. CASE ~(version >= 5)
    <3>1. PICK k \in DOMAIN legacy : a = <<legacy[k].note, legacy[k].name>>
      BY <2>4 DEF Shown, AsLegacy
    <3>2. legacy[k] \in Attachment
      BY <2>2, Rows
    <3>3. legacy[k].name \in Names \cup {NULL} /\ version <= 4
      BY <2>2, <2>4, <3>2 DEF Attachment
    <3> QED BY <2>1, <3>1, <3>3 DEF LegacyHere
  <2> QED BY <2>3, <2>4
<1>2. Spec => []EndToEnd
  BY InitEndToEnd, Invariance, EndToEndStep, PTL DEF Spec
<1>3. Spec => []OneRound
  BY <1>2, InitOneRound, Invariance, OneRoundStep, PTL DEF Spec
<1> QED BY <1>1, <1>3, Invariance, PTL
==============================================================================
