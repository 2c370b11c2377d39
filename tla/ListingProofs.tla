---------------------------- MODULE ListingProofs ----------------------------
(***************************************************************************)
(* Proofs about Listing, for any rows, page sizes, clocks and changes.      *)
(***************************************************************************)
EXTENDS Listing, Rankings

\* The client has asked for nothing yet when it is idle, and walks listings of its
\* plan until it is done.
Shape ==
  /\ pc = "idle" =>
       /\ got = <<>> /\ page = 1 /\ leg = 1
       /\ touched = {} /\ departures = 0 /\ arrivals = 0
  /\ pc \in {"ask", "fetch"} => leg \in 1 .. Len(plan)
  /\ pc = "fetch" => at \in 1 .. now
  /\ departures \in Nat /\ arrivals \in Nat

Typed == TypeOK /\ got \in Seq(Nat) /\ Shape

\* The rows that come before the page the client is at.
Passed == (page - 1) * size

\* A step of somebody else, while the client walks or before.
Aside ==
  /\ pc # "done" /\ UNCHANGED walk /\ Noted
  /\ now' \in now .. MaxTime

-----------------------------------------------------------------------------
(* Operators *)

\* The smaller one of two numbers.
LEMMA MinOfTwo ==
  ASSUME NEW a \in Int, NEW b \in Int
  PROVE  Min({a, b}) = IF a <= b THEN a ELSE b
<1> DEFINE m == IF a <= b THEN a ELSE b
<1>1. m \in {a, b} /\ \A y \in {a, b} : m =< y
  OBVIOUS
<1>2. \A x \in {a, b} : (\A y \in {a, b} : x =< y) => x = m
  OBVIOUS
<1>3. QED
  BY <1>1, <1>2 DEF Min

\* Pages are counted from one.
LEMMA PageBounds ==
  ASSUME NEW p \in Nat \ {0}, NEW z \in Nat \ {0}
  PROVE  /\ (p - 1) * z \in Nat /\ p * z \in Nat
         /\ (p - 1) * z + z = p * z /\ p <= p * z
<1>1. (p - 1) * z + z = p * z
  OBVIOUS
<1>2. (p - 1) * z >= 0 /\ (p - 1) * z >= p - 1
  OBVIOUS
<1>3. (p - 1) * z \in Int /\ p * z \in Int
  OBVIOUS
<1>4. QED
  BY <1>1, <1>2, <1>3

\* What a listing has is some of the rows, and so is what a plan has.
LEMMA MembersAreRows ==
  ASSUME NEW l, NEW rs, NEW t
  PROVE  Members(l, rs, t) \subseteq DOMAIN rs /\ Listed(rs, t) \subseteq DOMAIN rs
BY DEF Members, Listed

\* Sets of rows are finite.
LEMMA RowsCount ==
  ASSUME NEW rs, rs \in Seq(Row), NEW S, S \subseteq DOMAIN rs
  PROVE  IsFiniteSet(S) /\ Cardinality(S) \in Nat /\ Cardinality(S) <= Len(rs)
<1>1. DOMAIN rs = 1 .. Len(rs) /\ Len(rs) \in Nat
  OBVIOUS
<1>2. IsFiniteSet(1 .. Len(rs)) /\ Cardinality(1 .. Len(rs)) = Len(rs)
  <2>1. Cardinality(1 .. Len(rs)) = IF 1 > Len(rs) THEN 0 ELSE Len(rs) - 1 + 1
    BY <1>1, FS_Interval
  <2>2. QED
    BY <1>1, <2>1, FS_Interval
<1>3. QED
  BY <1>1, <1>2, FS_Subset, FS_CardinalityType

-----------------------------------------------------------------------------
(* Types *)

\* The table is empty and the client idle at first.
LEMMA TypedInit == Init => Typed
<1> SUFFICES ASSUME Init PROVE Typed
  OBVIOUS
<1>1. plan \in Plans /\ Len(plan) \in Nat
  BY PlansAssumption DEF Init
<1>2. ToSet(got) = {} /\ got \in Seq(Nat) /\ rows \in Seq(Row) /\ Len(rows) = 0
  BY DEF Init, ToSet
<1>3. now = 1 /\ 1 \in 1 .. MaxTime /\ 0 \in 0 .. MaxRows /\ 1 \in 1 .. MaxRows + 1
      /\ 0 \in 0 .. MaxTime /\ 1 \in 1 .. Len(plan) + 1 /\ 0 <= MaxRows
  BY <1>1, BoundsAssumption DEF Init
<1>4. QED
  BY <1>1, <1>2, <1>3 DEF Init, Typed, TypeOK, Shape

\* A row keeps its time of creation, one in the application's inbox stays there, and
\* none is deleted.
LEMMA RowsStep ==
  ASSUME Typed, Next
  PROVE  /\ rows' \in Seq(Row) /\ Len(rows') <= MaxRows
         /\ DOMAIN rows \subseteq DOMAIN rows'
         /\ \A i \in DOMAIN rows :
              /\ rows'[i].created = rows[i].created
              /\ rows[i].status \in {"SENT", "READ"} =>
                   rows'[i].status \in {"SENT", "READ"} /\ rows'[i].send_after = rows[i].send_after
<1>0. /\ rows \in Seq(Row) /\ Len(rows) <= MaxRows /\ Len(rows) \in Nat /\ MaxRows \in Nat
      /\ now \in 1 .. MaxTime /\ MaxTime \in Nat
  BY BoundsAssumption DEF Typed, TypeOK
<1>1. CASE Persist
  <2>1. PICK c \in 1 .. now, s \in SendAfters :
          rows' = Append(rows, [created |-> c, send_after |-> s, status |-> "PENDING_SEND"])
    BY <1>1 DEF Persist, Change
  <2> DEFINE r == [created |-> c, send_after |-> s, status |-> "PENDING_SEND"]
  <2>2. r \in Row
    BY <1>0 DEF Row
  <2>3. rows' = Append(rows, r) /\ Len(rows) < MaxRows
    BY <1>1, <2>1 DEF Persist
  <2> HIDE DEF r
  <2>4. QED
    BY <1>0, <2>2, <2>3
<1>2. CASE Settle
  <2>1. PICK i \in DOMAIN rows, o \in {"SENT", "FAILED", "CANCELLED"} :
          rows[i].status = "PENDING_SEND" /\ rows' = [rows EXCEPT ![i].status = o]
    BY <1>2 DEF Settle, Change
  <2>2. [rows[i] EXCEPT !.status = o] \in Row
    <3>1. rows[i] \in Row
      BY <1>0, <2>1, ElementOfSeq
    <3>2. QED
      BY <2>1, <3>1 DEF Row
  <2>3. QED
    BY <1>0, <2>1, <2>2 DEF Row
<1>3. CASE Read
  <2>1. PICK i \in DOMAIN rows : rows[i].status = "SENT" /\ rows' = [rows EXCEPT ![i].status = "READ"]
    BY <1>3 DEF Read, Change
  <2>2. [rows[i] EXCEPT !.status = "READ"] \in Row
    <3>1. rows[i] \in Row
      BY <1>0, <2>1, ElementOfSeq
    <3>2. QED
      BY <2>1, <3>1 DEF Row
  <2>3. QED
    BY <1>0, <2>1, <2>2 DEF Row
<1>4. CASE Reschedule
  <2>1. PICK i \in DOMAIN rows, s \in SendAfters :
          rows[i].status = "PENDING_SEND" /\ rows' = [rows EXCEPT ![i].send_after = s]
    BY <1>4 DEF Reschedule, Change
  <2>2. [rows[i] EXCEPT !.send_after = s] \in Row
    <3>1. rows[i] \in Row
      BY <1>0, <2>1, ElementOfSeq
    <3>2. QED
      BY <2>1, <3>1 DEF Row
  <2>3. QED
    BY <1>0, <2>1, <2>2 DEF Row
<1>5. CASE Begin \/ Ask \/ Fetch \/ Tick
  BY <1>0, <1>5 DEF Begin, Ask, Fetch, Tick, table
<1>6. QED
  BY <1>1, <1>2, <1>3, <1>4, <1>5 DEF Next

\* Who is not the client leaves its walk alone.
LEMMA Steps ==
  ASSUME Typed, Next
  PROVE  Begin \/ Ask \/ Fetch \/ Aside
<1>1. now \in now .. MaxTime /\ (now < MaxTime => now + 1 \in now .. MaxTime)
  BY BoundsAssumption DEF Typed, TypeOK
<1>2. ASSUME Persist \/ Settle \/ Read \/ Reschedule
      PROVE  Aside
  BY <1>1, <1>2 DEF Persist, Settle, Read, Reschedule, Change, Aside
<1>3. ASSUME Tick
      PROVE  Aside
  BY <1>1, <1>3 DEF Tick, Aside
<1>4. QED
  BY <1>2, <1>3 DEF Next

\* A page is some rows of the listing, and after a full one there are as many rows as
\* the pages so far have places.
LEMMA PageOf ==
  ASSUME Typed, Fetch, NEW s \in Results(plan[leg], rows, at)
  PROVE  /\ s \in [1 .. Len(s) -> Members(plan[leg], rows, at)] /\ Len(s) \in 0 .. MaxRows
         /\ Page(s, page) \in Seq(DOMAIN rows)
         /\ Len(Page(s, page)) >= size => page * size <= Len(s)
         /\ Page(s, page) = SubSeq(s, Passed + 1, IF Passed + size <= Len(s) THEN Passed + size ELSE Len(s))
<1> DEFINE M == Members(plan[leg], rows, at)
           k == Passed
           last == IF k + size <= Len(s) THEN k + size ELSE Len(s)
           p == SubSeq(s, k + 1, last)
<1>1. /\ page \in Nat \ {0} /\ size \in Nat \ {0} /\ rows \in Seq(Row) /\ Len(rows) <= MaxRows
      /\ MaxRows \in Nat /\ Len(rows) \in Nat
  BY BoundsAssumption DEF Typed, TypeOK
<1>2. k \in Nat /\ page * size \in Nat /\ k + size = page * size
  BY <1>1, PageBounds DEF Passed
<1>3. Cardinality(M) \in Nat /\ Cardinality(M) <= Len(rows) /\ M \subseteq DOMAIN rows
  BY <1>1, MembersAreRows, RowsCount
<1>4. s \in [1 .. Cardinality(M) -> M]
  BY DEF Results, SetToSeqs
<1>5. Len(s) = Cardinality(M) /\ s \in Seq(DOMAIN rows)
  BY <1>3, <1>4, IsASeq, LenProperties
<1>6. Min({page * size, Len(s)}) = IF page * size <= Len(s) THEN page * size ELSE Len(s)
  BY <1>2, <1>3, <1>5, MinOfTwo
<1>7. Page(s, page) = p
  BY <1>2, <1>6 DEF Page, Passed
<1> HIDE DEF k, M
<1>8. last \in Nat /\ last <= Len(s) /\ last <= k + size
  BY <1>1, <1>2, <1>3, <1>5
<1>9. p \in Seq(DOMAIN rows) /\ Len(p) = IF k + 1 <= last THEN last - k ELSE 0
  <2> HIDE DEF last
  <2>1. CASE k < last
    BY <1>2, <1>5, <1>8, <2>1, SubSeqProperties
  <2>2. CASE k >= last
    BY <1>2, <1>5, <1>8, <2>2, SubSeqProperties
  <2>3. QED
    BY <1>2, <1>8, <2>1, <2>2
<1>10. Len(p) >= size => k + size <= Len(s)
  <2> HIDE DEF p
  <2> QED
    BY <1>1, <1>2, <1>3, <1>5, <1>8, <1>9
<1>11. QED
  BY <1>1, <1>2, <1>3, <1>4, <1>5, <1>7, <1>9, <1>10 DEF M, k

\* The client comes to the next page while there are rows left, and then to the next
\* listing.
LEMMA TypedStep ==
  ASSUME Typed, [Next]_vars
  PROVE  Typed'
<1>0. /\ MaxRows \in Nat \ {0} /\ MaxTime \in Nat \ {0} /\ size \in Nat \ {0}
      /\ plan \in Seq(Listings) \ {<<>>} /\ Len(plan) \in Nat \ {0}
      /\ DOMAIN rows = 1 .. Len(rows) /\ Len(rows) \in Nat
  BY PlansAssumption, BoundsAssumption DEF Typed, TypeOK
<1>1. CASE Next
  <2>0. /\ rows' \in Seq(Row) /\ Len(rows') <= MaxRows /\ DOMAIN rows \subseteq DOMAIN rows'
    BY <1>1, RowsStep
  <2>1. CASE Begin
    <3>1. Cardinality(Members(Head(plan), rows, now)) \in 0 .. MaxRows
      <4>1. Cardinality(Members(Head(plan), rows, now)) \in Nat
            /\ Cardinality(Members(Head(plan), rows, now)) <= Len(rows)
        BY MembersAreRows, RowsCount DEF Typed, TypeOK
      <4>2. QED
        BY <1>0, <4>1 DEF Typed, TypeOK
    <3>2. Listed(rows, now) \subseteq DOMAIN rows
      BY MembersAreRows
    <3>3. 1 \in 1 .. Len(plan)
      BY <1>0
    <3>4. QED
      BY <2>0, <2>1, <3>1, <3>2, <3>3 DEF Begin, Typed, TypeOK, Shape, table, call
  <2>2. CASE Ask
    <3>1. now \in 0 .. MaxTime /\ now \in 1 .. now
      BY <1>0 DEF Typed, TypeOK
    <3>2. QED
      BY <2>0, <2>2, <3>1 DEF Ask, Typed, TypeOK, Shape, table, call, since
  <2>3. CASE Fetch
    <3>1. PICK s \in Results(plan[leg], rows, at) :
            /\ got' = got \o Page(s, page)
            /\ page' = IF LastPage(Page(s, page)) THEN 1 ELSE page + 1
            /\ leg' = IF LastPage(Page(s, page)) THEN leg + 1 ELSE leg
      BY <2>3 DEF Fetch
    <3> DEFINE p == Page(s, page)
    <3>2. /\ p \in Seq(DOMAIN rows) /\ Len(s) \in 0 .. MaxRows
          /\ Len(p) >= size => page * size <= Len(s)
      BY <2>3, PageOf
    <3> HIDE DEF p
    <3>3. got \in Seq(Nat) /\ p \in Seq(Nat) /\ ToSet(got) \subseteq DOMAIN rows
      BY <1>0, <3>2 DEF Typed, TypeOK
    <3>4. got' \in Seq(Nat) /\ ToSet(got') = ToSet(got) \cup ToSet(p)
      <4>1. got' = got \o p
        BY <3>1 DEF p
      <4>2. got' \in Seq(Nat)
        BY <3>3, <4>1, ConcatProperties
      <4>3. Range(got \o p) = Range(got) \cup Range(p)
        BY <3>3, RangeConcatenation
      <4>4. QED
        BY <4>1, <4>2, <4>3 DEF ToSet, Range
    <3>5. ToSet(p) \subseteq DOMAIN rows
      BY <3>2 DEF ToSet
    <3>6. page' \in 1 .. MaxRows + 1
      <4>1. page \in Nat \ {0} /\ total \in 0 .. MaxRows /\ stop \in {"short", "count"}
        BY StopsAssumption DEF Typed, TypeOK
      <4>2. page <= page * size /\ page * size \in Nat
        BY <1>0, <4>1, PageBounds
      <4>3. CASE LastPage(p)
        BY <1>0, <3>1, <4>3 DEF p
      <4>4. CASE ~LastPage(p)
        <5>1. page <= MaxRows
          <6>1. CASE stop = "short"
            <7>1. Len(p) >= size
              BY <1>0, <3>2, <4>4, <6>1 DEF LastPage
            <7>2. page * size <= Len(s) /\ Len(s) <= MaxRows
              BY <3>2, <7>1
            <7> DEFINE m == page * size
            <7>3. m \in Nat /\ page <= m /\ m <= Len(s) /\ Len(s) \in Nat
              BY <3>2, <4>2, <7>2
            <7> HIDE DEF m
            <7>4. QED
              BY <1>0, <4>1, <7>2, <7>3
          <6>2. CASE stop = "count"
            BY <1>0, <4>1, <4>2, <4>4, <6>2 DEF LastPage
          <6>3. QED
            BY <4>1, <6>1, <6>2
        <5>2. QED
          BY <1>0, <3>1, <4>1, <4>4, <5>1 DEF p
      <4>5. QED
        BY <4>3, <4>4
    <3>7. /\ leg' \in 1 .. Len(plan) + 1
          /\ pc' = IF leg' > Len(plan) THEN "done" ELSE "ask"
      BY <1>0, <2>3, <3>1 DEF Fetch, Typed, TypeOK, Shape
    <3>8. QED
      BY <1>0, <2>0, <2>3, <3>3, <3>4, <3>5, <3>6, <3>7
         DEF Fetch, Typed, TypeOK, Shape, table, call, since
  <2>4. CASE Aside
    <3>1. Listed(rows, now) \subseteq DOMAIN rows /\ Listed(rows', now') \subseteq DOMAIN rows'
      BY MembersAreRows
    <3>2. now' \in 1 .. MaxTime /\ \A t : t \in 1 .. now => t \in 1 .. now'
      BY <1>0, <2>4 DEF Aside, Typed, TypeOK
    <3>3. CASE pc \in {"idle", "done"}
      BY <2>0, <2>4, <3>2, <3>3 DEF Aside, Noted, Typed, TypeOK, Shape, walk, call, since
    <3>4. CASE pc \notin {"idle", "done"}
      <4> DEFINE old == Listed(rows, now)
                 new == Listed(rows', now')
                 moved == {i \in old \cap new : rows'[i].send_after # rows[i].send_after}
      <4>1. /\ touched' = touched \cup (old \ new) \cup moved
            /\ departures' = departures + Cardinality((old \ new) \cup moved)
            /\ arrivals' = arrivals + Cardinality((new \ old) \cup moved)
            /\ began' = began
        BY <2>4, <3>4 DEF Aside, Noted
      <4>2. (old \ new) \cup moved \subseteq DOMAIN rows /\ (new \ old) \cup moved \subseteq DOMAIN rows'
        BY <3>1
      <4> HIDE DEF old, new, moved
      <4>3. Cardinality((old \ new) \cup moved) \in Nat /\ Cardinality((new \ old) \cup moved) \in Nat
        BY <2>0, <4>2, RowsCount DEF Typed, TypeOK
      <4>4. departures' \in Nat /\ arrivals' \in Nat /\ touched' \subseteq DOMAIN rows'
            /\ began' \subseteq DOMAIN rows'
        <5>1. /\ departures \in Nat /\ arrivals \in Nat
              /\ touched \subseteq DOMAIN rows /\ began \subseteq DOMAIN rows
          BY DEF Typed, TypeOK, Shape
        <5>2. QED
          BY <2>0, <4>1, <4>2, <4>3, <5>1
      <4>5. QED
        BY <2>0, <2>4, <3>2, <3>4, <4>4 DEF Aside, Typed, TypeOK, Shape, walk, call
    <3>5. QED
      BY <3>3, <3>4
  <2>5. QED
    BY <1>1, <2>1, <2>2, <2>3, <2>4, Steps
<1>2. CASE UNCHANGED vars
  BY <1>2 DEF vars, table, walk, call, since, Typed, TypeOK, Shape
<1>3. QED
  BY <1>1, <1>2

\* A walk stays within its plan, its pages and the rows there are.
THEOREM TypeCorrect == Spec => []TypeOK
<1>1. Init => Typed
  BY TypedInit
<1>2. Typed /\ [Next]_vars => Typed'
  BY TypedStep
<1>3. Typed => TypeOK
  BY DEF Typed
<1>4. QED
  BY <1>1, <1>2, <1>3, PTL DEF Spec

-----------------------------------------------------------------------------
(* Orders and members *)

\* The order of a listing, as Rankings has it.
Order(l, rs) == [i \in DOMAIN rs |-> {j \in DOMAIN rs : Precedes(l, rs, j, i)}]

\* Keys that tell all rows apart.
Distinct(l, rs) ==
  l \in {"pending", "future"} => \A i, j \in DOMAIN rs : rs[i].created = rs[j].created => i = j

\* Where keys tell all rows apart a listing is totally ordered.
LEMMA OrderStrict ==
  ASSUME NEW l \in Listings, NEW rs \in Seq(Row), Distinct(l, rs), NEW M \in SUBSET DOMAIN rs
  PROVE  StrictOrder(Order(l, rs), M)
<1>1. \A i \in DOMAIN rs : /\ i \in Nat /\ rs[i].created \in Nat /\ rs[i].send_after \in Nat
  <2> SUFFICES ASSUME NEW i \in DOMAIN rs
               PROVE  i \in Nat /\ rs[i].created \in Nat /\ rs[i].send_after \in Nat
    OBVIOUS
  <2>1. rs[i] \in Row /\ i \in Nat
    BY ElementOfSeq
  <2>2. MaxTime \in Nat /\ SendAfters \subseteq Nat
    BY BoundsAssumption
  <2>3. rs[i].created \in 1 .. MaxTime /\ rs[i].send_after \in SendAfters
    BY <2>1 DEF Row
  <2> DEFINE c == rs[i].created
             a == rs[i].send_after
  <2> HIDE DEF c, a
  <2>4. c \in 1 .. MaxTime /\ a \in SendAfters
    BY <2>3 DEF c, a
  <2>5. c \in Nat
    BY <2>4
  <2>6. a \in Nat
    BY <2>2, <2>4
  <2>7. QED
    BY <2>1, <2>5, <2>6 DEF c, a
<1>2. \A i, j \in M : j \in Order(l, rs)[i] <=> Precedes(l, rs, j, i)
  BY DEF Order
<1>3. \A i \in M : ~Precedes(l, rs, i, i)
  BY <1>1 DEF Precedes, Listings
<1>4. \A i, j, k \in M : Precedes(l, rs, j, i) /\ Precedes(l, rs, k, j) => Precedes(l, rs, k, i)
  BY <1>1 DEF Precedes, Listings
<1>5. \A i, j \in M : i = j \/ Precedes(l, rs, i, j) \/ Precedes(l, rs, j, i)
  BY <1>1 DEF Precedes, Listings, Distinct
<1>6. \A i \in M : i \notin Order(l, rs)[i]
  BY <1>2, <1>3
<1>7. \A i, j \in M : j \in Order(l, rs)[i] => Order(l, rs)[j] \cap M \subseteq Order(l, rs)[i]
  BY <1>2, <1>4
<1>8. \A i, j \in M : i = j \/ i \in Order(l, rs)[j] \/ j \in Order(l, rs)[i]
  BY <1>2, <1>5
<1>9. QED
  BY <1>6, <1>7, <1>8 DEF StrictOrder

\* What a query returns is sorted.
LEMMA ResultsSorted ==
  ASSUME NEW l, NEW rs, NEW t, NEW s \in Results(l, rs, t)
  PROVE  Sorted(Order(l, rs), Members(l, rs, t), s)
<1> DEFINE M == Members(l, rs, t)
<1>1. /\ s \in [1 .. Cardinality(M) -> M]
      /\ \A m, n \in 1 .. Cardinality(M) : m # n => s[m] # s[n]
      /\ \A m, n \in DOMAIN s : m < n => ~Precedes(l, rs, s[n], s[m])
  BY DEF Results, SetToSeqs
<1>2. M \subseteq DOMAIN rs
  BY MembersAreRows
<1> HIDE DEF M
<1>3. \A m, n \in 1 .. Cardinality(M) : m < n => s[n] \notin Order(l, rs)[s[m]]
  BY <1>1, <1>2 DEF Order
<1>4. QED
  BY <1>1, <1>3 DEF Sorted, M

\* As time passes rows become due, and none is less so.
LEMMA LaterMembers ==
  ASSUME NEW l \in Listings, NEW rs \in Seq(Row), NEW t \in Nat \ {0}, NEW u \in Nat, t <= u
  PROVE  Members(l, rs, t) \subseteq Members(l, rs, u)
<1> SUFFICES ASSUME NEW i \in Members(l, rs, t) PROVE i \in Members(l, rs, u)
  OBVIOUS
<1>1. i \in DOMAIN rs /\ rs[i] \in Row
  BY ElementOfSeq DEF Members
<1>2. rs[i].send_after \in Nat
  BY <1>1, BoundsAssumption DEF Row
<1>3. QED
  BY <1>1, <1>2 DEF Members, Listings, NULL

\* Of two moments at which a row is listed with one send_after, it was listed as of
\* an earlier time at both or at neither.
LEMMA SameMembership ==
  ASSUME NEW l \in Listings, NEW rs \in Seq(Row), NEW qs \in Seq(Row),
         NEW u \in Nat, NEW v \in Nat, NEW t \in Nat \ {0}, t <= u, t <= v,
         NEW i \in Members(l, rs, u), i \in Members(l, qs, v),
         rs[i].send_after = qs[i].send_after
  PROVE  i \in Members(l, rs, t) <=> i \in Members(l, qs, t)
<1>1. i \in DOMAIN rs /\ rs[i] \in Row /\ i \in DOMAIN qs
  BY ElementOfSeq DEF Members
<1>2. rs[i].send_after \in Nat
  BY <1>1, BoundsAssumption DEF Row
<1>3. QED
  BY <1>1, <1>2 DEF Members, Listings, NULL

-----------------------------------------------------------------------------
(* A walk of one listing *)

Walking == pc \in {"ask", "fetch"}

\* What the next page is cut from.
Shown == Members(plan[1], rows, IF pc = "fetch" THEN at ELSE now)

\* The rows that the client walks past the first k of.
Ranks(k) == First(Order(plan[1], rows), Shown, k)

\* A plan of one listing lists what that one does.
LEMMA PlanOfOne ==
  ASSUME Typed, Len(plan) = 1
  PROVE  /\ plan[1] \in Listings /\ Head(plan) = plan[1]
         /\ \A rs, t : Listed(rs, t) = Members(plan[1], rs, t)
         /\ Walking => leg = 1
         /\ Ordered => Distinct(plan[1], rows)
<1>1. plan \in Seq(Listings)
  BY PlansAssumption DEF Typed, TypeOK
<1>2. plan[1] \in Listings /\ Head(plan) = plan[1] /\ ToSet(plan) = {plan[1]}
  BY <1>1, ElementOfSeq DEF ToSet
<1>3. Walking => leg = 1
  BY DEF Walking, Typed, Shape
<1>4. Ordered => Distinct(plan[1], rows)
  BY <1>2 DEF Ordered, Distinct
<1>5. ASSUME NEW rs, NEW t
      PROVE  Listed(rs, t) = Members(plan[1], rs, t)
  BY <1>2 DEF Listed
<1>6. QED
  BY <1>2, <1>3, <1>4, <1>5

\* The listing the next page is cut from is one of the moment the client asked.
LEMMA ShownListed ==
  ASSUME Typed, Len(plan) = 1
  PROVE  /\ Shown \subseteq Listed(rows, now) /\ Listed(rows, now) \subseteq DOMAIN rows
         /\ IsFiniteSet(Shown) /\ IsFiniteSet(Listed(rows, now))
         /\ Ordered => StrictOrder(Order(plan[1], rows), Shown)
<1>1. rows \in Seq(Row) /\ now \in Nat \ {0} /\ (pc = "fetch" => at \in Nat \ {0} /\ at <= now)
  BY BoundsAssumption DEF Typed, TypeOK, Shape
<1>2. Shown \subseteq Listed(rows, now)
  <2>1. CASE pc = "fetch"
    BY <1>1, <2>1, PlanOfOne, LaterMembers DEF Shown
  <2>2. CASE pc # "fetch"
    BY <2>2, PlanOfOne DEF Shown
  <2>3. QED
    BY <2>1, <2>2
<1>3. Listed(rows, now) \subseteq DOMAIN rows
  BY MembersAreRows
<1>4. IsFiniteSet(Shown) /\ IsFiniteSet(Listed(rows, now))
  BY <1>1, <1>2, <1>3, RowsCount
<1>5. Ordered => StrictOrder(Order(plan[1], rows), Shown)
  BY <1>1, <1>2, <1>3, PlanOfOne, OrderStrict
<1>6. QED
  BY <1>2, <1>3, <1>4, <1>5

\* What others do during a walk: the rows that were given another send_after, those
\* that left the listing or moved in it, those that came or moved, and the rest of
\* what the client walks.
Moved  == {i \in Listed(rows, now) \cap Listed(rows', now') :
             rows'[i].send_after # rows[i].send_after}
Left   == (Listed(rows, now) \ Listed(rows', now')) \cup Moved
Came   == (Listed(rows', now') \ Listed(rows, now)) \cup Moved
Common == (Shown \cap Shown') \ Moved

\* What is counted are rows that left and came, and the rest keeps its order.
LEMMA AsideSets ==
  ASSUME Typed, Next, Aside, Walking, Len(plan) = 1
  PROVE  /\ Walking' /\ plan' = plan
         /\ touched' = touched \cup Left /\ began' = began
         /\ departures' = departures + Cardinality(Left)
         /\ arrivals' = arrivals + Cardinality(Came)
         /\ IsFiniteSet(Left) /\ IsFiniteSet(Came)
         /\ Cardinality(Left) \in Nat /\ Cardinality(Came) \in Nat
         /\ Shown \ Common \subseteq Left /\ Shown' \ Common \subseteq Came
         /\ (Listed(rows', now') \ Shown') \subseteq (Listed(rows, now) \ Shown) \cup Came
         /\ \A k : First(Order(plan[1], rows'), Common, k) = First(Order(plan[1], rows), Common, k)
<1>1. /\ plan' = plan /\ pc' = pc /\ Walking' /\ (pc = "fetch" => at' = at)
      /\ now' \in now .. MaxTime
  BY DEF Aside, walk, call, Walking
<1>2. /\ touched' = touched \cup (Listed(rows, now) \ Listed(rows', now')) \cup Moved
      /\ departures' = departures + Cardinality(Left)
      /\ arrivals' = arrivals + Cardinality(Came) /\ began' = began
  BY DEF Aside, Noted, Walking, Moved, Left, Came
<1>3. /\ rows \in Seq(Row) /\ rows' \in Seq(Row) /\ DOMAIN rows \subseteq DOMAIN rows'
      /\ \A i \in DOMAIN rows : rows'[i].created = rows[i].created
  BY RowsStep DEF Typed, TypeOK
<1>4. Left \subseteq DOMAIN rows' /\ Came \subseteq DOMAIN rows'
  BY <1>3, MembersAreRows DEF Left, Came, Moved
<1>5. /\ IsFiniteSet(Left) /\ IsFiniteSet(Came)
      /\ Cardinality(Left) \in Nat /\ Cardinality(Came) \in Nat
  BY <1>3, <1>4, RowsCount
<1> DEFINE l == plan[1]
<1>6. /\ l \in Listings
      /\ Listed(rows, now) = Members(l, rows, now) /\ Listed(rows', now') = Members(l, rows', now')
  BY PlanOfOne
<1>7. /\ now \in Nat \ {0} /\ now' \in Nat \ {0} /\ now <= now'
      /\ pc = "fetch" => at \in Nat \ {0} /\ at <= now
  BY <1>1, BoundsAssumption DEF Typed, TypeOK, Shape
<1>8. Shown \subseteq Listed(rows, now)
  BY ShownListed
<1>9. Shown' \subseteq Listed(rows', now')
  <2>1. CASE pc = "fetch"
    BY <1>1, <1>3, <1>6, <1>7, <2>1, LaterMembers DEF Shown
  <2>2. CASE pc # "fetch"
    BY <1>1, <1>6, <2>2 DEF Shown
  <2>3. QED
    BY <2>1, <2>2
<1>10. ASSUME NEW i \in Listed(rows, now), i \in Listed(rows', now'), i \notin Moved
       PROVE  i \in Shown <=> i \in Shown'
  <2>1. rows'[i].send_after = rows[i].send_after
    BY <1>10 DEF Moved
  <2>2. CASE pc = "fetch"
    <3>1. at <= now /\ at <= now' /\ at \in Nat \ {0} /\ now \in Nat /\ now' \in Nat
      BY <1>7, <2>2
    <3>2. i \in Members(l, rows, at) <=> i \in Members(l, rows', at)
      BY <1>3, <1>6, <1>10, <2>1, <3>1, SameMembership
    <3>3. QED
      BY <1>1, <2>2, <3>2 DEF Shown
  <2>3. CASE pc # "fetch"
    BY <1>1, <1>6, <1>10, <2>3 DEF Shown
  <2>4. QED
    BY <2>2, <2>3
<1>11. Shown \ Common \subseteq Left /\ Shown' \ Common \subseteq Came
  BY <1>8, <1>9, <1>10 DEF Left, Came, Common
<1>12. (Listed(rows', now') \ Shown') \subseteq (Listed(rows, now) \ Shown) \cup Came
  BY <1>9, <1>10 DEF Came
<1>13. ASSUME NEW i \in Common, NEW j \in Common
       PROVE  j \in Order(l, rows')[i] <=> j \in Order(l, rows)[i]
  <2>1. /\ i \in DOMAIN rows /\ j \in DOMAIN rows /\ i \in DOMAIN rows' /\ j \in DOMAIN rows'
        /\ rows'[i].send_after = rows[i].send_after /\ rows'[j].send_after = rows[j].send_after
        /\ rows'[i].created = rows[i].created /\ rows'[j].created = rows[j].created
    BY <1>3, <1>8, <1>9, ShownListed DEF Common, Moved
  <2>2. Precedes(l, rows', j, i) <=> Precedes(l, rows, j, i)
    BY <1>6, <2>1 DEF Precedes, Listings
  <2>3. QED
    BY <2>1, <2>2 DEF Order
<1>14. ASSUME NEW k
       PROVE  First(Order(l, rows'), Common, k) = First(Order(l, rows), Common, k)
  <2>1. \A i \in Common : Order(l, rows')[i] \cap Common = Order(l, rows)[i] \cap Common
    BY <1>13
  <2>2. QED
    BY <2>1, SameRanks
<1>15. touched' = touched \cup Left
  BY <1>2 DEF Left
<1>16. QED
  BY <1>1, <1>2, <1>5, <1>11, <1>12, <1>14, <1>15

\* What others do to the listing of the walk, where its rows are totally ordered.
LEMMA AsideOrder ==
  ASSUME Typed, Next, Aside, Walking, Len(plan) = 1, Ordered'
  PROVE  /\ Ordered
         /\ StrictOrder(Order(plan[1], rows), Shown) /\ StrictOrder(Order(plan[1], rows'), Shown')
<1>1. /\ plan' = plan /\ rows \in Seq(Row) /\ rows' \in Seq(Row) /\ DOMAIN rows \subseteq DOMAIN rows'
      /\ \A i \in DOMAIN rows : rows'[i].created = rows[i].created
  BY RowsStep DEF Aside, walk, call, Typed, TypeOK
<1>2. Ordered
  BY <1>1 DEF Ordered
<1>3. ToSet(plan) = {plan[1]} /\ plan[1] \in Listings
  <2>1. plan \in Seq(Listings)
    BY PlansAssumption DEF Typed, TypeOK
  <2>2. QED
    BY <2>1, ElementOfSeq DEF ToSet
<1>4. Distinct(plan[1], rows')
  BY <1>1, <1>3 DEF Ordered, Distinct
<1>5. Shown' \subseteq DOMAIN rows'
  BY <1>1, MembersAreRows DEF Shown
<1>6. StrictOrder(Order(plan[1], rows'), Shown')
  BY <1>1, <1>3, <1>4, <1>5, OrderStrict
<1>7. QED
  BY <1>2, <1>6, ShownListed

\* A page has the rows that come next in the order of the listing, and a short one the
\* last of them.
LEMMA FetchPage ==
  ASSUME Typed, Fetch, Len(plan) = 1, Ordered
  PROVE  \E p \in Seq(Shown) :
           /\ got' = got \o p /\ Cardinality(ToSet(p)) = Len(p)
           /\ ToSet(p) = Ranks(page * size) \ Ranks(Passed)
           /\ Len(p) < size => Ranks(page * size) = Shown
           /\ pc' = IF LastPage(p) THEN "done" ELSE "ask"
           /\ pc' = "ask" => Passed' = page * size
<1> DEFINE l == plan[1]
           R == Order(l, rows)
           k == Passed
<1>1. /\ pc = "fetch" /\ leg = 1 /\ size \in Nat \ {0} /\ page \in Nat \ {0} /\ Walking
  BY PlanOfOne, BoundsAssumption DEF Fetch, Typed, TypeOK, Walking
<1>2. k \in Nat /\ page * size \in Nat /\ k + size = page * size
  BY <1>1, PageBounds DEF Passed
<1>3. Shown = Members(l, rows, at)
  BY <1>1 DEF Shown
<1>4. PICK s \in Results(plan[leg], rows, at) :
        /\ got' = got \o Page(s, page)
        /\ page' = IF LastPage(Page(s, page)) THEN 1 ELSE page + 1
        /\ leg' = IF LastPage(Page(s, page)) THEN leg + 1 ELSE leg
  BY DEF Fetch
<1> DEFINE p == Page(s, page)
<1>5. IsFiniteSet(Shown) /\ StrictOrder(R, Shown) /\ Cardinality(Shown) \in Nat
  BY ShownListed, FS_CardinalityType
<1>6. Sorted(R, Shown, s)
  BY <1>1, <1>3, <1>4, ResultsSorted
<1>7. p = Cut(s, k, size)
  BY <1>4, PageOf DEF Cut
<1> HIDE DEF p, R, k
<1>8. size \in Nat
  BY <1>1
<1>9. /\ p \in Seq(Shown) /\ Range(p) = Between(R, Shown, k, k + size)
      /\ Cardinality(Range(p)) = Len(p)
      /\ Len(p) < size => Cardinality(Shown) < k + size
  BY <1>2, <1>5, <1>6, <1>7, <1>8, PageRanks
<1>10. p \in Seq(Shown)
  BY <1>9
<1>11. Cardinality(ToSet(p)) = Len(p) /\ ToSet(p) = Ranks(page * size) \ Ranks(Passed)
  <2>1. ToSet(p) = Range(p)
    BY DEF ToSet, Range
  <2>2. Cardinality(Range(p)) = Len(p)
    BY <1>9
  <2>3. Range(p) = Between(R, Shown, k, k + size)
    BY <1>9
  <2>4. Between(R, Shown, k, k + size) = Ranks(page * size) \ Ranks(Passed)
    BY <1>2 DEF Between, Ranks, R, k
  <2>5. QED
    BY <2>1, <2>2, <2>3, <2>4
<1>12. ASSUME Len(p) < size
       PROVE  Ranks(page * size) = Shown
  <2>1. Cardinality(Shown) < k + size
    BY <1>9, <1>12
  <2>2. ASSUME NEW i \in Shown
        PROVE  Rank(R, Shown, i) < k + size
    <3> DEFINE c == Cardinality(Shown)
    <3>1. Rank(R, Shown, i) \in Nat /\ Rank(R, Shown, i) \in 0 .. c - 1
      BY <1>5, RankType
    <3> HIDE DEF c
    <3>2. c \in Nat /\ c < k + size
      BY <1>5, <2>1 DEF c
    <3>3. QED
      BY <1>2, <1>8, <3>1, <3>2
  <2>3. QED
    BY <1>2, <2>2 DEF Ranks, First, R
<1>13. leg' = (IF LastPage(p) THEN 2 ELSE 1) /\ page' = (IF LastPage(p) THEN 1 ELSE page + 1)
  BY <1>1, <1>4 DEF p
<1>14. pc' = IF LastPage(p) THEN "done" ELSE "ask"
  <2>1. pc' = IF leg' > 1 THEN "done" ELSE "ask"
    BY DEF Fetch
  <2>2. QED
    BY <1>13, <2>1
<1>15. ASSUME pc' = "ask"
       PROVE  Passed' = page * size
  <2>1. page' = page + 1 /\ size' = size
    BY <1>13, <1>14, <1>15 DEF Fetch, call
  <2>2. page' - 1 = page
    BY <1>1, <2>1
  <2>3. QED
    BY <2>1, <2>2 DEF Passed
<1>16. got' = got \o p
  BY <1>4 DEF p
<1>17. QED
  BY <1>10, <1>11, <1>12, <1>14, <1>15, <1>16

-----------------------------------------------------------------------------
(* What a walk repeats *)

Current == Members(plan[1], rows, now)

Repeats == Len(got) - Cardinality(ToSet(got))

\* The rows the client has that still lie before it.
Beyond == Cardinality((ToSet(got) \cap Shown) \ Ranks(Passed))

\* Every row shown twice was pushed back by one that came: it is shown already, or it
\* has been pushed beyond the rows passed, or the one that came is due only after the
\* moment of the page asked for.
RepeatsAccounted ==
  Len(plan) = 1 /\ Ordered =>
    IF Walking THEN Repeats + Beyond + Cardinality(Current \ Shown) <= arrivals
               ELSE Repeats <= arrivals

\* The rows of a page that the client has already are shown to it again.
LEMMA GotGrows ==
  ASSUME NEW g \in Seq(Nat), NEW p \in Seq(Nat), IsFiniteSet(ToSet(g)), IsFiniteSet(ToSet(p)),
         Cardinality(ToSet(p)) = Len(p)
  PROVE  /\ ToSet(g \o p) = ToSet(g) \cup ToSet(p)
         /\ Len(g \o p) - Cardinality(ToSet(g \o p))
              = Len(g) - Cardinality(ToSet(g)) + Cardinality(ToSet(g) \cap ToSet(p))
<1>1. ToSet(g \o p) = ToSet(g) \cup ToSet(p)
  <2>1. Range(g \o p) = Range(g) \cup Range(p)
    BY RangeConcatenation
  <2>2. QED
    BY <2>1 DEF ToSet, Range
<1>2. Len(g \o p) = Len(g) + Len(p)
  BY ConcatProperties
<1> DEFINE A == ToSet(g)
           B == ToSet(p)
<1>3. Cardinality(A \cup B) = Cardinality(A) + Cardinality(B) - Cardinality(A \cap B)
  BY FS_Union
<1>4. Cardinality(A) \in Nat /\ Cardinality(B) \in Nat /\ Cardinality(A \cap B) \in Nat
  BY FS_CardinalityType, FS_Intersection
<1>5. Cardinality(ToSet(g \o p)) = Cardinality(A) + Cardinality(B) - Cardinality(A \cap B)
  BY <1>1, <1>3
<1> HIDE DEF A, B
<1>6. Len(g) \in Nat /\ Len(p) \in Nat /\ Cardinality(B) = Len(p)
  BY DEF B
<1>7. Len(g \o p) - Cardinality(ToSet(g \o p)) = Len(g) - Cardinality(A) + Cardinality(A \cap B)
  BY <1>2, <1>4, <1>5, <1>6
<1>8. QED
  BY <1>1, <1>7 DEF A, B

\* What the client has is finite, and it counts.
LEMMA GotCounts ==
  ASSUME Typed
  PROVE  /\ got \in Seq(Nat) /\ IsFiniteSet(ToSet(got)) /\ Repeats \in Int
         /\ arrivals \in Nat /\ departures \in Nat
         /\ Walking => Passed \in Nat /\ size \in Nat \ {0} /\ page * size \in Nat
                       /\ Passed + size = page * size
<1>1. rows \in Seq(Row) /\ ToSet(got) \subseteq DOMAIN rows /\ got \in Seq(Nat)
  BY DEF Typed, TypeOK
<1>2. IsFiniteSet(ToSet(got)) /\ Cardinality(ToSet(got)) \in Nat /\ Len(got) \in Nat
  BY <1>1, RowsCount
<1>3. page \in Nat \ {0} /\ size \in Nat \ {0}
  BY BoundsAssumption DEF Typed, TypeOK
<1>4. Passed \in Nat /\ page * size \in Nat /\ Passed + size = page * size
  BY <1>3, PageBounds DEF Passed
<1>5. Repeats \in Int
  BY <1>2 DEF Repeats
<1>6. arrivals \in Nat /\ departures \in Nat
  BY DEF Typed, Shape
<1>7. QED
  BY <1>1, <1>2, <1>3, <1>4, <1>5, <1>6

\* A page repeats rows that were beyond those passed, and the next one is cut from
\* what is listed by then.
LEMMA FetchRepeats ==
  ASSUME Typed, Fetch, RepeatsAccounted, Len(plan) = 1, Ordered
  PROVE  /\ pc' = "done" => Repeats' <= arrivals
         /\ pc' = "ask" => Repeats' + Beyond' + Cardinality(Current' \ Shown') <= arrivals
<1> DEFINE R == Order(plan[1], rows)
           k == Passed
           m == page * size
           G == ToSet(got)
<1>1. PICK p \in Seq(Shown) :
        /\ got' = got \o p /\ Cardinality(ToSet(p)) = Len(p)
        /\ ToSet(p) = Ranks(m) \ Ranks(k)
        /\ Len(p) < size => Ranks(m) = Shown
        /\ pc' = IF LastPage(p) THEN "done" ELSE "ask"
        /\ pc' = "ask" => Passed' = m
  BY FetchPage
<1> DEFINE P == ToSet(p)
<1>2. pc = "fetch" /\ Walking /\ plan' = plan /\ rows' = rows /\ now' = now /\ arrivals' = arrivals
  BY DEF Fetch, Walking, table, call, since
<1>3. /\ got \in Seq(Nat) /\ IsFiniteSet(G) /\ Repeats \in Int /\ arrivals \in Nat
      /\ k \in Nat /\ m \in Nat /\ k + size = m /\ size \in Nat \ {0}
  BY <1>2, GotCounts
<1>4. /\ Shown \subseteq Current /\ Current \subseteq DOMAIN rows
      /\ IsFiniteSet(Shown) /\ IsFiniteSet(Current) /\ StrictOrder(R, Shown)
      /\ StrictOrder(R, Current)
  <2>1. Listed(rows, now) = Current
    BY PlanOfOne DEF Current
  <2>2. rows \in Seq(Row) /\ Distinct(plan[1], rows) /\ plan[1] \in Listings
    BY PlanOfOne DEF Typed, TypeOK
  <2>3. Current \subseteq DOMAIN rows
    BY <2>1, ShownListed
  <2>4. StrictOrder(R, Current)
    BY <2>2, <2>3, OrderStrict
  <2>5. QED
    BY <2>1, <2>4, ShownListed
<1>5. P \subseteq Shown /\ IsFiniteSet(P) /\ p \in Seq(Nat)
  <2>1. P \subseteq Shown
    BY <1>1 DEF Ranks, First
  <2>2. Shown \subseteq Nat
    <3>1. DOMAIN rows \subseteq Nat
      BY DEF Typed, TypeOK
    <3>2. QED
      BY <1>4, <3>1
  <2> HIDE DEF P
  <2>3. IsFiniteSet(P)
    BY <1>4, <2>1, FS_Subset
  <2>4. p \in Seq(Nat)
    <3>1. /\ Len(p) \in Nat /\ p \in [1 .. Len(p) -> Shown]
      BY <1>1, LenProperties
    <3>2. p \in [1 .. Len(p) -> Nat]
      BY <2>2, <3>1
    <3>3. QED
      BY <3>1, <3>2, IsASeq
  <2>5. QED
    BY <2>1, <2>3, <2>4
<1>6. ToSet(got') = G \cup P /\ Repeats' = Repeats + Cardinality(G \cap P)
  BY <1>1, <1>3, <1>5, GotGrows DEF Repeats
<1> DEFINE X == (G \cap Shown) \ Ranks(k)
<1>7. Repeats + Cardinality(X) + Cardinality(Current \ Shown) <= arrivals
  BY <1>2 DEF RepeatsAccounted, Beyond
<1> HIDE DEF P, R, k, m
<1>8. /\ IsFiniteSet(X) /\ Cardinality(X) \in Nat
      /\ IsFiniteSet(G \cap P) /\ Cardinality(G \cap P) \in Nat
      /\ Cardinality(Current \ Shown) \in Nat
  BY <1>3, <1>4, FS_Intersection, FS_Difference, FS_CardinalityType
<1>9. G \cap P = X \cap Ranks(m)
  BY <1>1, <1>5 DEF P, k, m
<1>10. /\ Cardinality(G \cap P) <= Cardinality(X)
       /\ Cardinality(X \ Ranks(m)) = Cardinality(X) - Cardinality(G \cap P)
  <2>1. Cardinality(X \ Ranks(m)) = Cardinality(X) - Cardinality(X \cap Ranks(m))
    BY <1>8, FS_Difference
  <2>2. Cardinality(X \cap Ranks(m)) = Cardinality(G \cap P)
    BY <1>9
  <2>3. X \cap Ranks(m) \in SUBSET X
    OBVIOUS
  <2>4. Cardinality(X \cap Ranks(m)) <= Cardinality(X)
    BY <1>8, <2>3, FS_Subset
  <2>5. QED
    BY <2>1, <2>2, <2>4
<1>11. ASSUME pc' = "done"
       PROVE  Repeats' <= arrivals
  <2> HIDE DEF X
  <2>1. QED
    BY <1>3, <1>6, <1>7, <1>8, <1>10
<1>12. ASSUME pc' = "ask"
       PROVE  Repeats' + Beyond' + Cardinality(Current' \ Shown') <= arrivals
  <2>1. Shown' = Current /\ Current' = Current
    BY <1>2, <1>12 DEF Shown, Current
  <2>2. Beyond' = Cardinality(((G \cup P) \cap Current) \ First(R, Current, m))
    BY <1>1, <1>2, <1>6, <1>12, <2>1 DEF Beyond, Ranks, R, m
  <2>3. /\ Cardinality(((G \cup P) \cap Current) \ First(R, Current, m)) \in Nat
        /\ Cardinality(((G \cup P) \cap Current) \ First(R, Current, m))
             <= Cardinality(((G \cup P) \cap Shown) \ First(R, Shown, m)) + Cardinality(Current \ Shown)
    BY <1>3, <1>4, BeyondAfterInsert
  <2>4. ((G \cup P) \cap Shown) \ First(R, Shown, m) = X \ Ranks(m)
    <3>1. Ranks(k) \subseteq Ranks(m)
      <4>1. \A i \in Shown : Rank(R, Shown, i) \in Nat
        BY <1>4, RankType
      <4>2. \A i \in Shown : Rank(R, Shown, i) < k => Rank(R, Shown, i) < m
        BY <1>3, <4>1
      <4>3. QED
        BY <4>2 DEF Ranks, First, R
    <3>2. P = Ranks(m) \ Ranks(k)
      BY <1>1 DEF P
    <3>3. First(R, Shown, m) = Ranks(m)
      BY DEF Ranks, R
    <3>4. QED
      BY <3>1, <3>2, <3>3
  <2>5. Current' \ Shown' = {} /\ Cardinality(Current' \ Shown') = 0
    BY <2>1, FS_EmptySet
  <2>6. Beyond' \in Nat /\ Beyond' <= Cardinality(X \ Ranks(m)) + Cardinality(Current \ Shown)
    BY <2>2, <2>3, <2>4
  <2> HIDE DEF X
  <2>7. QED
    BY <1>3, <1>6, <1>7, <1>8, <1>10, <2>5, <2>6
<1>13. QED
  BY <1>11, <1>12

\* What comes pushes rows back, one each, and what leaves none.
LEMMA AsideRepeats ==
  ASSUME Typed, Next, Aside, RepeatsAccounted, Walking, Len(plan) = 1, Ordered'
  PROVE  Repeats' + Beyond' + Cardinality(Current' \ Shown') <= arrivals'
<1> DEFINE R == Order(plan[1], rows)
           Q == Order(plan[1], rows')
           k == Passed
           G == ToSet(got)
           C == Common
           T == Shown'
           late == Current \ Shown
<1>1. /\ Ordered /\ StrictOrder(R, Shown) /\ StrictOrder(Q, T)
  BY AsideOrder
<1>2. /\ plan' = plan /\ got' = got /\ page' = page /\ size' = size
  BY DEF Aside, walk, call
<1>3. /\ got \in Seq(Nat) /\ IsFiniteSet(G) /\ Repeats \in Int /\ arrivals \in Nat /\ k \in Nat
  BY GotCounts
<1>4. /\ arrivals' = arrivals + Cardinality(Came)
      /\ IsFiniteSet(Came) /\ Cardinality(Came) \in Nat /\ T \ C \subseteq Came
      /\ (Listed(rows', now') \ T) \subseteq (Listed(rows, now) \ Shown) \cup Came
      /\ First(Q, C, k) = First(R, C, k)
  BY AsideSets
<1>5. Listed(rows, now) = Current /\ Listed(rows', now') = Current'
  BY <1>2, PlanOfOne DEF Current
<1>6. IsFiniteSet(Shown) /\ IsFiniteSet(Current) /\ Current \subseteq DOMAIN rows
  BY <1>5, ShownListed
<1>7. C \subseteq Shown /\ C \subseteq T /\ IsFiniteSet(C) /\ IsFiniteSet(late)
  BY <1>6, FS_Subset, FS_Difference DEF Common
<1>8. IsFiniteSet(T) /\ IsFiniteSet(Current' \ T)
  <2>1. T \subseteq C \cup Came /\ Current' \ T \subseteq late \cup Came
    BY <1>4, <1>5
  <2>2. IsFiniteSet(C \cup Came) /\ IsFiniteSet(late \cup Came)
    BY <1>4, <1>7, FS_Union
  <2> HIDE DEF T, C, late
  <2>3. QED
    BY <2>1, <2>2, FS_Subset
<1>9. Repeats + Cardinality((G \cap Shown) \ First(R, Shown, k)) + Cardinality(late) <= arrivals
  BY <1>1 DEF RepeatsAccounted, Beyond, Ranks
<1>10. Beyond' = Cardinality((G \cap T) \ First(Q, T, k)) /\ Repeats' = Repeats
  BY <1>2 DEF Beyond, Ranks, Passed, Repeats
<1> HIDE DEF R, Q, k, G, C, T, late
<1> DEFINE b1 == Cardinality((G \cap Shown) \ First(R, Shown, k))
           b2 == Cardinality((G \cap C) \ First(R, C, k))
           b3 == Cardinality((G \cap T) \ First(Q, T, k))
           u  == T \ C
           v  == Current' \ T
<1>11. b1 \in Nat /\ b2 \in Nat /\ b2 <= b1
  <2>1. b1 \in Nat /\ b2 \in Nat
    BY <1>1, <1>3, <1>6, <1>7, BeyondAfterInsert
  <2>2. b2 <= b1
    BY <1>1, <1>3, <1>6, <1>7, BeyondAfterRemove
  <2>3. QED
    BY <2>1, <2>2
<1>12. b3 \in Nat /\ b3 <= b2 + Cardinality(u) /\ Cardinality(u) \in Nat
  <2>1. /\ b3 \in Nat /\ Cardinality(u) \in Nat
        /\ b3 <= Cardinality((G \cap C) \ First(Q, C, k)) + Cardinality(u)
    BY <1>1, <1>3, <1>7, <1>8, BeyondAfterInsert
  <2>2. First(Q, C, k) = First(R, C, k)
    BY <1>4 DEF k, C, Q, R
  <2>3. QED
    BY <2>1, <2>2
<1>13. /\ Cardinality(u) + Cardinality(v) <= Cardinality(late) + Cardinality(Came)
       /\ Cardinality(v) \in Nat /\ Cardinality(late) \in Nat
  <2>1. IsFiniteSet(u) /\ IsFiniteSet(v) /\ u \cap v = {}
    BY <1>8, FS_Difference DEF T
  <2>2. Cardinality(u \cup v) = Cardinality(u) + Cardinality(v) - Cardinality(u \cap v)
    BY <2>1, FS_Union
  <2>3. Cardinality(u \cap v) = 0
    BY <2>1, FS_EmptySet
  <2>4. u \cup v \subseteq late \cup Came
    BY <1>4, <1>5 DEF T, C, late
  <2>5. IsFiniteSet(late \cup Came)
        /\ Cardinality(late \cup Came) = Cardinality(late) + Cardinality(Came) - Cardinality(late \cap Came)
    BY <1>4, <1>7, FS_Union
  <2>6. Cardinality(late \cap Came) \in Nat
    BY <1>4, <1>7, FS_Intersection, FS_CardinalityType
  <2>7. Cardinality(u) \in Nat /\ Cardinality(v) \in Nat /\ Cardinality(late) \in Nat
    BY <1>7, <2>1, FS_CardinalityType
  <2> HIDE DEF u, v
  <2>8. Cardinality(u \cup v) <= Cardinality(late \cup Came)
    BY <2>4, <2>5, FS_Subset
  <2>9. QED
    BY <1>4, <2>2, <2>3, <2>5, <2>6, <2>7, <2>8
<1>14. Repeats' + b3 + Cardinality(v) <= arrivals'
  <2> DEFINE a == Cardinality(late)
             d == Cardinality(Came)
             x == Cardinality(u)
             y == Cardinality(v)
  <2>1. Repeats + b1 + a <= arrivals
    BY <1>9
  <2>2. a \in Nat /\ d \in Nat /\ x \in Nat /\ y \in Nat /\ x + y <= a + d /\ b3 <= b2 + x
    BY <1>4, <1>12, <1>13
  <2>3. arrivals' = arrivals + d /\ Repeats' = Repeats
    BY <1>4, <1>10
  <2> HIDE DEF a, b1, b2, b3, d, x, y
  <2>4. Repeats + b3 + y <= arrivals + d
    BY <1>3, <1>11, <1>12, <2>1, <2>2
  <2>5. QED
    BY <2>3, <2>4 DEF y
<1>15. QED
  BY <1>10, <1>14 DEF T

\* Repetitions stay accounted for.
LEMMA RepeatsStep ==
  ASSUME Typed, RepeatsAccounted, [Next]_vars
  PROVE  RepeatsAccounted'
<1> SUFFICES ASSUME Len(plan') = 1, Ordered'
             PROVE  /\ Walking' => Repeats' + Beyond' + Cardinality(Current' \ Shown') <= arrivals'
                    /\ ~Walking' => Repeats' <= arrivals'
  BY DEF RepeatsAccounted
<1>1. CASE Next
  <2>1. Begin \/ Ask \/ Fetch \/ Aside
    BY <1>1, Steps
  <2>2. CASE Begin
    <3>1. /\ ToSet(got') = {} /\ got' = <<>> /\ pc' = "ask"
          /\ rows' = rows /\ now' = now /\ plan' = plan /\ arrivals' = 0
      BY <2>2 DEF Begin, Typed, Shape, table, call, ToSet
    <3>2. /\ (ToSet(got') \cap Shown') \ (Ranks(Passed))' = {} /\ Current' \ Shown' = {}
      BY <3>1 DEF Shown, Current
    <3>3. Beyond' = 0 /\ Cardinality(Current' \ Shown') = 0
      BY <3>2, FS_EmptySet DEF Beyond
    <3>4. Repeats' = 0
      <4>1. Len(got') = 0 /\ Cardinality(ToSet(got')) = 0
        BY <3>1, FS_EmptySet
      <4>2. QED
        BY <4>1 DEF Repeats
    <3>5. QED
      BY <3>1, <3>3, <3>4
  <2>3. CASE Ask
    <3>1. /\ pc = "ask" /\ pc' = "fetch" /\ at' = now /\ now' = now /\ rows' = rows /\ plan' = plan
          /\ got' = got /\ page' = page /\ size' = size /\ arrivals' = arrivals
      BY <2>3 DEF Ask, table, call, since
    <3>2. Shown' = Shown /\ Current' = Current /\ Repeats' = Repeats /\ Ordered /\ Walking /\ Walking'
      BY <3>1 DEF Shown, Current, Repeats, Ordered, Walking
    <3>3. Beyond' = Beyond
      BY <3>1, <3>2 DEF Beyond, Ranks, Passed
    <3>4. Repeats + Beyond + Cardinality(Current \ Shown) <= arrivals
      BY <3>1, <3>2 DEF RepeatsAccounted
    <3>5. QED
      BY <3>1, <3>2, <3>3, <3>4
  <2>4. CASE Fetch
    <3>1. Len(plan) = 1 /\ Ordered /\ arrivals' = arrivals /\ pc' \in {"ask", "done"}
      BY <2>4 DEF Fetch, table, call, since, Ordered
    <3>2. QED
      BY <2>4, <3>1, FetchRepeats DEF Walking
  <2>5. CASE Aside
    <3>1. Len(plan) = 1 /\ pc' = pc /\ got' = got /\ pc # "done"
      BY <2>5 DEF Aside, walk, call
    <3>2. CASE Walking
      BY <1>1, <2>5, <3>1, <3>2, AsideRepeats DEF Walking
    <3>3. CASE ~Walking
      <4>1. pc = "idle" /\ arrivals' = arrivals /\ arrivals = 0 /\ got = <<>> /\ ToSet(got) = {}
        BY <2>5, <3>1, <3>3 DEF Walking, Aside, Noted, since, Typed, TypeOK, Shape, ToSet
      <4>2. Len(got) = 0 /\ Cardinality(ToSet(got)) = 0
        BY <4>1, FS_EmptySet
      <4>3. QED
        BY <3>1, <3>3, <4>1, <4>2 DEF Repeats, Walking
    <3>4. QED
      BY <3>2, <3>3
  <2>6. QED
    BY <2>1, <2>2, <2>3, <2>4, <2>5
<1>2. CASE UNCHANGED vars
  <2>1. /\ pc' = pc /\ plan' = plan /\ rows' = rows /\ now' = now /\ at' = at /\ got' = got
        /\ page' = page /\ size' = size /\ arrivals' = arrivals
    BY <1>2 DEF vars, table, walk, call, since
  <2>2. /\ Shown' = Shown /\ Current' = Current /\ Repeats' = Repeats /\ (Ordered' <=> Ordered)
        /\ (Walking' <=> Walking)
    BY <2>1 DEF Shown, Current, Repeats, Ordered, Walking
  <2>3. Beyond' = Beyond
    BY <2>1, <2>2 DEF Beyond, Ranks, Passed
  <2>4. QED
    BY <2>1, <2>2, <2>3 DEF RepeatsAccounted
<1>3. QED
  BY <1>1, <1>2

\* Through one totally ordered listing a client is shown at most one row twice for
\* every row that comes in or moves: WalkRepeatsFew.
THEOREM WalkRepeatsFewTheorem == Spec => []WalkRepeatsFew
<1>1. Init => Typed /\ RepeatsAccounted
  <2> SUFFICES ASSUME Init PROVE RepeatsAccounted
    BY TypedInit
  <2>1. pc = "idle" /\ arrivals = 0 /\ Len(got) = 0 /\ ToSet(got) = {}
    BY DEF Init, ToSet
  <2>2. Cardinality(ToSet(got)) = 0
    BY <2>1, FS_EmptySet
  <2>3. QED
    BY <2>1, <2>2 DEF RepeatsAccounted, Repeats, Walking
<1>2. Typed /\ RepeatsAccounted /\ [Next]_vars => (Typed /\ RepeatsAccounted)'
  BY TypedStep, RepeatsStep
<1>3. Typed /\ RepeatsAccounted => WalkRepeatsFew
  <2> SUFFICES ASSUME Typed, RepeatsAccounted, Len(plan) = 1, Ordered
               PROVE  Repeats <= arrivals
    BY DEF WalkRepeatsFew, Repeats
  <2>1. CASE Walking
    <3>1. Repeats + Beyond + Cardinality(Current \ Shown) <= arrivals
      BY <2>1 DEF RepeatsAccounted
    <3>2. Beyond \in Nat /\ Cardinality(Current \ Shown) \in Nat
      <4>1. IsFiniteSet(ToSet(got)) /\ IsFiniteSet(Current)
        BY GotCounts, ShownListed, PlanOfOne DEF Current
      <4>2. QED
        BY <4>1, FS_Intersection, FS_Difference, FS_CardinalityType DEF Beyond
    <3>3. QED
      BY <3>1, <3>2, GotCounts
  <2>2. QED
    BY <2>1 DEF RepeatsAccounted
<1>4. QED
  BY <1>1, <1>2, <1>3, PTL DEF Spec

-----------------------------------------------------------------------------
(* What a walk misses *)

\* The rows that nobody touched are listed still, and those of them that the client
\* has walked past without getting them were pulled forward, each by one that left.
\* When it ends by the count there are as many more rows as have come.
MissesAccounted ==
  Len(plan) = 1 =>
    /\ Walking =>
         /\ began \ touched \subseteq Shown
         /\ stop = "count" => Cardinality(Current) <= total + arrivals
         /\ Ordered => Cardinality(Missed \cap Ranks(Passed)) <= departures
    /\ pc = "done" /\ Ordered =>
         Cardinality(Missed) <= departures + (IF stop = "count" THEN arrivals ELSE 0)

\* What is missing of the rows passed after a page was missing before, and of the rest
\* the last page leaves none, or those that the count leaves out.
LEMMA FetchMisses ==
  ASSUME Typed, Fetch, MissesAccounted, Len(plan) = 1, Ordered
  PROVE  /\ pc' = "done" =>
              Cardinality(Missed') <= departures + (IF stop = "count" THEN arrivals ELSE 0)
         /\ pc' = "ask" => Cardinality(Missed' \cap (Ranks(Passed))') <= departures
<1> DEFINE R == Order(plan[1], rows)
           k == Passed
           m == page * size
           G == ToSet(got)
           W == began \ touched
<1>1. PICK p \in Seq(Shown) :
        /\ got' = got \o p /\ Cardinality(ToSet(p)) = Len(p)
        /\ ToSet(p) = Ranks(m) \ Ranks(k)
        /\ Len(p) < size => Ranks(m) = Shown
        /\ pc' = IF LastPage(p) THEN "done" ELSE "ask"
        /\ pc' = "ask" => Passed' = m
  BY FetchPage
<1> DEFINE P == ToSet(p)
<1>2. /\ pc = "fetch" /\ Walking /\ plan' = plan /\ rows' = rows /\ now' = now
      /\ began' = began /\ touched' = touched
  BY DEF Fetch, Walking, table, call, since
<1>3. /\ got \in Seq(Nat) /\ arrivals \in Nat /\ departures \in Nat
      /\ k \in Nat /\ m \in Nat /\ k + size = m /\ size \in Nat \ {0}
  BY <1>2, GotCounts
<1>4. /\ Shown \subseteq Current /\ Current \subseteq DOMAIN rows
      /\ IsFiniteSet(Shown) /\ IsFiniteSet(Current) /\ StrictOrder(R, Shown)
      /\ StrictOrder(R, Current)
  <2>1. Listed(rows, now) = Current
    BY PlanOfOne DEF Current
  <2>2. rows \in Seq(Row) /\ Distinct(plan[1], rows) /\ plan[1] \in Listings
    BY PlanOfOne DEF Typed, TypeOK
  <2>3. Current \subseteq DOMAIN rows
    BY <2>1, ShownListed
  <2>4. StrictOrder(R, Current)
    BY <2>2, <2>3, OrderStrict
  <2>5. QED
    BY <2>1, <2>4, ShownListed
<1>5. ToSet(got') = G \cup P
  <2>1. /\ Len(p) \in Nat /\ p \in [1 .. Len(p) -> Shown]
    BY LenProperties
  <2>2. DOMAIN rows \subseteq Nat
    BY DEF Typed, TypeOK
  <2>3. p \in [1 .. Len(p) -> Nat]
    BY <1>4, <2>1, <2>2
  <2>4. p \in Seq(Nat)
    BY <2>1, <2>3, IsASeq
  <2>5. Range(got \o p) = Range(got) \cup Range(p)
    BY <1>3, <2>4, RangeConcatenation
  <2>6. QED
    BY <1>1, <2>5 DEF ToSet, Range
<1>6. Missed = W \ G /\ Missed' = (W \ G) \ P
  <2>1. Missed' = W \ ToSet(got')
    BY <1>2 DEF Missed
  <2>2. QED
    BY <1>5, <2>1 DEF Missed
<1>7. /\ W \subseteq Shown
      /\ stop = "count" => Cardinality(Current) <= total + arrivals
      /\ Cardinality(Missed \cap Ranks(k)) <= departures
  BY <1>2 DEF MissesAccounted
<1>8. P = Ranks(m) \ Ranks(k)
  BY <1>1 DEF P
<1> HIDE DEF P, R, k, m, G, W
<1>9. IsFiniteSet(Missed \cap Ranks(k)) /\ Cardinality(Missed \cap Ranks(k)) \in Nat
  <2>1. Missed \cap Ranks(k) \subseteq Shown
    BY <1>6, <1>7
  <2>2. QED
    BY <1>4, <2>1, FS_Subset, FS_CardinalityType
<1>10. ASSUME pc' = "ask"
       PROVE  Cardinality(Missed' \cap (Ranks(Passed))') <= departures
  <2>1. Shown' = Current
    BY <1>2, <1>10 DEF Shown, Current
  <2>2. (Ranks(Passed))' = First(R, Current, m)
    BY <1>1, <1>2, <1>10, <2>1 DEF Ranks, R, m
  <2>3. First(R, Current, m) \cap Shown \subseteq First(R, Shown, m)
    BY <1>3, <1>4, RankShifts
  <2>4. First(R, Shown, m) = Ranks(m)
    BY DEF Ranks, R
  <2>5. Missed' \cap (Ranks(Passed))' \subseteq Missed \cap Ranks(k)
    BY <1>6, <1>7, <1>8, <2>2, <2>3, <2>4
  <2>6. Cardinality(Missed' \cap (Ranks(Passed))') <= Cardinality(Missed \cap Ranks(k))
    BY <1>9, <2>5, FS_Subset
  <2>7. Cardinality(Missed' \cap (Ranks(Passed))') \in Nat
    BY <1>9, <2>5, FS_Subset, FS_CardinalityType
  <2>8. QED
    BY <1>3, <1>7, <1>9, <2>6, <2>7
<1>11. Missed' \subseteq (Missed \cap Ranks(k)) \cup (Shown \ Ranks(m))
  BY <1>6, <1>7, <1>8
<1>12. /\ IsFiniteSet(Shown \ Ranks(m)) /\ Cardinality(Shown \ Ranks(m)) \in Nat
       /\ Cardinality(Missed') <= Cardinality(Missed \cap Ranks(k)) + Cardinality(Shown \ Ranks(m))
       /\ Cardinality(Missed') \in Nat
  <2> DEFINE A == Missed \cap Ranks(k)
             B == Shown \ Ranks(m)
  <2>1. IsFiniteSet(A) /\ IsFiniteSet(B) /\ Missed' \subseteq A \cup B
    BY <1>4, <1>9, <1>11, FS_Difference
  <2> HIDE DEF A, B
  <2>2. IsFiniteSet(A \cup B)
        /\ Cardinality(A \cup B) = Cardinality(A) + Cardinality(B) - Cardinality(A \cap B)
    BY <2>1, FS_Union
  <2>3. Cardinality(A) \in Nat /\ Cardinality(B) \in Nat /\ Cardinality(A \cap B) \in Nat
    BY <2>1, FS_Intersection, FS_CardinalityType
  <2>4. IsFiniteSet(Missed') /\ Cardinality(Missed') <= Cardinality(A \cup B)
    BY <2>1, <2>2, FS_Subset
  <2>5. Cardinality(Missed') \in Nat
    BY <2>4, FS_CardinalityType
  <2>6. Cardinality(Missed') <= Cardinality(A) + Cardinality(B)
    BY <2>2, <2>3, <2>4, <2>5
  <2>7. QED
    BY <2>1, <2>3, <2>5, <2>6 DEF A, B
<1>13. ASSUME pc' = "done"
       PROVE  Cardinality(Missed') <= departures + (IF stop = "count" THEN arrivals ELSE 0)
  <2>1. LastPage(p) /\ stop \in {"short", "count"}
    BY <1>1, <1>13, StopsAssumption DEF Typed, TypeOK
  <2>2. CASE stop = "short"
    <3>1. Ranks(m) = Shown
      BY <1>1, <2>1, <2>2 DEF LastPage, m
    <3>2. Shown \ Ranks(m) = {}
      BY <3>1
    <3>3. Cardinality(Shown \ Ranks(m)) = 0
      BY <3>2, FS_EmptySet
    <3>4. QED
      BY <1>3, <1>7, <1>9, <1>12, <2>2, <3>3
  <2>3. CASE stop = "count"
    <3> DEFINE c == Cardinality(Shown)
               d == Cardinality(Current)
               f == Cardinality(Ranks(m))
               e == Cardinality(Shown \ Ranks(m))
    <3>1. m >= total /\ total \in Nat
      BY <2>1, <2>3 DEF LastPage, m, Typed, TypeOK
    <3>2. c <= d /\ c \in Nat /\ d \in Nat
      BY <1>4, FS_Subset, FS_CardinalityType
    <3>3. /\ IsFiniteSet(First(R, Shown, m))
          /\ Cardinality(First(R, Shown, m)) = IF m <= Cardinality(Shown) THEN m ELSE Cardinality(Shown)
      BY <1>3, <1>4, FirstSize
    <3>4. Ranks(m) = First(R, Shown, m) /\ Shown \cap Ranks(m) = Ranks(m)
      BY DEF Ranks, First, R
    <3>5. e = c - f
      <4>1. e = c - Cardinality(Shown \cap Ranks(m))
        BY <1>4, FS_Difference
      <4>2. QED
        BY <3>4, <4>1
    <3>6. f = IF m <= c THEN m ELSE c
      BY <3>3, <3>4
    <3>7. d <= total + arrivals
      BY <1>7, <2>3
    <3> HIDE DEF c, d, e, f
    <3>8. e <= arrivals
      BY <1>3, <3>1, <3>2, <3>5, <3>6, <3>7
    <3>9. Cardinality(Shown \ Ranks(m)) <= arrivals
      BY <3>8 DEF e
    <3>10. QED
      BY <1>3, <1>7, <1>9, <1>12, <2>3, <3>9
  <2>4. QED
    BY <2>1, <2>2, <2>3
<1>14. QED
  BY <1>10, <1>13

\* What leaves pulls rows forward, one each, and what comes none.
LEMMA AsideMisses ==
  ASSUME Typed, Next, Aside, MissesAccounted, Walking, Len(plan) = 1
  PROVE  /\ began' \ touched' \subseteq Shown'
         /\ stop = "count" => Cardinality(Current') <= total + arrivals'
         /\ Ordered' => Cardinality(Missed' \cap (Ranks(Passed))') <= departures'
<1> DEFINE R == Order(plan[1], rows)
           Q == Order(plan[1], rows')
           k == Passed
           C == Common
           T == Shown'
           W == began \ touched
<1>1. /\ plan' = plan /\ got' = got /\ page' = page /\ size' = size
  BY DEF Aside, walk, call
<1>2. /\ arrivals \in Nat /\ departures \in Nat /\ k \in Nat
  BY GotCounts
<1>3. /\ touched' = touched \cup Left /\ began' = began
      /\ departures' = departures + Cardinality(Left)
      /\ arrivals' = arrivals + Cardinality(Came)
      /\ IsFiniteSet(Left) /\ IsFiniteSet(Came)
      /\ Cardinality(Left) \in Nat /\ Cardinality(Came) \in Nat
      /\ Shown \ C \subseteq Left /\ T \ C \subseteq Came
      /\ First(Q, C, k) = First(R, C, k)
  BY AsideSets
<1>4. Listed(rows, now) = Current /\ Listed(rows', now') = Current'
  BY <1>1, PlanOfOne DEF Current
<1>5. IsFiniteSet(Shown) /\ IsFiniteSet(Current) /\ C \subseteq Shown /\ C \subseteq T
  BY <1>4, ShownListed DEF Common
<1>6. /\ W \subseteq Shown
      /\ stop = "count" => Cardinality(Current) <= total + arrivals
      /\ Ordered => Cardinality(Missed \cap Ranks(k)) <= departures
  BY DEF MissesAccounted
<1>7. began' \ touched' = W \ Left /\ W \ Left \subseteq C /\ Missed' = Missed \ Left
  BY <1>1, <1>3, <1>6 DEF Missed
<1>8. ASSUME stop = "count"
      PROVE  Cardinality(Current') <= total + arrivals'
  <2> DEFINE D == Current'
             c == Cardinality(Current)
             d == Cardinality(Came)
             b == Cardinality(Current \cap Came)
  <2>1. D \subseteq Current \cup Came
    BY <1>4 DEF Came
  <2> HIDE DEF D
  <2>2. IsFiniteSet(Current \cup Came) /\ Cardinality(Current \cup Came) = c + d - b
    BY <1>3, <1>5, FS_Union
  <2>3. c \in Nat /\ b \in Nat /\ d \in Nat
    BY <1>3, <1>5, FS_Intersection, FS_CardinalityType
  <2>4. IsFiniteSet(D) /\ Cardinality(D) <= Cardinality(Current \cup Came)
    BY <2>1, <2>2, FS_Subset
  <2>5. Cardinality(D) \in Nat
    BY <2>4, FS_CardinalityType
  <2>6. arrivals' = arrivals + d /\ c <= total + arrivals /\ total \in Nat
    BY <1>3, <1>6, <1>8 DEF Typed, TypeOK
  <2> HIDE DEF b, c, d
  <2>7. Cardinality(D) <= total + arrivals'
    BY <1>2, <2>2, <2>3, <2>4, <2>5, <2>6
  <2>8. QED
    BY <2>7 DEF D
<1>9. ASSUME Ordered'
      PROVE  Cardinality(Missed' \cap (Ranks(Passed))') <= departures'
  <2>1. Ordered /\ StrictOrder(R, Shown) /\ StrictOrder(Q, T)
    BY <1>9, AsideOrder
  <2>2. (Ranks(Passed))' = First(Q, T, k)
    BY <1>1 DEF Ranks, Passed
  <2>3. IsFiniteSet(T)
    <3> HIDE DEF C, T
    <3>1. T \subseteq C \cup Came /\ IsFiniteSet(C)
      BY <1>3, <1>5, FS_Subset
    <3>2. IsFiniteSet(C \cup Came)
      BY <1>3, <3>1, FS_Union
    <3>3. QED
      BY <3>1, <3>2, FS_Subset
  <2>4. Missed' \subseteq C
    BY <1>7 DEF Missed
  <2> DEFINE V == Missed'
  <2> HIDE DEF C, T, R, Q, k, V
  <2>5. First(Q, T, k) \cap C \subseteq First(Q, C, k)
    BY <1>2, <1>5, <2>1, <2>3, RankShifts
  <2>6. First(Q, C, k) = First(R, C, k)
    BY <1>3 DEF C, Q, R, k
  <2>7. /\ Cardinality(V \cap First(R, C, k)) \in Nat
        /\ Cardinality(V \cap First(R, Shown, k)) \in Nat
        /\ Cardinality(Shown \ C) \in Nat
        /\ Cardinality(V \cap First(R, C, k)) <= Cardinality(V \cap First(R, Shown, k)) + Cardinality(Shown \ C)
    BY <1>2, <1>5, <2>1, AmongAfterRemove
  <2>8. V \cap First(Q, T, k) \subseteq V \cap First(R, C, k)
    BY <2>4, <2>5, <2>6 DEF V
  <2>9. /\ V \cap First(R, Shown, k) \subseteq Missed \cap Ranks(k)
        /\ Missed \cap Ranks(k) \subseteq Shown
    BY <1>6, <1>7 DEF V, Ranks, R, Missed
  <2> DEFINE X == V \cap First(Q, T, k)
             Y == V \cap First(R, C, k)
             Z == V \cap First(R, Shown, k)
             U == Missed \cap Ranks(k)
  <2>10. IsFiniteSet(U) /\ Cardinality(U) \in Nat /\ Cardinality(Z) <= Cardinality(U)
    <3>1. Z \subseteq U /\ U \subseteq Shown
      BY <2>9
    <3> HIDE DEF Z, U
    <3>2. QED
      BY <1>5, <3>1, FS_Subset, FS_CardinalityType
  <2>11. IsFiniteSet(Y) /\ Cardinality(X) <= Cardinality(Y) /\ Cardinality(X) \in Nat
    <3>1. Y \subseteq Shown /\ X \subseteq Y
      BY <1>5, <2>8 DEF First
    <3> HIDE DEF X, Y
    <3>2. IsFiniteSet(Y) /\ IsFiniteSet(X)
      BY <1>5, <3>1, FS_Subset
    <3>3. QED
      BY <3>1, <3>2, FS_Subset, FS_CardinalityType
  <2>12. Cardinality(Shown \ C) <= Cardinality(Left)
    BY <1>3, FS_Subset DEF C
  <2>13. Cardinality(U) <= departures /\ departures' = departures + Cardinality(Left)
    BY <1>3, <1>6, <2>1
  <2>14. /\ Cardinality(Y) \in Nat /\ Cardinality(Z) \in Nat /\ Cardinality(Shown \ C) \in Nat
         /\ Cardinality(Y) <= Cardinality(Z) + Cardinality(Shown \ C)
    BY <2>7
  <2> HIDE DEF X, Y, Z, U
  <2>15. Cardinality(X) <= departures'
    BY <1>2, <1>3, <2>10, <2>11, <2>12, <2>13, <2>14
  <2>16. QED
    BY <2>2, <2>15 DEF X, V
<1>10. began' \ touched' \subseteq Shown'
  BY <1>5, <1>7
<1>11. QED
  BY <1>8, <1>9, <1>10

\* Misses stay accounted for.
LEMMA MissesStep ==
  ASSUME Typed, MissesAccounted, [Next]_vars
  PROVE  MissesAccounted'
<1> SUFFICES ASSUME Len(plan') = 1
             PROVE  /\ Walking' =>
                         /\ began' \ touched' \subseteq Shown'
                         /\ stop' = "count" => Cardinality(Current') <= total' + arrivals'
                         /\ Ordered' => Cardinality(Missed' \cap (Ranks(Passed))') <= departures'
                    /\ pc' = "done" /\ Ordered' =>
                         Cardinality(Missed') <= departures' + (IF stop' = "count" THEN arrivals' ELSE 0)
  BY DEF MissesAccounted
<1>1. CASE Next
  <2>1. Begin \/ Ask \/ Fetch \/ Aside
    BY <1>1, Steps
  <2>2. CASE Begin
    <3>1. /\ pc = "idle" /\ pc' = "ask" /\ rows' = rows /\ now' = now /\ plan' = plan
          /\ stop' = stop /\ size' = size /\ page' = 1 /\ got' = got
          /\ began' = Listed(rows, now) /\ touched' = {} /\ departures' = 0 /\ arrivals' = 0
          /\ total' = Cardinality(Members(Head(plan), rows, now))
      BY <2>2 DEF Begin, Typed, Shape, table, call
    <3>2. Current' = Current /\ Shown' = Current /\ Current = Listed(rows, now)
          /\ total' = Cardinality(Current)
      BY <3>1, PlanOfOne DEF Shown, Current
    <3>3. IsFiniteSet(Current) /\ Cardinality(Current) \in Nat
      BY <3>1, <3>2, ShownListed, FS_CardinalityType
    <3>4. Passed' = 0
      <4>1. size \in Nat
        BY BoundsAssumption DEF Typed, TypeOK
      <4>2. QED
        BY <3>1, <4>1 DEF Passed
    <3>5. ASSUME Ordered'
          PROVE  Cardinality(Missed' \cap (Ranks(Passed))') <= departures'
      <4> DEFINE R == Order(plan[1], rows)
      <4>1. Ordered
        BY <3>1, <3>5 DEF Ordered
      <4>2. StrictOrder(R, Current)
        <5>1. Shown = Current
          BY <3>1 DEF Shown, Current
        <5>2. QED
          BY <3>1, <4>1, <5>1, ShownListed
      <4>3. (Ranks(Passed))' = First(R, Current, 0)
        BY <3>1, <3>2, <3>4 DEF Ranks
      <4> HIDE DEF R
      <4>4. \A i \in Current : Rank(R, Current, i) \in Nat
        BY <3>3, <4>2, RankType
      <4>5. First(R, Current, 0) = {}
        BY <4>4 DEF First
      <4>6. Missed' \cap (Ranks(Passed))' = {}
        BY <4>3, <4>5
      <4>7. Cardinality(Missed' \cap (Ranks(Passed))') = 0
        BY <4>6, FS_EmptySet
      <4>8. QED
        BY <3>1, <4>7
    <3>6. Cardinality(Current') <= total' + arrivals'
      BY <3>1, <3>2, <3>3
    <3>7. QED
      BY <3>1, <3>2, <3>5, <3>6
  <2>3. CASE Ask
    <3>1. /\ pc = "ask" /\ pc' = "fetch" /\ at' = now /\ now' = now /\ rows' = rows /\ plan' = plan
          /\ got' = got /\ page' = page /\ size' = size /\ stop' = stop /\ total' = total
          /\ began' = began /\ touched' = touched /\ arrivals' = arrivals /\ departures' = departures
      BY <2>3 DEF Ask, table, call, since
    <3>2. /\ Shown' = Shown /\ Current' = Current /\ Missed' = Missed /\ (Ordered' <=> Ordered)
          /\ Walking
      BY <3>1 DEF Shown, Current, Missed, Ordered, Walking
    <3>3. (Ranks(Passed))' = Ranks(Passed)
      BY <3>1, <3>2 DEF Ranks, Passed
    <3>4. QED
      BY <3>1, <3>2, <3>3 DEF MissesAccounted
  <2>4. CASE Fetch
    <3>1. /\ pc = "fetch" /\ Len(plan) = 1 /\ rows' = rows /\ now' = now /\ plan' = plan /\ stop' = stop
          /\ total' = total /\ began' = began /\ touched' = touched
          /\ arrivals' = arrivals /\ departures' = departures /\ (Ordered' <=> Ordered)
      BY <2>4 DEF Fetch, table, call, since, Ordered
    <3>2. began \ touched \subseteq Shown
          /\ (stop = "count" => Cardinality(Current) <= total + arrivals)
      BY <3>1 DEF MissesAccounted, Walking
    <3>3. CASE pc' = "ask"
      <4>1. Shown' = Current /\ Current' = Current /\ Shown \subseteq Current
        <5>1. Listed(rows, now) = Current
          BY <3>1, PlanOfOne DEF Current
        <5>2. QED
          BY <3>1, <3>3, <5>1, ShownListed DEF Shown, Current
      <4>2. Ordered' => Cardinality(Missed' \cap (Ranks(Passed))') <= departures'
        BY <2>4, <3>1, <3>3, FetchMisses
      <4>3. began' \ touched' \subseteq Shown'
        BY <3>1, <3>2, <4>1
      <4>4. stop' = "count" => Cardinality(Current') <= total' + arrivals'
        BY <3>1, <3>2, <4>1
      <4>5. QED
        BY <3>3, <4>2, <4>3, <4>4
    <3>4. CASE pc' = "done"
      BY <2>4, <3>1, <3>4, FetchMisses DEF Walking
    <3>5. QED
      BY <2>4, <3>3, <3>4 DEF Fetch
  <2>5. CASE Aside
    <3>1. Len(plan) = 1 /\ pc' = pc /\ pc # "done" /\ stop' = stop /\ total' = total
      BY <2>5 DEF Aside, walk, call
    <3>2. CASE Walking
      BY <1>1, <2>5, <3>1, <3>2, AsideMisses
    <3>3. CASE ~Walking
      BY <3>1, <3>3 DEF Walking
    <3>4. QED
      BY <3>2, <3>3
  <2>6. QED
    BY <2>1, <2>2, <2>3, <2>4, <2>5
<1>2. CASE UNCHANGED vars
  <2>1. /\ pc' = pc /\ plan' = plan /\ rows' = rows /\ now' = now /\ at' = at /\ got' = got
        /\ page' = page /\ size' = size /\ stop' = stop /\ total' = total
        /\ began' = began /\ touched' = touched /\ arrivals' = arrivals /\ departures' = departures
    BY <1>2 DEF vars, table, walk, call, since
  <2>2. /\ Shown' = Shown /\ Current' = Current /\ Missed' = Missed /\ (Ordered' <=> Ordered)
        /\ (Walking' <=> Walking)
    BY <2>1 DEF Shown, Current, Missed, Ordered, Walking
  <2>3. (Ranks(Passed))' = Ranks(Passed)
    BY <2>1, <2>2 DEF Ranks, Passed
  <2>4. QED
    BY <2>1, <2>2, <2>3 DEF MissesAccounted
<1>3. QED
  BY <1>1, <1>2

\* Through one totally ordered listing a client that pages to a short page misses at
\* most one untouched row for every row that leaves, and one that trusts the count as
\* many more as came in: WalkMissesFew.
THEOREM WalkMissesFewTheorem == Spec => []WalkMissesFew
<1>1. Init => Typed /\ MissesAccounted
  <2>1. Init => MissesAccounted
    BY DEF Init, MissesAccounted, Walking
  <2>2. QED
    BY <2>1, TypedInit
<1>2. Typed /\ MissesAccounted /\ [Next]_vars => (Typed /\ MissesAccounted)'
  BY TypedStep, MissesStep
<1>3. MissesAccounted => WalkMissesFew
  BY DEF MissesAccounted, WalkMissesFew
<1>4. QED
  BY <1>1, <1>2, <1>3, PTL DEF Spec

-----------------------------------------------------------------------------
(* What a walk of the in-app listing misses *)

\* Nothing leaves the in-app listing.
InAppKept == plan = <<"in_app">> => departures = 0 /\ touched = {}

\* Whatever others do.
LEMMA InAppStep ==
  ASSUME Typed, InAppKept, [Next]_vars
  PROVE  InAppKept'
<1> SUFFICES ASSUME plan' = <<"in_app">>
             PROVE  departures' = 0 /\ touched' = {}
  BY DEF InAppKept
<1>1. CASE Next
  <2>1. Begin \/ Ask \/ Fetch \/ Aside
    BY <1>1, Steps
  <2>2. plan' = plan
    BY <2>1 DEF Begin, Ask, Fetch, Aside, call, walk
  <2>3. departures = 0 /\ touched = {}
    BY <2>2 DEF InAppKept
  <2>4. CASE Begin \/ Ask \/ Fetch
    BY <2>3, <2>4 DEF Begin, Ask, Fetch, since
  <2>5. CASE Aside /\ ~Walking
    BY <2>3, <2>5 DEF Aside, Noted, Walking, since, Typed, TypeOK
  <2>6. CASE Aside /\ Walking
    <3>1. Len(plan) = 1 /\ plan[1] = "in_app"
      BY <2>2
    <3>2. \A rs, t : Listed(rs, t) = Members("in_app", rs, t)
      BY <3>1, PlanOfOne
    <3>3. \A rs, t : Members("in_app", rs, t) = {i \in DOMAIN rs : rs[i].status \in {"SENT", "READ"}}
      BY DEF Members
    <3>4. Left = {}
      <4>1. ASSUME NEW i \in Listed(rows, now)
            PROVE  i \in Listed(rows', now') /\ rows'[i].send_after = rows[i].send_after
        <5>1. i \in DOMAIN rows /\ rows[i].status \in {"SENT", "READ"}
          BY <3>2, <3>3, <4>1
        <5>2. i \in DOMAIN rows' /\ rows'[i].status \in {"SENT", "READ"}
              /\ rows'[i].send_after = rows[i].send_after
          BY <1>1, <5>1, RowsStep
        <5>3. QED
          BY <3>2, <3>3, <5>2
      <4>2. QED
        BY <4>1 DEF Left, Moved
    <3>5. touched' = touched \cup Left /\ departures' = departures + Cardinality(Left)
      BY <1>1, <2>6, <3>1, AsideSets
    <3>6. Cardinality(Left) = 0
      BY <3>4, FS_EmptySet
    <3>7. QED
      BY <2>3, <3>4, <3>5, <3>6
  <2>7. QED
    BY <2>1, <2>4, <2>5, <2>6
<1>2. CASE UNCHANGED vars
  BY <1>2 DEF vars, walk, call, since, InAppKept
<1>3. QED
  BY <1>1, <1>2

\* A walk of the in-app listing to a short page shows everything that was in it at
\* first, whatever is sent, read and rescheduled: InAppWalkMissesNothing.
THEOREM InAppWalkTheorem == Spec => []InAppWalkMissesNothing
<1>1. Init => Typed /\ MissesAccounted /\ InAppKept
  <2>1. Init => MissesAccounted
    BY DEF Init, MissesAccounted, Walking
  <2>2. Init => InAppKept
    BY DEF Init, InAppKept
  <2>3. QED
    BY <2>1, <2>2, TypedInit
<1>2. Typed /\ MissesAccounted /\ InAppKept /\ [Next]_vars => (Typed /\ MissesAccounted /\ InAppKept)'
  BY TypedStep, MissesStep, InAppStep
<1>3. Typed /\ MissesAccounted /\ InAppKept => InAppWalkMissesNothing
  <2> SUFFICES ASSUME Typed, MissesAccounted, InAppKept, pc = "done", stop = "short", plan = <<"in_app">>
               PROVE  began \subseteq ToSet(got)
    BY DEF InAppWalkMissesNothing
  <2>1. Len(plan) = 1 /\ plan[1] = "in_app"
    OBVIOUS
  <2>2. ToSet(plan) = {"in_app"}
    BY <2>1 DEF ToSet
  <2>3. Ordered
    BY <2>2 DEF Ordered
  <2>4. departures = 0 /\ touched = {}
    BY DEF InAppKept
  <2>5. Cardinality(Missed) <= 0
    BY <2>1, <2>3, <2>4 DEF MissesAccounted
  <2>6. rows \in Seq(Row) /\ Missed \subseteq DOMAIN rows
    BY DEF Typed, TypeOK, Missed
  <2>7. IsFiniteSet(Missed) /\ Cardinality(Missed) \in Nat
    BY <2>6, RowsCount
  <2>8. Cardinality(Missed) = 0
    BY <2>5, <2>7
  <2>9. Missed = {}
    BY <2>7, <2>8, FS_EmptySet
  <2>10. QED
    BY <2>4, <2>9 DEF Missed
<1>4. QED
  BY <1>1, <1>2, <1>3, PTL DEF Spec

-----------------------------------------------------------------------------
(* What a schedule misses *)

\* A client that asks for all pending rows and then for all future ones.
Scheduling == plan = <<"pending", "future">> /\ size > MaxRows

\* The rows nobody touched stay in one of the two, and those that the first did not
\* show have a send_after.
ScheduleKept ==
  Scheduling =>
    /\ Walking => page = 1 /\ began \ touched \subseteq Listed(rows, now)
    /\ Walking /\ leg = 2 => \A i \in Missed : rows[i].send_after # NULL
    /\ pc = "done" => Missed = {}

\* The two listings have the rows that are to be sent.
LEMMA PlanOfTwo ==
  ASSUME plan = <<"pending", "future">>
  PROVE  /\ Len(plan) = 2 /\ plan[1] = "pending" /\ plan[2] = "future"
         /\ \A rs, t, i : i \in Listed(rs, t) => i \in DOMAIN rs /\ rs[i].status = "PENDING_SEND"
<1>1. Len(plan) = 2 /\ plan[1] = "pending" /\ plan[2] = "future"
  OBVIOUS
<1>2. ToSet(plan) \subseteq {"pending", "future"}
  BY <1>1 DEF ToSet
<1>3. QED
  BY <1>1, <1>2 DEF Listed, Members

\* A query returns all rows that it filters.
LEMMA ResultsAll ==
  ASSUME NEW l, NEW rs \in Seq(Row), NEW t, NEW s \in Results(l, rs, t)
  PROVE  s \in Seq(DOMAIN rs) /\ Len(s) = Cardinality(Members(l, rs, t)) /\ ToSet(s) = Members(l, rs, t)
<1> DEFINE M == Members(l, rs, t)
           c == Cardinality(M)
<1>1. s \in [1 .. c -> M] /\ \A m, n \in 1 .. c : m # n => s[m] # s[n]
  BY DEF Results, SetToSeqs
<1>2. M \subseteq DOMAIN rs /\ IsFiniteSet(M) /\ c \in Nat
  BY MembersAreRows, RowsCount
<1> HIDE DEF M
<1>3. IsFiniteSet(1 .. c) /\ Cardinality(1 .. c) = c
  <2> HIDE DEF c
  <2>1. Cardinality(1 .. c) = IF 1 > c THEN 0 ELSE c - 1 + 1
    BY <1>2, FS_Interval
  <2>2. QED
    BY <1>2, <2>1, FS_Interval
<1>4. s \in Injection(1 .. c, M)
  BY <1>1, Fun_IsInj
<1>5. s \in Surjection(1 .. c, M)
  BY <1>2, <1>3, <1>4, FS_Injection
<1>6. \A i \in M : \E n \in 1 .. c : s[n] = i
  BY <1>5 DEF Surjection
<1>7. DOMAIN s = 1 .. c
  BY <1>1
<1>8. ToSet(s) = M
  BY <1>1, <1>6, <1>7 DEF ToSet
<1>9. s \in Seq(DOMAIN rs) /\ Len(s) = c
  BY <1>1, <1>2, IsASeq, LenProperties
<1>10. QED
  BY <1>8, <1>9 DEF M, c

\* A page as large as this has all of them, and is the last.
LEMMA FetchAll ==
  ASSUME Typed, ScheduleKept, Scheduling, Fetch
  PROVE  /\ ToSet(got') = ToSet(got) \cup Members(plan[leg], rows, at)
         /\ page' = 1 /\ leg' = leg + 1
<1>1. /\ pc = "fetch" /\ page = 1 /\ size \in Nat /\ rows \in Seq(Row) /\ got \in Seq(Nat)
      /\ MaxRows \in Nat \ {0} /\ Len(rows) <= MaxRows /\ size > MaxRows
      /\ total \in 0 .. MaxRows /\ stop \in {"short", "count"}
  BY BoundsAssumption, StopsAssumption DEF Fetch, Typed, TypeOK, ScheduleKept, Walking, Scheduling
<1>2. PICK s \in Results(plan[leg], rows, at) :
        /\ got' = got \o Page(s, page)
        /\ page' = IF LastPage(Page(s, page)) THEN 1 ELSE page + 1
        /\ leg' = IF LastPage(Page(s, page)) THEN leg + 1 ELSE leg
  BY DEF Fetch
<1>3. s \in Seq(DOMAIN rows) /\ ToSet(s) = Members(plan[leg], rows, at) /\ Len(s) \in 0 .. MaxRows
  BY <1>1, <1>2, ResultsAll, PageOf
<1>4. Passed = 0
  BY <1>1 DEF Passed
<1>5. Page(s, page) = SubSeq(s, 1, Len(s))
  <2>1. Page(s, page) = SubSeq(s, Passed + 1, IF Passed + size <= Len(s) THEN Passed + size ELSE Len(s))
    BY <1>2, PageOf
  <2>2. ~(Passed + size <= Len(s)) /\ Passed + 1 = 1
    BY <1>1, <1>3, <1>4
  <2>3. QED
    BY <2>1, <2>2
<1>6. SubSeq(s, 1, Len(s)) = s
  BY <1>3
<1>7. LastPage(s)
  <2>1. Len(s) < size /\ page * size >= total
    BY <1>1, <1>3
  <2>2. QED
    BY <2>1 DEF LastPage
<1>8. got' = got \o s /\ page' = 1 /\ leg' = leg + 1
  BY <1>2, <1>5, <1>6, <1>7
<1>9. s \in Seq(Nat)
  <2>1. Len(s) \in Nat /\ s \in [1 .. Len(s) -> DOMAIN rows] /\ DOMAIN rows \subseteq Nat
    BY <1>1, <1>3, LenProperties
  <2>2. s \in [1 .. Len(s) -> Nat]
    BY <2>1
  <2>3. QED
    BY <2>1, <2>2, IsASeq
<1>10. Range(got \o s) = Range(got) \cup Range(s)
  BY <1>1, <1>9, RangeConcatenation
<1>11. ToSet(got') = ToSet(got) \cup ToSet(s)
  BY <1>8, <1>10 DEF ToSet, Range
<1>12. QED
  BY <1>3, <1>8, <1>11

\* A row that nobody touches passes from one listing to the other as it becomes due,
\* never the other way, and the future listing comes last.
LEMMA ScheduleStep ==
  ASSUME Typed, ScheduleKept, [Next]_vars
  PROVE  ScheduleKept'
<1> SUFFICES ASSUME Scheduling'
             PROVE  /\ Walking' => page' = 1 /\ began' \ touched' \subseteq Listed(rows, now)'
                    /\ Walking' /\ leg' = 2 => \A i \in Missed' : rows'[i].send_after # NULL
                    /\ pc' = "done" => Missed' = {}
  BY DEF ScheduleKept
<1>1. CASE Next
  <2>1. Begin \/ Ask \/ Fetch \/ Aside
    BY <1>1, Steps
  <2>2. plan' = plan /\ size' = size /\ Scheduling /\ plan = <<"pending", "future">>
    BY <2>1 DEF Begin, Ask, Fetch, Aside, call, walk, Scheduling
  <2>3. /\ Len(plan) = 2 /\ plan[1] = "pending" /\ plan[2] = "future"
        /\ \A rs, t, i : i \in Listed(rs, t) => i \in DOMAIN rs /\ rs[i].status = "PENDING_SEND"
    BY <2>2, PlanOfTwo
  <2>4. Listed(rows, now)' = Listed(rows', now')
    BY <2>2 DEF Listed
  <2>5. CASE Begin
    <3>1. /\ rows' = rows /\ now' = now /\ page' = 1 /\ leg' = 1 /\ pc' = "ask"
          /\ began' = Listed(rows, now)
      BY <2>5 DEF Begin, Typed, Shape, table
    <3>2. QED
      BY <2>4, <3>1
  <2>6. CASE Ask
    <3>1. /\ pc = "ask" /\ pc' = "fetch" /\ rows' = rows /\ now' = now /\ page' = page /\ leg' = leg
          /\ began' = began /\ touched' = touched /\ got' = got
      BY <2>6 DEF Ask, table, since
    <3>2. Missed' = Missed
      BY <3>1 DEF Missed
    <3>3. QED
      BY <2>2, <2>4, <3>1, <3>2 DEF ScheduleKept, Walking
  <2>7. CASE Fetch
    <3>1. /\ pc = "fetch" /\ rows' = rows /\ now' = now /\ began' = began /\ touched' = touched
          /\ pc' = IF leg' > 2 THEN "done" ELSE "ask"
      BY <2>3, <2>7 DEF Fetch, table, since
    <3>2. /\ ToSet(got') = ToSet(got) \cup Members(plan[leg], rows, at)
          /\ page' = 1 /\ leg' = leg + 1
      BY <2>2, <2>7, FetchAll
    <3>3. leg \in 1 .. 2
      BY <2>3, <3>1 DEF Typed, Shape
    <3>4. began \ touched \subseteq Listed(rows, now)
      BY <2>2, <3>1 DEF ScheduleKept, Walking
    <3>5. Missed' = Missed \ Members(plan[leg], rows, at)
      BY <3>1, <3>2 DEF Missed
    <3>6. ASSUME NEW i \in Missed
          PROVE  i \in DOMAIN rows /\ rows[i].status = "PENDING_SEND"
      BY <2>3, <3>4 DEF Missed
    <3>7. CASE leg = 1
      <4>1. leg' = 2 /\ pc' = "ask"
        BY <3>1, <3>2, <3>7
      <4>2. ASSUME NEW i \in Missed'
            PROVE  rows'[i].send_after # NULL
        <5>1. i \in Missed /\ i \notin Members("pending", rows, at)
          BY <2>3, <3>5, <3>7
        <5>2. QED
          BY <3>1, <3>6, <5>1 DEF Members
      <4>3. QED
        BY <2>4, <3>1, <3>2, <3>4, <4>1, <4>2
    <3>8. CASE leg = 2
      <4>1. leg' = 3 /\ pc' = "done"
        BY <3>1, <3>2, <3>8
      <4>2. ASSUME NEW i \in Missed
            PROVE  i \in Members("future", rows, at)
        <5>1. rows[i].send_after # NULL
          BY <2>2, <3>1, <3>8 DEF ScheduleKept, Walking
        <5>2. QED
          BY <3>6, <5>1 DEF Members
      <4>3. Missed' = {}
        BY <2>3, <3>5, <3>8, <4>2
      <4>4. QED
        BY <4>1, <4>3 DEF Walking
    <3>9. QED
      BY <3>3, <3>7, <3>8
  <2>8. CASE Aside
    <3>1. pc' = pc /\ pc # "done" /\ page' = page /\ leg' = leg /\ got' = got
      BY <2>8 DEF Aside, walk
    <3>2. CASE ~Walking
      BY <3>1, <3>2 DEF Walking
    <3>3. CASE Walking
      <4>1. /\ began' = began
            /\ touched' = touched \cup (Listed(rows, now) \ Listed(rows', now')) \cup Moved
        BY <2>8, <3>3 DEF Aside, Noted, Walking, Moved
      <4>2. page = 1 /\ began \ touched \subseteq Listed(rows, now)
        BY <2>2, <3>3 DEF ScheduleKept
      <4>3. ASSUME NEW i \in began' \ touched'
            PROVE  i \in Listed(rows', now') /\ rows'[i].send_after = rows[i].send_after
        <5>1. i \in Listed(rows, now) /\ i \in Listed(rows', now') /\ i \notin Moved
          BY <4>1, <4>2, <4>3
        <5>2. QED
          BY <5>1 DEF Moved
      <4>4. Missed' \subseteq Missed /\ Missed' \subseteq began' \ touched'
        BY <3>1, <4>1 DEF Missed
      <4>5. leg = 2 => \A i \in Missed : rows[i].send_after # NULL
        BY <2>2, <3>3 DEF ScheduleKept
      <4>6. QED
        BY <2>4, <3>1, <4>2, <4>3, <4>4, <4>5
    <3>4. QED
      BY <3>2, <3>3
  <2>9. QED
    BY <2>1, <2>5, <2>6, <2>7, <2>8
<1>2. CASE UNCHANGED vars
  <2>1. /\ pc' = pc /\ plan' = plan /\ rows' = rows /\ now' = now /\ got' = got /\ leg' = leg
        /\ page' = page /\ size' = size /\ began' = began /\ touched' = touched
    BY <1>2 DEF vars, table, walk, call, since
  <2>2. /\ Missed' = Missed /\ Listed(rows, now)' = Listed(rows, now) /\ (Walking' <=> Walking)
        /\ Scheduling
    BY <2>1 DEF Missed, Listed, Walking, Scheduling
  <2>3. QED
    BY <2>1, <2>2 DEF ScheduleKept
<1>3. QED
  BY <1>1, <1>2

\* Between the pending listing and then the future one no notification that stays
\* pending is lost, although each has a clock of its own: ScheduleMissesNothing.
THEOREM ScheduleTheorem == Spec => []ScheduleMissesNothing
<1>1. Init => Typed /\ ScheduleKept
  <2>1. Init => ScheduleKept
    BY DEF Init, ScheduleKept, Walking
  <2>2. QED
    BY <2>1, TypedInit
<1>2. Typed /\ ScheduleKept /\ [Next]_vars => (Typed /\ ScheduleKept)'
  BY TypedStep, ScheduleStep
<1>3. ScheduleKept => ScheduleMissesNothing
  BY DEF ScheduleKept, Scheduling, ScheduleMissesNothing
<1>4. QED
  BY <1>1, <1>2, <1>3, PTL DEF Spec

==============================================================================
