------------------------ MODULE FilterTranslationProofs ------------------------
(***************************************************************************)
(* For every set of filters, nested to any depth: the Q that               *)
(* _translate_filter makes keeps no row that the reference evaluator       *)
(* rejects, and every row it accepts unless a disjunction dropped an       *)
(* operand.  The invariant speaks of every call on the stack: the Q of     *)
(* the operands done so far is worth what these operands mean to the       *)
(* reference evaluator, so no induction over filters is needed.            *)
(***************************************************************************)
EXTENDS FilterTranslation, TLAPS

-----------------------------------------------------------------------------
(* Queries *)

\* What a Q without conditions is worth.
Sound(q) == q \in Q /\ (q.empty => \A row \in Rows : Keeps(q, row))

\* A record with conditions is a Q, and is worth what its conditions are.
LEMMA ConditionSound ==
  ASSUME NEW sql \in [BOOLEAN -> [Rows -> Truth]]
  PROVE  /\ Sound(Condition(sql)) /\ ~Condition(sql).empty
         /\ Condition(sql).sql = sql
BY DEF Sound, Condition, Q

\* Q() keeps everything.
LEMMA EmptySound ==
  /\ Sound(EmptyQ) /\ EmptyQ.empty
  /\ \A row \in Rows : Keeps(EmptyQ, row)
BY DEF Sound, EmptyQ, Q, Keeps, Truth

\* Comparisons have a truth value.
LEMMA CompareTruth ==
  ASSUME NEW row, NEW field, NEW negated, NEW holds
  PROVE  Compare(row, field, negated, holds) \in Truth
BY DEF Compare, Truth, Bool

\* In, on a row.
LEMMA InWorth ==
  ASSUME NEW field, NEW values
  PROVE  /\ Sound(In(field, values)) /\ ~In(field, values).empty
         /\ \A negated \in BOOLEAN, row \in Rows : In(field, values).sql[negated][row] =
              IF values = {} THEN "false"
              ELSE Compare(row, field, negated, row[field] \in values)
<1> DEFINE sql == [negated \in BOOLEAN |-> [row \in Rows |->
              IF values = {} THEN "false"
              ELSE Compare(row, field, negated, row[field] \in values)]]
<1>1. sql \in [BOOLEAN -> [Rows -> Truth]]
  BY CompareTruth DEF Truth
<1>2. In(field, values) = Condition(sql)
  BY DEF In
<1> QED  BY <1>1, <1>2, ConditionSound

\* Gte, on a row.
LEMMA GteWorth ==
  ASSUME NEW field, NEW bound
  PROVE  /\ Sound(Gte(field, bound)) /\ ~Gte(field, bound).empty
         /\ \A negated \in BOOLEAN, row \in Rows : Gte(field, bound).sql[negated][row] =
              Compare(row, field, negated, row[field] >= bound)
<1> DEFINE sql == [negated \in BOOLEAN |-> [row \in Rows |->
              Compare(row, field, negated, row[field] >= bound)]]
<1>1. sql \in [BOOLEAN -> [Rows -> Truth]]
  BY CompareTruth
<1>2. Gte(field, bound) = Condition(sql)
  BY DEF Gte
<1> QED  BY <1>1, <1>2, ConditionSound

\* Lte, on a row.
LEMMA LteWorth ==
  ASSUME NEW field, NEW bound
  PROVE  /\ Sound(Lte(field, bound)) /\ ~Lte(field, bound).empty
         /\ \A negated \in BOOLEAN, row \in Rows : Lte(field, bound).sql[negated][row] =
              Compare(row, field, negated, row[field] <= bound)
<1> DEFINE sql == [negated \in BOOLEAN |-> [row \in Rows |->
              Compare(row, field, negated, row[field] <= bound)]]
<1>1. sql \in [BOOLEAN -> [Rows -> Truth]]
  BY CompareTruth
<1>2. Lte(field, bound) = Condition(sql)
  BY DEF Lte
<1> QED  BY <1>1, <1>2, ConditionSound

\* The two tests for NULL, on a row.
LEMMA NullWorth ==
  ASSUME NEW field
  PROVE  /\ Sound(IsNull(field)) /\ ~IsNull(field).empty
         /\ Sound(IsNotNull(field)) /\ ~IsNotNull(field).empty
         /\ \A negated \in BOOLEAN, row \in Rows :
              /\ IsNull(field).sql[negated][row] = Bool(row[field] = NULL)
              /\ IsNotNull(field).sql[negated][row] = Bool(row[field] # NULL)
<1> DEFINE sql1 == [negated \in BOOLEAN |-> [row \in Rows |-> Bool(row[field] = NULL)]]
           sql2 == [negated \in BOOLEAN |-> [row \in Rows |-> Bool(row[field] # NULL)]]
<1>1. sql1 \in [BOOLEAN -> [Rows -> Truth]] /\ sql2 \in [BOOLEAN -> [Rows -> Truth]]
  BY DEF Bool, Truth
<1>2. IsNull(field) = Condition(sql1) /\ IsNotNull(field) = Condition(sql2)
  BY DEF IsNull, IsNotNull
<1> QED  BY <1>1, <1>2, ConditionSound

\* Negate, on a row.
LEMMA NegateWorth ==
  ASSUME NEW q \in Q
  PROVE  /\ Sound(Negate(q)) /\ ~Negate(q).empty
         /\ \A negated \in BOOLEAN, row \in Rows :
              Negate(q).sql[negated][row] = Not3(q.sql[~negated][row])
<1> DEFINE sql == [negated \in BOOLEAN |-> [row \in Rows |-> Not3(q.sql[~negated][row])]]
<1>1. sql \in [BOOLEAN -> [Rows -> Truth]]
  BY DEF Not3, Truth
<1>2. Negate(q) = Condition(sql)
  BY DEF Negate
<1> QED  BY <1>1, <1>2, ConditionSound

\* Three-valued conjunction and disjunction of two operands.
LEMMA Three ==
  ASSUME NEW a \in Truth, NEW b \in Truth
  PROVE  /\ And3({a, b}) \in Truth /\ Or3({a, b}) \in Truth
         /\ And3({a, b}) = "true" <=> a = "true" /\ b = "true"
         /\ Or3({a, b}) = "true" <=> a = "true" \/ b = "true"
         /\ And3({a, b}) = "false" <=> a = "false" \/ b = "false"
BY DEF And3, Or3, Truth

\* Both, on a row.
LEMMA BothWorth ==
  ASSUME NEW kind \in {"and", "or"}, NEW p \in Q, NEW q \in Q
  PROVE  /\ Sound(Both(kind, p, q)) /\ ~Both(kind, p, q).empty
         /\ \A negated \in BOOLEAN, row \in Rows : Both(kind, p, q).sql[negated][row] =
              IF kind = "and" THEN And3({p.sql[negated][row], q.sql[negated][row]})
              ELSE Or3({p.sql[negated][row], q.sql[negated][row]})
<1> DEFINE sql == [negated \in BOOLEAN |-> [row \in Rows |->
              IF kind = "and" THEN And3({p.sql[negated][row], q.sql[negated][row]})
              ELSE Or3({p.sql[negated][row], q.sql[negated][row]})]]
<1>1. sql \in [BOOLEAN -> [Rows -> Truth]]
  <2>1. \A negated \in BOOLEAN, row \in Rows :
          p.sql[negated][row] \in Truth /\ q.sql[negated][row] \in Truth
    BY DEF Q
  <2>2. \A negated \in BOOLEAN, row \in Rows :
          /\ And3({p.sql[negated][row], q.sql[negated][row]}) \in Truth
          /\ Or3({p.sql[negated][row], q.sql[negated][row]}) \in Truth
    <3> TAKE negated \in BOOLEAN, row \in Rows
    <3> DEFINE a == p.sql[negated][row]
               b == q.sql[negated][row]
    <3>1. a \in Truth /\ b \in Truth
      BY <2>1
    <3> HIDE DEF a, b
    <3>2. And3({a, b}) \in Truth /\ Or3({a, b}) \in Truth
      BY <3>1, Three
    <3> QED  BY <3>2 DEF a, b
  <2> QED  BY <2>2
<1>2. Both(kind, p, q) = Condition(sql)
  BY DEF Both
<1>3. \A negated \in BOOLEAN, row \in Rows : sql[negated][row] =
        IF kind = "and" THEN And3({p.sql[negated][row], q.sql[negated][row]})
        ELSE Or3({p.sql[negated][row], q.sql[negated][row]})
  OBVIOUS
<1> HIDE DEF sql
<1>4. /\ Sound(Condition(sql)) /\ ~Condition(sql).empty
      /\ Condition(sql).sql = sql
  BY <1>1, ConditionSound
<1> QED  BY <1>2, <1>3, <1>4

\* & keeps what both operands keep; | keeps nothing that neither keeps, and all that
\* either keeps unless just one of them is empty.
LEMMA CombineKeeps ==
  ASSUME NEW p, NEW q, Sound(p), Sound(q), NEW kind \in {"and", "or"}
  PROVE  /\ Sound(Combine(kind, p, q))
         /\ Combine(kind, p, q).empty <=> p.empty /\ q.empty
         /\ \A row \in Rows :
              /\ kind = "and" => (Keeps(Combine(kind, p, q), row) <=> Keeps(p, row) /\ Keeps(q, row))
              /\ kind = "or" => (Keeps(Combine(kind, p, q), row) => Keeps(p, row) \/ Keeps(q, row))
              /\ kind = "or" /\ ~(p.empty <=> ~q.empty) =>
                   (Keeps(p, row) \/ Keeps(q, row) => Keeps(Combine(kind, p, q), row))
<1>1. p \in Q /\ q \in Q /\ p.empty \in BOOLEAN /\ q.empty \in BOOLEAN
  BY DEF Sound, Q
<1>2. CASE p.empty
  <2>1. Combine(kind, p, q) = q
    BY <1>2 DEF Combine
  <2>2. \A row \in Rows : Keeps(p, row)
    BY <1>2 DEF Sound
  <2>3. CASE q.empty
    BY <1>1, <1>2, <2>1, <2>2, <2>3 DEF Sound
  <2>4. CASE ~q.empty
    BY <1>1, <1>2, <2>1, <2>2, <2>4
  <2> QED  BY <2>3, <2>4
<1>3. CASE ~p.empty /\ q.empty
  <2>1. Combine(kind, p, q) = p
    BY <1>3 DEF Combine
  <2>2. \A row \in Rows : Keeps(q, row)
    BY <1>3 DEF Sound
  <2> QED  BY <1>1, <1>3, <2>1, <2>2
<1>4. CASE ~p.empty /\ ~q.empty
  <2>1. Combine(kind, p, q) = Both(kind, p, q)
    BY <1>4 DEF Combine
  <2>2. \A row \in Rows : p.sql[FALSE][row] \in Truth /\ q.sql[FALSE][row] \in Truth
    BY <1>1 DEF Q
  <2>5. p \in Q /\ q \in Q
    BY <1>1
  <2>6. \A negated \in BOOLEAN, r \in Rows : Both(kind, p, q).sql[negated][r] =
              IF kind = "and" THEN And3({p.sql[negated][r], q.sql[negated][r]})
              ELSE Or3({p.sql[negated][r], q.sql[negated][r]})
    BY <2>5, BothWorth
  <2>3. \A row \in Rows :
          /\ kind = "and" => (Keeps(Both(kind, p, q), row) <=> Keeps(p, row) /\ Keeps(q, row))
          /\ kind = "or" => (Keeps(Both(kind, p, q), row) <=> Keeps(p, row) \/ Keeps(q, row))
    <3> TAKE row \in Rows
    <3> DEFINE a == p.sql[FALSE][row]
               b == q.sql[FALSE][row]
    <3>1. a \in Truth /\ b \in Truth
      BY <2>2
    <3>2. Both(kind, p, q).sql[FALSE][row] = IF kind = "and" THEN And3({a, b}) ELSE Or3({a, b})
      <4>1. FALSE \in BOOLEAN /\ row \in Rows
        OBVIOUS
      <4>2. \A negated \in BOOLEAN, r \in Rows : Both(kind, p, q).sql[negated][r] =
              IF kind = "and" THEN And3({p.sql[negated][r], q.sql[negated][r]})
              ELSE Or3({p.sql[negated][r], q.sql[negated][r]})
        BY <2>6
      <4> QED  BY <4>1, <4>2
    <3> HIDE DEF a, b
    <3>3. /\ And3({a, b}) = "true" <=> a = "true" /\ b = "true"
          /\ Or3({a, b}) = "true" <=> a = "true" \/ b = "true"
      BY <3>1, Three
    <3>4. (Keeps(p, row) <=> a = "true") /\ (Keeps(q, row) <=> b = "true")
      BY DEF Keeps, a, b
    <3> QED  BY <3>2, <3>3, <3>4 DEF Keeps
  <2>4. Sound(Both(kind, p, q)) /\ ~Both(kind, p, q).empty
    BY <1>1, BothWorth
  <2> QED  BY <1>1, <1>4, <2>1, <2>3, <2>4
<1> QED  BY <1>1, <1>2, <1>3, <1>4

-----------------------------------------------------------------------------
(* Field filters *)

\* MATCH_NOTHING keeps nothing.
LEMMA NothingSound ==
  /\ Sound(MATCH_NOTHING) /\ ~MATCH_NOTHING.empty
  /\ \A negated \in BOOLEAN, row \in Rows : MATCH_NOTHING.sql[negated][row] = "false"
BY InWorth DEF MATCH_NOTHING

\* What one item asks for, on a row whose column is not NULL.
Matches(item, row) ==
  IF item.shape = "range"
  THEN /\ item.from # NULL => row[item.field] >= item.from
       /\ item.to # NULL => row[item.field] <= item.to
  ELSE row[item.field] \in item.values

\* The Q of a range.
LEMMA DateRangeWorth ==
  ASSUME NEW item, item.shape = "range"
  PROVE  /\ Sound(DateRange(item)) /\ ~DateRange(item).empty
         /\ \A row \in Rows, negated \in BOOLEAN :
              /\ DateRange(item).sql[negated][row] = "true" <=>
                   row[item.field] # NULL /\ Matches(item, row)
              /\ row[item.field] # NULL =>
                   (DateRange(item).sql[negated][row] = "false" <=> ~Matches(item, row))
<1> DEFINE from == Gte(item.field, item.from)
           to == Lte(item.field, item.to)
<1>1. /\ Sound(from) /\ ~from.empty /\ Sound(to) /\ ~to.empty
      /\ from \in Q /\ to \in Q
      /\ EmptyQ.empty
  BY GteWorth, LteWorth, EmptySound DEF Sound
<1>2. \A row \in Rows, negated \in BOOLEAN :
        /\ from.sql[negated][row] = "true" <=> row[item.field] # NULL /\ row[item.field] >= item.from
        /\ row[item.field] # NULL =>
             (from.sql[negated][row] = "false" <=> ~(row[item.field] >= item.from))
  BY GteWorth DEF Compare, Bool
<1>3. \A row \in Rows, negated \in BOOLEAN :
        /\ to.sql[negated][row] = "true" <=> row[item.field] # NULL /\ row[item.field] <= item.to
        /\ row[item.field] # NULL =>
             (to.sql[negated][row] = "false" <=> ~(row[item.field] <= item.to))
  BY LteWorth DEF Compare, Bool
<1>4. CASE item.from = NULL /\ item.to = NULL
  <2>1. DateRange(item) = IsNotNull(item.field)
    BY <1>4 DEF DateRange
  <2> QED  BY <1>4, <2>1, NullWorth DEF Matches, Bool
<1>5. CASE item.from # NULL /\ item.to = NULL
  <2>1. DateRange(item) = from
    BY <1>1, <1>5 DEF DateRange, Combine
  <2> HIDE DEF from
  <2> QED  BY <1>1, <1>2, <1>5, <2>1 DEF Matches
<1>6. CASE item.from = NULL /\ item.to # NULL
  <2>1. DateRange(item) = to
    BY <1>1, <1>6 DEF DateRange, Combine
  <2> HIDE DEF to
  <2> QED  BY <1>1, <1>3, <1>6, <2>1 DEF Matches
<1>7. CASE item.from # NULL /\ item.to # NULL
  <2>1. DateRange(item) = Both("and", from, to)
    BY <1>1, <1>7 DEF DateRange, Combine
  <2> HIDE DEF from, to
  <2>2. Sound(DateRange(item)) /\ ~DateRange(item).empty
    BY <1>1, <2>1, BothWorth
  <2>3. ASSUME NEW row \in Rows, NEW negated \in BOOLEAN
        PROVE  /\ DateRange(item).sql[negated][row] = "true" <=>
                    from.sql[negated][row] = "true" /\ to.sql[negated][row] = "true"
               /\ DateRange(item).sql[negated][row] = "false" <=>
                    from.sql[negated][row] = "false" \/ to.sql[negated][row] = "false"
    <3> DEFINE a == from.sql[negated][row]
               b == to.sql[negated][row]
    <3>1. a \in Truth /\ b \in Truth
      BY <1>1 DEF Q
    <3>2. DateRange(item).sql[negated][row] = And3({a, b})
      <4>1. \A n \in BOOLEAN, r \in Rows : Both("and", from, to).sql[n][r] =
              IF "and" = "and" THEN And3({from.sql[n][r], to.sql[n][r]})
              ELSE Or3({from.sql[n][r], to.sql[n][r]})
        BY <1>1, BothWorth
      <4> QED  BY <2>1, <4>1
    <3> HIDE DEF a, b
    <3>3. /\ And3({a, b}) = "true" <=> a = "true" /\ b = "true"
          /\ And3({a, b}) = "false" <=> a = "false" \/ b = "false"
      BY <3>1, Three
    <3> QED  BY <3>2, <3>3 DEF a, b
  <2> QED  BY <1>2, <1>3, <1>7, <2>2, <2>3 DEF Matches
<1> QED  BY <1>4, <1>5, <1>6, <1>7

\* The Q of an item that fits its field.
LEMMA FittingWorth ==
  ASSUME NEW item, Fits(item)
  PROVE  LET q == FieldLeaf(item).q
         IN /\ Sound(q) /\ ~q.empty /\ FieldLeaf(item).null_field = item.field
            /\ \A row \in Rows, negated \in BOOLEAN :
                 /\ q.sql[negated][row] = "true" <=> row[item.field] # NULL /\ Matches(item, row)
                 /\ row[item.field] # NULL =>
                      (q.sql[negated][row] = "false" <=> ~Matches(item, row))
<1> DEFINE q == FieldLeaf(item).q
<1>1. FieldLeaf(item).null_field = item.field
  BY DEF FieldLeaf
<1>2. CASE item.shape = "range"
  <2>1. q = DateRange(item)
    BY <1>2 DEF FieldLeaf
  <2> HIDE DEF q
  <2> SUFFICES /\ Sound(q) /\ ~q.empty
               /\ \A row \in Rows, negated \in BOOLEAN :
                 /\ q.sql[negated][row] = "true" <=> row[item.field] # NULL /\ Matches(item, row)
                 /\ row[item.field] # NULL =>
                      (q.sql[negated][row] = "false" <=> ~Matches(item, row))
    BY <1>1 DEF q
  <2> QED  BY <1>2, <2>1, DateRangeWorth
<1>3. CASE item.shape # "range"
  <2>1. q = In(item.field, item.values)
    BY <1>3 DEF FieldLeaf
  <2> HIDE DEF q
  <2>2. Sound(q) /\ ~q.empty
    BY <2>1, InWorth
  <2>3. \A row \in Rows, negated \in BOOLEAN : q.sql[negated][row] =
          IF item.values = {} THEN "false"
          ELSE Compare(row, item.field, negated, row[item.field] \in item.values)
    BY <2>1, InWorth
  <2>4. \A row \in Rows, negated \in BOOLEAN :
          /\ q.sql[negated][row] = "true" <=> row[item.field] # NULL /\ Matches(item, row)
          /\ row[item.field] # NULL => (q.sql[negated][row] = "false" <=> ~Matches(item, row))
    BY <1>3, <2>3 DEF Matches, Compare, Bool
  <2> QED  BY <1>1, <2>2, <2>4 DEF q
<1> QED  BY <1>2, <1>3

\* A key of a field filter, negated or not, keeps the rows on which the reference
\* evaluator's item does, or does not, hold.
LEMMA LeafMeans ==
  ASSUME NEW item, NEW negated \in BOOLEAN
  PROVE  /\ Sound(LeafQ(item, negated)) /\ ~LeafQ(item, negated).empty
         /\ \A row \in Rows : Keeps(LeafQ(item, negated), row) <=>
              IF negated THEN ~ItemHolds(item, row) ELSE ItemHolds(item, row)
<1> DEFINE q == FieldLeaf(item).q
<1>1. CASE ~Fits(item)
  <2>1. FieldLeaf(item) = [q |-> MATCH_NOTHING, null_field |-> NULL]
    BY <1>1 DEF FieldLeaf
  <2>2. LeafQ(item, negated) = IF negated THEN Negate(MATCH_NOTHING) ELSE MATCH_NOTHING
    BY <2>1 DEF LeafQ
  <2>3. \A row \in Rows : ~ItemHolds(item, row)
    BY <1>1 DEF ItemHolds
  <2>4. MATCH_NOTHING \in Q
    BY NothingSound DEF Sound
  <2>5. /\ Sound(Negate(MATCH_NOTHING)) /\ ~Negate(MATCH_NOTHING).empty
        /\ \A row \in Rows : Negate(MATCH_NOTHING).sql[FALSE][row] = "true"
    BY <2>4, NothingSound, NegateWorth DEF Not3
  <2> QED  BY <2>2, <2>3, <2>5, NothingSound DEF Keeps
<1>2. CASE Fits(item)
  <2>1. \A row \in Rows : ItemHolds(item, row) <=> row[item.field] # NULL /\ Matches(item, row)
    BY <1>2 DEF ItemHolds, Matches, Fits
  <2>2. item.field # NULL
    BY <1>2, FieldsAssumption DEF Fits
  <2>3. /\ Sound(q) /\ ~q.empty /\ FieldLeaf(item).null_field = item.field
        /\ \A row \in Rows, n \in BOOLEAN :
             /\ q.sql[n][row] = "true" <=> row[item.field] # NULL /\ Matches(item, row)
             /\ row[item.field] # NULL => (q.sql[n][row] = "false" <=> ~Matches(item, row))
    BY <1>2, FittingWorth
  <2>4. LeafQ(item, negated) =
          IF negated THEN Combine("or", Negate(q), IsNull(item.field)) ELSE q
    BY <2>2, <2>3 DEF LeafQ
  <2> HIDE DEF q
  <2>5. CASE ~negated
    BY <2>1, <2>3, <2>4, <2>5 DEF Keeps
  <2>6. CASE negated
    <3>1. /\ Sound(Negate(q)) /\ ~Negate(q).empty
          /\ Sound(IsNull(item.field)) /\ ~IsNull(item.field).empty
      BY <2>3, NegateWorth, NullWorth DEF Sound
    <3>2. \A row \in Rows : Keeps(Negate(q), row) <=> q.sql[TRUE][row] = "false"
      <4> TAKE row \in Rows
      <4>1. q.sql[TRUE][row] \in Truth /\ q \in Q
        BY <2>3 DEF Sound, Q
      <4>2. Negate(q).sql[FALSE][row] = Not3(q.sql[TRUE][row])
        BY <4>1, NegateWorth
      <4> QED  BY <4>1, <4>2 DEF Keeps, Not3, Truth
    <3>3. \A row \in Rows : Keeps(IsNull(item.field), row) <=> row[item.field] = NULL
      BY NullWorth DEF Keeps, Bool
    <3> DEFINE c == Combine("or", Negate(q), IsNull(item.field))
    <3>4. /\ Sound(c) /\ ~c.empty
          /\ \A row \in Rows : Keeps(c, row) <=> Keeps(Negate(q), row) \/ Keeps(IsNull(item.field), row)
      BY <3>1, CombineKeeps
    <3>5. LeafQ(item, negated) = c
      BY <2>4, <2>6
    <3> HIDE DEF c
    <3> QED  BY <2>1, <2>3, <2>6, <3>2, <3>3, <3>4, <3>5
  <2> QED  BY <2>5, <2>6
<1> QED  BY <1>1, <1>2

-----------------------------------------------------------------------------
(* Filters and their operands *)

\* The operands of a filter form a sequence; those of a group are filters.
LEMMA Operands ==
  ASSUME NEW f \in Filters
  PROVE  /\ f.op \in {"and", "or", "not", "fields", "junk"}
         /\ Len(f.operands) \in Nat /\ DOMAIN f.operands = 1 .. Len(f.operands)
         /\ f.operands = <<>> <=> Len(f.operands) = 0
         /\ f.op # "fields" => \A k \in 1 .. Len(f.operands) : f.operands[k] \in Filters
         /\ f.op = "not" => Len(f.operands) = 1
         /\ f.op = "junk" => Len(f.operands) = 0
<1>1. f.op \in {"and", "or", "not", "fields", "junk"}
  BY FiltersAssumption
<1>2. CASE f.op \in {"and", "or", "not"}
  <2>1. f.operands \in Seq(Filters)
    BY <1>2, FiltersAssumption
  <2>2. f.op = "not" => Len(f.operands) = 1
    BY FiltersAssumption
  <2> QED  BY <1>2, <2>1, <2>2
<1>3. CASE f.op = "fields"
  <2>1. f.operands \in Seq(Items)
    BY <1>3, FiltersAssumption
  <2> QED  BY <1>3, <2>1
<1>4. CASE f.op = "junk"
  <2>1. f.operands = <<>>
    BY <1>4, FiltersAssumption
  <2> QED  BY <1>4, <2>1
<1> QED  BY <1>1, <1>2, <1>3, <1>4

\* What the reference evaluator makes of f, negated or not.
Meant(f, negated, row) == IF negated THEN ~Holds(f, row) ELSE Holds(f, row)

\* What it makes of an operand, below the negations above it.
OperandMeant(frame, k, row) ==
  IF Under(frame) THEN ~OperandHolds(frame.f, k, row) ELSE OperandHolds(frame.f, k, row)

\* And of the operands done so far.
DoneMeant(frame, row) ==
  IF Combiner(frame) = "and"
  THEN \A k \in 1 .. frame.done : OperandMeant(frame, k, row)
  ELSE \E k \in 1 .. frame.done : OperandMeant(frame, k, row)

\* A call: a filter, and how far its operands are done.
FrameOK(frame) ==
  /\ frame \in [f: Filters, negated: BOOLEAN, done: Nat, q: Q]
  /\ frame.done <= Len(frame.f.operands)
  /\ Sound(frame.q)

\* Its Q keeps no row that the operands do not accept, and all that they accept.
Tight(frame) ==
  frame.done > 0 => \A row \in Rows : Keeps(frame.q, row) => DoneMeant(frame, row)
Exact(frame) ==
  frame.done > 0 => \A row \in Rows : DoneMeant(frame, row) => Keeps(frame.q, row)

\* The combiner follows De Morgan.
LEMMA CombinerIs ==
  ASSUME NEW frame, frame.negated \in BOOLEAN
  PROVE  /\ Combiner(frame) \in {"and", "or"}
         /\ frame.f.op = "or" => Combiner(frame) = (IF frame.negated THEN "and" ELSE "or")
         /\ frame.f.op # "or" => Combiner(frame) = (IF frame.negated THEN "or" ELSE "and")
BY DEF Combiner

\* A call just made.
LEMMA FrameStarts ==
  ASSUME NEW f \in Filters, NEW negated \in BOOLEAN
  PROVE  /\ FrameOK(Frame(f, negated)) /\ Tight(Frame(f, negated)) /\ Exact(Frame(f, negated))
         /\ Frame(f, negated).f = f /\ Frame(f, negated).negated = negated
<1>1. EmptyQ \in Q /\ Sound(EmptyQ)
  BY EmptySound DEF Sound
<1>2. Len(f.operands) \in Nat
  BY Operands
<1> QED  BY <1>1, <1>2 DEF FrameOK, Tight, Exact, Frame

\* A call that takes the Q of its next operand.
LEMMA GiveFrame ==
  ASSUME NEW frame, FrameOK(frame), frame.done < Len(frame.f.operands), NEW q, Sound(q)
  PROVE  LET next == Give(frame, q)
         IN /\ FrameOK(next)
            /\ next.f = frame.f /\ next.negated = frame.negated
            /\ next.done = frame.done + 1
            /\ next.q = IF frame.done = 0 THEN q ELSE Combine(Combiner(frame), frame.q, q)
<1> DEFINE c == IF frame.done = 0 THEN q ELSE Combine(Combiner(frame), frame.q, q)
<1>1. /\ frame \in [f: Filters, negated: BOOLEAN, done: Nat, q: Q]
      /\ frame.f \in Filters /\ frame.negated \in BOOLEAN /\ frame.done \in Nat
      /\ Len(frame.f.operands) \in Nat
  BY Operands DEF FrameOK
<1>2. Sound(c) /\ c \in Q
  <2>1. Combiner(frame) \in {"and", "or"}
    BY <1>1, CombinerIs
  <2>2. Sound(Combine(Combiner(frame), frame.q, q))
    BY <2>1, CombineKeeps DEF FrameOK
  <2> QED  BY <2>2 DEF Sound
<1>3. Give(frame, q) = [frame EXCEPT !.done = frame.done + 1, !.q = c]
  BY DEF Give
<1> HIDE DEF c
<1>4. /\ Give(frame, q) \in [f: Filters, negated: BOOLEAN, done: Nat, q: Q]
      /\ Give(frame, q).f = frame.f /\ Give(frame, q).negated = frame.negated
      /\ Give(frame, q).done = frame.done + 1 /\ Give(frame, q).q = c
  <2>1. /\ frame.done + 1 \in Nat /\ c \in Q
        /\ frame \in [f: Filters, negated: BOOLEAN, done: Nat, q: Q]
    BY <1>1, <1>2
  <2> DEFINE d == frame.done + 1
  <2> HIDE DEF d
  <2>2. d \in Nat /\ Give(frame, q) = [frame EXCEPT !.done = d, !.q = c]
    BY <1>3, <2>1 DEF d
  <2>3. /\ Give(frame, q) \in [f: Filters, negated: BOOLEAN, done: Nat, q: Q]
        /\ Give(frame, q).f = frame.f /\ Give(frame, q).negated = frame.negated
        /\ Give(frame, q).done = d /\ Give(frame, q).q = c
    BY <2>1, <2>2
  <2> QED  BY <2>3 DEF d
<1>5. FrameOK(Give(frame, q))
  BY <1>1, <1>2, <1>4 DEF FrameOK
<1> QED  BY <1>4, <1>5 DEF c

\* One more operand is done: its Q and the ones before it, combined.
LEMMA GiveMeans ==
  ASSUME NEW frame, FrameOK(frame), frame.done < Len(frame.f.operands), NEW q, Sound(q)
  PROVE  /\ /\ Tight(frame)
            /\ \A row \in Rows : Keeps(q, row) => OperandMeant(frame, frame.done + 1, row)
            => Tight(Give(frame, q))
         /\ /\ Exact(frame) /\ ~Drops(frame, q)
            /\ \A row \in Rows : OperandMeant(frame, frame.done + 1, row) => Keeps(q, row)
            => Exact(Give(frame, q))
<1> DEFINE next == Give(frame, q)
           d == frame.done + 1
<1>1. /\ frame.negated \in BOOLEAN /\ frame.done \in Nat /\ Sound(frame.q)
      /\ Combiner(frame) \in {"and", "or"}
  BY CombinerIs DEF FrameOK
<1>2. /\ next.f = frame.f /\ next.negated = frame.negated /\ next.done = d
      /\ next.q = IF frame.done = 0 THEN q ELSE Combine(Combiner(frame), frame.q, q)
  BY GiveFrame
<1> HIDE DEF next
<1>3. Combiner(next) = Combiner(frame) /\ Under(next) = Under(frame)
  BY <1>2 DEF Combiner, Under
<1>4. \A k, row : OperandMeant(next, k, row) <=> OperandMeant(frame, k, row)
  BY <1>2, <1>3 DEF OperandMeant
<1>5. \A row : DoneMeant(next, row) <=>
        IF Combiner(frame) = "and"
        THEN (\A k \in 1 .. frame.done : OperandMeant(frame, k, row)) /\ OperandMeant(frame, d, row)
        ELSE (\E k \in 1 .. frame.done : OperandMeant(frame, k, row)) \/ OperandMeant(frame, d, row)
  <2>1. 1 .. d = (1 .. frame.done) \cup {d}
    BY <1>1
  <2> HIDE DEF d
  <2> QED  BY <1>2, <1>3, <1>4, <2>1 DEF DoneMeant
<1>6. CASE frame.done = 0
  <2>1. \A row : DoneMeant(next, row) <=> OperandMeant(frame, d, row)
    <3>1. 1 .. frame.done = {}
      BY <1>6
    <3> HIDE DEF d
    <3> QED  BY <1>5, <3>1
  <2> HIDE DEF d
  <2> QED  BY <1>2, <1>6, <2>1 DEF Tight, Exact, next, d
<1>7. CASE frame.done > 0
  <2> DEFINE c == Combine(Combiner(frame), frame.q, q)
  <2>1. next.q = c /\ frame.done # 0
    BY <1>1, <1>2, <1>7
  <2>2. \A row \in Rows :
          /\ Combiner(frame) = "and" => (Keeps(c, row) <=> Keeps(frame.q, row) /\ Keeps(q, row))
          /\ Combiner(frame) = "or" => (Keeps(c, row) => Keeps(frame.q, row) \/ Keeps(q, row))
          /\ Combiner(frame) = "or" /\ ~(frame.q.empty <=> ~q.empty) =>
                   (Keeps(frame.q, row) \/ Keeps(q, row) => Keeps(c, row))
    BY <1>1, CombineKeeps
  <2> HIDE DEF c, d
  <2>3. \A row : DoneMeant(next, row) <=>
          IF Combiner(frame) = "and"
          THEN DoneMeant(frame, row) /\ OperandMeant(frame, d, row)
          ELSE DoneMeant(frame, row) \/ OperandMeant(frame, d, row)
    BY <1>5 DEF DoneMeant
  <2>4. ASSUME Tight(frame), \A row \in Rows : Keeps(q, row) => OperandMeant(frame, d, row)
        PROVE  Tight(next)
    <3>1. \A row \in Rows : Keeps(frame.q, row) => DoneMeant(frame, row)
      BY <1>7, <2>4 DEF Tight
    <3> QED  BY <1>1, <2>1, <2>2, <2>3, <2>4, <3>1 DEF Tight
  <2>5. ASSUME Exact(frame), ~Drops(frame, q),
               \A row \in Rows : OperandMeant(frame, d, row) => Keeps(q, row)
        PROVE  Exact(next)
    <3>1. \A row \in Rows : DoneMeant(frame, row) => Keeps(frame.q, row)
      BY <1>7, <2>5 DEF Exact
    <3>2. Combiner(frame) = "or" => ~(frame.q.empty <=> ~q.empty)
      BY <1>7, <2>5 DEF Drops
    <3> QED  BY <1>1, <2>1, <2>2, <2>3, <2>5, <3>1, <3>2 DEF Exact
  <2> QED  BY <2>4, <2>5 DEF next, d
<1> QED  BY <1>1, <1>6, <1>7

-----------------------------------------------------------------------------
(* What a call returns *)

\* All operands of a filter, below its negation, are what the filter itself is.
LEMMA DoneIsMeant ==
  ASSUME NEW frame, FrameOK(frame), frame.done = Len(frame.f.operands),
         frame.f.op # "junk", NEW row \in Rows
  PROVE  DoneMeant(frame, row) <=> Meant(frame.f, frame.negated, row)
<1> DEFINE f == frame.f
           n == Len(f.operands)
<1>1. f \in Filters /\ frame.negated \in BOOLEAN
  BY DEF FrameOK
<1>2. /\ f.op \in {"and", "or", "not", "fields", "junk"}
      /\ DOMAIN f.operands = 1 .. n /\ f.op = "not" => n = 1
  BY <1>1, Operands
<1>3. Holds(f, row) \in BOOLEAN /\ (Holds(f, row) <=> Accepts(f, row))
  BY <1>1, HoldsAssumption
<1>4. /\ Combiner(frame) \in {"and", "or"}
      /\ f.op = "or" => Combiner(frame) = (IF frame.negated THEN "and" ELSE "or")
      /\ f.op # "or" => Combiner(frame) = (IF frame.negated THEN "or" ELSE "and")
  BY <1>1, CombinerIs
<1>5. Under(frame) <=> IF f.op = "not" THEN ~frame.negated ELSE frame.negated
  BY DEF Under
<1>6. frame.done = n
  OBVIOUS
<1>7. CASE f.op \in {"and", "fields"}
  <2>1. Accepts(f, row) <=> \A k \in 1 .. n : OperandHolds(f, k, row)
    <3>1. Accepts(f, row) <=> \A k \in DOMAIN f.operands : OperandHolds(f, k, row)
      BY <1>7 DEF Accepts
    <3> QED  BY <1>2, <3>1
  <2> HIDE DEF f, n
  <2>2. CASE frame.negated
    <3>1. DoneMeant(frame, row) <=> \E k \in 1 .. n : ~OperandHolds(f, k, row)
      BY <1>4, <1>5, <1>6, <1>7, <2>2 DEF DoneMeant, OperandMeant, f
    <3> QED  BY <1>3, <2>1, <2>2, <3>1 DEF Meant, f
  <2>3. CASE ~frame.negated
    <3>1. DoneMeant(frame, row) <=> \A k \in 1 .. n : OperandHolds(f, k, row)
      BY <1>4, <1>5, <1>6, <1>7, <2>3 DEF DoneMeant, OperandMeant, f
    <3> QED  BY <1>3, <2>1, <2>3, <3>1 DEF Meant, f
  <2> QED  BY <2>2, <2>3
<1>8. CASE f.op = "or"
  <2>1. Accepts(f, row) <=> \E k \in 1 .. n : OperandHolds(f, k, row)
    BY <1>2, <1>8 DEF Accepts
  <2> HIDE DEF f, n
  <2>2. CASE frame.negated
    <3>1. DoneMeant(frame, row) <=> \A k \in 1 .. n : ~OperandHolds(f, k, row)
      BY <1>4, <1>5, <1>6, <1>8, <2>2 DEF DoneMeant, OperandMeant, f
    <3> QED  BY <1>3, <2>1, <2>2, <3>1 DEF Meant, f
  <2>3. CASE ~frame.negated
    <3>1. DoneMeant(frame, row) <=> \E k \in 1 .. n : OperandHolds(f, k, row)
      BY <1>4, <1>5, <1>6, <1>8, <2>3 DEF DoneMeant, OperandMeant, f
    <3> QED  BY <1>3, <2>1, <2>3, <3>1 DEF Meant, f
  <2> QED  BY <2>2, <2>3
<1>9. CASE f.op = "not"
  <2>1. Accepts(f, row) <=> ~OperandHolds(f, 1, row)
    BY <1>9 DEF Accepts
  <2>2. 1 .. frame.done = {1}
    <3>1. frame.done = 1
      BY <1>2, <1>6, <1>9
    <3> QED  BY <3>1
  <2>3. DoneMeant(frame, row) <=> OperandMeant(frame, 1, row)
    BY <2>2 DEF DoneMeant
  <2>4. OperandMeant(frame, 1, row) <=>
          IF frame.negated THEN OperandHolds(f, 1, row) ELSE ~OperandHolds(f, 1, row)
    BY <1>1, <1>5, <1>9 DEF OperandMeant
  <2> HIDE DEF f, n
  <2> QED  BY <1>1, <1>3, <2>1, <2>3, <2>4 DEF Meant, f
<1> QED  BY <1>2, <1>7, <1>8, <1>9

\* The Q a call returns is worth what its filter means, if that of its operands is.
LEMMA ResultMeans ==
  ASSUME NEW frame, FrameOK(frame), frame.done = Len(frame.f.operands)
  PROVE  /\ Sound(Result(frame))
         /\ Tight(frame) => \A row \in Rows :
              Keeps(Result(frame), row) => Meant(frame.f, frame.negated, row)
         /\ Exact(frame) => \A row \in Rows :
              Meant(frame.f, frame.negated, row) => Keeps(Result(frame), row)
<1> DEFINE f == frame.f
           n == Len(f.operands)
           r == Result(frame)
<1>1. f \in Filters /\ frame.negated \in BOOLEAN /\ Sound(frame.q)
  BY DEF FrameOK
<1>2. /\ n \in Nat /\ (f.operands = <<>> <=> n = 0)
      /\ f.op = "junk" => n = 0
  BY <1>1, Operands
<1>3. /\ Sound(EmptyQ) /\ \A row \in Rows : Keeps(EmptyQ, row)
      /\ Sound(MATCH_NOTHING) /\ \A row \in Rows : ~Keeps(MATCH_NOTHING, row)
  BY EmptySound, NothingSound DEF Keeps
<1>4. CASE n > 0
  <2>1. r = frame.q
    BY <1>2, <1>4 DEF Result
  <2>2. frame.done > 0 /\ f.op # "junk"
    BY <1>2, <1>4
  <2>3. \A row \in Rows : DoneMeant(frame, row) <=> Meant(frame.f, frame.negated, row)
    BY <2>2, DoneIsMeant
  <2> QED  BY <1>1, <2>1, <2>2, <2>3 DEF Tight, Exact
<1>5. CASE n = 0 /\ f.op = "junk"
  <2>1. r = IF frame.negated THEN EmptyQ ELSE MATCH_NOTHING
    BY <1>2, <1>5 DEF Result
  <2>2. \A row \in Rows : ~Holds(f, row)
    BY <1>1, <1>5, HoldsAssumption DEF Accepts
  <2> QED  BY <1>3, <2>1, <2>2 DEF Meant
<1>6. CASE n = 0 /\ f.op # "junk"
  <2>1. r = IF Combiner(frame) = "and" THEN EmptyQ ELSE MATCH_NOTHING
    BY <1>2, <1>6 DEF Result
  <2>2. \A row \in Rows : DoneMeant(frame, row) <=> Meant(frame.f, frame.negated, row)
    BY <1>6, DoneIsMeant
  <2>3. 1 .. frame.done = {}
    BY <1>6
  <2>4. \A row : DoneMeant(frame, row) <=> Combiner(frame) = "and"
    BY <2>3 DEF DoneMeant
  <2> HIDE DEF r
  <2>5. Sound(r) /\ \A row \in Rows : Keeps(r, row) <=> DoneMeant(frame, row)
    BY <1>3, <2>1, <2>4
  <2> QED  BY <2>2, <2>5 DEF r
<1> QED  BY <1>2, <1>4, <1>5, <1>6

-----------------------------------------------------------------------------
(* The stack *)

\* frame waits for what call returns.
Waits(frame, call) ==
  /\ frame.f.op # "fields" /\ frame.done < Len(frame.f.operands)
  /\ call.f = frame.f.operands[frame.done + 1] /\ call.negated = Under(frame)

Frames == [f: Filters, negated: BOOLEAN, done: Nat, q: Q]

TypeOK ==
  /\ filter \in Filters /\ dropped \in BOOLEAN
  /\ stack \in Seq(Frames)
  /\ \A i \in 1 .. Len(stack) : FrameOK(stack[i])

\* Each call was made by the one below it, and the first for the filter.
CallsNest ==
  /\ \A i \in 1 .. Len(stack) - 1 : Waits(stack[i], stack[i + 1])
  /\ Len(stack) > 0 => stack[1].f = filter /\ stack[1].negated = FALSE

AllTight == \A i \in 1 .. Len(stack) : Tight(stack[i])

AllExact == ~dropped => \A i \in 1 .. Len(stack) : Exact(stack[i])

IInv == TypeOK /\ CallsNest /\ AllTight /\ AllExact /\ NeverTooMany /\ AgreesUnlessDropped

\* What a call makes of its filter is what the one below makes of its operand.
LEMMA WaitsMeans ==
  ASSUME NEW frame, NEW call, Waits(frame, call), NEW row
  PROVE  Meant(call.f, call.negated, row) <=> OperandMeant(frame, frame.done + 1, row)
BY DEF Waits, Meant, OperandMeant, OperandHolds

\* A call on _translate_filter has no operand done.
LEMMA InitIInv == Init => IInv
<1> SUFFICES ASSUME Init PROVE IInv
  OBVIOUS
<1> DEFINE first == Frame(filter, FALSE)
<1>1. filter \in Filters /\ stack = <<first>> /\ query = NULL /\ dropped = FALSE
  BY DEF Init
<1>2. /\ FrameOK(first) /\ Tight(first) /\ Exact(first)
      /\ first.f = filter /\ first.negated = FALSE
  BY <1>1, FrameStarts
<1> HIDE DEF first
<1>3. first \in Frames
  BY <1>2 DEF FrameOK, Frames
<1>4. stack \in Seq(Frames) /\ Len(stack) = 1 /\ stack[1] = first
  BY <1>1, <1>3
<1>5. \A i \in 1 .. Len(stack) : stack[i] = first
  BY <1>4
<1>6. TypeOK
  BY <1>1, <1>2, <1>4, <1>5 DEF TypeOK
<1>7. CallsNest
  <2>1. 1 .. Len(stack) - 1 = {}
    BY <1>4
  <2> QED  BY <1>2, <1>4, <2>1 DEF CallsNest
<1>8. AllTight /\ AllExact
  BY <1>2, <1>5 DEF AllTight, AllExact
<1> QED  BY <1>1, <1>6, <1>7, <1>8 DEF IInv, NeverTooMany, AgreesUnlessDropped

-----------------------------------------------------------------------------
(* Steps *)

\* The call on top of the stack.
LEMMA TopFacts ==
  ASSUME IInv, stack # <<>>
  PROVE  /\ Len(stack) \in Nat \ {0} /\ Top = stack[Len(stack)]
         /\ FrameOK(Top) /\ Tight(Top) /\ (~dropped => Exact(Top))
         /\ Top.f \in Filters /\ Top.negated \in BOOLEAN /\ Top.done \in Nat
<1>1. stack \in Seq(Frames)
  BY DEF IInv, TypeOK
<1>2. Len(stack) \in Nat \ {0}
  BY <1>1
<1>3. FrameOK(Top) /\ Tight(Top) /\ (~dropped => Exact(Top))
  BY <1>2 DEF IInv, TypeOK, AllTight, AllExact, Top
<1> QED  BY <1>2, <1>3 DEF FrameOK, Top

\* A call for a nested filter is pushed.
LEMMA CallIInv ==
  ASSUME IInv, Call PROVE IInv'
<1> DEFINE n == Len(stack)
           g == Frame(Operand, Under(Top))
<1>1. /\ stack # <<>> /\ Top.f.op # "fields" /\ Top.done < Len(Top.f.operands)
      /\ stack' = Append(stack, g)
      /\ filter' = filter /\ query' = query /\ dropped' = dropped
  BY DEF Call
<1>2. /\ n \in Nat \ {0} /\ Top = stack[n]
      /\ Top.f \in Filters /\ Top.negated \in BOOLEAN /\ Top.done \in Nat
  BY <1>1, TopFacts
<1>3. Operand \in Filters /\ Under(Top) \in BOOLEAN
  <2>1. Top.done + 1 \in 1 .. Len(Top.f.operands)
    BY <1>1, <1>2, Operands
  <2> QED  BY <1>1, <1>2, <2>1, Operands DEF Operand, Under
<1>4. /\ FrameOK(g) /\ Tight(g) /\ Exact(g)
      /\ g.f = Operand /\ g.negated = Under(Top)
  BY <1>3, FrameStarts
<1> HIDE DEF g
<1>5. stack \in Seq(Frames) /\ g \in Frames
  BY <1>4 DEF IInv, TypeOK, FrameOK, Frames
<1>6. /\ stack' \in Seq(Frames) /\ Len(stack') = n + 1 /\ stack'[n + 1] = g
      /\ \A i \in 1 .. n : stack'[i] = stack[i]
  BY <1>1, <1>5
<1>7. \A i \in 1 .. Len(stack') : i = n + 1 \/ i \in 1 .. n
  BY <1>2, <1>6
<1>8. TypeOK'
  <2>1. \A i \in 1 .. Len(stack') : FrameOK(stack'[i])
    BY <1>4, <1>6, <1>7 DEF IInv, TypeOK
  <2> QED  BY <1>1, <1>6, <2>1 DEF IInv, TypeOK
<1>9. CallsNest'
  <2>1. Waits(stack[n], g)
    BY <1>1, <1>2, <1>4 DEF Waits, Operand
  <2>2. \A i \in 1 .. n - 1 : Waits(stack[i], stack[i + 1]) /\ i + 1 \in 1 .. n /\ i \in 1 .. n
    BY <1>2 DEF IInv, CallsNest
  <2>3. \A i \in 1 .. n : Waits(stack'[i], stack'[i + 1])
    <3> TAKE i \in 1 .. n
    <3>1. CASE i = n
      BY <1>2, <1>6, <2>1, <3>1
    <3>2. CASE i # n
      <4>1. i \in 1 .. n - 1
        BY <1>2, <3>2
      <4> QED  BY <1>6, <2>2, <4>1
    <3> QED  BY <3>1, <3>2
  <2>4. stack'[1] = stack[1] /\ Len(stack) > 0
    BY <1>2, <1>6
  <2>5. Len(stack') - 1 = n
    BY <1>2, <1>6
  <2> QED  BY <1>1, <2>3, <2>4, <2>5 DEF IInv, CallsNest
<1>10. AllTight'
  BY <1>4, <1>6, <1>7 DEF IInv, AllTight
<1>11. AllExact'
  BY <1>1, <1>4, <1>6, <1>7 DEF IInv, AllExact
<1>12. NeverTooMany' /\ AgreesUnlessDropped'
  BY <1>1 DEF IInv, NeverTooMany, AgreesUnlessDropped
<1> QED  BY <1>8, <1>9, <1>10, <1>11, <1>12 DEF IInv

\* A key is translated.
LEMMA LeafIInv ==
  ASSUME IInv, Leaf PROVE IInv'
<1> DEFINE n == Len(stack)
           q == LeafQ(Operand, Top.negated)
           g == Give(Top, q)
<1>1. /\ stack # <<>> /\ Top.f.op = "fields" /\ Top.done < Len(Top.f.operands)
      /\ stack' = [stack EXCEPT ![n] = g]
      /\ dropped' = (dropped \/ Drops(Top, q))
      /\ filter' = filter /\ query' = query
  BY DEF Leaf
<1>2. /\ n \in Nat \ {0} /\ Top = stack[n]
      /\ FrameOK(Top) /\ Tight(Top) /\ (~dropped => Exact(Top))
      /\ Top.negated \in BOOLEAN /\ Top.done \in Nat
  BY <1>1, TopFacts
<1>3. /\ Sound(q) /\ \A row \in Rows :
           Keeps(q, row) <=> OperandMeant(Top, Top.done + 1, row)
  <2>1. /\ Sound(q)
        /\ \A row \in Rows : Keeps(q, row) <=>
             IF Top.negated THEN ~ItemHolds(Operand, row) ELSE ItemHolds(Operand, row)
    BY <1>2, LeafMeans
  <2>2. (Under(Top) <=> Top.negated)
        /\ \A row : OperandHolds(Top.f, Top.done + 1, row) <=> ItemHolds(Operand, row)
    BY <1>1 DEF Under, OperandHolds, Operand
  <2> HIDE DEF q
  <2> QED  BY <2>1, <2>2 DEF OperandMeant
<1> HIDE DEF q
<1>4. FrameOK(g) /\ g.f = Top.f /\ g.negated = Top.negated
  BY <1>1, <1>2, <1>3, GiveFrame
<1>5. Tight(g) /\ (Exact(Top) /\ ~Drops(Top, q) => Exact(g))
  BY <1>1, <1>2, <1>3, GiveMeans
<1> HIDE DEF g
<1>6. stack \in Seq(Frames) /\ g \in Frames /\ dropped \in BOOLEAN
  BY <1>4 DEF IInv, TypeOK, FrameOK, Frames
<1>7. /\ stack' \in Seq(Frames) /\ Len(stack') = n /\ stack'[n] = g
      /\ \A i \in 1 .. n : i # n => stack'[i] = stack[i]
  BY <1>1, <1>2, <1>6
<1>8. TypeOK'
  <2>1. \A i \in 1 .. Len(stack') : FrameOK(stack'[i])
    BY <1>4, <1>7 DEF IInv, TypeOK
  <2>2. dropped' \in BOOLEAN
    BY <1>1
  <2> QED  BY <1>1, <1>7, <2>1, <2>2 DEF IInv, TypeOK
<1>9. CallsNest'
  <2>1. \A i \in 1 .. n - 1 : /\ Waits(stack[i], stack[i + 1])
                              /\ i \in 1 .. n /\ i # n /\ i + 1 \in 1 .. n
    BY <1>2 DEF IInv, CallsNest
  <2>2. \A i \in 1 .. n - 1 : Waits(stack'[i], stack'[i + 1])
    <3> TAKE i \in 1 .. n - 1
    <3>1. stack'[i] = stack[i]
      BY <1>7, <2>1
    <3>2. stack'[i + 1].f = stack[i + 1].f /\ stack'[i + 1].negated = stack[i + 1].negated
      BY <1>2, <1>4, <1>7, <2>1
    <3> QED  BY <2>1, <3>1, <3>2 DEF Waits
  <2>3. stack'[1].f = stack[1].f /\ stack'[1].negated = stack[1].negated
    BY <1>2, <1>4, <1>7
  <2> QED  BY <1>1, <1>2, <1>7, <2>2, <2>3 DEF IInv, CallsNest
<1>10. AllTight'
  BY <1>5, <1>7 DEF IInv, AllTight
<1>11. AllExact'
  <2> SUFFICES ASSUME ~dropped' PROVE \A i \in 1 .. Len(stack') : Exact(stack'[i])
    BY DEF AllExact
  <2>1. ~dropped /\ ~Drops(Top, q)
    BY <1>1
  <2>2. Exact(g)
    BY <1>2, <1>5, <2>1
  <2> QED  BY <1>7, <2>1, <2>2 DEF IInv, AllExact
<1>12. NeverTooMany' /\ AgreesUnlessDropped'
  BY <1>1 DEF IInv, NeverTooMany, AgreesUnlessDropped
<1> QED  BY <1>8, <1>9, <1>10, <1>11, <1>12 DEF IInv

\* A call returns.
LEMMA ReturnIInv ==
  ASSUME IInv, Return PROVE IInv'
<1> DEFINE n == Len(stack) - 1
           q == Result(Top)
           g == Give(stack[n], q)
<1>1. /\ stack # <<>> /\ Top.done = Len(Top.f.operands)
      /\ stack' = [i \in 1 .. n |-> IF i = n THEN g ELSE stack[i]]
      /\ query' = IF n = 0 THEN q ELSE query
      /\ dropped' = (dropped \/ (n > 0 /\ Drops(stack[n], q)))
      /\ filter' = filter
  BY DEF Return
<1>2. /\ n \in Nat /\ Top = stack[n + 1] /\ Len(stack) = n + 1
      /\ FrameOK(Top) /\ Tight(Top) /\ (~dropped => Exact(Top))
      /\ stack \in Seq(Frames) /\ dropped \in BOOLEAN /\ filter \in Filters
  BY <1>1, TopFacts DEF IInv, TypeOK
<1>3. /\ Sound(q)
      /\ \A row \in Rows : Keeps(q, row) => Meant(Top.f, Top.negated, row)
      /\ ~dropped => \A row \in Rows : Meant(Top.f, Top.negated, row) => Keeps(q, row)
  BY <1>1, <1>2, ResultMeans
<1> HIDE DEF q
<1>4. CASE n = 0
  <2>1. stack' = <<>> /\ query' = q /\ (dropped' <=> dropped)
    <3>1. stack' = <<>>
      <4>1. stack' = [i \in 1 .. 0 |-> IF i = n THEN g ELSE stack[i]]
        BY <1>1, <1>4
      <4> HIDE DEF g
      <4> QED  BY <4>1
    <3>2. query' = q
      BY <1>1, <1>4
    <3> HIDE DEF n
    <3>3. ~(n > 0)
      BY <1>4
    <3>4. dropped' <=> dropped
      BY <1>1, <3>3, Zenon
    <3> QED  BY <3>1, <3>2, <3>4
  <2>2. Top.f = filter /\ Top.negated = FALSE
    <3> HIDE DEF n
    <3>1. Len(stack) = 1 /\ Top = stack[1]
      BY <1>2, <1>4
    <3>2. Len(stack) > 0
      BY <3>1
    <3> QED  BY <3>1, <3>2 DEF IInv, CallsNest
  <2>3. /\ \A row \in Rows : Keeps(q, row) => Holds(filter, row)
        /\ ~dropped => \A row \in Rows : Holds(filter, row) => Keeps(q, row)
    BY <1>3, <2>2 DEF Meant
  <2>4. NeverTooMany' /\ AgreesUnlessDropped'
    BY <1>1, <2>1, <2>3 DEF NeverTooMany, AgreesUnlessDropped
  <2>5. Len(stack') = 0 /\ stack' \in Seq(Frames) /\ 1 .. Len(stack') = {}
    BY <2>1
  <2>6. TypeOK'
    BY <1>1, <1>2, <2>1, <2>5 DEF TypeOK
  <2>7. CallsNest' /\ AllTight' /\ AllExact'
    BY <2>5 DEF CallsNest, AllTight, AllExact
  <2> QED  BY <2>4, <2>6, <2>7 DEF IInv
<1>5. CASE n > 0
  <2>1. /\ FrameOK(stack[n]) /\ Tight(stack[n]) /\ (~dropped => Exact(stack[n]))
        /\ Waits(stack[n], Top)
    BY <1>2, <1>5 DEF IInv, TypeOK, CallsNest, AllTight, AllExact
  <2>2. stack[n].done < Len(stack[n].f.operands)
    BY <2>1 DEF Waits
  <2>3. \A row \in Rows : Meant(Top.f, Top.negated, row) <=>
                          OperandMeant(stack[n], stack[n].done + 1, row)
    BY <2>1, WaitsMeans
  <2>4. FrameOK(g) /\ g.f = stack[n].f /\ g.negated = stack[n].negated
    BY <1>3, <2>1, <2>2, GiveFrame
  <2>5. Tight(g) /\ (~dropped /\ ~Drops(stack[n], q) => Exact(g))
    <3>1. \A row \in Rows : Keeps(q, row) => OperandMeant(stack[n], stack[n].done + 1, row)
      BY <1>3, <2>3
    <3>2. ~dropped => \A row \in Rows :
            OperandMeant(stack[n], stack[n].done + 1, row) => Keeps(q, row)
      BY <1>3, <2>3
    <3> QED  BY <1>3, <2>1, <2>2, <3>1, <3>2, GiveMeans
  <2>6. g \in Frames /\ \A i \in 1 .. n : stack[i] \in Frames
    <3>1. g \in Frames
      BY <2>4 DEF FrameOK, Frames
    <3>2. \A i \in 1 .. n : i \in 1 .. Len(stack)
      BY <1>2
    <3> HIDE DEF g, n
    <3> QED  BY <1>2, <3>1, <3>2
  <2> HIDE DEF g, n
  <2>7. /\ stack' \in Seq(Frames) /\ Len(stack') = n /\ stack'[n] = g
        /\ \A i \in 1 .. n : i # n => stack'[i] = stack[i]
    BY <1>1, <1>2, <1>5, <2>6
  <2>8. TypeOK'
    <3>1. \A i \in 1 .. Len(stack') : FrameOK(stack'[i])
      <4> TAKE i \in 1 .. Len(stack')
      <4>1. i \in 1 .. n /\ i \in 1 .. Len(stack)
        BY <1>2, <2>7
      <4> QED  BY <2>4, <2>7, <4>1 DEF IInv, TypeOK
    <3>2. dropped' \in BOOLEAN
      BY <1>1
    <3> QED  BY <1>1, <1>2, <2>7, <3>1, <3>2 DEF TypeOK
  <2>9. CallsNest'
    <3>1. \A i \in 1 .. n - 1 : /\ Waits(stack[i], stack[i + 1])
                                /\ i \in 1 .. n /\ i # n /\ i + 1 \in 1 .. n
      BY <1>2 DEF IInv, CallsNest
    <3>2. \A i \in 1 .. n - 1 : Waits(stack'[i], stack'[i + 1])
      <4> TAKE i \in 1 .. n - 1
      <4>1. stack'[i] = stack[i]
        BY <2>7, <3>1
      <4>2. stack'[i + 1].f = stack[i + 1].f /\ stack'[i + 1].negated = stack[i + 1].negated
        BY <1>2, <2>4, <2>7, <3>1
      <4> QED  BY <3>1, <4>1, <4>2 DEF Waits
    <3>3. stack'[1].f = stack[1].f /\ stack'[1].negated = stack[1].negated
      BY <1>2, <1>5, <2>4, <2>7
    <3>4. stack[1].f = filter /\ stack[1].negated = FALSE
      BY <1>2, <1>5 DEF IInv, CallsNest
    <3> QED  BY <1>1, <2>7, <3>2, <3>3, <3>4 DEF CallsNest
  <2>10. AllTight'
    <3>1. \A i \in 1 .. n : Tight(stack[i])
      BY <1>2 DEF IInv, AllTight
    <3> QED  BY <2>5, <2>7, <3>1 DEF AllTight
  <2>11. AllExact'
    <3> SUFFICES ASSUME ~dropped' PROVE \A i \in 1 .. Len(stack') : Exact(stack'[i])
      BY DEF AllExact
    <3>1. ~dropped /\ ~Drops(stack[n], q)
      BY <1>1, <1>5, Zenon
    <3>2. \A i \in 1 .. n : Exact(stack[i])
      BY <1>2, <3>1 DEF IInv, AllExact
    <3> QED  BY <2>5, <2>7, <3>1, <3>2
  <2>12. NeverTooMany' /\ AgreesUnlessDropped'
    <3>0. n # 0
      BY <1>2, <1>5
    <3>1. query' = query /\ filter' = filter
      BY <1>1, <3>0
    <3>2. ~dropped' => ~dropped
      BY <1>1, Zenon
    <3> QED  BY <3>1, <3>2 DEF IInv, NeverTooMany, AgreesUnlessDropped
  <2> QED  BY <2>8, <2>9, <2>10, <2>11, <2>12 DEF IInv
<1> QED  BY <1>2, <1>4, <1>5

-----------------------------------------------------------------------------
(* Theorems *)

\* What holds of every call on the stack, at every step.
THEOREM Invariance == Spec => []IInv
<1>1. Init => IInv
  BY InitIInv
<1>2. IInv /\ [Next]_vars => IInv'
  <2> SUFFICES ASSUME IInv, [Next]_vars PROVE IInv'
    OBVIOUS
  <2>1. CASE Call
    BY <2>1, CallIInv
  <2>2. CASE Leaf
    BY <2>2, LeafIInv
  <2>3. CASE Return
    BY <2>3, ReturnIInv
  <2>4. CASE UNCHANGED vars
    BY <2>4 DEF vars, IInv, TypeOK, CallsNest, AllTight, AllExact, NeverTooMany, AgreesUnlessDropped
  <2> QED  BY <2>1, <2>2, <2>3, <2>4 DEF Next
<1> QED  BY <1>1, <1>2, PTL DEF Spec

\* However a filter is nested and negated, its Q keeps no row that the reference
\* evaluator rejects.
THEOREM FiltersKeepNoMore == Spec => []NeverTooMany
<1>1. IInv => NeverTooMany
  BY DEF IInv
<1> QED  BY <1>1, Invariance, PTL

\* And every row it accepts, unless a disjunction dropped an operand.
THEOREM FiltersAgree == Spec => []AgreesUnlessDropped
<1>1. IInv => AgreesUnlessDropped
  BY DEF IInv
<1> QED  BY <1>1, Invariance, PTL

==============================================================================
