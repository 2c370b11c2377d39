------------------------- MODULE FilterTranslation -------------------------
(***************************************************************************)
(* _translate_filter and filters.py: a composable NotificationFilter is    *)
(* turned into a Django Q, in negation normal form, which the database     *)
(* evaluates with three truth values.  The vintasend package evaluates the *)
(* same filter in memory with two; the translation is to agree with it on  *)
(* every row.                                                              *)
(*                                                                         *)
(* What a field's lookup accepts is reduced to the set of column values it *)
(* matches, so one shape stands for choices, memberships, versions and     *)
(* string lookups; date ranges keep their bounds.  A Q is reduced to       *)
(* whether it has conditions and what they are worth on each row.  The     *)
(* recursion is run on an explicit stack of calls, one frame for each      *)
(* filter being translated, so that nothing bounds how deep filters nest.  *)
(***************************************************************************)
EXTENDS Integers, Sequences

CONSTANTS
  ValueFields,  \* columns matched by value
  RangeFields,  \* columns matched by range
  Nullable,     \* columns that may be NULL
  Rows,         \* rows of the table
  Items,        \* what a key of a field filter may ask for
  Filters,      \* filters callers pass, and the ones nested in them
  Holds(_, _),  \* Holds(f, row): the in-memory evaluator of vintasend accepts row
  MISFIT,       \* a candidate that does not fit its field
  NULL          \* SQL NULL / Python None

VARIABLES filter,   \* the filter of a call to filter_notifications or count_notifications
          stack,    \* the calls of _translate_filter that have not returned
          query,    \* the Q the outermost one returned
          dropped   \* whether some | had one operand without conditions

vars == <<filter, stack, query, dropped>>

-----------------------------------------------------------------------------
(* Filters *)

\* {"and": [...]}, {"or": [...]}, {"not": ...}
AndOf(subs) == [op |-> "and", operands |-> subs]
OrOf(subs)  == [op |-> "or",  operands |-> subs]
NotOf(sub)  == [op |-> "not", operands |-> <<sub>>]

\* A field filter, one item per key, and a dictionary that is none of these.
Fields(items) == [op |-> "fields", operands |-> items]
Junk          == [op |-> "junk", operands |-> <<>>]

\* The items of a field filter.
ByValue(field, values) ==
  [field |-> field, shape |-> "values", values |-> values, from |-> NULL, to |-> NULL]
ByRange(field, from, to) ==
  [field |-> field, shape |-> "range", values |-> {}, from |-> from, to |-> to]

-----------------------------------------------------------------------------
(* Evaluation by the database *)

Truth == {"true", "false", "unknown"}

Bool(b) == IF b THEN "true" ELSE "false"

Not3(t) == CASE t = "true" -> "false" [] t = "false" -> "true" [] OTHER -> "unknown"

And3(S) == IF "false" \in S THEN "false" ELSE IF "unknown" \in S THEN "unknown" ELSE "true"
Or3(S)  == IF "true" \in S THEN "true" ELSE IF "unknown" \in S THEN "unknown" ELSE "false"

\* A comparison with NULL is unknown.  Under a negation Django adds IS NOT NULL to
\* the comparison of a nullable column, which makes it false instead.
Compare(row, field, negated, holds) ==
  IF row[field] # NULL THEN Bool(holds)
  ELSE IF negated /\ field \in Nullable THEN "false" ELSE "unknown"

-----------------------------------------------------------------------------
(* django.db.models.Q *)

\* sql[negated][row]: what the conditions are worth on a row, below an odd number of
\* negations or not.
Q == [empty: BOOLEAN, sql: [BOOLEAN -> [Rows -> Truth]]]

Condition(sql) == [empty |-> FALSE, sql |-> sql]

\* Q(): no condition, which as a WHERE clause keeps every row.
EmptyQ == [empty |-> TRUE, sql |-> [negated \in BOOLEAN |-> [row \in Rows |-> "true"]]]

In(field, values) == Condition([negated \in BOOLEAN |-> [row \in Rows |->
  IF values = {} THEN "false" ELSE Compare(row, field, negated, row[field] \in values)]])

Gte(field, bound) == Condition([negated \in BOOLEAN |-> [row \in Rows |->
  Compare(row, field, negated, row[field] >= bound)]])

Lte(field, bound) == Condition([negated \in BOOLEAN |-> [row \in Rows |->
  Compare(row, field, negated, row[field] <= bound)]])

IsNull(field) ==
  Condition([negated \in BOOLEAN |-> [row \in Rows |-> Bool(row[field] = NULL)]])

IsNotNull(field) ==
  Condition([negated \in BOOLEAN |-> [row \in Rows |-> Bool(row[field] # NULL)]])

\* ~q, of a q with conditions.
Negate(q) ==
  Condition([negated \in BOOLEAN |-> [row \in Rows |-> Not3(q.sql[~negated][row])]])

Both(kind, p, q) == Condition([negated \in BOOLEAN |-> [row \in Rows |->
  LET values == {p.sql[negated][row], q.sql[negated][row]}
  IN IF kind = "and" THEN And3(values) ELSE Or3(values)]])

\* Q._combine: an operand without conditions is dropped, by & and by | alike.
Combine(kind, p, q) == IF p.empty THEN q ELSE IF q.empty THEN p ELSE Both(kind, p, q)

\* WHERE keeps the rows whose condition is true.
Keeps(q, row) == q.sql[FALSE][row] = "true"

-----------------------------------------------------------------------------
(* Field filters *)

\* Q(pk__in=[])
MATCH_NOTHING == In("pk", {})

\* Mutant of DateRange: a range without bounds is no condition.
DateRangeOpen(item) ==
  Combine("and", IF item.from = NULL THEN EmptyQ ELSE Gte(item.field, item.from),
                 IF item.to = NULL THEN EmptyQ ELSE Lte(item.field, item.to))

\* date_range_q: both bounds inclusive; without any, NULL is still excluded.
DateRange(item) ==
  IF item.from = NULL /\ item.to = NULL THEN IsNotNull(item.field)
  ELSE Combine("and", IF item.from = NULL THEN EmptyQ ELSE Gte(item.field, item.from),
                      IF item.to = NULL THEN EmptyQ ELSE Lte(item.field, item.to))

\* One candidate that does not fit rejects the whole leaf.
Fits(item) ==
  \/ item.field \in RangeFields /\ item.shape = "range"
  \/ item.field \in ValueFields /\ item.shape = "values" /\ MISFIT \notin item.values

\* field_leaf: an unknown field or a value that does not fit matches nothing, and
\* leaves no column to widen its negation with.
FieldLeaf(item) ==
  IF ~Fits(item) THEN [q |-> MATCH_NOTHING, null_field |-> NULL]
  ELSE [q |-> IF item.shape = "range" THEN DateRange(item) ELSE In(item.field, item.values),
        null_field |-> item.field]

LeafQ(item, negated) ==
  LET leaf == FieldLeaf(item)
  IN IF ~negated THEN leaf.q
     ELSE IF leaf.null_field = NULL THEN Negate(leaf.q)
     ELSE Combine("or", Negate(leaf.q), IsNull(leaf.null_field))

\* The reference evaluator, on one item.
ItemHolds(item, row) ==
  /\ Fits(item)
  /\ row[item.field] # NULL
  /\ item.shape = "values" => row[item.field] \in item.values
  /\ item.shape = "range" =>
       /\ item.from # NULL => row[item.field] >= item.from
       /\ item.to # NULL => row[item.field] <= item.to

-----------------------------------------------------------------------------
(* The reference evaluator, on filters *)

OperandHolds(f, k, row) ==
  IF f.op = "fields" THEN ItemHolds(f.operands[k], row) ELSE Holds(f.operands[k], row)

\* What it accepts, in terms of the operands.
Accepts(f, row) ==
  CASE f.op \in {"and", "fields"} -> \A k \in DOMAIN f.operands : OperandHolds(f, k, row)
    [] f.op = "or"   -> \E k \in DOMAIN f.operands : OperandHolds(f, k, row)
    [] f.op = "not"  -> ~OperandHolds(f, 1, row)
    [] f.op = "junk" -> FALSE

ASSUME FieldsAssumption == NULL \notin ValueFields \cup RangeFields
ASSUME FiltersAssumption ==
  /\ {f.op : f \in Filters} \subseteq {"and", "or", "not", "fields", "junk"}
  /\ {f.operands : f \in {g \in Filters : g.op \in {"and", "or", "not"}}} \subseteq Seq(Filters)
  /\ \A f \in Filters : /\ f.op = "fields" => f.operands \in Seq(Items)
                        /\ f.op = "not" => Len(f.operands) = 1
                        /\ f.op = "junk" => f.operands = <<>>
ASSUME HoldsAssumption == \A f \in Filters, row \in Rows :
  Holds(f, row) \in BOOLEAN /\ (Holds(f, row) <=> Accepts(f, row))

-----------------------------------------------------------------------------
(* _translate_filter *)

\* A call that translates f: the operands done so far, and their Q.
Frame(f, negated) == [f |-> f, negated |-> negated, done |-> 0, q |-> EmptyQ]

\* Negation is pushed to the operands.
Under(frame) == IF frame.f.op = "not" THEN ~frame.negated ELSE frame.negated

\* Mutant of Combiner: no De Morgan.
CombinerUnswapped(frame) == IF frame.f.op = "or" THEN "or" ELSE "and"

\* De Morgan: a negated conjunction is a disjunction, and the other way round.
Combiner(frame) == IF (frame.f.op = "or") <=> frame.negated THEN "and" ELSE "or"

\* and_all and or_all reduce from the left: an operand can be combined as soon as it
\* is translated.
Give(frame, q) ==
  [frame EXCEPT !.done = @ + 1,
                !.q = IF frame.done = 0 THEN q ELSE Combine(Combiner(frame), @, q)]

Drops(frame, q) ==
  frame.done > 0 /\ Combiner(frame) = "or" /\ (frame.q.empty <=> ~q.empty)

\* What the call returns once all operands are done.
Result(frame) ==
  IF frame.f.operands # <<>> THEN frame.q
  ELSE IF IF frame.f.op = "junk" THEN frame.negated ELSE Combiner(frame) = "and"
       THEN EmptyQ ELSE MATCH_NOTHING

Top     == stack[Len(stack)]
Operand == Top.f.operands[Top.done + 1]

\* A nested filter.
Call ==
  /\ stack # <<>> /\ Top.f.op # "fields" /\ Top.done < Len(Top.f.operands)
  /\ stack' = Append(stack, Frame(Operand, Under(Top)))
  /\ UNCHANGED <<filter, query, dropped>>

\* A key of a field filter.
Leaf ==
  /\ stack # <<>> /\ Top.f.op = "fields" /\ Top.done < Len(Top.f.operands)
  /\ LET q == LeafQ(Operand, Top.negated)
     IN /\ stack' = [stack EXCEPT ![Len(stack)] = Give(Top, q)]
        /\ dropped' = (dropped \/ Drops(Top, q))
  /\ UNCHANGED <<filter, query>>

\* Back to the call that waits for the operand, or to the query set.
Return ==
  /\ stack # <<>> /\ Top.done = Len(Top.f.operands)
  /\ LET n == Len(stack) - 1
         q == Result(Top)
     IN /\ stack' = [i \in 1 .. n |-> IF i = n THEN Give(stack[n], q) ELSE stack[i]]
        /\ query' = IF n = 0 THEN q ELSE query
        /\ dropped' = (dropped \/ (n > 0 /\ Drops(stack[n], q)))
  /\ UNCHANGED filter

\* filter_notifications and count_notifications translate what they are given.
Init ==
  /\ filter \in Filters
  /\ stack = <<Frame(filter, FALSE)>>
  /\ query = NULL /\ dropped = FALSE

Next == Call \/ Leaf \/ Return

Spec == Init /\ [][Next]_vars

-----------------------------------------------------------------------------
(* Properties *)

\* The database keeps no row that the reference evaluator rejects, however the filter
\* is nested and negated and whatever does not fit its field: what _translate_filter
\* gets wrong can only hide rows.
NeverTooMany ==
  query # NULL => \A row \in Rows : Keeps(query, row) => Holds(filter, row)

\* It keeps every row the reference evaluator accepts, NULL columns, values that do
\* not fit, unknown fields, empty groups and any nesting of negations included, as
\* long as _translate_filter made no disjunction with one operand that keeps all.
AgreesUnlessDropped ==
  query # NULL /\ ~dropped => \A row \in Rows : Keeps(query, row) <=> Holds(filter, row)

\* _translate_filter: negation normal form keeps NULL semantics correct, "exactly
\* what the reference in-memory evaluator does", and "Empty {} matches everything".
TranslationAgrees ==
  query # NULL => \A row \in Rows : Keeps(query, row) <=> Holds(filter, row)
=============================================================================
