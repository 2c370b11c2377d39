------------------------ MODULE MCFilterTranslation ------------------------
(* Small filters over small rows for TLC. *)
EXTENDS FilterTranslation

MCValueFields == {"status", "tenant"}
MCRangeFields == {"sent_at"}
MCNullable    == {"tenant", "sent_at"}

\* Every row: two statuses, one tenant or none, three times or none.
MCRows == [status: {"SENT", "READ"}, tenant: {"acme", NULL}, sent_at: {0, 1, 2, NULL}]

Times == {0, 1, 2, NULL}

\* Every item of each field: lists, ranges, misfits, and a field nobody knows.
ValueItems ==
  {ByValue("status", S) : S \in SUBSET {"SENT", MISFIT}}
    \cup {ByValue("tenant", S) : S \in SUBSET {"acme", "other", MISFIT}}
RangeItems ==
  {ByRange("sent_at", from, to) : from \in Times, to \in Times}
    \cup {ByValue("sent_at", {0}), ByRange("tenant", NULL, NULL)}
MCItems == ValueItems \cup RangeItems \cup {ByValue("unknown", {"acme"})}

\* Field filters of no, one or two keys.
FieldFilters ==
  {Fields(<<>>)} \cup {Fields(<<i>>) : i \in MCItems}
    \cup {Fields(<<i, j>>) : i \in ValueItems, j \in RangeItems}

\* Groups of up to two members, one of them of S and the other of T.
Groups(S, T) ==
  LET lists == {<<>>} \cup {<<f>> : f \in T} \cup {<<f, g>> : f \in S, g \in T}
                 \cup {<<f, g>> : f \in T, g \in S}
  IN {AndOf(l) : l \in lists} \cup {OrOf(l) : l \in lists} \cup {NotOf(f) : f \in T}

\* A few filters of every kind, nested twice.
Kinds ==
  {Fields(<<>>), Junk, Fields(<<ByRange("sent_at", 1, NULL)>>),
   Fields(<<ByValue("tenant", {"acme"}), ByRange("sent_at", NULL, 1)>>),
   Fields(<<ByValue("status", {MISFIT})>>)}

Nested == Kinds \cup Groups(Kinds, Kinds)

\* With groups beside a plain filter or a group of one member, in either order.
Plain == Kinds \cup {f \in Nested : f.op \in {"and", "or", "not"} /\ Len(f.operands) <= 1}

MCFilters ==
  {Junk} \cup FieldFilters \cup {NotOf(f) : f \in FieldFilters}
    \cup Groups(Plain, Nested) \cup {NotOf(f) : f \in Groups(Plain, Nested)}

\* The reference evaluator, recursively.
RECURSIVE MCHolds(_, _)
MCHolds(f, row) ==
  CASE f.op = "and"    -> \A i \in DOMAIN f.operands : MCHolds(f.operands[i], row)
    [] f.op = "or"     -> \E i \in DOMAIN f.operands : MCHolds(f.operands[i], row)
    [] f.op = "not"    -> ~MCHolds(f.operands[1], row)
    [] f.op = "junk"   -> FALSE
    [] f.op = "fields" -> \A i \in DOMAIN f.operands : ItemHolds(f.operands[i], row)
============================================================================
