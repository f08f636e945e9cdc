--------------------------- MODULE PlanSemantics ----------------------------
(***************************************************************************)
(* A reference meaning for plans, after the comments on the variants of    *)
(* enum Plan (src/src/plan.rs): each operator maps the rows of its input   *)
(* to rows.  The repository has no evaluator; its claim that optimizing    *)
(* preserves eval(plan) is about this meaning.                             *)
(*                                                                         *)
(* A row maps the variables in scope to values.  What the graph and the    *)
(* expressions of an operator make of a row is left to constants.          *)
(***************************************************************************)
EXTENDS Plans, SequencesExt

CONSTANTS
  Values, Null,          \* what a variable stands for
  Truth(_, _),           \* whether a filter holds, given what it reads
  Found(_, _),           \* what an operator finds for a row to bind, in order
  Computed(_, _, _),     \* what an aliased item evaluates to on a row
  Aggregated(_, _, _),   \* what an aggregating item evaluates to on a group
  SortKey(_, _),         \* the rank of a row among SortKeys ranks
  SortKeys,
  Picks(_, _)            \* the positions SKIP, LIMIT and shortestPath leave

ASSUME MeaningAssumption == Null \in Values /\ SortKeys \in Nat

Row == UNION {[D -> Values] : D \in SUBSET Vars}

EmptyRow == [v \in {} |-> Null]

(* What a name stands for in a row: null if the row does not bind it.      *)
Value(row, v) == IF v \in DOMAIN row THEN row[v] ELSE Null
View(row, D)  == [v \in D |-> Value(row, v)]

(* Rows that agree on the variables they share, and the row both extend.   *)
Compatible(r, t) == \A v \in DOMAIN r \cap DOMAIN t : r[v] = t[v]
Merge(r, t)      == [v \in DOMAIN r \cup DOMAIN t |->
                       IF v \in DOMAIN r THEN r[v] ELSE t[v]]

(* A row extended by those of others that agree with it.                   *)
Extensions(row, others) ==
  FlattenSeq([i \in 1..Len(others) |->
                IF Compatible(row, others[i]) THEN <<Merge(row, others[i])>>
                ELSE <<>>])

(* The rows at some positions.                                             *)
Keep(rows, at) ==
  FlattenSeq([i \in 1..Len(rows) |-> IF i \in at THEN <<rows[i]>> ELSE <<>>])

Passes(op, row) == Truth(op, View(row, op.used))

Passing(op, rows) == Keep(rows, {i \in 1..Len(rows) : Passes(op, rows[i])})

Unique(rows) ==
  Keep(rows, {i \in 1..Len(rows) : \A j \in 1..(i - 1) : rows[j] # rows[i]})

(* The new variables of op bound, once for each thing it finds; a variable *)
(* already bound must be what is found.                                    *)
Extended(op, rows) ==
  FlattenSeq([i \in 1..Len(rows) |-> Extensions(rows[i], Found(op, rows[i]))])

Projected(op, row) ==
  [v \in (IF op.keep THEN DOMAIN row ELSE {}) \cup op.intro |->
     IF v \in op.alias THEN Computed(op, v, row) ELSE Value(row, v)]

(* Grouping by the columns that do not aggregate; without one there is a   *)
(* single group, even of no rows.                                          *)
OneGroup(op) == op.kind = "Project" /\ op.agg /\ ~op.keep /\ op.intro \subseteq op.alias

GroupKey(op, row) ==
  [v \in ((IF op.keep THEN DOMAIN row ELSE {}) \cup op.intro) \ op.alias |->
     Value(row, v)]

Grouped(op, rows) ==
  LET keys   == IF OneGroup(op) THEN <<EmptyRow>>
                ELSE Unique([i \in 1..Len(rows) |-> GroupKey(op, rows[i])])
      of(k)  == Keep(rows, {i \in 1..Len(rows) : GroupKey(op, rows[i]) = k})
  IN  [n \in 1..Len(keys) |->
         Merge(keys[n], [v \in op.alias |-> Aggregated(op, v, of(keys[n]))])]

(* Rows of the same rank stay in order.                                    *)
Sorted(op, rows) ==
  FlattenSeq([k \in 1..SortKeys |->
                Keep(rows, {i \in 1..Len(rows) : SortKey(op, rows[i]) = k})])

Joined(lrows, rrows) ==
  FlattenSeq([i \in 1..Len(lrows) |-> Extensions(lrows[i], rrows)])

OuterJoined(op, lrows, rrows) ==
  LET nulls == [v \in op.intro |-> Null]
  IN  FlattenSeq([i \in 1..Len(lrows) |->
                    IF Extensions(lrows[i], rrows) = <<>>
                    THEN <<Merge(lrows[i], nulls)>>
                    ELSE Extensions(lrows[i], rrows)])

(* The rows op produces from those of its main and of its second input.    *)
Apply(op, rows, other) ==
  LET k == op.kind IN
  CASE k = "Scan" -> Extended(op, <<EmptyRow>>)
    [] k \in {"Expand", "LoadCsv", "NamedPath", "Unwind", "ProcedureCall",
              "Start", "Create", "Merge"} -> Extended(op, rows)
    [] k \in {"Filter", "PropertyMapFilter"} -> Passing(op, rows)
    [] k = "Project" -> IF op.agg THEN Grouped(op, rows)
                        ELSE [i \in 1..Len(rows) |-> Projected(op, rows[i])]
    [] k = "Sort" -> Sorted(op, rows)
    [] k \in {"Skip", "Limit", "ShortestPath"} -> Keep(rows, Picks(op, rows))
    [] k = "Distinct" -> Unique(rows)
    [] k = "Cartesian" -> Joined(rows, other)
    [] k = "Optional" -> OuterJoined(op, rows, other)
    [] k = "Union" -> rows \o other
    [] OTHER -> rows

(* The rows above the first n operators of the spine q, T being the rows   *)
(* of the second inputs.                                                   *)
Along(q, T) ==
  LET A[n \in 0..Len(q)] ==
        IF n = 0 THEN <<EmptyRow>>
        ELSE Apply(q[n], A[n - 1], IF q[n].right = 0 THEN <<>> ELSE T[q[n].right])
  IN  A

(* The rows of every spine.                                                *)
Tables(plan) ==
  LET T[s \in Spines] == Along(plan[s], T)[Len(plan[s])]
  IN  T

Rows(plan, s, n) == Along(plan[s], Tables(plan))[n]

Eval(plan) == Tables(plan)[Root]

(* The rows that reach, in spine s, each operator not of the kinds past:   *)
(* what it selects from, writes for, or makes distinct.                    *)
RowsReaching(plan, s, past) ==
  FlattenSeq([i \in 1..Len(plan[s]) |->
                IF plan[s][i].kind \in past THEN <<>>
                ELSE <<Rows(plan, s, i - 1)>>])
=============================================================================
