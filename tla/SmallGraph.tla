----------------------------- MODULE SmallGraph -----------------------------
(***************************************************************************)
(* A graph for the model checker, and what operators make of it: values    *)
(* that tell apart what moving a filter, pruning a column or building a    *)
(* plan could confuse.  0 is null, 1 and 2 are two nodes.                  *)
(***************************************************************************)
EXTENDS PlanSemantics

Edges == {<<1, 1>>, <<1, 2>>, <<2, 1>>}

Are(view, x) == \A v \in DOMAIN view : view[v] = x

(* A predicate holds when every variable it reads is 1; one that reads     *)
(* nothing is false; null makes it not hold.  A property map needs 2.      *)
GraphTruth(op, view) ==
  IF op.kind = "Filter" THEN op.used # {} /\ Are(view, 1) ELSE Are(view, 2)

(* Nodes reached from the source of an Expand, from any node if unnamed.   *)
Reached(row, src) ==
  SelectSeq(<<1, 2>>, LAMBDA d : \E e \in Edges :
                         e[2] = d /\ \A v \in src : Value(row, v) = e[1])

GraphFound(op, row) ==
  LET vals == CASE op.kind = "Expand" -> Reached(row, op.used)
                [] op.kind = "NamedPath" -> <<1>>
                [] op.kind \in {"Create", "Merge"} -> <<2>>
                [] OTHER -> <<1, 2>>
  IN  [i \in 1..Len(vals) |-> [v \in op.intro |-> vals[i]]]

(* What an aliased item evaluates to: never what it reads.                 *)
GraphComputed(op, v, row) ==
  LET reads == Reads(SelectSeq(op.parts, LAMBDA p : v \in p.names))
  IN  IF Are(View(row, reads), 1) THEN 2 ELSE 1

GraphAggregated(op, v, rows) == IF Len(rows) > 2 THEN 2 ELSE Len(rows)

GraphSortKey(op, row) ==
  LET view == View(row, op.used)
  IN  CASE Are(view, 2) -> 1 [] Are(view, 1) -> 2 [] Are(view, 0) -> 3 [] OTHER -> 4

GraphPicks(op, rows) == IF op.kind = "Skip" THEN 2..Len(rows) ELSE {1}
=============================================================================
