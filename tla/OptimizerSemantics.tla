------------------------- MODULE OptimizerSemantics -------------------------
(***************************************************************************)
(* What optimize promises of the result of a plan, module doc of           *)
(* src/src/optimize.rs: "The transformation is semantics-preserving:       *)
(* eval(plan) == eval(optimize(plan))".                                    *)
(***************************************************************************)
EXTENDS Optimizer, PlanSemantics

(* A plan is a tree, which numbered spines only are if no two operators    *)
(* share a second input, and a leaf is at the start of its spine.          *)
IsTree(pl) ==
  /\ \A s \in Spines : \A i \in 2..Len(pl[s]) : pl[s][i].kind \notin LeafKinds
  /\ \A s, t \in Spines : \A i \in 1..Len(pl[s]), j \in 1..Len(pl[t]) :
       pl[s][i].right # 0 /\ pl[s][i].right = pl[t][j].right => s = t /\ i = j

(* No filter is above a Union in a plan that plan builds, whose branches   *)
(* need not bind the same variables.                                       *)
Closes(op) == op.kind = "Union"

UnionLast(pl) ==
  \A s \in Spines : \A i \in 1..Len(pl[s]) :
     Closes(pl[s][i]) =>
       s = Root /\ \A j \in (i + 1)..Len(pl[s]) : ~IsFilter(pl[s][j])

(* A filter that reads nothing may be pushed below an aggregation of all   *)
(* rows into one, and the plan then returns a row it did not return.       *)
GroupsRead(pl) ==
  \A s \in Spines : \A i \in 1..Len(pl[s]), j \in 1..Len(pl[s]) :
     OneGroup(pl[s][i]) /\ i < j /\ IsFilter(pl[s][j]) => pl[s][j].used # {}

FiltersInside(pl) == UnionLast(pl) /\ GroupsRead(pl)

(* What an operator finds and computes for a row, or for rows of tables,   *)
(* are values for the variables it introduces.                             *)
GivesValues(op, tables) ==
  /\ \A row \in Row : /\ Found(op, row) \in Seq([op.intro -> Values])
                      /\ \A v \in op.alias : Computed(op, v, row) \in Values
  /\ \A rows \in tables, v \in op.alias : Aggregated(op, v, rows) \in Values

-----------------------------------------------------------------------------
(* At every rewrite the plan returns the rows it returned before the pass. *)
EvalKept == Eval(plan) = Eval(prev)

(* More than the result: every operator that selects among rows, writes to *)
(* the graph for each row or combines rows is reached by the rows it was   *)
(* reached by before, so a filter crosses no LIMIT, no CREATE, no DISTINCT *)
(* and no OPTIONAL on its way down.                                        *)
RowsKept ==
  /\ EvalKept
  /\ \A s \in Spines :
       LET past == Promise!Transparent \cup {"Filter"}
       IN  RowsReaching(plan, s, past) = RowsReaching(prev, s, past)
=============================================================================
