------------------------------ MODULE Pushdown ------------------------------
(***************************************************************************)
(* What predicate pushdown promises (module doc of src/src/optimize.rs):   *)
(* the plan only changes by a filter moving down, one operator at a time,  *)
(* past an operator that treats rows one by one, and only to where every   *)
(* variable of its predicate is still bound to the same value.  It does    *)
(* not say which filter moves, in which order, or when to stop.            *)
(***************************************************************************)
EXTENDS Plans

VARIABLE plan

(* The kinds a predicate may pass.  Skip, Limit and Optional are excluded  *)
(* by the doc, "because doing so changes which rows are seen"; operators   *)
(* that write to the graph and Distinct are not listed by it.              *)
Transparent ==
  {"Project", "Sort", "Expand", "NamedPath", "LoadCsv", "PropertyMapFilter",
   "Cartesian"}

(* The variables whose value differs above and below an operator.          *)
Writes(op) ==
  IF op.kind = "Project" THEN op.alias
  ELSE IF op.kind = "Cartesian" THEN {} ELSE op.intro

FilterAt(s, p) == p \in 2..Len(plan[s]) /\ IsFilter(plan[s][p])

(* The filter at position p of spine s moves below the operator under it.  *)
MoveBelow(s, p) ==
  LET q == plan[s] IN
  /\ FilterAt(s, p)
  /\ q[p - 1].kind \in Transparent
  /\ q[p].used \cap Writes(q[p - 1]) = {}
  /\ q[p].used \subseteq Bound(q, p - 2)
  /\ plan' = [plan EXCEPT ![s] = Swap(q, p)]

(* The filter moves on top of the second input of the product under it.    *)
MoveAcross(s, p) ==
  LET q == plan[s]
      r == q[p - 1].right IN
  /\ FilterAt(s, p)
  /\ q[p - 1].kind = "Cartesian"
  /\ q[p].used \subseteq BoundVars(plan[r])
  /\ plan' = [plan EXCEPT ![s] = Drop(q, p), ![r] = Append(@, q[p])]

Init ==
  /\ plan \in [Spines -> Seq(Op)]
  /\ WellFormed(plan)
  /\ RightScopesExact(plan)
  /\ WellScoped(plan)

Next == \E s \in Spines : \E p \in 2..Len(plan[s]) :
           MoveBelow(s, p) \/ MoveAcross(s, p)

Spec == Init /\ [][Next]_plan
=============================================================================
