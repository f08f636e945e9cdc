----------------------------- MODULE Agreement ------------------------------
(***************************************************************************)
(* What analyze_branch of src/src/sema.rs and plan_branch of               *)
(* src/src/plan.rs have in common: both go through the clauses of a branch *)
(* and follow what is in scope, each on its own.                           *)
(***************************************************************************)
EXTENDS Planner, Sema

(* The clauses of the branch that plan_branch is through with.             *)
Handled ==
  LET rest  == Len(Top.todo)
      start == BranchStart(query.clauses, Len(query.clauses) - rest)
  IN  SubSeq(query.clauses, start + 1, Len(query.clauses) - rest)

(* The analysis and the planner never compare the names they follow: after *)
(* any clause of a branch they agree which there are.                      *)
TypedIsVisible ==
  Len(frames) = 1 /\ ~low.on => DOMAIN TypesAt(Handled) = Top.visible

(* The operators that can yield what the analysis takes a name for.        *)
Yields(kind) ==
  CASE kind = "Scan"      -> {"Node"}
    [] kind = "Start"     -> {"Node"}
    [] kind = "Expand"    -> {"Node", "Relationship"}
    [] kind = "NamedPath" -> {"Path"}
    [] kind = "LoadCsv"   -> {"Map"}
    [] kind \in {"Create", "Merge"} -> {"Node", "Relationship", "Path"}
    [] OTHER -> {}

(* The operators of a spine that give v its value: a projection does not   *)
(* that passes v on under its own name.                                    *)
Binders(q, v) ==
  {j \in 1..Len(q) : v \in q[j].intro /\ (q[j].kind = "Project" => v \in q[j].alias)}

(* The last of them counts; where it brings v from a second input, what    *)
(* counts is the one there.                                                *)
KindIn(q, v, kinds) ==
  IF Binders(q, v) = {} THEN "nothing"
  ELSE LET op == q[Max(Binders(q, v))]
       IN  IF op.right = 0 THEN op.kind ELSE kinds[op.right]

KindsOf(pl, v) ==
  LET Kind[s \in Spines] == KindIn(pl[s], v, Kind)
  IN  Kind

Suits(q, pl, v, type) ==
  LET kind == KindIn(q, v, KindsOf(pl, v))
  IN  kind = "Project" \/ type \in Yields(kind)

(* What the analysis takes a name for is what the operator that binds it   *)
(* in the plan yields, also when a later clause binds the name again, in   *)
(* another input of the plan.                                              *)
TypesFitThePlan ==
  Len(frames) = 1 /\ ~low.on =>
    LET types == TypesAt(Handled)
    IN  \A v \in {w \in DOMAIN types : types[w] # "Any"} :
          Suits(Top.main, plan, v, types[v])
=============================================================================
