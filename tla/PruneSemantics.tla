--------------------------- MODULE PruneSemantics ---------------------------
(***************************************************************************)
(* What the answers of prune.rs are for, src/src/prune.rs, lines 3 to 18:  *)
(* "executors need to materialize only what's referenced".  A reference    *)
(* execution of the plan that keeps of every row the columns supplied and  *)
(* nothing else.                                                           *)
(***************************************************************************)
EXTENDS Prune, PlanSemantics

Narrowed(rows, D) ==
  [i \in 1..Len(rows) |-> [v \in DOMAIN rows[i] \cap D |-> rows[i][v]]]

(* The rows above the first n operators of s, each narrowed to its supply. *)
NarrowRows(s, n) ==
  LET N[x \in Spines \X Nat] ==
        LET op   == plan[x[1]][x[2]]
            rows == IF x[2] = 0 THEN <<EmptyRow>>
                    ELSE Apply(op, N[<<x[1], x[2] - 1>>],
                               IF op.kind \notin Joining THEN <<>>
                               ELSE N[<<op.right, Len(plan[op.right])>>])
        IN  Narrowed(rows, supply[x[1]][x[2]])
  IN  N[<<s, n>>]

(* What the updates of a body take from the row they are made for: what    *)
(* they read, and the names their patterns repeat.                         *)
BodyTouches(body) ==
  LET T[s \in Spines] ==
        UNION {LET op == plan[s][i]
               IN  op.used \cup op.intro
                     \cup (IF op.kind = "Foreach"
                           THEN T[op.right] \ Names(op.parts) ELSE {})
                 : i \in 1..Len(plan[s])}
  IN  T[body]

(* The columns of its input an updating operator works on.                 *)
Touches(s, p) ==
  LET op  == plan[s][p]
      has == Output(plan[s], p - 1)
  IN  CASE op.kind \in {"Set", "Remove", "Delete"} -> op.used
        [] op.kind \in {"Create", "Merge"} -> op.used \cup (op.intro \cap has)
        [] op.kind = "Foreach" ->
             op.used \cup ((BodyTouches(op.right) \cap has) \ Names(op.parts))

-----------------------------------------------------------------------------
(* "what variables must the plan's immediate input supply": supplied with  *)
(* them and no more, the plan returns what was asked for, row by row.      *)
RowsFromSupply ==
  Done => NarrowRows(Root, Len(plan[Root])) =
            Narrowed(Eval(plan), supply[Root][Len(plan[Root])])

(* And it changes the graph in the same way: every update finds what it    *)
(* works on in the rows that reach it.                                     *)
UpdatesFromSupply ==
  Done =>
    \A s \in Spines : ~IsBody(plan, s) =>
      \A p \in 1..Len(plan[s]) : plan[s][p].kind \in UpdateKinds =>
        Narrowed(NarrowRows(s, p - 1), Touches(s, p)) =
          Narrowed(Rows(plan, s, p - 1), Touches(s, p))
=============================================================================
