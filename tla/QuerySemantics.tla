--------------------------- MODULE QuerySemantics ---------------------------
(***************************************************************************)
(* A reference meaning for queries: a pipeline.  Each clause maps the rows *)
(* of the clauses before it to rows, in the order they are written         *)
(* (comments of enum Clause, src/src/ast.rs).  MATCH extends a row by the  *)
(* paths that agree with what it binds, element after element; the other   *)
(* clauses do what the operator they are named after does to rows.         *)
(***************************************************************************)
EXTENDS Planner, SmallGraph

FlatMap(F(_), rows) == FlattenSeq([i \in 1..Len(rows) |-> F(rows[i])])

(* The row that takes x for the element e, if it may: the variables of     *)
(* also, bound to x too, are its relationship's.                           *)
Taking(row, e, x) ==
  LET bind == [v \in Named(e.var) |-> x]
      new  == Merge(row, bind)
      fits == /\ Compatible(row, bind)
              /\ e.props => x = 1 /\ \A v \in e.reads : new[v] = 1
              /\ e.map => x = 2
  IN  IF fits THEN <<new>> ELSE <<>>

(* Rows extended by a path, each with the node the path has reached.       *)
Starts(row, p) ==
  FlatMap(LAMBDA x : [i \in 1..Len(Taking(row, p.anchor, x)) |->
                        <<Taking(row, p.anchor, x)[i], x>>], <<1, 2>>)

Hops(reached, c) ==
  LET row == reached[1]
      to(d) == FlatMap(LAMBDA r : Taking(r, c.node, d), Taking(row, c.rel, d))
  IN  FlatMap(LAMBDA d : [i \in 1..Len(to(d)) |-> <<to(d)[i], d>>],
              SelectSeq(<<1, 2>>, LAMBDA d : <<reached[2], d>> \in Edges))

Paths(row, p) ==
  LET ends == FoldLeft(LAMBDA acc, c : FlatMap(LAMBDA x : Hops(x, c), acc),
                       Starts(row, p), p.chain)
  IN  FlatMap(LAMBDA x : Extensions(x[1], <<[v \in Named(p.path) |-> 1]>>), ends)

Matches(row, patterns) ==
  FoldLeft(LAMBDA acc, p : FlatMap(LAMBDA r : Paths(r, p), acc),
           <<row>>, patterns)

(* OPTIONAL MATCH: nulls where there is no match.                          *)
MatchesOrNulls(row, patterns) ==
  LET nulls == [v \in Patterns(patterns, PatternBindings) |-> 0]
  IN  IF Matches(row, patterns) = <<>> THEN <<Merge(row, nulls)>>
      ELSE Matches(row, patterns)

Meaning(clause, rows) ==
  LET k == clause.kind
      does(op) == Apply(op, rows, <<>>)
  IN
  CASE k = "Match" ->
         FlatMap(LAMBDA r : IF clause.optional
                            THEN MatchesOrNulls(r, clause.patterns)
                            ELSE Matches(r, clause.patterns), rows)
    [] k \in {"With", "Return"} ->
         LET out == does(ProjectItems(clause.star, clause.items))
         IN  IF clause.distinct THEN Unique(out) ELSE out
    [] k = "Where" -> does(Node("Filter", clause.reads, {}))
    [] k = "OrderBy" -> does(Node("Sort", clause.reads, {}))
    [] k \in {"Skip", "Limit"} -> does(Node(k, clause.reads, {}))
    [] k \in {"Create", "Merge"} ->
         does(Node(k, {}, Patterns(clause.patterns, PatternBindings)))
    [] k \in {"Unwind", "LoadCsv", "Start"} ->
         does(Node(k, clause.reads, clause.binds))
    [] k = "Call" ->
         FoldLeft(LAMBDA acc, pred : Passing(Node("Filter", pred, {}), acc),
                  does(Node("ProcedureCall", clause.reads, clause.binds)),
                  clause.pred)
    [] OTHER -> rows

(* UNION: the rows of each branch, one after the other.                    *)
MeaningOf(clauses) ==
  LET step(acc, c) ==
        IF c.kind = "Union" THEN [past |-> acc.past \o acc.rows, rows |-> <<EmptyRow>>]
        ELSE [acc EXCEPT !.rows = Meaning(c, @)]
      all == FoldLeft(step, [past |-> <<>>, rows |-> <<EmptyRow>>], clauses)
  IN  all.past \o all.rows

(* Rows without the names the planner makes up.                            *)
Visible(rows) ==
  [i \in 1..Len(rows) |->
     [v \in DOMAIN rows[i] \cap UserVars |-> rows[i][v]]]
=============================================================================
