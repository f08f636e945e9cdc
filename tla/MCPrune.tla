------------------------------ MODULE MCPrune -------------------------------
(***************************************************************************)
(* Plans and demands for pruning: the shapes of PlanShapes over operators  *)
(* with arguments, and for each plan every set of its columns.             *)
(***************************************************************************)
EXTENDS PruneSemantics, SmallGraph, PlanShapes

CONSTANT MaxOps   \* operators above the scan

With(kind, used, parts) ==
  [Node(kind, used, Names(parts)) EXCEPT !.parts = parts]

(* Operators that read, and select, sort or update.                        *)
Readers ==
  {Node(k, {v}, {}) : k \in {"Filter", "Sort", "Set"}, v \in {"x", "y"}}
    \cup {Node("PropertyMapFilter", {"y"}, {}), Node("Delete", {"y", "z"}, {}),
          Node("Skip", {}, {}), Node("Limit", {}, {})}

(* x-->y / x-[z]->y / y-->z / UNWIND / CALL / LOAD CSV / a path / START    *)
Binders ==
  {Expand("x", "y"), Node("Expand", {"x"}, {"y", "z"}), Expand("y", "z"),
   Node("Unwind", {"x"}, {"z"}), Node("ProcedureCall", {"x"}, {"y", "z"}),
   Node("LoadCsv", {}, {"y"}), Node("NamedPath", {}, {"z"}),
   Node("Start", {}, {"y"})}

(* CREATE (y {k: x.k}) / CREATE (y), (z {k: x.k}) /                        *)
(* MERGE (y {k: x.k}) ON CREATE SET y.k = 1                                *)
Writers ==
  {With("Create", {"x"}, <<Part({"y"}, {"x"})>>),
   With("Create", {"x"}, <<Part({"y"}, {}), Part({"z"}, {"x"})>>),
   With("Merge", {"x"}, <<Part({"y"}, {"x"}), Part({}, {"y"})>>)}

(* WITH x / WITH y AS x / WITH *, x AS z / WITH x, x + y AS y, 1 /         *)
(* WITH *, y                                                               *)
Columned ==
  {Projection(FALSE, <<Column("x")>>, {}, FALSE),
   Projection(FALSE, <<Part({"x"}, {"y"})>>, {"x"}, FALSE),
   Projection(TRUE, <<Part({"z"}, {"x"})>>, {"z"}, FALSE),
   Projection(FALSE, <<Column("x"), Part({"y"}, {"x", "y"}), Part({}, {"x"})>>,
              {"y"}, FALSE)}

(* The second inputs, and bodies of FOREACH (i IN x | ...).                *)
Inputs == {<<Scan("z")>>, <<Scan("y"), Expand("y", "z"), Filter({"z"})>>}

Bodies ==
  {<<Node("Set", {"x", "i"}, {})>>,
   <<With("Create", {}, <<Part({"z"}, {"i"})>>), Node("Set", {"z"}, {})>>,
   <<With("Create", {}, <<Part({"y"}, {})>>)>>}

JoinsOf(side) ==
  {Branching(k, 1, BoundVars(side)) : k \in {"Cartesian", "Optional"}}

ForeachOf(body) ==
  {[Branching("Foreach", 1, {}) EXCEPT !.used = {"x"}, !.parts = <<Part({"i"}, {"x"})>>]}

PlansOver(ops) ==
  LET over(side, more) == {<<side, q>> : q \in SpinesOver(ops \cup more, MaxOps)}
  IN  UNION {over(side, JoinsOf(side)) : side \in Inputs}
        \cup UNION {over(body, ForeachOf(body)) : body \in Bodies}

(* No operator binds a name again that its input has, no join is on        *)
(* columns of both inputs, and no body gives a name the row has.           *)
BindsAgain(pl) ==
  \E s \in Spines : \E p \in 1..Len(pl[s]) :
     LET op  == pl[s][p]
         has == Output(pl[s], p - 1)
     IN  \/ op.kind \notin {"Project", "Union"} /\ op.intro \cap has # {}
         \/ op.kind = "Foreach"
              /\ (Names(op.parts) \cup Produced(pl[op.right])) \cap has # {}

Asked(plans) ==
  UNION {{[plan |-> pl, asked |-> D] : D \in SUBSET Columns(pl[Root])} : pl \in plans}

Everything == Readers \cup Binders \cup Writers \cup Columned

PlainPlans == {pl \in PlansOver(Everything) : ~BindsAgain(pl)}

(* What is on top of a plan and is asked for all of its columns: DISTINCT, *)
(* WITH x, count( * ) AS y / WITH count(x) AS y / WITH *, count( * ) AS i, *)
(* and a UNION with RETURN x on either side.                               *)
Tops ==
  {Node("Distinct", {}, {}),
   Projection(FALSE, <<Column("x"), Part({"y"}, {})>>, {"y"}, TRUE),
   Projection(FALSE, <<Part({"y"}, {"x"})>>, {"y"}, TRUE),
   Projection(TRUE, <<Part({"i"}, {})>>, {"i"}, TRUE)}

ReturnX == Projection(FALSE, <<Column("x")>>, {}, FALSE)

OtherBranches ==
  {<<Scan("x"), ReturnX>>, <<Scan("x"), Expand("x", "y"), ReturnX>>,
   <<Scan("y"), Projection(FALSE, <<Part({"x"}, {"y"})>>, {"x"}, FALSE)>>}

Topped == {<<pl[1], Append(pl[Root], top)>> : pl \in PlainPlans, top \in Tops}

Unions ==
  {<<b, q \o <<ReturnX, Branching("Union", 1, {"x"})>>>> :
     b \in OtherBranches, q \in SpinesOver(Everything, MaxOps)}

AskedForAll(plans) ==
  {[plan |-> pl, asked |-> Columns(pl[Root])] : pl \in {p \in plans : ~BindsAgain(p)}}

PlainQuestions == Asked(PlainPlans) \cup AskedForAll(Topped \cup Unions)

-----------------------------------------------------------------------------
(* MATCH (x)-->(z) WITH DISTINCT x, z RETURN z, asked for what it returns. *)
DistinctQuestions ==
  {[plan  |-> <<<<>>, <<Scan("x"), Expand("x", "z"),
                        Projection(FALSE, <<Column("x"), Column("z")>>, {}, FALSE),
                        Node("Distinct", {}, {}),
                        Projection(FALSE, <<Column("z")>>, {}, FALSE)>>>>,
    asked |-> {"z"}]}
=============================================================================
