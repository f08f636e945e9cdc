# A verification project for cypher-rs

cypher-rs is an openCypher front-end: it parses a query, analyses it, lowers it
to a logical plan, rewrites the plan, and estimates it; a server offers these
stages to clients, a line at a time. It stores nothing and runs no thread: what
can go wrong is the order in which things are done to a tree, and what is assumed
of it by the next stage. This directory models the stages as state machines (one
step per clause, operator, rewrite or line), checks them with TLC against
reference meanings, and proves the main results with TLAPS.

Paths are relative to the directory that holds `src/` and `tla/`; the crate's
sources are in `src/src/`.

## The system

| part | state | operations | interacts with |
|---|---|---|---|
| parser (`parser.rs`, `cypher.pest`) | the tree being built; while it validates the order of clauses, a flag and a slot per branch | `parse`, `walk_*`, `validate_clause_placement` | hands a `Query` of clauses to sema and plan |
| syntax tree (`ast.rs`) | data | none | read by all |
| semantic analysis (`sema.rs`) | bindings of a branch, types of variables along its clauses, issues | `analyze_with`, `check_clause`, `infer` | reads the `Query`; a `Schema` is called back for labels, types, functions |
| planner (`plan.rs`) | the plan of the branch so far, names in scope, the kept RETURN / ORDER BY / SKIP / LIMIT, the counter of made-up names | `plan`, `plan_branch`, `lower_match`, `lower_pattern` | `Query` in, `Plan` or `PlanError` out |
| optimizer (`optimize.rs`) | the plan of the current pass, the filter being carried | `optimize`, `pass`, `descend`, `try_push_filter` | `Plan` in, `Plan` out |
| pruning (`prune.rs`) | a set of demanded columns | `output_columns`, `required_input_columns` | reads a `Plan`; executors call it operator by operator |
| cost (`cost.rs`) | cardinality and cost | `estimate` | reads a `Plan`; a `CostModel` is called back |
| MCP server (`mcp.rs`, `bin/cypher-mcp.rs`) | the line it is at; nothing is kept between requests | the loop of `main`, `handle_request`, one tool per stage or chain of stages | a client on its stdin and stdout; parse → analyze → plan → optimize → estimate / columns |

What makes each part correct, and what is hard about it:

* **Parser, clause order.** The grammar takes clauses in any order and treats
  WHERE, ORDER BY, SKIP, LIMIT as clauses; a walk with a flag and a slot decides
  what each belongs to. It must accept exactly the statements in which every
  modifier has an owner, over all sequences of clauses and branches.
* **Planner.** The plan must mean what the query means; the planner keeps beside
  the plan a set of names it never compares with it; later stages take for
  granted that every operator reads bound variables.
* **Optimizer.** A filter that moves must keep meaning the same, and must not
  change what a LIMIT, an OPTIONAL or a CREATE sees; the loop must end. All of it
  rests on `used_vars`, which must tell the names an expression reads from the
  names it binds, through nested and shadowing scopes.
* **Pruning.** The demand that reaches an operator must name columns its input
  has, and enough of them for what the operators above return and update.
* **Semantic analysis.** It must report names that are not bound and types that
  cannot fit, and nothing else. It follows names and types beside the planner,
  which never compares notes with it, and scopes beside `used_vars`.
* **Cost.** What the optimizer does must not make a plan dearer by this model's
  own estimate, which charges every operator by the rows of others.
* **MCP server.** Requests come at any time, the client may hang up on either
  side, or leave the answers where they are until the pipe is full and the server
  waits; answers carry ids and must come in order, and eight tools that chain the
  stages by hand must say the same of a query, also of one that has no plan.

Only the server and its client run side by side, and they share two streams;
nothing is persisted, retried or timed, so there are no crashes, restarts or lost
messages to model. The other hazards are sequences of legal calls, orders of
rewriting, state kept in two places, and loops.

## Modules

```
Plans ─┬─ Pushdown (abstract)
       ├─ PlanSemantics (reference) ── SmallGraph (its constants in the runs)
       ├─ Optimizer, PlanSemantics ── OptimizerSemantics ── MCOptimizer, OptimizerProofs
       ├─ Cost ── MCOptimizer
       ├─ Prune, PlanSemantics ── PruneSemantics ── MCPrune
       ├─ Prune ── PruneProofs
       └─ PlanShapes (inputs of runs) ── MCOptimizer, MCPrune
Plans, Clauses ── Planner ─ QuerySemantics (reference) ── MCPlanner
Clauses ── Sema ── SemaReport
Planner, Sema ── Agreement ── PlannerProofs ── PlannerFitProofs
Planner, Optimizer ── Pipeline ── PipelineProofs (with PlannerFitProofs, OptimizerProofs)
Pipeline, SemaReport, Agreement ── MCPipeline
Expressions ── UsedVars
Types, UsedVars ── ExpressionsProofs
Expressions, Types ── TypeCheck ── ExpressionSemantics (reference)
UsedVars, ExpressionSemantics ── MCExpressions
ClauseOrder (reference) ── Placement ── MCPlacement, PlacementProofs
Mcp ── MCMcp, McpProofs
```

* **Plans** – `enum Plan`. A plan is a family of *spines*: a spine is the list of
  operators from a leaf along main inputs; an operator with a second input
  (Cartesian, Optional, Foreach, Union) names the spine that computes it, which
  has a smaller number. An operator records its kind, the variables it reads,
  the variables it introduces, the arguments that give names with what each of
  them reads, and for a projection the names given with AS, the star and whether
  it aggregates. `Bound` is `walk_bound` of `optimize.rs`.
* **Pushdown** – the abstract specification of predicate pushdown: one filter
  moves one operator down, past an operator that treats rows one by one, to
  where its variables are bound to the same values.
* **Optimizer** – `optimize`. The recursion of `pass`/`descend` is the visit of
  spines in order (`Visit`, `PickUp`, `NextSpine`); the recursion of
  `try_push_filter` is a filter in flight (`Slide`, `Sink`, `Rest`), one
  operator per arm of the match (`PassesProject`, …, `GoesRight`); the fixpoint
  loop is `Again` and `Finish`. The pass over a second input and the pass over
  the main input below it do not see each other, so visiting spines by number
  gives the plan the recursion gives.
* **PlanSemantics** – a reference evaluator: what rows a plan returns, after the
  comments on `enum Plan`. The repository has no evaluator but claims that
  optimizing preserves one. What depends on the graph or on an expression is a
  constant: whether a filter holds of what it reads (`Truth`), what an operator
  finds for a row (`Found`), what an item computes (`Computed`, `Aggregated`), the
  rank of a row (`SortKey`), what SKIP, LIMIT and shortestPath leave (`Picks`).
  **SmallGraph** gives them one fixed outcome over values 0 (null), 1, 2 for the
  runs, chosen so that swapping operators shows; the theorem holds for any.
* **OptimizerSemantics** – the promise of `optimize.rs:24`, `EvalKept`, and more
  than it, `RowsKept`: also the rows that reach every operator that selects, writes
  or combines rows stay the same. And which plans it is promised for
  (`FiltersInside`).
* **Prune** – `output_columns` and `required_input_columns`, one operator per
  arm with a rule of its own, and the walk the module doc asks of executors: ask
  the operator, go on with its input, and at a join split the demand over both
  inputs (`Ask`, `Split`, `NextInput`). **PruneSemantics** executes the plan
  keeping of every row the columns demanded and no others.
* **Expressions**, **UsedVars** – expressions as far as names go, and `walk_expr`
  over them: a recursion with local sets, made a machine with an agenda and a
  stack of sets. `prune.rs` has the same walk line by line. Everywhere else an
  expression is the set this walk returns.
* **Clauses** – the clauses of `ast.rs`; expressions are the variables they read.
* **Planner** – `plan`. One action per clause of `plan_branch`, a stack of frames
  for FOREACH, the lowering of a MATCH link by link and pattern by pattern, the
  end of a branch (`Stacked`), UNION, the query options and every `PlanError`.
* **QuerySemantics** – the reference meaning of a query: each clause maps rows to
  rows in the order they are written, a MATCH by matching paths, not by plans.
* **Cost** – `estimate`: rows and charge of every operator, the fan-out of path
  ranges, over integers. f64 is counted in parts of a row (`Unit` = 64 of them),
  so halves of halves stay exact; `ln` is rounded down. A cost model is a record
  of statistics, with the arguments of operators that plans leave out.
* **Sema** – the names and types of `analyze`: `collect_bindings` and
  `update_type_bindings`, branch by branch. **SemaReport** – the names `check_clause`
  reports. **Agreement** – what the analysis and the planner ought to agree on, each
  going through the clauses of a branch on its own.
* **Types** – `CypherType`, `accepts`, `unify_types`, signatures and overloads.
  **TypeCheck** – `infer_expression_type_with` and `check_expr` with its scopes.
  **ExpressionSemantics** evaluates the same expressions, for reference.
* **Pipeline** – analyze, plan and optimize chained as `tool_explain` of `mcp.rs`
  does it: the planner and the optimizer share the plan, the report stands beside.
* **Mcp** – the loop of `cypher-mcp`, `handle_request` and the stages of the tools,
  with the client that sends lines, takes answers when it likes from a pipe of
  bounded capacity, and closes either end. `Write` waits while the pipe is full and
  fails once it is closed. What a stage makes of a query is a constant: any function
  of the query, of the plan, or of the analysis. An answer has the results of the
  stages it shows, or the stage that failed (`failed`); that of `cypher_explain` for
  a query without a plan has both, the report of the analysis and the failure.
* **ClauseOrder**, **Placement** – the order openCypher asks for, said of the
  whole list; and `validate_branch_placement`, which decides it in one walk.
* **MCOptimizer**, **MCPlanner**, **MCPlacement**, **MCPipeline**, **MCPrune**,
  **MCExpressions**, **MCMcp** – the inputs of the runs and the properties that
  compare with a reference meaning. **PlanShapes** lists the plans two of them
  share.
* **OptimizerProofs**, **PlannerProofs**, **PlannerFitProofs**, **PipelineProofs**,
  **PruneProofs**, **PlacementProofs**, **ExpressionsProofs**, **McpProofs** – lemmas
  and theorems.

Definitions named `Bug…` are variants of the definition after them with a
plausible mistake. Nothing uses them; they show that each property can fail:
replacing the definition by its variant makes TLC find the property violated
(`mutants` in `PROJECT.json`).

## Runs

| run (configuration) | inputs | shows |
|---|---|---|
| `MCOptimizer` | scan, 2 operators of the whole alphabet, filter; or 3 operators of those that stack filters; or products inside second inputs; 3 cost models | every rewrite is a Pushdown step; scopes; rows seen by every operator that is not transparent; the estimated size stays and the cost does not rise; one pass; termination |
| `MCOptimizerAggregate` | the same with aggregating projections | **violated**: `EvalKept` |
| `MCPlacement` | all lists of ≤ 4 clauses of 10 kinds, and of ≤ 6 projections and modifiers | accepted ⇔ well placed; the message blames the first clause out of place; a verdict is reached |
| `MCPipeline` | ≤ 2 clauses of 22, then a RETURN with modifiers or none; 2 or 3 UNION branches, options, refused queries; queries with a predicate to push, or one that reads nothing | no name in scope is reported (`NoFalseAlarm`); types are followed for the names the planner has (`TypedIsVisible`) and are what the binding operator yields (`TypesFitThePlan`); scope bookkeeping; UNION column counts; the plan means the query at every step of planning and rewriting; columns; the planner's plans are initial states of Pushdown; an answer is reached |
| `MCPipelineOrderBy` | MATCH (a) RETURN a.k AS b ORDER BY b | **violated**: `EveryNameIsBound` |
| `MCPlannerPipeline` | WITH followed by ORDER BY, SKIP or LIMIT | **violated**: `MeansTheQuery` |
| `MCPrune` | a scan and 2 operators of 29, a second input or a body, every subset of the columns asked; those plans with a DISTINCT or an aggregation on top, and UNIONs, asked for all their columns | what is demanded exists; an execution with it returns the same values and updates the same things |
| `MCPruneDistinct` | MATCH (x)-->(z) WITH DISTINCT x, z RETURN z | **violated**: `RowsFromSupply` |
| `MCExpressions` | every kind of expression over names, and over 7 expressions with scopes; every operator over literals of each type and typed columns, CASE, 10 functions, lists, scopes and scopes in them | the names returned are those looked up in the row, and those the analysis checks; nothing found is lost; an inferred type holds of the value; what evaluates is not reported |
| `MCExpressionsPattern` | comprehensions over patterns that name a column | **violated**: `UsedIsLookedUp` |
| `MCExpressionsShadow` | a WHERE over an iterator named like a column | **violated**: `NoFalseMismatch` |
| `MCMcp` | 2 lines of every kind, method, tool and query; a pipe that holds 1 answer | answers in order with their ids, none missing; tools agree, on failures too; unless the pipe stays full, every line that must have an answer gets it and the server stops at the end of its input |

Bounds. What `try_push_filter` does depends on the filter and the one operator
under it, and on what is bound below a product; two operators under a filter
with two variables give every pair of an operator the filter passes and one
that stops it, on both sides of a product, and the theorems below cover any
size. The placement walk remembers one head and four flags: six clauses hold a
head, its modifiers and a second head. The planner's state after a clause is the
plan, the names and the slots: two clauses give every pair in either order, and
three patterns or links occur within one MATCH. `MaxSynth` bounds made-up names
to the three a pattern of the runs can need. Demand goes through one operator
at a time and depends on what came from above: two operators over a scan and a
projection or none give an operator each of the others above and below, with
every demand. The plans of `MCPrune` bind no name twice; where they do is what
the violated runs are about. A scope of an expression concerns the names it
binds: three variables, of which a scope binds one or two, and three scopes
within each other are enough for a name to be shadowed and shadowed again.

A query is analyzed clause by clause with what the clauses before it bound: two
clauses and a RETURN bind a name, drop or rename it, and bind it again. Types of
two lists within each other and scopes within each other are what the checks look
at. The server keeps nothing between lines: two lines give every pair of requests
in either order, and any prefix of them read, answered or not when the client goes.
A pipe for one answer is full when the second is to be written; the theorems about
the server hold for any capacity.
The statistics of the cost models are chosen so that a filter below a LIMIT,
above a SKIP, over ranges with no, one and three lengths all matter.

Fairness. The stages are loops and recursions of one thread that never wait: they
keep running, so weak fairness of all their work together (`WF_vars(Work)`,
`WF_all(Step)` for the pipeline) is what "the call is executed" means. The server
goes on as long as it can (`WF_vars(Server)`): it waits for a line, for the end of
its input, or for room in the pipe. Its client is given no fairness: it need never
send, close or read. To a client that stops reading and keeps its end open, the
server has nothing to promise: it waits in `writeln!` for good, without an answer
for the lines behind and without stopping when the input ends. `EveryLineAnswered`
and `StopsAfterTheInput` are therefore said of the behaviours in which the pipe is
not left full (`Drained`), by a client that reads or hangs up.
No single action has fairness of its own. Once a call has returned, only a stutter
is left (`Returned`, `Rest`, `Done`), so that TLC's deadlock check means that the
program is never stuck; a server that waits for its client is no deadlock to TLC,
as the client may still read.

## What is proved

**The optimizer** (`OptimizerProofs`), for every set of variables, every number of
spines and every set of well-formed, well-scoped input plans of any length:

* `TypeCorrect` – the state is well typed. The invariant `Control` adds to the
  types that the spines keep the plan well formed and that the carried filter is
  on the spine being visited or on an earlier one.
* `ScopesAreKept` – no operator ever reads an unbound variable. Not inductive
  alone: `ScopeInv` adds that second inputs bind exactly what their operator
  adds to the scope, which is what makes a filter that sinks land in scope.
  The lemmas about `Swap`, `Drop` and `Append` come first in the module.
* `OptimizerImplementsPushdown` – the refinement: initial states are initial
  states, `Slide` and `Sink` are `MoveBelow` and `MoveAcross`, the rest stutters.
* `RowsAreKept` – no rewrite changes the rows a plan returns, nor the rows that any
  selecting, writing or combining operator is reached by (`RowsKept`): for any graph,
  any meaning of predicates, items and ranks, and plans of any length. Hypotheses:
  the constants give values (`TypedMeaning`), inputs are trees, and `FiltersInside`:
  no filter is above a UNION, and one above an aggregation of all rows into a single
  group reads something. Without the last it is false, which is finding 1; with it
  a filter passes an aggregation by groups, since it reads grouping columns only.
  The argument has four parts. (1) Each operator is shown to be what it does to each
  row (`Each`): laws of `FlattenSeq` by induction over sequences, for which the set of
  sequences that satisfy a law is shown to hold all of them (`SeqInduction`), as
  the library's induction theorem takes an operator. (2) Selecting before or after
  is the same for every operator a filter passes (`KeepBefore`, `PassApply`, and
  `PassGrouped`, for which duplicates of keys have to be removed before or after,
  `UniqueThose`). (3) `Tables`, the rows of all spines, is a recursive function over
  spines: it is shown to be the only one of its kind (`TablesOnly`), so the tables of
  the rewritten plan are those of the old one with one entry changed (`SwapRows`,
  `SinkKeepsRows`); rows bind what `Bound` says (`RowsTyped`). (4) The invariant
  `RowsInv` adds to `ScopeInv` that the plan stays a tree with its filters inside.
* `OnePassSuffices` – at most one pass changes the plan. `PassInv` says that
  every filter behind the pass is held where it is, that the operators above the
  carried filter let nothing through that was put down, and that this survives a
  filter being put on top of a spine that was already visited.

**The placement walk** (`PlacementProofs`), for statements of any length:

* `AcceptsOnlyWellPlaced` and `RejectsOnlyMisplaced` – the walk decides
  `WellPlaced`; `MessageFitsTheClause` – it stops at the first clause out of place.
  `WellPlaced` speaks of the whole list and the walk only has a flag, a slot and
  what was seen since: the invariant `Behind` says what each of them means for the
  clauses behind the walk, and that all of these are in their place.

**Pruning** (`PruneProofs`), for every plan whose operators read what their inputs
have and every demand on its columns:

* `DemandExists` – no operator is ever asked for a column that `output_columns`
  does not list (`DemandsAreTyped` is the type invariant). `RequiredExists` goes
  through the arms of `required_input_columns`; the invariant `Inv` carries that
  the plan is one the planner makes down the walk.

**The planner** (`PlannerProofs`), for queries of any clauses in any number, patterns
of any length and FOREACH in FOREACH to any depth:

* `VisibleNamesAreBound` – the names `plan_branch` keeps beside the plan are those
  the plan binds (`VisibleIsBound`). Assumes `Proper`: the parts of a query have the
  shape of the syntax tree, a schema command is a statement of its own
  (`cypher.pest`), and made-up names are none of the query's. `VInv` carries it
  through the lowering of a MATCH (`LowInv`: the names are those bound, those
  lowered so far and those still to come) and the stack of bodies (`FramesInv`).

* `AnalysisFollowsThePlanner` – after any clause of a branch, the names whose types
  the analysis follows are the names the planner has in scope (`TypedIsVisible`).
  The analysis starts a branch anew and the planner carries a set through lowering
  and through the frames of bodies; `FollowsInv` says which clauses the outermost
  frame is through with, that its names, less what a MATCH still has to come, are
  the domain of `TypesAt` of those clauses, and that the branch begins after the
  last UNION. `TypesAt` is a recursive function: that it has a value, and that the
  value for one clause more is `TypesAfter` of the value for one less, is shown by
  induction over a set of counterexamples (`SetInduction`), since the library's
  induction theorem takes an operator.

**The plans of the planner** (`PlannerFitProofs`), for the same queries. Four
theorems, on the invariant `FitInv`, which says of every piece of plan under
construction – the finished spines, the main plan of each frame, the patterns of a
MATCH lowered so far, the finished branches, the kept slots – that its operators are
typed, its leaves at the bottom, its second inputs finished spines that no other
operator uses, and what a second input binds exactly what its operator adds:

* `PlannerTyped` – the type invariant `TypeOK`.
* `PlansAreShaped` – the plan of any query is well formed, with exact right scopes.
* `PlansFitOptimize` – and no operator in it reads a variable that is not bound below
  it (`FitForOptimize`): the planner establishes what the optimizer assumes. Here
  queries must read names in scope (`ReadsInScope`, `MatchesInScope`); those that do
  not are what finding 2 and the limits below are about.
* `UnionColumnsAgree` – the branches of a planned UNION bind the same number of
  columns (`ColumnsAgree`). `plan_branch` counts the columns of a star from the names
  it keeps aside and the plan binds them from below: `ColumnsInv` ties the two through
  `VisibleNamesAreBound`. Needs columns to have names (`ColumnsHaveNames`) and RETURN
  to be the last clause of its branch (`ReturnIsLast`).

**From query to optimized plan** (`PipelineProofs`), putting the planner's and the
optimizer's theorems together at `HandOver`, so that what the one guarantees is what
the other needs and no input plan is assumed any more:

* `PipelineImplementsPushdown` – the plan handed over is an initial state of
  Pushdown and every later step is one of its steps or a stutter
  (`FromPlanToPushdown`); `ColumnsAreKept` (`ColumnsKept`); `OptimizedPlansFit` – the
  result is again a plan `optimize` may be given; `OnePassForEveryQuery`.
  The invariant `PipelineInv` is the planner's before the hand-over and the
  optimizer's after it; `Opt` and its theorems are taken through INSTANCE.
* `PlansKeepFiltersInside` – what `RowsAreKept` asks of an input plan is true of every
  plan handed over: it is a tree, no filter is above a UNION, and none that reads
  nothing is above an aggregation of all rows into one. `CalmInv` says so of every
  piece of plan under construction: the main plans of frames and branches, the path
  and the patterns of a MATCH, the finished spines. A UNION comes when the branches are
  done, and nothing is put above it; a filter comes from a WHERE, a CALL … WHERE or the
  inline properties of a pattern, and the last read the variable they are written at.
* `AnswersMeanTheirPlans` – so, for any query, graph and meaning of its expressions,
  the plan that is returned, and the plan after every rewrite on the way, has the rows
  of the plan that was handed over. The invariant `RowsPlanned` is `CalmInv` before the
  hand-over and the optimizer's `RowsInv` after it. Both theorems ask
  `ConstantsComeFirst` of the query: a WHERE that reads no variable stands before any
  projection of all rows into one. What happens to the others is finding 1.

**The variables of expressions** (`ExpressionsProofs`), for any expression:

* `WalkFindsFreeNames` – what `walk_expr` returns is `Free`, the names the expression
  depends on by its structure: a scope takes out what it binds from what its body
  adds. The walk has an agenda and a stack of sets, `Free` is a function on the
  nodes; `WalkInv` says that what is in each set, and what the rest of the agenda
  leads to (`Leads`), come to the whole.
* `WalkTyped` – as many local sets are open as there are scopes to close;
  `WalkForgetsNothing` – closing a scope takes names out of the set of that scope
  and of no set around it.

**Types** (`ExpressionsProofs`), for lists of any depth: `UnifyInAnyOrder` – the type
of a choice does not depend on the order of its parts; `UnifiedAcceptsBoth` – it
accepts them, but for an integer taken for a float; `LessKnownIsNeverRejected` – a
call that is accepted stays accepted when less is known of its arguments.

**The server** (`McpProofs`), for any lines in any number, any capacity of the pipe
and any pipeline of stages:

* `McpTypeOK`, `OneAnswerEachInOrder`, `ToolsAlwaysAgree`. The invariant `IInv` says
  what the answer being written belongs to; agreement needs in addition that every
  result in hand is the one the query, its plan or its analysis has (`Meaning`), and
  that what is found of a query without a plan is nothing of a plan. It covers every
  answer there is, those that report a failure included.

**Types and plans** (`PipelineProofs`), for the same queries:

* `TypesFollowThePlan` – what the analysis takes a name for after a clause is what
  the operator yields that binds the name last in the plan built so far, or the name
  is a projection's (`TypesFitThePlan`); `TypesFitInThePipeline` says it of
  `tool_explain`. That operator may be in a second input of a second input:
  `KindsOf` is a recursive function over the spines, which is shown to have a value
  by `SetInduction`, and to keep it for the spines that are finished when another is
  added (`SuitsGrow`). The invariant `SuitsInv` is the property of the outermost
  frame at every step of lowering and inside bodies (`BottomSuits`) and, while a
  MATCH is lowered, that each name of the patterns done is bound last by the
  operator of the last pattern that has it, and each name of the links done by its
  Expand (`LowSuits`). It needs `FitInv` (second inputs come before their users) and
  `FollowsInv` (which clauses the types are those of).
  Assumes `PathsApart`: a path does not share its name with an element of its own
  pattern. `add_pattern_types` takes such a name for the element (`sema.rs:300`),
  the plan binds it to the path.

Assumptions: `SpineAssumption` (there is a spine), `InputsAssumption`,
`StatementsAssumption` and `QuestionsAssumption` (inputs are plans, clauses, and
plans with sets of columns), `MeaningAssumption` (null is a value, ranks are numbered), `LineCount` and `MalformedIsEmpty` (text that is no
JSON has no method), `UnitAssumption`; TLC evaluates them in the runs. What is asked
of queries is a hypothesis of the theorems that need it, since it speaks of all
queries there are: `Proper` and `WellTyped` (the parts of a query have the shape of
the syntax tree), `ReadsInScope`, `EnoughSpines`, `MatchesInScope`,
`ColumnsHaveNames`, `ReturnIsLast`, `PathsApart`, `ConstantsComeFirst`. None of them is empty: TLC finds each
of them true of every query of `MCPipeline`. `IsTree`, `FiltersInside` and that the
constants give values (`TypedMeaning`) are assumed of `MCOptimizer`, so TLC evaluates them too. `EnoughSpines` is the bound of the model on second
inputs, of which the code has none.

Only model-checked: `MeansTheQuery`, `InferredFits`, `NoFalseMismatch`,
`UsedIsLookedUp` and `ReportedIsUsed` compare with evaluators that are RECURSIVE, and
proving them would be induction over data. `RowsFromSupply` and `UpdatesFromSupply`
hold for the shapes of the run only: what is selected and sorted by must be what is
required, which no general hypothesis short of the property says. `NeverDearer` and
`EstimateKept` hold for some statistics only;
`NoFalseAlarm` is about `UnboundIn`, which recurses into bodies. All liveness is TLC's.

## What the runs found

1. **Aggregation is pushed through.** `try_push_filter` looks at aliases only; a
   filter that reads no alias passes `WITH count(*) AS y` (`optimize.rs:259`),
   where the module doc says the rewriting preserves `eval` (`optimize.rs:24`).
2. **Modifiers of WITH are applied at the end of the branch**
   (`plan.rs:503-515`, `582-612`), where `ast.rs:78` calls WITH a pipeline break
   with the semantics of RETURN.
3. **A comprehension over a pattern is taken not to read the node it starts at**
   (`optimize.rs:501`, and the copy in `prune.rs`): a filter with
   `[(x)-->(p) | p]` passes the Expand that binds `x`, which `optimize.rs:16-18`
   excludes.
4. **Pruning loses what decides which rows there are**: the other columns of a
   DISTINCT (`prune.rs:380`), where `prune.rs:156` promises what the input "must
   supply".
5. **Sorting by a column of the RETURN is reported as unbound** (`sema.rs:398`, no
   arm for RETURN), where the README of the crate (`README.md:69-77`) asserts of such
   a query that the analysis has no errors.
6. **The WHERE of a list expression is checked with the wrong types once more**
   (`sema.rs:1192`): the name of the iterator stands for the column of that name
   around it, and `all(x IN [true] WHERE x)` is reported where `x` is an integer,
   against the "local iterator scope" of `docs/unimplemented.md:40`.

Met while modelling, at places the runs leave out, and described here only:

* Made-up names start again in every pattern (`plan.rs:662`, comment at
  `plan.rs:761`), while `CHANGELOG.md:78` says successive anonymous patterns get
  distinct names; `__node_0` is also a name that a query may use.
* Pruning does not require the grouping columns of an aggregation
  (`prune.rs:222`), the node an Expand closes a cycle at (`prune.rs:238`), nor the
  bound nodes a CREATE, MERGE or FOREACH connects (`prune.rs:277`), unless demanded.
* A filter above another filter stays above it (`optimize.rs:397`), so it goes less
  far than "as far down the tree as its predicate's variable references allow"
  (`optimize.rs:3`); this changes no result.
* The server answers `initialize`, `ping` and the tools also without an id, stays
  silent on notices that have one, and on JSON that is no object
  (`mcp.rs:39-40`, "Returns `None` for notifications (no response on the wire),
  `Some(json)` otherwise"). `AnswersInOrder` and `EveryLineAnswered` leave the answers
  open in which the comment and the arms differ, those to `initialize`, `ping` and
  the tools without an id and to notices with one: they are neither demanded nor
  refused (`Owed`, `MayAnswer`).
* `head` and `last` get the type of the list (`sema.rs:1606`): `head([true]) AND true`
  is reported. Also inexact: a REDUCE whose expression has another type in its scope
  than around it (`sema.rs:1464`), a name of a variable-length relationship, which
  is a Relationship and not a list (`sema.rs:309`), a row of LOAD CSV, which is always
  a Map (`sema.rs:279`), and a
  choice of an integer and a float, which is a Float and no index (`sema.rs:1522`).
* In `MATCH p = (p)-->()` the analysis takes `p` for a node (`sema.rs:300`, the path
  is typed before the elements) and the plan binds it to the path; nothing in the
  repository refuses such a pattern.
* A filter moved below may cost more by the estimate where the fan-out is under 1,
  an input of a product is nearly empty, or a Sort reaches its floor of one row
  (`cost.rs:316`).

## Not modelled, and the limits of what is

* The grammar and the lowering of its pairs (`cypher.pest`, `walk_*` of `parser.rs`):
  pest interprets the one, and the other translates node by node without state of
  its own. What could be wrong in it is about characters, which names and operators
  abstract from. The one decision the parser takes over a whole statement, the
  placement of clauses, is modelled.
* `Display` of plans and the texts of messages: layout that nothing reads back.
* Schemas: labels, relationship types, property and parameter types are looked up
  one by one in `sema.rs`; without a schema all of them are approved. Match hints and
  the targets of SET and REMOVE likewise. Functions: one of every shape of signature.
* Outside `UsedVars` and `TypeCheck`, expressions are the variables they read.
* Cost: the constants of `CardinalityCostModel`; items of SET, REMOVE, DELETE and
  actions of MERGE are one; CREATE UNIQUE is CREATE.
* Pruning: plans with joins on columns both inputs have, a CREATE with a pattern
  that reads what another of its patterns makes, and the pieces of a path that
  NamedPath and ShortestPath read without naming them, are left out of the runs.
* `UNION` and `UNION ALL` are not told apart by the planner, which only carries the
  flag; the estimate of both is modelled.
* `RowsKept` excludes filters that read nothing above an aggregation into one group,
  `MeansTheQuery` excludes WITH with
  modifiers, `NoFalseAlarm` excludes sorting by a column of the RETURN: there the
  code deviates, and the violation runs show it.
* A second input that reads variables of the first (a later MATCH whose
  properties read an earlier one, a correlated OPTIONAL MATCH), and RETURN a
  ORDER BY b, give plans that are not `WellScoped`; the runs and the theorems do
  not cover them. Likewise two patterns with anonymous elements in one query, in
  the runs.
* ShortestPath is in the alphabet of operators but in no query of the runs.
