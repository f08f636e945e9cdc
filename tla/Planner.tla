------------------------------ MODULE Planner -------------------------------
(***************************************************************************)
(* plan of src/src/plan.rs: a query becomes a logical plan.                *)
(*                                                                         *)
(* plan_branch goes through the clauses of a UNION branch, and calls       *)
(* itself on the body of a FOREACH: a stack of calls, innermost first.     *)
(* Each call builds the main spine of its plan, and keeps RETURN, ORDER    *)
(* BY, SKIP and LIMIT aside until its clauses are used up.  A MATCH is     *)
(* lowered pattern by pattern, a pattern link by link.                     *)
(*   plan     the second inputs built so far, and in the end the plan      *)
(*   free     the spine the next second input gets                         *)
(*   frames   the calls of plan_branch                                     *)
(*   low      the MATCH being lowered, Idle if none                        *)
(*   branches the UNION branches that are planned                          *)
(*   result   what plan returns: "planned", or an error                    *)
(***************************************************************************)
EXTENDS Plans, Clauses, SequencesExt

CONSTANTS Queries, Fresh(_, _)

VARIABLES query, plan, free, frames, low, branches, result

vars == <<query, plan, free, frames, low, branches, result>>

(* A slot the loop fills and the end of the branch empties: Option.        *)
None    == <<>>
Some(x) == <<x>>

Frame(clauses) ==
  [todo |-> clauses, main |-> <<>>, visible |-> {}, columns |-> None,
   project |-> None, distinct |-> FALSE,
   sort |-> None, skip |-> None, limit |-> None]

Idle == [on |-> FALSE, patterns |-> <<>>, combined |-> <<>>, path |-> <<>>,
         head |-> NoVar, next |-> 0, chain |-> <<>>]

Busy == result = "none"

Top    == Head(frames)
Clause == Head(Top.todo)

(* The loop of plan_branch is at a clause of one of these kinds.           *)
At(kinds) ==
  Busy /\ frames # <<>> /\ ~low.on /\ Top.todo # <<>> /\ Clause.kind \in kinds

(* The clause is done with; the frame becomes f.                           *)
Proceed(f) ==
  frames' = <<[f EXCEPT !.todo = Tail(@)]>> \o Tail(frames)

(* The clause puts operators on top of the plan and binds names.           *)
Emit(ops, names) ==
  /\ Proceed([Top EXCEPT !.main = @ \o ops, !.visible = @ \cup names])
  /\ UNCHANGED <<query, plan, free, low, branches, result>>

Fail(error) ==
  /\ result' = error
  /\ UNCHANGED <<query, plan, free, frames, low, branches>>

-----------------------------------------------------------------------------
(* lower_pattern.                                                          *)

(* effective_var: an element without a variable gets one if a predicate    *)
(* needs it.                                                               *)
Synthesizes(e) == e.var = NoVar /\ (e.props \/ e.map)

EffectiveVar(e, prefix, next) ==
  IF Synthesizes(e) THEN Fresh(prefix, next) ELSE e.var

After(e, next) == IF Synthesizes(e) THEN next + 1 ELSE next

(* The predicates of an element: pattern_property_filter, then the map.    *)
Predicates(e, var) ==
  (IF e.props THEN <<Node("Filter", {var} \cup e.reads, {})>> ELSE <<>>)
    \o (IF e.map THEN <<Node("PropertyMapFilter", {var}, {})>> ELSE <<>>)

(* A MATCH with these patterns left, the first one lowered to its anchor:  *)
(* a scan and its predicates; combined is the plan of the ones before.     *)
Lowering(patterns, combined) ==
  LET p   == Head(patterns)
      var == EffectiveVar(p.anchor, "node", 0)
  IN  [on |-> TRUE, patterns |-> patterns, combined |-> combined,
       path  |-> <<Node("Scan", {}, Named(var))>> \o Predicates(p.anchor, var),
       head  |-> var,
       next  |-> After(p.anchor, 0),
       chain |-> p.chain]

(* MATCH: its names become visible and lowering starts.                    *)
BeginMatch ==
  /\ At({"Match"})
  /\ IF Clause.patterns = <<>> THEN Fail("EmptyQuery")
     ELSE /\ frames' = <<[Top EXCEPT !.visible =
                            @ \cup Patterns(Clause.patterns, PatternBindings)]>>
                         \o Tail(frames)
          /\ low' = Lowering(Clause.patterns, <<>>)
          /\ UNCHANGED <<query, plan, free, branches, result>>

(* One link of the chain: an Expand and the predicates of both elements.   *)
LowerLink ==
  /\ Busy /\ low.on /\ low.patterns # <<>> /\ low.chain # <<>>
  /\ LET c    == Head(low.chain)
         rel  == EffectiveVar(c.rel, "rel", low.next)
         next == After(c.rel, low.next)
         dst  == EffectiveVar(c.node, "node", next)
     IN low' = [low EXCEPT
                  !.path = @ \o <<Node("Expand", Named(low.head),
                                       Named(rel) \cup Named(dst))>>
                             \o Predicates(c.rel, rel)
                             \o Predicates(c.node, dst),
                  !.head = dst,
                  !.next = After(c.node, next),
                  !.chain = Tail(@)]
  /\ UNCHANGED <<query, plan, free, frames, branches, result>>

(* Definitions named a bug are what the code could get wrong; nothing uses *)
(* them, and the properties of this module tell them apart.                *)
(* Bug: every pattern of a MATCH is given the same second input.           *)
BugPatternDone ==
  /\ Busy /\ low.on /\ low.patterns # <<>> /\ low.chain = <<>>
  /\ LET more  == Tail(low.patterns)
         first == low.combined = <<>>
         sofar == IF first THEN low.path
                  ELSE Append(low.combined,
                              Branching("Cartesian", free, BoundVars(low.path)))
     IN /\ low' = IF more = <<>>
                  THEN [low EXCEPT !.patterns = more, !.combined = sofar]
                  ELSE Lowering(more, sofar)
        /\ plan' = IF first THEN plan ELSE [plan EXCEPT ![free] = low.path]
  /\ UNCHANGED <<query, free, frames, branches, result>>

(* The pattern is lowered: the first starts the MATCH, each other is a     *)
(* second input of a product.                                              *)
PatternDone ==
  /\ Busy /\ low.on /\ low.patterns # <<>> /\ low.chain = <<>>
  /\ LET p    == Head(low.patterns)
         more == Tail(low.patterns)
         done == low.path
                   \o (IF p.shortest THEN <<Node("ShortestPath", {}, {})>> ELSE <<>>)
                   \o (IF p.path # NoVar THEN <<Node("NamedPath", {}, {p.path})>>
                                         ELSE <<>>)
         first == low.combined = <<>>
         sofar == IF first THEN done
                  ELSE Append(low.combined,
                              Branching("Cartesian", free, BoundVars(done)))
     IN /\ low' = IF more = <<>>
                  THEN [low EXCEPT !.patterns = more, !.combined = sofar]
                  ELSE Lowering(more, sofar)
        /\ plan' = IF first THEN plan ELSE [plan EXCEPT ![free] = done]
        /\ free' = IF first THEN free ELSE free + 1
  /\ UNCHANGED <<query, frames, branches, result>>

(* Bug: the MATCH joins what is there, but lowering does not end.          *)
BugEndMatchStays ==
  /\ Busy /\ low.on /\ low.patterns = <<>>
  /\ Proceed([Top EXCEPT !.main = low.combined])
  /\ UNCHANGED <<query, plan, free, low, branches, result>>

(* lower_match returns, hints on top; the MATCH joins what is there.       *)
EndMatch ==
  /\ Busy /\ low.on /\ low.patterns = <<>>
  /\ LET hint    == Node("PlannerHint", {}, {})
         lowered == low.combined \o [i \in 1..Clause.hints |-> hint]
         joins   == IF Clause.optional THEN "Optional" ELSE "Cartesian"
         second  == Branching(joins, free, BoundVars(lowered))
     IN IF Top.main = <<>>
        THEN IF Clause.optional
             THEN Fail("OptionalMatchWithoutAnchor")
             ELSE /\ Proceed([Top EXCEPT !.main = lowered])
                  /\ low' = Idle
                  /\ UNCHANGED <<query, plan, free, branches, result>>
        ELSE /\ Proceed([Top EXCEPT !.main = Append(@, second)])
             /\ plan' = [plan EXCEPT ![free] = lowered]
             /\ free' = free + 1
             /\ low' = Idle
             /\ UNCHANGED <<query, branches, result>>

-----------------------------------------------------------------------------
(* The other clauses.                                                      *)
Where ==
  /\ At({"Where"})
  /\ Emit(<<Node("Filter", Clause.reads, {})>>, {})

(* CALL; its own WHERE filters what it yields.                             *)
Call ==
  /\ At({"Call"})
  /\ Emit(<<Node("ProcedureCall", Clause.reads, Clause.binds)>>
            \o [i \in 1..Len(Clause.pred) |-> Node("Filter", Clause.pred[i], {})],
          Clause.binds)

LoadCsv ==
  /\ At({"LoadCsv"})
  /\ Emit(<<Node("LoadCsv", Clause.reads, Clause.binds)>>, Clause.binds)

Unwind ==
  /\ At({"Unwind"})
  /\ Emit(<<Node("Unwind", Clause.reads, Clause.binds)>>, Clause.binds)

(* START; its predicate is part of the operator.                           *)
Start ==
  /\ At({"Start"})
  /\ Emit(<<Node("Start", Clause.reads, Clause.binds)>>, Clause.binds)

(* CREATE and MERGE bind the names of their patterns.                      *)
Write ==
  /\ At({"Create", "Merge"})
  /\ LET part(p) == Part(PatternBindings(p), PatternReads(p))
         parts   == [i \in 1..Len(Clause.patterns) |-> part(Clause.patterns[i])]
                      \o (IF Clause.kind = "Merge" THEN <<Part({}, Clause.reads)>>
                                                  ELSE <<>>)
         op      == Node(Clause.kind, Reads(parts) \ Names(parts), Names(parts))
     IN  Emit(<<[op EXCEPT !.parts = parts]>>, Names(parts))

Update ==
  /\ At({"Set", "Remove", "Delete"})
  /\ Emit(<<Node(Clause.kind, Clause.reads, {})>>, {})

(* A schema command replaces the plan.                                     *)
SchemaCommand ==
  /\ At({"SchemaCommand"})
  /\ Proceed([Top EXCEPT !.main = <<Node("SchemaCommand", {}, {})>>])
  /\ UNCHANGED <<query, plan, free, low, branches, result>>

(* The items of a projection: return_item_name, and the operator.          *)
ItemName(item) == IF item.alias # NoVar THEN item.alias ELSE item.expr

ItemNames(items) == UNION {Named(ItemName(items[i])) : i \in 1..Len(items)}

ProjectItems(star, items) ==
  LET n    == Len(items)
      part(item) == Part(Named(ItemName(item)), item.reads)
  IN  Projection(star, [i \in 1..n |-> part(items[i])],
                 UNION {Named(items[i].alias) : i \in 1..n},
                 \E i \in 1..n : items[i].agg)

Deduplicate(distinct) == IF distinct THEN <<Node("Distinct", {}, {})>> ELSE <<>>

(* Bug: names stay visible above a projection that drops them.             *)
BugWith ==
  /\ At({"With"})
  /\ Proceed([Top EXCEPT
        !.main = @ \o <<ProjectItems(Clause.star, Clause.items)>>
                   \o Deduplicate(Clause.distinct),
        !.visible = @ \cup ItemNames(Clause.items)])
  /\ UNCHANGED <<query, plan, free, low, branches, result>>

With ==
  /\ At({"With"})
  /\ Proceed([Top EXCEPT
        !.main = @ \o <<ProjectItems(Clause.star, Clause.items)>>
                   \o Deduplicate(Clause.distinct),
        !.visible = (IF Clause.star THEN @ ELSE {}) \cup ItemNames(Clause.items)])
  /\ UNCHANGED <<query, plan, free, low, branches, result>>

(* RETURN is kept for the end of the branch.                               *)
Return ==
  /\ At({"Return"})
  /\ Proceed([Top EXCEPT
        !.project  = Some(ProjectItems(Clause.star, Clause.items)),
        !.distinct = Clause.distinct,
        !.columns  = Some(Len(Clause.items)
                       + IF Clause.star THEN Cardinality(Top.visible) ELSE 0)])
  /\ UNCHANGED <<query, plan, free, low, branches, result>>

(* So are ORDER BY, SKIP and LIMIT, one of each, whatever they follow.     *)
OrderBy ==
  /\ At({"OrderBy"})
  /\ Proceed([Top EXCEPT !.sort = Some(Node("Sort", Clause.reads, {}))])
  /\ UNCHANGED <<query, plan, free, low, branches, result>>

Skip ==
  /\ At({"Skip"})
  /\ Proceed([Top EXCEPT !.skip = Some(Node("Skip", Clause.reads, {}))])
  /\ UNCHANGED <<query, plan, free, low, branches, result>>

Limit ==
  /\ At({"Limit"})
  /\ Proceed([Top EXCEPT !.limit = Some(Node("Limit", Clause.reads, {}))])
  /\ UNCHANGED <<query, plan, free, low, branches, result>>

(* Bug: LIMIT goes below SKIP.                                             *)
BugStacked(f) ==
  f.main \o f.project
    \o (IF f.project # None THEN Deduplicate(f.distinct) ELSE <<>>)
    \o f.sort \o f.limit \o f.skip

(* The end of plan_branch: what was kept goes on top.                      *)
Stacked(f) ==
  f.main \o f.project
    \o (IF f.project # None THEN Deduplicate(f.distinct) ELSE <<>>)
    \o f.sort \o f.skip \o f.limit

(* FOREACH: plan_branch calls itself on the body.                          *)
BeginForeach ==
  /\ At({"Foreach"})
  /\ frames' = <<Frame(Clause.body)>> \o frames
  /\ UNCHANGED <<query, plan, free, low, branches, result>>

EndBody ==
  /\ Busy /\ Len(frames) > 1 /\ ~low.on /\ Top.todo = <<>>
  /\ LET outer == frames[2]
         each  == Head(outer.todo)
         op    == [Branching("Foreach", free, {})
                     EXCEPT !.used = each.reads, !.parts = <<Part({each.var}, each.reads)>>]
     IN frames' = <<[outer EXCEPT !.main = Append(@, op), !.todo = Tail(@)]>>
                    \o Tail(Tail(frames))
  /\ plan' = [plan EXCEPT ![free] = Stacked(Top)]
  /\ free' = free + 1
  /\ UNCHANGED <<query, low, branches, result>>

-----------------------------------------------------------------------------
(* plan.                                                                   *)
Begin ==
  /\ Busy /\ frames = <<>> /\ branches = <<>>
  /\ IF query.more THEN Fail("MultipleStatementsUnsupported")
     ELSE IF query.clauses = <<>> THEN Fail("EmptyQuery")
     ELSE /\ frames' = <<Frame(query.clauses)>>
          /\ UNCHANGED <<query, plan, free, low, branches, result>>

(* A branch ends at a UNION or with the query.                             *)
EndBranch ==
  /\ Busy /\ Len(frames) = 1 /\ ~low.on
  /\ Top.todo # <<>> => Clause.kind = "Union"
  /\ branches' = Append(branches, [main |-> Stacked(Top), columns |-> Top.columns])
  /\ frames' = IF Top.todo = <<>> THEN <<>> ELSE <<Frame(Tail(Top.todo))>>
  /\ UNCHANGED <<query, plan, free, low, result>>

(* apply_query_options: the last option first; CYPHER puts nothing on top. *)
OptionOps(options) ==
  LET last(i) == options[Len(options) + 1 - i]
      Around[i \in 0..Len(options)] ==
        IF i = 0 THEN <<>>
        ELSE IF last(i) = "Cypher" THEN Around[i - 1]
        ELSE Append(Around[i - 1], Node(last(i), {}, {}))
  IN  Around[Len(options)]

(* Bug: only a missing RETURN is noticed, not the number of columns.       *)
BugColumnError ==
  IF Len(branches) > 1 /\ \E k \in 1..Len(branches) : branches[k].columns = None
  THEN "UnionBranchWithoutReturn" ELSE "none"

ColumnError ==
  LET bad == {k \in 1..Len(branches) : branches[k].columns # branches[1].columns
                                       \/ branches[k].columns = None}
  IN  IF Len(branches) = 1 \/ bad = {} THEN "none"
      ELSE IF branches[Min(bad)].columns = None THEN "UnionBranchWithoutReturn"
      ELSE "UnionColumnCountMismatch"

(* Bug: branches that do not fit are planned once more.                    *)
BugCombineRetry ==
  /\ Busy /\ frames = <<>> /\ branches # <<>>
  /\ IF ColumnError # "none"
     THEN /\ branches' = <<>> /\ free' = 1
          /\ UNCHANGED <<query, plan, frames, low, result>>
     ELSE /\ result' = "planned"
          /\ UNCHANGED <<query, plan, free, frames, low, branches>>

(* Every branch is planned: they are combined from the left, and the query *)
(* options go around the whole, the first one outermost.                   *)
Combine ==
  /\ Busy /\ frames = <<>> /\ branches # <<>>
  /\ IF ColumnError # "none" THEN Fail(ColumnError)
     ELSE LET n == Len(branches) - 1
              unions == [k \in 1..n |->
                           Branching("Union", free + k - 1,
                                     BoundVars(branches[k + 1].main))]
              root == branches[1].main \o unions \o OptionOps(query.options)
          IN /\ plan' = [s \in Spines |->
                           IF s = Root THEN root
                           ELSE IF s \in free..(free + n - 1)
                           THEN branches[s - free + 2].main ELSE plan[s]]
             /\ free' = free + n
             /\ result' = "planned"
             /\ UNCHANGED <<query, frames, low, branches>>

Returned == ~Busy /\ UNCHANGED vars

Init ==
  /\ query \in Queries
  /\ plan = [s \in Spines |-> <<>>]
  /\ free = 1
  /\ frames = <<>>
  /\ low = Idle
  /\ branches = <<>>
  /\ result = "none"

Lower == BeginMatch \/ LowerLink \/ PatternDone \/ EndMatch

Work ==
  \/ Begin \/ Lower \/ Where \/ Call \/ LoadCsv \/ Unwind \/ Start \/ Write
  \/ Update \/ SchemaCommand \/ With \/ Return \/ OrderBy \/ Skip \/ Limit
  \/ BeginForeach \/ EndBody \/ EndBranch \/ Combine

Next == Work \/ Returned

Spec == Init /\ [][Next]_vars /\ WF_vars(Work)

-----------------------------------------------------------------------------
Building == {frames[i].main : i \in 1..Len(frames)}
              \cup {branches[i].main : i \in 1..Len(branches)}
              \cup {low.path, low.combined}

TypeOK ==
  /\ plan \in [Spines -> Seq(Op)]
  /\ free \in 1..(NumSpines + 1)
  /\ Building \subseteq Seq(Op)
  /\ \A i \in 1..Len(frames) :
       /\ frames[i].visible \subseteq UserVars
       /\ \A slot \in {"project", "sort", "skip", "limit"} :
            frames[i][slot] \in Seq(Op) /\ Len(frames[i][slot]) <= 1
  /\ low.on => frames # <<>> /\ Top.todo # <<>> /\ Clause.kind = "Match"
  /\ result \in {"none", "planned", "MultipleStatementsUnsupported", "EmptyQuery",
                 "OptionalMatchWithoutAnchor", "UnionBranchWithoutReturn",
                 "UnionColumnCountMismatch"}

(* The names plan_branch keeps to count the columns of a star are the ones *)
(* the plan it builds binds, but for those it makes up, after any clauses  *)
(* and in every nested call: UNION compares the counts, and never looks at *)
(* the plans.                                                              *)
VisibleIsBound ==
  \A i \in 1..Len(frames) :
     ~low.on => frames[i].visible = BoundVars(frames[i].main) \cap UserVars

(* The plan fits what optimize takes for granted of it: second inputs are  *)
(* built before what uses them and used once, a two-input operator adds    *)
(* the scope of its second input, leaves are at the bottom, and nothing    *)
(* reads a variable that is not bound below it.                            *)
FitForOptimize ==
  result = "planned" =>
    /\ WellFormed(plan) /\ RightScopesExact(plan) /\ WellScoped(plan)
    /\ \A s \in Spines : \A i \in 2..Len(plan[s]) :
         plan[s][i].kind \notin LeafKinds
    /\ \A r \in 1..(free - 1) :
         \E s \in Spines : \E i \in 1..Len(plan[s]) :
            /\ plan[s][i].right = r
            /\ \A u \in Spines : \A j \in 1..Len(plan[u]) :
                 plan[u][j].right = r => u = s /\ j = i

(* PlanError::UnionColumnCountMismatch, "UNION branches must project the   *)
(* same number of columns": the branches of a planned UNION do, in the     *)
(* plan, when every column has a name.                                     *)
Outputs(main) == Cardinality(BoundVars(main) \cap UserVars)

ColumnsAgree ==
  result = "planned" =>
    \A i \in 1..Len(branches) :
       branches[i].columns # None =>
         Outputs(branches[i].main) = Outputs(branches[1].main)
=============================================================================
