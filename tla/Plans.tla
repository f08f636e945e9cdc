------------------------------- MODULE Plans --------------------------------
(***************************************************************************)
(* Logical plans of src/src/plan.rs, as data.                              *)
(*                                                                         *)
(* A plan is a tree in which every operator has one main input and a few   *)
(* operators (Cartesian, Optional, Foreach, Union) have a second one.      *)
(* Following main inputs from an operator down to a leaf gives a SPINE: a  *)
(* sequence of operators, leaf first.  A plan is a family of spines; an    *)
(* operator with a second input names the spine that computes it.  Spines  *)
(* are numbered so that a second input has a smaller number than the spine *)
(* that uses it; the highest number is the root.  The empty spine is       *)
(* Plan::Empty.                                                            *)
(*                                                                         *)
(* Expressions are abstracted to the set of variables they read, which is  *)
(* all that placing a predicate depends on.                                *)
(***************************************************************************)
EXTENDS Integers, Sequences

CONSTANTS Vars,      \* variable names of the query
          NumSpines  \* how many spines a plan has

ASSUME SpineAssumption == NumSpines \in Nat \ {0}

Spines == 1..NumSpines
Root   == NumSpines

(* Leaves, operators with one input, operators with two.                   *)
LeafKinds == {"Scan", "SchemaCommand"}

BinaryKinds == {"Cartesian", "Optional", "Foreach", "Union"}

UnaryKinds ==
  {"Expand", "Filter", "PropertyMapFilter", "Project", "Sort", "Skip",
   "Limit", "ShortestPath", "NamedPath", "PlannerHint", "ProcedureCall",
   "LoadCsv", "Create", "Merge", "Set", "Remove", "Delete", "Unwind",
   "Start", "PeriodicCommit", "Explain", "Profile", "Distinct"}

Kinds == LeafKinds \cup UnaryKinds \cup BinaryKinds

(***************************************************************************)
(* An operator.                                                            *)
(*   used   the variables of its input that its expressions read           *)
(*   intro  the variables it adds to the scope of its main input           *)
(*   parts  the arguments that give names, in order: the items of a        *)
(*          Project, the patterns of a Create or Merge (and what the       *)
(*          actions of the Merge read), the variable of a Foreach          *)
(*   alias  for a Project, the names given with AS; a subset of intro,     *)
(*          the rest of intro being variables projected under their own    *)
(*          name                                                           *)
(*   keep   for a Project, include_existing: the star of a projection      *)
(*   agg    for a Project, whether an expression aggregates rows           *)
(*   right  the spine of the second input, 0 if there is none              *)
(***************************************************************************)
Argument == [names : SUBSET Vars, reads : SUBSET Vars]

Op == [kind  : Kinds,
       used  : SUBSET Vars,
       intro : SUBSET Vars,
       parts : Seq(Argument),
       alias : SUBSET Vars,
       keep  : BOOLEAN,
       agg   : BOOLEAN,
       right : 0..NumSpines]

Node(kind, used, intro) ==
  [kind |-> kind, used |-> used, intro |-> intro, parts |-> <<>>,
   alias |-> {}, keep |-> TRUE, agg |-> FALSE, right |-> 0]

Part(names, reads) == [names |-> names, reads |-> reads]

Names(parts) == UNION {parts[i].names : i \in 1..Len(parts)}
Reads(parts) == UNION {parts[i].reads : i \in 1..Len(parts)}

Column(v) == Part({v}, {v})    \* an item that is a bare variable

Projection(keep, parts, alias, agg) ==
  [Node("Project", Reads(parts), Names(parts))
     EXCEPT !.parts = parts, !.alias = alias, !.keep = keep, !.agg = agg]

Branching(kind, right, intro) ==
  [Node(kind, {}, intro) EXCEPT !.right = right]

IsFilter(op) == op.kind = "Filter"

(* A projection without the star hides every variable below it.            *)
HidesInput(op) == op.kind = "Project" /\ ~op.keep

(***************************************************************************)
(* bound_vars: the variables in scope above the first n operators of the   *)
(* spine q: the ones some operator introduces and no later operator hides. *)
(***************************************************************************)
Bound(q, n) ==
  {v \in Vars : \E j \in 1..n :
                   /\ v \in q[j].intro
                   /\ \A k \in (j + 1)..n : ~HidesInput(q[k])}

BoundVars(q) == Bound(q, Len(q))

(***************************************************************************)
(* What plan_branch and lower_match build: filters and row-selecting       *)
(* operators bind nothing; a projection reads the variables it passes      *)
(* through; two-input operators take their second input from an earlier    *)
(* spine, whose variables all but Foreach add to the scope.                *)
(***************************************************************************)
BindingKinds ==
  {"Scan", "Expand", "Project", "NamedPath", "ProcedureCall", "LoadCsv",
   "Create", "Merge", "Unwind", "Start", "Cartesian", "Optional", "Union"}

WellFormedOp(s, op) ==
  /\ op.kind \notin BindingKinds => op.intro = {}
  /\ op.kind = "Project" => op.alias \subseteq op.intro
                            /\ op.intro \ op.alias \subseteq op.used
  /\ IF op.kind \in BinaryKinds THEN op.right \in 1..(s - 1)
                                ELSE op.right = 0

WellFormed(plan) ==
  \A s \in Spines : \A i \in 1..Len(plan[s]) : WellFormedOp(s, plan[s][i])

(* The scope a two-input operator adds is the scope of its second input.   *)
RightScopesExact(plan) ==
  \A s \in Spines : \A i \in 1..Len(plan[s]) :
     plan[s][i].kind \in {"Cartesian", "Optional", "Union"}
       => plan[s][i].intro = BoundVars(plan[plan[s][i].right])

(* Every operator reads only variables that its main input binds.          *)
WellScoped(plan) ==
  \A s \in Spines : \A i \in 1..Len(plan[s]) :
     plan[s][i].used \subseteq Bound(plan[s], i - 1)

(***************************************************************************)
(* Moving a filter: below its input, out of a spine, on top of a spine.    *)
(***************************************************************************)
Swap(q, p) ==
  [i \in 1..Len(q) |-> IF i = p - 1 THEN q[p]
                       ELSE IF i = p THEN q[p - 1] ELSE q[i]]

Drop(q, p) ==
  [i \in 1..(Len(q) - 1) |-> IF i < p THEN q[i] ELSE q[i + 1]]
=============================================================================
