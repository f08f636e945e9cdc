--------------------------- MODULE PipelineProofs ---------------------------
(***************************************************************************)
(* What is proved of the planner and what is proved of optimize, put       *)
(* together along tool_explain: every plan that is handed over fits, and   *)
(* it stays a sound plan with the same columns until it is returned.       *)
(* Then the analysis and the planner: the types the one follows are those  *)
(* of the operators that bind the names in the plans of the other.  Last,  *)
(* the rows: what is returned has the rows of the plan of the query.       *)
(***************************************************************************)
EXTENDS Pipeline, PlannerFitProofs, PlanSemantics

(* The facts about optimize, of the plan the two have in common.           *)
Fact == INSTANCE OptimizerProofs WITH Inputs <- {}

-----------------------------------------------------------------------------
(* Plans, Optimizer and Pushdown are the same modules wherever they are    *)
(* used: plans, their scopes, the arms of try_push_filter, its steps.      *)
LEMMA SamePlans ==
  /\ Fact!Spines = Spines /\ Fact!Root = Root /\ Fact!Op = Op
  /\ Opt!Spines = Spines /\ Opt!Root = Root
  /\ \A q, n : Fact!Bound(q, n) = Bound(q, n) /\ Opt!Bound(q, n) = Bound(q, n)
  /\ \A q : Fact!BoundVars(q) = BoundVars(q) /\ Opt!BoundVars(q) = BoundVars(q)
  /\ \A q, p : /\ Fact!Swap(q, p) = Opt!Swap(q, p)
               /\ Fact!Drop(q, p) = Opt!Drop(q, p)
  /\ \A op : Fact!IsFilter(op) <=> Opt!IsFilter(op)
<1>1. /\ Fact!Spines = Spines /\ Fact!Root = Root
      /\ Opt!Spines = Spines /\ Opt!Root = Root
  BY DEF Fact!Spines, Fact!Root, Opt!Spines, Opt!Root, Spines, Root
<1>2. Fact!Op = Op
  BY DEF Fact!Op, Op, Fact!Argument, Argument, Fact!Kinds, Kinds,
         Fact!LeafKinds, LeafKinds, Fact!UnaryKinds, UnaryKinds,
         Fact!BinaryKinds, BinaryKinds
<1>3. \A q, n : Fact!Bound(q, n) = Bound(q, n) /\ Opt!Bound(q, n) = Bound(q, n)
  BY DEF Fact!Bound, Opt!Bound, Bound, Fact!HidesInput, Opt!HidesInput, HidesInput
<1>4. \A q : Fact!BoundVars(q) = BoundVars(q) /\ Opt!BoundVars(q) = BoundVars(q)
  BY <1>3 DEF Fact!BoundVars, Opt!BoundVars, BoundVars
<1>5. /\ \A q, p : /\ Fact!Swap(q, p) = Opt!Swap(q, p)
                   /\ Fact!Drop(q, p) = Opt!Drop(q, p)
      /\ \A op : Fact!IsFilter(op) <=> Opt!IsFilter(op)
  BY DEF Fact!Swap, Opt!Swap, Fact!Drop, Opt!Drop, Fact!IsFilter, Opt!IsFilter
<1> QED
  BY <1>1, <1>2, <1>3, <1>4, <1>5, Zenon

LEMMA SameArms ==
  /\ \A q, p : Opt!Slides(q, p) <=> Fact!Slides(q, p)
  /\ \A pl, q, p : Opt!GoesRight(pl, q, p) <=> Fact!GoesRight(pl, q, p)
  /\ \A pl, s, p : Opt!Held(pl, s, p) <=> Fact!Held(pl, s, p)
<1>1. \A q, p : Opt!Slides(q, p) <=> Fact!Slides(q, p)
  BY SamePlans
     DEF Opt!Slides, Fact!Slides, Opt!PassesProject, Fact!PassesProject,
         Opt!PassesSort, Fact!PassesSort, Opt!PassesExpand, Fact!PassesExpand,
         Opt!PassesNamedPath, Fact!PassesNamedPath, Opt!PassesLoadCsv,
         Fact!PassesLoadCsv, Opt!PassesPropertyMapFilter,
         Fact!PassesPropertyMapFilter, Opt!GoesLeft, Fact!GoesLeft
<1>2. \A pl, q, p : Opt!GoesRight(pl, q, p) <=> Fact!GoesRight(pl, q, p)
  BY SamePlans DEF Opt!GoesRight, Fact!GoesRight
<1> QED
  BY <1>1, <1>2 DEF Opt!Held, Fact!Held

LEMMA SameSteps == Opt!Work => Fact!Next
<1> USE SamePlans, SameArms DEF Opt!Flying, Fact!Flying, Opt!Grounded, Fact!Grounded
<1>1. Opt!Visit => Fact!Visit
  BY DEF Opt!Visit, Fact!Visit
<1>2. Opt!PickUp => Fact!PickUp
  BY DEF Opt!PickUp, Fact!PickUp
<1>3. Opt!Slide => Fact!Slide
  BY DEF Opt!Slide, Fact!Slide
<1>4. Opt!Sink => Fact!Sink
  BY DEF Opt!Sink, Fact!Sink
<1>5. Opt!Rest => Fact!Rest
  BY DEF Opt!Rest, Fact!Rest
<1>6. Opt!NextSpine => Fact!NextSpine
  BY DEF Opt!NextSpine, Fact!NextSpine
<1>7. Opt!Again => Fact!Again
  BY DEF Opt!Again, Fact!Again
<1>8. Opt!Finish => Fact!Finish
  BY DEF Opt!Finish, Fact!Finish
<1> QED
  BY <1>1, <1>2, <1>3, <1>4, <1>5, <1>6, <1>7, <1>8 DEF Opt!Work, Fact!Next, Fact!Work

LEMMA SameSoundness ==
  \A pl : Fact!Sound(pl) <=> WellFormed(pl) /\ RightScopesExact(pl) /\ WellScoped(pl)
<1>1. \A pl : Fact!WellFormed(pl) <=> WellFormed(pl)
  BY SamePlans
     DEF Fact!WellFormed, WellFormed, Fact!WellFormedOp, WellFormedOp,
         Fact!BindingKinds, BindingKinds, Fact!BinaryKinds, BinaryKinds
<1>2. \A pl : Fact!RightScopesExact(pl) <=> RightScopesExact(pl)
  BY SamePlans DEF Fact!RightScopesExact, RightScopesExact
<1>3. \A pl : Fact!WellScoped(pl) <=> WellScoped(pl)
  BY SamePlans DEF Fact!WellScoped, WellScoped
<1> QED
  BY <1>1, <1>2, <1>3 DEF Fact!Sound

LEMMA SamePromise == Fact!Promise!Next => Opt!Promise!Next
<1>1. /\ Fact!Promise!Spines = Opt!Promise!Spines
      /\ Fact!Promise!Transparent = Opt!Promise!Transparent
      /\ \A q, n : Fact!Promise!Bound(q, n) = Opt!Promise!Bound(q, n)
      /\ \A op : /\ Fact!Promise!Writes(op) = Opt!Promise!Writes(op)
                 /\ Fact!Promise!IsFilter(op) <=> Opt!Promise!IsFilter(op)
      /\ \A q, p : /\ Fact!Promise!Swap(q, p) = Opt!Promise!Swap(q, p)
                   /\ Fact!Promise!Drop(q, p) = Opt!Promise!Drop(q, p)
  BY DEF Fact!Promise!Spines, Opt!Promise!Spines,
         Fact!Promise!Transparent, Opt!Promise!Transparent,
         Fact!Promise!Bound, Opt!Promise!Bound,
         Fact!Promise!HidesInput, Opt!Promise!HidesInput,
         Fact!Promise!Writes, Opt!Promise!Writes,
         Fact!Promise!IsFilter, Opt!Promise!IsFilter,
         Fact!Promise!Swap, Opt!Promise!Swap, Fact!Promise!Drop, Opt!Promise!Drop
<1>2. \A q : Fact!Promise!BoundVars(q) = Opt!Promise!BoundVars(q)
  BY <1>1 DEF Fact!Promise!BoundVars, Opt!Promise!BoundVars
<1>3. \A s, p : Fact!Promise!FilterAt(s, p) <=> Opt!Promise!FilterAt(s, p)
  BY <1>1 DEF Fact!Promise!FilterAt, Opt!Promise!FilterAt
<1>4. \A s, p : Fact!Promise!MoveBelow(s, p) => Opt!Promise!MoveBelow(s, p)
  BY <1>1, <1>3 DEF Fact!Promise!MoveBelow, Opt!Promise!MoveBelow
<1>5. \A s, p : Fact!Promise!MoveAcross(s, p) => Opt!Promise!MoveAcross(s, p)
  BY <1>1, <1>2, <1>3 DEF Fact!Promise!MoveAcross, Opt!Promise!MoveAcross
<1> QED
  BY <1>1, <1>4, <1>5 DEF Fact!Promise!Next, Opt!Promise!Next

LEMMA SameStart ==
  plan \in [Spines -> Seq(Op)] /\ WellFormed(plan) /\ RightScopesExact(plan)
    /\ WellScoped(plan) => Opt!Promise!Init
<1> USE DEF Opt!Promise!Spines, Spines
<1>1. Opt!Promise!Op = Op
  BY DEF Opt!Promise!Op, Op, Opt!Promise!Argument, Argument, Opt!Promise!Kinds, Kinds,
         Opt!Promise!LeafKinds, LeafKinds, Opt!Promise!UnaryKinds, UnaryKinds,
         Opt!Promise!BinaryKinds, BinaryKinds
<1>2. \A q, n : Opt!Promise!Bound(q, n) = Bound(q, n)
  BY DEF Opt!Promise!Bound, Bound, Opt!Promise!HidesInput, HidesInput
<1>3. \A q : Opt!Promise!BoundVars(q) = BoundVars(q)
  BY <1>2 DEF Opt!Promise!BoundVars, BoundVars
<1>4. WellFormed(plan) => Opt!Promise!WellFormed(plan)
  BY DEF Opt!Promise!WellFormed, WellFormed, Opt!Promise!WellFormedOp, WellFormedOp,
         Opt!Promise!BindingKinds, BindingKinds, Opt!Promise!BinaryKinds, BinaryKinds
<1>5. RightScopesExact(plan) => Opt!Promise!RightScopesExact(plan)
  BY <1>3 DEF Opt!Promise!RightScopesExact, RightScopesExact
<1>6. WellScoped(plan) => Opt!Promise!WellScoped(plan)
  BY <1>2 DEF Opt!Promise!WellScoped, WellScoped
<1> QED
  BY <1>1, <1>4, <1>5, <1>6 DEF Opt!Promise!Init

-----------------------------------------------------------------------------
(* While the query is planned, what holds of a planner; from the moment    *)
(* the plan is handed over, what holds of an optimizer that was handed a   *)
(* sound plan, and the columns are those the pass started with.            *)
Rewriting == Fact!ScopeInv /\ Fact!PassInv /\ BoundVars(plan[Root]) = BoundVars(prev[Root])

PipelineInv ==
  /\ phase \in {"parsed", "waiting", "pass", "done"}
  /\ phase \in {"parsed", "waiting"} => Planning(TRUE)
  /\ phase \in {"pass", "done"} => Rewriting

LEMMA PipelineStarts == InitPipeline => PipelineInv
<1> SUFFICES ASSUME InitPipeline PROVE PipelineInv
  OBVIOUS
<1>1. Planning(TRUE) /\ phase = "parsed"
  BY PlanningStarts DEF InitPipeline
<1> QED
  BY <1>1 DEF PipelineInv

(* What planning returns is what optimize may be called with.              *)
LEMMA PlanHandedOver ==
  ASSUME Planning(TRUE), result = "planned"
  PROVE  /\ plan \in [Spines -> Seq(Op)]
         /\ WellFormed(plan) /\ RightScopesExact(plan) /\ WellScoped(plan)
BY DEF Planning, FitInv, Shaped

LEMMA RewritingThen == (Fact!HandedOver => Fact!ScopeInv /\ Fact!PassInv)'
<1>1. Fact!HandedOver => Fact!ScopeInv /\ Fact!PassInv
  BY SpineAssumption, MeaningAssumption, Fact!StartsFromAny
<1> QED
  BY <1>1, PTL

LEMMA HandOverFits == Planning(TRUE) /\ HandOver => Opt!Promise!Init /\ Rewriting'
<1> SUFFICES ASSUME Planning(TRUE), HandOver PROVE Opt!Promise!Init /\ Rewriting'
  OBVIOUS
<1>1. /\ plan \in [Spines -> Seq(Op)]
      /\ WellFormed(plan) /\ RightScopesExact(plan) /\ WellScoped(plan)
  BY PlanHandedOver DEF HandOver
<1>2. plan' = plan
  BY DEF HandOver, vars
<1>3. (Fact!HandedOver)'
  BY <1>1, <1>2, SamePlans, SameSoundness
     DEF HandOver, Fact!HandedOver, Opt!Grounded, Fact!Grounded
<1>4. Opt!Promise!Init
  BY <1>1, SameStart
<1>5. BoundVars(plan'[Root]) = BoundVars(prev'[Root])
  BY <1>2 DEF HandOver
<1> QED
  BY <1>3, <1>4, <1>5, RewritingThen DEF Rewriting

(* A step of optimize is a step of what optimize promises.                 *)
LEMMA OptimizeStep ==
  ASSUME Rewriting, Opt!Work
  PROVE  Rewriting' /\ [Opt!Promise!Next]_plan
<1>1. Fact!ScopeInv /\ Fact!PassInv /\ Fact!Next
  BY SameSteps DEF Rewriting
<1>2. Fact!ScopeInv'
  BY <1>1, SpineAssumption, MeaningAssumption, Fact!ScopeStep
<1>3. Fact!PassInv'
  BY <1>1, SpineAssumption, MeaningAssumption, Fact!PassStep
<1>4. [Opt!Promise!Next]_plan
  BY <1>1, SpineAssumption, MeaningAssumption, Fact!StepRefines, SamePromise
<1>5. BoundVars(plan'[Root]) = BoundVars(plan[Root])
  <2>1. Root \in Fact!Spines
    BY SpineAssumption, SamePlans DEF Root, Spines
  <2>2. Fact!BoundVars(plan'[Root]) = Fact!BoundVars(plan[Root])
    BY <1>1, <2>1, SpineAssumption, MeaningAssumption, Fact!StepKeepsColumns
  <2> QED
    BY <2>2, SamePlans
<1>6. prev' = prev \/ (prev' = plan /\ plan' = plan)
  <2>1. ~Opt!Again => UNCHANGED prev
    <3>1. Opt!Slide \/ Opt!Sink => UNCHANGED prev
      <4>1. Opt!Slide => UNCHANGED <<cur, at, prev, rounds, phase>>
        BY Zenon DEF Opt!Slide
      <4>2. Opt!Sink => UNCHANGED <<cur, prev, rounds, phase>>
        BY Zenon DEF Opt!Sink
      <4> QED
        BY <4>1, <4>2
    <3>2. Opt!Visit \/ Opt!PickUp \/ Opt!Rest \/ Opt!NextSpine \/ Opt!Finish
            => UNCHANGED prev
      BY DEF Opt!Visit, Opt!PickUp, Opt!Rest, Opt!NextSpine, Opt!Finish
    <3> QED
      BY <3>1, <3>2 DEF Opt!Work
  <2>2. Opt!Again => prev' = plan /\ plan' = plan
    BY DEF Opt!Again
  <2> QED
    BY <2>1, <2>2
<1>7. BoundVars(plan'[Root]) = BoundVars(prev'[Root])
  BY <1>5, <1>6 DEF Rewriting
<1> QED
  BY <1>2, <1>3, <1>4, <1>7 DEF Rewriting

LEMMA PipelineStep ==
  ASSUME Proper, WellTyped, MatchesInScope, PipelineInv,
         Granted(TRUE), Granted(TRUE)', [NextPipeline]_all
  PROVE  /\ PipelineInv'
         /\ phase \in {"parsed", "waiting"} /\ phase' = "pass" => Opt!Promise!Init
         /\ phase \in {"pass", "done"} => Opt!Promise!Next \/ UNCHANGED plan
<1>1. CASE Analyze
  <2>1. Planning(TRUE) /\ [Next]_vars /\ phase' = "waiting"
    BY <1>1 DEF Analyze, PipelineInv
  <2>2. Planning(TRUE)'
    BY <2>1, PlanningStep
  <2> QED
    BY <1>1, <2>1, <2>2 DEF Analyze, PipelineInv
<1>2. CASE Plan
  <2>1. Planning(TRUE) /\ [Next]_vars /\ phase = "waiting" /\ phase' = "waiting"
    BY <1>2 DEF Plan, PipelineInv, Next, optimizing
  <2>2. Planning(TRUE)'
    BY <2>1, PlanningStep
  <2> QED
    BY <2>1, <2>2 DEF PipelineInv
<1>3. CASE HandOver
  <2>1. Planning(TRUE) /\ phase = "waiting" /\ phase' = "pass"
    BY <1>3 DEF HandOver, PipelineInv
  <2> QED
    BY <1>3, <2>1, HandOverFits DEF PipelineInv
<1>4. CASE Optimize
  <2>1. Rewriting /\ Opt!Work /\ phase = "pass"
    BY <1>4 DEF Optimize, PipelineInv
  <2>2. Rewriting' /\ [Opt!Promise!Next]_plan
    BY <2>1, OptimizeStep
  <2>3. phase' \in {"pass", "done"}
    BY <2>2 DEF Rewriting, Fact!ScopeInv, Fact!TypeOK
  <2> QED
    BY <2>1, <2>2, <2>3 DEF PipelineInv
<1>5. CASE UNCHANGED all
  <2>1. UNCHANGED <<plan, cur, at, fly, prev, rounds, phase>> /\ UNCHANGED vars
    BY <1>5 DEF all, vars, optimizing
  <2>2. phase \in {"parsed", "waiting"} => Planning(TRUE)'
    BY <2>1, PlanningStep DEF PipelineInv
  <2>3. phase \in {"pass", "done"} => Rewriting'
    <3>1. Rewriting => Fact!ScopeInv' /\ Fact!PassInv'
      <4>1. [Fact!Next]_Fact!vars
        BY <2>1 DEF Fact!vars
      <4> QED
        BY <4>1, SpineAssumption, MeaningAssumption, Fact!ScopeStep, Fact!PassStep DEF Rewriting
    <3> QED
      BY <2>1, <3>1 DEF PipelineInv, Rewriting
  <2> QED
    BY <2>1, <2>2, <2>3 DEF PipelineInv
<1> QED
  BY <1>1, <1>2, <1>3, <1>4, <1>5 DEF NextPipeline, Step, Rest

-----------------------------------------------------------------------------
(* The hypotheses are those of PlansFitOptimize: queries of the grammar,   *)
(* whose clauses read what is visible where they stand.                    *)
LEMMA PipelineInvariant ==
  ASSUME Proper, WellTyped, MatchesInScope
  PROVE  SpecPipeline /\ []EnoughSpines /\ []ReadsInScope => []PipelineInv
<1>1. PipelineInv /\ Granted(TRUE) /\ Granted(TRUE)' /\ [NextPipeline]_all => PipelineInv'
  BY PipelineStep
<1>2. EnoughSpines /\ ReadsInScope => Granted(TRUE)
  BY DEF Granted
<1> QED
  BY <1>1, <1>2, PipelineStarts, PTL DEF SpecPipeline

(* Whatever the query, the plan that is handed over is one that pushdown   *)
(* may start from, and all that happens to it afterwards are moves of      *)
(* filters that pushdown allows.                                           *)
THEOREM PipelineImplementsPushdown ==
  ASSUME Proper, WellTyped, MatchesInScope
  PROVE  SpecPipeline /\ []EnoughSpines /\ []ReadsInScope => FromPlanToPushdown
<1> DEFINE Handed == IF phase \in {"parsed", "waiting"}
                     THEN phase' = "pass" => Opt!Promise!Init
                     ELSE Opt!Promise!Next \/ UNCHANGED plan
<1>1. /\ PipelineInv /\ Granted(TRUE) /\ Granted(TRUE)' /\ [NextPipeline]_all
      => [Handed]_all
  BY PipelineStep DEF PipelineInv
<1>2. EnoughSpines /\ ReadsInScope => Granted(TRUE)
  BY DEF Granted
<1> QED
  BY <1>1, <1>2, PipelineInvariant, PTL DEF SpecPipeline, FromPlanToPushdown

(* Whatever the query, no rewrite changes the columns it returns.          *)
THEOREM ColumnsAreKept ==
  ASSUME Proper, WellTyped, MatchesInScope
  PROVE  SpecPipeline /\ []EnoughSpines /\ []ReadsInScope => []ColumnsKept
<1>1. PipelineInv => ColumnsKept
  BY DEF PipelineInv, Rewriting, ColumnsKept
<1> QED
  BY <1>1, PipelineInvariant, PTL

(* The optimized plan of a query is still a plan, in which no operator     *)
(* reads a variable that is not bound below it.                            *)
THEOREM OptimizedPlansFit ==
  ASSUME Proper, WellTyped, MatchesInScope
  PROVE  SpecPipeline /\ []EnoughSpines /\ []ReadsInScope
           => [](phase \in {"pass", "done"} =>
                   WellFormed(plan) /\ RightScopesExact(plan) /\ WellScoped(plan))
<1>1. PipelineInv => (phase \in {"pass", "done"} =>
                       WellFormed(plan) /\ RightScopesExact(plan) /\ WellScoped(plan))
  BY SameSoundness DEF PipelineInv, Rewriting, Fact!ScopeInv
<1> QED
  BY <1>1, PipelineInvariant, PTL

(* One pass of optimize is enough for the plan of every query.             *)
THEOREM OnePassForEveryQuery ==
  ASSUME Proper, WellTyped, MatchesInScope
  PROVE  SpecPipeline /\ []EnoughSpines /\ []ReadsInScope => [](phase \in {"pass", "done"} => rounds <= 1)
<1>1. PipelineInv => (phase \in {"pass", "done"} => rounds <= 1)
  BY DEF PipelineInv, Rewriting, Fact!PassInv, Fact!Settled
<1> QED
  BY <1>1, PipelineInvariant, PTL

-----------------------------------------------------------------------------
(* The largest of some numbers.                                            *)
LEMMA LargestOf ==
  ASSUME NEW n \in Nat, NEW S, S \subseteq 1..n, S # {}
  PROVE  Max(S) \in S /\ \A y \in S : Max(S) >= y
<1> DEFINE T == {n - x : x \in S}
<1>1. T \subseteq Nat /\ T # {}
  <2>1. \A x \in S : n - x \in Nat
    OBVIOUS
  <2> QED
    BY <2>1
<1>2. PICK t \in T : \A u \in T : ~(u < t)
  BY <1>1, LeastOf
<1>3. PICK x \in S : t = n - x
  BY <1>2
<1>4. \A y \in S : x >= y
  <2> SUFFICES ASSUME NEW y \in S PROVE x >= y
    OBVIOUS
  <2>1. ~(n - y < n - x) /\ x \in Nat /\ y \in Nat
    BY <1>2, <1>3
  <2> QED
    BY <2>1
<1>5. \E z \in S : \A y \in S : z >= y
  BY <1>4
<1> QED
  BY <1>5 DEF Max

LEMMA LargestIs ==
  ASSUME NEW S, S \subseteq Nat, NEW x \in S, \A y \in S : x >= y
  PROVE  Max(S) = x
<1>1. \A z \in S : (\A y \in S : z >= y) => z = x
  OBVIOUS
<1>2. \E z \in S : \A y \in S : z >= y
  OBVIOUS
<1>3. Max(S) \in S /\ \A y \in S : Max(S) >= y
  BY <1>2 DEF Max
<1> QED
  BY <1>1, <1>3

-----------------------------------------------------------------------------
(* The operator that binds a name, when operators are put on top.          *)
LEMMA BindersShape ==
  ASSUME NEW q, IsSequence(q), NEW v
  PROVE  /\ Len(q) \in Nat /\ Binders(q, v) \subseteq 1..Len(q)
         /\ Binders(q, v) # {} => /\ Max(Binders(q, v)) \in Binders(q, v)
                                  /\ \A j \in Binders(q, v) : Max(Binders(q, v)) >= j
<1>1. Len(q) \in Nat
  BY SequenceFacts
<1>2. Binders(q, v) \subseteq 1..Len(q)
  BY DEF Binders
<1> HIDE DEF Binders
<1> QED
  BY <1>1, <1>2, LargestOf

LEMMA KindJoined ==
  ASSUME NEW q, NEW r, IsSequence(q), IsSequence(r), NEW v, NEW kinds
  PROVE  /\ Binders(q \o r, v) = {} <=> Binders(q, v) = {} /\ Binders(r, v) = {}
         /\ KindIn(q \o r, v, kinds) =
              IF Binders(r, v) = {} THEN KindIn(q, v, kinds) ELSE KindIn(r, v, kinds)
<1> DEFINE t == q \o r
           m == Len(q)
           n == Len(r)
<1>1. /\ m \in Nat /\ n \in Nat /\ Len(t) = m + n
      /\ \A i \in 1..m : t[i] = q[i]
      /\ \A i \in 1..n : t[m + i] = r[i]
  BY Concatenated, SequenceFacts
<1> HIDE DEF t, m, n
<1>2. \A i \in 1..m : i \in Binders(t, v) <=> i \in Binders(q, v)
  BY <1>1 DEF Binders, m
<1>3. \A i \in 1..n : m + i \in Binders(t, v) <=> i \in Binders(r, v)
  <2> SUFFICES ASSUME NEW i \in 1..n PROVE m + i \in Binders(t, v) <=> i \in Binders(r, v)
    OBVIOUS
  <2>1. m + i \in 1..Len(t) /\ t[m + i] = r[i]
    BY <1>1
  <2> QED
    BY <2>1 DEF Binders, n
<1>4. \A j \in Binders(t, v) : j \in 1..m \/ (j - m \in 1..n /\ m + (j - m) = j /\ j > m)
  BY <1>1 DEF Binders
<1>5. /\ Binders(q, v) \subseteq 1..m /\ Binders(r, v) \subseteq 1..n
      /\ Binders(t, v) \subseteq 1..(m + n)
  BY <1>1 DEF Binders, m, n
<1>6. Binders(t, v) = {} <=> Binders(q, v) = {} /\ Binders(r, v) = {}
  <2>1. ASSUME NEW i \in Binders(q, v) PROVE i \in Binders(t, v)
    BY <1>2, <1>5
  <2>2. ASSUME NEW i \in Binders(r, v) PROVE m + i \in Binders(t, v)
    BY <1>3, <1>5
  <2>3. ASSUME NEW j \in Binders(t, v) PROVE j \in Binders(q, v) \/ j - m \in Binders(r, v)
    BY <1>2, <1>3, <1>4
  <2> HIDE DEF Binders
  <2> QED
    BY <2>1, <2>2, <2>3
<1>7. CASE Binders(r, v) = {} /\ Binders(q, v) = {}
  BY <1>6, <1>7 DEF KindIn, t
<1>8. CASE Binders(r, v) = {} /\ Binders(q, v) # {}
  <2> DEFINE x == Max(Binders(q, v))
  <2>1. x \in Binders(q, v) /\ \A j \in Binders(q, v) : x >= j
    BY <1>8, BindersShape
  <2> HIDE DEF x
  <2>2. x \in 1..m /\ x \in Binders(t, v)
    BY <1>2, <1>5, <2>1
  <2>3. \A j \in Binders(t, v) : j \in Binders(q, v)
    BY <1>2, <1>3, <1>4, <1>8
  <2>4. Binders(t, v) \subseteq Nat
    BY <1>1, <1>5
  <2>5. Max(Binders(t, v)) = x
    BY <2>1, <2>2, <2>3, <2>4, LargestIs
  <2>6. t[x] = q[x]
    BY <1>1, <2>2
  <2>7. KindIn(t, v, kinds) = KindIn(q, v, kinds)
    BY <1>6, <1>8, <2>5, <2>6 DEF KindIn, x
  <2> QED
    BY <1>6, <1>8, <2>7 DEF t
<1>9. CASE Binders(r, v) # {}
  <2> DEFINE x == Max(Binders(r, v))
  <2>1. x \in Binders(r, v) /\ \A j \in Binders(r, v) : x >= j
    BY <1>9, BindersShape
  <2> HIDE DEF x
  <2>2. x \in 1..n /\ m + x \in Binders(t, v)
    BY <1>3, <1>5, <2>1
  <2>3. ASSUME NEW j \in Binders(t, v) PROVE m + x >= j
    <3>1. CASE j \in 1..m
      BY <1>1, <2>2, <3>1
    <3>2. CASE j - m \in 1..n /\ m + (j - m) = j
      <4>1. j - m \in Binders(r, v)
        BY <1>3, <3>2
      <4>2. x >= j - m /\ j \in Nat
        BY <1>1, <1>5, <2>1, <4>1
      <4> QED
        BY <1>1, <2>2, <4>2
    <3> QED
      BY <1>4, <3>1, <3>2
  <2>4. Binders(t, v) \subseteq Nat
    BY <1>1, <1>5
  <2>5. Max(Binders(t, v)) = m + x
    BY <2>2, <2>3, <2>4, LargestIs
  <2>6. t[m + x] = r[x]
    BY <1>1, <2>2
  <2>7. KindIn(t, v, kinds) = KindIn(r, v, kinds)
    BY <1>6, <1>9, <2>5, <2>6 DEF KindIn, x
  <2> QED
    BY <1>6, <1>9, <2>7 DEF t
<1> QED
  BY <1>7, <1>8, <1>9

LEMMA KindOfOne ==
  ASSUME NEW op, NEW v, NEW kinds
  PROVE  LET binds == v \in op.intro /\ (op.kind = "Project" => v \in op.alias)
         IN  /\ Binders(<<op>>, v) = IF binds THEN {1} ELSE {}
             /\ KindIn(<<op>>, v, kinds) =
                  IF ~binds THEN "nothing"
                  ELSE IF op.right = 0 THEN op.kind ELSE kinds[op.right]
<1> DEFINE binds == v \in op.intro /\ (op.kind = "Project" => v \in op.alias)
<1>1. Len(<<op>>) = 1 /\ <<op>>[1] = op
  BY One
<1>2. Binders(<<op>>, v) = IF binds THEN {1} ELSE {}
  BY <1>1 DEF Binders
<1>3. Max({1}) = 1
  BY LargestIs
<1> HIDE DEF binds
<1>4. {1} # {}
  OBVIOUS
<1>5. KindIn(<<op>>, v, kinds) = IF ~binds THEN "nothing"
                  ELSE IF op.right = 0 THEN op.kind ELSE kinds[op.right]
  BY <1>1, <1>2, <1>3, <1>4 DEF KindIn
<1> QED
  BY <1>2, <1>5 DEF binds

(* Operators that introduce nothing of the name.                           *)
LEMMA NotBinding ==
  ASSUME NEW q, NEW v, \A i \in 1..Len(q) : v \notin q[i].intro
  PROVE  Binders(q, v) = {}
BY DEF Binders

LEMMA NotIntroduced ==
  ASSUME NEW q, NEW v \in Vars, v \notin Intros(q)
  PROVE  Binders(q, v) = {}
BY NotBinding DEF Intros

(* The names that are bound by nothing suit no type.                       *)
LEMMA SuitsBinds ==
  ASSUME NEW q, NEW pl, NEW v, NEW type, Suits(q, pl, v, type)
  PROVE  Binders(q, v) # {}
<1>1. SUFFICES ASSUME Binders(q, v) = {} PROVE FALSE
  OBVIOUS
<1>2. KindIn(q, v, KindsOf(pl, v)) = "nothing"
  BY <1>1 DEF KindIn
<1> QED
  BY <1>2 DEF Suits, Yields

-----------------------------------------------------------------------------
(* The kinds of operators that bind a name, spine by spine.                *)
Ordered(pl) ==
  \A s \in Spines : /\ IsSequence(pl[s])
                     /\ \A i \in 1..Len(pl[s]) : pl[s][i].right \in 0..(s - 1)

(* What counts of the kinds are those of the second inputs.                *)
LEMMA KindSame ==
  ASSUME NEW q, IsSequence(q), NEW v, NEW f, NEW g,
         \A i \in 1..Len(q) : q[i].right # 0 => f[q[i].right] = g[q[i].right]
  PROVE  KindIn(q, v, f) = KindIn(q, v, g)
<1>1. CASE Binders(q, v) = {}
  BY <1>1 DEF KindIn
<1>2. CASE Binders(q, v) # {}
  <2> DEFINE x == Max(Binders(q, v))
  <2>1. x \in 1..Len(q)
    BY <1>2, BindersShape
  <2> HIDE DEF x
  <2>2. q[x].right # 0 => f[q[x].right] = g[q[x].right]
    BY <2>1
  <2> QED
    BY <1>2, <2>2 DEF KindIn, x
<1> QED
  BY <1>1, <1>2

LEMMA KindsExist ==
  ASSUME NEW pl, Ordered(pl), NEW v
  PROVE  \A s \in Spines : KindsOf(pl, v)[s] = KindIn(pl[s], v, KindsOf(pl, v))
<1> DEFINE Right(f, n) == \A s \in Spines : s <= n => f[s] = KindIn(pl[s], v, f)
           T == {n \in Nat : \E f : f = [s \in Spines |-> f[s]] /\ Right(f, n)}
<1>0. NumSpines \in Nat /\ Spines \subseteq Nat /\ \A s \in Spines : 0 < s /\ s <= NumSpines
  BY SpineAssumption DEF Spines
<1>1. 0 \in T
  <2> DEFINE f == [s \in Spines |-> "nothing"]
  <2>1. f = [s \in Spines |-> f[s]]
    OBVIOUS
  <2> HIDE DEF f
  <2>2. Right(f, 0)
    BY <1>0
  <2> QED
    BY <2>1, <2>2
<1>2. ASSUME NEW n \in Nat, n \in T PROVE n + 1 \in T
  <2>1. PICK f : f = [s \in Spines |-> f[s]] /\ Right(f, n)
    BY <1>2
  <2> DEFINE g == [s \in Spines |-> IF s = n + 1 THEN KindIn(pl[s], v, f) ELSE f[s]]
  <2>2. /\ g = [s \in Spines |-> g[s]]
        /\ \A s \in Spines : g[s] = IF s = n + 1 THEN KindIn(pl[s], v, f) ELSE f[s]
    OBVIOUS
  <2> HIDE DEF g
  <2>3. ASSUME NEW s \in Spines, s <= n + 1 PROVE g[s] = KindIn(pl[s], v, g)
    <3>1. ASSUME NEW i \in 1..Len(pl[s]), pl[s][i].right # 0
          PROVE  f[pl[s][i].right] = g[pl[s][i].right]
      <4>1. pl[s][i].right \in 0..(s - 1)
        BY DEF Ordered
      <4>2. pl[s][i].right \in Spines /\ pl[s][i].right # n + 1
        BY <1>0, <2>3, <3>1, <4>1 DEF Spines
      <4> QED
        BY <2>2, <4>2
    <3>2. KindIn(pl[s], v, f) = KindIn(pl[s], v, g)
      <4>1. IsSequence(pl[s])
        BY DEF Ordered
      <4> QED
        BY <3>1, <4>1, KindSame
    <3>3. s <= n \/ s = n + 1
      BY <1>0, <2>3
    <3>4. s # n + 1 => g[s] = f[s] /\ f[s] = KindIn(pl[s], v, f)
      BY <2>1, <2>2, <3>3
    <3> QED
      BY <2>2, <3>2, <3>4
  <2>4. Right(g, n + 1)
    BY <2>3
  <2> HIDE DEF Right
  <2> QED
    BY <2>2, <2>4
<1> HIDE DEF T
<1>3. NumSpines \in T
  BY <1>0, <1>1, <1>2, SetInduction
<1>4. PICK f : f = [s \in Spines |-> f[s]] /\ Right(f, NumSpines)
  BY <1>3 DEF T
<1>5. \A s \in Spines : f[s] = KindIn(pl[s], v, f)
  BY <1>0, <1>4
<1>6. f = [s \in Spines |-> KindIn(pl[s], v, f)]
  BY <1>4, <1>5
<1> DEFINE k == CHOOSE h : h = [s \in Spines |-> KindIn(pl[s], v, h)]
<1>7. k = [s \in Spines |-> KindIn(pl[s], v, k)]
  BY <1>6
<1>8. KindsOf(pl, v) = k
  BY DEF KindsOf
<1> HIDE DEF k
<1> QED
  BY <1>7, <1>8

(* Spines that are added after the n-th leave the kinds before as they are.*)
LEMMA KindsAgree ==
  ASSUME NEW pl, NEW pm, Ordered(pl), Ordered(pm), NEW n \in Nat,
         \A s \in Spines : s < n => pm[s] = pl[s], NEW v
  PROVE  \A s \in Spines : s < n => KindsOf(pm, v)[s] = KindsOf(pl, v)[s]
<1> DEFINE f == KindsOf(pl, v)
           g == KindsOf(pm, v)
           T == {m \in Nat : \A s \in Spines : s <= m /\ s < n => g[s] = f[s]}
<1>0. NumSpines \in Nat /\ Spines \subseteq Nat /\ \A s \in Spines : 0 < s /\ s <= NumSpines
  BY SpineAssumption DEF Spines
<1>1. /\ \A s \in Spines : f[s] = KindIn(pl[s], v, f)
      /\ \A s \in Spines : g[s] = KindIn(pm[s], v, g)
  BY KindsExist
<1> HIDE DEF f, g
<1>2. 0 \in T
  <2>1. \A s \in Spines : ~(s <= 0)
    BY <1>0
  <2> QED
    BY <2>1
<1>3. ASSUME NEW m \in Nat, m \in T PROVE m + 1 \in T
  <2> SUFFICES ASSUME NEW s \in Spines, s <= m + 1, s < n PROVE g[s] = f[s]
    OBVIOUS
  <2>1. ASSUME NEW i \in 1..Len(pl[s]), pl[s][i].right # 0
        PROVE  g[pl[s][i].right] = f[pl[s][i].right]
    <3>1. pl[s][i].right \in 0..(s - 1)
      BY DEF Ordered
    <3> DEFINE r == pl[s][i].right
    <3>2. r \in Spines /\ r <= m /\ r < s /\ r \in Nat /\ s \in Nat
      BY <1>0, <2>1, <3>1 DEF Spines
    <3>3. r < n
      <4> HIDE DEF r
      <4> QED
        BY <3>2
    <3> HIDE DEF r
    <3>4. g[r] = f[r]
      BY <1>3, <3>2, <3>3
    <3> QED
      BY <3>4 DEF r
  <2>2. KindIn(pl[s], v, g) = KindIn(pl[s], v, f)
    <3>1. IsSequence(pl[s])
      BY DEF Ordered
    <3> QED
      BY <2>1, <3>1, KindSame
  <2> QED
    BY <1>1, <2>2
<1> HIDE DEF T
<1>4. NumSpines \in T
  BY <1>0, <1>2, <1>3, SetInduction
<1> QED
  BY <1>0, <1>4 DEF T, f, g

LEMMA SuitsOnTop ==
  ASSUME NEW q, NEW r, IsSequence(q), IsSequence(r), NEW pl, NEW v, NEW type
  PROVE  Suits(q \o r, pl, v, type) <=>
           IF Binders(r, v) = {} THEN Suits(q, pl, v, type) ELSE Suits(r, pl, v, type)
BY KindJoined DEF Suits

LEMMA SuitsOne ==
  ASSUME NEW op, NEW pl, NEW v \in op.intro, op.kind # "Project", op.right = 0,
         NEW type \in Yields(op.kind)
  PROVE  Suits(<<op>>, pl, v, type)
BY KindOfOne DEF Suits

(* The second inputs of a piece are before the n-th spine.                 *)
LEMMA PieceRights ==
  ASSUME NEW q, NEW n, NEW pl, NEW strict, Piece(q, n, pl, strict)
  PROVE  IsSequence(q) /\ \A i \in 1..Len(q) : q[i].right \in 1..(n - 1) \/ q[i].right = 0
BY OpsAreSequence DEF Piece, WellFormedOp

LEMMA PlanOrdered ==
  ASSUME NEW strict, FitInv(strict), BuildInv(strict)
  PROVE  Ordered(plan)
<1> SUFFICES ASSUME NEW s \in Spines
             PROVE  /\ IsSequence(plan[s])
                    /\ \A i \in 1..Len(plan[s]) : plan[s][i].right \in 0..(s - 1)
  BY DEF Ordered
<1>1. CASE s < free
  <2>1. Piece(plan[s], s, plan, strict)
    BY <1>1 DEF BuildInv
  <2>2. 0 \in 0..(s - 1) /\ 1..(s - 1) \subseteq 0..(s - 1)
    BY SpineAssumption DEF Spines
  <2>3. /\ IsSequence(plan[s])
        /\ \A i \in 1..Len(plan[s]) : plan[s][i].right \in 1..(s - 1) \/ plan[s][i].right = 0
    BY <2>1, PieceRights
  <2> QED
    BY <2>2, <2>3
<1>2. CASE ~(s < free)
  <2>1. plan[s] = <<>>
    BY <1>2 DEF BuildInv
  <2> QED
    BY <2>1, Nothing
<1> QED
  BY <1>1, <1>2

(* What suits goes on to suit when second inputs are added.                *)
LEMMA SuitsGrow ==
  ASSUME NEW pl, NEW pm, Ordered(pl), Ordered(pm), NEW n \in Nat, n <= NumSpines,
         \A s \in Spines : s < n => pm[s] = pl[s],
         NEW q, NEW strict, Piece(q, n, pl, strict), NEW v, NEW type
  PROVE  Suits(q, pl, v, type) <=> Suits(q, pm, v, type)
<1>1. IsSequence(q) /\ \A i \in 1..Len(q) : q[i].right \in 1..(n - 1) \/ q[i].right = 0
  BY PieceRights
<1>2. \A s \in Spines : s < n => KindsOf(pm, v)[s] = KindsOf(pl, v)[s]
  BY KindsAgree
<1>3. \A r \in 1..(n - 1) : r \in Spines /\ r < n
  BY SpineAssumption DEF Spines
<1> DEFINE f == KindsOf(pl, v)
           g == KindsOf(pm, v)
<1> HIDE DEF f, g
<1>4. \A i \in 1..Len(q) : q[i].right # 0 => f[q[i].right] = g[q[i].right]
  BY <1>1, <1>2, <1>3 DEF f, g
<1>5. KindIn(q, v, f) = KindIn(q, v, g)
  BY <1>1, <1>4, KindSame
<1> QED
  BY <1>5 DEF Suits, f, g

(* A second input that is brought in: what it binds suits as it does there.*)
LEMMA SuitsBrought ==
  ASSUME NEW pm, Ordered(pm), NEW n \in Spines, NEW kind, kind # "Project",
         NEW q, IsSequence(q), NEW v, NEW type
  PROVE  LET r == pm[n]
             t == Append(q, Branching(kind, n, BoundVars(r)))
         IN  Suits(t, pm, v, type) <=>
               IF v \in BoundVars(r) THEN Suits(r, pm, v, type) ELSE Suits(q, pm, v, type)
<1> DEFINE r == pm[n]
           op == Branching(kind, n, BoundVars(r))
           f == KindsOf(pm, v)
<1>1. op.kind # "Project" /\ op.right = n /\ op.intro = BoundVars(r)
  BY DEF Branching, Node
<1>2. n # 0
  BY DEF Spines
<1>3. f[n] = KindIn(r, v, f)
  BY KindsExist
<1>4. Append(q, op) = q \o <<op>>
  <2>1. PICK S : q \in Seq(S)
    BY DEF IsSequence
  <2> QED
    BY <2>1
<1>5. IsSequence(<<op>>)
  BY One
<1> HIDE DEF r, op, f
<1>6. Suits(q \o <<op>>, pm, v, type) <=>
        IF Binders(<<op>>, v) = {} THEN Suits(q, pm, v, type) ELSE Suits(<<op>>, pm, v, type)
  BY <1>5, SuitsOnTop
<1>7. CASE v \in BoundVars(r)
  <2>1. Binders(<<op>>, v) = {1} /\ KindIn(<<op>>, v, f) = f[n]
    BY <1>1, <1>2, <1>7, KindOfOne
  <2>2. Binders(<<op>>, v) # {}
    BY <2>1
  <2>3. Suits(<<op>>, pm, v, type) <=> Suits(r, pm, v, type)
    BY <1>3, <2>1 DEF Suits, f
  <2> QED
    BY <1>4, <1>6, <1>7, <2>2, <2>3 DEF r, op
<1>8. CASE v \notin BoundVars(r)
  <2>1. Binders(<<op>>, v) = {}
    BY <1>1, <1>8, KindOfOne
  <2> QED
    BY <1>4, <1>6, <1>8, <2>1 DEF r, op
<1> QED
  BY <1>7, <1>8

-----------------------------------------------------------------------------
(* What the analysis knows where a call of plan_branch is.                 *)
TypesOf(cs, f) ==
  LET k == Len(cs) - Len(f.todo)
  IN  TypesAt(ClausesDone(cs, BranchStart(cs, k), k))

AllSuit(q, pl, types) ==
  \A v \in DOMAIN types : types[v] # "Any" => Suits(q, pl, v, types[v])

LEMMA TypesWhereItIs ==
  ASSUME NEW cs, IsSequence(cs), NEW f, NEW b, NEW k, NEW lowering,
         Follows(cs, f, b, k, lowering)
  PROVE  TypesOf(cs, f) = TypesAt(ClausesDone(cs, b, k)) /\ DOMAIN TypesOf(cs, f) = NamesAt(cs, b, k)
<1>1. Len(cs) \in Nat /\ k \in 0..Len(cs) /\ Len(f.todo) = Len(cs) - k
  BY SequenceFacts DEF Follows, Begins
<1>2. Len(cs) - Len(f.todo) = k
  BY <1>1
<1>3. BranchStart(cs, k) = b
  BY StartOfBranch DEF Follows
<1> QED
  BY <1>2, <1>3 DEF TypesOf, NamesAt

LEMMA TypesOn ==
  ASSUME NEW cs, IsSequence(cs), NEW f, IsSequence(f.todo), f.todo # <<>>,
         NEW b, NEW k, NEW lowering, Follows(cs, f, b, k, lowering),
         Head(f.todo).kind # "Union", NEW g, g.todo = Tail(f.todo)
  PROVE  TypesOf(cs, g) = TypesAfter(TypesOf(cs, f), Head(f.todo))
<1> DEFINE h == [todo |-> g.todo, visible |-> NamesAfter(NamesAt(cs, b, k), Head(f.todo))]
<1>1. h.todo = Tail(f.todo) /\ h.visible = NamesAfter(NamesAt(cs, b, k), Head(f.todo))
  OBVIOUS
<1> HIDE DEF h
<1>2. Follows(cs, h, b, k + 1, FALSE)
  BY <1>1, FollowsOn
<1>3. TypesOf(cs, h) = TypesAt(ClausesDone(cs, b, k + 1))
  BY <1>2, TypesWhereItIs
<1>4. TypesOf(cs, f) = TypesAt(ClausesDone(cs, b, k))
  BY TypesWhereItIs
<1>5. TypesOf(cs, g) = TypesOf(cs, h)
  BY <1>1 DEF TypesOf
<1>6. /\ Len(f.todo) > 0 /\ Head(f.todo) = f.todo[1] /\ Len(f.todo) = Len(cs) - k
      /\ Len(cs) \in Nat /\ k \in 0..Len(cs) /\ b \in 0..k
      /\ \A i \in 1..Len(f.todo) : f.todo[i] = cs[k + i]
  BY TailFacts, SequenceFacts DEF Follows, Begins
<1>7. k < Len(cs) /\ 1 \in 1..Len(f.todo)
  BY <1>6
<1>8. Head(f.todo) = cs[k + 1]
  BY <1>6, <1>7
<1>9. TypesAt(ClausesDone(cs, b, k + 1)) = TypesAfter(TypesAt(ClausesDone(cs, b, k)), cs[k + 1])
  BY <1>6, <1>7, TypesOneMoreDone
<1> QED
  BY <1>3, <1>4, <1>5, <1>8, <1>9
-----------------------------------------------------------------------------
(* What a clause puts on the plan suits what the analysis makes of it.     *)
LEMMA InsertedOnTop ==
  ASSUME NEW q, NEW r, IsSequence(q), IsSequence(r), NEW pl, NEW types, NEW new,
         AllSuit(q, pl, types),
         \A v \in DOMAIN new :
           \/ new[v] = "Any"
           \/ Binders(r, v) = {} /\ Suits(q, pl, v, new[v])
           \/ Suits(r, pl, v, new[v]),
         \A v \in DOMAIN types : v \notin DOMAIN new => Binders(r, v) = {}
  PROVE  AllSuit(q \o r, pl, Inserted(new, types))
<1> DEFINE whole == Inserted(new, types)
<1>1. DOMAIN whole = (DOMAIN new) \cup (DOMAIN types)
      /\ \A v \in DOMAIN whole : whole[v] = IF v \in DOMAIN new THEN new[v] ELSE types[v]
  BY DEF Inserted
<1> HIDE DEF whole
<1> SUFFICES ASSUME NEW v \in DOMAIN whole, whole[v] # "Any" PROVE Suits(q \o r, pl, v, whole[v])
  BY DEF AllSuit, whole
<1>2. CASE v \in DOMAIN new
  <2>1. whole[v] = new[v]
    BY <1>1, <1>2
  <2>2. \/ Binders(r, v) = {} /\ Suits(q, pl, v, new[v])
        \/ Suits(r, pl, v, new[v]) /\ Binders(r, v) # {}
    BY <1>2, <2>1, SuitsBinds
  <2> QED
    BY <2>1, <2>2, SuitsOnTop
<1>3. CASE v \notin DOMAIN new
  <2>1. whole[v] = types[v] /\ Binders(r, v) = {} /\ v \in DOMAIN types
    BY <1>1, <1>3
  <2>2. Suits(q, pl, v, types[v])
    BY <2>1 DEF AllSuit
  <2> QED
    BY <2>1, <2>2, SuitsOnTop
<1> QED
  BY <1>2, <1>3

LEMMA QuietOnTop ==
  ASSUME NEW q, NEW r, IsSequence(q), IsSequence(r), NEW pl, NEW types,
         AllSuit(q, pl, types), \A v \in DOMAIN types : Binders(r, v) = {}
  PROVE  AllSuit(q \o r, pl, types)
BY SuitsOnTop DEF AllSuit

LEMMA TypedOnTop ==
  ASSUME NEW q, NEW r, IsSequence(q), IsSequence(r), NEW pl, NEW types,
         AllSuit(q, pl, types), NEW names, NEW type,
         \A v \in names : type = "Any" \/ Suits(r, pl, v, type),
         \A v \in DOMAIN types : v \notin names => Binders(r, v) = {}
  PROVE  AllSuit(q \o r, pl, Typed(types, names, type))
<1> DEFINE new == [v \in names |-> type]
<1>1. DOMAIN new = names /\ \A v \in names : new[v] = type
  OBVIOUS
<1>2. Typed(types, names, type) = Inserted(new, types)
  BY DEF Typed
<1> HIDE DEF new
<1>3. \A v \in DOMAIN new : \/ new[v] = "Any"
                            \/ Binders(r, v) = {} /\ Suits(q, pl, v, new[v])
                            \/ Suits(r, pl, v, new[v])
  BY <1>1
<1>4. \A v \in DOMAIN types : v \notin DOMAIN new => Binders(r, v) = {}
  BY <1>1
<1> QED
  BY <1>2, <1>3, <1>4, InsertedOnTop

(* The pattern whose type of a name is the last to be inserted.            *)
LastWith(ps, v) == ps[Max({i \in 1..Len(ps) : v \in PatternBindings(ps[i])})]

LEMMA PatternsOnTop ==
  ASSUME NEW q, NEW r, IsSequence(q), IsSequence(r), NEW pl, NEW types,
         AllSuit(q, pl, types), NEW ps,
         \A v \in PatternNames(ps) : Suits(r, pl, v, TypeIn(LastWith(ps, v), v)),
         \A v \in DOMAIN types : v \notin PatternNames(ps) => Binders(r, v) = {}
  PROVE  AllSuit(q \o r, pl, PatternTypes(types, ps))
<1> DEFINE new == [v \in PatternNames(ps) |-> TypeIn(LastWith(ps, v), v)]
<1>1. DOMAIN new = PatternNames(ps)
      /\ \A v \in PatternNames(ps) : new[v] = TypeIn(LastWith(ps, v), v)
  OBVIOUS
<1>2. PatternTypes(types, ps) = Inserted(new, types)
  BY DEF PatternTypes, PatternNames, LastWith
<1> HIDE DEF new
<1>3. \A v \in DOMAIN new : \/ new[v] = "Any"
                            \/ Binders(r, v) = {} /\ Suits(q, pl, v, new[v])
                            \/ Suits(r, pl, v, new[v])
  BY <1>1
<1>4. \A v \in DOMAIN types : v \notin DOMAIN new => Binders(r, v) = {}
  BY <1>1
<1> QED
  BY <1>2, <1>3, <1>4, InsertedOnTop

(* WITH: names that are given are the projection's, the others stay what   *)
(* they are.                                                               *)
LEMMA ItemsOnTop ==
  ASSUME NEW q, IsSequence(q), NEW pl, NEW types, AllSuit(q, pl, types), NEW c,
         Len(c.items) \in Nat, NEW distinct
  PROVE  AllSuit(q \o (<<ProjectItems(c.star, c.items)>> \o Deduplicate(distinct)),
                 pl, ItemTypes(types, c))
<1> DEFINE items == c.items
           op == ProjectItems(c.star, items)
           r == <<op>> \o Deduplicate(distinct)
           alias == UNION {Named(items[i].alias) : i \in 1..Len(items)}
           giving(v) == {i \in 1..Len(items) : v \in NameGiven(items[i])}
           last(v) == items[Max(giving(v))]
           new == [v \in NamesGiven(items) |-> TypeOf(types, last(v).expr)]
           old == IF c.star THEN types ELSE NoTypes
<1>1. op.kind = "Project" /\ op.right = 0 /\ op.alias = alias /\ op.intro = NamesGiven(items)
  <2> DEFINE part(item) == Part(Named(ItemName(item)), item.reads)
             parts == [i \in 1..Len(items) |-> part(items[i])]
  <2>1. /\ op.kind = "Project" /\ op.right = 0 /\ op.alias = alias /\ op.intro = Names(parts)
    BY DEF ProjectItems, Projection, Node
  <2>2. Names(parts) = NamesGiven(items)
    <3>1. DOMAIN parts = 1..Len(items) /\ Len(parts) = Len(items)
      <4>1. parts = [i \in 1..Len(items) |-> parts[i]]
        OBVIOUS
      <4> HIDE DEF parts
      <4> QED
        BY <4>1, FunctionIsSequence
    <3>2. \A i \in 1..Len(items) : parts[i].names = NameGiven(items[i])
      BY DEF Part, NameGiven, ItemName
    <3> HIDE DEF parts
    <3> QED
      BY <3>1, <3>2 DEF Names, NamesGiven
  <2> QED
    BY <2>1, <2>2
<1>2. IsSequence(r) /\ \A v : Binders(r, v) = {} <=> Binders(<<op>>, v) = {}
  <2>1. IsSequence(<<op>>) /\ IsSequence(Deduplicate(distinct))
    BY One, Nothing DEF Deduplicate
  <2>2. \A v : Binders(Deduplicate(distinct), v) = {}
    <3>1. CASE distinct
      BY <3>1, KindOfOne DEF Deduplicate, Node
    <3>2. CASE ~distinct
      BY <3>2, Nothing DEF Deduplicate, Binders
    <3> QED
      BY <3>1, <3>2
  <2> HIDE DEF op
  <2> QED
    BY <2>1, <2>2, KindJoined, Concatenated
<1>3. \A v, type : v \in alias /\ v \in NamesGiven(items) => Suits(r, pl, v, type)
  <2> SUFFICES ASSUME NEW v, NEW type, v \in alias, v \in NamesGiven(items)
               PROVE  Suits(r, pl, v, type)
    OBVIOUS
  <2>1. IsSequence(<<op>>) /\ IsSequence(Deduplicate(distinct))
    BY One, Nothing DEF Deduplicate
  <2>2. Binders(Deduplicate(distinct), v) = {}
    <3>1. CASE distinct
      BY <3>1, KindOfOne DEF Deduplicate, Node
    <3>2. CASE ~distinct
      BY <3>2, Nothing DEF Deduplicate, Binders
    <3> QED
      BY <3>1, <3>2
  <2> HIDE DEF op, alias
  <2>3. Suits(<<op>>, pl, v, type)
    BY <1>1, KindOfOne DEF Suits
  <2> QED
    BY <2>1, <2>2, <2>3, SuitsOnTop
<1>4. \A v : ~(v \in alias /\ v \in NamesGiven(items)) => Binders(r, v) = {}
  <2> HIDE DEF op, alias, r
  <2> QED
    BY <1>1, <1>2, KindOfOne
<1>5. alias \subseteq NamesGiven(items)
  BY DEF NamesGiven, NameGiven, Named
<1>6. ASSUME NEW v \in NamesGiven(items), v \notin alias, TypeOf(types, last(v).expr) # "Any"
      PROVE  Suits(q, pl, v, TypeOf(types, last(v).expr))
  <2>1. giving(v) # {} /\ giving(v) \subseteq 1..Len(items)
    BY DEF NamesGiven
  <2>2. Max(giving(v)) \in giving(v)
    <3> HIDE DEF giving
    <3> QED
      BY <2>1, LargestOf
  <2> DEFINE i == Max(giving(v))
  <2> HIDE DEF i
  <2>3. i \in 1..Len(items) /\ v \in NameGiven(items[i])
    BY <2>2 DEF i
  <2>4. v # NoVar /\ items[i].expr = v
    BY <1>6, <2>3 DEF NameGiven, Named
  <2>5. last(v).expr = v
    BY <2>4 DEF i
  <2>6. v \in DOMAIN types /\ types[v] # "Any" /\ TypeOf(types, v) = types[v]
    BY <1>6, <2>5 DEF TypeOf
  <2> QED
    BY <2>5, <2>6 DEF AllSuit
<1>7. DOMAIN new = NamesGiven(items) /\ \A v \in NamesGiven(items) : new[v] = TypeOf(types, last(v).expr)
  OBVIOUS
<1>8. ItemTypes(types, c) = Inserted(new, old)
  BY DEF ItemTypes
<1>9. AllSuit(q, pl, old)
  BY DEF AllSuit, NoTypes
<1> HIDE DEF new, old, r, last, alias, items
<1>10. \A v \in DOMAIN new : \/ new[v] = "Any"
                             \/ Binders(r, v) = {} /\ Suits(q, pl, v, new[v])
                             \/ Suits(r, pl, v, new[v])
  BY <1>3, <1>4, <1>6, <1>7
<1>11. \A v : v \notin DOMAIN new => Binders(r, v) = {}
  BY <1>4, <1>7
<1>12. AllSuit(q \o r, pl, Inserted(new, old))
  BY <1>2, <1>9, <1>10, <1>11, InsertedOnTop
<1> QED
  BY <1>8, <1>12 DEF r, items

-----------------------------------------------------------------------------
(* The invariant.  What is known of the names where the outermost call of  *)
(* plan_branch is suits its plan; while a MATCH is lowered, the names of   *)
(* the patterns that are done with suit what is combined, and those of the *)
(* pattern that is being lowered are bound by its scan and its expansions. *)
Left(s, whole, k) ==
  /\ k \in 0..Len(whole) /\ Len(s) = Len(whole) - k
  /\ \A i \in 1..Len(s) : s[i] = whole[k + i]

LastOf(ps, k, v) == {i \in 1..k : v \in PatternBindings(ps[i])}

Lowered(q, pl, ps, k) ==
  \A v \in UserVars :
    IF LastOf(ps, k, v) = {} THEN v \notin Intros(q)
    ELSE Suits(q, pl, v, TypeIn(ps[Max(LastOf(ps, k, v))], v))

LinksOf(p, n, v) ==
  {i \in 1..n : v \in {p.chain[i].rel.var, p.chain[i].node.var}}

PathLowered(q, p, n) ==
  \A v \in UserVars :
    IF LinksOf(p, n, v) # {} THEN \A kinds : KindIn(q, v, kinds) = "Expand"
    ELSE IF v = p.anchor.var THEN \A kinds : KindIn(q, v, kinds) = "Scan"
    ELSE v \notin Intros(q)

LowSuits ==
  /\ \E k : /\ Left(low.patterns, Clause.patterns, k)
            /\ Lowered(low.combined, plan, Clause.patterns, k)
  /\ low.patterns # <<>> =>
       LET p == Head(low.patterns)
       IN  \E n : Left(low.chain, p.chain, n) /\ PathLowered(low.path, p, n)

BottomSuits ==
  frames # <<>> =>
    LET f == frames[Len(frames)]
    IN  AllSuit(f.main, plan, TypesOf(query.clauses, f))

SuitsInv == BottomSuits /\ (low.on => LowSuits)

(* The analysis types a path before the elements of its pattern: a path    *)
(* that shares its name with one of them is an element to it.              *)
PathsApart ==
  \A p \in AnyPattern :
    p.path # NoVar => p.path # p.anchor.var /\ p.path \notin ChainNames(p.chain)

Going ==
  /\ Proper /\ WellTyped /\ PathsApart
  /\ Planning(FALSE) /\ EnoughSpines /\ FollowsInv /\ SuitsInv /\ result # "planned"
  /\ Ordered(plan) /\ Ordered(plan')
  /\ \A s \in Spines : s < free => plan'[s] = plan[s]

-----------------------------------------------------------------------------
LEMMA LeftAll ==
  ASSUME NEW s, IsSequence(s)
  PROVE  Left(s, s, 0)
BY SequenceFacts DEF Left

LEMMA LeftNone ==
  ASSUME NEW s, IsSequence(s), NEW k, Left(<<>>, s, k)
  PROVE  k = Len(s)
BY SequenceFacts, Nothing DEF Left

LEMMA LeftOn ==
  ASSUME NEW s, NEW whole, IsSequence(s), IsSequence(whole), s # <<>>, NEW k, Left(s, whole, k)
  PROVE  /\ k \in Nat /\ k + 1 \in 1..Len(whole) /\ Head(s) = whole[k + 1]
         /\ Left(Tail(s), whole, k + 1)
<1>1. /\ Len(s) > 0 /\ Head(s) = s[1] /\ Len(Tail(s)) = Len(s) - 1
      /\ \A i \in 1..Len(Tail(s)) : Tail(s)[i] = s[i + 1]
  BY TailFacts
<1>2. /\ Len(s) \in Nat /\ Len(whole) \in Nat /\ k \in 0..Len(whole)
      /\ Len(s) = Len(whole) - k /\ \A i \in 1..Len(s) : s[i] = whole[k + i]
  BY SequenceFacts DEF Left
<1> DEFINE t == Tail(s)
           m == Len(whole)
           l == Len(s)
<1> HIDE DEF t, m, l
<1>3. /\ k \in Nat /\ k + 1 \in 1..m /\ k + 1 \in 0..m
      /\ 1 \in 1..l /\ Len(t) = m - (k + 1)
  BY <1>1, <1>2 DEF t, m, l
<1>4. Head(s) = whole[k + 1]
  BY <1>1, <1>2, <1>3 DEF l
<1>5. ASSUME NEW i \in 1..Len(t) PROVE t[i] = whole[(k + 1) + i]
  <2>1. i + 1 \in 1..l /\ k + (i + 1) = (k + 1) + i
    BY <1>1, <1>2, <1>3, <1>5 DEF t, m, l
  <2>2. t[i] = s[i + 1] /\ s[i + 1] = whole[k + (i + 1)]
    BY <1>1, <1>2, <2>1 DEF t, l
  <2> QED
    BY <2>1, <2>2
<1> QED
  BY <1>3, <1>4, <1>5 DEF Left, t, m

LEMMA StillSuits ==
  ASSUME Going, NEW q, Piece(q, free, plan, FALSE), NEW v, NEW type
  PROVE  Suits(q, plan, v, type) <=> Suits(q, plan', v, type)
<1>1. free \in Nat /\ free <= NumSpines
  BY DEF Going, Planning, FitInv, EnoughSpines
<1> QED
  BY <1>1, SuitsGrow DEF Going

LEMMA StillAllSuit ==
  ASSUME Going, NEW q, Piece(q, free, plan, FALSE), NEW types, AllSuit(q, plan, types)
  PROVE  AllSuit(q, plan', types)
BY StillSuits DEF AllSuit

LEMMA GoingBuilt ==
  ASSUME Going
  PROVE  /\ VInv /\ BuildInv(FALSE) /\ free \in Spines
         /\ \A i \in 1..Len(frames) : Piece(frames[i].main, free, plan, FALSE)
         /\ Piece(low.combined, free, plan, FALSE)
<1>1. VInv /\ FitInv(FALSE) /\ BuildInv(FALSE)
  BY DEF Going, Planning, FitInv
<1>2. free \in Spines
  BY <1>1, SpineAssumption DEF Going, FitInv, EnoughSpines, Spines
<1> QED
  BY <1>1, <1>2 DEF BuildInv, FrameBuilt, LowBuilt

LEMMA Outermost ==
  ASSUME VInv, frames # <<>>
  PROVE  Len(frames) \in 1..Len(frames) /\ (Len(frames) = 1 \/ Len(frames) \in 2..Len(frames))
<1> DEFINE n == Len(frames)
<1>1. n \in Nat /\ 1 \in 1..n
  BY TopShape DEF VInv
<1> HIDE DEF n
<1>2. n \in 1..n /\ (n = 1 \/ n \in 2..n)
  BY <1>1
<1> QED
  BY <1>2 DEF n

LEMMA TypesHere ==
  ASSUME Going, frames # <<>>, NEW f, f = frames[Len(frames)],
         NEW types, types = TypesOf(query.clauses, f)
  PROVE  /\ DOMAIN types \subseteq UserVars
         /\ ~(low.on /\ Len(frames) = 1) => DOMAIN types = f.visible
<1> DEFINE cs == query.clauses
           lowering == low.on /\ Len(frames) = 1
<1>1. PICK b, k : Follows(cs, f, b, k, lowering)
  BY DEF Going, FollowsInv
<1>2. IsSequence(cs) /\ VInv /\ BuildInv(FALSE)
  BY GoingBuilt DEF Going, FollowsInv
<1> HIDE DEF lowering, cs
<1>3. DOMAIN TypesOf(cs, f) = NamesAt(cs, b, k)
  BY <1>1, <1>2, TypesWhereItIs
<1>4. f.visible = IF lowering THEN NamesAfter(NamesAt(cs, b, k), Head(f.todo))
                  ELSE NamesAt(cs, b, k)
  BY <1>1 DEF Follows
<1>5. f.visible \subseteq UserVars
  BY <1>2, Outermost, FramesTyped DEF Going
<1>6. CASE lowering
  <2>1. f = Top /\ Clause.kind = "Match"
    BY <1>2, <1>6, TopShape DEF lowering, VInv, LowInv
  <2>2. NamesAt(cs, b, k) \subseteq NamesAfter(NamesAt(cs, b, k), Head(f.todo))
    BY <2>1 DEF NamesAfter, Clause
  <2> QED
    BY <1>3, <1>4, <1>5, <1>6, <2>2 DEF lowering, cs
<1>7. CASE ~lowering
  BY <1>3, <1>4, <1>5, <1>7 DEF lowering, cs
<1> QED
  BY <1>6, <1>7

(* The outermost call has the same clauses left and the same plan.         *)
LEMMA BottomStays ==
  ASSUME Going, UNCHANGED query, frames' # <<>> => frames # <<>>,
         frames' # <<>> => LET f == frames[Len(frames)]
                               g == frames'[Len(frames')]
                           IN  g.main = f.main /\ g.todo = f.todo
  PROVE  BottomSuits'
<1> SUFFICES ASSUME frames' # <<>>
             PROVE  LET g == frames'[Len(frames')]
                    IN  AllSuit(g.main, plan', TypesOf(query.clauses, g))
  BY DEF BottomSuits
<1> DEFINE f == frames[Len(frames)]
           g == frames'[Len(frames')]
<1>1. g.main = f.main /\ g.todo = f.todo /\ frames # <<>>
  OBVIOUS
<1>2. AllSuit(f.main, plan, TypesOf(query.clauses, f))
  BY <1>1 DEF Going, SuitsInv, BottomSuits
<1>3. Piece(f.main, free, plan, FALSE)
  BY <1>1, GoingBuilt, Outermost
<1> HIDE DEF f, g
<1>4. TypesOf(query.clauses, g) = TypesOf(query.clauses, f)
  BY <1>1 DEF TypesOf
<1>5. AllSuit(f.main, plan', TypesOf(query.clauses, f))
  BY <1>2, <1>3, StillAllSuit
<1> QED
  BY <1>1, <1>4, <1>5 DEF g

(* The innermost call goes on to the next clause.                          *)
LEMMA BottomOn ==
  ASSUME Going, UNCHANGED query, frames # <<>>, Top.todo # <<>>, Clause.kind # "Union",
         NEW f, Proceed(f), DOMAIN f = FrameFields, f.todo = Top.todo,
         ASSUME NEW types, AllSuit(Top.main, plan, types), DOMAIN types \subseteq UserVars,
                ~low.on => DOMAIN types = Top.visible
         PROVE  AllSuit(f.main, plan', TypesAfter(types, Clause))
  PROVE  BottomSuits'
<1> DEFINE g == [f EXCEPT !.todo = Tail(@)]
           n == Len(frames)
           cs == query.clauses
<1>1. g.todo = Tail(Top.todo) /\ g.main = f.main
  BY DEF FrameFields
<1>2. frames' = <<g>> \o Tail(frames)
  BY DEF Proceed
<1> HIDE DEF g
<1>3. VInv /\ Len(frames') = n /\ frames'[1] = g /\ \A i \in 2..n : frames'[i] = frames[i]
  BY <1>2, Replaced, GoingBuilt DEF VInv
<1>4. n \in 1..n /\ (n = 1 \/ n \in 2..n) /\ Top = frames[1] /\ IsSequence(Top.todo)
  BY <1>3, Outermost, TopShape DEF VInv, FrameShape, IsSequence
<1>5. CASE n = 1
  <2>1. frames[n] = Top /\ frames'[Len(frames')] = g
    BY <1>3, <1>4, <1>5
  <2> DEFINE types == TypesOf(cs, Top)
  <2>2. AllSuit(Top.main, plan, types)
    BY <2>1 DEF Going, SuitsInv, BottomSuits
  <2>3. DOMAIN types \subseteq UserVars /\ (~low.on => DOMAIN types = Top.visible)
    BY <2>1, TypesHere
  <2> HIDE DEF types
  <2>4. AllSuit(f.main, plan', TypesAfter(types, Clause))
    BY <2>2, <2>3
  <2>5. PICK b, k : Follows(cs, Top, b, k, low.on /\ n = 1)
    BY <2>1 DEF Going, FollowsInv
  <2>6. IsSequence(cs)
    BY DEF Going, FollowsInv
  <2> HIDE DEF cs
  <2>7. TypesOf(cs, g) = TypesAfter(types, Clause)
    BY <1>1, <1>4, <2>5, <2>6, TypesOn DEF types, Clause
  <2>8. cs' = cs
    BY DEF cs
  <2>9. AllSuit(g.main, plan', TypesOf(cs, g))
    BY <1>1, <2>4, <2>7
  <2> QED
    BY <2>1, <2>8, <2>9 DEF BottomSuits, cs
<1>6. CASE n \in 2..n
  <2>1. frames'[Len(frames')] = frames[n]
    BY <1>3, <1>6
  <2> QED
    BY <2>1, BottomStays
<1> QED
  BY <1>4, <1>5, <1>6

(* A call of plan_branch that starts knows no names.                       *)
LEMMA BottomFresh ==
  ASSUME FollowsInv', NEW todo, frames' = <<Frame(todo)>>, ~low'.on
  PROVE  BottomSuits'
<1> DEFINE f == Frame(todo)
           cs == query'.clauses
<1>1. Len(frames') = 1 /\ frames'[1] = f /\ f.visible = {} /\ frames' # <<>>
  BY One DEF Frame
<1> HIDE DEF f
<1>2. PICK b, k : Follows(cs, f, b, k, FALSE)
  <2>1. \E b, k : Follows(cs, frames'[Len(frames')], b, k, low'.on /\ Len(frames') = 1)
    BY <1>1 DEF FollowsInv
  <2>2. (low'.on /\ Len(frames') = 1) = FALSE
    OBVIOUS
  <2> QED
    BY <1>1, <2>1, <2>2
<1>3. IsSequence(cs)
  BY DEF FollowsInv
<1> HIDE DEF cs
<1>4. DOMAIN TypesOf(cs, f) = NamesAt(cs, b, k)
  BY <1>2, <1>3, TypesWhereItIs
<1>5. NamesAt(cs, b, k) = {}
  BY <1>1, <1>2 DEF Follows
<1> QED
  BY <1>1, <1>4, <1>5 DEF BottomSuits, AllSuit, cs

-----------------------------------------------------------------------------
(* The clauses other than MATCH.                                           *)
LEMMA Quiet ==
  ASSUME NEW kind, NEW used, NEW v
  PROVE  Binders(<<Node(kind, used, {})>>, v) = {}
BY KindOfOne DEF Node

LEMMA EmitSuits ==
  ASSUME Going, NEW kinds, At(kinds), "Union" \notin kinds, NEW ops, NEW names,
         Emit(ops, names),
         ASSUME NEW types, AllSuit(Top.main, plan, types), DOMAIN types \subseteq UserVars
         PROVE  AllSuit(Top.main \o ops, plan, TypesAfter(types, Clause))
  PROVE  SuitsInv'
<1> DEFINE f == [Top EXCEPT !.main = @ \o ops, !.visible = @ \cup names]
<1>1. frames # <<>> /\ ~low.on /\ Top.todo # <<>> /\ Clause.kind # "Union"
  BY AtShape
<1>2. DOMAIN Top = FrameFields
  BY <1>1, GoingBuilt, TopShape DEF VInv, FrameShape
<1>3. DOMAIN f = FrameFields /\ f.todo = Top.todo /\ f.main = Top.main \o ops
  BY <1>2 DEF FrameFields
<1>4. Proceed(f) /\ UNCHANGED <<query, plan, low>>
  BY DEF Emit
<1> HIDE DEF f
<1>5. ASSUME NEW types, AllSuit(Top.main, plan, types), DOMAIN types \subseteq UserVars,
             ~low.on => DOMAIN types = Top.visible
      PROVE  AllSuit(f.main, plan', TypesAfter(types, Clause))
  BY <1>3, <1>4, <1>5
<1>6. BottomSuits'
  BY <1>1, <1>3, <1>4, <1>5, BottomOn
<1> QED
  BY <1>1, <1>4, <1>6 DEF SuitsInv

LEMMA TopIsSequence ==
  ASSUME Going, frames # <<>>
  PROVE  IsSequence(Top.main)
BY GoingBuilt, TopShape DEF VInv, FrameShape

(* What a clause reads, filters or updates changes no name.                *)
LEMMA ReadersSuit ==
  ASSUME Going, Where \/ Update
  PROVE  SuitsInv'
<1> DEFINE kinds == {"Where", "Set", "Remove", "Delete"}
<1>1. PICK kind : At(kinds) /\ Emit(<<Node(kind, Clause.reads, {})>>, {})
  BY DEF Where, Update, At
<1> DEFINE op == Node(kind, Clause.reads, {})
<1>2. Clause.kind \in kinds /\ IsSequence(Top.main) /\ IsSequence(<<op>>)
  BY <1>1, AtShape, TopIsSequence, One
<1>3. \A v : Binders(<<op>>, v) = {}
  BY Quiet
<1> HIDE DEF op
<1>4. ASSUME NEW types, AllSuit(Top.main, plan, types)
      PROVE  AllSuit(Top.main \o <<op>>, plan, TypesAfter(types, Clause))
  <2>1. TypesAfter(types, Clause) = types
    BY <1>2 DEF TypesAfter
  <2> QED
    BY <1>2, <1>3, <1>4, <2>1, QuietOnTop
<1>5. "Union" \notin kinds
  OBVIOUS
<1> HIDE DEF kinds
<1> QED
  BY <1>1, <1>4, <1>5, EmitSuits DEF op

(* UNWIND, LOAD CSV and START bind their name themselves.                  *)
LEMMA BindersSuit ==
  ASSUME Going, LoadCsv \/ Unwind \/ Start
  PROVE  SuitsInv'
<1> DEFINE kinds == {"LoadCsv", "Unwind", "Start"}
           kind == Clause.kind
           names == Clause.binds
           op == Node(kind, Clause.reads, names)
           type == IF kind = "LoadCsv" THEN "Map" ELSE IF kind = "Start" THEN "Node" ELSE "Any"
<1>1. At(kinds) /\ Emit(<<op>>, names)
  BY AtShape DEF LoadCsv, Unwind, Start, At
<1>2. kind \in kinds /\ IsSequence(Top.main) /\ IsSequence(<<op>>)
  BY <1>1, AtShape, TopIsSequence, One
<1>3. \A v \in names : type = "Any" \/ Suits(<<op>>, plan, v, type)
  <2> SUFFICES ASSUME NEW v \in names, type # "Any" PROVE Suits(<<op>>, plan, v, type)
    OBVIOUS
  <2>1. v \in op.intro /\ op.kind = kind /\ op.right = 0 /\ kind # "Project"
    BY <1>2 DEF Node
  <2>2. type \in Yields(kind)
    BY <1>2 DEF Yields
  <2> HIDE DEF op, kind, type
  <2> QED
    BY <2>1, <2>2, SuitsOne
<1>4. \A v : v \notin names => Binders(<<op>>, v) = {}
  BY KindOfOne DEF Node
<1>5. \A types : TypesAfter(types, Clause) = Typed(types, names, type)
  BY <1>2 DEF TypesAfter
<1> HIDE DEF op, type, names
<1>6. ASSUME NEW types, AllSuit(Top.main, plan, types)
      PROVE  AllSuit(Top.main \o <<op>>, plan, TypesAfter(types, Clause))
  <2>1. AllSuit(Top.main \o <<op>>, plan, Typed(types, names, type))
    BY <1>2, <1>3, <1>4, <1>6, TypedOnTop
  <2> QED
    BY <1>5, <2>1
<1>7. "Union" \notin kinds
  OBVIOUS
<1> HIDE DEF kinds
<1> QED
  BY <1>1, <1>6, <1>7, EmitSuits

(* CALL yields anything; the filters on it yield nothing.                  *)
LEMMA CallSuits ==
  ASSUME Going, Call
  PROVE  SuitsInv'
<1> DEFINE names == Clause.binds
           op == Node("ProcedureCall", Clause.reads, names)
           n == Len(Clause.pred)
           filters == [i \in 1..n |-> Node("Filter", Clause.pred[i], {})]
           ops == <<op>> \o filters
<1>1. At({"Call"}) /\ Emit(ops, names)
  BY DEF Call
<1>2. /\ Clause.kind = "Call" /\ frames # <<>> /\ Top.todo # <<>>
      /\ IsSequence(Top.main) /\ IsSequence(<<op>>)
  BY <1>1, AtShape, TopIsSequence, One
<1>3. n \in Nat
  BY <1>2, GoingBuilt, ClauseShape DEF VInv, Going, Proper, ProperClauses
<1>4. IsSequence(filters) /\ \A v : Binders(filters, v) = {}
  <2>1. filters = [i \in 1..n |-> filters[i]] /\ \A i \in 1..n : filters[i].intro = {}
    BY DEF Node
  <2> HIDE DEF filters, n
  <2>2. IsSequence(filters) /\ Len(filters) = n
    BY <1>3, <2>1, FunctionIsSequence
  <2> QED
    BY <2>1, <2>2, NotBinding
<1>5. \A v : v \notin names => Binders(<<op>>, v) = {}
  BY KindOfOne DEF Node
<1> HIDE DEF op, filters
<1>6. IsSequence(ops) /\ \A v : v \notin names => Binders(ops, v) = {}
  BY <1>2, <1>4, <1>5, Concatenated, KindJoined
<1> HIDE DEF ops, names
<1>7. ASSUME NEW types, AllSuit(Top.main, plan, types)
      PROVE  AllSuit(Top.main \o ops, plan, TypesAfter(types, Clause))
  <2>1. AllSuit(Top.main \o ops, plan, Typed(types, names, "Any"))
    BY <1>2, <1>6, <1>7, TypedOnTop
  <2>2. TypesAfter(types, Clause) = Typed(types, names, "Any")
    BY <1>2 DEF TypesAfter, names
  <2> QED
    BY <2>1, <2>2
<1> QED
  BY <1>1, <1>7, EmitSuits

(* CREATE and MERGE make all their patterns name.                          *)
LEMMA TypesInPatterns ==
  ASSUME NEW p, NEW v
  PROVE  TypeIn(p, v) \in {"Node", "Relationship", "Path"}
BY DEF TypeIn

LEMMA WriteSuits ==
  ASSUME Going, Write
  PROVE  SuitsInv'
<1> DEFINE kinds == {"Create", "Merge"}
           ps == Clause.patterns
           made == [i \in 1..Len(ps) |-> Part(PatternBindings(ps[i]), PatternReads(ps[i]))]
           actions == IF Clause.kind = "Merge" THEN <<Part({}, Clause.reads)>> ELSE <<>>
           parts == made \o actions
           node == Node(Clause.kind, Reads(parts) \ Names(parts), Names(parts))
           op == [node EXCEPT !.parts = parts]
<1>1. At(kinds) /\ Emit(<<op>>, Names(parts))
  BY DEF Write
<1>2. /\ Clause.kind \in kinds /\ frames # <<>> /\ Top.todo # <<>>
      /\ IsSequence(Top.main) /\ IsSequence(<<op>>)
  BY <1>1, AtShape, TopIsSequence, One
<1>3. ps \in Seq(AnyPattern)
  BY <1>2, GoingBuilt, ClauseShape DEF VInv, Going, Proper, ProperClauses
<1>4. op.kind = Clause.kind /\ op.right = 0 /\ op.intro = Names(parts)
  BY DEF Node
<1>5. /\ IsSequence(made) /\ Len(made) = Len(ps)
      /\ \A i \in 1..Len(ps) : made[i].names = PatternBindings(ps[i])
  <2>1. IsSequence(made) /\ Len(made) = Len(ps)
    BY <1>3, FunctionIsSequence
  <2> QED
    BY <2>1 DEF Part
<1>6. IsSequence(actions) /\ \A i \in 1..Len(actions) : actions[i].names = {}
  BY One, Nothing DEF Part
<1> HIDE DEF made, actions, op
<1>7. Names(parts) = PatternNames(ps)
  <2>1. Names(parts) = UNION {made[i].names : i \in 1..Len(made)}
    BY <1>5, <1>6, NamesOfParts
  <2>2. \A v : (\E i \in 1..Len(made) : v \in made[i].names)
                <=> (\E i \in 1..Len(ps) : v \in PatternBindings(ps[i]))
    BY <1>5
  <2>3. UNION {made[i].names : i \in 1..Len(made)} = PatternNames(ps)
    BY <2>2 DEF Patterns, PatternNames
  <2> QED
    BY <2>1, <2>3
<1> HIDE DEF parts, ps
<1>8. \A v \in PatternNames(ps) : Suits(<<op>>, plan, v, TypeIn(LastWith(ps, v), v))
  <2> SUFFICES ASSUME NEW v \in PatternNames(ps)
               PROVE  Suits(<<op>>, plan, v, TypeIn(LastWith(ps, v), v))
    OBVIOUS
  <2> DEFINE type == TypeIn(LastWith(ps, v), v)
  <2>1. type \in Yields(op.kind) /\ op.kind # "Project"
    BY <1>2, <1>4, TypesInPatterns DEF Yields
  <2> HIDE DEF type
  <2>2. v \in op.intro /\ op.right = 0
    BY <1>4, <1>7
  <2>3. Suits(<<op>>, plan, v, type)
    BY <2>1, <2>2, SuitsOne
  <2> QED
    BY <2>3 DEF type
<1>9. \A v : v \notin PatternNames(ps) => Binders(<<op>>, v) = {}
  BY <1>4, <1>7, KindOfOne
<1>10. ASSUME NEW types, AllSuit(Top.main, plan, types)
       PROVE  AllSuit(Top.main \o <<op>>, plan, TypesAfter(types, Clause))
  <2>1. AllSuit(Top.main \o <<op>>, plan, PatternTypes(types, ps))
    BY <1>2, <1>8, <1>9, <1>10, PatternsOnTop
  <2>2. TypesAfter(types, Clause) = PatternTypes(types, ps)
    BY <1>2 DEF TypesAfter, ps
  <2> QED
    BY <2>1, <2>2
<1>11. "Union" \notin kinds
  OBVIOUS
<1> HIDE DEF kinds
<1> QED
  BY <1>1, <1>10, <1>11, EmitSuits

LEMMA JoinedTwice ==
  ASSUME NEW q, NEW r, NEW s, IsSequence(q), IsSequence(r), IsSequence(s)
  PROVE  (q \o r) \o s = q \o (r \o s)
<1>1. PICK A, B, C : q \in Seq(A) /\ r \in Seq(B) /\ s \in Seq(C)
  BY DEF IsSequence
<1> DEFINE S == A \cup B \cup C
<1>2. q \in Seq(S) /\ r \in Seq(S) /\ s \in Seq(S)
  BY <1>1
<1> HIDE DEF S
<1> QED
  BY <1>2, ConcatAssociative, SMTT(30)

LEMMA WithSuits ==
  ASSUME Going, With
  PROVE  SuitsInv'
<1> DEFINE added == <<ProjectItems(Clause.star, Clause.items)>> \o Deduplicate(Clause.distinct)
           f == [Top EXCEPT
                   !.main = @ \o <<ProjectItems(Clause.star, Clause.items)>>
                              \o Deduplicate(Clause.distinct),
                   !.visible = (IF Clause.star THEN @ ELSE {}) \cup ItemNames(Clause.items)]
<1>1. At({"With"}) /\ Proceed(f) /\ UNCHANGED <<query, plan, low>>
  BY DEF With
<1>2. /\ Clause.kind = "With" /\ frames # <<>> /\ Top.todo # <<>> /\ ~low.on
      /\ IsSequence(Top.main)
  BY <1>1, AtShape, TopIsSequence
<1>3. DOMAIN Top = FrameFields
  BY <1>2, GoingBuilt, TopShape DEF VInv, FrameShape
<1>4. Len(Clause.items) \in Nat
  <2>1. Clause.items \in Seq(AnyItem)
    BY <1>2, GoingBuilt, ClauseShape DEF VInv, Going, Proper, ProperClauses
  <2> QED
    BY <2>1
<1>5. DOMAIN f = FrameFields /\ f.todo = Top.todo
      /\ f.main = (Top.main \o <<ProjectItems(Clause.star, Clause.items)>>)
                    \o Deduplicate(Clause.distinct)
  BY <1>3 DEF FrameFields
<1> HIDE DEF f
<1>6. f.main = Top.main \o added
  <2> DEFINE a == <<ProjectItems(Clause.star, Clause.items)>>
             d == Deduplicate(Clause.distinct)
             q == Top.main
  <2>1. IsSequence(a) /\ IsSequence(d) /\ IsSequence(q)
    BY <1>2, One, Nothing DEF Deduplicate
  <2> HIDE DEF a, d, q
  <2>2. (q \o a) \o d = q \o (a \o d)
    BY <2>1, JoinedTwice
  <2> QED
    BY <1>5, <2>2 DEF a, d, q
<1>7. ASSUME NEW types, AllSuit(Top.main, plan, types), DOMAIN types \subseteq UserVars,
             ~low.on => DOMAIN types = Top.visible
      PROVE  AllSuit(f.main, plan', TypesAfter(types, Clause))
  <2>1. AllSuit(Top.main \o added, plan, ItemTypes(types, Clause))
    BY <1>2, <1>4, <1>7, ItemsOnTop
  <2>2. TypesAfter(types, Clause) = ItemTypes(types, Clause)
    BY <1>2 DEF TypesAfter
  <2> QED
    BY <1>1, <1>6, <2>1, <2>2
<1>8. BottomSuits'
  BY <1>1, <1>2, <1>5, <1>7, BottomOn
<1> QED
  BY <1>1, <1>2, <1>8 DEF SuitsInv

(* A schema command starts with no names; what is kept aside puts nothing  *)
(* on the plan yet.                                                        *)
LEMMA AsideSuits ==
  ASSUME Going, SchemaCommand \/ Return \/ OrderBy \/ Skip \/ Limit
  PROVE  SuitsInv'
<1> DEFINE kinds == {"SchemaCommand", "Return", "OrderBy", "Skip", "Limit"}
<1>1. /\ Clause.kind \in kinds /\ frames # <<>> /\ Top.todo # <<>> /\ ~low.on
      /\ UNCHANGED <<query, plan, low>>
  BY AtShape DEF SchemaCommand, Return, OrderBy, Skip, Limit
<1>2. FrameShape(Top) /\ VInv
  BY <1>1, GoingBuilt, TopShape DEF VInv
<1>3. PICK f : /\ Proceed(f) /\ DOMAIN f = FrameFields /\ f.todo = Top.todo
               /\ f.main = Top.main \/ SchemaCommand
  <2>0. DOMAIN Top = FrameFields
    BY <1>2 DEF FrameShape
  <2>1. CASE SchemaCommand
    <3> DEFINE f == [Top EXCEPT !.main = <<Node("SchemaCommand", {}, {})>>]
    <3>1. Proceed(f)
      BY <2>1 DEF SchemaCommand
    <3>2. DOMAIN f = FrameFields /\ f.todo = Top.todo
      BY <2>0 DEF FrameFields
    <3> HIDE DEF f
    <3> QED
      BY <2>1, <3>1, <3>2
  <2>2. CASE Return
    <3> DEFINE f == [Top EXCEPT
        !.project  = Some(ProjectItems(Clause.star, Clause.items)),
        !.distinct = Clause.distinct,
        !.columns  = Some(Len(Clause.items)
                       + IF Clause.star THEN Cardinality(Top.visible) ELSE 0)]
    <3>1. Proceed(f)
      BY <2>2 DEF Return
    <3>2. DOMAIN f = FrameFields /\ f.todo = Top.todo /\ f.main = Top.main
      BY <2>0 DEF FrameFields
    <3> HIDE DEF f
    <3> QED
      BY <3>1, <3>2
  <2>3. CASE OrderBy
    <3> DEFINE f == [Top EXCEPT !.sort = Some(Node("Sort", Clause.reads, {}))]
    <3>1. Proceed(f)
      BY <2>3 DEF OrderBy
    <3>2. DOMAIN f = FrameFields /\ f.todo = Top.todo /\ f.main = Top.main
      BY <2>0 DEF FrameFields
    <3> HIDE DEF f
    <3> QED
      BY <3>1, <3>2
  <2>4. CASE Skip
    <3> DEFINE f == [Top EXCEPT !.skip = Some(Node("Skip", Clause.reads, {}))]
    <3>1. Proceed(f)
      BY <2>4 DEF Skip
    <3>2. DOMAIN f = FrameFields /\ f.todo = Top.todo /\ f.main = Top.main
      BY <2>0 DEF FrameFields
    <3> HIDE DEF f
    <3> QED
      BY <3>1, <3>2
  <2>5. CASE Limit
    <3> DEFINE f == [Top EXCEPT !.limit = Some(Node("Limit", Clause.reads, {}))]
    <3>1. Proceed(f)
      BY <2>5 DEF Limit
    <3>2. DOMAIN f = FrameFields /\ f.todo = Top.todo /\ f.main = Top.main
      BY <2>0 DEF FrameFields
    <3> HIDE DEF f
    <3> QED
      BY <3>1, <3>2
  <2> QED
    BY <2>1, <2>2, <2>3, <2>4, <2>5
<1>4. SchemaCommand => Top.visible = {}
  <2> SUFFICES ASSUME SchemaCommand PROVE Top.visible = {}
    OBVIOUS
  <2>1. Clause.kind = "SchemaCommand"
    BY AtShape DEF SchemaCommand
  <2>2. /\ IsSequence(Top.todo) /\ Len(Top.todo) > 0 /\ Clause = Top.todo[1]
        /\ Len(Top.todo) \in Nat
    BY <1>1, <1>2, TailFacts, SequenceFacts DEF FrameShape, IsSequence, Clause
  <2>3. 1 \in 1..Len(Top.todo)
    BY <2>2
  <2> QED
    BY <1>2, <2>1, <2>2, <2>3 DEF FrameShape, HasSchemaCommand
<1>5. ASSUME NEW types, AllSuit(Top.main, plan, types), DOMAIN types \subseteq UserVars,
             ~low.on => DOMAIN types = Top.visible
      PROVE  AllSuit(f.main, plan', TypesAfter(types, Clause))
  <2>1. TypesAfter(types, Clause) = types
    BY <1>1 DEF TypesAfter
  <2>2. f.main # Top.main => DOMAIN types = {}
    BY <1>1, <1>3, <1>4, <1>5
  <2> QED
    BY <1>1, <1>5, <2>1, <2>2 DEF AllSuit
<1>6. BottomSuits'
  BY <1>1, <1>3, <1>5, BottomOn
<1> QED
  BY <1>1, <1>6 DEF SuitsInv

-----------------------------------------------------------------------------
(* The lowering of a MATCH.                                                *)
LEMMA NamesAreVars ==
  ASSUME Proper, WellTyped
  PROVE  UserVars \subseteq Vars /\ NoVar \notin UserVars
BY DEF Proper, ProperNames, WellTyped, TypedNames

LEMMA QuietPredicates ==
  ASSUME NEW e, NEW var
  PROVE  IsSequence(Predicates(e, var)) /\ \A v : Binders(Predicates(e, var), v) = {}
<1> DEFINE s == IF e.props THEN <<Node("Filter", {var} \cup e.reads, {})>> ELSE <<>>
           t == IF e.map THEN <<Node("PropertyMapFilter", {var}, {})>> ELSE <<>>
<1>1. IsSequence(s) /\ IsSequence(t)
  BY One, Nothing
<1>2. \A v : Binders(<<>>, v) = {}
  BY Nothing DEF Binders
<1>3. \A v : Binders(s, v) = {} /\ Binders(t, v) = {}
  BY <1>2, Quiet
<1>4. Predicates(e, var) = s \o t
  BY DEF Predicates
<1> HIDE DEF s, t
<1> QED
  BY <1>1, <1>3, <1>4, Concatenated, KindJoined

(* The scan binds the anchor.                                              *)
LEMMA PathStarts ==
  ASSUME Proper, WellTyped, NEW ps \in Seq(AnyPattern), ps # <<>>, NEW combined
  PROVE  PathLowered(Lowering(ps, combined).path, Head(ps), 0)
<1> DEFINE p == Head(ps)
           var == EffectiveVar(p.anchor, "node", 0)
           scan == Node("Scan", {}, Named(var))
           preds == Predicates(p.anchor, var)
           path == Lowering(ps, combined).path
<1>1. path = <<scan>> \o preds
  BY DEF Lowering
<1>2. Intros(path) \cap UserVars = Named(p.anchor.var)
  BY LoweringShape
<1>3. IsSequence(<<scan>>) /\ IsSequence(preds) /\ \A v : Binders(preds, v) = {}
  BY One, QuietPredicates
<1>4. scan.kind = "Scan" /\ scan.right = 0 /\ scan.intro = Named(var)
  BY DEF Node
<1>5. NoVar \notin UserVars
  BY NamesAreVars
<1>6. p.anchor.var # NoVar => var = p.anchor.var
  BY DEF EffectiveVar, Synthesizes
<1> HIDE DEF p, var, scan, preds, path
<1>7. ASSUME NEW v \in UserVars
      PROVE  IF LinksOf(p, 0, v) # {} THEN \A kinds : KindIn(path, v, kinds) = "Expand"
             ELSE IF v = p.anchor.var THEN \A kinds : KindIn(path, v, kinds) = "Scan"
             ELSE v \notin Intros(path)
  <2>1. LinksOf(p, 0, v) = {}
    BY DEF LinksOf
  <2>2. v = p.anchor.var => \A kinds : KindIn(path, v, kinds) = "Scan"
    <3> SUFFICES ASSUME v = p.anchor.var, NEW kinds PROVE KindIn(path, v, kinds) = "Scan"
      OBVIOUS
    <3>1. v \in scan.intro
      BY <1>4, <1>5, <1>6 DEF Named
    <3>2. KindIn(<<scan>>, v, kinds) = "Scan"
      BY <1>4, <3>1, KindOfOne
    <3> QED
      BY <1>1, <1>3, <3>2, KindJoined
  <2>3. v # p.anchor.var => v \notin Intros(path)
    BY <1>2 DEF Named
  <2> QED
    BY <2>1, <2>2, <2>3
<1> QED
  BY <1>7 DEF PathLowered, p, path

(* A link binds its relationship and its node.                             *)
LEMMA PathGoesOn ==
  ASSUME NEW p, NEW n \in Nat, NEW q, IsSequence(q), PathLowered(q, p, n),
         NEW op, op.kind = "Expand", op.right = 0,
         \A v \in UserVars : v \in op.intro
                               <=> v \in {p.chain[n + 1].rel.var, p.chain[n + 1].node.var},
         NEW r, IsSequence(r), \A v : Binders(r, v) = {},
         NEW t, IsSequence(t), t = (q \o <<op>>) \o r,
         \A v \in UserVars : v \in Intros(t) => v \in Intros(q) \/ v \in op.intro
  PROVE  PathLowered(t, p, n + 1)
<1> DEFINE links(m, v) == LinksOf(p, m, v)
<1>1. ASSUME NEW v \in UserVars
      PROVE  links(n + 1, v) = links(n, v) \cup (IF v \in op.intro THEN {n + 1} ELSE {})
  <2>1. 1..(n + 1) = (1..n) \cup {n + 1}
    OBVIOUS
  <2> QED
    BY <2>1 DEF LinksOf
<1>2. IsSequence(<<op>>) /\ IsSequence(q \o <<op>>)
  BY One, Concatenated
<1>3. ASSUME NEW v, NEW kinds
      PROVE  KindIn(t, v, kinds) = IF v \in op.intro THEN "Expand" ELSE KindIn(q, v, kinds)
  <2>1. KindIn(t, v, kinds) = KindIn(q \o <<op>>, v, kinds)
    BY <1>2, KindJoined
  <2>2. KindIn(q \o <<op>>, v, kinds) =
          IF Binders(<<op>>, v) = {} THEN KindIn(q, v, kinds) ELSE KindIn(<<op>>, v, kinds)
    BY <1>2, KindJoined
  <2>3. /\ Binders(<<op>>, v) = IF v \in op.intro THEN {1} ELSE {}
        /\ v \in op.intro => KindIn(<<op>>, v, kinds) = "Expand"
    BY KindOfOne
  <2>4. {1} # {}
    OBVIOUS
  <2> QED
    BY <2>1, <2>2, <2>3, <2>4
<1> HIDE DEF links
<1>4. ASSUME NEW v \in UserVars
      PROVE  IF links(n + 1, v) # {} THEN \A kinds : KindIn(t, v, kinds) = "Expand"
             ELSE IF v = p.anchor.var THEN \A kinds : KindIn(t, v, kinds) = "Scan"
             ELSE v \notin Intros(t)
  <2>1. IF links(n, v) # {} THEN \A kinds : KindIn(q, v, kinds) = "Expand"
        ELSE IF v = p.anchor.var THEN \A kinds : KindIn(q, v, kinds) = "Scan"
        ELSE v \notin Intros(q)
    BY DEF PathLowered, links
  <2>2. CASE v \in op.intro
    BY <1>1, <1>3, <2>2
  <2>3. CASE v \notin op.intro
    <3>1. links(n + 1, v) = links(n, v)
      BY <1>1, <2>3
    <3>2. \A kinds : KindIn(t, v, kinds) = KindIn(q, v, kinds)
      BY <1>3, <2>3
    <3> QED
      BY <2>1, <2>3, <3>1, <3>2
  <2> QED
    BY <2>2, <2>3
<1> QED
  BY <1>4 DEF PathLowered, links

(* The names of a pattern that is lowered suit what the analysis takes     *)
(* them for, in any plan.                                                  *)
LEMMA PatternSuits ==
  ASSUME Proper, WellTyped, PathsApart, NEW p \in AnyPattern,
         NEW path, IsSequence(path), PathLowered(path, p, Len(p.chain)),
         NEW done, done = (path \o (IF p.shortest THEN <<Node("ShortestPath", {}, {})>> ELSE <<>>))
                            \o (IF p.path # NoVar THEN <<Node("NamedPath", {}, {p.path})>> ELSE <<>>),
         \A v \in UserVars : v \in Intros(done) => v \in Intros(path) \/ v = p.path,
         NEW v \in UserVars
  PROVE  IF v \in PatternBindings(p) THEN \A pl : Suits(done, pl, v, TypeIn(p, v))
         ELSE v \notin Intros(done)
<1> DEFINE short == IF p.shortest THEN <<Node("ShortestPath", {}, {})>> ELSE <<>>
           named == IF p.path # NoVar THEN <<Node("NamedPath", {}, {p.path})>> ELSE <<>>
           links == LinksOf(p, Len(p.chain), v)
<1>1. v # NoVar
  BY NamesAreVars
<1>2. \A w : Binders(<<>>, w) = {}
  BY Nothing DEF Binders
<1>3. IsSequence(short) /\ IsSequence(named) /\ Binders(short, v) = {}
  BY <1>2, One, Nothing, Quiet
<1>4. IF v = p.path THEN \A kinds : KindIn(named, v, kinds) = "NamedPath" /\ Binders(named, v) # {}
      ELSE Binders(named, v) = {}
  <2> DEFINE op == Node("NamedPath", {}, {p.path})
  <2>1. op.kind = "NamedPath" /\ op.intro = {p.path} /\ op.right = 0 /\ {1} # {}
    BY DEF Node
  <2>2. named = IF p.path # NoVar THEN <<op>> ELSE <<>>
    OBVIOUS
  <2> HIDE DEF op, named
  <2>3. CASE v = p.path
    <3>1. named = <<op>> /\ v \in op.intro
      BY <1>1, <2>1, <2>2, <2>3
    <3> QED
      BY <2>1, <2>3, <3>1, KindOfOne
  <2>4. CASE v # p.path
    BY <1>2, <2>1, <2>2, <2>4, KindOfOne
  <2> QED
    BY <2>3, <2>4
<1>5. done = (path \o short) \o named
  OBVIOUS
<1> HIDE DEF short, named
<1>6. \A kinds : KindIn(done, v, kinds) = IF v = p.path THEN "NamedPath" ELSE KindIn(path, v, kinds)
  <2> SUFFICES ASSUME NEW kinds
               PROVE  KindIn(done, v, kinds) = IF v = p.path THEN "NamedPath" ELSE KindIn(path, v, kinds)
    OBVIOUS
  <2> DEFINE u == path \o short
  <2>1. IsSequence(u) /\ KindIn(u, v, kinds) = KindIn(path, v, kinds)
    BY <1>3, Concatenated, KindJoined
  <2>2. done = u \o named
    BY <1>5
  <2> HIDE DEF u
  <2>3. KindIn(u \o named, v, kinds) =
          IF Binders(named, v) = {} THEN KindIn(u, v, kinds) ELSE KindIn(named, v, kinds)
    BY <1>3, <2>1, KindJoined
  <2> QED
    BY <1>4, <2>1, <2>2, <2>3
<1>7. links = {i \in 1..Len(p.chain) : v \in {p.chain[i].rel.var, p.chain[i].node.var}}
  BY DEF LinksOf
<1>8. /\ v \in ChainNames(p.chain) <=> links # {}
      /\ v \in PatternBindings(p) <=> v = p.path \/ v = p.anchor.var \/ links # {}
  <2>1. v \in ChainNames(p.chain) <=> links # {}
    BY <1>1, <1>7 DEF ChainNames, Named
  <2>2. PatternBindings(p) = Named(p.path) \cup Named(p.anchor.var) \cup ChainNames(p.chain)
    BY BindingsOfPattern
  <2> QED
    BY <1>1, <2>1, <2>2 DEF Named
<1>9. v = p.path => v # p.anchor.var /\ links = {}
  <2>1. p.path # NoVar => p.path # p.anchor.var /\ p.path \notin ChainNames(p.chain)
    BY SMTT(30) DEF PathsApart
  <2> HIDE DEF links
  <2> QED
    BY ONLY <1>1, <1>8, <2>1
<1>10. /\ links = {} => TypeIn(p, v) = IF p.anchor.var = v THEN "Node" ELSE "Path"
       /\ links # {} => TypeIn(p, v) \in {"Node", "Relationship"}
  BY <1>7 DEF TypeIn
<1>11. IF links # {} THEN \A kinds : KindIn(path, v, kinds) = "Expand"
       ELSE IF v = p.anchor.var THEN \A kinds : KindIn(path, v, kinds) = "Scan"
       ELSE v \notin Intros(path)
  BY DEF PathLowered
<1> HIDE DEF links
<1>12. CASE v \in PatternBindings(p)
  <2> SUFFICES ASSUME NEW pl PROVE Suits(done, pl, v, TypeIn(p, v))
    BY <1>12
  <2> DEFINE kind == KindIn(done, v, KindsOf(pl, v))
  <2>1. TypeIn(p, v) \in Yields(kind)
    <3>1. CASE v = p.path
      <4>1. kind = "NamedPath" /\ TypeIn(p, v) = "Path"
        BY <1>6, <1>9, <1>10, <3>1
      <4> QED
        BY <4>1 DEF Yields
    <3>2. CASE v # p.path /\ links # {}
      <4>1. kind = "Expand" /\ TypeIn(p, v) \in {"Node", "Relationship"}
        BY <1>6, <1>10, <1>11, <3>2
      <4> QED
        BY <4>1 DEF Yields
    <3>3. CASE v # p.path /\ links = {}
      <4>1. v = p.anchor.var
        BY <1>8, <1>12, <3>3
      <4>2. kind = "Scan" /\ TypeIn(p, v) = "Node"
        BY <1>6, <1>10, <1>11, <3>3, <4>1
      <4> QED
        BY <4>2 DEF Yields
    <3> QED
      BY <3>1, <3>2, <3>3
  <2> QED
    BY <2>1 DEF Suits
<1>13. CASE v \notin PatternBindings(p)
  BY <1>8, <1>11, <1>13
<1> QED
  BY <1>12, <1>13

(* A state with nothing moved but what is lowered and the second inputs.   *)
LEMMA FramesStill ==
  ASSUME Going, UNCHANGED <<query, frames>>
  PROVE  BottomSuits' /\ Top' = Top /\ Clause' = Clause
BY BottomStays DEF Top, Clause

LEMMA BeginMatchSuits ==
  ASSUME Going, BeginMatch
  PROVE  SuitsInv'
<1> DEFINE ps == Clause.patterns
           f == [Top EXCEPT !.visible = @ \cup Patterns(ps, PatternBindings)]
           l == Lowering(ps, <<>>)
<1>1. /\ frames # <<>> /\ ~low.on /\ Top.todo # <<>> /\ Clause.kind = "Match" /\ VInv
  BY AtShape, GoingBuilt DEF BeginMatch
<1>2. CASE ps = <<>>
  <2>1. UNCHANGED <<query, frames, low>>
    BY <1>2 DEF BeginMatch, Fail
  <2> QED
    BY <1>1, <2>1, FramesStill DEF SuitsInv
<1>3. CASE ps # <<>>
  <2>1. frames' = <<f>> \o Tail(frames) /\ low' = l /\ UNCHANGED <<query, plan>>
    BY <1>3 DEF BeginMatch
  <2>2. ps \in Seq(AnyPattern)
    BY <1>1, ClauseShape DEF VInv, Going, Proper, ProperClauses
  <2>3. DOMAIN Top = FrameFields
    BY <1>1, TopShape DEF VInv, FrameShape
  <2>4. f.todo = Top.todo /\ f.main = Top.main
    BY <2>3 DEF FrameFields
  <2> HIDE DEF f, ps
  <2>5. /\ Len(frames') = Len(frames) /\ frames' # <<>>
        /\ Head(frames') = f /\ frames'[1] = f
        /\ \A i \in 2..Len(frames) : frames'[i] = frames[i]
    BY <1>1, <2>1, Replaced DEF VInv
  <2>6. BottomSuits'
    <3>1. Top = frames[1] /\ (Len(frames) = 1 \/ Len(frames) \in 2..Len(frames))
      BY <1>1, Outermost, TopShape DEF VInv
    <3>2. /\ frames'[Len(frames')].main = frames[Len(frames)].main
          /\ frames'[Len(frames')].todo = frames[Len(frames)].todo
      BY <2>4, <2>5, <3>1
    <3> QED
      BY <1>1, <2>1, <3>2, BottomStays
  <2>7. Clause' = Clause
    BY <2>4, <2>5 DEF Top, Clause
  <2>8. /\ l.patterns = ps /\ l.combined = <<>> /\ l.chain = Head(ps).chain
        /\ l.chain \in Seq(AnyLink)
    BY <1>3, <2>2, LoweringShape DEF Going
  <2>9. PathLowered(l.path, Head(ps), 0)
    BY <1>3, <2>2, PathStarts DEF Going
  <2> HIDE DEF l
  <2>10. Left(ps, ps, 0) /\ Left(l.chain, Head(ps).chain, 0)
    BY <2>2, <2>8, LeftAll DEF IsSequence
  <2>11. Lowered(<<>>, plan', ps, 0)
    BY NothingBound DEF Lowered, LastOf
  <2>12. Clause'.patterns = ps
    BY <2>7 DEF ps
  <2>13. LowSuits'
    BY <2>1, <2>8, <2>9, <2>10, <2>11, <2>12 DEF LowSuits
  <2> QED
    BY <2>6, <2>13 DEF SuitsInv
<1> QED
  BY <1>2, <1>3

(* What the invariants say of the MATCH that is being lowered.             *)
LEMMA LoweringShapes ==
  ASSUME Going, low.on
  PROVE  /\ DOMAIN low = LowFields /\ frames # <<>> /\ Top.todo # <<>> /\ Clause.kind = "Match"
         /\ low.patterns \in Seq(AnyPattern) /\ low.chain \in Seq(AnyLink) /\ low.next \in Nat
         /\ Straight(low.combined) /\ Straight(low.path)
         /\ Clause.patterns \in Seq(AnyPattern)
         /\ LowSuits
<1>1. VInv /\ LowSuits
  BY GoingBuilt DEF Going, SuitsInv
<1>2. /\ DOMAIN low = LowFields /\ frames # <<>> /\ Top.todo # <<>> /\ Clause.kind = "Match"
      /\ low.patterns \in Seq(AnyPattern) /\ low.chain \in Seq(AnyLink) /\ low.next \in Nat
      /\ Straight(low.combined) /\ Straight(low.path)
  BY <1>1 DEF VInv, LowInv
<1>3. Clause.patterns \in Seq(AnyPattern)
  BY <1>1, <1>2, ClauseShape DEF VInv, Going, Proper, ProperClauses
<1> QED
  BY <1>1, <1>2, <1>3

LEMMA LowerLinkSuits ==
  ASSUME Going, LowerLink
  PROVE  SuitsInv'
<1> DEFINE c == Head(low.chain)
           p == Head(low.patterns)
           rel == EffectiveVar(c.rel, "rel", low.next)
           next == After(c.rel, low.next)
           dst == EffectiveVar(c.node, "node", next)
           op == Node("Expand", Named(low.head), Named(rel) \cup Named(dst))
           rels == Predicates(c.rel, rel)
           nodes == Predicates(c.node, dst)
<1>1. /\ low.on /\ low.patterns # <<>> /\ low.chain # <<>>
      /\ UNCHANGED <<query, plan, frames>>
      /\ low' = [low EXCEPT !.path = @ \o <<op>> \o rels \o nodes, !.head = dst,
                            !.next = After(c.node, next), !.chain = Tail(@)]
  BY DEF LowerLink
<1>2. /\ DOMAIN low = LowFields
      /\ low.patterns \in Seq(AnyPattern) /\ low.chain \in Seq(AnyLink) /\ low.next \in Nat
      /\ Straight(low.path) /\ LowSuits
  BY <1>1, LoweringShapes
<1>3. PICK n : Left(low.chain, p.chain, n) /\ PathLowered(low.path, p, n)
  BY <1>1, <1>2 DEF LowSuits
<1>4. BottomSuits' /\ Clause' = Clause
  BY <1>1, FramesStill
<1>5. p \in AnyPattern
  BY <1>1, <1>2
<1>6. p.chain \in Seq(AnyLink) /\ IsSequence(p.chain)
  BY <1>5 DEF Going, Proper, ProperPatterns, IsSequence
<1>7. n \in Nat /\ c = p.chain[n + 1] /\ Left(Tail(low.chain), p.chain, n + 1)
  BY <1>1, <1>2, <1>3, <1>6, LeftOn DEF IsSequence
<1>8. c \in AnyLink
  BY <1>1, <1>2
<1>9. c.rel.var \in AnyVar /\ c.node.var \in AnyVar
  BY <1>8 DEF Going, Proper, ProperLinks
<1> HIDE DEF c, p, rel, next
<1>10. Named(rel) \cap UserVars = Named(c.rel.var) /\ next \in Nat
  BY <1>2, <1>9, EffectiveName DEF Going, rel, next
<1>11. Named(dst) \cap UserVars = Named(c.node.var)
  BY <1>9, <1>10, EffectiveName DEF Going
<1>12. /\ low'.on /\ low'.patterns = low.patterns /\ low'.combined = low.combined
       /\ low'.chain = Tail(low.chain)
       /\ low'.path = low.path \o <<op>> \o rels \o nodes
  BY <1>1, <1>2 DEF LowFields
<1>13. op.kind = "Expand" /\ op.right = 0 /\ op.intro = Named(rel) \cup Named(dst)
  BY DEF Node
<1>14. ~HidesInput(op)
  BY NodeShape
<1>15. /\ IsSequence(rels) /\ \A v : Binders(rels, v) = {}
       /\ IsSequence(nodes) /\ \A v : Binders(nodes, v) = {}
       /\ Straight(rels) /\ Intros(rels) = {} /\ Straight(nodes) /\ Intros(nodes) = {}
  BY QuietPredicates, PredicatesShape
<1>16. \A v \in UserVars : v \in op.intro <=> v \in {c.rel.var, c.node.var}
  <2>1. NoVar \notin UserVars
    BY NamesAreVars DEF Going
  <2> QED
    BY <1>10, <1>11, <1>13, <2>1 DEF Named
<1> DEFINE q == low.path
           r == rels \o nodes
           t == (q \o <<op>>) \o r
<1> HIDE DEF op, rels, nodes, dst
<1>17. IsSequence(r) /\ \A v : Binders(r, v) = {}
  BY <1>15, Concatenated, KindJoined
<1>18. Straight(<<op>>) /\ Intros(<<op>>) = op.intro \cap Vars
  BY <1>14, OneStraight
<1>19. /\ Straight(q \o <<op>>) /\ IsSequence(q) /\ IsSequence(q \o <<op>>)
       /\ Intros(q \o <<op>>) = Intros(q) \cup Intros(<<op>>)
  BY <1>2, <1>18, IntrosJoined DEF Straight
<1>20. Straight(r) /\ Intros(r) = {}
  BY <1>15, IntrosJoined
<1> HIDE DEF r, q
<1>21. IsSequence(t) /\ Intros(t) = Intros(q \o <<op>>)
  <2> DEFINE u == q \o <<op>>
  <2>1. Straight(u)
    BY <1>19
  <2> HIDE DEF u
  <2>2. Straight(u \o r) /\ Intros(u \o r) = Intros(u) \cup Intros(r)
    BY <1>20, <2>1, IntrosJoined
  <2>3. Intros(u \o r) = Intros(u) /\ IsSequence(u \o r)
    BY <1>20, <2>2 DEF Straight
  <2> QED
    BY <2>3 DEF u
<1>22. low'.path = t
  <2> DEFINE u == q \o <<op>>
  <2>1. IsSequence(u)
    BY <1>19
  <2>2. low'.path = (u \o rels) \o nodes /\ t = u \o (rels \o nodes)
    BY <1>12 DEF q, r
  <2> HIDE DEF u, t
  <2> QED
    BY <1>15, <2>1, <2>2, JoinedTwice
<1>23. PathLowered(t, p, n + 1)
  <2>1. PathLowered(q, p, n)
    BY <1>3 DEF q
  <2>2. \A v \in UserVars : v \in op.intro
            <=> v \in {p.chain[n + 1].rel.var, p.chain[n + 1].node.var}
    BY <1>7, <1>16
  <2>3. \A v \in UserVars : v \in Intros(t) => v \in Intros(q) \/ v \in op.intro
    BY <1>18, <1>19, <1>21
  <2> DEFINE s == t
  <2>4. s = (q \o <<op>>) \o r /\ IsSequence(s)
    BY <1>21
  <2>5. \A v \in UserVars : v \in Intros(s) => v \in Intros(q) \/ v \in op.intro
    BY <2>3
  <2> HIDE DEF s
  <2>6. PathLowered(s, p, n + 1)
    BY <1>7, <1>13, <1>17, <1>19, <2>1, <2>2, <2>4, <2>5, PathGoesOn
  <2> QED
    BY <2>6 DEF s
<1> HIDE DEF t
<1>24. LowSuits'
  <2>1. PICK k : /\ Left(low.patterns, Clause.patterns, k)
                 /\ Lowered(low.combined, plan, Clause.patterns, k)
    BY <1>2 DEF LowSuits
  <2>2. /\ Left(low'.patterns, Clause'.patterns, k)
        /\ Lowered(low'.combined, plan', Clause'.patterns, k)
    BY <1>1, <1>4, <1>12, <2>1
  <2>3. Head(low'.patterns) = p
    BY <1>12 DEF p
  <2>4. Left(low'.chain, p.chain, n + 1) /\ PathLowered(low'.path, p, n + 1)
    BY <1>7, <1>12, <1>22, <1>23
  <2> QED
    BY <2>2, <2>3, <2>4 DEF LowSuits
<1> QED
  BY <1>4, <1>24 DEF SuitsInv

LEMMA LoweredOn ==
  ASSUME NEW k \in Nat, NEW q, NEW pl, NEW ps, Lowered(q, pl, ps, k), NEW t, NEW pm,
         \A v \in UserVars :
           IF v \in PatternBindings(ps[k + 1]) THEN Suits(t, pm, v, TypeIn(ps[k + 1], v))
           ELSE /\ \A type : Suits(q, pl, v, type) => Suits(t, pm, v, type)
                /\ v \notin Intros(q) => v \notin Intros(t)
  PROVE  Lowered(t, pm, ps, k + 1)
<1> SUFFICES ASSUME NEW v \in UserVars
             PROVE  IF LastOf(ps, k + 1, v) = {} THEN v \notin Intros(t)
                    ELSE Suits(t, pm, v, TypeIn(ps[Max(LastOf(ps, k + 1, v))], v))
  BY DEF Lowered
<1> DEFINE L == LastOf(ps, k, v)
           M == LastOf(ps, k + 1, v)
<1>1. M = L \cup (IF v \in PatternBindings(ps[k + 1]) THEN {k + 1} ELSE {})
  <2>1. 1..(k + 1) = (1..k) \cup {k + 1}
    OBVIOUS
  <2> QED
    BY <2>1 DEF LastOf
<1>2. L \subseteq 1..k
  BY DEF LastOf
<1>3. IF L = {} THEN v \notin Intros(q) ELSE Suits(q, pl, v, TypeIn(ps[Max(L)], v))
  BY DEF Lowered
<1> HIDE DEF L, M
<1>4. CASE v \in PatternBindings(ps[k + 1])
  <2>1. M \subseteq Nat /\ k + 1 \in M /\ \A y \in M : k + 1 >= y
    BY <1>1, <1>2, <1>4
  <2>2. Max(M) = k + 1 /\ M # {}
    BY <2>1, LargestIs
  <2> QED
    BY <1>4, <2>2 DEF M
<1>5. CASE v \notin PatternBindings(ps[k + 1])
  <2>1. M = L
    BY <1>1, <1>5
  <2> QED
    BY <1>3, <1>5, <2>1 DEF M
<1> QED
  BY <1>4, <1>5

LEMMA PatternStraight ==
  ASSUME NEW path, Straight(path), NEW p, NEW done,
         done = (path \o (IF p.shortest THEN <<Node("ShortestPath", {}, {})>> ELSE <<>>))
                  \o (IF p.path # NoVar THEN <<Node("NamedPath", {}, {p.path})>> ELSE <<>>)
  PROVE  Straight(done) /\ Intros(done) = Intros(path) \cup (Named(p.path) \cap Vars)
<1> DEFINE short == IF p.shortest THEN <<Node("ShortestPath", {}, {})>> ELSE <<>>
           named == IF p.path # NoVar THEN <<Node("NamedPath", {}, {p.path})>> ELSE <<>>
           u == path \o short
<1>1. Straight(short) /\ Intros(short) = {}
  BY NodeShape, OneStraight, NothingBound
<1>2. Straight(named) /\ Intros(named) = Named(p.path) \cap Vars
  <2>1. CASE p.path # NoVar
    BY <2>1, NodeShape, OneStraight DEF Named
  <2>2. CASE p.path = NoVar
    BY <2>2, NothingBound DEF Named
  <2> QED
    BY <2>1, <2>2
<1>3. done = u \o named
  OBVIOUS
<1> HIDE DEF short, named
<1>4. Straight(u) /\ Intros(u) = Intros(path)
  <2>1. Straight(path \o short) /\ Intros(path \o short) = Intros(path) \cup Intros(short)
    BY <1>1, IntrosJoined
  <2> QED
    BY <1>1, <2>1
<1>5. done = u \o named
  BY <1>3
<1> HIDE DEF u
<1>6. Straight(u \o named) /\ Intros(u \o named) = Intros(u) \cup Intros(named)
  BY <1>2, <1>4, IntrosJoined
<1>7. Straight(done) /\ Intros(done) = Intros(u) \cup Intros(named)
  BY <1>5, <1>6
<1> QED
  BY <1>2, <1>4, <1>7

(* A second input is added to the plan.                                    *)
LEMMA InputAdded ==
  ASSUME Going, NEW q, plan' = [plan EXCEPT ![free] = q]
  PROVE  plan'[free] = q
<1>1. plan \in [Spines -> Seq(Op)] /\ free \in Spines
  BY GoingBuilt DEF Going, Planning, FitInv
<1> QED
  BY <1>1

LEMMA PatternDoneSuits ==
  ASSUME Going, PatternDone
  PROVE  SuitsInv'
<1> DEFINE p == Head(low.patterns)
           more == Tail(low.patterns)
           done == low.path
                     \o (IF p.shortest THEN <<Node("ShortestPath", {}, {})>> ELSE <<>>)
                     \o (IF p.path # NoVar THEN <<Node("NamedPath", {}, {p.path})>> ELSE <<>>)
           op == Branching("Cartesian", free, BoundVars(done))
           sofar == IF low.combined = <<>> THEN done ELSE Append(low.combined, op)
           ps == Clause.patterns
<1>1. /\ low.on /\ low.patterns # <<>> /\ low.chain = <<>> /\ UNCHANGED <<query, frames>>
      /\ low' = IF more = <<>> THEN [low EXCEPT !.patterns = more, !.combined = sofar]
                ELSE Lowering(more, sofar)
      /\ plan' = IF low.combined = <<>> THEN plan ELSE [plan EXCEPT ![free] = done]
  BY DEF PatternDone
<1>2. /\ DOMAIN low = LowFields /\ low.patterns \in Seq(AnyPattern)
      /\ Straight(low.combined) /\ Straight(low.path) /\ LowSuits /\ ps \in Seq(AnyPattern)
  BY <1>1, LoweringShapes
<1>3. PICK k : Left(low.patterns, ps, k) /\ Lowered(low.combined, plan, ps, k)
  BY <1>2 DEF LowSuits
<1>4. PICK n : Left(low.chain, p.chain, n) /\ PathLowered(low.path, p, n)
  BY <1>1, <1>2 DEF LowSuits
<1>5. BottomSuits' /\ Clause' = Clause
  BY <1>1, FramesStill
<1>6. p \in AnyPattern /\ more \in Seq(AnyPattern)
  BY <1>1, <1>2
<1>7. p.chain \in Seq(AnyLink) /\ IsSequence(p.chain)
  BY <1>6 DEF Going, Proper, ProperPatterns, IsSequence
<1>8. n = Len(p.chain)
  BY <1>1, <1>4, <1>7, LeftNone
<1>9. k \in Nat /\ p = ps[k + 1] /\ Left(more, ps, k + 1)
  BY <1>1, <1>2, <1>3, LeftOn DEF IsSequence
<1>10. Straight(done) /\ Intros(done) = Intros(low.path) \cup (Named(p.path) \cap Vars)
  <2> DEFINE path == low.path
             d == done
  <2>1. d = (path \o (IF p.shortest THEN <<Node("ShortestPath", {}, {})>> ELSE <<>>))
             \o (IF p.path # NoVar THEN <<Node("NamedPath", {}, {p.path})>> ELSE <<>>)
    OBVIOUS
  <2>2. Straight(path)
    BY <1>2
  <2> HIDE DEF p, d, path
  <2> QED
    BY <2>1, <2>2, PatternStraight DEF d, path
<1>11. \A v \in UserVars :
         IF v \in PatternBindings(p) THEN \A pl : Suits(done, pl, v, TypeIn(p, v))
         ELSE v \notin Intros(done)
  <2> DEFINE path == low.path
             d == done
  <2>1. d = (path \o (IF p.shortest THEN <<Node("ShortestPath", {}, {})>> ELSE <<>>))
             \o (IF p.path # NoVar THEN <<Node("NamedPath", {}, {p.path})>> ELSE <<>>)
    OBVIOUS
  <2>2. IsSequence(path) /\ PathLowered(path, p, Len(p.chain))
    BY <1>2, <1>4, <1>8 DEF Straight
  <2>3. \A v \in UserVars : v \in Intros(d) => v \in Intros(path) \/ v = p.path
    BY <1>10 DEF Named
  <2>4. Proper /\ WellTyped /\ PathsApart
    BY DEF Going
  <2> HIDE DEF p, d, path
  <2>5. \A v \in UserVars :
          IF v \in PatternBindings(p) THEN \A pl : Suits(d, pl, v, TypeIn(p, v))
          ELSE v \notin Intros(d)
    BY <1>6, <2>1, <2>2, <2>3, <2>4, PatternSuits
  <2> QED
    BY <2>5 DEF d
<1> HIDE DEF p, more, done
<1>12. Lowered(sofar, plan', ps, k + 1)
  <2>1. CASE low.combined = <<>>
    <3>1. sofar = done
      BY <2>1
    <3> HIDE DEF sofar, ps
    <3>2. \A v, type : ~Suits(low.combined, plan, v, type)
      <4>1. \A v : Binders(<<>>, v) = {}
        BY Nothing DEF Binders
      <4> QED
        BY <2>1, <4>1, SuitsBinds
    <3> QED
      BY <1>3, <1>9, <1>11, <3>1, <3>2, LoweredOn
  <2>2. CASE low.combined # <<>>
    <3>1. sofar = Append(low.combined, op) /\ plan'[free] = done
      BY <1>1, <2>2, InputAdded
    <3>2. IsSequence(low.combined) /\ free \in Spines /\ Ordered(plan')
      BY <1>2, GoingBuilt DEF Straight, Going
    <3>3. BoundVars(done) = Intros(done)
      BY <1>10, BoundStraight
    <3> HIDE DEF sofar
    <3>4. \A v, type : Suits(sofar, plan', v, type) <=>
            IF v \in BoundVars(done) THEN Suits(done, plan', v, type)
            ELSE Suits(low.combined, plan', v, type)
      <4>1. "Cartesian" # "Project"
        OBVIOUS
      <4> QED
        BY <3>1, <3>2, <4>1, SuitsBrought
    <3>5. \A v, type : Suits(low.combined, plan, v, type) <=> Suits(low.combined, plan', v, type)
      BY GoingBuilt, StillSuits
    <3>6. \A v : v \in Intros(sofar) => v \in Intros(low.combined) \/ v \in Intros(done)
      <4>1. op.intro = BoundVars(done) /\ ~HidesInput(op)
        BY BranchingShape
      <4>2. Straight(<<op>>) /\ Intros(<<op>>) = BoundVars(done) \cap Vars
        BY <4>1, OneStraight
      <4>3. Append(low.combined, op) = low.combined \o <<op>>
        <5>1. PICK S : low.combined \in Seq(S)
          BY <3>2 DEF IsSequence
        <5> QED
          BY <5>1
      <4> HIDE DEF op
      <4>4. Intros(sofar) = Intros(low.combined) \cup Intros(<<op>>)
        BY <1>2, <3>1, <4>2, <4>3, IntrosJoined
      <4> QED
        BY <3>3, <4>2, <4>4
    <3>7. ASSUME NEW v \in UserVars
          PROVE  IF v \in PatternBindings(p) THEN Suits(sofar, plan', v, TypeIn(p, v))
                 ELSE /\ \A type : Suits(low.combined, plan, v, type) => Suits(sofar, plan', v, type)
                      /\ v \notin Intros(low.combined) => v \notin Intros(sofar)
      <4>1. CASE v \in PatternBindings(p)
        <5>1. Suits(done, plan', v, TypeIn(p, v))
          BY <1>11, <4>1
        <5>2. v \in Intros(done)
          <6>1. Binders(done, v) # {}
            BY <5>1, SuitsBinds
          <6>2. v \in Vars
            BY NamesAreVars DEF Going
          <6> QED
            BY <6>1, <6>2, NotIntroduced
        <5> QED
          BY <3>3, <3>4, <4>1, <5>1, <5>2
      <4>2. CASE v \notin PatternBindings(p)
        <5>1. v \notin Intros(done)
          BY <1>11, <4>2
        <5> QED
          BY <3>3, <3>4, <3>5, <3>6, <4>2, <5>1
      <4> QED
        BY <4>1, <4>2
    <3> HIDE DEF ps, op
    <3> QED
      BY <1>3, <1>9, <3>7, LoweredOn
  <2> QED
    BY <2>1, <2>2
<1> HIDE DEF sofar, ps
<1>13. Clause'.patterns = ps
  BY <1>5 DEF ps
<1>14. CASE more = <<>>
  <2>1. low'.patterns = more /\ low'.combined = sofar
    BY <1>1, <1>2, <1>14 DEF LowFields
  <2>2. LowSuits'
    BY <1>9, <1>12, <1>13, <1>14, <2>1 DEF LowSuits
  <2> QED
    BY <1>5, <2>2 DEF SuitsInv
<1>15. CASE more # <<>>
  <2> DEFINE l == Lowering(more, sofar)
  <2>1. /\ l.patterns = more /\ l.combined = sofar /\ l.chain = Head(more).chain
        /\ l.chain \in Seq(AnyLink)
    BY <1>6, <1>15, LoweringShape DEF Going
  <2>2. PathLowered(l.path, Head(more), 0)
    BY <1>6, <1>15, PathStarts DEF Going
  <2>3. low' = l
    BY <1>1, <1>15
  <2> HIDE DEF l
  <2>4. Left(l.chain, Head(more).chain, 0)
    BY <2>1, LeftAll DEF IsSequence
  <2>5. LowSuits'
    BY <1>9, <1>12, <1>13, <2>1, <2>2, <2>3, <2>4 DEF LowSuits
  <2> QED
    BY <1>5, <2>5 DEF SuitsInv
<1> QED
  BY <1>14, <1>15

(* What a MATCH lowers to, its hints on top.                               *)
LEMMA LoweredSuits ==
  ASSUME Going, low.on, low.patterns = <<>>,
         NEW lowered,
         lowered = low.combined \o [i \in 1..Clause.hints |-> Node("PlannerHint", {}, {})]
  PROVE  LET ps == Clause.patterns
         IN  /\ Straight(lowered)
             /\ \A v \in PatternNames(ps) :
                  /\ Suits(lowered, plan, v, TypeIn(LastWith(ps, v), v))
                  /\ Suits(lowered, plan', v, TypeIn(LastWith(ps, v), v))
             /\ \A v \in UserVars : v \notin PatternNames(ps) => v \notin Intros(lowered)
<1> DEFINE hint == Node("PlannerHint", {}, {})
           hints == [i \in 1..Clause.hints |-> hint]
           q == low.combined
           ps == Clause.patterns
           n == Len(ps)
<1>1. /\ frames # <<>> /\ Top.todo # <<>> /\ Clause.kind = "Match" /\ Straight(q)
      /\ ps \in Seq(AnyPattern) /\ LowSuits
  BY LoweringShapes
<1>2. IsSequence(hints) /\ Len(hints) = Clause.hints
  <2>1. Clause.hints \in Nat
    BY <1>1, GoingBuilt, ClauseShape DEF VInv, Going, Proper, ProperClauses
  <2> QED
    BY <2>1, FunctionIsSequence
<1>3. hint.intro = {} /\ ~HidesInput(hint)
  BY NodeShape
<1>4. \A i \in 1..Len(hints) : hints[i] = hint
  BY <1>2
<1> HIDE DEF hint, hints
<1>5. Straight(hints) /\ Intros(hints) = {} /\ \A v : Binders(hints, v) = {}
  BY <1>2, <1>3, <1>4, NotBinding, NothingIntroduced DEF Straight
<1>6. lowered = q \o hints
  BY DEF hints, hint
<1>7. Straight(lowered) /\ Intros(lowered) = Intros(q)
  <2>1. Straight(q \o hints) /\ Intros(q \o hints) = Intros(q) \cup Intros(hints)
    BY <1>1, <1>5, IntrosJoined
  <2> QED
    BY <1>5, <1>6, <2>1
<1>8. PICK k : Left(<<>>, ps, k) /\ Lowered(q, plan, ps, k)
  BY <1>1 DEF LowSuits
<1>9. k = n
  BY <1>1, <1>8, LeftNone DEF IsSequence
<1>10. Piece(q, free, plan, FALSE)
  BY GoingBuilt
<1> HIDE DEF q
<1>11. IsSequence(q)
  BY <1>1 DEF Straight
<1>12. \A v, pl, type : Suits(q, pl, v, type) => Suits(lowered, pl, v, type)
  <2> SUFFICES ASSUME NEW v, NEW pl, NEW type, Suits(q, pl, v, type)
               PROVE  Suits(lowered, pl, v, type)
    OBVIOUS
  <2>1. Suits(q \o hints, pl, v, type)
    BY <1>2, <1>5, <1>11, SuitsOnTop
  <2> QED
    BY <1>6, <2>1
<1>13. ASSUME NEW v
       PROVE  /\ v \in PatternNames(ps) <=> LastOf(ps, n, v) # {}
              /\ LastWith(ps, v) = ps[Max(LastOf(ps, n, v))]
  BY DEF PatternNames, Patterns, LastOf, LastWith
<1> HIDE DEF ps, n
<1>14. ASSUME NEW v \in UserVars, v \in PatternNames(ps)
       PROVE  /\ Suits(lowered, plan, v, TypeIn(LastWith(ps, v), v))
              /\ Suits(lowered, plan', v, TypeIn(LastWith(ps, v), v))
  <2> DEFINE type == TypeIn(LastWith(ps, v), v)
  <2>1. Suits(q, plan, v, type)
    BY <1>8, <1>9, <1>13, <1>14 DEF Lowered
  <2> HIDE DEF type
  <2>2. Suits(q, plan', v, type)
    BY <1>10, <2>1, StillSuits
  <2>3. Suits(lowered, plan, v, type) /\ Suits(lowered, plan', v, type)
    BY <1>12, <2>1, <2>2
  <2> QED
    BY <2>3 DEF type
<1>15. ASSUME NEW v \in UserVars, v \notin PatternNames(ps)
       PROVE  v \notin Intros(lowered)
  BY <1>7, <1>8, <1>9, <1>13, <1>15 DEF Lowered
<1>16. PatternNames(ps) \subseteq UserVars
  BY <1>1, NamesOfPatterns DEF Going, ps
<1> QED
  BY <1>7, <1>14, <1>15, <1>16 DEF ps

LEMMA EndMatchSuits ==
  ASSUME Going, EndMatch
  PROVE  SuitsInv'
<1> DEFINE hint == Node("PlannerHint", {}, {})
           lowered == low.combined \o [i \in 1..Clause.hints |-> hint]
           joins == IF Clause.optional THEN "Optional" ELSE "Cartesian"
           second == Branching(joins, free, BoundVars(lowered))
           alone == [Top EXCEPT !.main = lowered]
           joined == [Top EXCEPT !.main = Append(@, second)]
           ps == Clause.patterns
<1>1. low.on /\ low.patterns = <<>> /\ query' = query
  BY DEF EndMatch, Fail
<1>2. \/ UNCHANGED <<frames, low, plan>>
      \/ /\ Top.main = <<>> /\ Proceed(alone) /\ low' = Idle /\ plan' = plan
      \/ /\ Proceed(joined) /\ low' = Idle /\ plan' = [plan EXCEPT ![free] = lowered]
  BY DEF EndMatch, Fail
<1>3. /\ Straight(lowered)
      /\ \A v \in PatternNames(ps) :
           /\ Suits(lowered, plan, v, TypeIn(LastWith(ps, v), v))
           /\ Suits(lowered, plan', v, TypeIn(LastWith(ps, v), v))
      /\ \A v \in UserVars : v \notin PatternNames(ps) => v \notin Intros(lowered)
  BY <1>1, LoweredSuits
<1>4. /\ frames # <<>> /\ Top.todo # <<>> /\ Clause.kind = "Match" /\ LowSuits
  BY <1>1, LoweringShapes
<1>5. FrameShape(Top) /\ IsSequence(Top.main)
  BY <1>4, GoingBuilt, TopShape DEF VInv, FrameShape
<1> HIDE DEF lowered, second
<1>6. /\ DOMAIN alone = FrameFields /\ alone.todo = Top.todo /\ alone.main = lowered
      /\ DOMAIN joined = FrameFields /\ joined.todo = Top.todo
      /\ joined.main = Append(Top.main, second)
  BY <1>5 DEF FrameShape, FrameFields
<1> HIDE DEF alone, joined
<1>7. \A types : TypesAfter(types, Clause) = PatternTypes(types, ps)
  BY <1>4 DEF TypesAfter
<1> HIDE DEF ps
<1>8. low' = Idle => ~low'.on
  BY DEF Idle
<1>9. CASE UNCHANGED <<frames, low, plan>>
  <2>1. BottomSuits' /\ Clause' = Clause
    BY <1>1, <1>9, FramesStill
  <2> QED
    BY <1>4, <1>9, <2>1 DEF SuitsInv, LowSuits
<1>10. CASE Top.main = <<>> /\ Proceed(alone) /\ low' = Idle /\ plan' = plan
  <2>1. ASSUME NEW types, AllSuit(Top.main, plan, types), DOMAIN types \subseteq UserVars
        PROVE  AllSuit(alone.main, plan', TypesAfter(types, Clause))
    <3>1. AllSuit(<<>> \o lowered, plan, PatternTypes(types, ps))
      <4>1. AllSuit(<<>>, plan, types) /\ IsSequence(<<>>) /\ IsSequence(lowered)
        BY <1>3, <1>10, <2>1, Nothing DEF Straight
      <4>2. \A v \in DOMAIN types : v \notin PatternNames(ps) => Binders(lowered, v) = {}
        BY <1>3, <2>1, NamesAreVars, NotIntroduced DEF Going
      <4> QED
        BY <1>3, <4>1, <4>2, PatternsOnTop
    <3>2. <<>> \o lowered = lowered
      BY <1>3 DEF Straight, IsSequence
    <3> QED
      BY <1>6, <1>7, <1>10, <3>1, <3>2
  <2>2. BottomSuits'
    BY <1>1, <1>4, <1>6, <1>10, <2>1, BottomOn
  <2> QED
    BY <1>8, <1>10, <2>2 DEF SuitsInv
<1>11. CASE Proceed(joined) /\ low' = Idle /\ plan' = [plan EXCEPT ![free] = lowered]
  <2>1. plan'[free] = lowered /\ free \in Spines /\ Ordered(plan')
    BY <1>11, InputAdded, GoingBuilt DEF Going
  <2>2. IsSequence(<<second>>) /\ Append(Top.main, second) = Top.main \o <<second>>
    <3>1. PICK S : Top.main \in Seq(S)
      BY <1>5 DEF IsSequence
    <3> QED
      BY <3>1, One
  <2>3. \A v : Binders(<<second>>, v) = IF v \in BoundVars(lowered) THEN {1} ELSE {}
    <3>1. second.kind # "Project" /\ second.intro = BoundVars(lowered)
      BY DEF second, Branching, Node
    <3> QED
      BY <3>1, KindOfOne
  <2>4. \A v, type : v \in BoundVars(lowered) =>
          (Suits(<<second>>, plan', v, type) <=> Suits(lowered, plan', v, type))
    <3> SUFFICES ASSUME NEW v, NEW type, v \in BoundVars(lowered)
                 PROVE  Suits(<<second>>, plan', v, type) <=> Suits(lowered, plan', v, type)
      OBVIOUS
    <3>1. joins # "Project"
      OBVIOUS
    <3> HIDE DEF joins
    <3>2. Suits(Append(<<>>, second), plan', v, type) <=> Suits(lowered, plan', v, type)
      <4> DEFINE pm == plan'
                 r == pm[free]
                 t == Append(<<>>, Branching(joins, free, BoundVars(r)))
      <4>1. IsSequence(<<>>) /\ free \in Spines /\ Ordered(pm)
        BY <2>1, Nothing
      <4>2. r = lowered /\ t = Append(<<>>, second)
        BY <2>1 DEF second
      <4> HIDE DEF pm
      <4>3. Suits(t, pm, v, type) <=>
              IF v \in BoundVars(r) THEN Suits(r, pm, v, type) ELSE Suits(<<>>, pm, v, type)
        BY <3>1, <4>1, SuitsBrought
      <4> HIDE DEF r, t
      <4>4. Suits(t, pm, v, type) <=> Suits(r, pm, v, type)
        BY <4>2, <4>3
      <4> QED
        BY <4>2, <4>4 DEF pm
    <3>3. Append(<<>>, second) = <<second>>
      OBVIOUS
    <3> QED
      BY <3>2, <3>3
  <2>5. BoundVars(lowered) = Intros(lowered)
    BY <1>3, BoundStraight
  <2>6. UserVars \subseteq Vars
    BY NamesAreVars DEF Going
  <2>7. \A v \in PatternNames(ps) : Suits(<<second>>, plan', v, TypeIn(LastWith(ps, v), v))
    <3> SUFFICES ASSUME NEW v \in PatternNames(ps)
                 PROVE  Suits(<<second>>, plan', v, TypeIn(LastWith(ps, v), v))
      OBVIOUS
    <3>1. Suits(lowered, plan', v, TypeIn(LastWith(ps, v), v))
      BY <1>3
    <3>2. v \in UserVars
      <4>1. ps \in Seq(AnyPattern)
        BY <1>1, LoweringShapes DEF ps
      <4> QED
        BY <4>1, NamesOfPatterns DEF Going
    <3>3. v \in Intros(lowered)
      <4>1. Binders(lowered, v) # {}
        BY <3>1, SuitsBinds
      <4> QED
        BY <2>6, <3>2, <4>1, NotIntroduced
    <3> QED
      BY <2>4, <2>5, <3>1, <3>3
  <2>8. \A v \in UserVars : v \notin PatternNames(ps) => Binders(<<second>>, v) = {}
    <3> SUFFICES ASSUME NEW v \in UserVars, v \notin PatternNames(ps)
                 PROVE  Binders(<<second>>, v) = {}
      OBVIOUS
    <3>1. v \notin Intros(lowered)
      BY <1>3
    <3> QED
      BY <2>3, <2>5, <3>1
  <2>9. ASSUME NEW types, AllSuit(Top.main, plan, types), DOMAIN types \subseteq UserVars
        PROVE  AllSuit(joined.main, plan', TypesAfter(types, Clause))
    <3>1. AllSuit(Top.main, plan', types)
      <4>1. Piece(Top.main, free, plan, FALSE)
        BY <1>4, GoingBuilt, TopShape DEF VInv
      <4> QED
        BY <2>9, <4>1, StillAllSuit
    <3>2. \A v \in DOMAIN types : v \notin PatternNames(ps) => Binders(<<second>>, v) = {}
      BY <2>8, <2>9
    <3>3. AllSuit(Top.main \o <<second>>, plan', PatternTypes(types, ps))
      BY <1>5, <2>2, <2>7, <3>1, <3>2, PatternsOnTop
    <3> QED
      BY <1>6, <1>7, <2>2, <3>3
  <2>10. BottomSuits'
    BY <1>1, <1>4, <1>6, <1>11, <2>9, BottomOn
  <2> QED
    BY <1>8, <1>11, <2>10 DEF SuitsInv
<1> QED
  BY <1>2, <1>9, <1>10, <1>11

-----------------------------------------------------------------------------
(* Calls of plan_branch that start and end.                                *)
LEMMA FrameMain ==
  ASSUME NEW todo
  PROVE  Frame(todo).todo = todo /\ Frame(todo).main = <<>>
BY DEF Frame

LEMMA BeginSuits ==
  ASSUME Going, FollowsInv', Begin
  PROVE  SuitsInv'
<1>1. frames = <<>> /\ UNCHANGED <<query, low, plan>>
  BY DEF Begin, Fail
<1>2. ~low.on
  <2>1. low.on => frames # <<>>
    BY LoweringShapes
  <2> QED
    BY <1>1, <2>1
<1>3. CASE UNCHANGED frames
  BY <1>1, <1>2, <1>3, FramesStill DEF SuitsInv
<1>4. CASE frames' = <<Frame(query.clauses)>>
  <2>1. BottomSuits'
    BY <1>1, <1>2, <1>4, BottomFresh
  <2> QED
    BY <1>1, <1>2, <2>1 DEF SuitsInv
<1> QED
  BY <1>3, <1>4 DEF Begin, Fail

LEMMA EndBranchSuits ==
  ASSUME Going, FollowsInv', EndBranch
  PROVE  SuitsInv'
<1>1. /\ ~low.on /\ low' = low
      /\ frames' = IF Top.todo = <<>> THEN <<>> ELSE <<Frame(Tail(Top.todo))>>
  BY DEF EndBranch
<1>2. CASE Top.todo = <<>>
  BY <1>1, <1>2 DEF SuitsInv, BottomSuits
<1>3. CASE Top.todo # <<>>
  <2>1. BottomSuits'
    BY <1>1, <1>3, BottomFresh
  <2> QED
    BY <1>1, <2>1 DEF SuitsInv
<1> QED
  BY <1>2, <1>3

LEMMA ForeachSuits ==
  ASSUME Going, BeginForeach
  PROVE  SuitsInv'
<1> DEFINE f == Frame(Clause.body)
           n == Len(frames)
<1>1. /\ frames # <<>> /\ ~low.on /\ low' = low /\ query' = query
      /\ frames' = <<f>> \o frames
  BY AtShape DEF BeginForeach
<1>2. IsSequence(frames) /\ IsSequence(<<f>>) /\ Len(<<f>>) = 1 /\ n \in Nat /\ n \in 1..n
  BY <1>1, One, SequenceFacts, GoingBuilt, Outermost DEF VInv, FramesInv
<1> HIDE DEF f
<1>3. /\ Len(frames') = 1 + n
      /\ \A i \in 1..n : frames'[1 + i] = frames[i]
  BY <1>1, <1>2, Concatenated
<1> HIDE DEF n
<1>4. frames'[Len(frames')] = frames[n]
  BY <1>2, <1>3
<1>5. BottomSuits'
  BY <1>1, <1>4, BottomStays DEF n
<1> QED
  BY <1>1, <1>5 DEF SuitsInv

LEMMA EndBodySuits ==
  ASSUME Going, EndBody
  PROVE  SuitsInv'
<1> DEFINE n == Len(frames)
           cs == query.clauses
           outer == frames[2]
           each == Head(outer.todo)
           op == [Branching("Foreach", free, {})
                    EXCEPT !.used = each.reads, !.parts = <<Part({each.var}, each.reads)>>]
           h == [outer EXCEPT !.main = Append(@, op), !.todo = Tail(@)]
<1>1. /\ n > 1 /\ ~low.on /\ low' = low /\ query' = query
      /\ frames' = <<h>> \o Tail(Tail(frames))
  BY DEF EndBody
<1>2. VInv
  BY GoingBuilt
<1>3. op.intro = {}
  BY DEF Branching, Node
<1> HIDE DEF op
<1>4. /\ n \in Nat /\ frames # <<>> /\ Len(frames') = n - 1 /\ frames'[1] = h
      /\ \A i \in 2..(n - 1) : frames'[i] = frames[i + 1]
  <2> HIDE DEF h
  <2> QED
    BY <1>1, <1>2, BodyDone
<1>5. /\ DOMAIN outer = FrameFields /\ IsSequence(outer.todo) /\ outer.todo # <<>>
      /\ Head(outer.todo).kind = "Foreach" /\ IsSequence(outer.main)
      /\ Piece(outer.main, free, plan, FALSE)
  <2>1. 2 \in 1..n /\ 2 \in 2..n
    BY <1>1, <1>4
  <2> QED
    BY <1>2, <2>1, GoingBuilt DEF VInv, FramesInv, FrameShape, Going, FollowsInv, IsSequence
<1>6. h.todo = Tail(outer.todo) /\ h.main = Append(outer.main, op)
  BY <1>5 DEF FrameFields
<1> HIDE DEF h, outer, n
<1>7. CASE n = 2
  <2>1. Len(frames') = 1 /\ frames'[Len(frames')] = h /\ frames[n] = outer /\ outer = frames[2]
    BY <1>4, <1>7 DEF outer
  <2>2. AllSuit(outer.main, plan, TypesOf(cs, outer))
    BY <1>4, <2>1 DEF Going, SuitsInv, BottomSuits, n
  <2>3. PICK b, k : Follows(cs, outer, b, k, low.on /\ n = 1)
    BY <1>4, <2>1 DEF Going, FollowsInv, n
  <2>4. IsSequence(cs)
    BY DEF Going, FollowsInv
  <2> HIDE DEF cs
  <2>5. TypesOf(cs, h) = TypesOf(cs, outer)
    <3>1. TypesOf(cs, h) = TypesAfter(TypesOf(cs, outer), each)
      BY <1>5, <1>6, <2>3, <2>4, TypesOn
    <3> QED
      BY <1>5, <3>1 DEF TypesAfter
  <2>6. AllSuit(outer.main, plan', TypesOf(cs, outer))
    BY <1>5, <2>2, StillAllSuit
  <2>7. IsSequence(<<op>>) /\ Append(outer.main, op) = outer.main \o <<op>>
    <3>1. PICK S : outer.main \in Seq(S)
      BY <1>5 DEF IsSequence
    <3> QED
      BY <3>1, One
  <2>8. \A v : Binders(<<op>>, v) = {}
    BY <1>3, KindOfOne
  <2>9. AllSuit(outer.main \o <<op>>, plan', TypesOf(cs, outer))
    <3> DEFINE q == outer.main
               types == TypesOf(cs, outer)
    <3>1. AllSuit(q, plan', types) /\ IsSequence(q)
      BY <1>5, <2>6
    <3> HIDE DEF q, types
    <3>2. AllSuit(q \o <<op>>, plan', types)
      BY <2>7, <2>8, <3>1, QuietOnTop
    <3> QED
      BY <3>2 DEF q, types
  <2>10. AllSuit(h.main, plan', TypesOf(cs, h))
    BY <1>6, <2>5, <2>7, <2>9
  <2>11. cs' = cs
    BY <1>1 DEF cs
  <2> QED
    BY <1>1, <2>1, <2>10, <2>11 DEF SuitsInv, BottomSuits, cs
<1>8. CASE n > 2
  <2>1. n - 1 \in 2..(n - 1) /\ (n - 1) + 1 = n
    BY <1>4, <1>8
  <2>2. frames'[Len(frames')] = frames[n]
    BY <1>4, <2>1
  <2>3. BottomSuits'
    BY <1>1, <1>4, <2>2, BottomStays DEF n
  <2> QED
    BY <1>1, <2>3 DEF SuitsInv
<1> QED
  BY <1>1, <1>4, <1>7, <1>8

-----------------------------------------------------------------------------
(* Every step keeps the operators and the types together.                  *)
LEMMA NextOrdered == (FitInv(FALSE) /\ BuildInv(FALSE))' => Ordered(plan)'
<1>1. FitInv(FALSE) /\ BuildInv(FALSE) => Ordered(plan)
  BY PlanOrdered
<1> QED
  BY <1>1, PTL

LEMMA PlanGrows ==
  ASSUME Proper, WellTyped, Planning(FALSE), Planning(FALSE)', EnoughSpines,
         Busy, result' # "planned", [Next]_vars
  PROVE  /\ result # "planned" /\ Ordered(plan) /\ Ordered(plan')
         /\ \A s \in Spines : s < free => plan'[s] = plan[s]
<1>1. result # "planned" /\ FitInv(FALSE) /\ BuildInv(FALSE)
  BY DEF Busy, Planning, FitInv
<1>2. Ordered(plan)
  BY <1>1, PlanOrdered
<1>3. FitInv(FALSE)' /\ BuildInv(FALSE)'
  BY DEF Planning, FitInv
<1>4. Ordered(plan)'
  BY <1>3, NextOrdered
<1>5. ASSUME NEW s \in Spines, s < free PROVE plan'[s] = plan[s]
  <2>1. \/ plan' = plan \/ \E q : plan' = [plan EXCEPT ![free] = q]
    <3>1. CASE Combine
      BY <3>1, SMTT(30) DEF Combine, Fail
    <3>2. CASE ~Combine
      BY <3>2 DEF Next, Work, Lower, Returned, vars, Begin, BeginMatch, LowerLink, PatternDone,
                  EndMatch, Where, Call, LoadCsv, Unwind, Start, Write, Update, SchemaCommand,
                  With, Return, OrderBy, Skip, Limit, BeginForeach, EndBody, EndBranch, Emit, Fail
    <3> QED
      BY <3>1, <3>2
  <2>2. s # free /\ plan \in [Spines -> Seq(Op)]
    BY <1>1, <1>5 DEF FitInv, Spines
  <2> QED
    BY <2>1, <2>2
<1> QED
  BY <1>1, <1>2, <1>4, <1>5

LEMMA StepSuits ==
  ASSUME Proper, WellTyped, PathsApart, Planning(FALSE), Planning(FALSE)', EnoughSpines,
         FollowsInv, FollowsInv', SuitsInv, [Next]_vars
  PROVE  SuitsInv'
<1>1. CASE Combine \/ Returned \/ UNCHANGED vars
  <2>1. UNCHANGED <<query, frames, low>> /\ (plan' = plan \/ frames = <<>>)
    BY <1>1 DEF Combine, Fail, Returned, vars
  <2>2. CASE frames = <<>>
    <3>1. ~low.on
      BY <2>2 DEF Planning, VInv, LowInv
    <3> QED
      BY <2>1, <2>2, <3>1 DEF SuitsInv, BottomSuits
  <2>3. CASE plan' = plan
    BY <2>1, <2>3 DEF SuitsInv, BottomSuits, LowSuits, Clause, Top
  <2> QED
    BY <2>1, <2>2, <2>3
<1>2. CASE ~(Combine \/ Returned \/ UNCHANGED vars)
  <2>1. Busy /\ result' # "planned"
    BY <1>2 DEF Next, Work, Lower, Busy, At, Begin, BeginMatch, LowerLink, PatternDone,
                EndMatch, Where, Call, LoadCsv, Unwind, Start, Write, Update, SchemaCommand,
                With, Return, OrderBy, Skip, Limit, BeginForeach, EndBody, EndBranch, Emit, Fail
  <2>2. Going
    BY <2>1, PlanGrows DEF Going
  <2>3. CASE Begin \/ EndBranch
    BY <2>2, <2>3, BeginSuits, EndBranchSuits
  <2>4. CASE BeginMatch \/ LowerLink \/ PatternDone \/ EndMatch
    BY <2>2, <2>4, BeginMatchSuits, LowerLinkSuits, PatternDoneSuits, EndMatchSuits
  <2>5. CASE Where \/ Update \/ Call \/ LoadCsv \/ Unwind \/ Start
    BY <2>2, <2>5, ReadersSuit, CallSuits, BindersSuit
  <2>6. CASE Write \/ With
    BY <2>2, <2>6, WriteSuits, WithSuits
  <2>7. CASE SchemaCommand \/ Return \/ OrderBy \/ Skip \/ Limit
    BY <2>2, <2>7, AsideSuits
  <2>8. CASE BeginForeach \/ EndBody
    BY <2>2, <2>8, ForeachSuits, EndBodySuits
  <2> QED
    BY <1>2, <2>3, <2>4, <2>5, <2>6, <2>7, <2>8 DEF Next, Work, Lower
<1> QED
  BY <1>1, <1>2

LEMMA FitsFollow == VInv /\ FollowsInv /\ SuitsInv => TypesFitThePlan
<1> SUFFICES ASSUME VInv, FollowsInv, SuitsInv, Len(frames) = 1, ~low.on
             PROVE  LET types == TypesAt(Handled)
                    IN  \A v \in {w \in DOMAIN types : types[w] # "Any"} :
                          Suits(Top.main, plan, v, types[v])
  BY DEF TypesFitThePlan
<1> DEFINE cs == query.clauses
<1>1. frames # <<>>
  <2>1. Len(frames) # Len(<<>>)
    BY Nothing
  <2> QED
    BY <2>1
<1>2. Top = frames[Len(frames)]
  BY <1>1, TopShape DEF VInv
<1>3. AllSuit(Top.main, plan, TypesOf(cs, Top))
  BY <1>1, <1>2 DEF SuitsInv, BottomSuits
<1>4. Handled = LET k == Len(cs) - Len(Top.todo) IN ClausesDone(cs, BranchStart(cs, k), k)
  BY DEF Handled, ClausesDone
<1> QED
  BY <1>3, <1>4 DEF AllSuit, TypesOf

(* What the analysis and the planner have made of the clauses so far.      *)
TypesInv == Planning(FALSE) /\ FollowsInv /\ SuitsInv

LEMMA TypesStart ==
  ASSUME Proper, Init
  PROVE  TypesInv
<1>1. query \in Queries /\ frames = <<>> /\ low = Idle
  BY DEF Init
<1>2. IsSequence(query.clauses)
  BY <1>1 DEF Proper, ProperQueries, IsSequence
<1>3. FollowsInv
  BY <1>1, <1>2, Nothing DEF FollowsInv
<1>4. SuitsInv
  BY <1>1 DEF SuitsInv, BottomSuits, Idle
<1> QED
  BY <1>3, <1>4, PlanningStarts DEF TypesInv

LEMMA TypesStep ==
  ASSUME Proper, WellTyped, PathsApart, TypesInv, EnoughSpines, EnoughSpines', [Next]_vars
  PROVE  TypesInv'
<1>1. Planning(FALSE) /\ FollowsInv /\ SuitsInv
  BY DEF TypesInv
<1>2. Granted(FALSE) /\ Granted(FALSE)'
  BY DEF Granted
<1>3. Planning(FALSE)'
  BY <1>1, <1>2, PlanningStep
<1>4. FollowsInv'
  BY <1>1, StepFollowed DEF Planning
<1>5. SuitsInv'
  BY <1>1, <1>3, <1>4, StepSuits
<1> QED
  BY <1>3, <1>4, <1>5 DEF TypesInv

(* Code that knows a name's type from the analysis finds in the plan an    *)
(* operator that makes it so: whatever the query, as long as there are     *)
(* enough spines and no path shares its name with an element of its own    *)
(* pattern, what the analysis takes a name for after a clause is what the  *)
(* operator of the plan yields that binds the name last, or a projection.  *)
THEOREM TypesFollowThePlan ==
  ASSUME Proper, WellTyped, PathsApart
  PROVE  Spec /\ []EnoughSpines => []TypesFitThePlan
<1>1. Init => TypesInv
  BY TypesStart
<1>2. TypesInv /\ EnoughSpines /\ EnoughSpines' /\ [Next]_vars => TypesInv'
  BY TypesStep
<1>3. TypesInv => TypesFitThePlan
  BY FitsFollow DEF TypesInv, Planning
<1> QED
  BY <1>1, <1>2, <1>3, PTL DEF Spec

(* The same while tool_explain analyzes the query, plans it and optimizes  *)
(* the plan, which it does once no clause is being planned any more.       *)
THEOREM TypesFitInThePipeline ==
  ASSUME Proper, WellTyped, PathsApart
  PROVE  SpecPipeline /\ []EnoughSpines => []TypesFitThePlan
<1> DEFINE I == IF phase \in {"parsed", "waiting"} THEN TypesInv ELSE frames = <<>>
<1>1. InitPipeline => I
  BY TypesStart DEF InitPipeline
<1>2. I /\ EnoughSpines /\ EnoughSpines' /\ [NextPipeline]_all => I'
  <2> SUFFICES ASSUME I, EnoughSpines, EnoughSpines', [NextPipeline]_all PROVE I'
    OBVIOUS
  <2>1. CASE Analyze
    <3>1. UNCHANGED vars /\ phase = "parsed" /\ phase' = "waiting"
      BY <2>1 DEF Analyze
    <3> QED
      BY <3>1, TypesStep
  <2>2. CASE Plan
    <3>1. phase = "waiting" /\ phase' = phase /\ Next
      BY <2>2 DEF Plan, optimizing, Next
    <3> QED
      BY <3>1, TypesStep
  <2>3. CASE HandOver
    <3>1. phase = "waiting" /\ phase' = "pass" /\ result = "planned" /\ frames' = frames
      BY <2>3 DEF HandOver, vars
    <3>2. frames = <<>>
      BY <3>1 DEF TypesInv, Planning, FitInv
    <3> QED
      BY <3>1, <3>2
  <2>4. CASE Optimize
    <3>1. phase = "pass" /\ frames' = frames
      BY <2>4, SMTT(30) DEF Optimize, planning
    <3>2. phase' \in {"pass", "done"}
      BY <2>4, <3>1
         DEF Optimize, Opt!Work, Opt!Visit, Opt!PickUp, Opt!Slide, Opt!Sink, Opt!Rest,
             Opt!NextSpine, Opt!Again, Opt!Finish
    <3> QED
      BY <3>1, <3>2
  <2>5. CASE Rest \/ UNCHANGED all
    <3>1. UNCHANGED vars /\ phase' = phase
      BY <2>5 DEF Rest, all, optimizing
    <3>2. CASE phase \in {"parsed", "waiting"}
      BY <3>1, <3>2, TypesStep
    <3>3. CASE phase \notin {"parsed", "waiting"}
      BY <3>1, <3>3 DEF vars
    <3> QED
      BY <3>2, <3>3
  <2> QED
    BY <2>1, <2>2, <2>3, <2>4, <2>5 DEF NextPipeline, Step
<1>3. I => TypesFitThePlan
  <2>1. TypesInv => TypesFitThePlan
    BY FitsFollow DEF TypesInv, Planning
  <2>2. frames = <<>> => Len(frames) # 1
    BY Nothing
  <2> QED
    BY <2>1, <2>2 DEF TypesFitThePlan
<1> QED
  BY <1>1, <1>2, <1>3, PTL DEF SpecPipeline

-----------------------------------------------------------------------------
(* The rows of the plan of a query.  A filter that reads nothing is above  *)
(* no aggregation of all rows into one, if the WHERE it comes from is not; *)
(* a Union comes when the branches are done, with no filter above.         *)
Groupless(q) == \A i \in 1..Len(q) : ~OneGroup(q[i])

AllRead(q) == \A i \in 1..Len(q) : IsFilter(q[i]) => q[i].used # {}

Inert(q) == \A i \in 1..Len(q) : q[i].kind \notin {"Filter", "Union"}

Calm(q) ==
  /\ \A i \in 1..Len(q) : q[i].kind # "Union"
  /\ \A i, j \in 1..Len(q) : OneGroup(q[i]) /\ i < j /\ IsFilter(q[j]) => q[j].used # {}

(* What is taken of the query: a WHERE that reads no variable comes before *)
(* any projection that makes a single row of all.                          *)
ConstantsComeFirst ==
  /\ At({"Where"}) => Clause.reads # {} \/ Groupless(Top.main)
  /\ At({"Call"}) => \/ \A i \in 1..Len(Clause.pred) : Clause.pred[i] # {}
                     \/ Groupless(Top.main)

CalmInv ==
  IF result = "planned" THEN Fact!FiltersInside(plan)
  ELSE /\ \A i \in 1..Len(frames) : Calm(frames[i].main)
       /\ \A i \in 1..Len(branches) : Calm(branches[i].main)
       /\ Calm(low.path) /\ Calm(low.combined)
       /\ \A s \in Spines : Calm(plan[s])

LEMMA CalmNothing == Calm(<<>>) /\ Inert(<<>>) /\ AllRead(<<>>)
<1>1. \A i : i \notin 1..Len(<<>>)
  BY Nothing
<1> QED
  BY <1>1 DEF Calm, Inert, AllRead

LEMMA InertIsCalm ==
  ASSUME NEW q, Inert(q)
  PROVE  Calm(q) /\ AllRead(q)
BY DEF Inert, Calm, AllRead, IsFilter

LEMMA CalmJoined ==
  ASSUME NEW q, IsSequence(q), Calm(q), NEW r, IsSequence(r), Calm(r),
         AllRead(r) \/ Groupless(q)
  PROVE  Calm(q \o r) /\ IsSequence(q \o r)
<1> DEFINE t == q \o r
           n == Len(q)
<1>1. /\ IsSequence(t) /\ Len(t) = n + Len(r) /\ n \in Nat /\ Len(r) \in Nat
      /\ \A i \in 1..n : t[i] = q[i]
      /\ \A i \in 1..Len(r) : t[n + i] = r[i]
  BY Concatenated, SequenceFacts
<1> HIDE DEF t
<1>2. ASSUME NEW i \in 1..Len(t)
      PROVE  \/ i \in 1..n /\ t[i] = q[i]
             \/ i > n /\ i - n \in 1..Len(r) /\ t[i] = r[i - n]
  <2>1. CASE i \in 1..n
    BY <1>1, <2>1
  <2>2. CASE i \notin 1..n
    <3>1. i > n /\ i - n \in 1..Len(r) /\ n + (i - n) = i
      BY <1>1, <2>2
    <3> QED
      BY <1>1, <3>1
  <2> QED
    BY <2>1, <2>2
<1>3. \A i \in 1..Len(t) : t[i].kind # "Union"
  BY <1>2 DEF Calm
<1>4. ASSUME NEW i \in 1..Len(t), NEW j \in 1..Len(t), OneGroup(t[i]), i < j, IsFilter(t[j])
      PROVE  t[j].used # {}
  <2>0. i \in Nat /\ j \in Nat
    BY <1>1
  <2>1. CASE j \in 1..n /\ t[j] = q[j]
    <3>1. i \in 1..n /\ t[i] = q[i]
      BY <1>1, <1>4, <2>0, <2>1
    <3> QED
      BY <1>4, <2>1, <3>1 DEF Calm, n
  <2>2. CASE j > n /\ j - n \in 1..Len(r) /\ t[j] = r[j - n]
    <3>1. CASE i \in 1..n /\ t[i] = q[i]
      <4>1. ~Groupless(q)
        BY <1>4, <3>1 DEF Groupless, n
      <4> QED
        BY <1>4, <2>2, <4>1 DEF AllRead
    <3>2. CASE i > n /\ i - n \in 1..Len(r) /\ t[i] = r[i - n]
      <4>1. i - n < j - n
        BY <1>1, <1>4, <2>0
      <4> QED
        BY <1>4, <2>2, <3>2, <4>1 DEF Calm
    <3> QED
      BY <1>2, <3>1, <3>2
  <2> QED
    BY <1>2, <2>1, <2>2
<1> QED
  BY <1>1, <1>3, <1>4 DEF Calm, t

LEMMA CalmTopped ==
  ASSUME NEW q, IsSequence(q), Calm(q), NEW r, IsSequence(r), Inert(r)
  PROVE  Calm(q \o r) /\ IsSequence(q \o r)
BY CalmJoined, InertIsCalm

LEMMA OneInert ==
  ASSUME NEW op, op.kind \notin {"Filter", "Union"}
  PROVE  Inert(<<op>>) /\ IsSequence(<<op>>)
<1>1. IsSequence(<<op>>) /\ Len(<<op>>) = 1 /\ <<op>>[1] = op
  BY One
<1> QED
  BY <1>1 DEF Inert

LEMMA CalmAppended ==
  ASSUME NEW q \in Seq(Op), Calm(q), NEW op, op.kind \notin {"Filter", "Union"}
  PROVE  Calm(Append(q, op))
<1>1. IsSequence(q) /\ Append(q, op) = q \o <<op>>
  BY DEF IsSequence
<1> QED
  BY <1>1, OneInert, CalmTopped

-----------------------------------------------------------------------------
(* Steps that put operators on top of the innermost frame.                 *)
LEMMA CalmTop ==
  ASSUME VInv, CalmInv, Busy, frames # <<>>
  PROVE  /\ Calm(Top.main) /\ IsSequence(Top.main) /\ DOMAIN Top = FrameFields
         /\ result # "planned"
<1>1. FrameShape(Top) /\ Top = frames[1] /\ 1 \in 1..Len(frames)
  BY TopShape DEF VInv
<1> QED
  BY <1>1 DEF CalmInv, Busy, FrameShape

LEMMA CalmRetopped ==
  ASSUME VInv, CalmInv, Busy, frames # <<>>, NEW f, frames' = <<f>> \o Tail(frames),
         Calm(f.main)
  PROVE  \A i \in 1..Len(frames') : Calm(frames'[i].main)
<1>1. /\ Len(frames') = Len(frames) /\ frames'[1] = f /\ Len(frames) \in Nat
      /\ \A i \in 2..Len(frames) : frames'[i] = frames[i]
  BY TopShape, Replaced DEF VInv
<1>2. ASSUME NEW i \in 1..Len(frames') PROVE Calm(frames'[i].main)
  <2>1. i = 1 \/ (i \in 2..Len(frames) /\ i \in 1..Len(frames))
    BY <1>1
  <2> QED
    BY <1>1, <2>1 DEF CalmInv, Busy
<1> QED
  BY <1>2

LEMMA CalmProceeds ==
  ASSUME VInv, CalmInv, Busy, frames # <<>>, NEW f, Proceed(f), DOMAIN f = FrameFields,
         Calm(f.main), UNCHANGED <<plan, low, branches, result>>
  PROVE  CalmInv'
<1> DEFINE g == [f EXCEPT !.todo = Tail(@)]
<1>1. g.main = f.main /\ frames' = <<g>> \o Tail(frames)
  BY DEF FrameFields, Proceed
<1> HIDE DEF g
<1>2. \A i \in 1..Len(frames') : Calm(frames'[i].main)
  BY <1>1, CalmRetopped
<1> QED
  BY <1>2 DEF CalmInv, Busy

LEMMA CalmEmitted ==
  ASSUME VInv, CalmInv, NEW kinds, At(kinds), NEW ops, NEW names, Emit(ops, names),
         IsSequence(ops), Calm(ops), AllRead(ops) \/ Groupless(Top.main)
  PROVE  CalmInv'
<1> DEFINE f == [Top EXCEPT !.main = @ \o ops, !.visible = @ \cup names]
<1>1. Busy /\ frames # <<>>
  BY DEF At
<1>2. Calm(Top.main) /\ IsSequence(Top.main) /\ DOMAIN Top = FrameFields
  BY <1>1, CalmTop
<1>3. DOMAIN f = FrameFields /\ f.main = Top.main \o ops /\ Proceed(f)
  BY <1>2 DEF FrameFields, Emit
<1> HIDE DEF f
<1>4. Calm(f.main)
  BY <1>2, <1>3, CalmJoined
<1> QED
  BY <1>1, <1>3, <1>4, CalmProceeds DEF Emit

LEMMA CalmEmitsOne ==
  ASSUME VInv, CalmInv, NEW kinds, At(kinds), NEW op, NEW names, Emit(<<op>>, names),
         op.kind \notin {"Filter", "Union"}
  PROVE  CalmInv'
BY OneInert, InertIsCalm, CalmEmitted

LEMMA CalmWhere ==
  ASSUME VInv, CalmInv, ConstantsComeFirst, Where
  PROVE  CalmInv'
<1> DEFINE op == Node("Filter", Clause.reads, {})
<1>1. At({"Where"}) /\ Emit(<<op>>, {})
  BY DEF Where
<1>2. op.kind = "Filter" /\ op.used = Clause.reads
  BY DEF Node
<1> HIDE DEF op
<1>3. IsSequence(<<op>>) /\ Len(<<op>>) = 1 /\ <<op>>[1] = op
  BY One
<1>4. Calm(<<op>>)
  BY <1>2, <1>3 DEF Calm
<1>5. AllRead(<<op>>) \/ Groupless(Top.main)
  BY <1>1, <1>2, <1>3 DEF ConstantsComeFirst, AllRead
<1> QED
  BY <1>1, <1>3, <1>4, <1>5, CalmEmitted

LEMMA CalmCall ==
  ASSUME Proper, VInv, CalmInv, ConstantsComeFirst, Call
  PROVE  CalmInv'
<1> DEFINE op == Node("ProcedureCall", Clause.reads, Clause.binds)
           tests == [i \in 1..Len(Clause.pred) |-> Node("Filter", Clause.pred[i], {})]
<1>1. At({"Call"}) /\ Emit(<<op>> \o tests, Clause.binds)
  BY DEF Call
<1>2. Len(Clause.pred) \in Nat
  BY <1>1, AtShape, ClauseShape DEF VInv, Proper, ProperClauses
<1>3. IsSequence(tests) /\ Len(tests) = Len(Clause.pred)
  BY <1>2, FunctionIsSequence
<1>4. \A i \in 1..Len(tests) : tests[i].kind = "Filter" /\ tests[i].used = Clause.pred[i]
  BY <1>3 DEF Node
<1>5. op.kind = "ProcedureCall"
  BY DEF Node
<1> HIDE DEF op, tests
<1>6. IsSequence(<<op>>) /\ Len(<<op>>) = 1 /\ <<op>>[1] = op
  BY One
<1>7. Calm(tests)
  BY <1>4 DEF Calm, OneGroup
<1>8. Calm(<<op>>) /\ Groupless(<<op>>) /\ AllRead(<<op>>)
  BY <1>5, <1>6 DEF Calm, Groupless, OneGroup, AllRead, IsFilter
<1>9. Calm(<<op>> \o tests) /\ IsSequence(<<op>> \o tests)
  BY <1>3, <1>6, <1>7, <1>8, CalmJoined
<1>10. AllRead(<<op>> \o tests) \/ Groupless(Top.main)
  <2> SUFFICES ASSUME \A i \in 1..Len(Clause.pred) : Clause.pred[i] # {}
               PROVE  AllRead(<<op>> \o tests)
    BY <1>1 DEF ConstantsComeFirst
  <2> DEFINE t == <<op>> \o tests
  <2>1. /\ Len(t) = 1 + Len(tests) /\ Len(tests) \in Nat
        /\ \A i \in 1..1 : t[i] = <<op>>[i]
        /\ \A i \in 1..Len(tests) : t[1 + i] = tests[i]
    BY <1>3, <1>6, Concatenated, SequenceFacts
  <2> HIDE DEF t
  <2>2. ASSUME NEW i \in 1..Len(t), IsFilter(t[i]) PROVE t[i].used # {}
    <3>1. CASE i = 1
      BY <1>5, <1>6, <2>1, <2>2, <3>1 DEF IsFilter
    <3>2. CASE i # 1
      <4>1. i - 1 \in 1..Len(tests) /\ 1 + (i - 1) = i
        BY <2>1, <3>2
      <4>2. PICK k : k = i - 1
        OBVIOUS
      <4>3. k \in 1..Len(tests) /\ k \in 1..Len(Clause.pred) /\ t[i] = tests[k]
        BY <1>3, <2>1, <4>1, <4>2
      <4> QED
        BY <1>4, <4>3
    <3> QED
      BY <3>1, <3>2
  <2> QED
    BY <2>2 DEF AllRead, t
<1> QED
  BY <1>1, <1>9, <1>10, CalmEmitted

LEMMA CalmSimple ==
  ASSUME VInv, CalmInv, LoadCsv \/ Unwind \/ Start \/ Update \/ Write
  PROVE  CalmInv'
<1>1. CASE LoadCsv
  <2>1. Node("LoadCsv", Clause.reads, Clause.binds).kind = "LoadCsv"
    BY DEF Node
  <2> QED
    BY <1>1, <2>1, CalmEmitsOne DEF LoadCsv
<1>2. CASE Unwind
  <2>1. Node("Unwind", Clause.reads, Clause.binds).kind = "Unwind"
    BY DEF Node
  <2> QED
    BY <1>2, <2>1, CalmEmitsOne DEF Unwind
<1>3. CASE Start
  <2>1. Node("Start", Clause.reads, Clause.binds).kind = "Start"
    BY DEF Node
  <2> QED
    BY <1>3, <2>1, CalmEmitsOne DEF Start
<1>4. CASE Update
  <2>1. At({"Set", "Remove", "Delete"}) /\ Emit(<<Node(Clause.kind, Clause.reads, {})>>, {})
    BY <1>4 DEF Update
  <2>2. Node(Clause.kind, Clause.reads, {}).kind \in {"Set", "Remove", "Delete"}
    BY <2>1 DEF At, Node
  <2> QED
    BY <2>1, <2>2, CalmEmitsOne
<1>5. CASE Write
  <2>1. At({"Create", "Merge"}) /\ \E op, names : op.kind = Clause.kind /\ Emit(<<op>>, names)
    <3>1. \A u, i, ps : [Node(Clause.kind, u, i) EXCEPT !.parts = ps].kind = Clause.kind
      BY DEF Node
    <3> QED
      BY <1>5, <3>1 DEF Write
  <2>2. PICK op, names : op.kind = Clause.kind /\ Emit(<<op>>, names)
    BY <2>1
  <2>3. op.kind \notin {"Filter", "Union"}
    BY <2>1, <2>2 DEF At
  <2> QED
    BY <2>1, <2>2, <2>3, CalmEmitsOne
<1> QED
  BY <1>1, <1>2, <1>3, <1>4, <1>5

LEMMA OnceInert ==
  ASSUME NEW distinct
  PROVE  Inert(Deduplicate(distinct)) /\ IsSequence(Deduplicate(distinct))
<1>1. Node("Distinct", {}, {}).kind = "Distinct"
  BY DEF Node
<1> QED
  BY <1>1, OneInert, CalmNothing, Nothing DEF Deduplicate

LEMMA CalmWith ==
  ASSUME VInv, CalmInv, With
  PROVE  CalmInv'
<1> DEFINE op == ProjectItems(Clause.star, Clause.items)
           once == Deduplicate(Clause.distinct)
           f == [Top EXCEPT
                   !.main = @ \o <<op>> \o once,
                   !.visible = (IF Clause.star THEN @ ELSE {}) \cup ItemNames(Clause.items)]
<1>1. Busy /\ frames # <<>>
  BY DEF With, At
<1>2. Calm(Top.main) /\ IsSequence(Top.main) /\ DOMAIN Top = FrameFields
  BY <1>1, CalmTop
<1>3. Proceed(f) /\ UNCHANGED <<plan, low, branches, result>>
  BY DEF With
<1>4. op.kind = "Project"
  BY DEF ProjectItems, Projection, Node
<1>5. Inert(once) /\ IsSequence(once)
  BY OnceInert
<1>6. DOMAIN f = FrameFields /\ f.main = Top.main \o <<op>> \o once
  BY <1>2 DEF FrameFields
<1> HIDE DEF op, once, f
<1>7. Calm(Top.main \o <<op>>) /\ IsSequence(Top.main \o <<op>>)
  BY <1>2, <1>4, OneInert, CalmTopped
<1>8. Calm(f.main)
  BY <1>5, <1>6, <1>7, CalmTopped
<1> QED
  BY <1>1, <1>3, <1>6, <1>8, CalmProceeds

LEMMA CalmSchema ==
  ASSUME VInv, CalmInv, SchemaCommand
  PROVE  CalmInv'
<1> DEFINE f == [Top EXCEPT !.main = <<Node("SchemaCommand", {}, {})>>]
<1>1. Busy /\ frames # <<>>
  BY DEF SchemaCommand, At
<1>2. DOMAIN Top = FrameFields
  BY <1>1, CalmTop
<1>3. DOMAIN f = FrameFields /\ f.main = <<Node("SchemaCommand", {}, {})>>
  BY <1>2 DEF FrameFields
<1>4. Proceed(f) /\ UNCHANGED <<plan, low, branches, result>>
  BY DEF SchemaCommand
<1> HIDE DEF f
<1>5. Node("SchemaCommand", {}, {}).kind = "SchemaCommand"
  BY DEF Node
<1>6. Calm(f.main)
  BY <1>3, <1>5, OneInert, InertIsCalm
<1> QED
  BY <1>1, <1>3, <1>4, <1>6, CalmProceeds

(* RETURN, ORDER BY, SKIP and LIMIT are kept aside.                        *)
LEMMA CalmKept ==
  ASSUME VInv, CalmInv, Return \/ OrderBy \/ Skip \/ Limit
  PROVE  CalmInv'
<1>1. Busy /\ frames # <<>>
  BY DEF Return, OrderBy, Skip, Limit, At
<1>2. Calm(Top.main) /\ DOMAIN Top = FrameFields
  BY <1>1, CalmTop
<1>3. \E f : /\ Proceed(f) /\ DOMAIN f = FrameFields /\ f.main = Top.main
             /\ UNCHANGED <<plan, low, branches, result>>
  <2>1. CASE Return
    <3> DEFINE f == [Top EXCEPT
        !.project  = Some(ProjectItems(Clause.star, Clause.items)),
        !.distinct = Clause.distinct,
        !.columns  = Some(Len(Clause.items)
                       + IF Clause.star THEN Cardinality(Top.visible) ELSE 0)]
    <3>1. DOMAIN f = FrameFields /\ f.main = Top.main
      BY <1>2 DEF FrameFields
    <3>2. Proceed(f) /\ UNCHANGED <<plan, low, branches, result>>
      BY <2>1 DEF Return
    <3> HIDE DEF f
    <3> QED
      BY <3>1, <3>2
  <2>2. CASE OrderBy
    <3> DEFINE f == [Top EXCEPT !.sort = Some(Node("Sort", Clause.reads, {}))]
    <3>1. DOMAIN f = FrameFields /\ f.main = Top.main
      BY <1>2 DEF FrameFields
    <3>2. Proceed(f) /\ UNCHANGED <<plan, low, branches, result>>
      BY <2>2 DEF OrderBy
    <3> HIDE DEF f
    <3> QED
      BY <3>1, <3>2
  <2>3. CASE Skip
    <3> DEFINE f == [Top EXCEPT !.skip = Some(Node("Skip", Clause.reads, {}))]
    <3>1. DOMAIN f = FrameFields /\ f.main = Top.main
      BY <1>2 DEF FrameFields
    <3>2. Proceed(f) /\ UNCHANGED <<plan, low, branches, result>>
      BY <2>3 DEF Skip
    <3> HIDE DEF f
    <3> QED
      BY <3>1, <3>2
  <2>4. CASE Limit
    <3> DEFINE f == [Top EXCEPT !.limit = Some(Node("Limit", Clause.reads, {}))]
    <3>1. DOMAIN f = FrameFields /\ f.main = Top.main
      BY <1>2 DEF FrameFields
    <3>2. Proceed(f) /\ UNCHANGED <<plan, low, branches, result>>
      BY <2>4 DEF Limit
    <3> HIDE DEF f
    <3> QED
      BY <3>1, <3>2
  <2> QED
    BY <2>1, <2>2, <2>3, <2>4
<1>4. PICK f : /\ Proceed(f) /\ DOMAIN f = FrameFields /\ f.main = Top.main
               /\ UNCHANGED <<plan, low, branches, result>>
  BY <1>3
<1> QED
  BY <1>1, <1>2, <1>4, CalmProceeds

-----------------------------------------------------------------------------
(* Calls of plan_branch.                                                   *)
LEMMA CalmBegin ==
  ASSUME CalmInv, Begin
  PROVE  CalmInv'
<1>1. CASE UNCHANGED <<plan, frames, low, branches>> /\ result' \in {"MultipleStatementsUnsupported", "EmptyQuery"}
  BY <1>1 DEF CalmInv, Begin, Busy
<1>2. CASE frames' = <<Frame(query.clauses)>> /\ UNCHANGED <<plan, low, branches, result>>
  <2>1. Len(frames') = 1 /\ frames'[1] = Frame(query.clauses)
    BY <1>2, One
  <2>2. Frame(query.clauses).main = <<>>
    BY DEF Frame
  <2>3. \A i \in 1..Len(frames') : Calm(frames'[i].main)
    BY <2>1, <2>2, CalmNothing
  <2> QED
    BY <1>2, <2>3 DEF CalmInv, Begin, Busy
<1> QED
  BY <1>1, <1>2 DEF Begin, Fail

LEMMA CalmForeach ==
  ASSUME VInv, CalmInv, BeginForeach
  PROVE  CalmInv'
<1> DEFINE f == Frame(Clause.body)
<1>1. /\ Busy /\ frames' = <<f>> \o frames /\ UNCHANGED <<plan, low, branches, result>>
      /\ IsSequence(frames)
  BY DEF BeginForeach, At, VInv, FramesInv
<1>2. f.main = <<>>
  BY DEF Frame
<1> HIDE DEF f
<1>3. IsSequence(<<f>>) /\ Len(<<f>>) = 1 /\ <<f>>[1] = f
  BY One
<1>4. /\ Len(frames') = 1 + Len(frames) /\ Len(frames) \in Nat
      /\ \A i \in 1..1 : frames'[i] = <<f>>[i]
      /\ \A i \in 1..Len(frames) : frames'[1 + i] = frames[i]
  BY <1>1, <1>3, Concatenated, SequenceFacts
<1>5. ASSUME NEW i \in 1..Len(frames') PROVE Calm(frames'[i].main)
  <2>1. CASE i = 1
    BY <1>2, <1>3, <1>4, <2>1, CalmNothing
  <2>2. CASE i # 1
    <3>1. i - 1 \in 1..Len(frames) /\ 1 + (i - 1) = i
      BY <1>4, <2>2
    <3> QED
      BY <1>1, <1>4, <3>1 DEF CalmInv, Busy
  <2> QED
    BY <2>1, <2>2
<1> QED
  BY <1>1, <1>5 DEF CalmInv, Busy

LEMMA SlotInert ==
  ASSUME NEW s, NEW kind, kind \notin {"Filter", "Union"}, Slot(s, kind)
  PROVE  Inert(s) /\ IsSequence(s)
<1>1. CASE s = None
  BY <1>1, CalmNothing, Nothing DEF None
<1>2. CASE s # None
  <2>1. PICK op \in Op : s = <<op>> /\ op.kind = kind
    BY <1>2 DEF Slot
  <2> QED
    BY <2>1, OneInert
<1> QED
  BY <1>1, <1>2

LEMMA CalmStacked ==
  ASSUME NEW strict, Here(strict), CalmInv, Busy, frames # <<>>
  PROVE  Calm(Stacked(Top)) /\ IsSequence(Stacked(Top))
<1> DEFINE f == Top
           once == IF f.project # None THEN Deduplicate(f.distinct) ELSE <<>>
<1>1. Calm(f.main) /\ IsSequence(f.main)
  BY CalmTop DEF Here
<1>2. /\ Slot(f.project, "Project") /\ Slot(f.sort, "Sort") /\ Slot(f.skip, "Skip")
      /\ Slot(f.limit, "Limit")
  BY TopBuilt DEF FrameBuilt
<1>3. /\ Inert(f.project) /\ IsSequence(f.project) /\ Inert(f.sort) /\ IsSequence(f.sort)
      /\ Inert(f.skip) /\ IsSequence(f.skip) /\ Inert(f.limit) /\ IsSequence(f.limit)
  BY <1>2, SlotInert
<1>4. Inert(once) /\ IsSequence(once)
  BY OnceInert, CalmNothing, Nothing
<1>5. Stacked(f) = f.main \o f.project \o once \o f.sort \o f.skip \o f.limit
  BY DEF Stacked
<1> HIDE DEF f, once
<1>6. Calm(f.main \o f.project) /\ IsSequence(f.main \o f.project)
  BY <1>1, <1>3, CalmTopped
<1>7. Calm(f.main \o f.project \o once) /\ IsSequence(f.main \o f.project \o once)
  BY <1>4, <1>6, CalmTopped
<1>8. /\ Calm(f.main \o f.project \o once \o f.sort)
      /\ IsSequence(f.main \o f.project \o once \o f.sort)
  BY <1>3, <1>7, CalmTopped
<1>9. /\ Calm(f.main \o f.project \o once \o f.sort \o f.skip)
      /\ IsSequence(f.main \o f.project \o once \o f.sort \o f.skip)
  BY <1>3, <1>8, CalmTopped
<1>10. Calm(Stacked(f)) /\ IsSequence(Stacked(f))
  BY <1>3, <1>5, <1>9, CalmTopped
<1> QED
  BY <1>10 DEF f

LEMMA CalmEndBranch ==
  ASSUME NEW strict, Here(strict), CalmInv, EndBranch
  PROVE  CalmInv'
<1> DEFINE b == [main |-> Stacked(Top), columns |-> Top.columns]
<1>1. /\ Busy /\ frames # <<>> /\ branches' = Append(branches, b)
      /\ UNCHANGED <<plan, low, result>>
      /\ frames' = IF Top.todo = <<>> THEN <<>> ELSE <<Frame(Tail(Top.todo))>>
  BY Nothing DEF EndBranch
<1>2. Calm(b.main)
  BY <1>1, CalmStacked
<1> HIDE DEF b
<1>3. IsSequence(branches)
  BY DEF Here, FitInv
<1>4. /\ Len(branches') = Len(branches) + 1 /\ Len(branches) \in Nat
      /\ \A i \in 1..Len(branches) : branches'[i] = branches[i]
      /\ branches'[Len(branches) + 1] = b
  BY <1>1, <1>3, Appended, SequenceFacts
<1>5. ASSUME NEW i \in 1..Len(branches') PROVE Calm(branches'[i].main)
  <2>1. i \in 1..Len(branches) \/ i = Len(branches) + 1
    BY <1>4
  <2> QED
    BY <1>1, <1>2, <1>4, <2>1 DEF CalmInv, Busy
<1>6. \A i \in 1..Len(frames') : Calm(frames'[i].main)
  <2>1. CASE Top.todo = <<>>
    <3>1. Len(frames') = 0
      BY <1>1, <2>1, Nothing
    <3> QED
      BY <3>1
  <2>2. CASE Top.todo # <<>>
    <3>1. Len(frames') = 1 /\ frames'[1] = Frame(Tail(Top.todo))
      BY <1>1, <2>2, One
    <3>2. Frame(Tail(Top.todo)).main = <<>>
      BY DEF Frame
    <3> QED
      BY <3>1, <3>2, CalmNothing
  <2> QED
    BY <2>1, <2>2
<1> QED
  BY <1>1, <1>5, <1>6 DEF CalmInv, Busy

(* What is put in the next spine.                                          *)
LEMMA CalmSecondInput ==
  ASSUME NEW strict, FitInv(strict), \A s \in Spines : Calm(plan[s]), NEW p, Calm(p),
         plan' = [plan EXCEPT ![free] = p]
  PROVE  \A s \in Spines : Calm(plan'[s])
<1>1. plan \in [Spines -> Seq(Op)]
  BY DEF FitInv
<1>2. ASSUME NEW s \in Spines PROVE plan'[s] = IF s = free THEN p ELSE plan[s]
  BY <1>1
<1> QED
  BY <1>2

LEMMA CalmEndBody ==
  ASSUME NEW strict, Here(strict), CalmInv, EndBody
  PROVE  CalmInv'
<1> DEFINE outer == frames[2]
           each == Head(outer.todo)
           op == [Branching("Foreach", free, {})
                    EXCEPT !.used = each.reads, !.parts = <<Part({each.var}, each.reads)>>]
           f == [outer EXCEPT !.main = Append(@, op), !.todo = Tail(@)]
           rest == Tail(Tail(frames))
<1>1. /\ Busy /\ Len(frames) > 1 /\ frames' = <<f>> \o rest
      /\ plan' = [plan EXCEPT ![free] = Stacked(Top)]
      /\ UNCHANGED <<low, branches, result>>
  BY DEF EndBody
<1>2. /\ IsSequence(frames) /\ Len(frames) \in Nat /\ frames # <<>> /\ FitInv(strict)
      /\ BuildInv(strict)
  BY <1>1, Nothing, SequenceFacts, BusyBuilt DEF Here, VInv, FramesInv
<1>3. 2 \in 1..Len(frames) /\ 2 \in 2..Len(frames)
  BY <1>1, <1>2, SMTT(30)
<1>4. /\ DOMAIN outer = FrameFields /\ Calm(outer.main) /\ outer.main \in Seq(Op)
  BY <1>1, <1>2, <1>3 DEF Here, VInv, FramesInv, FrameShape, CalmInv, Busy, BuildInv,
                          FrameBuilt, Piece
<1>5. op.kind = "Foreach"
  BY DEF Branching, Node
<1>6. f.main = Append(outer.main, op)
  BY <1>4 DEF FrameFields
<1>7. /\ IsSequence(rest) /\ Len(rest) = Len(frames) - 2
      /\ \A i \in 1..Len(rest) : rest[i] = frames[i + 2]
  <2>1. /\ IsSequence(Tail(frames)) /\ Len(Tail(frames)) = Len(frames) - 1
        /\ \A i \in 1..Len(Tail(frames)) : Tail(frames)[i] = frames[i + 1]
    BY <1>2, TailFacts
  <2>2. Tail(frames) # <<>>
    <3>1. Len(Tail(frames)) # 0
      BY <1>1, <1>2, <2>1
    <3> QED
      BY <3>1, Nothing
  <2>3. /\ IsSequence(rest) /\ Len(rest) = Len(Tail(frames)) - 1
        /\ \A i \in 1..Len(rest) : rest[i] = Tail(frames)[i + 1]
    BY <2>1, <2>2, TailFacts
  <2> HIDE DEF rest
  <2>4. ASSUME NEW i \in 1..Len(rest) PROVE rest[i] = frames[i + 2]
    <3>1. i + 1 \in 1..Len(Tail(frames)) /\ (i + 1) + 1 = i + 2
      BY <1>2, <2>1, <2>3
    <3> QED
      BY <2>1, <2>3, <3>1
  <2> QED
    BY <1>2, <2>1, <2>3, <2>4
<1> HIDE DEF outer, op, f, rest
<1>8. IsSequence(<<f>>) /\ Len(<<f>>) = 1 /\ <<f>>[1] = f
  BY One
<1>9. /\ Len(frames') = 1 + Len(rest) /\ Len(rest) \in Nat
      /\ \A i \in 1..1 : frames'[i] = <<f>>[i]
      /\ \A i \in 1..Len(rest) : frames'[1 + i] = rest[i]
  BY <1>1, <1>7, <1>8, Concatenated, SequenceFacts
<1>10. Calm(f.main)
  BY <1>4, <1>5, <1>6, CalmAppended
<1>11. ASSUME NEW i \in 1..Len(frames') PROVE Calm(frames'[i].main)
  <2>1. CASE i = 1
    BY <1>8, <1>9, <1>10, <2>1
  <2>2. CASE i # 1
    <3>1. i - 1 \in 1..Len(rest) /\ 1 + (i - 1) = i /\ (i - 1) + 2 \in 1..Len(frames)
      BY <1>2, <1>7, <1>9, <2>2
    <3>2. frames'[1 + (i - 1)] = rest[i - 1] /\ rest[i - 1] = frames[(i - 1) + 2]
      BY <1>7, <1>9, <3>1
    <3> QED
      BY <1>1, <3>1, <3>2 DEF CalmInv, Busy
  <2> QED
    BY <2>1, <2>2
<1>12. \A s \in Spines : Calm(plan'[s])
  <2>1. Calm(Stacked(Top))
    BY <1>1, <1>2, CalmStacked
  <2>2. \A s \in Spines : Calm(plan[s])
    BY <1>1 DEF CalmInv, Busy
  <2> QED
    BY <1>1, <1>2, <2>1, <2>2, CalmSecondInput
<1> QED
  BY <1>1, <1>11, <1>12 DEF CalmInv, Busy

-----------------------------------------------------------------------------
(* The predicates of a pattern read the element they belong to.            *)
LEMMA PredicatesCalm ==
  ASSUME NEW e, NEW var
  PROVE  LET r == Predicates(e, var) IN Calm(r) /\ AllRead(r) /\ IsSequence(r)
<1> DEFINE f == Node("Filter", {var} \cup e.reads, {})
           m == Node("PropertyMapFilter", {var}, {})
           s == IF e.props THEN <<f>> ELSE <<>>
           t == IF e.map THEN <<m>> ELSE <<>>
<1>1. f.kind = "Filter" /\ f.used # {} /\ m.kind = "PropertyMapFilter"
  BY DEF Node
<1>2. Predicates(e, var) = s \o t
  BY DEF Predicates
<1> HIDE DEF f, m
<1>3. Calm(s) /\ AllRead(s) /\ Groupless(s) /\ IsSequence(s)
  <2>1. CASE e.props
    <3>1. IsSequence(<<f>>) /\ Len(<<f>>) = 1 /\ <<f>>[1] = f
      BY One
    <3> QED
      BY <1>1, <2>1, <3>1 DEF Calm, AllRead, Groupless, OneGroup
  <2>2. CASE ~e.props
    <3>1. \A i : i \notin 1..Len(<<>>)
      BY Nothing
    <3> QED
      BY <2>2, <3>1, Nothing, CalmNothing DEF Groupless
  <2> QED
    BY <2>1, <2>2
<1>4. Inert(t) /\ IsSequence(t)
  BY <1>1, OneInert, CalmNothing, Nothing
<1> HIDE DEF s, t
<1>5. Calm(s \o t) /\ IsSequence(s \o t)
  BY <1>3, <1>4, CalmTopped
<1>6. AllRead(s \o t)
  <2> DEFINE r == s \o t
  <2>1. /\ Len(r) = Len(s) + Len(t) /\ Len(s) \in Nat /\ Len(t) \in Nat
        /\ \A i \in 1..Len(s) : r[i] = s[i]
        /\ \A i \in 1..Len(t) : r[Len(s) + i] = t[i]
    BY <1>3, <1>4, Concatenated, SequenceFacts
  <2> HIDE DEF r
  <2>2. ASSUME NEW i \in 1..Len(r), IsFilter(r[i]) PROVE r[i].used # {}
    <3>1. CASE i \in 1..Len(s)
      BY <1>3, <2>1, <2>2, <3>1 DEF AllRead
    <3>2. CASE i \notin 1..Len(s)
      <4>1. i - Len(s) \in 1..Len(t) /\ Len(s) + (i - Len(s)) = i
        BY <2>1, <3>2
      <4> QED
        BY <1>4, <2>1, <2>2, <4>1 DEF Inert, IsFilter
    <3> QED
      BY <3>1, <3>2
  <2> QED
    BY <2>2 DEF AllRead, r
<1> QED
  BY <1>2, <1>5, <1>6

LEMMA LoweringCalm ==
  ASSUME NEW ps, NEW combined
  PROVE  Calm(Lowering(ps, combined).path) /\ Lowering(ps, combined).combined = combined
<1> DEFINE p == Head(ps)
           var == EffectiveVar(p.anchor, "node", 0)
           scan == Node("Scan", {}, Named(var))
           preds == Predicates(p.anchor, var)
<1>1. /\ Lowering(ps, combined).path = <<scan>> \o preds
      /\ Lowering(ps, combined).combined = combined
  BY DEF Lowering
<1>2. scan.kind = "Scan"
  BY DEF Node
<1>3. Calm(preds) /\ AllRead(preds) /\ IsSequence(preds)
  BY PredicatesCalm
<1> HIDE DEF scan, preds
<1>4. Calm(<<scan>>) /\ IsSequence(<<scan>>)
  BY <1>2, OneInert, InertIsCalm
<1>5. Calm(<<scan>> \o preds)
  BY <1>3, <1>4, CalmJoined
<1> QED
  BY <1>1, <1>5

LEMMA CalmBeginMatch ==
  ASSUME VInv, CalmInv, BeginMatch
  PROVE  CalmInv'
<1>1. Busy /\ frames # <<>>
  BY DEF BeginMatch, At
<1>2. CASE Clause.patterns = <<>>
  BY <1>1, <1>2 DEF BeginMatch, Fail, CalmInv, Busy
<1>3. CASE Clause.patterns # <<>>
  <2> DEFINE f == [Top EXCEPT !.visible = @ \cup Patterns(Clause.patterns, PatternBindings)]
  <2>1. frames' = <<f>> \o Tail(frames) /\ low' = Lowering(Clause.patterns, <<>>)
        /\ UNCHANGED <<plan, branches, result>>
    BY <1>3 DEF BeginMatch
  <2>2. Calm(Top.main) /\ DOMAIN Top = FrameFields
    BY <1>1, CalmTop
  <2>3. f.main = Top.main
    BY <2>2 DEF FrameFields
  <2> HIDE DEF f
  <2>4. \A i \in 1..Len(frames') : Calm(frames'[i].main)
    BY <1>1, <2>1, <2>2, <2>3, CalmRetopped
  <2>5. Calm(low'.path) /\ low'.combined = <<>>
    BY <2>1, LoweringCalm
  <2> QED
    BY <1>1, <2>1, <2>4, <2>5, CalmNothing DEF CalmInv, Busy
<1> QED
  BY <1>2, <1>3

LEMMA LowShape ==
  ASSUME NEW strict, Here(strict), CalmInv, Busy, low.on
  PROVE  /\ DOMAIN low = LowFields /\ Calm(low.path) /\ Calm(low.combined)
         /\ low.path \in Seq(Op) /\ low.combined \in Seq(Op)
         /\ IsSequence(low.path) /\ IsSequence(low.combined)
<1>1. LowBuilt(strict)
  BY BusyBuilt DEF Here
<1> QED
  BY <1>1 DEF Here, VInv, LowInv, CalmInv, Busy, LowBuilt, Piece, IsSequence

LEMMA CalmLowerLink ==
  ASSUME NEW strict, Here(strict), CalmInv, LowerLink
  PROVE  CalmInv'
<1> DEFINE c == Head(low.chain)
           rel == EffectiveVar(c.rel, "rel", low.next)
           next == After(c.rel, low.next)
           dst == EffectiveVar(c.node, "node", next)
           op == Node("Expand", Named(low.head), Named(rel) \cup Named(dst))
           r == Predicates(c.rel, rel)
           n == Predicates(c.node, dst)
<1>1. Busy /\ low.on /\ UNCHANGED <<plan, frames, branches, result>>
  BY DEF LowerLink
<1>2. /\ DOMAIN low = LowFields /\ Calm(low.path) /\ Calm(low.combined)
      /\ IsSequence(low.path)
  BY <1>1, LowShape, SMTT(30)
<1>3. low'.path = low.path \o <<op>> \o r \o n /\ low'.combined = low.combined
  BY <1>2 DEF LowerLink, LowFields
<1>4. op.kind = "Expand"
  BY DEF Node
<1>5. Calm(r) /\ AllRead(r) /\ IsSequence(r) /\ Calm(n) /\ AllRead(n) /\ IsSequence(n)
  BY PredicatesCalm
<1> HIDE DEF op, r, n
<1>6. Calm(low.path \o <<op>>) /\ IsSequence(low.path \o <<op>>)
  BY <1>2, <1>4, OneInert, CalmTopped
<1>7. Calm(low.path \o <<op>> \o r) /\ IsSequence(low.path \o <<op>> \o r)
  BY <1>5, <1>6, CalmJoined
<1>8. Calm(low'.path)
  BY <1>3, <1>5, <1>7, CalmJoined
<1> QED
  BY <1>1, <1>2, <1>3, <1>8 DEF CalmInv, Busy

LEMMA CalmPatternDone ==
  ASSUME NEW strict, Here(strict), CalmInv, PatternDone
  PROVE  CalmInv'
<1> DEFINE p == Head(low.patterns)
           more == Tail(low.patterns)
           short == IF p.shortest THEN <<Node("ShortestPath", {}, {})>> ELSE <<>>
           named == IF p.path # NoVar THEN <<Node("NamedPath", {}, {p.path})>> ELSE <<>>
           done == low.path \o short \o named
           first == low.combined = <<>>
           op == Branching("Cartesian", free, BoundVars(done))
           sofar == IF first THEN done ELSE Append(low.combined, op)
<1>1. Busy /\ low.on /\ UNCHANGED <<frames, branches, result>>
  BY DEF PatternDone
<1>2. /\ DOMAIN low = LowFields /\ Calm(low.path) /\ Calm(low.combined)
      /\ IsSequence(low.path) /\ low.combined \in Seq(Op)
  BY <1>1, LowShape
<1>3. /\ low' = IF more = <<>> THEN [low EXCEPT !.patterns = more, !.combined = sofar]
                ELSE Lowering(more, sofar)
      /\ plan' = IF first THEN plan ELSE [plan EXCEPT ![free] = done]
  BY DEF PatternDone
<1>4. Inert(short) /\ IsSequence(short) /\ Inert(named) /\ IsSequence(named)
  <2>1. /\ Node("ShortestPath", {}, {}).kind = "ShortestPath"
        /\ Node("NamedPath", {}, {p.path}).kind = "NamedPath"
    BY DEF Node
  <2> QED
    BY <2>1, OneInert, CalmNothing, Nothing
<1>5. op.kind = "Cartesian"
  BY DEF Branching, Node
<1> HIDE DEF p, short, named, op
<1>6. Calm(low.path \o short) /\ IsSequence(low.path \o short)
  BY <1>2, <1>4, CalmTopped
<1>7. Calm(done)
  BY <1>4, <1>6, CalmTopped
<1> HIDE DEF done
<1>8. Calm(sofar)
  BY <1>2, <1>5, <1>7, CalmAppended
<1> HIDE DEF sofar
<1>9. Calm(low'.path) /\ Calm(low'.combined)
  <2>1. CASE more = <<>>
    <3>1. low'.path = low.path /\ low'.combined = sofar
      BY <1>2, <1>3, <2>1 DEF LowFields
    <3> QED
      BY <1>2, <1>8, <3>1
  <2>2. CASE more # <<>>
    <3>1. low' = Lowering(more, sofar)
      BY <1>3, <2>2
    <3> QED
      BY <1>8, <3>1, LoweringCalm
  <2> QED
    BY <2>1, <2>2
<1>10. \A s \in Spines : Calm(plan'[s])
  <2>1. \A s \in Spines : Calm(plan[s])
    BY <1>1 DEF CalmInv, Busy
  <2>2. FitInv(strict)
    BY DEF Here
  <2> QED
    BY <1>3, <1>7, <2>1, <2>2, CalmSecondInput
<1> QED
  BY <1>1, <1>9, <1>10 DEF CalmInv, Busy

(* The MATCH joins what is there, and lowering ends.                       *)
LEMMA CalmIdle ==
  ASSUME VInv, CalmInv, Busy, frames # <<>>, NEW f, Proceed(f), DOMAIN f = FrameFields,
         Calm(f.main), low' = Idle, \A s \in Spines : Calm(plan'[s]),
         UNCHANGED <<branches, result>>
  PROVE  CalmInv'
<1> DEFINE g == [f EXCEPT !.todo = Tail(@)]
<1>1. g.main = f.main /\ frames' = <<g>> \o Tail(frames)
  BY DEF FrameFields, Proceed
<1> HIDE DEF g
<1>2. \A i \in 1..Len(frames') : Calm(frames'[i].main)
  BY <1>1, CalmRetopped
<1>3. Calm(low'.path) /\ Calm(low'.combined)
  BY CalmNothing DEF Idle
<1> QED
  BY <1>2, <1>3 DEF CalmInv, Busy

LEMMA CalmEndMatch ==
  ASSUME NEW strict, Here(strict), CalmInv, EndMatch
  PROVE  CalmInv'
<1> DEFINE hint == Node("PlannerHint", {}, {})
           hints == [i \in 1..Clause.hints |-> hint]
           lowered == low.combined \o hints
           joins == IF Clause.optional THEN "Optional" ELSE "Cartesian"
           second == Branching(joins, free, BoundVars(lowered))
           alone == [Top EXCEPT !.main = lowered]
           joined == [Top EXCEPT !.main = Append(@, second)]
<1>1. Busy /\ low.on /\ FramesInv /\ FitInv(strict) /\ BuildInv(strict) /\ VInv
  BY BusyBuilt DEF EndMatch, Here, VInv
<1>2. /\ frames # <<>> /\ Top.todo # <<>> /\ Clause.kind = "Match"
      /\ Clause.hints \in Nat
  BY <1>1, ClauseShape DEF Here, VInv, LowInv, Proper, ProperClauses
<1>3. Calm(low.combined) /\ IsSequence(low.combined)
  BY <1>1, LowShape
<1>4. Inert(hints) /\ IsSequence(hints)
  <2>1. IsSequence(hints) /\ Len(hints) = Clause.hints
    BY <1>2, FunctionIsSequence
  <2>2. hint.kind = "PlannerHint"
    BY DEF Node
  <2> HIDE DEF hint
  <2> QED
    BY <2>1, <2>2 DEF Inert
<1>5. second.kind \in {"Optional", "Cartesian"}
  BY DEF Branching, Node
<1>6. /\ Calm(Top.main) /\ DOMAIN Top = FrameFields /\ Top.main \in Seq(Op)
  <2>1. Top.main \in Seq(Op)
    BY <1>1, <1>2, TopBuilt DEF Here, FrameBuilt, Piece
  <2> QED
    BY <1>1, <1>2, <2>1, CalmTop
<1>7. CASE result' # result
  BY <1>1, <1>7 DEF EndMatch, Fail, CalmInv, Busy
<1>8. CASE Proceed(alone) /\ low' = Idle /\ UNCHANGED <<plan, branches, result>>
  <2>1. DOMAIN alone = FrameFields /\ alone.main = lowered
    BY <1>6 DEF FrameFields
  <2> HIDE DEF alone, hints
  <2>2. Calm(alone.main)
    BY <1>3, <1>4, <2>1, CalmTopped
  <2> QED
    <3>1. \A s \in Spines : Calm(plan'[s])
      BY <1>1, <1>8 DEF CalmInv, Busy
    <3> QED
      BY <1>1, <1>2, <1>8, <2>1, <2>2, <3>1, CalmIdle
<1>9. CASE /\ Proceed(joined) /\ low' = Idle /\ plan' = [plan EXCEPT ![free] = lowered]
           /\ UNCHANGED <<branches, result>>
  <2>1. DOMAIN joined = FrameFields /\ joined.main = Append(Top.main, second)
    BY <1>6 DEF FrameFields
  <2> HIDE DEF joined, hints, second
  <2>2. Calm(joined.main)
    BY <1>5, <1>6, <2>1, CalmAppended
  <2>3. Calm(lowered)
    BY <1>3, <1>4, CalmTopped
  <2>4. \A s \in Spines : Calm(plan'[s])
    <3>1. \A s \in Spines : Calm(plan[s])
      BY <1>1 DEF CalmInv, Busy
    <3> QED
      BY <1>1, <1>9, <2>3, <3>1, CalmSecondInput
  <2> QED
    BY <1>1, <1>2, <1>9, <2>1, <2>2, <2>4, CalmIdle
<1> QED
  BY <1>7, <1>8, <1>9 DEF EndMatch, Fail, Busy

-----------------------------------------------------------------------------
(* The branches are combined: Unions go on top of the first, the options   *)
(* of the query on top of them.                                            *)
Filterless(r) == \A i \in 1..Len(r) : ~IsFilter(r[i])

Late(q) ==
  /\ \A i, j \in 1..Len(q) : q[i].kind = "Union" /\ i < j => ~IsFilter(q[j])
  /\ \A i, j \in 1..Len(q) : OneGroup(q[i]) /\ i < j /\ IsFilter(q[j]) => q[j].used # {}

LEMMA CalmIsLate == ASSUME NEW q, Calm(q) PROVE Late(q)
BY DEF Calm, Late

LEMMA LateJoined ==
  ASSUME NEW q, IsSequence(q), Late(q), NEW r, IsSequence(r), Filterless(r)
  PROVE  Late(q \o r) /\ IsSequence(q \o r)
<1> DEFINE t == q \o r
           n == Len(q)
<1>1. /\ IsSequence(t) /\ Len(t) = n + Len(r) /\ n \in Nat /\ Len(r) \in Nat
      /\ \A i \in 1..n : t[i] = q[i]
      /\ \A i \in 1..Len(r) : t[n + i] = r[i]
  BY Concatenated, SequenceFacts
<1> HIDE DEF t
<1>2. ASSUME NEW j \in 1..Len(t), IsFilter(t[j]) PROVE j \in 1..n
  <2> SUFFICES ASSUME j \notin 1..n PROVE FALSE
    OBVIOUS
  <2>1. j - n \in 1..Len(r) /\ n + (j - n) = j
    BY <1>1
  <2> QED
    BY <1>1, <1>2, <2>1 DEF Filterless
<1>3. ASSUME NEW i \in 1..Len(t), NEW j \in 1..Len(t), i < j, IsFilter(t[j])
      PROVE  /\ i \in 1..n /\ j \in 1..n /\ t[i] = q[i] /\ t[j] = q[j]
  <2>1. j \in 1..n
    BY <1>2, <1>3
  <2>2. i \in 1..n
    BY <1>1, <1>3, <2>1
  <2> QED
    BY <1>1, <2>1, <2>2
<1> HIDE DEF n
<1>4. ASSUME NEW i \in 1..Len(t), NEW j \in 1..Len(t), i < j, IsFilter(t[j])
      PROVE  t[i].kind # "Union" /\ (OneGroup(t[i]) => t[j].used # {})
  <2>1. i \in 1..n /\ j \in 1..n /\ t[i] = q[i] /\ t[j] = q[j]
    BY <1>3, <1>4
  <2> QED
    BY <1>4, <2>1 DEF Late, n
<1> QED
  BY <1>1, <1>4 DEF Late, t

LEMMA SameGroups ==
  ASSUME NEW pl, \A s \in Spines : Late(pl[s]) /\ (s # Root => Calm(pl[s]))
  PROVE  Fact!FiltersInside(pl)
<1>1. /\ Fact!Spines = Spines /\ Fact!Root = Root
      /\ \A op : (Fact!IsFilter(op) <=> IsFilter(op)) /\ (Fact!Closes(op) <=> op.kind = "Union")
      /\ \A op : Fact!OneGroup(op) <=> OneGroup(op)
  BY SamePlans DEF Fact!IsFilter, IsFilter, Fact!Closes, Fact!OneGroup, OneGroup
<1>2. Fact!UnionLast(pl)
  <2>1. ASSUME NEW s \in Spines, NEW i \in 1..Len(pl[s]), pl[s][i].kind = "Union"
        PROVE  s = Root /\ \A j \in (i + 1)..Len(pl[s]) : ~IsFilter(pl[s][j])
    <3>1. s = Root
      BY <2>1 DEF Calm
    <3>2. ASSUME NEW j \in (i + 1)..Len(pl[s]) PROVE j \in 1..Len(pl[s]) /\ i < j
      BY <3>2
    <3> QED
      BY <2>1, <3>1, <3>2 DEF Late
  <2> QED
    BY <1>1, <2>1 DEF Fact!UnionLast
<1>3. Fact!GroupsRead(pl)
  BY <1>1 DEF Fact!GroupsRead, Late
<1> QED
  BY <1>2, <1>3 DEF Fact!FiltersInside

LEMMA CalmCombine ==
  ASSUME NEW strict, Here(strict), EnoughSpines', query \in Queries, CalmInv, Combine
  PROVE  CalmInv'
<1>1. /\ Busy /\ branches # <<>> /\ FitInv(strict) /\ BuildInv(strict) /\ WellTyped
      /\ IsSequence(branches) /\ frames = <<>>
  BY BusyBuilt DEF Combine, Here, FitInv
<1>2. CASE ColumnError # "none"
  <2>1. ColumnError # "planned"
    BY DEF ColumnError
  <2> QED
    BY <1>1, <1>2, <2>1 DEF Combine, Fail, CalmInv, Busy
<1>3. CASE ColumnError = "none"
  <2> DEFINE m == Len(branches) - 1
             first == branches[1].main
             unions == Unions(free, m)
             options == OptionOps(query.options)
             root == first \o unions \o options
  <2>1. Combined(root) /\ result' = "planned"
    BY <1>3 DEF Combine, Combined, Unions, UnionSpines
  <2>2. Len(branches) \in Nat /\ m \in Nat /\ 1 \in 1..Len(branches)
    <3>1. Len(branches) \in Nat /\ Len(branches) > 0
      BY <1>1, SequenceFacts, TailFacts
    <3> QED
      BY <3>1
  <2>3. Calm(first) /\ IsSequence(first)
    <3>1. first \in Seq(Op)
      BY <1>1, <2>2 DEF BuildInv, Piece
    <3> QED
      BY <1>1, <2>2, <3>1 DEF CalmInv, Busy, IsSequence
  <2>4. IsSequence(unions) /\ Filterless(unions)
    <3>1. IsSequence(unions) /\ Len(unions) = m
      BY <2>2, FunctionIsSequence DEF Unions
    <3>2. \A k \in 1..m : unions[k].kind = "Union"
      BY <3>1 DEF Unions, Branching, Node
    <3> HIDE DEF unions, m
    <3> QED
      BY <3>1, <3>2 DEF Filterless, IsFilter
  <2>5. IsSequence(options) /\ Filterless(options)
    <3>1. Flat(options) /\ OfKinds(options, Options)
      BY <1>1, OptionsFlat DEF WellTyped
    <3> HIDE DEF options
    <3>2. IsSequence(options)
      BY <3>1 DEF Flat, IsSequence
    <3> QED
      BY <3>1, <3>2 DEF OfKinds, Options, Filterless, IsFilter
  <2> HIDE DEF m, first, unions, options
  <2>6. Late(first \o unions) /\ IsSequence(first \o unions)
    BY <2>3, <2>4, CalmIsLate, LateJoined
  <2>7. Late(root)
    BY <2>5, <2>6, LateJoined
  <2> HIDE DEF root
  <2>8. /\ Root \in Spines /\ free \in Nat \ {0}
    BY <1>1, SpineAssumption DEF Root, Spines, FitInv
  <2>9. ASSUME NEW s \in UnionSpines PROVE Calm(branches[s - free + 2].main)
    <3>1. s - free + 2 \in 1..Len(branches)
      BY <2>2, <2>8 DEF UnionSpines
    <3> QED
      BY <1>1, <3>1 DEF CalmInv, Busy
  <2>10. ASSUME NEW s \in Spines PROVE Late(plan'[s]) /\ (s # Root => Calm(plan'[s]))
    <3>1. CASE s = Root
      BY <2>1, <2>7, <3>1 DEF Combined
    <3>2. CASE s # Root /\ s \in UnionSpines
      BY <2>1, <2>9, <3>2, CalmIsLate DEF Combined
    <3>3. CASE s # Root /\ s \notin UnionSpines
      <4>1. Calm(plan[s])
        BY <1>1 DEF CalmInv, Busy
      <4> QED
        BY <2>1, <3>3, <4>1, CalmIsLate DEF Combined
    <3> QED
      BY <3>1, <3>2, <3>3
  <2>11. PICK pl : pl = plan'
    OBVIOUS
  <2>12. Fact!FiltersInside(pl)
    BY <2>10, <2>11, SameGroups
  <2> QED
    BY <2>1, <2>11, <2>12 DEF CalmInv
<1> QED
  BY <1>2, <1>3

LEMMA CalmRest ==
  ASSUME CalmInv, UNCHANGED vars
  PROVE  CalmInv'
BY DEF CalmInv, vars

LEMMA CalmStart ==
  ASSUME Init
  PROVE  CalmInv
<1>1. /\ plan = [s \in Spines |-> <<>>] /\ Len(frames) = 0 /\ Len(branches) = 0
      /\ result = "none" /\ low.path = <<>> /\ low.combined = <<>>
  BY Nothing DEF Init, Idle
<1>2. \A i : i \notin 1..0
  OBVIOUS
<1> QED
  BY <1>1, <1>2, CalmNothing DEF CalmInv

LEMMA CalmStep ==
  ASSUME NEW strict, Here(strict), EnoughSpines', query \in Queries, CalmInv,
         ConstantsComeFirst, [Next]_vars
  PROVE  CalmInv'
<1>0. VInv /\ Proper
  BY DEF Here
<1>1. CASE Begin
  BY <1>1, CalmBegin
<1>2. CASE Lower
  BY <1>0, <1>2, CalmBeginMatch, CalmLowerLink, CalmPatternDone, CalmEndMatch DEF Lower
<1>3. CASE Where
  BY <1>0, <1>3, CalmWhere
<1>4. CASE Call
  BY <1>0, <1>4, CalmCall
<1>5. CASE LoadCsv \/ Unwind \/ Start \/ Update \/ Write
  BY <1>0, <1>5, CalmSimple
<1>6. CASE SchemaCommand
  BY <1>0, <1>6, CalmSchema
<1>7. CASE With
  BY <1>0, <1>7, CalmWith
<1>8. CASE Return \/ OrderBy \/ Skip \/ Limit
  BY <1>0, <1>8, CalmKept
<1>9. CASE BeginForeach
  BY <1>0, <1>9, CalmForeach
<1>10. CASE EndBody
  BY <1>10, CalmEndBody
<1>11. CASE EndBranch
  BY <1>11, CalmEndBranch
<1>12. CASE Combine
  BY <1>12, CalmCombine
<1>13. CASE Returned \/ UNCHANGED vars
  BY <1>13, CalmRest DEF Returned
<1> QED
  BY <1>1, <1>2, <1>3, <1>4, <1>5, <1>6, <1>7, <1>8, <1>9, <1>10, <1>11, <1>12, <1>13
     DEF Next, Work

-----------------------------------------------------------------------------
(* The plan is handed over with its second inputs in one place each.       *)
LEMMA HandedTree ==
  ASSUME Planning(TRUE), result = "planned"
  PROVE  Fact!IsTree(plan)
<1>1. Shaped /\ plan \in [Spines -> Seq(Op)] /\ free \in Nat
  BY DEF Planning, FitInv
<1>2. Fact!LeafKinds = LeafKinds /\ Fact!Spines = Spines
  BY SamePlans DEF Fact!LeafKinds, LeafKinds
<1>3. ASSUME NEW s \in Spines, NEW t \in Spines, NEW i \in 1..Len(plan[s]),
             NEW j \in 1..Len(plan[t]),
             plan[s][i].right # 0, plan[s][i].right = plan[t][j].right
      PROVE  s = t /\ i = j
  <2>1. PICK r : r = plan[s][i].right
    OBVIOUS
  <2>2. r \in 1..(free - 1)
    <3>1. plan[s][i] \in Op
      BY <1>1
    <3>2. r \in Nat
      BY ONLY <2>1, <3>1, SpineAssumption DEF Op
    <3>3. \A u \in Spines : \A k \in 1..Len(plan[u]) : plan[u][k].right < free
      BY ONLY <1>1 DEF Shaped
    <3>4. r < free
      BY ONLY <2>1, <3>3
    <3>5. r # 0
      BY <1>3, <2>1
    <3> QED
      BY <1>1, <3>2, <3>4, <3>5
  <2>a. \A n \in 1..(free - 1) :
          \E u \in Spines : \E k \in 1..Len(plan[u]) :
             /\ plan[u][k].right = n
             /\ \A v \in Spines : \A l \in 1..Len(plan[v]) :
                  plan[v][l].right = n => v = u /\ l = k
    BY ONLY <1>1 DEF Shaped
  <2>3. PICK u \in Spines : \E k \in 1..Len(plan[u]) :
           /\ plan[u][k].right = r
           /\ \A v \in Spines : \A l \in 1..Len(plan[v]) :
                plan[v][l].right = r => v = u /\ l = k
    BY ONLY <2>a, <2>2
  <2>4. PICK k \in 1..Len(plan[u]) :
           \A v \in Spines : \A l \in 1..Len(plan[v]) : plan[v][l].right = r => v = u /\ l = k
    BY <2>3
  <2>5. (s = u /\ i = k) /\ (t = u /\ j = k)
    <3>1. plan[s][i].right = r /\ plan[t][j].right = r
      BY <1>3, <2>1
    <3> QED
      BY <2>4, <3>1
  <2> QED
    BY <2>5
<1>4. \A s \in Spines : \A i \in 2..Len(plan[s]) : plan[s][i].kind \notin LeafKinds
  BY <1>1 DEF Shaped
<1> QED
  BY <1>2, <1>3, <1>4 DEF Fact!IsTree

LEMMA GoodPlanHanded ==
  ASSUME Planning(TRUE), CalmInv, result = "planned"
  PROVE  Fact!GoodPlan(plan)
<1>1. /\ plan \in [Spines -> Seq(Op)] /\ Fact!Sound(plan)
  BY PlanHandedOver, SameSoundness
<1>2. Fact!FiltersInside(plan)
  BY DEF CalmInv
<1> QED
  BY <1>1, <1>2, HandedTree, SamePlans DEF Fact!GoodPlan

RowsPlanned ==
  /\ PipelineInv
  /\ phase \in {"parsed", "waiting"} => CalmInv
  /\ phase \in {"pass", "done"} => Fact!RowsInv

LEMMA RowsThen ==
  (Fact!ScopeInv /\ Fact!GoodPlan(plan) /\ prev = plan => Fact!RowsInv)'
<1>1. Fact!ScopeInv /\ Fact!GoodPlan(plan) /\ prev = plan => Fact!RowsInv
  <2> SUFFICES ASSUME Fact!ScopeInv, Fact!GoodPlan(plan), prev = plan PROVE Fact!RowsInv
    OBVIOUS
  <2>1. Fact!RowsKept
    BY DEF Fact!RowsKept, Fact!EvalKept
  <2> QED
    BY <2>1 DEF Fact!RowsInv
<1> QED
  BY <1>1, PTL

LEMMA RowsPlannedStep ==
  ASSUME Proper, WellTyped, MatchesInScope, Fact!TypedMeaning, RowsPlanned,
         Granted(TRUE), Granted(TRUE)', ConstantsComeFirst, [NextPipeline]_all
  PROVE  /\ RowsPlanned'
         /\ phase = "pass" => Fact!SameRows(plan', plan)
<1>0. PipelineInv /\ PipelineInv'
  BY PipelineStep DEF RowsPlanned
<1>1. CASE Analyze \/ Plan
  <2>1. /\ Planning(TRUE) /\ [Next]_vars /\ CalmInv /\ phase # "pass" /\ phase' = "waiting"
    BY <1>0, <1>1 DEF Analyze, Plan, PipelineInv, RowsPlanned, Next, optimizing
  <2>2. Here(TRUE) /\ EnoughSpines' /\ query \in Queries
    BY <2>1 DEF Planning, Here, Granted
  <2>3. CalmInv'
    BY <2>1, <2>2, CalmStep
  <2> QED
    BY <1>0, <2>1, <2>3 DEF RowsPlanned
<1>2. CASE HandOver
  <2>1. /\ Planning(TRUE) /\ CalmInv /\ phase = "waiting" /\ phase' = "pass"
        /\ result = "planned" /\ plan' = plan /\ prev' = plan
    BY <1>0, <1>2 DEF HandOver, PipelineInv, RowsPlanned, vars
  <2>2. Fact!GoodPlan(plan)
    BY <2>1, GoodPlanHanded
  <2>3. Fact!GoodPlan(plan')
    BY <2>1, <2>2
  <2>4. Fact!ScopeInv'
    BY <1>0, <2>1 DEF PipelineInv, Rewriting
  <2>5. Fact!RowsInv'
    BY <2>1, <2>3, <2>4, RowsThen
  <2> QED
    BY <1>0, <2>1, <2>5 DEF RowsPlanned
<1>3. CASE Optimize \/ UNCHANGED all
  <2>1. CASE phase \in {"pass", "done"}
    <3>1. Fact!RowsInv /\ [Fact!Next]_Fact!vars
      BY <1>3, <2>1, SameSteps DEF RowsPlanned, Optimize, all, vars, optimizing, Fact!vars
    <3>2. Fact!RowsInv'
      BY <3>1, SpineAssumption, MeaningAssumption, Fact!RowsStep
    <3>3. phase' \in {"pass", "done"}
      BY <3>2 DEF Fact!RowsInv, Fact!ScopeInv, Fact!TypeOK
    <3>4. Fact!SameRows(plan', plan)
      BY <3>1, SpineAssumption, MeaningAssumption, Fact!RowsStep
    <3> QED
      BY <1>0, <3>2, <3>3, <3>4 DEF RowsPlanned
  <2>2. CASE phase \notin {"pass", "done"}
    <3>1. UNCHANGED vars /\ phase' = phase /\ phase \in {"parsed", "waiting"}
      BY <1>0, <1>3, <2>2 DEF Optimize, all, vars, optimizing, PipelineInv
    <3>2. CalmInv'
      BY <3>1, CalmRest DEF RowsPlanned
    <3> QED
      BY <1>0, <3>1, <3>2 DEF RowsPlanned
  <2> QED
    BY <2>1, <2>2
<1> QED
  BY <1>1, <1>2, <1>3 DEF NextPipeline, Step, Rest

LEMMA RowsPlannedFirst == InitPipeline => RowsPlanned
<1> SUFFICES ASSUME InitPipeline PROVE RowsPlanned
  OBVIOUS
<1>1. CalmInv /\ phase = "parsed"
  BY CalmStart DEF InitPipeline
<1> QED
  BY <1>1, PipelineStarts DEF RowsPlanned

(* The hypotheses are those of PipelineInvariant, and that a WHERE which   *)
(* reads nothing comes before what makes one row of all.                   *)
LEMMA RowsInvariant ==
  ASSUME Proper, WellTyped, MatchesInScope, Fact!TypedMeaning
  PROVE  SpecPipeline /\ []EnoughSpines /\ []ReadsInScope /\ []ConstantsComeFirst
           => []RowsPlanned
<1>1. RowsPlanned /\ Granted(TRUE) /\ Granted(TRUE)' /\ ConstantsComeFirst
        /\ [NextPipeline]_all => RowsPlanned'
  BY RowsPlannedStep
<1>2. EnoughSpines /\ ReadsInScope => Granted(TRUE)
  BY DEF Granted
<1> QED
  BY <1>1, <1>2, RowsPlannedFirst, PTL DEF SpecPipeline

(* Every plan that is handed over is one whose rows optimize keeps: a tree *)
(* in which no filter is above a Union, and none that reads nothing above  *)
(* an aggregation of all rows into one.                                    *)
THEOREM PlansKeepFiltersInside ==
  ASSUME Proper, WellTyped, MatchesInScope, Fact!TypedMeaning
  PROVE  SpecPipeline /\ []EnoughSpines /\ []ReadsInScope /\ []ConstantsComeFirst
           => [](phase = "waiting" /\ result = "planned" =>
                   Fact!IsTree(plan) /\ Fact!FiltersInside(plan))
<1>1. RowsPlanned => (phase = "waiting" /\ result = "planned" =>
                        Fact!IsTree(plan) /\ Fact!FiltersInside(plan))
  BY HandedTree DEF RowsPlanned, PipelineInv, CalmInv
<1> QED
  BY <1>1, RowsInvariant, PTL

LEMMA WorkIsBusy == Work => Busy
<1>1. Begin \/ Lower \/ EndBody \/ EndBranch \/ Combine => Busy
  BY DEF Begin, Lower, BeginMatch, LowerLink, PatternDone, EndMatch, EndBody, EndBranch,
         Combine, At
<1>2. Where \/ Call \/ LoadCsv \/ Unwind \/ Start \/ Write \/ Update => Busy
  BY DEF Where, Call, LoadCsv, Unwind, Start, Write, Update, At
<1>3. SchemaCommand \/ With \/ Return \/ OrderBy \/ Skip \/ Limit \/ BeginForeach => Busy
  BY DEF SchemaCommand, With, Return, OrderBy, Skip, Limit, BeginForeach, At
<1> QED
  BY <1>1, <1>2, <1>3, SMTT(30) DEF Work

(* The query is planned, and what its plan has become means what pl means. *)
Means(pl) ==
  /\ result = "planned" /\ phase \in {"waiting", "pass", "done"}
  /\ Fact!SameRows(plan, pl)

LEMMA MeansStep ==
  ASSUME Proper, WellTyped, MatchesInScope, Fact!TypedMeaning, RowsPlanned,
         Granted(TRUE), Granted(TRUE)', ConstantsComeFirst, [NextPipeline]_all,
         NEW pl, Means(pl)
  PROVE  Means(pl)'
<1>1. /\ RowsPlanned' /\ (phase = "pass" => Fact!SameRows(plan', plan))
  BY RowsPlannedStep
<1>2. CASE Analyze \/ Plan
  BY <1>2, WorkIsBusy DEF Analyze, Plan, Busy, Means
<1>3. CASE HandOver
  BY <1>3 DEF HandOver, Means, vars
<1>4. CASE Optimize
  <2>1. phase = "pass" /\ result' = result
    BY <1>4 DEF Optimize, planning
  <2>2. phase' \in {"pass", "done"}
    <3>1. Rewriting
      BY <2>1 DEF RowsPlanned, PipelineInv
    <3>2. Rewriting'
      BY <1>4, <3>1, OptimizeStep DEF Optimize
    <3> QED
      BY <3>2 DEF Rewriting, Fact!ScopeInv, Fact!TypeOK
  <2>3. Fact!SameRows(plan', pl)
    BY <1>1, <2>1 DEF Means, Fact!SameRows
  <2> QED
    BY <2>1, <2>2, <2>3 DEF Means
<1>5. CASE UNCHANGED all
  BY <1>5 DEF all, vars, optimizing, Means
<1> QED
  BY <1>2, <1>3, <1>4, <1>5 DEF NextPipeline, Step, Rest

(* Whatever the query, the graph and what its expressions evaluate to: the *)
(* plan that is returned, and the plan after each rewrite on the way, has  *)
(* the rows of the plan that was handed over; and so has every operator    *)
(* which selects, writes or combines rows.                                 *)
THEOREM AnswersMeanTheirPlans ==
  ASSUME Proper, WellTyped, MatchesInScope, Fact!TypedMeaning, NEW CONSTANT pl
  PROVE  SpecPipeline /\ []EnoughSpines /\ []ReadsInScope /\ []ConstantsComeFirst
           => [](phase = "waiting" /\ result = "planned" /\ plan = pl
                   => [](Fact!SameRows(plan, pl)))
<1>1. RowsPlanned /\ Granted(TRUE) /\ Granted(TRUE)' /\ ConstantsComeFirst
        /\ [NextPipeline]_all /\ Means(pl) => Means(pl)'
  BY MeansStep
<1>2. phase = "waiting" /\ result = "planned" /\ plan = pl => Means(pl)
  BY DEF Means, Fact!SameRows
<1>3. Means(pl) => Fact!SameRows(plan, pl)
  BY DEF Means
<1>4. EnoughSpines /\ ReadsInScope => Granted(TRUE)
  BY DEF Granted
<1> QED
  BY <1>1, <1>2, <1>3, <1>4, RowsInvariant, PTL DEF SpecPipeline
=============================================================================
