----------------------------- MODULE Optimizer ------------------------------
(***************************************************************************)
(* optimize of src/src/optimize.rs: passes over the plan, repeated until   *)
(* one of them changes nothing.                                            *)
(*                                                                         *)
(* A pass rebuilds the plan bottom-up; at every Filter it calls            *)
(* try_push_filter, which carries the filter down, one operator at a time, *)
(* until an operator holds it.  The pass over a second input and the pass  *)
(* over the part of the main spine below it do not see each other, so the  *)
(* spines are rewritten in the order of their numbers, inputs first.       *)
(*   plan   the plan being rebuilt                                         *)
(*   cur,at the operator the pass visits next: spine and position          *)
(*   fly    the filter try_push_filter is carrying, Grounded if none       *)
(*   prev   current: the plan the pass started from                        *)
(*   rounds how many passes changed the plan                               *)
(***************************************************************************)
EXTENDS Plans

CONSTANT Inputs   \* the plans optimize is called with

ASSUME InputsAssumption == Inputs \subseteq [Spines -> Seq(Op)]

VARIABLES plan, cur, at, fly, prev, rounds, phase

vars == <<plan, cur, at, fly, prev, rounds, phase>>

Grounded == [sp |-> 0, pos |-> 0]

(***************************************************************************)
(* The arms of try_push_filter: when the operator op lets the filter f     *)
(* through, q being the spine of op and p the position of f.               *)
(***************************************************************************)
(* Each definition below that is named a bug is one the code could have;   *)
(* nothing uses it, and the properties of this module tell it apart.       *)
(* Bug: a filter also passes a projection that computes what it reads.     *)
BugPassesProject(f, op) == op.kind = "Project"

PassesProject(f, op) ==
  op.kind = "Project" /\ f.used \cap op.alias = {}

(* Bug: LIMIT is taken for an operator that keeps rows.                    *)
BugPassesSort(op) == op.kind \in {"Sort", "Limit"}

PassesSort(op) == op.kind = "Sort"

PassesExpand(f, op) ==
  op.kind = "Expand" /\ f.used \cap op.intro = {}

PassesNamedPath(f, op) ==
  op.kind = "NamedPath" /\ f.used \cap op.intro = {}

PassesLoadCsv(f, op) ==
  op.kind = "LoadCsv" /\ f.used \cap op.intro = {}

PassesPropertyMapFilter(op) == op.kind = "PropertyMapFilter"

(* Bug: an OPTIONAL MATCH is taken for a product.                          *)
BugGoesLeft(q, p) ==
  /\ q[p - 1].kind \in {"Cartesian", "Optional"}
  /\ q[p].used # {}
  /\ q[p].used \subseteq Bound(q, p - 2)

GoesLeft(q, p) ==
  /\ q[p - 1].kind = "Cartesian"
  /\ q[p].used # {}
  /\ q[p].used \subseteq Bound(q, p - 2)

(* Bug: what the left input does not bind goes right.                      *)
BugGoesRight(pl, q, p) ==
  /\ q[p - 1].kind = "Cartesian"
  /\ q[p].used # {}
  /\ ~ (q[p].used \subseteq Bound(q, p - 2))

GoesRight(pl, q, p) ==
  /\ q[p - 1].kind = "Cartesian"
  /\ q[p].used # {}
  /\ ~ (q[p].used \subseteq Bound(q, p - 2))
  /\ q[p].used \subseteq BoundVars(pl[q[p - 1].right])

Slides(q, p) ==
  LET f  == q[p]
      op == q[p - 1]
  IN  \/ PassesProject(f, op)
      \/ PassesSort(op)
      \/ PassesExpand(f, op)
      \/ PassesNamedPath(f, op)
      \/ PassesLoadCsv(f, op)
      \/ PassesPropertyMapFilter(op)
      \/ GoesLeft(q, p)

(* The last arm, and the Filter each other arm rebuilds: f stays.          *)
Held(pl, s, p) ==
  \/ p = 1
  \/ p > 1 /\ ~Slides(pl[s], p) /\ ~GoesRight(pl, pl[s], p)

-----------------------------------------------------------------------------
Flying == fly # Grounded

(* descend reaches an operator other than Filter: apply_local keeps it.    *)
Visit ==
  /\ phase = "pass" /\ ~Flying
  /\ cur \in Spines /\ at \in 1..Len(plan[cur])
  /\ ~IsFilter(plan[cur][at])
  /\ at' = at + 1
  /\ UNCHANGED <<plan, cur, fly, prev, rounds, phase>>

(* Bug: descend is called again on the filter it has just placed.          *)
BugPickUp ==
  /\ phase = "pass" /\ ~Flying
  /\ cur \in Spines /\ at \in 1..Len(plan[cur])
  /\ IsFilter(plan[cur][at])
  /\ fly' = [sp |-> cur, pos |-> at]
  /\ UNCHANGED <<plan, cur, at, prev, rounds, phase>>

(* descend has rebuilt the input of a Filter: apply_local picks it up.     *)
PickUp ==
  /\ phase = "pass" /\ ~Flying
  /\ cur \in Spines /\ at \in 1..Len(plan[cur])
  /\ IsFilter(plan[cur][at])
  /\ fly' = [sp |-> cur, pos |-> at]
  /\ at' = at + 1
  /\ UNCHANGED <<plan, cur, prev, rounds, phase>>

(* try_push_filter calls itself on the main input of the operator.         *)
Slide ==
  /\ Flying /\ fly.pos > 1
  /\ Slides(plan[fly.sp], fly.pos)
  /\ plan' = [plan EXCEPT ![fly.sp] = Swap(@, fly.pos)]
  /\ fly'  = [fly EXCEPT !.pos = @ - 1]
  /\ UNCHANGED <<cur, at, prev, rounds, phase>>

(* Bug: the filter is put on the second input and goes no further.         *)
BugSinkOnce ==
  /\ Flying /\ fly.pos > 1
  /\ GoesRight(plan, plan[fly.sp], fly.pos)
  /\ LET s == fly.sp
         r == plan[s][fly.pos - 1].right
     IN  /\ plan' = [plan EXCEPT ![s] = Drop(@, fly.pos),
                                 ![r] = Append(@, plan[s][fly.pos])]
         /\ fly'  = Grounded
         /\ at'   = IF s = cur THEN at - 1 ELSE at
  /\ UNCHANGED <<cur, prev, rounds, phase>>

(* Bug: what goes on is the top of the second input, not the filter.       *)
BugSinkBelow ==
  /\ Flying /\ fly.pos > 1
  /\ GoesRight(plan, plan[fly.sp], fly.pos)
  /\ LET s == fly.sp
         r == plan[s][fly.pos - 1].right
     IN  /\ plan' = [plan EXCEPT ![s] = Drop(@, fly.pos),
                                 ![r] = Append(@, plan[s][fly.pos])]
         /\ fly'  = [sp |-> r, pos |-> Len(plan[r])]
         /\ at'   = IF s = cur THEN at - 1 ELSE at
  /\ UNCHANGED <<cur, prev, rounds, phase>>

(* Bug: the filter is rebuilt on its own input and the product is lost.    *)
BugSinkDrop ==
  /\ Flying /\ fly.pos > 1
  /\ GoesRight(plan, plan[fly.sp], fly.pos)
  /\ plan' = [plan EXCEPT ![fly.sp] = Drop(@, fly.pos - 1)]
  /\ fly'  = [fly EXCEPT !.pos = @ - 1]
  /\ at'   = IF fly.sp = cur THEN at - 1 ELSE at
  /\ UNCHANGED <<cur, prev, rounds, phase>>

(* try_push_filter calls itself on the second input of a Cartesian.  The   *)
(* operators above the filter move down one place.                         *)
Sink ==
  /\ Flying /\ fly.pos > 1
  /\ GoesRight(plan, plan[fly.sp], fly.pos)
  /\ LET s == fly.sp
         f == plan[s][fly.pos]
         r == plan[s][fly.pos - 1].right
     IN  /\ plan' = [plan EXCEPT ![s] = Drop(@, fly.pos),
                                 ![r] = Append(@, f)]
         /\ fly'  = [sp |-> r, pos |-> Len(plan[r]) + 1]
         /\ at'   = IF s = cur THEN at - 1 ELSE at
  /\ UNCHANGED <<cur, prev, rounds, phase>>

(* The operator below holds the filter: try_push_filter returns.           *)
Rest ==
  /\ Flying
  /\ Held(plan, fly.sp, fly.pos)
  /\ fly' = Grounded
  /\ UNCHANGED <<plan, cur, at, prev, rounds, phase>>

(* The pass over one spine is complete.                                    *)
NextSpine ==
  /\ phase = "pass" /\ ~Flying
  /\ cur \in Spines /\ at > Len(plan[cur])
  /\ cur' = cur + 1
  /\ at' = 1
  /\ UNCHANGED <<plan, fly, prev, rounds, phase>>

(* The pass changed the plan: current = next, and once more.               *)
Again ==
  /\ phase = "pass" /\ cur > Root
  /\ plan # prev
  /\ prev' = plan
  /\ rounds' = rounds + 1
  /\ cur' = 1 /\ at' = 1
  /\ UNCHANGED <<plan, fly, phase>>

(* next == current: optimize returns.                                      *)
Finish ==
  /\ phase = "pass" /\ cur > Root
  /\ plan = prev
  /\ phase' = "done"
  /\ UNCHANGED <<plan, cur, at, fly, prev, rounds>>

(* The caller has the plan; nothing happens any more.                      *)
Returned == phase = "done" /\ UNCHANGED vars

Init ==
  /\ plan \in Inputs
  /\ WellFormed(plan)
  /\ RightScopesExact(plan)
  /\ WellScoped(plan)
  /\ cur = 1 /\ at = 1
  /\ fly = Grounded
  /\ prev = plan
  /\ rounds = 0
  /\ phase = "pass"

Work == Visit \/ PickUp \/ Slide \/ Sink \/ Rest \/ NextSpine \/ Again \/ Finish

Next == Work \/ Returned

(* optimize is a loop over recursive calls: it keeps running.              *)
Spec == Init /\ [][Next]_vars /\ WF_vars(Work)

-----------------------------------------------------------------------------
TypeOK ==
  /\ plan \in [Spines -> Seq(Op)]
  /\ prev \in [Spines -> Seq(Op)]
  /\ cur \in 1..(NumSpines + 1)
  /\ at \in Nat \ {0}
  /\ fly \in [sp : 0..NumSpines, pos : Nat]
  /\ Flying => /\ fly.sp \in Spines
               /\ fly.pos \in 1..Len(plan[fly.sp])
               /\ IsFilter(plan[fly.sp][fly.pos])
  /\ rounds \in Nat
  /\ phase \in {"pass", "done"}

(* No rewrite takes an operator out of the scope of a variable it reads,   *)
(* although try_push_filter only looks at the operator it passes, and      *)
(* never at what is bound below it, except for a Cartesian.                *)
ScopeKept == WellScoped(plan)

(* One pass is enough: the second pass of the loop in optimize changes     *)
(* nothing.  Every filter the first one put down stays held while the rest *)
(* of the plan is rewritten, also in the second inputs filters sink into.  *)
SecondPassIdle == rounds <= 1

(* The rewriting, with its arms and its order, only takes the steps the    *)
(* doc of the module allows: the steps of the abstract specification.      *)
Promise == INSTANCE Pushdown

ImplementsPushdown == Promise!Spec

(* The loop of optimize ends on every plan.                                *)
Terminates == <>(phase = "done")
=============================================================================
