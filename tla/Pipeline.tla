------------------------------ MODULE Pipeline ------------------------------
(***************************************************************************)
(* analyze, plan and optimize, as tool_explain of src/src/mcp.rs chains    *)
(* them: the query is analyzed, and planned whatever the report says; the  *)
(* plan is handed to the optimizer, a planning error ends the call.  The   *)
(* other tools run parts of this chain.                                    *)
(*                                                                         *)
(* The planner's variables and the optimizer's, with the plan in common;   *)
(* phase is "parsed", then "waiting" until the plan is handed over.        *)
(*   report  what the analysis reports, Unread before it                   *)
(***************************************************************************)
EXTENDS Planner

CONSTANT Analysis(_)    \* what analyze says of the clauses of a query

VARIABLES cur, at, fly, prev, rounds, phase, report

Opt == INSTANCE Optimizer WITH Inputs <- {}

optimizing == <<cur, at, fly, prev, rounds, phase>>
planning   == <<query, free, frames, low, branches, result>>

all == <<vars, optimizing, report>>

Unread == [bindings |-> {}, unbound |-> {}]

(* let report = analyze(&q)                                                *)
Analyze ==
  /\ phase = "parsed"
  /\ report' = Analysis(query.clauses)
  /\ phase' = "waiting"
  /\ UNCHANGED <<vars, cur, at, fly, prev, rounds>>

Plan == phase = "waiting" /\ Work /\ UNCHANGED <<optimizing, report>>

(* let p = plan(&q)?; optimize(p)                                          *)
HandOver ==
  /\ phase = "waiting" /\ result = "planned"
  /\ cur' = 1 /\ at' = 1 /\ fly' = Opt!Grounded
  /\ prev' = plan /\ rounds' = 0
  /\ phase' = "pass"
  /\ UNCHANGED <<vars, report>>

Optimize == phase = "pass" /\ Opt!Work /\ UNCHANGED <<planning, report>>

Answered == phase = "done" \/ result \notin {"none", "planned"}

Rest == Answered /\ UNCHANGED all

InitPipeline ==
  /\ Init
  /\ cur = 0 /\ at = 0 /\ fly = Opt!Grounded
  /\ prev = plan /\ rounds = 0
  /\ phase = "parsed"
  /\ report = Unread

Step == Analyze \/ Plan \/ HandOver \/ Optimize

NextPipeline == Step \/ Rest

SpecPipeline == InitPipeline /\ [][NextPipeline]_all /\ WF_all(Step)

-----------------------------------------------------------------------------
(* What the optimizer does to a plan of the planner are pushdown steps,    *)
(* from a plan that pushdown may start from.                               *)
FromPlanToPushdown ==
  [][IF phase \in {"parsed", "waiting"}
     THEN phase' = "pass" => Opt!Promise!Init
     ELSE Opt!Promise!Next \/ UNCHANGED plan]_all

(* The columns a query returns, which mcp.rs reports from the optimized    *)
(* plan and UNION compares before, are not touched by any rewrite.         *)
ColumnsKept ==
  phase \in {"pass", "done"} => BoundVars(plan[Root]) = BoundVars(prev[Root])

(* Every query is answered: a planned query by an optimized plan.          *)
AnswersOptimized == <>Answered
=============================================================================
