-------------------------------- MODULE Cost --------------------------------
(***************************************************************************)
(* estimate of src/src/cost.rs: how many rows a plan returns and what it   *)
(* costs, for a model that says how big the graph is.                      *)
(*                                                                         *)
(* The code computes in f64.  Here rows and costs are integers, counted in *)
(* parts of a row, Unit of them to the row, so that halves of halves stay  *)
(* exact; ln is rounded down.                                              *)
(***************************************************************************)
EXTENDS Plans, SequencesExt

CONSTANT Unit

ASSUME UnitAssumption == Unit \in Nat \ {0}

Times(a, b) == (a * b) \div Unit

Larger(a, b)  == IF a >= b THEN a ELSE b
Smaller(a, b) == IF a <= b THEN a ELSE b

(***************************************************************************)
(* A CostModel, and the arguments of operators the plans leave out:        *)
(*   scan     rows of a label        fanout  neighbours per row            *)
(*   range    <<>>, or the bounds of a path, NoBound where there is none   *)
(*   keep     the selectivity of a predicate, not clamped                  *)
(*   unwind, csv, start   rows per row of UNWIND, LOAD CSV, START          *)
(*   limit, skip  the counts, NoBound if they are not literals             *)
(*   all      whether a UNION is UNION ALL                                 *)
(***************************************************************************)
NoBound == -1

HopCap == 16

(* relationship_fanout: the paths of every length the range allows; three  *)
(* lengths if it has no end.                                               *)
Power(base, hops) ==
  LET P[k \in 0..hops] == IF k = 0 THEN Unit ELSE Times(P[k - 1], base)
  IN  P[hops]

(* Bug: the last length of the range is left out.                          *)
BugFanout(base, range) ==
  IF range = <<>> THEN base
  ELSE LET start == Smaller(IF range[1] = NoBound THEN 1 ELSE range[1], HopCap)
           end   == Smaller(IF range[2] = NoBound THEN start + 2 ELSE range[2], HopCap)
       IN  FoldLeft(LAMBDA sum, k : sum + Power(base, start + k - 1), 0,
                    [k \in 1..(end - start) |-> k])

Fanout(base, range) ==
  IF range = <<>> THEN base
  ELSE LET start == Smaller(IF range[1] = NoBound THEN 1 ELSE range[1], HopCap)
           end   == Smaller(IF range[2] = NoBound THEN start + 2 ELSE range[2], HopCap)
       IN  FoldLeft(LAMBDA sum, k : sum + Power(base, start + k - 1), 0,
                    [k \in 1..(end - start + 1) |-> k])

Selected(m, rows) == Times(rows, Larger(0, Smaller(m.keep, Unit)))

(* Rows that come out of op; in is the estimate of its main input, second  *)
(* that of its second one.                                                 *)
RowsOut(m, op, in, second) ==
  LET k == op.kind IN
  CASE k = "Scan"     -> m.scan
    [] k = "SchemaCommand" -> 0
    [] k = "Expand"   -> Times(in.rows, Fanout(m.fanout, m.range))
    [] k \in {"Filter", "PropertyMapFilter"} -> Selected(m, in.rows)
    [] k = "Unwind"   -> Times(in.rows, Larger(0, m.unwind))
    [] k = "LoadCsv"  -> Times(in.rows, Larger(0, m.csv))
    [] k = "Start"    -> LET found == Times(in.rows, Larger(0, m.start))
                         IN  IF op.used = {} THEN found ELSE Selected(m, found)
    [] k = "Sort"     -> Larger(in.rows, Unit)
    [] k = "Limit"    -> IF m.limit = NoBound THEN in.rows ELSE Smaller(m.limit, in.rows)
    [] k = "Skip"     -> IF m.skip = NoBound THEN in.rows ELSE Larger(in.rows - m.skip, 0)
    [] k = "Cartesian" -> Times(in.rows, second.rows)
    [] k = "Optional" -> Larger(in.rows, second.rows)
    [] k = "Distinct" -> Larger(in.rows \div 2, Unit)
    [] k = "Union"    -> IF m.all THEN in.rows + second.rows
                         ELSE Larger((in.rows + second.rows) \div 2, Unit)
    [] OTHER -> in.rows

(* Operators that cost what comes out of them, and that cost nothing.      *)
OutWork  == {"Scan", "Expand", "Unwind", "LoadCsv", "Limit", "Cartesian"}
FreeWork == {"PlannerHint", "PeriodicCommit", "Explain", "Profile"}

Exp == <<3, 8, 21, 55, 149, 404, 1097, 2981, 8104, 22027>>  \* e^k, rounded up

Ln(rows) == Cardinality({k \in 1..Len(Exp) : Exp[k] * Unit <= rows})

(* What op adds to the cost of its inputs.  Lists of arguments that plans  *)
(* leave out have one element; a CREATE is not a CREATE UNIQUE.            *)
Charge(m, op, in, second, out) ==
  LET k == op.kind IN
  CASE k \in OutWork  -> out
    [] k \in FreeWork -> 0
    [] k = "SchemaCommand" -> Unit
    [] k \in {"Create", "Merge"} -> in.rows * Larger(1, Len(op.parts))
    [] k = "Start"    -> Times(in.rows, Larger(0, m.start))
    [] k = "Sort"     -> out * Larger(1, Ln(out))
    [] k = "Union"    -> in.rows + second.rows
    [] k = "Foreach"  -> Times(Times(in.rows, Larger(0, m.unwind)),
                               Larger(second.cost, Unit))
    [] OTHER -> in.rows

InputCost(op, in, second) ==
  in.cost + IF op.kind \in {"Cartesian", "Optional", "Union"} THEN second.cost ELSE 0

EmptyEstimate == [rows |-> Unit, cost |-> 0]

(* The estimates of all spines.                                            *)
Estimates(m, plan) ==
  LET E[s \in Spines] ==
        FoldLeft(LAMBDA in, op :
                   LET second == IF op.right = 0 THEN EmptyEstimate ELSE E[op.right]
                       out    == RowsOut(m, op, in, second)
                   IN  [rows |-> out,
                        cost |-> InputCost(op, in, second) + Charge(m, op, in, second, out)],
                 EmptyEstimate, plan[s])
  IN  E

Estimate(m, plan) == Estimates(m, plan)[Root]
=============================================================================
