---------------------------- MODULE ClauseOrder -----------------------------
(***************************************************************************)
(* The kinds of clauses of src/src/ast.rs, and the order openCypher asks   *)
(* of them.  The order is a reference, stated without the code.            *)
(***************************************************************************)
EXTENDS Integers, Sequences

(* WHERE, ORDER BY, SKIP and LIMIT are clauses of their own in the AST.    *)
Modifiers == {"Where", "OrderBy", "Skip", "Limit"}

Others ==
  {"Create", "Merge", "Set", "Remove", "Delete", "Unwind", "Foreach",
   "Call", "LoadCsv"}

ClauseKinds ==
  Modifiers \cup Others \cup {"Match", "With", "Return", "Start", "Union"}

(***************************************************************************)
(* What openCypher asks of the order of clauses, said of the list as a     *)
(* whole: a modifier belongs to the last clause before it that is none,    *)
(* its head, and follows the modifiers that rank before it.                *)
(***************************************************************************)
Rank == [m \in Modifiers |->
           CASE m = "OrderBy" -> 1 [] m = "Skip" -> 2
             [] m = "Limit" -> 3 [] m = "Where" -> 4]

Allowed(head) ==
  CASE head = "Match"  -> {"Where"}
    [] head = "With"   -> Modifiers
    [] head = "Return" -> {"OrderBy", "Skip", "Limit"}
    [] OTHER           -> {}

HeadOf(q, h, i) ==
  h \in 1..(i - 1) /\ q[h] \notin Modifiers
                   /\ \A j \in (h + 1)..(i - 1) : q[j] \in Modifiers

(* Its head allows it, and it ranks after the modifiers in between.        *)
FollowsItsHead(q, i) ==
  \E h \in 1..(i - 1) :
    /\ HeadOf(q, h, i)
    /\ q[i] \in Allowed(q[h])
    /\ \A j \in (h + 1)..(i - 1) : Rank[q[j]] < Rank[q[i]]

BeginsBranch(q, i) == i = 1 \/ q[i - 1] = "Union"

FollowsReturn(q, i) == \E h \in 1..(i - 1) : HeadOf(q, h, i) /\ q[h] = "Return"

WellPlacedAt(q, i) ==
  /\ q[i] \in Modifiers => FollowsItsHead(q, i)
  /\ q[i] = "Start" => BeginsBranch(q, i)
  /\ q[i] \notin Modifiers \cup {"Start", "Union"} => ~FollowsReturn(q, i)

WellPlaced(q) == \A i \in 1..Len(q) : WellPlacedAt(q, i)
=============================================================================
