---------------------------- MODULE MCPlacement -----------------------------
(***************************************************************************)
(* Statements for the model checker, among those the grammar lets through: *)
(* lists of at most MaxClauses clauses of every kind, and longer ones of   *)
(* projections and their modifiers.                                        *)
(***************************************************************************)
EXTENDS Placement

CONSTANTS MaxClauses, MaxModifiers

(* query_body: clause+ ~ (union_clause ~ clause+)*                         *)
Grammatical(q) ==
  /\ q[1] # "Union" /\ q[Len(q)] # "Union"
  /\ \A i \in 1..(Len(q) - 1) : ~ (q[i] = "Union" /\ q[i + 1] = "Union")

ListsOf(kinds, length) ==
  {q \in UNION {[1..n -> kinds] : n \in 1..length} : Grammatical(q)}

Projecting == {"With", "Return", "Where", "OrderBy", "Skip", "Limit"}

AllStatements ==
  ListsOf(Projecting \cup {"Match", "Start", "Create", "Union"}, MaxClauses)
    \cup ListsOf(Projecting, MaxModifiers)
=============================================================================
