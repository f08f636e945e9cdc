----------------------------- MODULE SemaReport -----------------------------
(***************************************************************************)
(* analyze of src/src/sema.rs: the names of a query that are reported as   *)
(* unbound, clause by clause, into the bodies of FOREACH.                  *)
(***************************************************************************)
EXTENDS Sema

(* check_clause: the names it reports as unbound-variable.                 *)
RECURSIVE UnboundIn(_, _)

UnboundIn(c, bindings) ==
  CASE c.kind = "Match" -> Patterns(c.patterns, PatternReads) \ bindings
    [] c.kind \in {"Create", "Merge"} ->
         (Patterns(c.patterns, PatternReads) \cup c.reads) \ bindings
    [] c.kind \in {"With", "Return"} ->
         UNION {c.items[i].reads : i \in 1..Len(c.items)} \ bindings
    [] c.kind = "LoadCsv" -> c.reads \ (bindings \ c.binds)
    [] c.kind \in {"Unwind", "Start", "Call"} ->
         (c.reads \cup UNION Range(c.pred)) \ bindings
    [] c.kind = "Foreach" ->
         LET local == bindings \cup {c.var} \cup Collected(c.body)
         IN  (c.reads \ bindings)
               \cup UNION {UnboundIn(c.body[i], local) : i \in 1..Len(c.body)}
    [] c.kind \in {"Union", "SchemaCommand"} -> {}
    [] OTHER -> c.reads \ bindings

(* analyze_branch, and the report on all branches.                         *)
UnboundOf(branch) ==
  UNION {UnboundIn(branch[i], Collected(branch)) : i \in 1..Len(branch)}

Report(clauses) ==
  [bindings |-> UNION {Collected(b) : b \in BranchesOf(clauses)},
   unbound  |-> UNION {UnboundOf(b) : b \in BranchesOf(clauses)}]
=============================================================================
