-------------------------------- MODULE Sema --------------------------------
(***************************************************************************)
(* analyze_branch of src/src/sema.rs: which names of a branch are bound    *)
(* and what is known of their types; SemaReport is what is reported.       *)
(*                                                                         *)
(* The names of a branch are collected from all its clauses before any     *)
(* clause is looked at; what each name stands for is followed clause by    *)
(* clause.  An expression that is not a variable has type "Any" here: what *)
(* is inferred of it is in TypeCheck.  START looks up nodes.               *)
(***************************************************************************)
EXTENDS Clauses, SequencesExt

(* collect_bindings.  The body of a FOREACH and the names a RETURN gives   *)
(* are not looked at; a WITH only adds the names it gives with AS.         *)
(* Bug: neither are the names a WITH gives.                                *)
BugBindingsOf(c) ==
  CASE c.kind \in {"Match", "Create", "Merge"} ->
         Patterns(c.patterns, PatternBindings)
    [] c.kind \in {"Unwind", "LoadCsv", "Start", "Call"} -> c.binds
    [] OTHER -> {}

BindingsOf(c) ==
  CASE c.kind \in {"Match", "Create", "Merge"} ->
         Patterns(c.patterns, PatternBindings)
    [] c.kind \in {"Unwind", "LoadCsv", "Start", "Call"} -> c.binds
    [] c.kind = "With" -> UNION {Named(c.items[i].alias) : i \in 1..Len(c.items)}
    [] OTHER -> {}

Collected(clauses) == UNION {BindingsOf(clauses[i]) : i \in 1..Len(clauses)}

(* analyze_statement: the branches between the UNIONs.  The clauses up to  *)
(* the n-th belong to the branch that starts after BranchStart.            *)
BranchStart(clauses, n) ==
  Max({0} \cup {i \in 1..n : clauses[i].kind = "Union"})

BranchesOf(clauses) ==
  {SubSeq(clauses, BranchStart(clauses, e - 1) + 1, e - 1) :
     e \in {i \in 1..(Len(clauses) + 1) :
              i <= Len(clauses) => clauses[i].kind = "Union"}}

-----------------------------------------------------------------------------
(* update_type_bindings.  Names are inserted one after the other: the last *)
(* insert of a name wins.                                                  *)
NoTypes == [v \in {} |-> "Any"]

TypeOf(types, v) == IF v \in DOMAIN types THEN types[v] ELSE "Any"

Inserted(new, types) ==
  [v \in DOMAIN new \cup DOMAIN types |->
     IF v \in DOMAIN new THEN new[v] ELSE types[v]]

Typed(types, names, type) == Inserted([v \in names |-> type], types)

(* add_pattern_types: the path first, then the elements in their order.    *)
(* Bug: a path is what it starts with.                                     *)
BugTypeIn(p, v) ==
  LET links == {i \in 1..Len(p.chain) : v \in {p.chain[i].rel.var, p.chain[i].node.var}}
  IN  IF links = {} THEN "Node"
      ELSE IF p.chain[Max(links)].node.var = v THEN "Node" ELSE "Relationship"

TypeIn(p, v) ==
  LET links == {i \in 1..Len(p.chain) : v \in {p.chain[i].rel.var, p.chain[i].node.var}}
  IN  IF links = {} THEN IF p.anchor.var = v THEN "Node" ELSE "Path"
      ELSE IF p.chain[Max(links)].node.var = v THEN "Node" ELSE "Relationship"

PatternTypes(types, ps) ==
  LET last(v) == ps[Max({i \in 1..Len(ps) : v \in PatternBindings(ps[i])})]
  IN  Inserted([v \in Patterns(ps, PatternBindings) |-> TypeIn(last(v), v)], types)

(* return_item_name.                                                       *)
NameGiven(item) == Named(IF item.alias # NoVar THEN item.alias ELSE item.expr)

NamesGiven(items) == UNION {NameGiven(items[i]) : i \in 1..Len(items)}

(* Bug: the types of the names a WITH drops are kept.                      *)
BugItemTypes(types, c) ==
  LET last(v) == c.items[Max({i \in 1..Len(c.items) : v \in NameGiven(c.items[i])})]
  IN  Inserted([v \in NamesGiven(c.items) |-> TypeOf(types, last(v).expr)], types)

(* A WITH forgets the other names, and infers from the types before it.    *)
ItemTypes(types, c) ==
  LET last(v) == c.items[Max({i \in 1..Len(c.items) : v \in NameGiven(c.items[i])})]
  IN  Inserted([v \in NamesGiven(c.items) |-> TypeOf(types, last(v).expr)],
               IF c.star THEN types ELSE NoTypes)

TypesAfter(types, c) ==
  CASE c.kind \in {"Match", "Create", "Merge"} -> PatternTypes(types, c.patterns)
    [] c.kind = "Start"   -> Typed(types, c.binds, "Node")
    [] c.kind = "LoadCsv" -> Typed(types, c.binds, "Map")
    [] c.kind \in {"Unwind", "Call"} -> Typed(types, c.binds, "Any")
    [] c.kind = "With"    -> ItemTypes(types, c)
    [] OTHER -> types

(* What is known after the clauses: those of a branch, from the first.     *)
TypesAt(clauses) ==
  LET Known[n \in 0..Len(clauses)] ==
        IF n = 0 THEN NoTypes ELSE TypesAfter(Known[n - 1], clauses[n])
  IN  Known[Len(clauses)]
=============================================================================
