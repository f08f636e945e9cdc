------------------------------ MODULE Clauses -------------------------------
(***************************************************************************)
(* Parsed queries: the clauses of src/src/ast.rs, as data.                 *)
(*                                                                         *)
(* An expression is the set of variables it reads; a list of properties is *)
(* whether there are any and the variables their values read.  Labels,     *)
(* types, ranges, directions, literals and names of procedures and         *)
(* properties are left out: no stage this project models depends on them.  *)
(***************************************************************************)
EXTENDS Integers, Sequences

CONSTANT UserVars    \* the variable names in the query text

NoVar == "-"         \* an Option<String> that is None

(* One pattern element, a node or a relationship.                          *)
(*   var    its variable, NoVar if it has none                             *)
(*   props  whether it has properties, {key: value, ...}                   *)
(*   reads  the variables the values read                                  *)
(*   map    whether it has a property map, given as a parameter            *)
Element(var, props, reads, map) ==
  [var |-> var, props |-> props, reads |-> reads, map |-> map]

Bare(var) == Element(var, FALSE, {}, FALSE)

Link(rel, node) == [rel |-> rel, node |-> node]

Pattern(path, shortest, anchor, chain) ==
  [path |-> path, shortest |-> shortest, anchor |-> anchor, chain |-> chain]

Named(var) == {var} \ {NoVar}

(* insert_pattern_bindings, collect_pattern_bindings: the names a pattern  *)
(* gives in the query text.                                                *)
PatternBindings(p) ==
  Named(p.path) \cup Named(p.anchor.var)
    \cup UNION {Named(p.chain[i].rel.var) \cup Named(p.chain[i].node.var)
                  : i \in 1..Len(p.chain)}

PatternReads(p) ==
  p.anchor.reads
    \cup UNION {p.chain[i].rel.reads \cup p.chain[i].node.reads
                  : i \in 1..Len(p.chain)}

Patterns(ps, F(_)) == UNION {F(ps[i]) : i \in 1..Len(ps)}

(* One item of a projection: a bare variable, or an expression with or     *)
(* without a name.                                                         *)
Item(expr, alias, reads, agg) ==
  [expr |-> expr, alias |-> alias, reads |-> reads, agg |-> agg]

Variable(v)       == Item(v, NoVar, {v}, FALSE)
Expression(v, rs) == Item(NoVar, v, rs, FALSE)
Aggregate(v)      == Item(NoVar, v, {}, TRUE)

-----------------------------------------------------------------------------
(* Clauses.                                                                *)
Match(optional, patterns, hints) ==
  [kind |-> "Match", optional |-> optional, patterns |-> patterns, hints |-> hints]

Projecting(kind, star, distinct, items) ==
  [kind |-> kind, star |-> star, distinct |-> distinct, items |-> items]

(* WHERE, ORDER BY, SKIP, LIMIT; SET, REMOVE, DELETE.                      *)
Reading(kind, reads) == [kind |-> kind, reads |-> reads]

(* CREATE and MERGE; reads is what the actions of a MERGE read.            *)
Writing(kind, patterns, reads) ==
  [kind |-> kind, patterns |-> patterns, reads |-> reads]

(* UNWIND, LOAD CSV, CALL and START; pred is <<>> or the variables of the  *)
(* WHERE that is part of a CALL.                                           *)
Binding(kind, binds, reads, pred) ==
  [kind |-> kind, binds |-> binds, reads |-> reads, pred |-> pred]

Foreach(var, reads, body) ==
  [kind |-> "Foreach", var |-> var, reads |-> reads, body |-> body]

Plain(kind) == [kind |-> kind]    \* UNION and the schema commands

(* A statement, and whether others follow it.                              *)
Query(options, clauses, more) ==
  [options |-> options, clauses |-> clauses, more |-> more]
=============================================================================
