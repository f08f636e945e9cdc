---------------------------- MODULE Expressions -----------------------------
(***************************************************************************)
(* Expressions of src/src/ast.rs, as far as names go.  An expression has   *)
(* parts evaluated in the scope it stands in and, if it is a               *)
(* comprehension of some kind, parts evaluated in a scope of its own.      *)
(*   names  the name of a Variable; what the inner scope adds; the names   *)
(*          of the elements of a pattern                                   *)
(*   outer  the parts in the surrounding scope                             *)
(*   inner  the parts in the scope with the names                          *)
(* A part that is left out (no WHERE, no projection) is not listed.        *)
(*   op     which operator, function, literal or comprehension it is, for  *)
(*          the analysis of types; "" where only names matter              *)
(*   value  of a literal                                                   *)
(*   maps   of the inner parts, how many are property maps                 *)
(*   where  whether the next inner part is a WHERE                         *)
(*   item   of a reduce, the name of the element                           *)
(***************************************************************************)
EXTENDS Integers, Sequences

Expr(kind, names, outer, inner) ==
  [kind |-> kind, names |-> names, outer |-> outer, inner |-> inner,
   op |-> "", value |-> <<"Null", 0>>, maps |-> 0, where |-> FALSE, item |-> ""]

Variable(v) == Expr("Variable", {v}, <<>>, <<>>)

(* Expressions that are made of their parts: Property, LabelPredicate,     *)
(* Subscript, Slice, MapProjection (an item .v is the variable v),         *)
(* FunctionCall, Case, ComparisonChain, Binary, Unary, List, Map, and,     *)
(* without parts, Literal and Param.                                       *)
Composed(parts) == Expr("Composed", {}, parts, <<>>)

Operation(op, parts) == [Composed(parts) EXCEPT !.op = op]

Literal(type, value) == [Operation("Literal", <<>>) EXCEPT !.value = <<type, value>>]

Constant == Composed(<<>>)

(* [v IN source WHERE predicate | projection]; all(v IN source WHERE p)    *)
(* and its likes ("test"); filter(v IN ...); extract(v IN ...).            *)
OverList(v, source, inner) == Expr("OverList", {v}, <<source>>, inner)

ListExpression(op, v, source, where, projection) ==
  [OverList(v, source, where \o projection)
     EXCEPT !.op = op, !.where = where # <<>>]

(* reduce(accumulator = initial, v IN source | expression)                 *)
Reduce(accumulator, initial, v, source, inner) ==
  [Expr("Reduce", {accumulator, v}, <<initial, source>>, inner) EXCEPT !.item = v]

(* [path = pattern WHERE predicate | projection]; what the property maps   *)
(* of the pattern read comes first in inner.                               *)
PatternComprehension(names, maps, inner) ==
  [Expr("PatternComprehension", names, <<>>, maps \o inner)
     EXCEPT !.maps = Len(maps)]

(* A pattern as a condition; outer is what its property maps read.         *)
PatternExpression(names, maps) ==
  Expr("PatternExpression", names, maps, <<>>)

Scoping == {"OverList", "Reduce", "PatternComprehension"}
=============================================================================
