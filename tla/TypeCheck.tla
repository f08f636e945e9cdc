----------------------------- MODULE TypeCheck ------------------------------
(***************************************************************************)
(* infer_expression_type_with and check_expr of src/src/sema.rs: the type  *)
(* of an expression, and what is reported of it.                           *)
(*                                                                         *)
(* An environment gives types to the names that have one.  There is no     *)
(* schema, and the elements a pattern names are nodes.                     *)
(***************************************************************************)
EXTENDS Expressions, Types, SequencesExt

Boolean == Type("Boolean")
Integer == Type("Integer")

UnifyAll(types) == FoldLeft(Unify, NullType, types)

Logical    == {"And", "Or", "Xor"}
Arithmetic == {"Sub", "Mul", "Mod", "Div", "Pow"}
OfStrings  == {"StartsWith", "Contains"}
Tests      == {"Eq", "Less", "In", "Not", "IsNull"} \cup Logical \cup OfStrings

(* The parts of a scope: property maps, WHERE, and what it yields.         *)
Where(e) == IF e.where THEN {e.inner[e.maps + 1]} ELSE {}

Yielded(e) ==
  LET first == e.maps + (IF e.where THEN 2 ELSE 1)
  IN  {e.inner[i] : i \in first..Len(e.inner)}

-----------------------------------------------------------------------------
(* infer_expression_type_with.                                             *)
RECURSIVE Infer(_, _)

InferAll(parts, env) == [i \in 1..Len(parts) |-> Infer(parts[i], env)]

(* CASE alternatives are parts 1, 3, 5...; what they yield 2, 4, 6... and, *)
(* with an ELSE, the last.                                                 *)
CaseResults(parts) ==
  SelectSeq([i \in 1..Len(parts) |-> i], LAMBDA i : i % 2 = 0 \/ i = Len(parts))

(* infer_function_type: coalesce and head are the type of their arguments, *)
(* others that of the signatures that take them.                           *)
InferCall(name, actual) ==
  LET result == UnifyAll(SetToSeq({sig.result : sig \in Overloads(name, actual)}))
  IN  CASE name \in {"coalesce", "head"}  -> UnifyAll(actual)
        [] name \in {"size", "tointeger"} -> Integer
        [] name = "tostring" -> Type("String")
        [] name = "range"    -> ListOf(Integer)
        [] OTHER -> IF result = NullType THEN AnyType ELSE result

InferComposed(e, env) ==
  LET types == InferAll(e.outer, env)
      base  == types[1]
  IN
  CASE e.op = "Literal" -> Type(e.value[1])
    [] e.op = "List"    -> ListOf(UnifyAll(types))
    [] e.op \in Tests   -> Boolean
    [] e.op \in {"Div", "Pow"} -> Type("Float")
    [] e.op \in {"Add", "Sub", "Mul", "Mod"} -> UnifyAll(types)
    [] e.op = "Neg"     -> base
    [] e.op = "Index"   -> IF IsList(base) THEN ItemOf(base)
                           ELSE IF base = Type("String") THEN base ELSE AnyType
    [] e.op = "Slice"   -> IF IsList(base) \/ base = Type("String") THEN base
                           ELSE AnyType
    [] e.op = "Case"    ->
         UnifyAll([i \in 1..Len(CaseResults(e.outer)) |-> types[CaseResults(e.outer)[i]]])
    [] e.op \in DOMAIN Builtins -> InferCall(e.op, types)
    [] OTHER -> AnyType

(* What a scope yields is inferred with the types around it.               *)
InferYielded(e, env, otherwise) ==
  IF Yielded(e) = {} THEN otherwise
  ELSE Infer(CHOOSE part \in Yielded(e) : TRUE, env)

Infer(e, env) ==
  CASE e.kind = "Variable" ->
         LET v == CHOOSE v \in e.names : TRUE
         IN  IF v \in DOMAIN env THEN env[v] ELSE AnyType
    [] e.kind = "Composed" -> InferComposed(e, env)
    [] e.kind = "OverList" /\ e.op = "test" -> Boolean
    [] e.kind = "OverList" /\ e.op = "filter" ->
         LET source == Infer(e.outer[1], env)
         IN  IF IsList(source) THEN source ELSE AnyList
    [] e.kind \in {"OverList", "PatternComprehension"}
         /\ e.op \notin {"test", "filter"} -> ListOf(InferYielded(e, env, AnyType))
    [] e.kind = "Reduce" -> InferYielded(e, env, Infer(e.outer[1], env))
    [] OTHER -> Boolean

(* list_item_type, and the types of the names of a scope.                  *)
Element(type) == IF IsList(type) THEN ItemOf(type) ELSE AnyType

LocalTypes(e, env) ==
  CASE e.kind = "OverList" ->
         [v \in e.names |-> Element(Infer(e.outer[1], env))] @@ env
    [] e.kind = "Reduce" ->
         [v \in {e.item} |-> Element(Infer(e.outer[2], env))]
           @@ [v \in e.names |-> Infer(e.outer[1], env)] @@ env
    [] OTHER -> [v \in e.names |-> Type("Node")] @@ env

-----------------------------------------------------------------------------
(* check_expr: the names it reports as unbound-variable.                   *)
RECURSIVE Unbound(_, _)

(* Bug: the accumulator of a REDUCE is not in scope of its expression.     *)
BugInScope(e, bindings) ==
  bindings \cup (IF e.kind = "Reduce" THEN {e.item} ELSE e.names)

InScope(e, bindings) == bindings \cup e.names

Unbound(e, bindings) ==
  (IF e.kind \in {"Variable", "PatternExpression"} THEN e.names \ bindings ELSE {})
    \cup UNION {Unbound(e.outer[i], bindings) : i \in 1..Len(e.outer)}
    \cup UNION {Unbound(e.inner[i], InScope(e, bindings)) : i \in 1..Len(e.inner)}

(* check_expr_type_node and check_function_signature, for an expression of *)
(* parts with these types: whether a type-mismatch is reported.            *)
Expects(expected, actual) == ~Accepts(expected, actual)

NoNumber(type) == ~IsNumeric(type) /\ type # NullType

(* Operands of + and <: what fits anything, or one another.                *)
Fits(s, t, free) ==
  \/ IsNumeric(s) /\ IsNumeric(t)
  \/ s = Type("String") /\ t = s
  \/ {s, t} \cap free # {}

(* Bug: a null is no operand of a sign or an arithmetic operator.          *)
BugClashes(e, t) ==
  CASE e.op \in Arithmetic \cup {"Neg"} -> \E i \in 1..Len(t) : ~IsNumeric(t[i])
    [] OTHER -> FALSE

Clashes(e, t) ==
  CASE e.op \in Logical \cup {"Not"} -> \E i \in 1..Len(t) : Expects(Boolean, t[i])
    [] e.op \in Arithmetic \cup {"Neg"} -> \E i \in 1..Len(t) : NoNumber(t[i])
    [] e.op = "Add" -> ~IsList(t[1]) /\ ~IsList(t[2])
                       /\ ~Fits(t[1], t[2], {AnyType, NullType})
    [] e.op = "Less" -> ~Fits(t[1], t[2], {AnyType, NullType})
    [] e.op \in OfStrings -> \E i \in 1..2 : Expects(Type("String"), t[i])
    [] e.op = "In" -> Expects(AnyList, t[2])
    [] e.op = "Index" ->
         \/ Expects(Integer, t[2])
         \/ ~IsList(t[1]) /\ t[1].base \notin {"Any", "Null", "Map", "String"}
    [] e.op = "Slice" ->
         \/ \E i \in 2..Len(t) : Expects(Integer, t[i])
         \/ ~IsList(t[1]) /\ t[1].base \notin {"Any", "Null", "String"}
    [] e.op = "Case" -> \E i \in 1..(Len(t) - 1) : i % 2 = 1 /\ Expects(Boolean, t[i])
    [] e.op \in DOMAIN Builtins ->
         /\ \E sig \in Builtins[e.op] : TakesCount(sig, Len(t))
         /\ Overloads(e.op, t) = {}
    [] OTHER -> FALSE

(* check_expr: a WHERE is checked with the types of its scope, and once    *)
(* more, with the expression it belongs to, with the types around it.      *)
RECURSIVE Mismatch(_, _)

Mismatch(e, env) ==
  LET local == LocalTypes(e, env)
      n     == Len(e.outer)
  IN  \/ \E i \in 1..n : Mismatch(e.outer[i], env)
      \/ \E i \in 1..Len(e.inner) :
            Mismatch(e.inner[i], IF i <= e.maps THEN env ELSE local)
      \/ \E pred \in Where(e) : \/ Expects(Boolean, Infer(pred, local))
                                \/ Expects(Boolean, Infer(pred, env))
      \/ e.kind \in {"OverList", "Reduce"} /\ Expects(AnyList, Infer(e.outer[n], env))
      \/ e.kind = "Composed" /\ Clashes(e, InferAll(e.outer, env))
=============================================================================
