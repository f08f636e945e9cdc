------------------------------- MODULE Types --------------------------------
(***************************************************************************)
(* CypherType of src/src/sema.rs: which type accepts which, what a choice  *)
(* between types is, and the signatures of functions.                      *)
(*                                                                         *)
(* A type is a base type in some number of lists: List<List<Integer>> has  *)
(* depth 2.                                                                *)
(***************************************************************************)
EXTENDS Integers, Sequences

Bases == {"Any", "Null", "Boolean", "Integer", "Float", "String",
          "Map", "Node", "Relationship", "Path", "Point"}

CypherType == [depth : Nat, base : Bases]

Type(base) == [depth |-> 0, base |-> base]

ListOf(type) == [type EXCEPT !.depth = @ + 1]
ItemOf(type) == [type EXCEPT !.depth = @ - 1]

IsList(type) == type.depth > 0

AnyType  == Type("Any")
NullType == Type("Null")

(* is_numeric.                                                             *)
IsNumeric(type) == type \in {AnyType, Type("Integer"), Type("Float")}

(* accepts: equal types, and, inside as many lists as both are, Any on     *)
(* either side or Null on the side of the actual type.                     *)
Accepts(expected, actual) ==
  \/ expected = actual
  \/ expected.base = "Any" /\ expected.depth <= actual.depth
  \/ actual.base \in {"Any", "Null"} /\ actual.depth <= expected.depth

(* The arms of unify_types.                                                *)
(* Bug: an integer wins over a float.                                      *)
BugUnify(s, t) ==
  IF s = NullType THEN t
  ELSE IF t = NullType \/ s = t THEN s
  ELSE IF {s, t} = {Type("Integer"), Type("Float")} THEN Type("Integer")
  ELSE AnyType

Unify(s, t) ==
  IF s = NullType THEN t
  ELSE IF t = NullType \/ s = t THEN s
  ELSE IF {s, t} = {Type("Integer"), Type("Float")} THEN Type("Float")
  ELSE AnyType

-----------------------------------------------------------------------------
(* FunctionSignature, and signatures of the shapes in the table of built-  *)
(* in functions: one for any argument, overloads, several arities, any     *)
(* number of arguments.                                                    *)
Signature(arguments, variadic, result) ==
  [arguments |-> arguments, variadic |-> variadic, result |-> result]

Exact(arguments, result) == Signature(arguments, FALSE, result)

AnyList == ListOf(AnyType)

Builtins ==
  LET int == Type("Integer")
      flt == Type("Float")
      str == Type("String")
  IN [tointeger |-> {Exact(<<AnyType>>, int)},
      tostring  |-> {Exact(<<AnyType>>, str)},
      size      |-> {Exact(<<t>>, int) : t \in {str, AnyList, Type("Map")}},
      abs       |-> {Exact(<<t>>, t) : t \in {int, flt}},
      sqrt      |-> {Exact(<<t>>, flt) : t \in {int, flt}},
      reverse   |-> {Exact(<<t>>, t) : t \in {str, AnyList}},
      tail      |-> {Exact(<<AnyList>>, AnyList)},
      head      |-> {Exact(<<AnyList>>, AnyType)},
      coalesce  |-> {Signature(<<AnyType>>, TRUE, AnyType)},
      range     |-> {Exact(<<int, int>>, ListOf(int)),
                     Exact(<<int, int, int>>, ListOf(int))}]

(* signature_accepts_arity, signature_argument.                            *)
Minimum(sig) ==
  IF sig.variadic /\ Len(sig.arguments) > 1 THEN Len(sig.arguments) - 1
                                            ELSE Len(sig.arguments)

TakesCount(sig, n) ==
  n >= Minimum(sig) /\ (sig.variadic \/ n = Len(sig.arguments))

ArgumentType(sig, i) ==
  sig.arguments[IF i <= Len(sig.arguments) THEN i ELSE Len(sig.arguments)]

TakesTypes(sig, actual) ==
  /\ TakesCount(sig, Len(actual))
  /\ \A i \in 1..Len(actual) : Accepts(ArgumentType(sig, i), actual[i])

(* Which signatures take arguments of these types.                         *)
Overloads(name, actual) == {sig \in Builtins[name] : TakesTypes(sig, actual)}
=============================================================================
