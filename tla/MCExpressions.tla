--------------------------- MODULE MCExpressions ----------------------------
(***************************************************************************)
(* Expressions for used_vars, up to three scopes deep, and what they read  *)
(* when they are evaluated: names are looked up in the scopes around them, *)
(* innermost first, and in the row last.                                   *)
(***************************************************************************)
EXTENDS UsedVars, ExpressionSemantics

CONSTANT RowNames   \* the columns of the rows an expression is evaluated for

(* The columns looked up by e where the names in local are bound around    *)
(* it.  A comprehension over a pattern finds the paths that start and end  *)
(* where its names that are bound already say, and binds the others.       *)
RECURSIVE LookedUp(_, _)
LookedUp(e, local) ==
  LET outer == UNION {LookedUp(e.outer[i], local) : i \in 1..Len(e.outer)}
      inner == UNION {LookedUp(e.inner[i], local \cup e.names) : i \in 1..Len(e.inner)}
  IN  outer \cup inner \cup
        (CASE e.kind \in {"Variable", "PatternExpression"} -> e.names \ local
           [] e.kind = "PatternComprehension" -> (e.names \cap RowNames) \ local
           [] OTHER -> {})

(* Whether a comprehension over a pattern in e has a column among its      *)
(* names.                                                                  *)
RECURSIVE Correlated(_, _)
Correlated(e, local) ==
  \/ e.kind = "PatternComprehension" /\ (e.names \cap RowNames) \ local # {}
  \/ \E i \in 1..Len(e.outer) : Correlated(e.outer[i], local)
  \/ \E i \in 1..Len(e.inner) : Correlated(e.inner[i], local \cup e.names)

(* "when pred doesn't reference rel_var or dst": a filter may move below   *)
(* the operator that binds a variable if and only if the variable is not   *)
(* looked up in the row.                                                   *)
UsedIsLookedUp == Done => sets = <<LookedUp(expr, {})>>

-----------------------------------------------------------------------------
Perhaps(S) == {<<>>} \cup {<<e>> : e \in S}

(* Every kind of expression over parts from S, binding p or x.             *)
Over(S) ==
  {Composed(parts) : parts \in Perhaps(S) \cup (S \X S)}
    \cup {OverList(v, source, where \o project) :
            v \in {"p", "x"}, source \in S, where \in Perhaps(S), project \in Perhaps(S)}
    \cup {Reduce("p", initial, "x", source, inner) :
            initial \in S, source \in S, inner \in Perhaps(S)}
    \cup {PatternComprehension(names, maps, <<project>>) :
            names \in {{}, {"p"}, {"x"}, {"x", "p"}}, maps \in Perhaps(S), project \in S}
    \cup {PatternExpression(names, maps) :
            names \in {{"x"}, {"x", "y"}, {"p", "y"}}, maps \in Perhaps(S)}

Flat == Over({Variable("x"), Variable("p"), Variable("y")})

(* [p IN x | x + y], all(x IN p WHERE x), reduce(p = x, x IN y | p + x),   *)
(* [(x)-->(p) | p], [(p)-->() | y], (x)-->(p), x + p                       *)
Parts ==
  {OverList("p", Variable("x"), <<Composed(<<Variable("x"), Variable("y")>>)>>),
   OverList("x", Variable("p"), <<Variable("x")>>),
   Reduce("p", Variable("x"), "x", Variable("y"),
          <<Composed(<<Variable("p"), Variable("x")>>)>>),
   PatternComprehension({"x", "p"}, <<>>, <<Variable("p")>>),
   PatternComprehension({"p"}, <<>>, <<Variable("y")>>),
   PatternExpression({"x", "p"}, <<>>),
   Composed(<<Variable("x"), Variable("p")>>)}

Nested == Over(Parts)

Deep == {OverList(v, s, <<e>>) : v \in {"p", "x"}, s \in {Variable("x"), Variable("y")},
                                 e \in Over({Variable("p"), CHOOSE e \in Parts : e.kind = "Reduce"})}

All == Flat \cup Nested \cup Deep

PlainInputs == {e \in All : ~Correlated(e, {})}

CorrelatedInputs == {e \in Flat : Correlated(e, {})}

-----------------------------------------------------------------------------
(* Expressions with types, over a row in which x is an integer and y a     *)
(* list of integers.                                                       *)
Row   == [x |-> <<"Integer", 1>>, y |-> <<"List", <<<<"Integer", 1>>, <<"Integer", 2>>>>>>]
Types == [x |-> Integer, y |-> ListOf(Integer)]

One  == Literal("Integer", 1)
Half == Literal("Float", 1)
Text == Literal("String", 1)
True == Literal("Boolean", TRUE)
Nil  == Literal("Null", 0)

Op1(op, e)    == Operation(op, <<e>>)
Op2(op, e, f) == Operation(op, <<e, f>>)

Leaves == {One, Half, Text, True, Nil, Literal("Map", 0), Variable("x"), Variable("y"),
           Op1("List", Text), Op2("List", One, Half), Op2("List", Text, Nil)}

Unary  == {"Not", "Neg", "IsNull", "List", "size", "tointeger", "tostring", "abs",
           "sqrt", "reverse", "tail", "coalesce"}
Binary == {"And", "Sub", "Div", "Add", "Less", "Eq", "Contains", "In", "Index", "Slice",
           "List", "coalesce", "range"}

(* head is left out: it is inferred to have the type of its argument, the  *)
(* list (infer_function_type), so that head([true]) AND true is reported.  *)
Flatly ==
  {Op1(op, e) : op \in Unary, e \in Leaves}
    \cup {Op2(op, e, f) : op \in Binary, e \in Leaves, f \in Leaves}
    \cup {Operation(op, <<c, e, f>>) : op \in {"Case", "Slice"},
             c \in {True, Nil, Variable("x"), Variable("y")}, e \in Leaves, f \in Leaves}

(* Operators over the values of others.                                    *)
Inside == {Op2("Index", Variable("y"), One), Op2("Add", Variable("x"), Half),
           Op2("Add", Variable("y"), Text), Op1("coalesce", True),
           Op2("coalesce", Nil, Text), Operation("Case", <<True, One, Text>>),
           Op1("tail", Variable("y")), Op2("range", One, Variable("x"))}

(* Lists gone through with p as the item, and what is asked of p.          *)
OfItem == {Variable("p"), Op2("Less", Variable("p"), Variable("x")), Op1("Not", Variable("p")),
           Op2("Add", Variable("p"), Text), Op2("In", Variable("p"), Variable("y"))}

Walked(sources, where, yields) ==
  {ListExpression("comprehension", "p", s, w, f) :
      s \in sources, w \in Perhaps(where), f \in Perhaps(yields)}
    \cup {ListExpression(op, "p", s, <<w>>, <<>>) :
             op \in {"test", "filter"}, s \in sources, w \in where}
    \cup {ListExpression("extract", "p", s, <<>>, <<f>>) : s \in sources, f \in yields}

Lists == {Variable("y"), Op1("List", True), Op2("List", Text, Nil), Variable("x"), Nil}

Scopes == Walked(Lists, OfItem, OfItem)

Reduced == {Reduce("p", i, "q", s, <<Op2(op, Variable("p"), Variable("q"))>>) :
              i \in {One, Text, Nil}, s \in Lists \ {Nil}, op \in {"Add", "Sub", "And"}}

(* Scopes inside of scopes.                                                *)
InScopes ==
  Walked({ListExpression("filter", "p", s, <<w>>, <<>>) :
            s \in {Variable("y"), Op1("List", True)}, w \in {True, Variable("p")}},
         {ListExpression("test", "q", Op1("List", Variable("p")), <<w>>, <<>>) :
            w \in {Variable("q"), Op2("Less", Variable("q"), Variable("x"))}},
         {Op2("Index", ListExpression("extract", "q", Variable("y"), <<>>,
                                      <<Op2(op, Variable("q"), Variable("p"))>>), One) :
            op \in {"Sub", "Add"}})

TypedInputs ==
  Flatly \cup {Op2(op, e, f) : op \in Binary, e \in Inside, f \in Inside}
    \cup Scopes \cup Reduced \cup InScopes
    \cup {Op2(op, e, f) : op \in {"Add", "And", "In"}, e \in {Variable("y"), True},
                         f \in Walked({Variable("y")}, OfItem, OfItem)}

(* Names that are bound again by a scope: [x IN [true] WHERE x].           *)
ShadowedInputs ==
  Flatly \cup {ListExpression(op, "x", s, <<Variable("x")>>, <<>>) :
                 op \in {"comprehension", "test", "filter"}, s \in {Op1("List", True)}}

AllInputs == PlainInputs \cup TypedInputs

-----------------------------------------------------------------------------
(* The walks of optimize.rs and of sema.rs, each over every kind of        *)
(* expression, agree on which names an expression has from outside:        *)
(* whatever is bound, the analysis reports those read that are not.        *)
ReportedIsUsed ==
  Done => \A bound \in SUBSET Vars : Unbound(expr, bound) = sets[1] \ bound

(* An expression has the type inferred for it, unless it is a fault.       *)
InferredFits ==
  Done /\ expr \in TypedInputs =>
    LET value == Evaluate(expr, Row)
    IN  value # Fault => HasType(value, Infer(expr, Types))

(* sema.rs: "Expression types are inferred conservatively".  What can be   *)
(* evaluated is not reported as a type error, also in a scope, where the   *)
(* types around it no longer say what its names are.                       *)
NoFalseMismatch ==
  Done /\ expr \in TypedInputs \cup ShadowedInputs =>
    (Mismatch(expr, Types) => Evaluate(expr, Row) = Fault)
=============================================================================
