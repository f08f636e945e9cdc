------------------------ MODULE ExpressionSemantics -------------------------
(***************************************************************************)
(* A reference meaning for expressions.  A value is a kind and a content;  *)
(* null goes through every operator that is not about null; an operator    *)
(* given a kind it is not defined on is a fault, whatever else is wrong.   *)
(***************************************************************************)
EXTENDS TypeCheck

Null  == <<"Null", 0>>
Fault == <<"Fault", 0>>

Bool(b) == <<"Boolean", b>>

Is(v, kinds) == v[1] \in kinds

Numbers == {"Integer", "Float"}

(* The kinds the i-th operand may have; those of + and < also depend on    *)
(* each other.                                                             *)
Allowed(op, i) ==
  CASE op \in Logical \cup {"Not"} -> {"Boolean"}
    [] op \in Arithmetic \cup {"Neg", "abs", "sqrt"} -> Numbers
    [] op \in OfStrings -> {"String"}
    [] op = "In" /\ i = 2 -> {"List"}
    [] op = "Index" -> IF i = 1 THEN {"List", "String", "Map"} ELSE {"Integer"}
    [] op = "Slice" -> IF i = 1 THEN {"List", "String"} ELSE {"Integer"}
    [] op = "range" -> {"Integer"}
    [] op = "size"  -> {"List", "String", "Map"}
    [] op = "reverse" -> {"List", "String"}
    [] op \in {"tail", "head"} -> {"List"}
    [] op = "Case" -> IF i % 2 = 1 THEN {"Boolean"} ELSE {}
    [] OTHER -> {}

Agree(op, s, t) ==
  \/ Is(s, Numbers) /\ Is(t, Numbers)
  \/ Is(s, {"String"}) /\ Is(t, {"String"})
  \/ op = "Add" /\ (Is(s, {"List"}) \/ Is(t, {"List"}))

Faulty(op, v) ==
  \/ \E i \in 1..Len(v) :
        /\ Allowed(op, i) # {} /\ ~(op = "Case" /\ i = Len(v))
        /\ ~Is(v[i], Allowed(op, i) \cup {"Null"})
  \/ op \in {"Add", "Less"} /\ ~Agree(op, v[1], v[2]) /\ Null \notin {v[1], v[2]}

Listed(v) == IF Is(v, {"List"}) THEN v[2] ELSE <<v>>

Computes(op, v) ==
  CASE op = "And" -> Bool(v[1][2] /\ v[2][2])
    [] op = "Or"  -> Bool(v[1][2] \/ v[2][2])
    [] op = "Not" -> Bool(~v[1][2])
    [] op \in {"Sub", "Mul", "Neg", "abs"} ->
         IF \A i \in 1..Len(v) : Is(v[i], {"Integer"}) THEN <<"Integer", 1>>
         ELSE <<"Float", 1>>
    [] op \in {"Div", "sqrt"} -> <<"Float", 1>>
    [] op = "Add" -> IF Is(v[1], {"List"}) \/ Is(v[2], {"List"})
                     THEN <<"List", Listed(v[1]) \o Listed(v[2])>>
                     ELSE IF Is(v[1], {"String"}) THEN v[1]
                     ELSE IF Is(v[1], {"Integer"}) THEN v[2] ELSE v[1]
    [] op = "Less" -> Bool(v[1][2] < v[2][2])
    [] op = "Eq"   -> Bool(v[1] = v[2])
    [] op = "In"   -> Bool(Contains(v[2][2], v[1]))
    [] op \in OfStrings -> Bool(v[1] = v[2])
    [] op = "Index" -> IF ~Is(v[1], {"List"}) THEN IF Is(v[1], {"Map"}) THEN Null ELSE v[1]
                       ELSE IF v[2][2] + 1 \in 1..Len(v[1][2]) THEN v[1][2][v[2][2] + 1]
                       ELSE Null
    [] op \in {"Slice", "reverse"} -> v[1]
    [] op \in {"size", "tointeger"} -> <<"Integer", 1>>
    [] op = "tostring" -> <<"String", 1>>
    [] op = "tail"  -> <<"List", IF v[1][2] = <<>> THEN <<>> ELSE Tail(v[1][2])>>
    [] op = "head"  -> IF v[1][2] = <<>> THEN Null ELSE Head(v[1][2])
    [] op = "range" -> <<"List", <<v[1], v[2]>>>>

(* CASE WHEN v1 THEN v2 WHEN v3 THEN v4 ... ELSE, the last.                *)
FirstTrue(v) ==
  LET held == {i \in 1..(Len(v) - 1) : i % 2 = 1 /\ v[i] = Bool(TRUE)}
  IN  IF held # {} THEN v[Min(held) + 1] ELSE IF Len(v) % 2 = 1 THEN v[Len(v)] ELSE Null

Operate(op, v) ==
  IF Fault \in Range(v) \/ Faulty(op, v) THEN Fault
  ELSE CASE op = "List"     -> <<"List", v>>
         [] op = "IsNull"   -> Bool(v[1] = Null)
         [] op = "Case"     -> FirstTrue(v)
         [] op = "coalesce" -> LET some == SelectSeq(v, LAMBDA x : x # Null)
                               IN  IF some = <<>> THEN Null ELSE Head(some)
         [] OTHER -> IF Null \in Range(v) THEN Null ELSE Computes(op, v)

-----------------------------------------------------------------------------
RECURSIVE Evaluate(_, _)

(* What the list expression e makes of items: a WHERE that is no Boolean,  *)
(* or a part that is a fault of any item, is a fault, also if the item is  *)
(* left out; a predicate holds of the list if it does of every item.       *)
OverItems(e, row, items) ==
  LET at(x, part) == Evaluate(part, [v \in e.names |-> x] @@ row)
      test(x)  == {at(x, p) : p \in Where(e)}
      yield(x) == IF Yielded(e) = {} THEN x
                  ELSE at(x, CHOOSE p \in Yielded(e) : TRUE)
      kept     == SelectSeq(items, LAMBDA x : test(x) \subseteq {Bool(TRUE)})
  IN  IF \E x \in Range(items) :
           yield(x) = Fault \/ \E b \in test(x) : ~Is(b, {"Boolean", "Null"})
      THEN Fault
      ELSE IF e.op = "test" THEN Bool(Len(kept) = Len(items))
      ELSE <<"List", [i \in 1..Len(kept) |-> yield(kept[i])]>>

Folded(e, row, initial, items) ==
  LET acc(v) == {v2 \in e.names : v2 # e.item}
      step(v, x) ==
        IF v = Fault THEN Fault
        ELSE Evaluate(e.inner[1],
                      [n \in {e.item} |-> x] @@ [n \in acc(v) |-> v] @@ row)
  IN  IF e.inner = <<>> THEN initial ELSE FoldLeft(step, initial, items)

Evaluate(e, row) ==
  LET v == [i \in 1..Len(e.outer) |-> Evaluate(e.outer[i], row)]
      s == v[Len(v)]
  IN  CASE e.kind = "Variable" -> row[CHOOSE n \in e.names : TRUE]
        [] e.kind = "Composed" ->
             IF e.op = "Literal" THEN e.value ELSE Operate(e.op, v)
        [] e.kind \in {"OverList", "Reduce"} ->
             IF Fault \in Range(v) THEN Fault
             ELSE IF s = Null THEN Null
             ELSE IF ~Is(s, {"List"}) THEN Fault
             ELSE IF e.kind = "Reduce" THEN Folded(e, row, v[1], s[2])
             ELSE OverItems(e, row, s[2])

(* The values of a type.  An integer is a value of type Float, as in       *)
(* unify_types.                                                            *)
RECURSIVE HasType(_, _)

HasType(v, type) ==
  \/ type = AnyType \/ v = Null
  \/ IsList(type) /\ Is(v, {"List"})
       /\ \A x \in Range(v[2]) : HasType(x, ItemOf(type))
  \/ v[1] = type.base /\ ~IsList(type)
  \/ type = Type("Float") /\ Is(v, {"Integer"})
=============================================================================
