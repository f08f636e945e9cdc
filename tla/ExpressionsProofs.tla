-------------------------- MODULE ExpressionsProofs -------------------------
(***************************************************************************)
(* Expressions: the laws of their types, for lists of any depth, that make *)
(* the inference of sema conservative; and the walk that collects their    *)
(* variables: it loses none it has found, and ends with the names the      *)
(* expression depends on, for any size and any nesting of scopes.          *)
(***************************************************************************)
EXTENDS Types, UsedVars, TLAPS, FiniteSetTheorems, WellFoundedInduction

LEMMA TypeShape ==
  /\ \A b \in Bases : Type(b) \in CypherType /\ Type(b).depth = 0 /\ Type(b).base = b
  /\ \A t \in CypherType : t = [depth |-> t.depth, base |-> t.base]
                           /\ t.depth \in Nat /\ t.base \in Bases
BY DEF Type, CypherType

LEMMA UnifyCommutes ==
  ASSUME NEW s \in CypherType, NEW t \in CypherType
  PROVE  Unify(s, t) = Unify(t, s)
BY DEF Unify

LEMMA FourTypes ==
  /\ NullType # AnyType /\ NullType # Type("Integer") /\ NullType # Type("Float")
  /\ AnyType # Type("Integer") /\ AnyType # Type("Float")
  /\ Type("Integer") # Type("Float")
BY DEF NullType, AnyType, Type

(* The order in which unify_types meets the items of a list, or the        *)
(* branches of a CASE, makes no difference to the type it finds.           *)
THEOREM UnifyInAnyOrder ==
  ASSUME NEW s \in CypherType, NEW t \in CypherType, NEW u \in CypherType
  PROVE  /\ Unify(s, t) = Unify(t, s)
         /\ Unify(Unify(s, t), u) = Unify(s, Unify(t, u))
<1>1. CASE s = NullType \/ t = NullType \/ u = NullType
  BY <1>1, UnifyCommutes DEF Unify
<1>2. CASE s # NullType /\ t # NullType /\ u # NullType
  <2>1. \A x \in {s, t, u}, y \in {s, t, u} :
          Unify(x, y) = IF x = y THEN x
                        ELSE IF {x, y} = {Type("Integer"), Type("Float")} THEN Type("Float")
                        ELSE AnyType
    BY <1>2 DEF Unify
  <2>2. CASE s \in {Type("Integer"), Type("Float")} /\ t \in {Type("Integer"), Type("Float")}
             /\ u \in {Type("Integer"), Type("Float")}
    BY <2>2, FourTypes DEF Unify
  <2>3. CASE s = t /\ t = u
    BY <2>3 DEF Unify
  <2>4. CASE /\ ~(s = t /\ t = u)
             /\ ~(/\ s \in {Type("Integer"), Type("Float")}
                  /\ t \in {Type("Integer"), Type("Float")}
                  /\ u \in {Type("Integer"), Type("Float")})
    <3>1. Unify(Unify(s, t), u) = AnyType
      BY <1>2, <2>4, FourTypes DEF Unify
    <3>2. Unify(s, Unify(t, u)) = AnyType
      BY <1>2, <2>4, FourTypes DEF Unify
    <3> QED
      BY <3>1, <3>2, UnifyCommutes
  <2> QED
    BY <2>2, <2>3, <2>4
<1> QED
  BY <1>1, <1>2, UnifyCommutes

(* The type of a choice accepts the types it is a choice between, but for  *)
(* an integer taken for a float: the one case in which a parameter that    *)
(* accepts a type need not accept the choice.                              *)
THEOREM UnifiedAcceptsBoth ==
  ASSUME NEW s \in CypherType, NEW t \in CypherType
  PROVE  \/ Accepts(Unify(s, t), s) /\ Accepts(Unify(s, t), t)
         \/ {s, t} = {Type("Integer"), Type("Float")}
<1>1. /\ s.depth \in Nat /\ t.depth \in Nat
      /\ AnyType.base = "Any" /\ AnyType.depth = 0
      /\ NullType.base = "Null" /\ NullType.depth = 0
  BY TypeShape DEF AnyType, NullType, Bases
<1>2. CASE s = NullType
  <2>1. Unify(s, t) = t
    BY <1>2 DEF Unify
  <2> QED
    BY <1>1, <1>2, <2>1 DEF Accepts
<1>3. CASE t = NullType
  <2>1. Unify(s, t) = s
    BY <1>3 DEF Unify
  <2> QED
    BY <1>1, <1>3, <2>1 DEF Accepts
<1>4. CASE s # NullType /\ t # NullType
  <2>1. \/ /\ Unify(s, t) \in {s, AnyType}
           /\ Unify(s, t) = s => s = t \/ s = AnyType
        \/ {s, t} = {Type("Integer"), Type("Float")}
    BY <1>4 DEF Unify
  <2>2. Accepts(AnyType, s) /\ Accepts(AnyType, t)
    BY <1>1 DEF Accepts
  <2>3. Accepts(s, s)
    BY DEF Accepts
  <2> QED
    BY <2>1, <2>2, <2>3
<1> QED
  BY <1>2, <1>3, <1>4

-----------------------------------------------------------------------------
(* What is known less well: a type, inside some of its lists, is Any.      *)
LessKnown(weak, known) == weak.base = "Any" /\ weak.depth <= known.depth

(* check_function_signature, with accepts: a call that fits a signature    *)
(* fits it when less is known of the types of its arguments.  Where the    *)
(* inference gives up and says Any, no error can come of it.               *)
THEOREM LessKnownIsNeverRejected ==
  ASSUME NEW sig, sig.arguments \in Seq(CypherType),
         sig.variadic => Len(sig.arguments) > 0,
         NEW known \in Seq(CypherType), NEW weak \in Seq(CypherType),
         Len(weak) = Len(known),
         \A i \in 1..Len(known) : weak[i] = known[i] \/ LessKnown(weak[i], known[i]),
         TakesTypes(sig, known)
  PROVE  TakesTypes(sig, weak)
<1>1. ASSUME NEW e \in CypherType, NEW k \in CypherType, NEW w \in CypherType,
             LessKnown(w, k), Accepts(e, k)
      PROVE  Accepts(e, w)
  <2>1. e.depth \in Nat /\ k.depth \in Nat /\ w.depth \in Nat
    BY TypeShape
  <2> QED
    BY <1>1, <2>1 DEF Accepts, LessKnown
<1>2. ASSUME NEW i \in 1..Len(weak)
      PROVE  Accepts(ArgumentType(sig, i), weak[i])
  <2>1. known[i] \in CypherType /\ weak[i] \in CypherType
    OBVIOUS
  <2>2. ArgumentType(sig, i) \in CypherType
    <3>1. Len(sig.arguments) \in Nat /\ Len(sig.arguments) > 0
      BY DEF TakesTypes, TakesCount, Minimum
    <3>2. (IF i <= Len(sig.arguments) THEN i ELSE Len(sig.arguments)) \in 1..Len(sig.arguments)
      BY <3>1
    <3> QED
      BY <3>2 DEF ArgumentType
  <2>3. Accepts(ArgumentType(sig, i), known[i])
    BY DEF TakesTypes
  <2> QED
    BY <1>1, <2>1, <2>2, <2>3
<1> QED
  BY <1>2 DEF TakesTypes

-----------------------------------------------------------------------------
(* The walk over an expression.                                            *)
IsSequence(s) == \E S : s \in Seq(S)

LEMMA SequenceFacts ==
  ASSUME NEW s, IsSequence(s)
  PROVE  Len(s) \in Nat /\ DOMAIN s = 1..Len(s)
BY DEF IsSequence

(* A function on an interval is a sequence, whatever its values.           *)
LEMMA FunctionIsSequence ==
  ASSUME NEW n \in Nat, NEW f, f = [i \in 1..n |-> f[i]]
  PROVE  IsSequence(f) /\ Len(f) = n
<1>1. f \in Seq({f[i] : i \in 1..n}) /\ Len(f) = n
  OBVIOUS
<1> QED
  BY <1>1 DEF IsSequence

(* A set that grows is found to be the old one, or more.                   *)
LEMMA AddToKeeps ==
  ASSUME IsSequence(sets), NEW n, NEW names
  PROVE  /\ IsSequence(AddTo(n, names)) /\ Len(AddTo(n, names)) = Len(sets)
         /\ \A i \in 1..Len(sets) : sets[i] \subseteq AddTo(n, names)[i]
<1> DEFINE f == AddTo(n, names)
<1>1. Len(sets) \in Nat /\ DOMAIN sets = 1..Len(sets)
  BY SequenceFacts
<1>2. f = [i \in 1..Len(sets) |-> f[i]]
  BY <1>1 DEF AddTo
<1>3. IsSequence(f) /\ Len(f) = Len(sets)
  BY <1>1, <1>2, FunctionIsSequence
<1>4. \A i \in 1..Len(sets) : sets[i] \subseteq f[i]
  BY <1>1 DEF AddTo
<1> QED
  BY <1>3, <1>4

Kept == \A n \in 1..Depth : n <= Len(sets') => sets[n] \subseteq sets'[n]

LEMMA StepKeeps ==
  ASSUME IsSequence(sets), [Next]_vars
  PROVE  IsSequence(sets)' /\ Kept
<1>0. Len(sets) \in Nat /\ DOMAIN sets = 1..Len(sets)
  BY SequenceFacts
<1>1. CASE ReadVariable \/ InsertNames
  <2>1. \E names : sets' = AddTo(Depth, names)
    BY <1>1 DEF ReadVariable, InsertNames
  <2> QED
    BY <2>1, AddToKeeps DEF Kept, Depth, IsSequence
<1>2. CASE UNCHANGED sets
  BY <1>2 DEF Kept, Depth, IsSequence
<1>3. CASE StartLocal
  <2>1. PICK S : sets \in Seq(S)
    BY DEF IsSequence
  <2>2. sets \in Seq(S \cup {{}})
    BY <2>1
  <2>3. /\ sets' \in Seq(S \cup {{}})
        /\ \A i \in 1..Len(sets) : sets'[i] = sets[i]
    BY <1>3, <2>2 DEF StartLocal
  <2> QED
    BY <2>3 DEF IsSequence, Kept, Depth
<1>4. CASE EndLocal
  <2>1. sets' = [n \in 1..(Depth - 1) |->
                   IF n = Depth - 1 THEN sets[n] \cup (sets[Depth] \ Current.names)
                   ELSE sets[n]]
    BY <1>4 DEF EndLocal
  <2>2. \A n \in 1..(Depth - 1) : sets[n] \subseteq sets'[n]
    BY <2>1
  <2>3. CASE Depth = 0
    <3>1. 1..(Depth - 1) = 1..0
      BY <2>3
    <3>2. IsSequence(sets') /\ Len(sets') = 0
      BY <2>1, <3>1, FunctionIsSequence
    <3> QED
      BY <2>3, <3>2 DEF Kept, IsSequence
  <2>4. CASE Depth # 0
    <3>1. Depth - 1 \in Nat
      BY <1>0, <2>4 DEF Depth
    <3>2. IsSequence(sets') /\ Len(sets') = Depth - 1
      BY <2>1, <3>1, FunctionIsSequence
    <3>3. Kept
      BY <2>2, <3>1, <3>2 DEF Kept
    <3> QED
      BY <3>2, <3>3 DEF IsSequence
  <2> QED
    BY <2>3, <2>4
<1> QED
  BY <1>1, <1>2, <1>3, <1>4
     DEF Next, Work, Returned, vars, Descend, EnterScope, EnterPattern

(* What walk_expr has found for a set stays found: closing a scope takes   *)
(* the names of that scope out of its own set, never out of one around it. *)
THEOREM WalkForgetsNothing == Spec => NothingForgotten
<1>1. Init => IsSequence(sets)
  <2>1. <<{}>> \in Seq({{}})
    OBVIOUS
  <2> QED
    BY <2>1 DEF Init, IsSequence
<1>2. IsSequence(sets) /\ [Next]_vars => IsSequence(sets)'
  BY StepKeeps
<1>3. IsSequence(sets) /\ [Next]_vars =>
        [\A n \in 1..Depth : n <= Len(sets') => sets[n] \subseteq sets'[n]]_vars
  BY StepKeeps DEF Kept
<1> QED
  BY <1>1, <1>2, <1>3, PTL DEF Spec, NothingForgotten

-----------------------------------------------------------------------------
(* What the walk finds.  Exprs is a set of expressions with their parts,   *)
(* and Free[e] are the names an expression depends on, by its structure:   *)
(* those of its parts, less in a scope the names the scope binds.          *)
Walkable(Exprs) ==
  \A e \in Exprs :
    /\ e.kind \in {"Variable", "Composed", "PatternExpression"} \cup Scoping
    /\ e.names \subseteq Vars
    /\ e.outer \in Seq(Exprs) /\ e.inner \in Seq(Exprs)

AllOf(Free, parts) == UNION {Free[parts[i]] : i \in 1..Len(parts)}

FreeNames(Free, Exprs) ==
  /\ Free \in [Exprs -> SUBSET Vars]
  /\ \A e \in Exprs :
       Free[e] = IF e.kind = "Variable" THEN e.names
                 ELSE IF e.kind = "Composed" THEN AllOf(Free, e.outer)
                 ELSE IF e.kind = "PatternExpression" THEN AllOf(Free, e.outer) \cup e.names
                 ELSE AllOf(Free, e.outer) \cup (AllOf(Free, e.inner) \ e.names)

Tasks(Exprs) ==
  {Walk(e) : e \in Exprs} \cup {OpenLocal}
    \cup {Close(names) : names \in SUBSET Vars} \cup {Insert(names) : names \in SUBSET Vars}

(* The sets that are open, and what doing a task in full makes of them.    *)
Stacks == Seq(SUBSET Vars) \ {<<>>}

Added(s, names) == [s EXCEPT ![Len(s)] = @ \cup names]

Merged(s, names) ==
  [n \in 1..(Len(s) - 1) |->
     IF n = Len(s) - 1 THEN s[n] \cup (s[Len(s)] \ names) ELSE s[n]]

Effect(Free, t, s) ==
  IF t.do = "walk" THEN Added(s, Free[t.what])
  ELSE IF t.do = "insert" THEN Added(s, t.names)
  ELSE IF t.do = "open" THEN Append(s, {})
  ELSE Merged(s, t.names)

(* Doing all tasks of an agenda, one after the other, leads from the sets  *)
(* s to the sets u.                                                        *)
Leads(Free, tasks, s, u) ==
  \E S \in Seq(Stacks) :
    /\ Len(S) = Len(tasks) + 1 /\ S[1] = s /\ S[Len(tasks) + 1] = u
    /\ \A i \in 1..Len(tasks) : S[i + 1] = Effect(Free, tasks[i], S[i])

LEMMA StackFacts ==
  ASSUME NEW s \in Stacks
  PROVE  Len(s) \in Nat \ {0} /\ s \in Seq(SUBSET Vars) /\ s[Len(s)] \subseteq Vars
<1>1. s \in Seq(SUBSET Vars) /\ s # <<>>
  BY DEF Stacks
<1>2. Len(s) \in Nat \ {0}
  BY <1>1, SMTT(30)
<1> QED
  BY <1>1, <1>2

LEMMA AddedByName ==
  ASSUME NEW s \in Stacks, NEW names
  PROVE  Added(s, names) = [i \in 1..Len(s) |-> IF i = Len(s) THEN s[i] \cup names ELSE s[i]]
<1>1. Len(s) \in Nat \ {0} /\ DOMAIN s = 1..Len(s)
  BY StackFacts
<1> DEFINE n == Len(s)
<1>2. Added(s, names) = [s EXCEPT ![n] = s[n] \cup names]
  BY DEF Added
<1>3. DOMAIN s = 1..n
  BY <1>1
<1> HIDE DEF n
<1> QED
  BY <1>2, <1>3 DEF n

LEMMA AddedStack ==
  ASSUME NEW s \in Stacks, NEW names \in SUBSET Vars
  PROVE  /\ Added(s, names) \in Stacks /\ Len(Added(s, names)) = Len(s)
         /\ Added(s, names)[Len(s)] = s[Len(s)] \cup names
         /\ \A more : Added(Added(s, names), more) = Added(s, names \cup more)
<1>1. Len(s) \in Nat \ {0} /\ s \in Seq(SUBSET Vars) /\ s[Len(s)] \subseteq Vars
  BY StackFacts
<1> DEFINE a == Added(s, names)
<1>2. a \in Seq(SUBSET Vars) /\ Len(a) = Len(s)
  BY <1>1 DEF Added
<1>3. a # <<>>
  <2>1. Len(a) # Len(<<>>)
    BY <1>1, <1>2
  <2> QED
    BY <2>1
<1>4. a[Len(s)] = s[Len(s)] \cup names
  BY <1>1 DEF Added
<1>5. ASSUME NEW more PROVE Added(a, more) = Added(s, names \cup more)
  <2>1. (s[Len(s)] \cup names) \cup more = s[Len(s)] \cup (names \cup more)
    OBVIOUS
  <2>2. Added(a, more) = [a EXCEPT ![Len(s)] = a[Len(s)] \cup more]
    BY <1>2 DEF Added
  <2> QED
    BY <1>1, <1>2, <1>4, <2>1, <2>2 DEF Added
<1> QED
  BY <1>2, <1>3, <1>4, <1>5 DEF Stacks

LEMMA AddedNothing ==
  ASSUME NEW s \in Stacks
  PROVE  Added(s, {}) = s
BY StackFacts DEF Added

(* A scope that is opened, filled and closed adds what is not its own.     *)
LEMMA ScopeClosed ==
  ASSUME NEW s \in Stacks, NEW found \in SUBSET Vars, NEW names
  PROVE  /\ Append(s, {}) \in Stacks
         /\ Merged(Added(Append(s, {}), found), names) = Added(s, found \ names)
<1>1. Len(s) \in Nat \ {0} /\ s \in Seq(SUBSET Vars)
  BY StackFacts
<1> DEFINE a == Append(s, {})
           b == Added(a, found)
           n == Len(s)
<1>2. /\ a \in Seq(SUBSET Vars) /\ Len(a) = n + 1 /\ a[n + 1] = {}
      /\ \A i \in 1..n : a[i] = s[i]
  BY <1>1
<1>3. a \in Stacks
  <2>1. Len(a) # Len(<<>>)
    BY <1>1, <1>2
  <2>2. a # <<>>
    BY <2>1
  <2> QED
    BY <1>2, <2>2 DEF Stacks
<1>4. Len(b) = n + 1 /\ b[n + 1] = found /\ \A i \in 1..n : b[i] = s[i]
  <2>1. Len(b) = n + 1 /\ b[n + 1] = {} \cup found
    BY <1>2, <1>3, AddedStack
  <2>2. \A i \in 1..n : b[i] = a[i]
    <3>1. b = [i \in 1..(n + 1) |-> IF i = n + 1 THEN a[i] \cup found ELSE a[i]]
      <4>1. a \in Stacks /\ Len(a) = n + 1 /\ b = Added(a, found)
        BY <1>2, <1>3
      <4> HIDE DEF a, b, n
      <4>2. b = [i \in 1..Len(a) |-> IF i = Len(a) THEN a[i] \cup found ELSE a[i]]
        BY <4>1, AddedByName
      <4> QED
        BY <4>1, <4>2
    <3> HIDE DEF a, b
    <3> QED
      BY <1>1, <3>1
  <2> QED
    BY <1>2, <2>1, <2>2
<1>5. Merged(b, names) = [i \in 1..n |-> IF i = n THEN s[i] \cup (found \ names) ELSE s[i]]
  <2>1. Len(b) - 1 = n /\ Len(b) = n + 1
    BY <1>1, <1>4
  <2> HIDE DEF b, a
  <2>2. n \in 1..n
    BY <1>1
  <2> QED
    BY <1>4, <2>1, <2>2 DEF Merged
<1>6. Added(s, found \ names) = [i \in 1..n |-> IF i = n THEN s[i] \cup (found \ names) ELSE s[i]]
  BY AddedByName
<1> QED
  BY <1>3, <1>5, <1>6
-----------------------------------------------------------------------------
LEMMA LeadsNowhere ==
  ASSUME NEW Free, NEW s \in Stacks
  PROVE  Leads(Free, <<>>, s, s)
<1> DEFINE S == <<s>>
<1>1. S \in Seq(Stacks) /\ Len(S) = 1 /\ S[1] = s
  OBVIOUS
<1>2. Len(<<>>) = 0
  OBVIOUS
<1> HIDE DEF S
<1> QED
  BY <1>1, <1>2 DEF Leads

LEMMA LeadsByOne ==
  ASSUME NEW Free, NEW t, NEW s \in Stacks, Effect(Free, t, s) \in Stacks
  PROVE  Leads(Free, <<t>>, s, Effect(Free, t, s))
<1> DEFINE u == Effect(Free, t, s)
           S == <<s, u>>
<1>1. S \in Seq(Stacks) /\ Len(S) = 2 /\ S[1] = s /\ S[2] = u
  OBVIOUS
<1>2. Len(<<t>>) = 1 /\ <<t>>[1] = t
  OBVIOUS
<1> HIDE DEF S
<1>3. \A i \in 1..1 : S[i + 1] = Effect(Free, <<t>>[i], S[i])
  <2>1. S[1 + 1] = Effect(Free, <<t>>[1], S[1])
    BY <1>1, <1>2
  <2> QED
    BY <2>1
<1> HIDE DEF u
<1> QED
  BY <1>1, <1>2, <1>3 DEF Leads, u

LEMMA LeadsOn ==
  ASSUME NEW Free, NEW K, NEW tasks \in Seq(K), NEW more \in Seq(K), NEW s, NEW u, NEW w,
         Leads(Free, tasks, s, u), Leads(Free, more, u, w)
  PROVE  Leads(Free, tasks \o more, s, w)
<1> DEFINE m == Len(tasks)
           n == Len(more)
           both == tasks \o more
<1>1. PICK S \in Seq(Stacks) :
        /\ Len(S) = m + 1 /\ S[1] = s /\ S[m + 1] = u
        /\ \A i \in 1..m : S[i + 1] = Effect(Free, tasks[i], S[i])
  BY DEF Leads
<1>2. PICK T \in Seq(Stacks) :
        /\ Len(T) = n + 1 /\ T[1] = u /\ T[n + 1] = w
        /\ \A i \in 1..n : T[i + 1] = Effect(Free, more[i], T[i])
  BY DEF Leads
<1>3. /\ m \in Nat /\ n \in Nat /\ Len(both) = m + n
      /\ \A i \in 1..m : both[i] = tasks[i]
      /\ \A i \in 1..n : both[m + i] = more[i]
  OBVIOUS
<1> HIDE DEF m, n, both
<1> DEFINE R == [i \in 1..(m + n + 1) |-> IF i <= m THEN S[i] ELSE T[i - m]]
<1>4. \A i \in 1..(m + n + 1) : R[i] \in Stacks
  <2> SUFFICES ASSUME NEW i \in 1..(m + n + 1) PROVE R[i] \in Stacks
    OBVIOUS
  <2>1. CASE i <= m
    <3>1. i \in 1..(m + 1)
      BY <1>3, <2>1
    <3> QED
      BY <1>1, <2>1, <3>1
  <2>2. CASE ~(i <= m)
    <3>1. i - m \in 1..(n + 1)
      BY <1>3, <2>2
    <3> QED
      BY <1>2, <2>2, <3>1
  <2> QED
    BY <2>1, <2>2
<1>5. R \in Seq(Stacks) /\ Len(R) = m + n + 1
  BY <1>3, <1>4
<1>6. \A i \in 1..(m + n + 1) : R[i] = IF i <= m THEN S[i] ELSE T[i - m]
  OBVIOUS
<1> HIDE DEF R
<1>7. R[1] = s /\ R[m + n + 1] = w
  <2>1. R[m + n + 1] = w
    <3>1. m + n + 1 \in 1..(m + n + 1) /\ ~(m + n + 1 <= m) /\ (m + n + 1) - m = n + 1
      BY <1>3
    <3> QED
      BY <1>2, <1>6, <3>1
  <2>2. CASE m = 0
    <3>1. 1 \in 1..(m + n + 1) /\ ~(1 <= m) /\ 1 - m = 1 /\ m + 1 = 1
      BY <1>3, <2>2
    <3> QED
      BY <1>1, <1>2, <1>6, <2>1, <3>1
  <2>3. CASE m # 0
    <3>1. 1 \in 1..(m + n + 1) /\ 1 <= m
      BY <1>3, <2>3
    <3> QED
      BY <1>1, <1>6, <2>1, <3>1
  <2> QED
    BY <2>2, <2>3
<1>8. ASSUME NEW i \in 1..(m + n)
      PROVE  R[i + 1] = Effect(Free, both[i], R[i])
  <2>1. i \in 1..(m + n + 1) /\ i + 1 \in 1..(m + n + 1)
    BY <1>3
  <2>2. CASE i + 1 <= m
    <3>1. i \in 1..m /\ i <= m
      BY <1>3, <2>2
    <3> QED
      BY <1>1, <1>3, <1>6, <2>1, <2>2, <3>1
  <2>3. CASE i = m
    <3>1. i \in 1..m /\ i <= m /\ ~(i + 1 <= m) /\ (i + 1) - m = 1
      BY <1>3, <2>3
    <3>2. R[i + 1] = u
      BY <1>2, <1>6, <2>1, <3>1
    <3>3. R[i] = S[i] /\ both[i] = tasks[i] /\ S[i + 1] = u
      BY <1>1, <1>3, <1>6, <2>1, <2>3, <3>1
    <3> QED
      BY <1>1, <3>1, <3>2, <3>3
  <2>4. CASE ~(i <= m)
    <3>1. i - m \in 1..n /\ ~(i + 1 <= m) /\ (i + 1) - m = (i - m) + 1 /\ m + (i - m) = i
      BY <1>3, <2>4
    <3>2. R[i + 1] = T[(i - m) + 1] /\ R[i] = T[i - m]
      BY <1>6, <2>1, <2>4, <3>1
    <3>3. both[i] = more[i - m]
      BY <1>3, <3>1
    <3> QED
      BY <1>2, <3>1, <3>2, <3>3
  <2> QED
    BY <1>3, <2>2, <2>3, <2>4
<1> QED
  BY <1>3, <1>5, <1>7, <1>8 DEF Leads, both

(* The first task of an agenda, and what is left of it.                    *)
LEMMA LeadsFirst ==
  ASSUME NEW Free, NEW K, NEW tasks \in Seq(K), tasks # <<>>, NEW s, NEW u,
         Leads(Free, tasks, s, u)
  PROVE  /\ s \in Stacks /\ Effect(Free, Head(tasks), s) \in Stacks
         /\ Leads(Free, Tail(tasks), Effect(Free, Head(tasks), s), u)
<1> DEFINE n == Len(tasks)
           rest == Tail(tasks)
           e == Effect(Free, Head(tasks), s)
<1>1. PICK S \in Seq(Stacks) :
        /\ Len(S) = n + 1 /\ S[1] = s /\ S[n + 1] = u
        /\ \A i \in 1..n : S[i + 1] = Effect(Free, tasks[i], S[i])
  BY DEF Leads
<1>2. /\ n \in Nat \ {0} /\ Head(tasks) = tasks[1] /\ Len(rest) = n - 1
      /\ \A i \in 1..(n - 1) : rest[i] = tasks[i + 1]
  OBVIOUS
<1> HIDE DEF n, rest, e
<1> DEFINE R == Tail(S)
<1>3. /\ R \in Seq(Stacks) /\ Len(R) = n
      /\ \A i \in 1..n : R[i] = S[i + 1]
  <2>1. S # <<>>
    <3>1. Len(S) # Len(<<>>)
      BY <1>1, <1>2
    <3> QED
      BY <3>1
  <2> QED
    BY <1>1, <1>2, <2>1
<1> HIDE DEF R
<1>4. S[2] = e /\ S[1] = s
  <2>1. 1 \in 1..n /\ 1 + 1 = 2
    BY <1>2
  <2>2. S[1 + 1] = Effect(Free, tasks[1], S[1])
    BY <1>1, <2>1
  <2> QED
    BY <1>1, <1>2, <2>2 DEF e
<1>5. s \in Stacks /\ e \in Stacks
  <2>1. 1 \in 1..(n + 1) /\ 2 \in 1..(n + 1)
    BY <1>2
  <2> QED
    BY <1>1, <1>4, <2>1
<1>6. R[1] = e /\ R[n] = u
  <2>1. 1 \in 1..n /\ n \in 1..n /\ 1 + 1 = 2
    BY <1>2
  <2> QED
    BY <1>1, <1>3, <1>4, <2>1
<1>7. ASSUME NEW i \in 1..(n - 1) PROVE R[i + 1] = Effect(Free, rest[i], R[i])
  <2>1. i \in 1..n /\ i + 1 \in 1..n
    BY <1>2
  <2> QED
    BY <1>1, <1>2, <1>3, <2>1
<1>8. (n - 1) + 1 = n
  BY <1>2
<1>9. Leads(Free, rest, e, u)
  BY <1>2, <1>3, <1>6, <1>7, <1>8 DEF Leads
<1> QED
  BY <1>5, <1>9 DEF e, rest

LEMMA LeadsTo ==
  ASSUME NEW Free, NEW s, NEW u, Leads(Free, <<>>, s, u)
  PROVE  s = u
<1>1. Len(<<>>) = 0
  OBVIOUS
<1> QED
  BY <1>1 DEF Leads

(* The parts of an expression are walked one by one.                       *)
LEMMA WalksAgenda ==
  ASSUME NEW Exprs, NEW parts \in Seq(Exprs)
  PROVE  /\ Walks(parts) \in Seq({Walk(e) : e \in Exprs}) /\ Len(Walks(parts)) = Len(parts)
         /\ \A i \in 1..Len(parts) : Walks(parts)[i] = Walk(parts[i])
BY DEF Walks

LEMMA LeadsThroughParts ==
  ASSUME NEW Free, NEW Exprs, Free \in [Exprs -> SUBSET Vars], NEW parts \in Seq(Exprs),
         NEW s \in Stacks
  PROVE  Leads(Free, Walks(parts), s, Added(s, AllOf(Free, parts)))
<1> DEFINE n == Len(parts)
           upto(i) == UNION {Free[parts[j]] : j \in 1..i}
           S == [i \in 1..(n + 1) |-> Added(s, upto(i - 1))]
<1>1. n \in Nat /\ \A i \in 1..n : parts[i] \in Exprs /\ Free[parts[i]] \subseteq Vars
  OBVIOUS
<1>2. ASSUME NEW i \in 0..n PROVE upto(i) \in SUBSET Vars
  BY <1>1
<1>3. ASSUME NEW i \in 1..n PROVE upto(i) = upto(i - 1) \cup Free[parts[i]]
  <2>1. \A j : j \in 1..i <=> j \in 1..(i - 1) \/ j = i
    BY <1>1
  <2> QED
    BY <2>1
<1>4. AllOf(Free, parts) = upto(n)
  BY DEF AllOf
<1>5. upto(0) = {}
  OBVIOUS
<1> HIDE DEF upto
<1>6. \A i \in 0..n : Added(s, upto(i)) \in Stacks
  BY <1>2, AddedStack
<1>7. \A i \in 1..(n + 1) : i - 1 \in 0..n
  BY <1>1
<1>8. S \in Seq(Stacks) /\ Len(S) = n + 1 /\ \A i \in 1..(n + 1) : S[i] = Added(s, upto(i - 1))
  BY <1>1, <1>6, <1>7
<1> HIDE DEF S
<1>9. S[1] = s
  <2>1. 1 \in 1..(n + 1) /\ 1 - 1 = 0
    BY <1>1
  <2>2. S[1] = Added(s, upto(0))
    BY <1>8, <2>1
  <2> QED
    BY <1>5, <2>2, AddedNothing
<1>10. S[n + 1] = Added(s, AllOf(Free, parts))
  <2>1. n + 1 \in 1..(n + 1) /\ (n + 1) - 1 = n
    BY <1>1
  <2> QED
    BY <1>4, <1>8, <2>1
<1>11. ASSUME NEW i \in 1..n PROVE S[i + 1] = Effect(Free, Walks(parts)[i], S[i])
  <2>1. i \in 1..(n + 1) /\ i + 1 \in 1..(n + 1) /\ (i + 1) - 1 = i /\ i - 1 \in 0..n
    BY <1>1
  <2>2. S[i + 1] = Added(s, upto(i)) /\ S[i] = Added(s, upto(i - 1))
    BY <1>8, <2>1
  <2>3. Effect(Free, Walk(parts[i]), S[i]) = Added(S[i], Free[parts[i]])
    BY DEF Effect, Walk, Task
  <2>4. upto(i - 1) \in SUBSET Vars
    BY <1>2, <2>1
  <2>5. Added(Added(s, upto(i - 1)), Free[parts[i]]) = Added(s, upto(i - 1) \cup Free[parts[i]])
    BY <2>4, AddedStack
  <2>6. Walks(parts)[i] = Walk(parts[i])
    BY WalksAgenda
  <2> QED
    BY <1>3, <2>2, <2>3, <2>5, <2>6
<1>12. Len(Walks(parts)) = n
  BY WalksAgenda
<1> HIDE DEF n
<1> QED
  BY <1>8, <1>9, <1>10, <1>11, <1>12 DEF Leads

LEMMA TasksOfWalk ==
  ASSUME NEW Exprs, NEW parts \in Seq(Exprs), NEW names \in SUBSET Vars
  PROVE  /\ Walks(parts) \in Seq(Tasks(Exprs))
         /\ <<OpenLocal>> \in Seq(Tasks(Exprs))
         /\ <<Close(names)>> \in Seq(Tasks(Exprs)) /\ <<Insert(names)>> \in Seq(Tasks(Exprs))
<1>1. \A e \in Exprs : Walk(e) \in Tasks(Exprs)
  BY DEF Tasks
<1>2. /\ OpenLocal \in Tasks(Exprs) /\ Close(names) \in Tasks(Exprs)
      /\ Insert(names) \in Tasks(Exprs)
  BY DEF Tasks
<1>3. Walks(parts) \in Seq(Tasks(Exprs))
  BY <1>1 DEF Walks
<1> QED
  BY <1>2, <1>3

(* The scope of a comprehension, after what is done before it.             *)
LEMMA LeadsThroughScope ==
  ASSUME NEW Free, NEW Exprs, Free \in [Exprs -> SUBSET Vars], NEW parts \in Seq(Exprs),
         NEW first \in Stacks, NEW s \in Stacks, NEW names \in SUBSET Vars,
         NEW before \in Seq(Tasks(Exprs)), Leads(Free, before, first, s)
  PROVE  Leads(Free, before \o <<OpenLocal>> \o Walks(parts) \o <<Close(names)>>, first,
               Added(s, AllOf(Free, parts) \ names))
<1> DEFINE found == AllOf(Free, parts)
           local == Append(s, {})
           full == Added(local, found)
           K == Tasks(Exprs)
<1>1. found \in SUBSET Vars
  BY DEF AllOf
<1>2. local \in Stacks /\ Merged(full, names) = Added(s, found \ names)
  <2> HIDE DEF found
  <2> QED
    BY <1>1, ScopeClosed
<1>3. full \in Stacks /\ Added(s, found \ names) \in Stacks
  <2> HIDE DEF found, local
  <2>1. full \in Stacks
    BY <1>1, <1>2, AddedStack
  <2>2. found \ names \in SUBSET Vars
    BY <1>1
  <2> QED
    BY <2>1, <2>2, AddedStack
<1>4. Effect(Free, OpenLocal, s) = local /\ Effect(Free, Close(names), full) = Merged(full, names)
  BY DEF Effect, OpenLocal, Close, Task
<1>5. Leads(Free, Walks(parts), local, full)
  BY <1>2, LeadsThroughParts
<1> HIDE DEF found, local, full
<1>6. Leads(Free, <<OpenLocal>>, s, local)
  BY <1>2, <1>4, LeadsByOne
<1>7. Leads(Free, <<Close(names)>>, full, Added(s, found \ names))
  BY <1>2, <1>3, <1>4, LeadsByOne
<1>8. /\ <<OpenLocal>> \in Seq(K) /\ <<Close(names)>> \in Seq(K) /\ Walks(parts) \in Seq(K)
  BY TasksOfWalk
<1> HIDE DEF K
<1>9. /\ before \o <<OpenLocal>> \in Seq(K)
      /\ before \o <<OpenLocal>> \o Walks(parts) \in Seq(K)
  BY <1>8 DEF K
<1>10. Leads(Free, before \o <<OpenLocal>>, first, local)
  BY <1>6, <1>8, LeadsOn DEF K
<1>11. Leads(Free, before \o <<OpenLocal>> \o Walks(parts), first, full)
  BY <1>5, <1>8, <1>9, <1>10, LeadsOn
<1> QED
  BY <1>7, <1>8, <1>9, <1>11, LeadsOn DEF found

-----------------------------------------------------------------------------
(* Whatever is still to be done, doing it gives the names the expression   *)
(* depends on, in the one set that is then left.                           *)
WalkInv(Exprs, Free) ==
  /\ expr \in Exprs
  /\ agenda \in Seq(Tasks(Exprs))
  /\ sets \in Stacks
  /\ Leads(Free, agenda, sets, <<Free[expr]>>)

LEMMA WalkStarts ==
  ASSUME NEW Exprs, NEW Free, Walkable(Exprs), FreeNames(Free, Exprs), Inputs \subseteq Exprs,
         Init
  PROVE  WalkInv(Exprs, Free)
<1>1. expr \in Exprs /\ agenda = <<Walk(expr)>> /\ sets = <<{}>>
  BY DEF Init
<1>2. agenda \in Seq(Tasks(Exprs))
  BY <1>1 DEF Tasks
<1>3. <<{}>> \in Stacks /\ Len(<<{}>>) = 1 /\ <<{}>>[1] = {}
  BY DEF Stacks
<1>4. Free[expr] \in SUBSET Vars
  BY <1>1 DEF FreeNames
<1>5. Effect(Free, Walk(expr), sets) = <<Free[expr]>>
  <2>1. Effect(Free, Walk(expr), sets) = Added(sets, Free[expr])
    BY DEF Effect, Walk, Task
  <2> DEFINE names == Free[expr]
  <2> HIDE DEF names
  <2>2. Added(<<{}>>, names) = [i \in 1..1 |-> names]
    <3>1. Added(<<{}>>, names) =
            [i \in 1..Len(<<{}>>) |-> IF i = Len(<<{}>>) THEN <<{}>>[i] \cup names ELSE <<{}>>[i]]
      BY <1>3, AddedByName
    <3>2. \A i \in 1..1 : i = 1
      OBVIOUS
    <3> QED
      BY <1>3, <3>1, <3>2
  <2>3. [i \in 1..1 |-> names] = <<names>>
    OBVIOUS
  <2> QED
    BY <1>1, <2>1, <2>2, <2>3 DEF names
<1>6. <<Free[expr]>> \in Stacks
  BY <1>4 DEF Stacks
<1>7. Leads(Free, agenda, sets, <<Free[expr]>>)
  BY <1>1, <1>3, <1>5, <1>6, LeadsByOne
<1> QED
  BY <1>1, <1>2, <1>3, <1>7 DEF WalkInv

LEMMA WalkGoesOn ==
  ASSUME NEW Exprs, NEW Free, Walkable(Exprs), FreeNames(Free, Exprs), WalkInv(Exprs, Free),
         [Next]_vars
  PROVE  WalkInv(Exprs, Free)'
<1> DEFINE t == Current
           rest == Tail(agenda)
           last == <<Free[expr]>>
           K == Tasks(Exprs)
<1>1. CASE Returned \/ UNCHANGED vars
  BY <1>1 DEF Returned, vars, WalkInv
<1> SUFFICES ASSUME Work PROVE WalkInv(Exprs, Free)'
  BY <1>1 DEF Next
<1>2. agenda # <<>> /\ expr' = expr
  BY DEF Work, ReadVariable, Descend, EnterScope, EnterPattern, InsertNames, StartLocal,
         EndLocal, Walking, Doing
<1>3. t \in K /\ rest \in Seq(K) /\ expr \in Exprs /\ sets \in Stacks
  BY <1>2 DEF WalkInv, Current
<1>4. Effect(Free, t, sets) \in Stacks /\ Leads(Free, rest, Effect(Free, t, sets), last)
  <2>1. agenda \in Seq(K) /\ Leads(Free, agenda, sets, last)
    BY DEF WalkInv
  <2> HIDE DEF last, K
  <2> QED
    BY <1>2, <2>1, LeadsFirst DEF Current
<1>5. Free \in [Exprs -> SUBSET Vars]
  BY DEF FreeNames
<1> HIDE DEF last, K
<1>6. ASSUME agenda' = rest, sets' = Effect(Free, t, sets)
      PROVE  WalkInv(Exprs, Free)'
  BY <1>2, <1>3, <1>4, <1>6 DEF WalkInv, last, K
<1>7. ASSUME NEW tasks \in Seq(K), Leads(Free, tasks, sets, Effect(Free, t, sets)),
             agenda' = tasks \o rest, UNCHANGED sets
      PROVE  WalkInv(Exprs, Free)'
  <2>1. Leads(Free, tasks \o rest, sets, last)
    BY <1>3, <1>4, <1>7, LeadsOn
  <2>2. tasks \o rest \in Seq(K)
    BY <1>3, <1>7
  <2> QED
    BY <1>2, <1>3, <1>7, <2>1, <2>2 DEF WalkInv, last, K
<1>8. ASSUME NEW kinds, Walking(kinds)
      PROVE  /\ t.what \in Exprs /\ t.what.kind \in kinds
             /\ Effect(Free, t, sets) = Added(sets, Free[t.what])
  <2>1. t.do = "walk" /\ t.what.kind \in kinds
    BY <1>8 DEF Walking
  <2>2. t.what \in Exprs
    BY <1>3, <2>1 DEF K, Tasks, Walk, OpenLocal, Close, Insert, Task
  <2> QED
    BY <2>1, <2>2 DEF Effect
<1>9. ASSUME NEW e \in Exprs
      PROVE  /\ e.names \in SUBSET Vars /\ e.outer \in Seq(Exprs) /\ e.inner \in Seq(Exprs)
             /\ AllOf(Free, e.outer) \in SUBSET Vars /\ AllOf(Free, e.inner) \in SUBSET Vars
  BY <1>5 DEF Walkable, AllOf
<1>10. CASE ReadVariable
  <2>1. Walking({"Variable"})
    BY <1>10 DEF ReadVariable
  <2>2. Free[t.what] = t.what.names
    BY <1>8, <2>1 DEF FreeNames
  <2>3. sets' = Added(sets, t.what.names) /\ agenda' = rest
    BY <1>10 DEF ReadVariable, AddTo, Added, Depth
  <2> QED
    BY <1>6, <1>8, <2>1, <2>2, <2>3
<1>11. CASE Descend
  <2>1. Walking({"Composed"})
    BY <1>11 DEF Descend
  <2> DEFINE e == t.what
  <2>2. e \in Exprs /\ Free[e] = AllOf(Free, e.outer)
    BY <1>8, <2>1 DEF FreeNames
  <2>3. Leads(Free, Walks(e.outer), sets, Effect(Free, t, sets))
    BY <1>3, <1>5, <1>8, <1>9, <2>1, <2>2, LeadsThroughParts
  <2>4. Walks(e.outer) \in Seq(K)
    BY <1>9, <2>2, TasksOfWalk DEF K
  <2> QED
    BY <1>7, <1>11, <2>3, <2>4 DEF Descend
<1>12. CASE EnterPattern
  <2>1. Walking({"PatternExpression"})
    BY <1>12 DEF EnterPattern
  <2> DEFINE e == t.what
             outer == AllOf(Free, e.outer)
             s == Added(sets, outer)
  <2>2. e \in Exprs /\ Free[e] = outer \cup e.names
    BY <1>8, <2>1 DEF FreeNames
  <2>3. /\ outer \in SUBSET Vars /\ e.names \in SUBSET Vars /\ e.outer \in Seq(Exprs)
    BY <1>9, <2>2
  <2>4. Leads(Free, Walks(e.outer), sets, s)
    BY <1>3, <1>5, <2>3, LeadsThroughParts
  <2> HIDE DEF outer
  <2>5. s \in Stacks /\ Added(s, e.names) = Effect(Free, t, sets)
    <3>1. s \in Stacks /\ Added(s, e.names) = Added(sets, outer \cup e.names)
      BY <1>3, <2>3, AddedStack
    <3> QED
      BY <1>8, <2>1, <2>2, <3>1
  <2>6. Effect(Free, Insert(e.names), s) = Added(s, e.names)
    BY DEF Effect, Insert, Task
  <2>7. Leads(Free, <<Insert(e.names)>>, s, Effect(Free, t, sets))
    BY <1>4, <2>5, <2>6, LeadsByOne
  <2>8. Walks(e.outer) \in Seq(K) /\ <<Insert(e.names)>> \in Seq(K)
    BY <2>3, TasksOfWalk DEF K
  <2>9. Leads(Free, Walks(e.outer) \o <<Insert(e.names)>>, sets, Effect(Free, t, sets))
    BY <2>4, <2>7, <2>8, LeadsOn
  <2>10. Walks(e.outer) \o <<Insert(e.names)>> \in Seq(K)
    BY <2>8
  <2>11. agenda' = (Walks(e.outer) \o <<Insert(e.names)>>) \o rest /\ UNCHANGED sets
    BY <1>12 DEF EnterPattern
  <2> QED
    BY <1>7, <2>9, <2>10, <2>11
<1>13. CASE EnterScope
  <2>1. Walking(Scoping)
    BY <1>13 DEF EnterScope
  <2> DEFINE e == t.what
             outer == AllOf(Free, e.outer)
             s == Added(sets, outer)
             tasks == Walks(e.outer) \o <<OpenLocal>> \o Walks(e.inner) \o <<Close(e.names)>>
  <2>2. e \in Exprs /\ Free[e] = outer \cup (AllOf(Free, e.inner) \ e.names)
    BY <1>8, <2>1 DEF FreeNames, Scoping
  <2>3. /\ outer \in SUBSET Vars /\ e.names \in SUBSET Vars
        /\ e.outer \in Seq(Exprs) /\ e.inner \in Seq(Exprs)
    BY <1>9, <2>2
  <2>4. Leads(Free, Walks(e.outer), sets, s)
    BY <1>3, <1>5, <2>3, LeadsThroughParts
  <2>5. /\ Walks(e.outer) \in Seq(K) /\ Walks(e.inner) \in Seq(K)
        /\ <<OpenLocal>> \in Seq(K) /\ <<Close(e.names)>> \in Seq(K)
    BY <2>3, TasksOfWalk DEF K
  <2> HIDE DEF outer, e
  <2>6. /\ s \in Stacks
        /\ Added(s, AllOf(Free, e.inner) \ e.names) = Effect(Free, t, sets)
    <3> DEFINE more == AllOf(Free, e.inner) \ e.names
    <3>1. s \in Stacks /\ Added(s, more) = Added(sets, outer \cup more)
      BY <1>3, <2>3, AddedStack
    <3>2. Effect(Free, t, sets) = Added(sets, Free[e])
      BY <1>8, <2>1 DEF e
    <3> QED
      BY <2>2, <3>1, <3>2
  <2> HIDE DEF s
  <2>7. Leads(Free, tasks, sets, Effect(Free, t, sets))
    <3>1. Leads(Free, tasks, sets, Added(s, AllOf(Free, e.inner) \ e.names))
      BY <1>3, <1>5, <2>3, <2>4, <2>5, <2>6, LeadsThroughScope DEF K
    <3> QED
      BY <2>6, <3>1
  <2>8. tasks \in Seq(K)
    BY <2>5
  <2>9. agenda' = tasks \o rest /\ UNCHANGED sets
    BY <1>13 DEF EnterScope, e
  <2> HIDE DEF tasks
  <2> QED
    BY <1>7, <2>7, <2>8, <2>9
<1>14. CASE InsertNames
  <2>1. Effect(Free, t, sets) = Added(sets, t.names)
    BY <1>14 DEF InsertNames, Doing, Effect
  <2>2. sets' = Added(sets, t.names) /\ agenda' = rest
    BY <1>14 DEF InsertNames, AddTo, Added, Depth
  <2> QED
    BY <1>6, <2>1, <2>2
<1>15. CASE StartLocal
  <2>1. Effect(Free, t, sets) = Append(sets, {})
    BY <1>15 DEF StartLocal, Doing, Effect
  <2>2. sets' = Append(sets, {}) /\ agenda' = rest
    BY <1>15 DEF StartLocal
  <2> QED
    BY <1>6, <2>1, <2>2
<1>16. CASE EndLocal
  <2>1. Effect(Free, t, sets) = Merged(sets, t.names)
    BY <1>16 DEF EndLocal, Doing, Effect
  <2>2. sets' = Merged(sets, t.names) /\ agenda' = rest
    BY <1>16 DEF EndLocal, Merged, Depth
  <2> QED
    BY <1>6, <2>1, <2>2
<1> QED
  BY <1>10, <1>11, <1>12, <1>13, <1>14, <1>15, <1>16 DEF Work
-----------------------------------------------------------------------------
(* Counting what is open.  Induction, of a set of numbers.                 *)
LEMMA LeastOf ==
  ASSUME NEW T, T \subseteq Nat, T # {}
  PROVE  \E x \in T : \A y \in T : ~(y < x)
<1> DEFINE R == {p \in Nat \X Nat : p[1] < p[2]}
<1>1. OpToRel(<, Nat) = {p \in Nat \X Nat : p[1] < p[2]}
  BY DEF OpToRel
<1>2. IsWellFoundedOn(R, Nat)
  BY <1>1, NatLessThanWellFounded
<1> HIDE DEF R
<1>3. PICK x \in T : \A y \in T : ~(<<y, x>> \in R)
  BY <1>2, WFMin
<1> QED
  BY <1>3 DEF R

LEMMA SetInduction ==
  ASSUME NEW T, 0 \in T, \A n \in Nat : n \in T => n + 1 \in T
  PROVE  Nat \subseteq T
<1> SUFFICES ASSUME Nat \ T # {} PROVE FALSE
  OBVIOUS
<1>1. PICK x \in Nat \ T : \A y \in Nat \ T : ~(y < x)
  BY LeastOf
<1>2. x # 0 /\ x - 1 \in Nat /\ x - 1 < x
  BY <1>1
<1>3. x - 1 \in T
  BY <1>1, <1>2
<1> QED
  BY <1>1, <1>2, <1>3

Those(tasks, do, n) == {i \in 1..n : tasks[i].do = do}

LEMMA OneMore ==
  ASSUME NEW tasks, NEW do, NEW n \in Nat
  PROVE  /\ IsFiniteSet(Those(tasks, do, n)) /\ Cardinality(Those(tasks, do, n)) \in Nat
         /\ Cardinality(Those(tasks, do, n + 1)) =
              Cardinality(Those(tasks, do, n)) + (IF tasks[n + 1].do = do THEN 1 ELSE 0)
<1> DEFINE A == Those(tasks, do, n)
           B == Those(tasks, do, n + 1)
<1>1. IsFiniteSet(1..n) /\ A \subseteq 1..n
  BY FS_Interval DEF Those
<1>2. IsFiniteSet(A) /\ Cardinality(A) \in Nat
  BY <1>1, FS_Subset, FS_CardinalityType
<1>3. n + 1 \notin A
  BY <1>1
<1>4. \A i : i \in 1..(n + 1) <=> i \in 1..n \/ i = n + 1
  OBVIOUS
<1>5. CASE tasks[n + 1].do = do
  <2>1. B = A \cup {n + 1}
    BY <1>4, <1>5 DEF Those
  <2> HIDE DEF A, B
  <2>2. Cardinality(A \cup {n + 1}) = Cardinality(A) + 1
    BY <1>2, <1>3, FS_AddElement
  <2> QED
    BY <1>2, <1>5, <2>1, <2>2 DEF A, B
<1>6. CASE tasks[n + 1].do # do
  <2>1. B = A
    BY <1>4, <1>6 DEF Those
  <2> HIDE DEF A, B
  <2> QED
    BY <1>2, <1>6, <2>1 DEF A, B
<1> QED
  BY <1>5, <1>6

LEMMA EffectDepth ==
  ASSUME NEW Exprs, NEW Free, FreeNames(Free, Exprs), NEW t \in Tasks(Exprs), NEW s \in Stacks,
         Effect(Free, t, s) \in Stacks
  PROVE  Len(Effect(Free, t, s)) =
           Len(s) + (IF t.do = "open" THEN 1 ELSE 0) - (IF t.do = "close" THEN 1 ELSE 0)
<1> DEFINE u == Effect(Free, t, s)
<1>1. Len(s) \in Nat \ {0} /\ Len(u) \in Nat \ {0}
  BY StackFacts
<1>2. CASE t.do = "walk"
  <2>1. t.what \in Exprs
    BY <1>2 DEF Tasks, Walk, OpenLocal, Close, Insert, Task
  <2>2. Free[t.what] \in SUBSET Vars
    BY <2>1 DEF FreeNames
  <2>3. Len(u) = Len(s)
    BY <1>2, <2>2, AddedStack DEF Effect
  <2> QED
    BY <1>1, <1>2, <2>3
<1>3. CASE t.do = "insert"
  <2>1. t.names \in SUBSET Vars
    BY <1>3 DEF Tasks, Walk, OpenLocal, Close, Insert, Task
  <2>2. Len(u) = Len(s)
    BY <1>3, <2>1, AddedStack DEF Effect
  <2> QED
    BY <1>1, <1>3, <2>2
<1>4. CASE t.do = "open"
  <2>1. u = Append(s, {})
    BY <1>4 DEF Effect
  <2>2. Len(u) = Len(s) + 1
    BY <2>1, StackFacts
  <2> QED
    BY <1>1, <1>4, <2>2
<1>5. CASE t.do = "close"
  <2>1. u = Merged(s, t.names)
    BY <1>5 DEF Effect
  <2>2. Len(u) = Len(s) - 1
    <3>1. DOMAIN u = 1..(Len(s) - 1)
      BY <2>1 DEF Merged
    <3>2. DOMAIN u = 1..Len(u)
      BY StackFacts
    <3> HIDE DEF u
    <3> QED
      BY <1>1, <3>1, <3>2
  <2> QED
    BY <1>1, <1>5, <2>2
<1>6. t.do \in {"walk", "insert", "open", "close"}
  BY DEF Tasks, Walk, OpenLocal, Close, Insert, Task
<1> QED
  BY <1>2, <1>3, <1>4, <1>5, <1>6

LEMMA WalkCounts ==
  ASSUME NEW Exprs, NEW Free, FreeNames(Free, Exprs), WalkInv(Exprs, Free)
  PROVE  TypeOK
<1> DEFINE N == Len(agenda)
           Opens(n) == Cardinality(Those(agenda, "open", n))
           Closes(n) == Cardinality(Those(agenda, "close", n))
<1>1. N \in Nat /\ \A i \in 1..N : agenda[i] \in Tasks(Exprs)
  BY DEF WalkInv
<1>2. PICK S \in Seq(Stacks) :
        /\ Len(S) = N + 1 /\ S[1] = sets /\ S[N + 1] = <<Free[expr]>>
        /\ \A i \in 1..N : S[i + 1] = Effect(Free, agenda[i], S[i])
  BY DEF WalkInv, Leads
<1>3. \A i \in 1..(N + 1) : S[i] \in Stacks /\ Len(S[i]) \in Nat
  BY <1>1, <1>2, StackFacts
<1>4. \A n \in Nat : Opens(n) \in Nat /\ Closes(n) \in Nat
  BY OneMore
<1>5. Opens(0) = 0 /\ Closes(0) = 0
  <2>1. Those(agenda, "open", 0) = {} /\ Those(agenda, "close", 0) = {}
    BY DEF Those
  <2> QED
    BY <2>1, FS_EmptySet
<1> DEFINE T == {n \in Nat : n <= N => Len(S[n + 1]) = Len(S[1]) + Opens(n) - Closes(n)}
<1>6. 0 \in T
  <2>1. 1 \in 1..(N + 1)
    BY <1>1
  <2>2. Len(S[1]) \in Nat
    BY <1>3, <2>1
  <2>3. Len(S[0 + 1]) = Len(S[1]) + 0 - 0
    BY <2>2
  <2> QED
    BY <1>5, <2>3
<1>7. ASSUME NEW n \in Nat, n \in T PROVE n + 1 \in T
  <2> SUFFICES ASSUME n + 1 <= N
               PROVE  Len(S[(n + 1) + 1]) = Len(S[1]) + Opens(n + 1) - Closes(n + 1)
    OBVIOUS
  <2> DEFINE t == agenda[n + 1]
             before == S[n + 1]
             after == S[(n + 1) + 1]
  <2>1. n <= N /\ n + 1 \in 1..N /\ n + 1 \in 1..(N + 1) /\ (n + 1) + 1 \in 1..(N + 1)
        /\ 1 \in 1..(N + 1)
    BY <1>1
  <2>2. Len(before) = Len(S[1]) + Opens(n) - Closes(n)
    BY <1>7, <2>1
  <2>3. /\ t \in Tasks(Exprs) /\ before \in Stacks /\ after \in Stacks
        /\ after = Effect(Free, t, before)
    BY <1>1, <1>2, <1>3, <2>1
  <2>4. /\ Opens(n + 1) = Opens(n) + (IF t.do = "open" THEN 1 ELSE 0)
        /\ Closes(n + 1) = Closes(n) + (IF t.do = "close" THEN 1 ELSE 0)
    BY OneMore
  <2>5. Len(S[1]) \in Nat /\ Opens(n) \in Nat /\ Closes(n) \in Nat
    BY <1>3, <1>4, <2>1
  <2> HIDE DEF t, before, after, Opens, Closes
  <2>6. Len(after) =
          Len(before) + (IF t.do = "open" THEN 1 ELSE 0) - (IF t.do = "close" THEN 1 ELSE 0)
    BY <2>3, EffectDepth
  <2>7. Len(after) = Len(S[1]) + Opens(n + 1) - Closes(n + 1)
    <3> DEFINE a == IF t.do = "open" THEN 1 ELSE 0
               b == IF t.do = "close" THEN 1 ELSE 0
               l == Len(S[1])
               o == Opens(n)
               c == Closes(n)
    <3>1. a \in Nat /\ b \in Nat /\ l \in Nat /\ o \in Nat /\ c \in Nat
      BY <2>5
    <3>2. Opens(n + 1) = o + a /\ Closes(n + 1) = c + b /\ Len(after) = (l + o - c) + a - b
      BY <2>2, <2>4, <2>6
    <3> HIDE DEF a, b, l, o, c
    <3>3. (l + o - c) + a - b = l + (o + a) - (c + b)
      BY <3>1
    <3> QED
      BY <3>2, <3>3 DEF l
  <2> QED
    BY <2>7 DEF after
<1> HIDE DEF T
<1>8. N \in T
  BY <1>1, <1>6, <1>7, SetInduction
<1>9. 1 = Len(sets) + Opens(N) - Closes(N)
  <2>1. Len(S[N + 1]) = Len(S[1]) + Opens(N) - Closes(N)
    BY <1>1, <1>8 DEF T
  <2>2. Len(<<Free[expr]>>) = 1
    OBVIOUS
  <2> QED
    BY <1>2, <2>1, <2>2
<1>10. Opens(N) = Pending("open") /\ Closes(N) = Pending("close")
  BY DEF Those, Pending
<1>11. sets \in Seq(SUBSET Vars) /\ Len(sets) \in Nat
  BY StackFacts DEF WalkInv
<1>12. Opens(N) \in Nat /\ Closes(N) \in Nat
  BY <1>1, <1>4
<1> HIDE DEF Opens, Closes, N
<1>13. Len(sets) = 1 + Closes(N) - Opens(N)
  BY <1>9, <1>11, <1>12
<1> QED
  BY <1>10, <1>11, <1>13 DEF TypeOK, Depth

(* The walk of any expression keeps variables only, and has as many local  *)
(* sets open as it has scopes to close.                                    *)
THEOREM WalkTyped ==
  ASSUME NEW Exprs, NEW Free, Walkable(Exprs), FreeNames(Free, Exprs), Inputs \subseteq Exprs
  PROVE  Spec => []TypeOK
<1>1. Init => WalkInv(Exprs, Free)
  BY WalkStarts
<1>2. WalkInv(Exprs, Free) /\ [Next]_vars => WalkInv(Exprs, Free)'
  BY WalkGoesOn
<1>3. WalkInv(Exprs, Free) => TypeOK
  BY WalkCounts
<1> QED
  BY <1>1, <1>2, <1>3, PTL DEF Spec

(* used_vars returns the names an expression depends on: walk_expr, with   *)
(* one set for each scope that is open, takes the names of a scope out of  *)
(* what was found in it and out of nothing else, in whatever way scopes    *)
(* stand in each other or bind the same name.                              *)
FindsFreeNames(Free) == Done => sets = <<Free[expr]>>

THEOREM WalkFindsFreeNames ==
  ASSUME NEW Exprs, NEW Free, Walkable(Exprs), FreeNames(Free, Exprs), Inputs \subseteq Exprs
  PROVE  Spec => []FindsFreeNames(Free)
<1>1. Init => WalkInv(Exprs, Free)
  BY WalkStarts
<1>2. WalkInv(Exprs, Free) /\ [Next]_vars => WalkInv(Exprs, Free)'
  BY WalkGoesOn
<1>3. WalkInv(Exprs, Free) => FindsFreeNames(Free)
  BY LeadsTo DEF WalkInv, FindsFreeNames, Done
<1> QED
  BY <1>1, <1>2, <1>3, PTL DEF Spec
=============================================================================
