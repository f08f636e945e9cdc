--------------------------- MODULE PlannerProofs ----------------------------
(***************************************************************************)
(* The names plan_branch keeps are those the plan it builds binds, and     *)
(* those analyze_branch has types for, for every query over any names: any *)
(* clauses in any number, patterns of any length, FOREACH in FOREACH to    *)
(* any depth.                                                              *)
(***************************************************************************)
EXTENDS Agreement, TLAPS, WellFoundedInduction

(* What queries are made of.  Sets, so that a FOREACH may have a body of   *)
(* the same clauses.                                                       *)
CONSTANTS AnyClause, AnyPattern, AnyLink, AnyItem

AnyVar == UserVars \cup {NoVar}

HasSchemaCommand(clauses) ==
  \E i \in 1..Len(clauses) : clauses[i].kind = "SchemaCommand"

(* The shape of parsed queries (ast.rs), with the one fact of the grammar  *)
(* it takes: a schema command is a statement of its own (cypher.pest,      *)
(* statement).  The names that are made up are none of the query.          *)
ProperLinks ==
  \A l \in AnyLink : l.rel.var \in AnyVar /\ l.node.var \in AnyVar

ProperPatterns ==
  \A p \in AnyPattern :
     p.path \in AnyVar /\ p.anchor.var \in AnyVar /\ p.chain \in Seq(AnyLink)

ProperItems == \A t \in AnyItem : t.expr \in AnyVar /\ t.alias \in AnyVar

ProperClauses ==
  \A c \in AnyClause :
    /\ c.kind = "Match" => c.hints \in Nat
    /\ c.kind \in {"Match", "Create", "Merge"} => c.patterns \in Seq(AnyPattern)
    /\ c.kind \in {"Call", "LoadCsv", "Unwind", "Start"} => c.binds \subseteq UserVars
    /\ c.kind = "Call" => Len(c.pred) \in Nat
    /\ c.kind = "With" => c.items \in Seq(AnyItem)
    /\ c.kind = "Foreach" => c.body \in Seq(AnyClause) /\ ~HasSchemaCommand(c.body)

ProperQueries ==
  \A q \in Queries :
    /\ q.clauses \in Seq(AnyClause)
    /\ HasSchemaCommand(q.clauses) => Len(q.clauses) = 1

ProperNames ==
  /\ UserVars \subseteq Vars
  /\ \A n \in Nat : Fresh("node", n) \notin UserVars /\ Fresh("rel", n) \notin UserVars

Proper == /\ ProperLinks /\ ProperPatterns /\ ProperItems
          /\ ProperClauses /\ ProperQueries /\ ProperNames

-----------------------------------------------------------------------------
(* Sequences of operators, whatever operators are.                         *)
IsSequence(s) == \E S : s \in Seq(S)

(* Operators that hide nothing, and the variables they introduce.          *)
Straight(s) == IsSequence(s) /\ \A i \in 1..Len(s) : ~HidesInput(s[i])

Intros(s) == {v \in Vars : \E i \in 1..Len(s) : v \in s[i].intro}

LEMMA SequenceFacts ==
  ASSUME NEW s, IsSequence(s)
  PROVE  Len(s) \in Nat /\ DOMAIN s = 1..Len(s)
BY DEF IsSequence

LEMMA FunctionIsSequence ==
  ASSUME NEW n \in Nat, NEW f, f = [i \in 1..n |-> f[i]]
  PROVE  IsSequence(f) /\ Len(f) = n
<1>1. f \in Seq({f[i] : i \in 1..n}) /\ Len(f) = n
  OBVIOUS
<1> QED
  BY <1>1 DEF IsSequence

LEMMA One ==
  ASSUME NEW x
  PROVE  IsSequence(<<x>>) /\ Len(<<x>>) = 1 /\ <<x>>[1] = x
<1>1. <<x>> \in Seq({x})
  OBVIOUS
<1> QED
  BY <1>1 DEF IsSequence

LEMMA Nothing == IsSequence(<<>>) /\ Len(<<>>) = 0
<1>1. <<>> \in Seq({})
  OBVIOUS
<1> QED
  BY <1>1 DEF IsSequence

LEMMA Concatenated ==
  ASSUME NEW s, NEW t, IsSequence(s), IsSequence(t)
  PROVE  /\ IsSequence(s \o t) /\ Len(s \o t) = Len(s) + Len(t)
         /\ \A i \in 1..Len(s) : (s \o t)[i] = s[i]
         /\ \A i \in 1..Len(t) : (s \o t)[Len(s) + i] = t[i]
<1>1. PICK S : s \in Seq(S)
  BY DEF IsSequence
<1>2. PICK T : t \in Seq(T)
  BY DEF IsSequence
<1>3. s \in Seq(S \cup T) /\ t \in Seq(S \cup T)
  BY <1>1, <1>2
<1>4. s \o t \in Seq(S \cup T)
  BY <1>3
<1> QED
  BY <1>3, <1>4 DEF IsSequence

LEMMA Appended ==
  ASSUME NEW s, IsSequence(s), NEW x
  PROVE  /\ IsSequence(Append(s, x)) /\ Len(Append(s, x)) = Len(s) + 1
         /\ \A i \in 1..Len(s) : Append(s, x)[i] = s[i]
         /\ Append(s, x)[Len(s) + 1] = x
<1>1. PICK S : s \in Seq(S)
  BY DEF IsSequence
<1>2. s \in Seq(S \cup {x})
  BY <1>1
<1>3. Append(s, x) \in Seq(S \cup {x})
  BY <1>2
<1> QED
  BY <1>2, <1>3 DEF IsSequence

LEMMA TailFacts ==
  ASSUME NEW s, IsSequence(s), s # <<>>
  PROVE  /\ Len(s) > 0 /\ Head(s) = s[1]
         /\ IsSequence(Tail(s)) /\ Len(Tail(s)) = Len(s) - 1
         /\ \A i \in 1..Len(Tail(s)) : Tail(s)[i] = s[i + 1]
<1>1. PICK S : s \in Seq(S)
  BY DEF IsSequence
<1>2. Tail(s) \in Seq(S)
  BY <1>1
<1> QED
  BY <1>1, <1>2 DEF IsSequence

-----------------------------------------------------------------------------
(* Induction, of a set and not of a predicate.                             *)
LEMMA LeastOf ==
  ASSUME NEW T, T \subseteq Nat, T # {}
  PROVE  \E x \in T : \A y \in T : ~(y < x)
<1> DEFINE R == {p \in Nat \X Nat : p[1] < p[2]}
<1>1. OpToRel(<, Nat) = {p \in Nat \X Nat : p[1] < p[2]}
  BY DEF OpToRel
<1>2. IsWellFoundedOn(R, Nat)
  BY <1>1, NatLessThanWellFounded
<1> HIDE DEF R
<1>3. PICK x \in T : \A y \in T : ~(<<y, x>> \in R)
  BY <1>2, WFMin
<1> QED
  BY <1>3 DEF R

LEMMA SetInduction ==
  ASSUME NEW T, 0 \in T, \A n \in Nat : n \in T => n + 1 \in T
  PROVE  Nat \subseteq T
<1> SUFFICES ASSUME Nat \ T # {} PROVE FALSE
  OBVIOUS
<1>1. PICK x \in Nat \ T : \A y \in Nat \ T : ~(y < x)
  BY LeastOf
<1>2. x # 0 /\ x - 1 \in Nat /\ x - 1 < x
  BY <1>1
<1>3. x - 1 \in T
  BY <1>1, <1>2
<1> QED
  BY <1>1, <1>2, <1>3

-----------------------------------------------------------------------------
(* What a plan binds when operators are put on top.                        *)
LEMMA BoundJoined ==
  ASSUME NEW q, IsSequence(q), NEW r, Straight(r)
  PROVE  BoundVars(q \o r) = BoundVars(q) \cup Intros(r)
<1> DEFINE t == q \o r
           m == Len(q)
           n == Len(r)
<1>1. /\ m \in Nat /\ n \in Nat /\ Len(t) = m + n
      /\ \A i \in 1..m : t[i] = q[i]
      /\ \A i \in 1..n : t[m + i] = r[i]
  BY Concatenated, SequenceFacts DEF Straight
<1>2. \A i \in 1..n : ~HidesInput(r[i])
  BY DEF Straight
<1>3. \A k \in (m + 1)..(m + n) : k - m \in 1..n /\ t[k] = r[k - m]
  <2> SUFFICES ASSUME NEW k \in (m + 1)..(m + n) PROVE k - m \in 1..n /\ t[k] = r[k - m]
    OBVIOUS
  <2>1. k - m \in 1..n /\ m + (k - m) = k
    BY <1>1
  <2> QED
    BY <1>1, <2>1
<1> HIDE DEF t, m, n
<1>4. ASSUME NEW v \in Bound(q, m) PROVE v \in Bound(t, m + n)
  <2>1. PICK j \in 1..m : v \in q[j].intro /\ \A k \in (j + 1)..m : ~HidesInput(q[k])
    BY <1>4 DEF Bound
  <2>2. \A k \in (j + 1)..(m + n) : ~HidesInput(t[k])
    <3> SUFFICES ASSUME NEW k \in (j + 1)..(m + n) PROVE ~HidesInput(t[k])
      OBVIOUS
    <3>1. k \in (j + 1)..m \/ k \in (m + 1)..(m + n)
      BY <1>1
    <3>2. k \in (j + 1)..m => k \in 1..m
      BY <1>1
    <3> QED
      BY <1>1, <1>2, <1>3, <2>1, <3>1, <3>2
  <2>3. j \in 1..(m + n) /\ v \in t[j].intro /\ v \in Vars
    BY <1>1, <1>4, <2>1 DEF Bound
  <2> QED
    BY <2>2, <2>3 DEF Bound
<1>5. ASSUME NEW v \in Intros(r) PROVE v \in Bound(t, m + n)
  <2>1. PICK i \in 1..n : v \in r[i].intro
    BY <1>5 DEF Intros, n
  <2>2. m + i \in 1..(m + n) /\ v \in t[m + i].intro /\ v \in Vars
    BY <1>1, <1>5, <2>1 DEF Intros
  <2>3. \A k \in ((m + i) + 1)..(m + n) : k \in (m + 1)..(m + n)
    BY <1>1
  <2>4. \A k \in ((m + i) + 1)..(m + n) : ~HidesInput(t[k])
    BY <1>2, <1>3, <2>3
  <2> QED
    BY <2>2, <2>4 DEF Bound
<1>6. ASSUME NEW v \in Bound(t, m + n), v \notin Intros(r) PROVE v \in Bound(q, m)
  <2>1. PICK j \in 1..(m + n) :
          v \in t[j].intro /\ \A k \in (j + 1)..(m + n) : ~HidesInput(t[k])
    BY <1>6 DEF Bound
  <2>2. v \in Vars
    BY <1>6 DEF Bound
  <2>3. j \in 1..m
    <3>1. j \notin (m + 1)..(m + n)
      BY <1>3, <1>6, <2>1, <2>2 DEF Intros, n
    <3> QED
      BY <1>1, <3>1
  <2>4. \A k \in (j + 1)..m : k \in (j + 1)..(m + n) /\ k \in 1..m
    BY <1>1
  <2> QED
    BY <1>1, <2>1, <2>2, <2>3, <2>4 DEF Bound
<1> QED
  BY <1>1, <1>4, <1>5, <1>6 DEF BoundVars, t, m, n

LEMMA IntrosJoined ==
  ASSUME NEW q, NEW r, Straight(q), Straight(r)
  PROVE  Straight(q \o r) /\ Intros(q \o r) = Intros(q) \cup Intros(r)
<1> DEFINE t == q \o r
           m == Len(q)
           n == Len(r)
<1>1. /\ m \in Nat /\ n \in Nat /\ Len(t) = m + n /\ IsSequence(t)
      /\ \A i \in 1..m : t[i] = q[i]
      /\ \A i \in 1..n : t[m + i] = r[i]
  BY Concatenated, SequenceFacts DEF Straight
<1> HIDE DEF t
<1>2. \A k \in 1..(m + n) : k \in 1..m \/ (k - m \in 1..n /\ t[k] = r[k - m])
  <2> SUFFICES ASSUME NEW k \in 1..(m + n), k \notin 1..m
               PROVE  k - m \in 1..n /\ t[k] = r[k - m]
    OBVIOUS
  <2>1. k - m \in 1..n /\ m + (k - m) = k
    BY <1>1
  <2> QED
    BY <1>1, <2>1
<1>3. \A i \in 1..m : i \in 1..(m + n)
  BY <1>1
<1>4. \A i \in 1..n : m + i \in 1..(m + n)
  BY <1>1
<1>5. Straight(t)
  BY <1>1, <1>2 DEF Straight
<1>6. Intros(t) = Intros(q) \cup Intros(r)
  BY <1>1, <1>2, <1>3, <1>4 DEF Intros
<1> QED
  BY <1>5, <1>6 DEF t

LEMMA NothingBound ==
  BoundVars(<<>>) = {} /\ Straight(<<>>) /\ Intros(<<>>) = {}
BY Nothing DEF BoundVars, Bound, Straight, Intros

(* The plan of operators that hide nothing binds all they introduce.       *)
LEMMA BoundStraight ==
  ASSUME NEW r, Straight(r)
  PROVE  BoundVars(r) = Intros(r)
<1>1. Len(r) \in Nat /\ \A i \in 1..Len(r) : ~HidesInput(r[i])
  BY SequenceFacts DEF Straight
<1>2. \A j \in 1..Len(r) : \A k \in (j + 1)..Len(r) : k \in 1..Len(r)
  BY <1>1
<1> QED
  BY <1>1, <1>2 DEF BoundVars, Bound, Intros

LEMMA OneStraight ==
  ASSUME NEW op, ~HidesInput(op)
  PROVE  Straight(<<op>>) /\ Intros(<<op>>) = op.intro \cap Vars
BY One DEF Straight, Intros

(* A projection on top: what it hides, and what it introduces.             *)
LEMMA BoundAppended ==
  ASSUME NEW q, IsSequence(q), NEW op
  PROVE  BoundVars(Append(q, op)) =
           (op.intro \cap Vars) \cup (IF HidesInput(op) THEN {} ELSE BoundVars(q))
<1> DEFINE t == Append(q, op)
           m == Len(q)
<1>1. /\ m \in Nat /\ Len(t) = m + 1 /\ t[m + 1] = op
      /\ \A i \in 1..m : t[i] = q[i]
  BY Appended, SequenceFacts
<1> HIDE DEF t, m
<1>2. ASSUME NEW v \in op.intro, v \in Vars PROVE v \in Bound(t, m + 1)
  <2>1. m + 1 \in 1..(m + 1) /\ \A k \in ((m + 1) + 1)..(m + 1) : FALSE
    BY <1>1
  <2> QED
    BY <1>1, <1>2, <2>1 DEF Bound
<1>3. ASSUME ~HidesInput(op), NEW v \in Bound(q, m) PROVE v \in Bound(t, m + 1)
  <2>1. PICK j \in 1..m : v \in q[j].intro /\ \A k \in (j + 1)..m : ~HidesInput(q[k])
    BY <1>3 DEF Bound
  <2>2. j \in 1..(m + 1)
    BY <1>1
  <2>3. \A k \in (j + 1)..(m + 1) : (k \in (j + 1)..m /\ k \in 1..m) \/ k = m + 1
    BY <1>1
  <2> QED
    BY <1>1, <1>3, <2>1, <2>2, <2>3 DEF Bound
<1>4. ASSUME NEW v \in Bound(t, m + 1), v \notin op.intro
      PROVE  ~HidesInput(op) /\ v \in Bound(q, m)
  <2>1. PICK j \in 1..(m + 1) :
          v \in t[j].intro /\ \A k \in (j + 1)..(m + 1) : ~HidesInput(t[k])
    BY <1>4 DEF Bound
  <2>2. j # m + 1
    BY <1>1, <1>4, <2>1
  <2>3. j \in 1..m /\ m + 1 \in (j + 1)..(m + 1)
    BY <1>1, <2>2
  <2>4. \A k \in (j + 1)..m : k \in (j + 1)..(m + 1) /\ k \in 1..m
    BY <1>1
  <2> QED
    BY <1>1, <1>4, <2>1, <2>3, <2>4 DEF Bound
<1> QED
  BY <1>1, <1>2, <1>3, <1>4 DEF BoundVars, t, m, Bound

-----------------------------------------------------------------------------
(* The names of patterns, and of the links of a chain.                     *)
ChainNames(chain) ==
  UNION {Named(chain[i].rel.var) \cup Named(chain[i].node.var) : i \in 1..Len(chain)}

PatternNames(ps) == Patterns(ps, PatternBindings)

LEMMA ChainSplit ==
  ASSUME NEW s \in Seq(AnyLink), s # <<>>
  PROVE  ChainNames(s) = Named(Head(s).rel.var) \cup Named(Head(s).node.var)
                           \cup ChainNames(Tail(s))
<1>1. IsSequence(s)
  BY DEF IsSequence
<1>2. /\ Len(s) \in Nat /\ Len(s) > 0 /\ Head(s) = s[1] /\ Len(Tail(s)) = Len(s) - 1
      /\ \A i \in 1..Len(Tail(s)) : Tail(s)[i] = s[i + 1]
  BY <1>1, TailFacts, SequenceFacts
<1>3. \A i \in 1..Len(s) : i = 1 \/ (i - 1 \in 1..Len(Tail(s)) /\ s[i] = Tail(s)[i - 1])
  <2> SUFFICES ASSUME NEW i \in 1..Len(s), i # 1
               PROVE  i - 1 \in 1..Len(Tail(s)) /\ s[i] = Tail(s)[i - 1]
    OBVIOUS
  <2>1. i - 1 \in 1..Len(Tail(s)) /\ (i - 1) + 1 = i
    BY <1>2
  <2> QED
    BY <1>2, <2>1
<1>4. 1 \in 1..Len(s) /\ \A i \in 1..Len(Tail(s)) : i + 1 \in 1..Len(s)
  BY <1>2
<1> DEFINE F(l) == Named(l.rel.var) \cup Named(l.node.var)
<1>5. ChainNames(s) = UNION {F(s[i]) : i \in 1..Len(s)}
  BY DEF ChainNames
<1>6. ChainNames(Tail(s)) = UNION {F(Tail(s)[i]) : i \in 1..Len(Tail(s))}
  BY DEF ChainNames
<1>7. F(Head(s)) = Named(Head(s).rel.var) \cup Named(Head(s).node.var)
  OBVIOUS
<1> HIDE DEF F
<1>8. ASSUME NEW v \in ChainNames(s) PROVE v \in F(Head(s)) \cup ChainNames(Tail(s))
  BY <1>2, <1>3, <1>5, <1>6, <1>8
<1>9. ASSUME NEW v \in F(Head(s)) \cup ChainNames(Tail(s)) PROVE v \in ChainNames(s)
  BY <1>2, <1>4, <1>5, <1>6, <1>9
<1> QED
  BY <1>7, <1>8, <1>9

LEMMA PatternSplit ==
  ASSUME NEW s \in Seq(AnyPattern), s # <<>>
  PROVE  PatternNames(s) = PatternBindings(Head(s)) \cup PatternNames(Tail(s))
<1>1. IsSequence(s)
  BY DEF IsSequence
<1>2. /\ Len(s) \in Nat /\ Len(s) > 0 /\ Head(s) = s[1] /\ Len(Tail(s)) = Len(s) - 1
      /\ \A i \in 1..Len(Tail(s)) : Tail(s)[i] = s[i + 1]
  BY <1>1, TailFacts, SequenceFacts
<1>3. \A i \in 1..Len(s) : i = 1 \/ (i - 1 \in 1..Len(Tail(s)) /\ s[i] = Tail(s)[i - 1])
  <2> SUFFICES ASSUME NEW i \in 1..Len(s), i # 1
               PROVE  i - 1 \in 1..Len(Tail(s)) /\ s[i] = Tail(s)[i - 1]
    OBVIOUS
  <2>1. i - 1 \in 1..Len(Tail(s)) /\ (i - 1) + 1 = i
    BY <1>2
  <2> QED
    BY <1>2, <2>1
<1>4. 1 \in 1..Len(s) /\ \A i \in 1..Len(Tail(s)) : i + 1 \in 1..Len(s)
  BY <1>2
<1>5. PatternNames(s) = UNION {PatternBindings(s[i]) : i \in 1..Len(s)}
  BY DEF PatternNames, Patterns
<1>6. PatternNames(Tail(s)) = UNION {PatternBindings(Tail(s)[i]) : i \in 1..Len(Tail(s))}
  BY DEF PatternNames, Patterns
<1>8. ASSUME NEW v \in PatternNames(s)
      PROVE  v \in PatternBindings(Head(s)) \cup PatternNames(Tail(s))
  BY <1>2, <1>3, <1>5, <1>6, <1>8
<1>9. ASSUME NEW v \in PatternBindings(Head(s)) \cup PatternNames(Tail(s))
      PROVE  v \in PatternNames(s)
  BY <1>2, <1>4, <1>5, <1>6, <1>9
<1> QED
  BY <1>8, <1>9

LEMMA BindingsOfPattern ==
  ASSUME Proper, NEW p \in AnyPattern
  PROVE  /\ PatternBindings(p) =
              Named(p.path) \cup Named(p.anchor.var) \cup ChainNames(p.chain)
         /\ PatternBindings(p) \subseteq UserVars
<1>1. p.path \in AnyVar /\ p.anchor.var \in AnyVar /\ p.chain \in Seq(AnyLink)
  BY DEF Proper, ProperPatterns
<1>2. ASSUME NEW i \in 1..Len(p.chain)
      PROVE  Named(p.chain[i].rel.var) \cup Named(p.chain[i].node.var) \subseteq UserVars
  <2>1. p.chain[i] \in AnyLink
    BY <1>1
  <2> QED
    BY <2>1 DEF Proper, ProperLinks, AnyVar, Named
<1>3. ChainNames(p.chain) \subseteq UserVars
  BY <1>2 DEF ChainNames
<1> QED
  BY <1>1, <1>3 DEF PatternBindings, ChainNames, AnyVar, Named

-----------------------------------------------------------------------------
(* Operators.                                                              *)
LEMMA NodeShape ==
  ASSUME NEW kind, NEW used, NEW intro
  PROVE  Node(kind, used, intro).intro = intro /\ ~HidesInput(Node(kind, used, intro))
BY DEF Node, HidesInput

LEMMA BranchingShape ==
  ASSUME NEW kind, NEW right, NEW intro
  PROVE  /\ Branching(kind, right, intro).intro = intro
         /\ ~HidesInput(Branching(kind, right, intro))
BY DEF Branching, Node, HidesInput

(* Nodes that bind nothing, as many as there are.                          *)
LEMMA NothingIntroduced ==
  ASSUME NEW s, IsSequence(s), \A i \in 1..Len(s) : s[i].intro = {} /\ ~HidesInput(s[i])
  PROVE  Straight(s) /\ Intros(s) = {}
BY DEF Straight, Intros

LEMMA PredicatesShape ==
  ASSUME NEW e, NEW var
  PROVE  Straight(Predicates(e, var)) /\ Intros(Predicates(e, var)) = {}
<1> DEFINE s == IF e.props THEN <<Node("Filter", {var} \cup e.reads, {})>> ELSE <<>>
           t == IF e.map THEN <<Node("PropertyMapFilter", {var}, {})>> ELSE <<>>
<1>1. Straight(s) /\ Intros(s) = {}
  BY NodeShape, OneStraight, NothingBound
<1>2. Straight(t) /\ Intros(t) = {}
  BY NodeShape, OneStraight, NothingBound
<1>3. Predicates(e, var) = s \o t
  BY DEF Predicates
<1> HIDE DEF s, t
<1> QED
  BY <1>1, <1>2, <1>3, IntrosJoined

(* A name that is made up is none of the query.                            *)
LEMMA EffectiveName ==
  ASSUME Proper, NEW e, e.var \in AnyVar, NEW prefix \in {"node", "rel"}, NEW n \in Nat
  PROVE  /\ Named(EffectiveVar(e, prefix, n)) \cap UserVars = Named(e.var)
         /\ After(e, n) \in Nat
<1>1. Fresh(prefix, n) \notin UserVars
  BY DEF Proper, ProperNames
<1>2. CASE Synthesizes(e)
  <2>1. EffectiveVar(e, prefix, n) = Fresh(prefix, n) /\ After(e, n) = n + 1
    BY <1>2 DEF EffectiveVar, After
  <2>2. e.var = NoVar
    BY <1>2 DEF Synthesizes
  <2> QED
    BY <1>1, <2>1, <2>2 DEF Named
<1>3. CASE ~Synthesizes(e)
  <2>1. EffectiveVar(e, prefix, n) = e.var /\ After(e, n) = n
    BY <1>3 DEF EffectiveVar, After
  <2> QED
    BY <2>1 DEF Named, AnyVar
<1> QED
  BY <1>2, <1>3

-----------------------------------------------------------------------------
(* The invariant.  A frame is sound if its names are those of its plan;    *)
(* while a MATCH is lowered its names are visible and not yet bound in the *)
(* innermost frame: some are bound by what is lowered, the others belong   *)
(* to what is left of the patterns.                                        *)
FrameFields ==
  {"todo", "main", "visible", "columns", "project", "distinct", "sort", "skip", "limit"}

LowFields == {"on", "patterns", "combined", "path", "head", "next", "chain"}

FrameShape(f) ==
  /\ DOMAIN f = FrameFields
  /\ f.todo \in Seq(AnyClause)
  /\ HasSchemaCommand(f.todo) => Len(f.todo) = 1 /\ f.visible = {}
  /\ IsSequence(f.main)

Fits(f) == f.visible = BoundVars(f.main) \cap UserVars

FramesInv ==
  /\ IsSequence(frames)
  /\ \A i \in 1..Len(frames) : FrameShape(frames[i])
  /\ \A i \in 2..Len(frames) : Fits(frames[i]) /\ frames[i].todo # <<>>
  /\ ~low.on /\ frames # <<>> => Fits(Top)

StillToCome ==
  ChainNames(low.chain) \cup Named(Head(low.patterns).path)
    \cup PatternNames(Tail(low.patterns))

LowInv ==
  low.on =>
    /\ DOMAIN low = LowFields
    /\ frames # <<>> /\ Top.todo # <<>> /\ Clause.kind = "Match"
    /\ low.patterns \in Seq(AnyPattern) /\ low.chain \in Seq(AnyLink) /\ low.next \in Nat
    /\ Straight(low.combined) /\ Straight(low.path)
    /\ Top.visible = (BoundVars(Top.main) \cap UserVars) \cup PatternNames(Clause.patterns)
    /\ PatternNames(Clause.patterns) =
         (Intros(low.combined) \cap UserVars)
           \cup (IF low.patterns = <<>> THEN {}
                 ELSE (Intros(low.path) \cap UserVars) \cup StillToCome)

VInv == FramesInv /\ LowInv

LEMMA TopShape ==
  ASSUME FramesInv, frames # <<>>
  PROVE  /\ FrameShape(Top) /\ Top = frames[1] /\ 1 \in 1..Len(frames)
         /\ IsSequence(Tail(frames)) /\ Len(Tail(frames)) = Len(frames) - 1
         /\ \A i \in 1..Len(Tail(frames)) : Tail(frames)[i] = frames[i + 1]
         /\ Len(frames) \in Nat
<1>1. /\ Len(frames) > 0 /\ Head(frames) = frames[1] /\ Len(frames) \in Nat
      /\ IsSequence(Tail(frames)) /\ Len(Tail(frames)) = Len(frames) - 1
      /\ \A i \in 1..Len(Tail(frames)) : Tail(frames)[i] = frames[i + 1]
  BY TailFacts, SequenceFacts DEF FramesInv
<1> QED
  BY <1>1 DEF FramesInv, Top

LEMMA ClauseShape ==
  ASSUME FramesInv, frames # <<>>, Top.todo # <<>>
  PROVE  /\ Clause \in AnyClause /\ Tail(Top.todo) \in Seq(AnyClause)
         /\ Clause.kind # "SchemaCommand" => ~HasSchemaCommand(Top.todo)
         /\ ~HasSchemaCommand(Tail(Top.todo))
<1>1. /\ Top.todo \in Seq(AnyClause)
      /\ HasSchemaCommand(Top.todo) => Len(Top.todo) = 1
  BY TopShape DEF FrameShape
<1>2. /\ Len(Top.todo) \in Nat /\ Len(Top.todo) > 0 /\ Clause = Top.todo[1]
      /\ Tail(Top.todo) \in Seq(AnyClause) /\ Len(Tail(Top.todo)) = Len(Top.todo) - 1
      /\ \A i \in 1..Len(Tail(Top.todo)) : Tail(Top.todo)[i] = Top.todo[i + 1]
  BY <1>1 DEF Clause
<1>3. \A i \in 1..Len(Tail(Top.todo)) : i + 1 \in 1..Len(Top.todo)
  BY <1>2
<1>4. HasSchemaCommand(Tail(Top.todo)) => HasSchemaCommand(Top.todo)
  BY <1>2, <1>3 DEF HasSchemaCommand
<1>5. HasSchemaCommand(Tail(Top.todo)) => Len(Top.todo) > 1
  BY <1>2, <1>3 DEF HasSchemaCommand
<1>6. ~HasSchemaCommand(Tail(Top.todo))
  <2> SUFFICES ASSUME HasSchemaCommand(Tail(Top.todo)) PROVE FALSE
    OBVIOUS
  <2>1. Len(Top.todo) = 1 /\ Len(Top.todo) > 1
    BY <1>1, <1>4, <1>5
  <2> QED
    BY <1>2, <2>1
<1>7. Clause.kind # "SchemaCommand" => ~HasSchemaCommand(Top.todo)
  BY <1>1, <1>2 DEF HasSchemaCommand
<1>8. Clause \in AnyClause
  BY <1>1, <1>2
<1> QED
  BY <1>2, <1>6, <1>7, <1>8

(* Replacing the innermost frame.                                          *)
LEMMA Replaced ==
  ASSUME FramesInv, frames # <<>>, NEW f
  PROVE  LET s == <<f>> \o Tail(frames)
         IN  /\ IsSequence(s) /\ Len(s) = Len(frames) /\ s # <<>>
             /\ Head(s) = f /\ s[1] = f
             /\ \A i \in 2..Len(frames) : s[i] = frames[i]
<1> DEFINE t == Tail(frames)
           s == <<f>> \o t
<1>1. /\ IsSequence(t) /\ Len(t) = Len(frames) - 1 /\ Len(frames) \in Nat
      /\ \A i \in 1..Len(t) : t[i] = frames[i + 1]
  BY TopShape
<1>2. IsSequence(<<f>>) /\ Len(<<f>>) = 1 /\ <<f>>[1] = f
  BY One
<1> HIDE DEF t
<1>3. /\ IsSequence(s) /\ Len(s) = 1 + Len(t)
      /\ \A i \in 1..1 : s[i] = <<f>>[i]
      /\ \A i \in 1..Len(t) : s[1 + i] = t[i]
  BY <1>1, <1>2, Concatenated
<1> HIDE DEF s
<1>4. Len(s) = Len(frames) /\ s[1] = f
  BY <1>1, <1>2, <1>3
<1>5. ASSUME NEW i \in 2..Len(frames) PROVE s[i] = frames[i]
  <2>1. i - 1 \in 1..Len(t) /\ 1 + (i - 1) = i /\ (i - 1) + 1 = i
    BY <1>1
  <2> QED
    BY <1>1, <1>3, <2>1
<1>6. s # <<>> /\ Head(s) = s[1]
  <2>1. Len(s) > 0
    BY <1>1, <1>3
  <2>2. s # <<>>
    BY <2>1, Nothing
  <2> QED
    BY <1>3, <2>2, TailFacts
<1> QED
  BY <1>3, <1>4, <1>5, <1>6 DEF s, t

(* The innermost frame becomes a sound one, and nothing is lowered.        *)
LEMMA NewTop ==
  ASSUME FramesInv, frames # <<>>, NEW f, FrameShape(f), Fits(f),
         frames' = <<f>> \o Tail(frames), ~low'.on
  PROVE  VInv'
<1>1. /\ IsSequence(frames') /\ Len(frames') = Len(frames)
      /\ Head(frames') = f /\ frames'[1] = f
      /\ \A i \in 2..Len(frames) : frames'[i] = frames[i]
  BY Replaced
<1>2. \A i \in 1..Len(frames) : i = 1 \/ i \in 2..Len(frames)
  BY TopShape
<1>3. \A i \in 1..Len(frames') : FrameShape(frames'[i])
  BY <1>1, <1>2 DEF FramesInv
<1>4. \A i \in 2..Len(frames') : Fits(frames'[i]) /\ frames'[i].todo # <<>>
  BY <1>1 DEF FramesInv
<1>5. FramesInv'
  BY <1>1, <1>3, <1>4 DEF FramesInv, Top
<1> QED
  BY <1>5 DEF VInv, LowInv

(* plan_branch goes on to the next clause: what is left of the frame are   *)
(* the rest of its clauses, its plan and its names.                        *)
LEMMA ProceedTop ==
  ASSUME VInv, frames # <<>>, Top.todo # <<>>, NEW f, Proceed(f),
         DOMAIN f = FrameFields, f.todo = Top.todo, IsSequence(f.main), Fits(f), ~low'.on
  PROVE  VInv'
<1> DEFINE g == [f EXCEPT !.todo = Tail(@)]
<1>1. /\ DOMAIN g = FrameFields /\ g.todo = Tail(Top.todo)
      /\ g.main = f.main /\ g.visible = f.visible
  BY DEF FrameFields
<1>2. frames' = <<g>> \o Tail(frames)
  BY DEF Proceed
<1> HIDE DEF g
<1>3. FrameShape(g) /\ Fits(g)
  BY <1>1, ClauseShape DEF VInv, FrameShape, Fits
<1> QED
  BY <1>2, <1>3, NewTop DEF VInv

LEMMA Emitted ==
  ASSUME VInv, frames # <<>>, Top.todo # <<>>, ~low.on,
         NEW ops, NEW names, Emit(ops, names), Straight(ops), Proper,
         Intros(ops) \cap UserVars = names
  PROVE  VInv'
<1> DEFINE f == [Top EXCEPT !.main = @ \o ops, !.visible = @ \cup names]
<1>1. FrameShape(Top) /\ Fits(Top)
  BY TopShape DEF VInv, FramesInv
<1>2. /\ DOMAIN f = FrameFields /\ f.todo = Top.todo
      /\ f.main = Top.main \o ops /\ f.visible = Top.visible \cup names
  BY <1>1 DEF FrameShape, FrameFields
<1>3. Proceed(f) /\ low' = low
  BY DEF Emit
<1> HIDE DEF f
<1>4. IsSequence(f.main)
  BY <1>1, <1>2, Concatenated DEF FrameShape, Straight
<1>5. BoundVars(f.main) = BoundVars(Top.main) \cup Intros(ops)
  BY <1>1, <1>2, BoundJoined DEF FrameShape
<1>6. Fits(f)
  BY <1>1, <1>2, <1>5 DEF Fits
<1> QED
  BY <1>2, <1>3, <1>4, <1>6, ProceedTop

(* A clause that puts nothing on the plan.                                 *)
LEMMA Kept ==
  ASSUME VInv, frames # <<>>, Top.todo # <<>>, ~low'.on, ~low.on,
         NEW f, Proceed(f), DOMAIN f = FrameFields,
         f.todo = Top.todo, f.main = Top.main, f.visible = Top.visible
  PROVE  VInv'
<1>1. FrameShape(Top) /\ Fits(Top)
  BY TopShape DEF VInv, FramesInv
<1> QED
  BY <1>1, ProceedTop DEF FrameShape, Fits

-----------------------------------------------------------------------------
(* The steps.                                                              *)
LEMMA Beginning == Init => VInv
<1> SUFFICES ASSUME Init PROVE VInv
  OBVIOUS
<1>1. frames = <<>> /\ low.on = FALSE
  BY DEF Init, Idle
<1>2. IsSequence(frames) /\ Len(frames) = 0
  BY <1>1, Nothing
<1> QED
  BY <1>1, <1>2 DEF VInv, FramesInv, LowInv

LEMMA Unchanged ==
  ASSUME VInv, UNCHANGED <<frames, low>>
  PROVE  VInv'
BY DEF VInv, FramesInv, LowInv, StillToCome, Top, Clause

LEMMA AtShape ==
  ASSUME NEW kinds, At(kinds)
  PROVE  frames # <<>> /\ ~low.on /\ Top.todo # <<>> /\ Clause.kind \in kinds
BY DEF At

(* A frame that plan_branch starts with.                                   *)
LEMMA NewFrame ==
  ASSUME NEW clauses \in Seq(AnyClause), HasSchemaCommand(clauses) => Len(clauses) = 1
  PROVE  FrameShape(Frame(clauses)) /\ Fits(Frame(clauses))
<1>1. /\ DOMAIN Frame(clauses) = FrameFields /\ Frame(clauses).todo = clauses
      /\ Frame(clauses).main = <<>> /\ Frame(clauses).visible = {}
  BY DEF Frame, FrameFields
<1> QED
  BY <1>1, NothingBound, Nothing DEF FrameShape, Fits

(* The only frame there is.                                                *)
LEMMA OnlyFrame ==
  ASSUME NEW f, FrameShape(f), Fits(f), frames' = <<f>>, ~low'.on
  PROVE  VInv'
<1>1. /\ IsSequence(frames') /\ Len(frames') = 1 /\ frames'[1] = f
      /\ frames' # <<>> /\ Head(frames') = f
  BY One
<1>2. \A i \in 1..1 : frames'[i] = f
  BY <1>1
<1>3. \A i \in 1..Len(frames') : FrameShape(frames'[i])
  BY <1>1, <1>2
<1>4. FramesInv'
  BY <1>1, <1>3 DEF FramesInv, Top
<1> QED
  BY <1>4 DEF VInv, LowInv

LEMMA BeginStep == Proper /\ VInv /\ ~low.on /\ query \in Queries /\ Begin => VInv'
<1> SUFFICES ASSUME Proper, VInv, ~low.on, query \in Queries, Begin PROVE VInv'
  OBVIOUS
<1>1. CASE UNCHANGED <<frames, low>>
  BY <1>1, Unchanged
<1>2. CASE frames' = <<Frame(query.clauses)>> /\ low' = low
  <2>1. /\ query.clauses \in Seq(AnyClause)
        /\ HasSchemaCommand(query.clauses) => Len(query.clauses) = 1
    BY DEF Proper, ProperQueries
  <2> QED
    BY <1>2, <2>1, NewFrame, OnlyFrame
<1> QED
  BY <1>1, <1>2 DEF Begin, Fail

LEMMA EndBranchStep == VInv /\ EndBranch => VInv'
<1> SUFFICES ASSUME VInv, EndBranch PROVE VInv'
  OBVIOUS
<1>0. Len(frames) = 1 /\ ~low.on /\ low' = low /\ frames # <<>>
  <2>1. Len(frames) = 1 /\ ~low.on /\ low' = low
    BY DEF EndBranch
  <2> QED
    BY <2>1, Nothing
<1>1. CASE Top.todo = <<>>
  <2>1. frames' = <<>>
    BY <1>1 DEF EndBranch
  <2>2. IsSequence(frames') /\ Len(frames') = 0
    BY <2>1, Nothing
  <2> QED
    BY <1>0, <2>1, <2>2 DEF VInv, FramesInv, LowInv
<1>2. CASE Top.todo # <<>>
  <2>1. frames' = <<Frame(Tail(Top.todo))>>
    BY <1>2 DEF EndBranch
  <2>2. Tail(Top.todo) \in Seq(AnyClause) /\ ~HasSchemaCommand(Tail(Top.todo))
    BY <1>0, <1>2, ClauseShape DEF VInv
  <2> QED
    BY <1>0, <2>1, <2>2, NewFrame, OnlyFrame
<1> QED
  BY <1>1, <1>2

(* FOREACH: the frame of its body is put in front.                         *)
LEMMA ForeachStep == Proper /\ VInv /\ BeginForeach => VInv'
<1> SUFFICES ASSUME Proper, VInv, BeginForeach PROVE VInv'
  OBVIOUS
<1>0. /\ frames # <<>> /\ ~low.on /\ Top.todo # <<>> /\ Clause.kind = "Foreach"
      /\ frames' = <<Frame(Clause.body)>> \o frames /\ low' = low
  BY AtShape DEF BeginForeach
<1> DEFINE f == Frame(Clause.body)
<1>1. Clause.body \in Seq(AnyClause) /\ ~HasSchemaCommand(Clause.body)
  BY <1>0, ClauseShape DEF VInv, Proper, ProperClauses
<1>2. FrameShape(f) /\ Fits(f)
  BY <1>1, NewFrame
<1> HIDE DEF f
<1>3. IsSequence(frames) /\ Len(frames) \in Nat
  BY TopShape, <1>0 DEF VInv, FramesInv
<1>4. IsSequence(<<f>>) /\ Len(<<f>>) = 1 /\ <<f>>[1] = f
  BY One
<1>5. /\ IsSequence(frames') /\ Len(frames') = 1 + Len(frames)
      /\ \A i \in 1..1 : frames'[i] = <<f>>[i]
      /\ \A i \in 1..Len(frames) : frames'[1 + i] = frames[i]
  BY <1>0, <1>3, <1>4, Concatenated DEF f
<1>6. \A i \in 1..Len(frames') :
         i = 1 \/ (i \in 2..Len(frames') /\ i - 1 \in 1..Len(frames) /\ 1 + (i - 1) = i)
  BY <1>3, <1>5
<1>7. frames'[1] = f
  BY <1>4, <1>5
<1>8. ASSUME NEW i \in 2..Len(frames')
      PROVE  i - 1 \in 1..Len(frames) /\ frames'[i] = frames[i - 1]
  <2>1. i \in 1..Len(frames') /\ i # 1
    BY <1>3, <1>5
  <2> QED
    BY <1>5, <1>6, <2>1
<1>9. \A i \in 1..Len(frames') : FrameShape(frames'[i])
  BY <1>2, <1>6, <1>7, <1>8 DEF VInv, FramesInv
<1>10. ASSUME NEW i \in 2..Len(frames')
       PROVE  Fits(frames'[i]) /\ frames'[i].todo # <<>>
  <2>1. i - 1 = 1 \/ i - 1 \in 2..Len(frames)
    BY <1>3, <1>8
  <2>2. CASE i - 1 = 1
    BY <1>0, <1>8, <2>2, TopShape DEF VInv, FramesInv
  <2>3. CASE i - 1 \in 2..Len(frames)
    BY <1>8, <2>3 DEF VInv, FramesInv
  <2> QED
    BY <2>1, <2>2, <2>3
<1>11. frames' # <<>> /\ Head(frames') = f
  <2>1. Len(frames') > 0
    BY <1>3, <1>5
  <2>2. frames' # <<>>
    BY <2>1, Nothing
  <2> QED
    BY <1>5, <1>7, <2>2, TailFacts
<1>12. FramesInv'
  BY <1>2, <1>5, <1>9, <1>10, <1>11
     DEF FramesInv, Top
<1> QED
  BY <1>0, <1>12 DEF VInv, LowInv

(* The body's frame ends: its plan is the second input of an operator that *)
(* binds nothing.                                                          *)
LEMMA EndBodyStep == VInv /\ EndBody => VInv'
<1> SUFFICES ASSUME VInv, EndBody PROVE VInv'
  OBVIOUS
<1> DEFINE outer == frames[2]
<1>1. PICK op : /\ op.intro = {} /\ ~HidesInput(op)
                /\ frames' = <<[outer EXCEPT !.main = Append(@, op), !.todo = Tail(@)]>>
                                \o Tail(Tail(frames))
  <2> DEFINE each == Head(outer.todo)
             op == [Branching("Foreach", free, {})
                      EXCEPT !.used = each.reads, !.parts = <<Part({each.var}, each.reads)>>]
  <2>1. op.intro = {} /\ ~HidesInput(op)
    BY DEF Branching, Node, HidesInput
  <2>2. frames' = <<[outer EXCEPT !.main = Append(@, op), !.todo = Tail(@)]>>
                    \o Tail(Tail(frames))
    BY DEF EndBody
  <2> QED
    BY <2>1, <2>2
<1>2. Len(frames) > 1 /\ ~low.on /\ low' = low
  BY DEF EndBody
<1>3. Len(frames) \in Nat /\ frames # <<>>
  BY <1>2, Nothing, SequenceFacts DEF VInv, FramesInv
<1>4. FrameShape(outer) /\ Fits(outer) /\ outer.todo # <<>>
  <2>1. 2 \in 1..Len(frames) /\ 2 \in 2..Len(frames)
    BY <1>2, <1>3
  <2> QED
    BY <2>1 DEF VInv, FramesInv
<1> DEFINE f == [outer EXCEPT !.main = Append(@, op), !.todo = Tail(@)]
           rest == Tail(Tail(frames))
<1>5. /\ DOMAIN f = FrameFields /\ f.todo = Tail(outer.todo)
      /\ f.main = Append(outer.main, op) /\ f.visible = outer.visible
  BY <1>4 DEF FrameShape, FrameFields
<1>6. /\ IsSequence(rest) /\ Len(rest) = Len(frames) - 2
      /\ \A i \in 1..Len(rest) : rest[i] = frames[i + 2]
  <2>1. /\ IsSequence(Tail(frames)) /\ Len(Tail(frames)) = Len(frames) - 1
        /\ \A i \in 1..Len(Tail(frames)) : Tail(frames)[i] = frames[i + 1]
    BY <1>3, TopShape DEF VInv
  <2>2. Tail(frames) # <<>>
    BY <1>2, <1>3, <2>1, Nothing
  <2>3. /\ IsSequence(rest) /\ Len(rest) = Len(Tail(frames)) - 1
        /\ \A i \in 1..Len(rest) : rest[i] = Tail(frames)[i + 1]
    BY <2>1, <2>2, TailFacts
  <2> HIDE DEF rest
  <2>4. ASSUME NEW i \in 1..Len(rest) PROVE rest[i] = frames[i + 2]
    <3>1. i + 1 \in 1..Len(Tail(frames)) /\ (i + 1) + 1 = i + 2
      BY <1>3, <2>1, <2>3
    <3> QED
      BY <2>1, <2>3, <3>1
  <2> QED
    BY <1>3, <2>1, <2>3, <2>4
<1>7. IsSequence(<<f>>) /\ Len(<<f>>) = 1 /\ <<f>>[1] = f
  BY One
<1>8. frames' = <<f>> \o rest
  BY <1>1
<1> HIDE DEF outer, f, rest
<1>9. FrameShape(f) /\ Fits(f)
  <2>1. IsSequence(outer.main) /\ outer.todo \in Seq(AnyClause)
    BY <1>4 DEF FrameShape
  <2>2. IsSequence(f.main)
    BY <1>5, <2>1, Appended
  <2>3. BoundVars(f.main) = BoundVars(outer.main)
    <3>1. BoundVars(Append(outer.main, op)) =
            (op.intro \cap Vars) \cup (IF HidesInput(op) THEN {} ELSE BoundVars(outer.main))
      BY <2>1, BoundAppended
    <3> QED
      BY <1>1, <1>5, <3>1
  <2>4. f.todo \in Seq(AnyClause)
    BY <1>4, <1>5, <2>1
  <2>5. ~HasSchemaCommand(f.todo)
    <3> SUFFICES ASSUME HasSchemaCommand(f.todo) PROVE FALSE
      OBVIOUS
    <3>1. PICK i \in 1..Len(f.todo) : f.todo[i].kind = "SchemaCommand"
      BY DEF HasSchemaCommand
    <3>2. /\ Len(outer.todo) \in Nat /\ Len(f.todo) = Len(outer.todo) - 1
          /\ f.todo[i] = outer.todo[i + 1]
      BY <1>4, <1>5, <2>1
    <3>3. i + 1 \in 1..Len(outer.todo) /\ Len(outer.todo) # 1
      BY <3>1, <3>2
    <3>4. HasSchemaCommand(outer.todo)
      BY <3>1, <3>2, <3>3 DEF HasSchemaCommand
    <3> QED
      BY <1>4, <3>3, <3>4 DEF FrameShape
  <2> QED
    BY <1>4, <1>5, <2>2, <2>3, <2>4, <2>5 DEF FrameShape, Fits
<1>10. /\ IsSequence(frames') /\ Len(frames') = 1 + Len(rest)
       /\ \A i \in 1..1 : frames'[i] = <<f>>[i]
       /\ \A i \in 1..Len(rest) : frames'[1 + i] = rest[i]
  BY <1>6, <1>7, <1>8, Concatenated
<1>11. frames'[1] = f /\ Len(frames') = Len(frames) - 1
  BY <1>3, <1>6, <1>7, <1>10
<1>12. ASSUME NEW i \in 2..Len(frames')
       PROVE  i + 1 \in 2..Len(frames) /\ frames'[i] = frames[i + 1]
  <2>1. /\ i - 1 \in 1..Len(rest) /\ 1 + (i - 1) = i /\ (i - 1) + 2 = i + 1
        /\ i + 1 \in 2..Len(frames)
    BY <1>3, <1>6, <1>11
  <2>2. frames'[1 + (i - 1)] = rest[i - 1] /\ rest[i - 1] = frames[(i - 1) + 2]
    BY <1>6, <1>10, <2>1
  <2> QED
    BY <2>1, <2>2
<1>13. \A i \in 1..Len(frames') : i = 1 \/ i \in 2..Len(frames')
  BY <1>3, <1>11
<1>14. \A i \in 2..Len(frames) : i \in 1..Len(frames)
  BY <1>3
<1>15. \A i \in 1..Len(frames') : FrameShape(frames'[i])
  BY <1>9, <1>11, <1>12, <1>13, <1>14 DEF VInv, FramesInv
<1>16. \A i \in 2..Len(frames') : Fits(frames'[i]) /\ frames'[i].todo # <<>>
  BY <1>12 DEF VInv, FramesInv
<1>17. frames' # <<>> /\ Head(frames') = f
  <2>1. Len(frames') > 0
    BY <1>2, <1>3, <1>11
  <2>2. frames' # <<>>
    BY <2>1, Nothing
  <2> QED
    BY <1>10, <1>11, <2>2, TailFacts
<1>18. FramesInv'
  BY <1>9, <1>10, <1>15, <1>16, <1>17 DEF FramesInv, Top
<1> QED
  BY <1>2, <1>18 DEF VInv, LowInv

-----------------------------------------------------------------------------
(* Clauses that become operators.                                          *)
LEMMA EmitOne ==
  ASSUME Proper, VInv, NEW kinds, At(kinds), NEW op, ~HidesInput(op),
         op.intro \subseteq UserVars, Emit(<<op>>, op.intro)
  PROVE  VInv'
<1>1. Straight(<<op>>) /\ Intros(<<op>>) = op.intro \cap Vars
  BY OneStraight
<1>2. Intros(<<op>>) \cap UserVars = op.intro
  BY <1>1 DEF Proper, ProperNames
<1> QED
  BY <1>1, <1>2, AtShape, Emitted

LEMMA CallStep == Proper /\ VInv /\ Call => VInv'
<1> SUFFICES ASSUME Proper, VInv, Call PROVE VInv'
  OBVIOUS
<1> DEFINE op == Node("ProcedureCall", Clause.reads, Clause.binds)
           tests == [i \in 1..Len(Clause.pred) |-> Node("Filter", Clause.pred[i], {})]
<1>1. At({"Call"}) /\ Emit(<<op>> \o tests, Clause.binds)
  BY DEF Call
<1>2. Clause.binds \subseteq UserVars /\ Len(Clause.pred) \in Nat
  BY <1>1, AtShape, ClauseShape DEF VInv, Proper, ProperClauses
<1>3. Straight(<<op>>) /\ Intros(<<op>>) = Clause.binds \cap Vars
  BY NodeShape, OneStraight
<1>4. Straight(tests) /\ Intros(tests) = {}
  <2>1. IsSequence(tests) /\ Len(tests) = Len(Clause.pred)
    BY <1>2, FunctionIsSequence
  <2>2. \A i \in 1..Len(tests) : tests[i].intro = {} /\ ~HidesInput(tests[i])
    BY <2>1, NodeShape
  <2> QED
    BY <2>1, <2>2, NothingIntroduced
<1> HIDE DEF op, tests
<1>5. /\ Straight(<<op>> \o tests)
      /\ Intros(<<op>> \o tests) \cap UserVars = Clause.binds
  BY <1>2, <1>3, <1>4, IntrosJoined DEF Proper, ProperNames
<1> QED
  BY <1>1, <1>5, AtShape, Emitted

LEMMA SimpleSteps ==
  Proper /\ VInv /\ (Where \/ LoadCsv \/ Unwind \/ Start \/ Update) => VInv'
<1> SUFFICES ASSUME Proper, VInv, Where \/ LoadCsv \/ Unwind \/ Start \/ Update PROVE VInv'
  OBVIOUS
<1>1. ASSUME NEW kind, NEW kinds, NEW used, At(kinds), Emit(<<Node(kind, used, {})>>, {})
      PROVE  VInv'
  <2> DEFINE op == Node(kind, used, {})
  <2>1. op.intro = {} /\ ~HidesInput(op)
    BY NodeShape
  <2>2. Emit(<<op>>, op.intro)
    BY <1>1, <2>1
  <2> HIDE DEF op
  <2> QED
    BY <1>1, <2>1, <2>2, EmitOne
<1>2. ASSUME NEW kind \in {"LoadCsv", "Unwind", "Start"}, NEW used, At({kind}),
             Emit(<<Node(kind, used, Clause.binds)>>, Clause.binds)
      PROVE  VInv'
  <2> DEFINE op == Node(kind, used, Clause.binds)
  <2>1. Clause.binds \subseteq UserVars
    BY <1>2, AtShape, ClauseShape DEF VInv, Proper, ProperClauses
  <2>2. op.intro = Clause.binds /\ ~HidesInput(op)
    BY NodeShape
  <2>3. Emit(<<op>>, op.intro)
    BY <1>2, <2>2
  <2> HIDE DEF op
  <2> QED
    BY <1>2, <2>1, <2>2, <2>3, EmitOne
<1>3. CASE Where
  BY <1>1, <1>3 DEF Where
<1>4. CASE Update
  BY <1>1, <1>4 DEF Update
<1>5. CASE LoadCsv
  BY <1>2, <1>5 DEF LoadCsv
<1>6. CASE Unwind
  BY <1>2, <1>6 DEF Unwind
<1>7. CASE Start
  BY <1>2, <1>7 DEF Start
<1> QED
  BY <1>3, <1>4, <1>5, <1>6, <1>7

LEMMA SetOfNames ==
  ASSUME NEW parts, \A i \in 1..Len(parts) : parts[i].names \subseteq UserVars
  PROVE  Names(parts) \subseteq UserVars
BY DEF Names

(* CREATE and MERGE.                                                       *)
LEMMA WriteStep == Proper /\ VInv /\ Write => VInv'
<1> SUFFICES ASSUME Proper, VInv, Write PROVE VInv'
  OBVIOUS
<1> DEFINE made == [i \in 1..Len(Clause.patterns) |->
                      Part(PatternBindings(Clause.patterns[i]), PatternReads(Clause.patterns[i]))]
           actions == IF Clause.kind = "Merge" THEN <<Part({}, Clause.reads)>> ELSE <<>>
           parts == made \o actions
           node == Node(Clause.kind, Reads(parts) \ Names(parts), Names(parts))
           op == [node EXCEPT !.parts = parts]
<1>1. At({"Create", "Merge"}) /\ Emit(<<op>>, Names(parts))
  BY DEF Write
<1>2. Clause.patterns \in Seq(AnyPattern)
  BY <1>1, AtShape, ClauseShape DEF VInv, Proper, ProperClauses
<1>3. /\ IsSequence(made) /\ Len(made) = Len(Clause.patterns)
      /\ \A i \in 1..Len(made) : made[i].names \subseteq UserVars
  <2>1. Len(Clause.patterns) \in Nat
    BY <1>2
  <2>2. IsSequence(made) /\ Len(made) = Len(Clause.patterns)
    BY <2>1, FunctionIsSequence
  <2>3. ASSUME NEW i \in 1..Len(Clause.patterns) PROVE made[i].names \subseteq UserVars
    <3>1. Clause.patterns[i] \in AnyPattern
      BY <1>2
    <3>2. PatternBindings(Clause.patterns[i]) \subseteq UserVars
      BY <3>1, BindingsOfPattern
    <3> QED
      BY <3>2 DEF Part
  <2> QED
    BY <2>2, <2>3
<1>4. /\ IsSequence(actions)
      /\ \A i \in 1..Len(actions) : actions[i].names = {}
  BY One, Nothing DEF Part
<1> HIDE DEF made, actions
<1>5. \A i \in 1..Len(parts) : parts[i].names \subseteq UserVars
  <2>1. /\ Len(parts) = Len(made) + Len(actions)
        /\ \A i \in 1..Len(made) : parts[i] = made[i]
        /\ \A i \in 1..Len(actions) : parts[Len(made) + i] = actions[i]
    BY <1>3, <1>4, Concatenated
  <2>2. Len(made) \in Nat /\ Len(actions) \in Nat
    BY <1>3, <1>4, SequenceFacts
  <2> HIDE DEF parts
  <2>3. ASSUME NEW i \in 1..Len(parts), i \notin 1..Len(made)
        PROVE  parts[i].names \subseteq UserVars
    <3>1. i - Len(made) \in 1..Len(actions) /\ Len(made) + (i - Len(made)) = i
      BY <2>1, <2>2, <2>3
    <3>2. parts[Len(made) + (i - Len(made))] = actions[i - Len(made)]
      BY <2>1, <3>1
    <3> QED
      BY <1>4, <3>1, <3>2
  <2> QED
    BY <1>3, <2>1, <2>3
<1> HIDE DEF parts
<1>6. Names(parts) \subseteq UserVars
  BY <1>5, SetOfNames
<1>7. op.intro = Names(parts) /\ ~HidesInput(op)
  BY DEF Node, HidesInput
<1>8. Emit(<<op>>, op.intro)
  BY <1>1, <1>7
<1> HIDE DEF op
<1> QED
  BY <1>1, <1>6, <1>7, <1>8, EmitOne

-----------------------------------------------------------------------------
(* WITH: the projection hides all names but its own, or adds its own.      *)
LEMMA WithStep == Proper /\ VInv /\ With => VInv'
<1> SUFFICES ASSUME Proper, VInv, With PROVE VInv'
  OBVIOUS
<1> DEFINE op == ProjectItems(Clause.star, Clause.items)
           once == Deduplicate(Clause.distinct)
           names == ItemNames(Clause.items)
           seen == (IF Clause.star THEN Top.visible ELSE {}) \cup names
           f == [Top EXCEPT !.main = @ \o <<op>> \o once, !.visible = seen]
<1>1. At({"With"}) /\ Proceed(f) /\ low' = low
  BY DEF With
<1>2. FrameShape(Top) /\ Fits(Top)
  BY <1>1, AtShape, TopShape DEF VInv, FramesInv
<1>3. names \subseteq UserVars
  <2>1. Clause.items \in Seq(AnyItem)
    BY <1>1, AtShape, ClauseShape DEF VInv, Proper, ProperClauses
  <2>2. ASSUME NEW i \in 1..Len(Clause.items)
        PROVE  Named(ItemName(Clause.items[i])) \subseteq UserVars
    <3>1. Clause.items[i] \in AnyItem
      BY <2>1
    <3> QED
      BY <3>1 DEF Proper, ProperItems, ItemName, Named, AnyVar
  <2> QED
    BY <2>2 DEF ItemNames
<1>4. op.intro = names /\ (HidesInput(op) <=> ~Clause.star)
  <2> DEFINE parts == [i \in 1..Len(Clause.items) |->
                         Part(Named(ItemName(Clause.items[i])), Clause.items[i].reads)]
  <2>1. Len(parts) = Len(Clause.items)
    <3>1. Clause.items \in Seq(AnyItem)
      BY <1>1, AtShape, ClauseShape DEF VInv, Proper, ProperClauses
    <3>2. Len(Clause.items) \in Nat
      BY <3>1
    <3> QED
      BY <3>2, FunctionIsSequence
  <2>2. Names(parts) = names
    BY <2>1 DEF Names, ItemNames, Part
  <2>3. /\ op.intro = Names(parts)
        /\ HidesInput(op) <=> ~Clause.star
    BY DEF ProjectItems, Projection, Node, HidesInput
  <2> QED
    BY <2>2, <2>3
<1>5. Straight(once) /\ Intros(once) = {}
  BY NodeShape, OneStraight, NothingBound DEF Deduplicate
<1>6. /\ DOMAIN f = FrameFields /\ f.todo = Top.todo
      /\ f.main = Top.main \o <<op>> \o once /\ f.visible = seen
  BY <1>2 DEF FrameShape, FrameFields
<1> HIDE DEF op, once, names, f
<1>7. Top.main \o <<op>> = Append(Top.main, op)
  <2>1. PICK S : Top.main \in Seq(S)
    BY <1>2 DEF FrameShape, IsSequence
  <2> QED
    BY <2>1
<1>8. IsSequence(Top.main) /\ IsSequence(Append(Top.main, op))
  BY <1>2, Appended DEF FrameShape
<1>9. IsSequence(f.main) /\ BoundVars(f.main) = BoundVars(Append(Top.main, op))
  <2>1. f.main = Append(Top.main, op) \o once
    BY <1>6, <1>7
  <2>2. IsSequence(once)
    BY <1>5 DEF Straight
  <2>3. IsSequence(Append(Top.main, op) \o once)
    BY <1>8, <2>2, Concatenated
  <2>4. BoundVars(Append(Top.main, op) \o once) = BoundVars(Append(Top.main, op)) \cup {}
    BY <1>5, <1>8, BoundJoined
  <2> QED
    BY <2>1, <2>3, <2>4
<1>10. BoundVars(Append(Top.main, op)) =
         (op.intro \cap Vars) \cup (IF HidesInput(op) THEN {} ELSE BoundVars(Top.main))
  BY <1>8, BoundAppended
<1>11. Fits(f)
  BY <1>2, <1>3, <1>4, <1>6, <1>9, <1>10 DEF Fits, Proper, ProperNames
<1> QED
  BY <1>1, <1>6, <1>9, <1>11, AtShape, ProceedTop

LEMMA SchemaStep == VInv /\ SchemaCommand => VInv'
<1> SUFFICES ASSUME VInv, SchemaCommand PROVE VInv'
  OBVIOUS
<1> DEFINE op == Node("SchemaCommand", {}, {})
           f == [Top EXCEPT !.main = <<op>>]
<1>1. At({"SchemaCommand"}) /\ Proceed(f) /\ low' = low
  BY DEF SchemaCommand
<1>2. FrameShape(Top)
  BY <1>1, AtShape, TopShape DEF VInv
<1>3. /\ DOMAIN f = FrameFields /\ f.todo = Top.todo /\ f.main = <<op>>
      /\ f.visible = Top.visible
  BY <1>2 DEF FrameShape, FrameFields
<1>4. Straight(<<op>>) /\ Intros(<<op>>) = {}
  BY NodeShape, OneStraight
<1>5. HasSchemaCommand(Top.todo)
  <2>1. Len(Top.todo) \in Nat /\ Len(Top.todo) > 0 /\ Top.todo[1].kind = "SchemaCommand"
    BY <1>1, <1>2, AtShape DEF FrameShape, Clause
  <2>2. 1 \in 1..Len(Top.todo)
    BY <2>1
  <2> QED
    BY <2>1, <2>2 DEF HasSchemaCommand
<1> HIDE DEF f
<1>6. Fits(f)
  BY <1>2, <1>3, <1>4, <1>5, BoundStraight DEF Fits, FrameShape
<1> QED
  BY <1>1, <1>3, <1>4, <1>6, AtShape, ProceedTop DEF Straight

(* RETURN, ORDER BY, SKIP and LIMIT are kept aside.                        *)
LEMMA KeptStep == VInv /\ (Return \/ OrderBy \/ Skip \/ Limit) => VInv'
<1> SUFFICES ASSUME VInv, Return \/ OrderBy \/ Skip \/ Limit PROVE VInv'
  OBVIOUS
<1>1. \E kinds : At(kinds)
  BY DEF Return, OrderBy, Skip, Limit
<1>2. frames # <<>> /\ ~low.on /\ Top.todo # <<>> /\ low' = low
  BY <1>1, AtShape DEF Return, OrderBy, Skip, Limit
<1>3. DOMAIN Top = FrameFields
  BY <1>2, TopShape DEF VInv, FrameShape
<1>4. PICK f : /\ Proceed(f) /\ DOMAIN f = FrameFields
               /\ f.todo = Top.todo /\ f.main = Top.main /\ f.visible = Top.visible
  <2>1. CASE Return
    <3> DEFINE f == [Top EXCEPT
                       !.project  = Some(ProjectItems(Clause.star, Clause.items)),
                       !.distinct = Clause.distinct,
                       !.columns  = Some(Len(Clause.items)
                         + IF Clause.star THEN Cardinality(Top.visible) ELSE 0)]
    <3>1. Proceed(f)
      BY <2>1 DEF Return
    <3>2. /\ DOMAIN f = FrameFields /\ f.todo = Top.todo
          /\ f.main = Top.main /\ f.visible = Top.visible
      BY <1>3 DEF FrameFields
    <3> HIDE DEF f
    <3> QED
      BY <3>1, <3>2
  <2>2. CASE OrderBy
    BY <1>3, <2>2 DEF OrderBy, FrameFields
  <2>3. CASE Skip
    BY <1>3, <2>3 DEF Skip, FrameFields
  <2>4. CASE Limit
    BY <1>3, <2>4 DEF Limit, FrameFields
  <2> QED
    BY <2>1, <2>2, <2>3, <2>4
<1> QED
  BY <1>2, <1>4, Kept

-----------------------------------------------------------------------------
(* The lowering of a MATCH.                                                *)
LEMMA LoweringShape ==
  ASSUME Proper, NEW ps \in Seq(AnyPattern), ps # <<>>, NEW combined
  PROVE  LET l == Lowering(ps, combined)
         IN  /\ DOMAIN l = LowFields /\ l.on /\ l.patterns = ps /\ l.combined = combined
             /\ l.chain = Head(ps).chain /\ l.chain \in Seq(AnyLink) /\ l.next \in Nat
             /\ Straight(l.path)
             /\ Intros(l.path) \cap UserVars = Named(Head(ps).anchor.var)
<1> DEFINE p == Head(ps)
           var == EffectiveVar(p.anchor, "node", 0)
           scan == Node("Scan", {}, Named(var))
           preds == Predicates(p.anchor, var)
           l == Lowering(ps, combined)
<1>1. p \in AnyPattern
  OBVIOUS
<1>2. p.anchor.var \in AnyVar /\ p.chain \in Seq(AnyLink)
  BY <1>1 DEF Proper, ProperPatterns
<1>3. Named(var) \cap UserVars = Named(p.anchor.var) /\ After(p.anchor, 0) \in Nat
  BY <1>2, EffectiveName
<1>4. /\ DOMAIN l = LowFields /\ l.on /\ l.patterns = ps /\ l.combined = combined
      /\ l.chain = p.chain /\ l.next = After(p.anchor, 0)
      /\ l.path = <<scan>> \o preds
  BY DEF Lowering, LowFields
<1>5. Straight(<<scan>>) /\ Intros(<<scan>>) = Named(var) \cap Vars
  BY NodeShape, OneStraight
<1>6. Straight(preds) /\ Intros(preds) = {}
  BY PredicatesShape
<1> HIDE DEF p, var, scan, preds, l
<1>7. Straight(l.path) /\ Intros(l.path) = Named(var) \cap Vars
  BY <1>4, <1>5, <1>6, IntrosJoined
<1>8. Intros(l.path) \cap UserVars = Named(p.anchor.var)
  BY <1>3, <1>7 DEF Proper, ProperNames
<1> QED
  BY <1>2, <1>3, <1>4, <1>7, <1>8 DEF p, l

(* What a pattern binds, in the order it is lowered.                       *)
LEMMA PatternPieces ==
  ASSUME Proper, NEW ps \in Seq(AnyPattern), ps # <<>>
  PROVE  PatternNames(ps) =
           Named(Head(ps).anchor.var) \cup ChainNames(Head(ps).chain)
             \cup Named(Head(ps).path) \cup PatternNames(Tail(ps))
<1>1. Head(ps) \in AnyPattern
  OBVIOUS
<1>2. PatternBindings(Head(ps)) =
        Named(Head(ps).path) \cup Named(Head(ps).anchor.var) \cup ChainNames(Head(ps).chain)
  BY <1>1, BindingsOfPattern
<1> QED
  BY <1>2, PatternSplit

LEMMA BeginMatchStep == Proper /\ VInv /\ BeginMatch => VInv'
<1> SUFFICES ASSUME Proper, VInv, BeginMatch PROVE VInv'
  OBVIOUS
<1> DEFINE ps == Clause.patterns
           f == [Top EXCEPT !.visible = @ \cup Patterns(ps, PatternBindings)]
<1>1. /\ frames # <<>> /\ ~low.on /\ Top.todo # <<>> /\ Clause.kind \in {"Match"}
  BY AtShape DEF BeginMatch
<1>2. CASE ps = <<>>
  BY <1>2, Unchanged DEF BeginMatch, Fail
<1>3. CASE ps # <<>>
  <2>1. frames' = <<f>> \o Tail(frames) /\ low' = Lowering(ps, <<>>)
    BY <1>3 DEF BeginMatch
  <2>2. ps \in Seq(AnyPattern)
    BY <1>1, ClauseShape DEF VInv, Proper, ProperClauses
  <2>3. FrameShape(Top) /\ Fits(Top) /\ ~HasSchemaCommand(Top.todo)
    BY <1>1, TopShape, ClauseShape DEF VInv, FramesInv
  <2>4. /\ DOMAIN f = FrameFields /\ f.todo = Top.todo /\ f.main = Top.main
        /\ f.visible = Top.visible \cup PatternNames(ps)
    BY <2>3 DEF FrameShape, FrameFields, PatternNames
  <2>5. Clause = Head(Top.todo)
    BY DEF Clause
  <2> HIDE DEF f, ps
  <2>6. FrameShape(f)
    BY <2>3, <2>4 DEF FrameShape
  <2>7. /\ IsSequence(frames') /\ Len(frames') = Len(frames) /\ frames' # <<>>
        /\ Head(frames') = f /\ frames'[1] = f
        /\ \A i \in 2..Len(frames) : frames'[i] = frames[i]
    BY <1>1, <2>1, Replaced DEF VInv
  <2>8. /\ DOMAIN low' = LowFields /\ low'.on /\ low'.patterns = ps /\ low'.combined = <<>>
        /\ low'.chain = Head(ps).chain /\ low'.chain \in Seq(AnyLink) /\ low'.next \in Nat
        /\ Straight(low'.path)
        /\ Intros(low'.path) \cap UserVars = Named(Head(ps).anchor.var)
    BY <1>3, <2>1, <2>2, LoweringShape
  <2>9. FramesInv'
    <3>1. \A i \in 1..Len(frames) : i = 1 \/ i \in 2..Len(frames)
      BY <1>1, TopShape DEF VInv
    <3>2. \A i \in 1..Len(frames') : FrameShape(frames'[i])
      BY <2>6, <2>7, <3>1 DEF VInv, FramesInv
    <3>3. \A i \in 2..Len(frames') : Fits(frames'[i]) /\ frames'[i].todo # <<>>
      BY <2>7 DEF VInv, FramesInv
    <3> QED
      BY <2>7, <2>8, <3>2, <3>3 DEF FramesInv
  <2>10. Top' = f /\ Clause' = Clause
    BY <2>4, <2>5, <2>7 DEF Top, Clause
  <2>11. Clause'.kind = "Match" /\ Clause'.patterns = ps
    BY <1>1, <2>10 DEF ps
  <2>12. f.visible = (BoundVars(f.main) \cap UserVars) \cup PatternNames(ps)
    BY <2>3, <2>4 DEF Fits
  <2>13. PatternNames(ps) = (Intros(<<>>) \cap UserVars)
            \cup (Intros(low'.path) \cap UserVars) \cup StillToCome'
    <3>1. PatternNames(ps) =
            Named(Head(ps).anchor.var) \cup ChainNames(Head(ps).chain)
              \cup Named(Head(ps).path) \cup PatternNames(Tail(ps))
      BY <1>3, <2>2, PatternPieces
    <3>2. StillToCome' = ChainNames(Head(ps).chain) \cup Named(Head(ps).path)
                           \cup PatternNames(Tail(ps))
      BY <2>8 DEF StillToCome
    <3> QED
      BY <2>8, <3>1, <3>2, NothingBound
  <2>14. LowInv'
    BY <1>1, <1>3, <2>2, <2>4, <2>7, <2>8, <2>10, <2>11, <2>12, <2>13, NothingBound
       DEF LowInv
  <2> QED
    BY <2>9, <2>14 DEF VInv
<1> QED
  BY <1>2, <1>3

(* A step of the lowering, the frames as they are.                         *)
LEMMA LoweringGoesOn ==
  ASSUME VInv, low.on, UNCHANGED frames,
         DOMAIN low' = LowFields, low'.on,
         low'.patterns \in Seq(AnyPattern), low'.chain \in Seq(AnyLink), low'.next \in Nat,
         Straight(low'.combined), Straight(low'.path),
         PatternNames(Clause.patterns) =
           (Intros(low'.combined) \cap UserVars)
             \cup (IF low'.patterns = <<>> THEN {}
                   ELSE (Intros(low'.path) \cap UserVars) \cup StillToCome')
  PROVE  VInv'
<1>1. Top' = Top /\ Clause' = Clause
  BY DEF Top, Clause
<1>2. FramesInv'
  BY DEF VInv, FramesInv
<1>3. LowInv'
  BY <1>1 DEF VInv, LowInv
<1> QED
  BY <1>2, <1>3 DEF VInv

LEMMA LowerLinkStep == Proper /\ VInv /\ LowerLink => VInv'
<1> SUFFICES ASSUME Proper, VInv, LowerLink PROVE VInv'
  OBVIOUS
<1> DEFINE c == Head(low.chain)
           rel == EffectiveVar(c.rel, "rel", low.next)
           next == After(c.rel, low.next)
           dst == EffectiveVar(c.node, "node", next)
           op == Node("Expand", Named(low.head), Named(rel) \cup Named(dst))
           rels == Predicates(c.rel, rel)
           nodes == Predicates(c.node, dst)
<1>1. /\ low.on /\ low.patterns # <<>> /\ low.chain # <<>> /\ frames' = frames
      /\ low' = [low EXCEPT !.path = @ \o <<op>> \o rels \o nodes, !.head = dst,
                            !.next = After(c.node, next), !.chain = Tail(@)]
  BY DEF LowerLink
<1>2. /\ DOMAIN low = LowFields
      /\ low.patterns \in Seq(AnyPattern) /\ low.chain \in Seq(AnyLink) /\ low.next \in Nat
      /\ Straight(low.combined) /\ Straight(low.path)
      /\ PatternNames(Clause.patterns) =
           (Intros(low.combined) \cap UserVars) \cup (Intros(low.path) \cap UserVars)
              \cup StillToCome
  BY <1>1 DEF VInv, LowInv
<1>3. c \in AnyLink /\ Tail(low.chain) \in Seq(AnyLink)
  BY <1>1, <1>2
<1>4. c.rel.var \in AnyVar /\ c.node.var \in AnyVar
  BY <1>3 DEF Proper, ProperLinks
<1>5. Named(rel) \cap UserVars = Named(c.rel.var) /\ next \in Nat
  BY <1>2, <1>4, EffectiveName
<1> HIDE DEF c, rel, next
<1>6. Named(dst) \cap UserVars = Named(c.node.var) /\ After(c.node, next) \in Nat
  BY <1>4, <1>5, EffectiveName
<1>7. /\ DOMAIN low' = LowFields /\ low'.on /\ low'.patterns = low.patterns
      /\ low'.combined = low.combined /\ low'.chain = Tail(low.chain)
      /\ low'.next = After(c.node, next)
      /\ low'.path = low.path \o <<op>> \o rels \o nodes
  BY <1>1, <1>2 DEF LowFields
<1>8. Straight(<<op>>) /\ Intros(<<op>>) = (Named(rel) \cup Named(dst)) \cap Vars
  BY NodeShape, OneStraight
<1>9. Straight(rels) /\ Intros(rels) = {} /\ Straight(nodes) /\ Intros(nodes) = {}
  BY PredicatesShape
<1> HIDE DEF op, rels, nodes, dst
<1>10. Straight(low'.path) /\ Intros(low'.path) =
         Intros(low.path) \cup ((Named(rel) \cup Named(dst)) \cap Vars)
  <2>1. /\ Straight(low.path \o <<op>>)
        /\ Intros(low.path \o <<op>>) = Intros(low.path) \cup Intros(<<op>>)
    BY <1>2, <1>8, IntrosJoined
  <2>2. /\ Straight(low.path \o <<op>> \o rels)
        /\ Intros(low.path \o <<op>> \o rels) = Intros(low.path) \cup Intros(<<op>>)
    BY <1>9, <2>1, IntrosJoined
  <2>3. /\ Straight(low.path \o <<op>> \o rels \o nodes)
        /\ Intros(low.path \o <<op>> \o rels \o nodes) = Intros(low.path) \cup Intros(<<op>>)
    BY <1>9, <2>2, IntrosJoined
  <2> QED
    BY <1>7, <1>8, <2>3
<1>11. ChainNames(low.chain) =
         Named(c.rel.var) \cup Named(c.node.var) \cup ChainNames(Tail(low.chain))
  BY <1>1, <1>2, ChainSplit DEF c
<1>12. (Intros(low'.path) \cap UserVars) \cup ChainNames(low'.chain)
         = (Intros(low.path) \cap UserVars) \cup ChainNames(low.chain)
  BY <1>5, <1>6, <1>7, <1>10, <1>11 DEF Proper, ProperNames
<1>13. PatternNames(Clause.patterns) =
         (Intros(low'.combined) \cap UserVars) \cup (Intros(low'.path) \cap UserVars)
            \cup StillToCome'
  BY <1>2, <1>7, <1>12 DEF StillToCome
<1> QED
  BY <1>1, <1>2, <1>3, <1>6, <1>7, <1>10, <1>13, LoweringGoesOn

LEMMA PatternDoneStep == Proper /\ VInv /\ PatternDone => VInv'
<1> SUFFICES ASSUME Proper, VInv, PatternDone PROVE VInv'
  OBVIOUS
<1> DEFINE p == Head(low.patterns)
           more == Tail(low.patterns)
           short == IF p.shortest THEN <<Node("ShortestPath", {}, {})>> ELSE <<>>
           named == IF p.path # NoVar THEN <<Node("NamedPath", {}, {p.path})>> ELSE <<>>
           done == low.path \o short \o named
           op == Branching("Cartesian", free, BoundVars(done))
           sofar == IF low.combined = <<>> THEN done ELSE Append(low.combined, op)
<1>1. /\ low.on /\ low.patterns # <<>> /\ low.chain = <<>> /\ frames' = frames
      /\ low' = IF more = <<>> THEN [low EXCEPT !.patterns = more, !.combined = sofar]
                ELSE Lowering(more, sofar)
  BY DEF PatternDone
<1>2. /\ DOMAIN low = LowFields
      /\ low.patterns \in Seq(AnyPattern) /\ low.chain \in Seq(AnyLink) /\ low.next \in Nat
      /\ Straight(low.combined) /\ Straight(low.path)
      /\ PatternNames(Clause.patterns) =
           (Intros(low.combined) \cap UserVars) \cup (Intros(low.path) \cap UserVars)
              \cup StillToCome
  BY <1>1 DEF VInv, LowInv
<1>3. p \in AnyPattern /\ more \in Seq(AnyPattern) /\ p.path \in AnyVar
  BY <1>1, <1>2 DEF Proper, ProperPatterns
<1>4. Straight(short) /\ Intros(short) = {}
  BY NodeShape, OneStraight, NothingBound
<1>5. Straight(named) /\ Intros(named) = Named(p.path) \cap Vars
  <2>1. CASE p.path # NoVar
    BY <2>1, NodeShape, OneStraight DEF Named
  <2>2. CASE p.path = NoVar
    BY <2>2, NothingBound DEF Named
  <2> QED
    BY <2>1, <2>2
<1>6. StillToCome = Named(p.path) \cup PatternNames(more)
  <2>1. ChainNames(low.chain) = {}
    BY <1>1 DEF ChainNames
  <2> QED
    BY <2>1 DEF StillToCome
<1> HIDE DEF p, more, short, named
<1>7. Straight(done) /\ Intros(done) = Intros(low.path) \cup (Named(p.path) \cap Vars)
  <2>1. /\ Straight(low.path \o short)
        /\ Intros(low.path \o short) = Intros(low.path) \cup Intros(short)
    <3> HIDE DEF done, op, sofar
    <3> QED
      BY <1>2, <1>4, IntrosJoined
  <2>2. Intros(low.path \o short) = Intros(low.path)
    BY <1>4, <2>1
  <2>3. /\ Straight(low.path \o short \o named)
        /\ Intros(low.path \o short \o named) =
             Intros(low.path \o short) \cup Intros(named)
    BY <1>5, <2>1, IntrosJoined
  <2> QED
    BY <1>5, <2>2, <2>3
<1> HIDE DEF done
<1>8. BoundVars(done) = Intros(done) /\ Intros(done) \subseteq Vars
  BY <1>7, BoundStraight DEF Intros
<1>9. Straight(sofar) /\ Intros(sofar) = Intros(low.combined) \cup Intros(done)
  <2>1. CASE low.combined = <<>>
    BY <1>7, <2>1, NothingBound
  <2>2. CASE low.combined # <<>>
    <3>1. Straight(<<op>>) /\ Intros(<<op>>) = BoundVars(done) \cap Vars
      BY BranchingShape, OneStraight
    <3>2. Append(low.combined, op) = low.combined \o <<op>>
      <4>1. PICK S : low.combined \in Seq(S)
        BY <1>2 DEF Straight, IsSequence
      <4> QED
        BY <4>1
    <3> HIDE DEF op
    <3> QED
      BY <1>2, <1>8, <2>2, <3>1, <3>2, IntrosJoined
  <2> QED
    BY <2>1, <2>2
<1> HIDE DEF op, sofar
<1>10. PatternNames(Clause.patterns) =
         (Intros(sofar) \cap UserVars) \cup PatternNames(more)
  <2>1. Named(p.path) \subseteq UserVars
    BY <1>3 DEF AnyVar, Named
  <2> QED
    BY <1>2, <1>6, <1>7, <1>9, <2>1 DEF Proper, ProperNames
<1>11. CASE more = <<>>
  <2>1. /\ DOMAIN low' = LowFields /\ low'.on /\ low'.patterns = <<>>
        /\ low'.combined = sofar /\ low'.chain = low.chain /\ low'.next = low.next
        /\ low'.path = low.path
    BY <1>1, <1>2, <1>11 DEF LowFields
  <2>2. PatternNames(more) = {}
    BY <1>11 DEF PatternNames, Patterns
  <2>3. PatternNames(Clause.patterns) = Intros(low'.combined) \cap UserVars
    BY <1>10, <2>1, <2>2
  <2>4. low'.patterns \in Seq(AnyPattern)
    BY <1>3, <1>11, <2>1
  <2> QED
    BY <1>1, <1>2, <1>9, <2>1, <2>3, <2>4, LoweringGoesOn
<1>12. CASE more # <<>>
  <2>1. /\ DOMAIN low' = LowFields /\ low'.on /\ low'.patterns = more
        /\ low'.combined = sofar
        /\ low'.chain = Head(more).chain /\ low'.chain \in Seq(AnyLink) /\ low'.next \in Nat
        /\ Straight(low'.path)
        /\ Intros(low'.path) \cap UserVars = Named(Head(more).anchor.var)
    BY <1>1, <1>3, <1>12, LoweringShape
  <2>2. PatternNames(more) =
          Named(Head(more).anchor.var) \cup ChainNames(Head(more).chain)
            \cup Named(Head(more).path) \cup PatternNames(Tail(more))
    BY <1>3, <1>12, PatternPieces
  <2>3. StillToCome' = ChainNames(Head(more).chain) \cup Named(Head(more).path)
                         \cup PatternNames(Tail(more))
    BY <2>1 DEF StillToCome
  <2>4. PatternNames(Clause.patterns) =
          (Intros(low'.combined) \cap UserVars) \cup (Intros(low'.path) \cap UserVars)
             \cup StillToCome'
    BY <1>10, <2>1, <2>2, <2>3
  <2> QED
    BY <1>1, <1>3, <1>9, <1>12, <2>1, <2>4, LoweringGoesOn
<1> QED
  BY <1>11, <1>12

(* The MATCH joins what is there, or begins the plan.                      *)
LEMMA EndMatchStep == Proper /\ VInv /\ EndMatch => VInv'
<1> SUFFICES ASSUME Proper, VInv, EndMatch PROVE VInv'
  OBVIOUS
<1> DEFINE hint == Node("PlannerHint", {}, {})
           hints == [i \in 1..Clause.hints |-> hint]
           lowered == low.combined \o hints
           joins == IF Clause.optional THEN "Optional" ELSE "Cartesian"
           second == Branching(joins, free, BoundVars(lowered))
           alone == [Top EXCEPT !.main = lowered]
           joined == [Top EXCEPT !.main = Append(@, second)]
<1>1. low.on /\ low.patterns = <<>>
  BY DEF EndMatch
<1>2. /\ frames # <<>> /\ Top.todo # <<>> /\ Clause.kind = "Match" /\ Straight(low.combined)
      /\ Top.visible = (BoundVars(Top.main) \cap UserVars)
                         \cup (Intros(low.combined) \cap UserVars)
  BY <1>1 DEF VInv, LowInv
<1>3. \/ UNCHANGED <<frames, low>>
      \/ Top.main = <<>> /\ Proceed(alone) /\ low' = Idle
      \/ Proceed(joined) /\ low' = Idle
  BY DEF EndMatch, Fail
<1>4. FrameShape(Top)
  BY <1>2, TopShape DEF VInv
<1>5. Straight(hints) /\ Intros(hints) = {}
  <2>1. Clause.hints \in Nat
    BY <1>2, ClauseShape DEF VInv, Proper, ProperClauses
  <2>2. IsSequence(hints) /\ Len(hints) = Clause.hints
    BY <2>1, FunctionIsSequence
  <2>3. hint.intro = {} /\ ~HidesInput(hint)
    BY NodeShape
  <2> HIDE DEF hint
  <2> QED
    BY <2>2, <2>3, NothingIntroduced
<1> HIDE DEF hints
<1>6. Straight(lowered) /\ Intros(lowered) = Intros(low.combined)
  <2>1. /\ Straight(low.combined \o hints)
        /\ Intros(low.combined \o hints) = Intros(low.combined) \cup Intros(hints)
    BY <1>2, <1>5, IntrosJoined
  <2> HIDE DEF second, alone, joined
  <2> QED
    BY <1>5, <2>1
<1>7. /\ DOMAIN alone = FrameFields /\ alone.todo = Top.todo /\ alone.main = lowered
      /\ alone.visible = Top.visible
  BY <1>4 DEF FrameShape, FrameFields
<1>8. /\ DOMAIN joined = FrameFields /\ joined.todo = Top.todo
      /\ joined.main = Append(Top.main, second) /\ joined.visible = Top.visible
  BY <1>4 DEF FrameShape, FrameFields
<1> HIDE DEF lowered
<1>9. second.intro = BoundVars(lowered) /\ ~HidesInput(second)
  BY BranchingShape
<1> HIDE DEF second, alone, joined
<1>10. BoundVars(lowered) = Intros(low.combined) /\ Intros(low.combined) \subseteq Vars
  BY <1>6, BoundStraight DEF Intros
<1>11. low' = Idle => ~low'.on
  BY DEF Idle
<1>12. CASE UNCHANGED <<frames, low>>
  BY <1>12, Unchanged
<1>13. CASE Top.main = <<>> /\ Proceed(alone) /\ low' = Idle
  <2>1. IsSequence(alone.main)
    BY <1>6, <1>7 DEF Straight
  <2>2. Fits(alone)
    BY <1>2, <1>7, <1>10, <1>13, NothingBound DEF Fits
  <2> QED
    BY <1>2, <1>7, <1>11, <1>13, <2>1, <2>2, ProceedTop
<1>14. CASE Proceed(joined) /\ low' = Idle
  <2>1. IsSequence(Top.main)
    BY <1>4 DEF FrameShape
  <2>2. IsSequence(joined.main)
    BY <1>8, <2>1, Appended
  <2>3. BoundVars(joined.main) = (second.intro \cap Vars) \cup BoundVars(Top.main)
    BY <1>8, <1>9, <2>1, BoundAppended
  <2>4. Fits(joined)
    BY <1>2, <1>8, <1>9, <1>10, <2>3 DEF Fits
  <2> QED
    BY <1>2, <1>8, <1>11, <1>14, <2>2, <2>4, ProceedTop
<1> QED
  BY <1>3, <1>12, <1>13, <1>14

-----------------------------------------------------------------------------
LEMMA CombineStep == VInv /\ (Combine \/ UNCHANGED vars) => VInv'
<1> SUFFICES ASSUME VInv, Combine \/ UNCHANGED vars PROVE VInv'
  OBVIOUS
<1>1. UNCHANGED <<frames, low>>
  BY SMTT(30) DEF Combine, Fail, vars
<1> QED
  BY <1>1, Unchanged

LEMMA QueryStays == Next => query' = query
BY DEF Next, Work, Returned, Begin, Lower, BeginMatch, LowerLink, PatternDone, EndMatch,
       Where, Call, LoadCsv, Unwind, Start, Write, Update, SchemaCommand, With, Return,
       OrderBy, Skip, Limit, BeginForeach, EndBody, EndBranch, Combine, Emit, Fail, vars

LEMMA EveryStep == Proper /\ query \in Queries /\ VInv /\ [Next]_vars => VInv'
<1> SUFFICES ASSUME Proper, query \in Queries, VInv, [Next]_vars PROVE VInv'
  OBVIOUS
<1>1. CASE Begin
  <2>1. frames = <<>>
    BY <1>1 DEF Begin
  <2>2. ~low.on
    BY <2>1 DEF VInv, LowInv
  <2> QED
    BY <1>1, <2>2, BeginStep
<1>2. CASE Lower
  BY <1>2, BeginMatchStep, LowerLinkStep, PatternDoneStep, EndMatchStep DEF Lower
<1>3. CASE Where \/ LoadCsv \/ Unwind \/ Start \/ Update
  BY <1>3, SimpleSteps
<1>4. CASE Call
  BY <1>4, CallStep
<1>5. CASE Write
  BY <1>5, WriteStep
<1>6. CASE SchemaCommand
  BY <1>6, SchemaStep
<1>7. CASE With
  BY <1>7, WithStep
<1>8. CASE Return \/ OrderBy \/ Skip \/ Limit
  BY <1>8, KeptStep
<1>9. CASE BeginForeach
  BY <1>9, ForeachStep
<1>10. CASE EndBody
  BY <1>10, EndBodyStep
<1>11. CASE EndBranch
  BY <1>11, EndBranchStep
<1>12. CASE Combine \/ UNCHANGED vars
  BY <1>12, CombineStep
<1>13. CASE Returned
  BY <1>13, CombineStep DEF Returned
<1> QED
  BY <1>1, <1>2, <1>3, <1>4, <1>5, <1>6, <1>7, <1>8, <1>9, <1>10, <1>11, <1>12, <1>13
     DEF Next, Work

(* plan_branch keeps the names of the query that the plan it builds binds: *)
(* the columns a star stands for are counted right, after any clauses, at  *)
(* every depth of FOREACH.                                                 *)
THEOREM VisibleNamesAreBound ==
  ASSUME Proper
  PROVE  Spec => []VisibleIsBound
<1> DEFINE I == query \in Queries /\ VInv
<1>1. Init => I
  BY Beginning DEF Init
<1>2. I /\ [Next]_vars => I'
  <2> SUFFICES ASSUME I, [Next]_vars PROVE I'
    OBVIOUS
  <2>1. query' = query
    BY QueryStays DEF vars
  <2> QED
    BY <2>1, EveryStep
<1>3. I => VisibleIsBound
  <2> SUFFICES ASSUME VInv, NEW i \in 1..Len(frames), ~low.on PROVE Fits(frames[i])
    BY DEF VisibleIsBound, Fits
  <2>1. frames # <<>>
    BY Nothing
  <2>2. Top = frames[1] /\ Fits(Top) /\ Len(frames) \in Nat
    BY <2>1, TopShape DEF VInv, FramesInv
  <2>3. i = 1 \/ i \in 2..Len(frames)
    BY <2>2
  <2> QED
    BY <2>2, <2>3 DEF VInv, FramesInv
<1> QED
  BY <1>1, <1>2, <1>3, PTL DEF Spec

-----------------------------------------------------------------------------
(* What the analysis knows of names after the clauses of a branch.         *)
Known(cs, n, f) ==
  f = [i \in 0..n |-> IF i = 0 THEN NoTypes ELSE TypesAfter(f[i - 1], cs[i])]

LEMMA KnownExists ==
  ASSUME NEW cs
  PROVE  \A n \in Nat : \E f : Known(cs, n, f)
<1> DEFINE T == {n \in Nat : \E f : Known(cs, n, f)}
<1>1. 0 \in T
  <2> DEFINE f == [i \in 0..0 |-> NoTypes]
  <2>1. f = [i \in 0..0 |-> IF i = 0 THEN NoTypes ELSE TypesAfter(f[i - 1], cs[i])]
    <3>1. \A i \in 0..0 : i = 0
      OBVIOUS
    <3> QED
      BY <3>1
  <2> HIDE DEF f
  <2>2. Known(cs, 0, f)
    BY <2>1 DEF Known
  <2> QED
    BY <2>2
<1>2. ASSUME NEW n \in Nat, n \in T PROVE n + 1 \in T
  <2>1. PICK f : Known(cs, n, f)
    BY <1>2
  <2> DEFINE g == [i \in 0..(n + 1) |->
                     IF i = n + 1 THEN TypesAfter(f[n], cs[n + 1]) ELSE f[i]]
  <2>2. ASSUME NEW i \in 0..(n + 1)
        PROVE  g[i] = IF i = 0 THEN NoTypes ELSE TypesAfter(g[i - 1], cs[i])
    <3>1. CASE i = n + 1
      <4>1. i # 0 /\ i - 1 = n /\ n \in 0..(n + 1) /\ n # n + 1
        BY <3>1
      <4>2. g[i - 1] = f[n] /\ g[i] = TypesAfter(f[n], cs[n + 1])
        BY <3>1, <4>1
      <4> QED
        BY <3>1, <4>1, <4>2
    <3>2. CASE i # n + 1
      <4>1. i \in 0..n /\ (i # 0 => i - 1 \in 0..(n + 1) /\ i - 1 # n + 1)
        BY <3>2
      <4>2. g[i] = f[i] /\ (i # 0 => g[i - 1] = f[i - 1])
        BY <3>2, <4>1
      <4>3. f[i] = IF i = 0 THEN NoTypes ELSE TypesAfter(f[i - 1], cs[i])
        BY <2>1, <4>1 DEF Known
      <4> HIDE DEF g
      <4> QED
        BY <4>2, <4>3
    <3> QED
      BY <3>1, <3>2
  <2>3. DOMAIN g = 0..(n + 1) /\ g = [i \in 0..(n + 1) |-> g[i]]
    OBVIOUS
  <2> HIDE DEF g
  <2>4. g = [i \in 0..(n + 1) |-> IF i = 0 THEN NoTypes ELSE TypesAfter(g[i - 1], cs[i])]
    BY <2>2, <2>3
  <2>5. Known(cs, n + 1, g)
    BY <2>4 DEF Known
  <2> QED
    BY <2>5
<1> HIDE DEF T
<1>3. Nat \subseteq T
  BY <1>1, <1>2, SetInduction
<1> QED
  BY <1>3 DEF T

LEMMA KnownSame ==
  ASSUME NEW cs, NEW ds, NEW n \in Nat, NEW m \in Nat, NEW f, NEW g,
         Known(cs, n, f), Known(ds, m, g), NEW k \in Nat, k <= n, k <= m,
         \A i \in 1..k : cs[i] = ds[i]
  PROVE  f[k] = g[k]
<1> DEFINE T == {j \in Nat : j <= k => f[j] = g[j]}
<1>1. 0 \in T
  <2>1. 0 \in 0..n /\ 0 \in 0..m
    OBVIOUS
  <2>2. f[0] = NoTypes /\ g[0] = NoTypes
    BY <2>1 DEF Known
  <2> QED
    BY <2>2
<1>2. ASSUME NEW j \in Nat, j \in T PROVE j + 1 \in T
  <2> SUFFICES ASSUME j + 1 <= k PROVE f[j + 1] = g[j + 1]
    OBVIOUS
  <2>1. /\ j + 1 \in 0..n /\ j + 1 \in 0..m /\ j + 1 # 0 /\ (j + 1) - 1 = j
        /\ j + 1 \in 1..k /\ j <= k
    OBVIOUS
  <2>2. f[j] = g[j]
    BY <1>2, <2>1
  <2>3. f[j + 1] = TypesAfter(f[j], cs[j + 1])
    BY <2>1 DEF Known
  <2>4. g[j + 1] = TypesAfter(g[j], ds[j + 1])
    BY <2>1 DEF Known
  <2> QED
    BY <2>1, <2>2, <2>3, <2>4
<1> HIDE DEF T
<1>3. k \in T
  BY <1>1, <1>2, SetInduction
<1> QED
  BY <1>3 DEF T

LEMMA TypesKnown ==
  ASSUME NEW cs, IsSequence(cs)
  PROVE  \E f : Known(cs, Len(cs), f) /\ TypesAt(cs) = f[Len(cs)]
<1> DEFINE f == CHOOSE g : Known(cs, Len(cs), g)
<1>1. Len(cs) \in Nat
  BY SequenceFacts
<1>2. TypesAt(cs) = f[Len(cs)]
  BY DEF TypesAt, Known
<1>3. Known(cs, Len(cs), f)
  BY <1>1, KnownExists
<1> QED
  BY <1>2, <1>3

LEMMA TypesOfNone ==
  ASSUME NEW cs, IsSequence(cs), Len(cs) = 0
  PROVE  TypesAt(cs) = NoTypes
<1>1. PICK f : Known(cs, Len(cs), f) /\ TypesAt(cs) = f[Len(cs)]
  BY TypesKnown
<1>2. 0 \in 0..0
  OBVIOUS
<1> QED
  BY <1>1, <1>2 DEF Known

LEMMA TypesOfOneMore ==
  ASSUME NEW cs, NEW ds, IsSequence(cs), IsSequence(ds), Len(ds) = Len(cs) + 1,
         \A i \in 1..Len(cs) : ds[i] = cs[i]
  PROVE  TypesAt(ds) = TypesAfter(TypesAt(cs), ds[Len(ds)])
<1> DEFINE n == Len(cs)
<1>1. n \in Nat /\ Len(ds) = n + 1
  BY SequenceFacts
<1>2. PICK f : Known(cs, n, f) /\ TypesAt(cs) = f[n]
  BY TypesKnown
<1>3. PICK g : Known(ds, Len(ds), g) /\ TypesAt(ds) = g[Len(ds)]
  BY TypesKnown
<1> HIDE DEF n
<1>4. f[n] = g[n]
  <2>1. \A i \in 1..n : cs[i] = ds[i]
    BY DEF n
  <2>2. Known(ds, n + 1, g) /\ n + 1 \in Nat /\ n <= n /\ n <= n + 1
    BY <1>1, <1>3
  <2> QED
    BY <1>1, <1>2, <2>1, <2>2, KnownSame
<1>5. g[n + 1] = TypesAfter(g[n], ds[n + 1])
  <2>1. n + 1 \in 0..(n + 1) /\ n + 1 # 0 /\ (n + 1) - 1 = n
    BY <1>1
  <2>2. g = [i \in 0..(n + 1) |-> IF i = 0 THEN NoTypes ELSE TypesAfter(g[i - 1], ds[i])]
    BY <1>1, <1>3 DEF Known
  <2> QED
    BY <2>1, <2>2
<1> QED
  BY <1>1, <1>2, <1>3, <1>4, <1>5

(* What a clause makes of the names, whatever their types.                 *)
NamesAfter(names, c) ==
  IF c.kind \in {"Match", "Create", "Merge"}
  THEN names \cup Patterns(c.patterns, PatternBindings)
  ELSE IF c.kind \in {"Start", "LoadCsv", "Unwind", "Call"} THEN names \cup c.binds
  ELSE IF c.kind = "With" THEN (IF c.star THEN names ELSE {}) \cup NamesGiven(c.items)
  ELSE names

LEMMA DomainAfter ==
  ASSUME NEW types, NEW c
  PROVE  DOMAIN TypesAfter(types, c) = NamesAfter(DOMAIN types, c)
<1>1. \A f, g : DOMAIN Inserted(f, g) = (DOMAIN f) \cup (DOMAIN g)
  BY DEF Inserted
<1>2. DOMAIN NoTypes = {}
  BY DEF NoTypes
<1>3. CASE c.kind \in {"Match", "Create", "Merge"}
  <2>1. TypesAfter(types, c) = PatternTypes(types, c.patterns)
    BY <1>3 DEF TypesAfter
  <2>2. DOMAIN PatternTypes(types, c.patterns) =
          Patterns(c.patterns, PatternBindings) \cup DOMAIN types
    <3> DEFINE last(v) == c.patterns[Max({i \in 1..Len(c.patterns) :
                                           v \in PatternBindings(c.patterns[i])})]
               new == [v \in Patterns(c.patterns, PatternBindings) |-> TypeIn(last(v), v)]
    <3>1. DOMAIN new = Patterns(c.patterns, PatternBindings)
      OBVIOUS
    <3>2. PatternTypes(types, c.patterns) = Inserted(new, types)
      BY DEF PatternTypes
    <3> HIDE DEF new
    <3> QED
      BY <1>1, <3>1, <3>2
  <2> QED
    BY <1>3, <2>1, <2>2 DEF NamesAfter
<1>4. CASE c.kind \in {"Start", "LoadCsv", "Unwind", "Call"}
  <2>1. ASSUME NEW type PROVE DOMAIN Typed(types, c.binds, type) = c.binds \cup DOMAIN types
    <3> DEFINE new == [v \in c.binds |-> type]
    <3>1. DOMAIN new = c.binds /\ Typed(types, c.binds, type) = Inserted(new, types)
      BY DEF Typed
    <3> HIDE DEF new
    <3> QED
      BY <1>1, <3>1
  <2>2. \E type : TypesAfter(types, c) = Typed(types, c.binds, type)
    BY <1>4 DEF TypesAfter
  <2>3. NamesAfter(DOMAIN types, c) = (DOMAIN types) \cup c.binds
    BY <1>4 DEF NamesAfter
  <2> QED
    BY <2>1, <2>2, <2>3
<1>5. CASE c.kind = "With"
  <2>1. TypesAfter(types, c) = ItemTypes(types, c)
    BY <1>5 DEF TypesAfter
  <2>2. DOMAIN ItemTypes(types, c) =
          NamesGiven(c.items) \cup DOMAIN (IF c.star THEN types ELSE NoTypes)
    <3> DEFINE last(v) == c.items[Max({i \in 1..Len(c.items) : v \in NameGiven(c.items[i])})]
               new == [v \in NamesGiven(c.items) |-> TypeOf(types, last(v).expr)]
               old == IF c.star THEN types ELSE NoTypes
    <3>1. DOMAIN new = NamesGiven(c.items)
      OBVIOUS
    <3>2. ItemTypes(types, c) = Inserted(new, old)
      BY DEF ItemTypes
    <3> HIDE DEF new, old
    <3>3. DOMAIN ItemTypes(types, c) = NamesGiven(c.items) \cup DOMAIN old
      BY <1>1, <3>1, <3>2
    <3> QED
      BY <3>3 DEF old
  <2>3. NamesAfter(DOMAIN types, c) = (IF c.star THEN DOMAIN types ELSE {}) \cup NamesGiven(c.items)
    BY <1>5 DEF NamesAfter
  <2> QED
    BY <1>2, <2>1, <2>2, <2>3
<1>6. CASE c.kind \notin {"Match", "Create", "Merge", "Start", "LoadCsv", "Unwind", "Call", "With"}
  BY <1>6 DEF TypesAfter, NamesAfter
<1> QED
  BY <1>3, <1>4, <1>5, <1>6

-----------------------------------------------------------------------------
(* The clauses of a branch that are done with: those after the b-th of the *)
(* query up to the k-th.                                                   *)
ClausesDone(cs, b, k) == SubSeq(cs, b + 1, k)

NamesAt(cs, b, k) == DOMAIN TypesAt(ClausesDone(cs, b, k))

LEMMA DoneShape ==
  ASSUME NEW cs, IsSequence(cs), NEW k \in 0..Len(cs), NEW b \in 0..k
  PROVE  /\ IsSequence(ClausesDone(cs, b, k)) /\ Len(ClausesDone(cs, b, k)) = k - b
         /\ \A i \in 1..(k - b) : ClausesDone(cs, b, k)[i] = cs[b + i]
<1>1. Len(cs) \in Nat
  BY SequenceFacts
<1> DEFINE f == [i \in 1..(k - b) |-> cs[b + i]]
<1>2. ClausesDone(cs, b, k) = f
  <2>1. ClausesDone(cs, b, k) = [i \in 1..(1 + k - (b + 1)) |-> cs[i + (b + 1) - 1]]
    BY DEF ClausesDone
  <2>2. 1 + k - (b + 1) = k - b /\ \A i \in 1..(k - b) : i + (b + 1) - 1 = b + i
    BY <1>1
  <2> QED
    BY <2>1, <2>2
<1>3. k - b \in Nat /\ f = [i \in 1..(k - b) |-> f[i]]
  BY <1>1
<1>4. IsSequence(f) /\ Len(f) = k - b
  <2> HIDE DEF f
  <2> QED
    BY <1>3, FunctionIsSequence
<1> QED
  BY <1>2, <1>4

LEMMA NoneDone ==
  ASSUME NEW cs, IsSequence(cs), NEW k \in 0..Len(cs)
  PROVE  NamesAt(cs, k, k) = {}
<1>1. k \in 0..k /\ k - k = 0
  BY SequenceFacts
<1>2. IsSequence(ClausesDone(cs, k, k)) /\ Len(ClausesDone(cs, k, k)) = 0
  BY <1>1, DoneShape
<1>3. TypesAt(ClausesDone(cs, k, k)) = NoTypes
  BY <1>2, TypesOfNone
<1> QED
  BY <1>3 DEF NamesAt, NoTypes

LEMMA TypesOneMoreDone ==
  ASSUME NEW cs, IsSequence(cs), NEW k \in 0..Len(cs), NEW b \in 0..k, k < Len(cs)
  PROVE  TypesAt(ClausesDone(cs, b, k + 1)) =
           TypesAfter(TypesAt(ClausesDone(cs, b, k)), cs[k + 1])
<1>1. Len(cs) \in Nat /\ k + 1 \in 0..Len(cs) /\ b \in 0..(k + 1)
  BY SequenceFacts
<1>2. /\ IsSequence(ClausesDone(cs, b, k)) /\ Len(ClausesDone(cs, b, k)) = k - b
      /\ \A i \in 1..(k - b) : ClausesDone(cs, b, k)[i] = cs[b + i]
  BY DoneShape
<1>3. /\ IsSequence(ClausesDone(cs, b, k + 1)) /\ Len(ClausesDone(cs, b, k + 1)) = (k + 1) - b
      /\ \A i \in 1..((k + 1) - b) : ClausesDone(cs, b, k + 1)[i] = cs[b + i]
  BY <1>1, DoneShape
<1>4. Len(ClausesDone(cs, b, k + 1)) = Len(ClausesDone(cs, b, k)) + 1
  BY <1>1, <1>2, <1>3
<1>5. \A i \in 1..Len(ClausesDone(cs, b, k)) : ClausesDone(cs, b, k + 1)[i] = ClausesDone(cs, b, k)[i]
  BY <1>1, <1>2, <1>3
<1>6. ClausesDone(cs, b, k + 1)[Len(ClausesDone(cs, b, k + 1))] = cs[k + 1]
  <2>1. (k + 1) - b \in 1..((k + 1) - b) /\ b + ((k + 1) - b) = k + 1
    BY <1>1
  <2> QED
    BY <1>3, <2>1
<1> QED
  BY <1>2, <1>3, <1>4, <1>5, <1>6, TypesOfOneMore

LEMMA OneMoreDone ==
  ASSUME NEW cs, IsSequence(cs), NEW k \in 0..Len(cs), NEW b \in 0..k, k < Len(cs)
  PROVE  NamesAt(cs, b, k + 1) = NamesAfter(NamesAt(cs, b, k), cs[k + 1])
BY TypesOneMoreDone, DomainAfter DEF NamesAt

(* Where a branch starts: after the last UNION there is.                   *)
Begins(cs, b, k) ==
  /\ k \in 0..Len(cs) /\ b \in 0..k
  /\ b # 0 => cs[b].kind = "Union"
  /\ \A i \in (b + 1)..k : cs[i].kind # "Union"

LEMMA StartOfBranch ==
  ASSUME NEW cs, IsSequence(cs), NEW k, NEW b, Begins(cs, b, k)
  PROVE  BranchStart(cs, k) = b
<1> DEFINE S == {0} \cup {i \in 1..k : cs[i].kind = "Union"}
<1>1. Len(cs) \in Nat /\ k \in Nat /\ b \in 0..k
  BY SequenceFacts DEF Begins
<1>2. b \in S /\ \A y \in S : b >= y
  BY <1>1 DEF Begins
<1>3. \A x \in S : x \in Nat /\ ((\A y \in S : x >= y) => x = b)
  BY <1>1, <1>2
<1> HIDE DEF S
<1>4. Max(S) = b
  BY <1>2, <1>3 DEF Max
<1> QED
  BY <1>4 DEF BranchStart, S

-----------------------------------------------------------------------------
(* The invariant.  The outermost call of plan_branch has gone through the  *)
(* clauses up to the k-th of the query, in the branch that begins after    *)
(* the b-th, and its names are those of the types known there; while it is *)
(* at a MATCH they are those known after it.                               *)
Follows(cs, f, b, k, lowering) ==
  /\ Begins(cs, b, k)
  /\ Len(f.todo) = Len(cs) - k
  /\ \A i \in 1..Len(f.todo) : f.todo[i] = cs[k + i]
  /\ f.visible = IF lowering THEN NamesAfter(NamesAt(cs, b, k), Head(f.todo))
                 ELSE NamesAt(cs, b, k)

FollowsInv ==
  /\ IsSequence(query.clauses)
  /\ \A i \in 2..Len(frames) : Head(frames[i].todo).kind = "Foreach"
  /\ frames # <<>> =>
       \E b, k : Follows(query.clauses, frames[Len(frames)], b, k, low.on /\ Len(frames) = 1)

(* What is left of the clauses, one clause on.                             *)
LEMMA FollowsOn ==
  ASSUME NEW cs, IsSequence(cs), NEW f, IsSequence(f.todo), f.todo # <<>>,
         NEW b, NEW k, NEW lowering, Follows(cs, f, b, k, lowering),
         Head(f.todo).kind # "Union",
         NEW g, g.todo = Tail(f.todo),
         g.visible = NamesAfter(NamesAt(cs, b, k), Head(f.todo))
  PROVE  Follows(cs, g, b, k + 1, FALSE)
<1>1. /\ Len(f.todo) > 0 /\ Head(f.todo) = f.todo[1] /\ IsSequence(g.todo)
      /\ Len(g.todo) = Len(f.todo) - 1
      /\ \A i \in 1..Len(g.todo) : g.todo[i] = f.todo[i + 1]
  BY TailFacts
<1>2. Len(cs) \in Nat /\ Len(f.todo) \in Nat /\ k \in 0..Len(cs) /\ b \in 0..k
  BY SequenceFacts DEF Follows, Begins
<1>3. Len(f.todo) = Len(cs) - k /\ \A i \in 1..Len(f.todo) : f.todo[i] = cs[k + i]
  BY DEF Follows
<1>4. k < Len(cs) /\ k + 1 \in 0..Len(cs) /\ b \in 0..(k + 1) /\ 1 \in 1..Len(f.todo)
  BY <1>1, <1>2, <1>3
<1>5. Head(f.todo) = cs[k + 1]
  BY <1>1, <1>3, <1>4
<1>6. Begins(cs, b, k + 1)
  <2>1. ASSUME NEW i \in (b + 1)..(k + 1) PROVE cs[i].kind # "Union"
    <3>1. i = k + 1 \/ i \in (b + 1)..k
      BY <1>2
    <3> QED
      BY <1>5, <3>1 DEF Follows, Begins
  <2> QED
    BY <1>4, <2>1 DEF Follows, Begins
<1>7. Len(g.todo) = Len(cs) - (k + 1)
  BY <1>1, <1>2, <1>3
<1>8. ASSUME NEW i \in 1..Len(g.todo) PROVE g.todo[i] = cs[(k + 1) + i]
  <2>1. i + 1 \in 1..Len(f.todo) /\ k + (i + 1) = (k + 1) + i
    BY <1>1, <1>2
  <2> QED
    BY <1>1, <1>3, <2>1
<1>9. g.visible = NamesAt(cs, b, k + 1)
  BY <1>2, <1>4, <1>5, OneMoreDone
<1> QED
  BY <1>6, <1>7, <1>8, <1>9 DEF Follows

(* The innermost call goes on to the next clause.                          *)
LEMMA GoesOn ==
  ASSUME VInv, FollowsInv, frames # <<>>, Top.todo # <<>>, Clause.kind # "Union",
         NEW f, Proceed(f), DOMAIN f = FrameFields, f.todo = Top.todo, ~low'.on,
         UNCHANGED query,
         ASSUME NEW names,
                Top.visible = IF low.on THEN NamesAfter(names, Clause) ELSE names
         PROVE  f.visible = NamesAfter(names, Clause)
  PROVE  FollowsInv'
<1> DEFINE g == [f EXCEPT !.todo = Tail(@)]
           n == Len(frames)
           cs == query.clauses
<1>1. g.todo = Tail(Top.todo) /\ g.visible = f.visible
  BY DEF FrameFields
<1>2. frames' = <<g>> \o Tail(frames)
  BY DEF Proceed
<1> HIDE DEF g
<1>3. /\ Len(frames') = n /\ frames'[1] = g
      /\ \A i \in 2..n : frames'[i] = frames[i]
  BY <1>2, Replaced DEF VInv
<1>4. n \in Nat /\ n # 0 /\ Top = frames[1] /\ IsSequence(Top.todo)
  BY TopShape, TailFacts DEF VInv, FramesInv, FrameShape, IsSequence
<1>5. \A i \in 2..Len(frames') : Head(frames'[i].todo).kind = "Foreach"
  BY <1>3 DEF FollowsInv
<1>6. PICK b, k : Follows(cs, frames[n], b, k, low.on /\ n = 1)
  BY DEF FollowsInv
<1>7. CASE n = 1
  <2>1. Follows(cs, Top, b, k, low.on /\ n = 1)
    <3>1. frames[n] = Top
      BY <1>4, <1>7
    <3> QED
      BY <1>6, <3>1
  <2>2. Top.visible = IF low.on THEN NamesAfter(NamesAt(cs, b, k), Clause)
                      ELSE NamesAt(cs, b, k)
    BY <1>7, <2>1 DEF Follows, Clause
  <2>3. f.visible = NamesAfter(NamesAt(cs, b, k), Clause)
    BY <2>2
  <2>4. IsSequence(cs) /\ Head(Top.todo).kind # "Union"
    BY DEF FollowsInv, Clause
  <2>5. g.visible = NamesAfter(NamesAt(cs, b, k), Head(Top.todo))
    BY <1>1, <2>3 DEF Clause
  <2> HIDE DEF cs
  <2>6. Follows(cs, g, b, k + 1, FALSE)
    BY <1>1, <1>4, <2>1, <2>4, <2>5, FollowsOn
  <2>7. frames'[Len(frames')] = g /\ ~(low'.on /\ Len(frames') = 1)
    BY <1>3, <1>7
  <2>8. Follows(cs, frames'[Len(frames')], b, k + 1, low'.on /\ Len(frames') = 1)
    BY <2>6, <2>7
  <2> QED
    BY <1>5, <2>4, <2>8 DEF FollowsInv, cs
<1>8. CASE n # 1
  <2>1. n \in 2..n
    <3> HIDE DEF n
    <3> QED
      BY <1>4, <1>8
  <2>2. frames'[Len(frames')] = frames[n] /\ ~(low.on /\ n = 1) /\ ~(low'.on /\ Len(frames') = 1)
    BY <1>3, <1>8, <2>1
  <2>3. Follows(cs, frames'[Len(frames')], b, k, low'.on /\ Len(frames') = 1)
    BY <1>6, <2>2
  <2> QED
    BY <1>5, <2>3 DEF FollowsInv
<1> QED
  BY <1>7, <1>8

(* Clauses that bind nothing, and clauses that add to the names.           *)
LEMMA EmitFollowed ==
  ASSUME VInv, FollowsInv, NEW kinds, At(kinds), "Union" \notin kinds,
         NEW ops, NEW names, Emit(ops, names),
         \A seen : NamesAfter(seen, Clause) = seen \cup names
  PROVE  FollowsInv'
<1> DEFINE f == [Top EXCEPT !.main = @ \o ops, !.visible = @ \cup names]
<1>1. /\ frames # <<>> /\ ~low.on /\ Top.todo # <<>> /\ Clause.kind # "Union"
      /\ DOMAIN Top = FrameFields
  BY AtShape, TopShape DEF VInv, FrameShape
<1>2. /\ DOMAIN f = FrameFields /\ f.todo = Top.todo /\ f.visible = Top.visible \cup names
  BY <1>1 DEF FrameFields
<1>3. Proceed(f) /\ low' = low /\ query' = query
  BY DEF Emit
<1> HIDE DEF f
<1>4. ASSUME NEW seen, Top.visible = IF low.on THEN NamesAfter(seen, Clause) ELSE seen
      PROVE  f.visible = NamesAfter(seen, Clause)
  <2>1. Top.visible = seen
    BY <1>1, <1>4
  <2> QED
    BY <1>2, <2>1
<1> QED
  BY <1>1, <1>2, <1>3, <1>4, GoesOn

NamingKinds ==
  {"Match", "Create", "Merge", "Start", "LoadCsv", "Unwind", "Call", "With"}

LEMMA EmitsFollowed ==
  ASSUME VInv, FollowsInv,
         Where \/ Call \/ LoadCsv \/ Unwind \/ Start \/ Update
  PROVE  FollowsInv'
<1>1. CASE Where
  <2>1. At({"Where"}) /\ \E ops : Emit(ops, {})
    BY <1>1 DEF Where
  <2>2. \A seen : NamesAfter(seen, Clause) = seen \cup {}
    BY <2>1, AtShape DEF NamesAfter
  <2> QED
    BY <2>1, <2>2, EmitFollowed
<1>2. CASE Call
  <2>1. At({"Call"}) /\ \E ops : Emit(ops, Clause.binds)
    BY <1>2 DEF Call
  <2>2. \A seen : NamesAfter(seen, Clause) = seen \cup Clause.binds
    BY <2>1, AtShape DEF NamesAfter
  <2> QED
    BY <2>1, <2>2, EmitFollowed
<1>3. CASE LoadCsv
  <2>1. At({"LoadCsv"}) /\ \E ops : Emit(ops, Clause.binds)
    BY <1>3 DEF LoadCsv
  <2>2. \A seen : NamesAfter(seen, Clause) = seen \cup Clause.binds
    BY <2>1, AtShape DEF NamesAfter
  <2> QED
    BY <2>1, <2>2, EmitFollowed
<1>4. CASE Unwind
  <2>1. At({"Unwind"}) /\ \E ops : Emit(ops, Clause.binds)
    BY <1>4 DEF Unwind
  <2>2. \A seen : NamesAfter(seen, Clause) = seen \cup Clause.binds
    BY <2>1, AtShape DEF NamesAfter
  <2> QED
    BY <2>1, <2>2, EmitFollowed
<1>5. CASE Start
  <2>1. At({"Start"}) /\ \E ops : Emit(ops, Clause.binds)
    BY <1>5 DEF Start
  <2>2. \A seen : NamesAfter(seen, Clause) = seen \cup Clause.binds
    BY <2>1, AtShape DEF NamesAfter
  <2> QED
    BY <2>1, <2>2, EmitFollowed
<1>6. CASE Update
  <2>1. At({"Set", "Remove", "Delete"}) /\ \E ops : Emit(ops, {})
    BY <1>6 DEF Update
  <2>2. \A seen : NamesAfter(seen, Clause) = seen \cup {}
    BY <2>1, AtShape DEF NamesAfter
  <2> QED
    BY <2>1, <2>2, EmitFollowed
<1> QED
  BY <1>1, <1>2, <1>3, <1>4, <1>5, <1>6

(* CREATE and MERGE bind what their patterns bind.                         *)
LEMMA NamesOfParts ==
  ASSUME NEW s, NEW t, IsSequence(s), IsSequence(t), \A i \in 1..Len(t) : t[i].names = {}
  PROVE  Names(s \o t) = UNION {s[i].names : i \in 1..Len(s)}
<1> DEFINE u == s \o t
<1>1. /\ Len(u) = Len(s) + Len(t)
      /\ \A i \in 1..Len(s) : u[i] = s[i]
      /\ \A i \in 1..Len(t) : u[Len(s) + i] = t[i]
  BY Concatenated
<1>2. Len(s) \in Nat /\ Len(t) \in Nat
  BY SequenceFacts
<1> HIDE DEF u
<1>3. \A i \in 1..Len(s) : i \in 1..Len(u) /\ u[i].names = s[i].names
  BY <1>1, <1>2
<1>4. ASSUME NEW i \in 1..Len(u), i \notin 1..Len(s) PROVE u[i].names = {}
  <2>1. i - Len(s) \in 1..Len(t) /\ Len(s) + (i - Len(s)) = i
    BY <1>1, <1>2, <1>4
  <2> QED
    BY <1>1, <2>1
<1>5. UNION {u[i].names : i \in 1..Len(u)} = UNION {s[i].names : i \in 1..Len(s)}
  <2>1. ASSUME NEW v
        PROVE  (\E i \in 1..Len(u) : v \in u[i].names) <=> (\E i \in 1..Len(s) : v \in s[i].names)
    BY <1>3, <1>4
  <2> QED
    BY <2>1
<1> QED
  BY <1>5 DEF Names, u

LEMMA WriteFollowed ==
  ASSUME Proper, VInv, FollowsInv, Write
  PROVE  FollowsInv'
<1> DEFINE made == [i \in 1..Len(Clause.patterns) |->
                      Part(PatternBindings(Clause.patterns[i]), PatternReads(Clause.patterns[i]))]
           actions == IF Clause.kind = "Merge" THEN <<Part({}, Clause.reads)>> ELSE <<>>
           parts == made \o actions
<1>1. At({"Create", "Merge"}) /\ \E ops : Emit(ops, Names(parts))
  BY DEF Write
<1>2. Len(Clause.patterns) \in Nat
  <2>1. Clause.patterns \in Seq(AnyPattern)
    BY <1>1, AtShape, ClauseShape DEF VInv, Proper, ProperClauses
  <2> QED
    BY <2>1
<1>3. /\ IsSequence(made) /\ Len(made) = Len(Clause.patterns)
      /\ \A i \in 1..Len(Clause.patterns) : made[i].names = PatternBindings(Clause.patterns[i])
  <2>1. IsSequence(made) /\ Len(made) = Len(Clause.patterns)
    BY <1>2, FunctionIsSequence
  <2> QED
    BY <2>1 DEF Part
<1>4. IsSequence(actions) /\ \A i \in 1..Len(actions) : actions[i].names = {}
  BY One, Nothing DEF Part
<1> HIDE DEF made, actions
<1>5. Names(parts) = UNION {made[i].names : i \in 1..Len(made)}
  BY <1>3, <1>4, NamesOfParts
<1>6. UNION {made[i].names : i \in 1..Len(made)} = Patterns(Clause.patterns, PatternBindings)
  <2>1. \A v : (\E i \in 1..Len(made) : v \in made[i].names)
                <=> (\E i \in 1..Len(Clause.patterns) : v \in PatternBindings(Clause.patterns[i]))
    BY <1>3
  <2> QED
    BY <2>1 DEF Patterns
<1> HIDE DEF parts
<1>7. \A seen : NamesAfter(seen, Clause) = seen \cup Names(parts)
  BY <1>1, <1>5, <1>6, AtShape DEF NamesAfter
<1> QED
  BY <1>1, <1>7, EmitFollowed

(* Clauses that leave the names alone.                                     *)
LEMMA KeptFollowed ==
  ASSUME VInv, FollowsInv, NEW kinds, At(kinds), "Union" \notin kinds,
         kinds \cap NamingKinds = {},
         NEW f, Proceed(f), DOMAIN f = FrameFields, f.todo = Top.todo,
         f.visible = Top.visible, low' = low, query' = query
  PROVE  FollowsInv'
<1>1. frames # <<>> /\ ~low.on /\ Top.todo # <<>> /\ Clause.kind \in kinds
  BY AtShape
<1>2. \A seen : NamesAfter(seen, Clause) = seen
  BY <1>1 DEF NamesAfter, NamingKinds
<1>3. ASSUME NEW seen, Top.visible = IF low.on THEN NamesAfter(seen, Clause) ELSE seen
      PROVE  f.visible = NamesAfter(seen, Clause)
  BY <1>1, <1>2, <1>3
<1> QED
  BY <1>1, <1>3, GoesOn

LEMMA OthersFollowed ==
  ASSUME VInv, FollowsInv, SchemaCommand \/ Return \/ OrderBy \/ Skip \/ Limit
  PROVE  FollowsInv'
<1>1. PICK kinds, f : /\ At(kinds) /\ "Union" \notin kinds /\ kinds \cap NamingKinds = {}
                      /\ Proceed(f) /\ low' = low /\ query' = query /\ DOMAIN f = DOMAIN Top
                      /\ DOMAIN Top = FrameFields => f.todo = Top.todo /\ f.visible = Top.visible
  <2>1. CASE SchemaCommand
    <3> DEFINE f == [Top EXCEPT !.main = <<Node("SchemaCommand", {}, {})>>]
    <3>1. Proceed(f) /\ At({"SchemaCommand"}) /\ low' = low /\ query' = query
      BY <2>1 DEF SchemaCommand
    <3>2. DOMAIN f = DOMAIN Top /\ (DOMAIN Top = FrameFields => f.todo = Top.todo /\ f.visible = Top.visible)
      BY DEF FrameFields
    <3> HIDE DEF f
    <3> QED
      BY <3>1, <3>2 DEF NamingKinds
  <2>2. CASE Return
    <3> DEFINE f == [Top EXCEPT
                       !.project  = Some(ProjectItems(Clause.star, Clause.items)),
                       !.distinct = Clause.distinct,
                       !.columns  = Some(Len(Clause.items)
                         + IF Clause.star THEN Cardinality(Top.visible) ELSE 0)]
    <3>1. Proceed(f) /\ At({"Return"}) /\ low' = low /\ query' = query
      BY <2>2 DEF Return
    <3>2. DOMAIN f = DOMAIN Top /\ (DOMAIN Top = FrameFields => f.todo = Top.todo /\ f.visible = Top.visible)
      BY DEF FrameFields
    <3> HIDE DEF f
    <3> QED
      BY <3>1, <3>2 DEF NamingKinds
  <2>3. CASE OrderBy
    <3> DEFINE f == [Top EXCEPT !.sort = Some(Node("Sort", Clause.reads, {}))]
    <3>1. Proceed(f) /\ At({"OrderBy"}) /\ low' = low /\ query' = query
      BY <2>3 DEF OrderBy
    <3>2. DOMAIN f = DOMAIN Top /\ (DOMAIN Top = FrameFields => f.todo = Top.todo /\ f.visible = Top.visible)
      BY DEF FrameFields
    <3> HIDE DEF f
    <3> QED
      BY <3>1, <3>2 DEF NamingKinds
  <2>4. CASE Skip
    <3> DEFINE f == [Top EXCEPT !.skip = Some(Node("Skip", Clause.reads, {}))]
    <3>1. Proceed(f) /\ At({"Skip"}) /\ low' = low /\ query' = query
      BY <2>4 DEF Skip
    <3>2. DOMAIN f = DOMAIN Top /\ (DOMAIN Top = FrameFields => f.todo = Top.todo /\ f.visible = Top.visible)
      BY DEF FrameFields
    <3> HIDE DEF f
    <3> QED
      BY <3>1, <3>2 DEF NamingKinds
  <2>5. CASE Limit
    <3> DEFINE f == [Top EXCEPT !.limit = Some(Node("Limit", Clause.reads, {}))]
    <3>1. Proceed(f) /\ At({"Limit"}) /\ low' = low /\ query' = query
      BY <2>5 DEF Limit
    <3>2. DOMAIN f = DOMAIN Top /\ (DOMAIN Top = FrameFields => f.todo = Top.todo /\ f.visible = Top.visible)
      BY DEF FrameFields
    <3> HIDE DEF f
    <3> QED
      BY <3>1, <3>2 DEF NamingKinds
  <2> QED
    BY <2>1, <2>2, <2>3, <2>4, <2>5
<1>2. DOMAIN Top = FrameFields
  BY <1>1, AtShape, TopShape DEF VInv, FrameShape
<1> QED
  BY <1>1, <1>2, KeptFollowed

(* WITH: the analysis clears what it knows where the plan hides it.        *)
LEMMA WithFollowed ==
  ASSUME VInv, FollowsInv, With
  PROVE  FollowsInv'
<1> DEFINE names == ItemNames(Clause.items)
           f == [Top EXCEPT
                   !.main = @ \o <<ProjectItems(Clause.star, Clause.items)>>
                              \o Deduplicate(Clause.distinct),
                   !.visible = (IF Clause.star THEN @ ELSE {}) \cup names]
<1>1. At({"With"}) /\ Proceed(f) /\ low' = low /\ query' = query
  BY DEF With
<1>2. /\ frames # <<>> /\ ~low.on /\ Top.todo # <<>> /\ Clause.kind = "With"
      /\ DOMAIN Top = FrameFields
  BY <1>1, AtShape, TopShape DEF VInv, FrameShape
<1>3. /\ DOMAIN f = FrameFields /\ f.todo = Top.todo
      /\ f.visible = (IF Clause.star THEN Top.visible ELSE {}) \cup names
  BY <1>2 DEF FrameFields
<1>4. names = NamesGiven(Clause.items)
  BY DEF ItemNames, ItemName, NamesGiven, NameGiven
<1> HIDE DEF f, names
<1>5. ASSUME NEW seen, Top.visible = IF low.on THEN NamesAfter(seen, Clause) ELSE seen
      PROVE  f.visible = NamesAfter(seen, Clause)
  <2>1. Top.visible = seen
    BY <1>2, <1>5
  <2> QED
    BY <1>2, <1>3, <1>4, <2>1 DEF NamesAfter
<1> QED
  BY <1>1, <1>2, <1>3, <1>5, GoesOn

(* MATCH: its names are visible from the start of the lowering.            *)
LEMMA EndMatchFollowed ==
  ASSUME VInv, FollowsInv, EndMatch
  PROVE  FollowsInv'
<1> DEFINE Joins(main) == /\ Proceed([Top EXCEPT !.main = main])
                          /\ low.on /\ low' = Idle /\ query' = query
<1>0. UNCHANGED <<frames, low, query>> \/ \E main : Joins(main)
  BY DEF EndMatch, Fail
<1>1. CASE UNCHANGED <<frames, low, query>>
  BY <1>1 DEF FollowsInv
<1>2. CASE \E main : Joins(main)
  <2>1. PICK main : Joins(main)
    BY <1>2
  <2> DEFINE f == [Top EXCEPT !.main = main]
  <2>2. frames # <<>> /\ Top.todo # <<>> /\ Clause.kind = "Match" /\ ~low'.on
    BY <2>1 DEF VInv, LowInv, Idle
  <2>3. DOMAIN Top = FrameFields
    BY <2>2, TopShape DEF VInv, FrameShape
  <2>4. DOMAIN f = FrameFields /\ f.todo = Top.todo /\ f.visible = Top.visible
    BY <2>3 DEF FrameFields
  <2>5. Proceed(f)
    BY <2>1
  <2> HIDE DEF f
  <2>6. ASSUME NEW seen, Top.visible = IF low.on THEN NamesAfter(seen, Clause) ELSE seen
        PROVE  f.visible = NamesAfter(seen, Clause)
    BY <2>1, <2>4, <2>6
  <2> QED
    BY <2>1, <2>2, <2>4, <2>5, <2>6, GoesOn
<1> QED
  BY <1>0, <1>1, <1>2

LEMMA BeginMatchFollowed ==
  ASSUME VInv, FollowsInv, BeginMatch
  PROVE  FollowsInv'
<1> DEFINE names == Patterns(Clause.patterns, PatternBindings)
           f == [Top EXCEPT !.visible = @ \cup names]
           n == Len(frames)
           cs == query.clauses
<1>1. \/ UNCHANGED <<frames, low, query>>
      \/ frames' = <<f>> \o Tail(frames) /\ low'.on /\ query' = query
  <2>1. Lowering(Clause.patterns, <<>>).on
    BY DEF Lowering
  <2> QED
    BY <2>1 DEF BeginMatch, Fail
<1>2. CASE UNCHANGED <<frames, low, query>>
  BY <1>2 DEF FollowsInv
<1>3. CASE frames' = <<f>> \o Tail(frames) /\ low'.on /\ query' = query
  <2>1. /\ frames # <<>> /\ ~low.on /\ Top.todo # <<>> /\ Clause.kind = "Match"
        /\ DOMAIN Top = FrameFields /\ Top = frames[1]
    BY AtShape, TopShape DEF BeginMatch, VInv, FrameShape
  <2>2. f.todo = Top.todo /\ f.visible = Top.visible \cup names
    BY <2>1 DEF FrameFields
  <2> HIDE DEF f, names
  <2>3. /\ Len(frames') = n /\ frames'[1] = f
        /\ \A i \in 2..n : frames'[i] = frames[i]
    BY <1>3, <2>1, Replaced DEF VInv
  <2>4. n \in Nat /\ n # 0
    BY <2>1, TopShape, TailFacts DEF VInv, FramesInv
  <2>5. \A i \in 2..Len(frames') : Head(frames'[i].todo).kind = "Foreach"
    BY <2>3 DEF FollowsInv
  <2>6. PICK b, k : Follows(cs, frames[n], b, k, low.on /\ n = 1)
    BY <2>1 DEF FollowsInv
  <2> HIDE DEF n
  <2>7. CASE n = 1
    <3>1. Follows(cs, Top, b, k, low.on /\ n = 1)
      BY <2>1, <2>6, <2>7
    <3>2. Top.visible = NamesAt(cs, b, k)
      BY <2>1, <3>1 DEF Follows
    <3>3. f.visible = NamesAfter(NamesAt(cs, b, k), Head(f.todo))
      <4>1. Head(f.todo) = Clause
        BY <2>2 DEF Clause
      <4>2. NamesAfter(NamesAt(cs, b, k), Clause) = NamesAt(cs, b, k) \cup names
        BY <2>1 DEF NamesAfter, names
      <4> QED
        BY <2>2, <3>2, <4>1, <4>2
    <3>4. Follows(cs, f, b, k, TRUE)
      BY <2>2, <3>1, <3>3 DEF Follows
    <3>5. frames'[Len(frames')] = f /\ Len(frames') = 1
      BY <2>3, <2>7
    <3>6. Follows(cs, frames'[Len(frames')], b, k, low'.on /\ Len(frames') = 1)
      BY <1>3, <3>4, <3>5 DEF Follows
    <3> QED
      BY <1>3, <2>5, <3>6 DEF FollowsInv
  <2>8. CASE n # 1
    <3>1. n \in 2..n
      BY <2>4, <2>8
    <3>2. frames'[Len(frames')] = frames[n] /\ Len(frames') # 1
      BY <2>3, <2>8, <3>1
    <3>3. Follows(cs, frames'[Len(frames')], b, k, low'.on /\ Len(frames') = 1)
      BY <2>6, <2>8, <3>2 DEF Follows
    <3> QED
      BY <1>3, <2>5, <3>3 DEF FollowsInv
  <2> QED
    BY <2>7, <2>8
<1> QED
  BY <1>1, <1>2, <1>3

(* plan_branch is called: for the query, after a UNION, and for a body.    *)
LEMMA StartsToFollow ==
  ASSUME NEW cs, IsSequence(cs), NEW k \in 0..Len(cs), k # 0 => cs[k].kind = "Union",
         NEW todo, Len(todo) = Len(cs) - k, \A i \in 1..Len(todo) : todo[i] = cs[k + i],
         cs = query.clauses, UNCHANGED query, frames' = <<Frame(todo)>>, ~low'.on
  PROVE  FollowsInv'
<1>1. Len(frames') = 1 /\ frames'[1] = Frame(todo) /\ k \in 0..k /\ Len(cs) \in Nat
  BY One, SequenceFacts
<1>2. Begins(cs, k, k)
  BY <1>1 DEF Begins
<1>3. Frame(todo).todo = todo /\ Frame(todo).visible = {}
  BY DEF Frame
<1>4. Follows(cs, Frame(todo), k, k, low'.on /\ Len(frames') = 1)
  BY <1>2, <1>3, NoneDone DEF Follows
<1>5. Follows(cs, frames'[Len(frames')], k, k, low'.on /\ Len(frames') = 1)
  BY <1>1, <1>4
<1>6. \A i \in 2..Len(frames') : Head(frames'[i].todo).kind = "Foreach"
  BY <1>1
<1> QED
  BY <1>5, <1>6 DEF FollowsInv

LEMMA BeginFollowed ==
  ASSUME VInv, FollowsInv, Begin
  PROVE  FollowsInv'
<1>1. CASE UNCHANGED <<frames, low, query>>
  BY <1>1 DEF FollowsInv
<1>2. CASE frames' = <<Frame(query.clauses)>> /\ low' = low /\ query' = query
  <2>1. ~low.on
    BY DEF Begin, VInv, LowInv
  <2>2. /\ IsSequence(query.clauses) /\ Len(query.clauses) \in Nat
        /\ 0 \in 0..Len(query.clauses)
    BY SequenceFacts DEF FollowsInv
  <2>3. /\ Len(query.clauses) = Len(query.clauses) - 0
        /\ \A i \in 1..Len(query.clauses) : query.clauses[i] = query.clauses[0 + i]
    BY <2>2
  <2> QED
    BY <1>2, <2>1, <2>2, <2>3, StartsToFollow
<1> QED
  BY <1>1, <1>2 DEF Begin, Fail

LEMMA EndBranchFollowed ==
  ASSUME VInv, FollowsInv, EndBranch
  PROVE  FollowsInv'
<1> DEFINE cs == query.clauses
<1>1. /\ Len(frames) = 1 /\ ~low.on /\ low' = low /\ query' = query
      /\ Top.todo # <<>> => Clause.kind = "Union"
      /\ frames' = IF Top.todo = <<>> THEN <<>> ELSE <<Frame(Tail(Top.todo))>>
  BY DEF EndBranch
<1>2. frames # <<>>
  <2>1. Len(frames) # Len(<<>>)
    BY <1>1, Nothing
  <2> QED
    BY <2>1
<1>3. CASE Top.todo = <<>>
  <2>1. frames' = <<>> /\ Len(frames') = 0
    BY <1>1, <1>3, Nothing
  <2>2. \A i \in 2..Len(frames') : Head(frames'[i].todo).kind = "Foreach"
    BY <2>1
  <2> QED
    BY <1>1, <2>1, <2>2 DEF FollowsInv
<1>4. CASE Top.todo # <<>>
  <2>1. PICK b, k : Follows(cs, Top, b, k, low.on /\ Len(frames) = 1)
    BY <1>1, <1>2, TopShape DEF VInv, FollowsInv
  <2>2. IsSequence(Top.todo) /\ IsSequence(cs) /\ Len(cs) \in Nat
    BY <1>2, TopShape, SequenceFacts DEF VInv, FrameShape, FollowsInv, IsSequence
  <2>3. /\ Len(Top.todo) > 0 /\ Head(Top.todo) = Top.todo[1]
        /\ Len(Tail(Top.todo)) = Len(Top.todo) - 1
        /\ \A i \in 1..Len(Tail(Top.todo)) : Tail(Top.todo)[i] = Top.todo[i + 1]
    BY <1>4, <2>2, TailFacts
  <2>4. /\ Len(Top.todo) = Len(cs) - k /\ k \in 0..Len(cs)
        /\ \A i \in 1..Len(Top.todo) : Top.todo[i] = cs[k + i]
    BY <2>1 DEF Follows, Begins
  <2>5. k + 1 \in 0..Len(cs) /\ 1 \in 1..Len(Top.todo)
    BY <2>2, <2>3, <2>4
  <2>6. cs[k + 1].kind = "Union"
    BY <1>1, <1>4, <2>3, <2>4, <2>5 DEF Clause
  <2>7. Len(Tail(Top.todo)) = Len(cs) - (k + 1)
    BY <2>2, <2>3, <2>4
  <2>8. ASSUME NEW i \in 1..Len(Tail(Top.todo)) PROVE Tail(Top.todo)[i] = cs[(k + 1) + i]
    <3>1. i \in 1..(Len(cs) - (k + 1))
      BY <2>7
    <3>2. i + 1 \in 1..(Len(cs) - k) /\ k + (i + 1) = (k + 1) + i
      <4> DEFINE m == Len(cs)
      <4>1. m \in Nat /\ k \in 0..m /\ i \in 1..(m - (k + 1))
        BY <2>2, <2>4, <3>1
      <4> HIDE DEF m
      <4>2. i + 1 \in 1..(m - k) /\ k + (i + 1) = (k + 1) + i
        BY <4>1
      <4> QED
        BY <4>2 DEF m
    <3>3. Tail(Top.todo)[i] = Top.todo[i + 1]
      BY <2>3
    <3>4. Top.todo[i + 1] = cs[k + (i + 1)]
      BY <2>4, <3>2
    <3> QED
      BY <3>2, <3>3, <3>4
  <2>9. frames' = <<Frame(Tail(Top.todo))>> /\ ~low'.on /\ UNCHANGED query
    BY <1>1, <1>4
  <2> QED
    BY <2>2, <2>5, <2>6, <2>7, <2>8, <2>9, StartsToFollow
<1> QED
  BY <1>3, <1>4

LEMMA ForeachFollowed ==
  ASSUME VInv, FollowsInv, BeginForeach
  PROVE  FollowsInv'
<1> DEFINE f == Frame(Clause.body)
           n == Len(frames)
           cs == query.clauses
<1>1. /\ frames # <<>> /\ ~low.on /\ low' = low /\ query' = query
      /\ Clause.kind = "Foreach" /\ frames' = <<f>> \o frames
  BY AtShape DEF BeginForeach
<1>2. IsSequence(frames) /\ IsSequence(<<f>>) /\ Len(<<f>>) = 1 /\ n \in Nat
  BY One, SequenceFacts DEF VInv, FramesInv
<1>3. n \in 1..n /\ Top = frames[1]
  BY <1>1, TopShape DEF VInv
<1>4. PICK b, k : Follows(cs, frames[n], b, k, low.on /\ n = 1)
  BY <1>1 DEF FollowsInv
<1> HIDE DEF f
<1>5. /\ Len(frames') = 1 + n
      /\ \A i \in 1..n : frames'[1 + i] = frames[i]
  BY <1>1, <1>2, Concatenated
<1>6. ASSUME NEW i \in 2..Len(frames') PROVE Head(frames'[i].todo).kind = "Foreach"
  <2> HIDE DEF n
  <2>1. i - 1 \in 1..n /\ 1 + (i - 1) = i /\ (i - 1 = 1 \/ i - 1 \in 2..n)
    BY <1>2, <1>5
  <2>2. frames'[i] = frames[i - 1]
    BY <1>5, <2>1
  <2>3. CASE i - 1 = 1
    BY <1>1, <1>3, <2>2, <2>3 DEF Clause
  <2>4. CASE i - 1 \in 2..n
    BY <2>2, <2>4 DEF FollowsInv, n
  <2> QED
    BY <2>1, <2>3, <2>4
<1>7. frames'[Len(frames')] = frames[n]
  <2> HIDE DEF n
  <2> QED
    BY <1>3, <1>5
<1>8. Follows(cs, frames'[Len(frames')], b, k, low'.on /\ Len(frames') = 1)
  BY <1>1, <1>4, <1>7 DEF Follows
<1> QED
  BY <1>1, <1>6, <1>8 DEF FollowsInv

(* A FOREACH takes the place of the call of plan_branch that ends.         *)
LEMMA BodyDone ==
  ASSUME VInv, Len(frames) > 1, NEW h, frames' = <<h>> \o Tail(Tail(frames))
  PROVE  LET n == Len(frames)
         IN  /\ n \in Nat /\ frames # <<>>
             /\ Len(frames') = n - 1 /\ frames'[1] = h
             /\ \A i \in 2..(n - 1) : frames'[i] = frames[i + 1]
<1> DEFINE n == Len(frames)
           rest == Tail(Tail(frames))
<1>1. n \in Nat /\ IsSequence(frames) /\ frames # <<>>
  BY SequenceFacts, Nothing DEF VInv, FramesInv
<1>2. /\ IsSequence(Tail(frames)) /\ Len(Tail(frames)) = n - 1 /\ Tail(frames) # <<>>
      /\ \A i \in 1..(n - 1) : Tail(frames)[i] = frames[i + 1]
  <2>1. /\ IsSequence(Tail(frames)) /\ Len(Tail(frames)) = n - 1
        /\ \A i \in 1..Len(Tail(frames)) : Tail(frames)[i] = frames[i + 1]
    BY <1>1, TailFacts
  <2>2. Tail(frames) # <<>>
    <3>1. Len(Tail(frames)) # Len(<<>>)
      BY <1>1, <2>1, Nothing
    <3> QED
      BY <3>1
  <2> QED
    BY <2>1, <2>2
<1>3. /\ IsSequence(rest) /\ Len(rest) = n - 2
      /\ \A i \in 1..(n - 2) : rest[i] = frames[i + 2]
  <2>1. /\ IsSequence(rest) /\ Len(rest) = Len(Tail(frames)) - 1
        /\ \A i \in 1..Len(rest) : rest[i] = Tail(frames)[i + 1]
    BY <1>2, TailFacts
  <2>2. (n - 1) - 1 = n - 2
    BY <1>1
  <2> HIDE DEF n, rest
  <2>3. ASSUME NEW i \in 1..(n - 2) PROVE rest[i] = frames[i + 2]
    <3>1. i + 1 \in 1..(n - 1) /\ (i + 1) + 1 = i + 2 /\ i \in 1..Len(rest)
      BY <1>1, <1>2, <2>1, <2>2
    <3>2. rest[i] = Tail(frames)[i + 1]
      BY <2>1, <3>1
    <3>3. Tail(frames)[i + 1] = frames[(i + 1) + 1]
      BY <1>2, <3>1
    <3> QED
      BY <3>1, <3>2, <3>3
  <2> QED
    BY <1>2, <2>1, <2>2, <2>3
<1> HIDE DEF rest
<1>4. IsSequence(<<h>>) /\ Len(<<h>>) = 1 /\ <<h>>[1] = h /\ 1 \in 1..1
  BY One
<1>5. frames' = <<h>> \o rest
  BY DEF rest
<1>6. n > 1
  OBVIOUS
<1> HIDE DEF n
<1>7. /\ Len(frames') = 1 + (n - 2) /\ frames'[1] = h
      /\ \A i \in 1..(n - 2) : frames'[1 + i] = rest[i]
  <2>1. LET t == <<h>> \o rest
        IN  /\ Len(t) = Len(<<h>>) + Len(rest)
            /\ \A i \in 1..Len(<<h>>) : t[i] = <<h>>[i]
            /\ \A i \in 1..Len(rest) : t[Len(<<h>>) + i] = rest[i]
    BY <1>3, <1>4, Concatenated
  <2> QED
    BY <1>3, <1>4, <1>5, <2>1
<1>8. ASSUME NEW i \in 2..(n - 1) PROVE frames'[i] = frames[i + 1]
  <2>1. i - 1 \in 1..(n - 2) /\ 1 + (i - 1) = i /\ (i - 1) + 2 = i + 1
    BY <1>1
  <2>2. frames'[1 + (i - 1)] = rest[i - 1] /\ rest[i - 1] = frames[(i - 1) + 2]
    BY <1>3, <1>7, <2>1
  <2> QED
    BY <2>1, <2>2
<1> QED
  BY <1>1, <1>6, <1>7, <1>8 DEF n

LEMMA EndBodyFollowed ==
  ASSUME VInv, FollowsInv, EndBody
  PROVE  FollowsInv'
<1> DEFINE n == Len(frames)
           cs == query.clauses
           outer == frames[2]
           rest == Tail(Tail(frames))
           g(op) == [outer EXCEPT !.main = Append(@, op), !.todo = Tail(@)]
<1>1. /\ n > 1 /\ ~low.on /\ low' = low /\ query' = query
      /\ \E op : frames' = <<g(op)>> \o rest
  BY DEF EndBody
<1>2. n \in Nat /\ IsSequence(frames) /\ frames # <<>>
  BY <1>1, SequenceFacts, Nothing DEF VInv, FramesInv
<1>3. /\ DOMAIN outer = FrameFields /\ IsSequence(outer.todo) /\ outer.todo # <<>>
      /\ Head(outer.todo).kind = "Foreach"
  <2>1. 2 \in 1..n /\ 2 \in 2..n
    BY <1>1, <1>2
  <2> QED
    BY <2>1 DEF VInv, FramesInv, FrameShape, FollowsInv, IsSequence
<1>4. PICK h : frames' = <<h>> \o rest /\ h.todo = Tail(outer.todo) /\ h.visible = outer.visible
  <2>1. PICK op : frames' = <<g(op)>> \o rest
    BY <1>1
  <2>2. g(op).todo = Tail(outer.todo) /\ g(op).visible = outer.visible
    BY <1>3 DEF FrameFields
  <2> HIDE DEF g
  <2> QED
    BY <2>1, <2>2
<1>5. PICK b, k : Follows(cs, frames[n], b, k, low.on /\ n = 1)
  BY <1>2 DEF FollowsInv
<1>6. /\ Len(frames') = n - 1 /\ frames'[1] = h
      /\ \A i \in 2..(n - 1) : frames'[i] = frames[i + 1]
  BY <1>1, <1>4, BodyDone
<1> HIDE DEF n, rest, outer
<1>7. ASSUME NEW i \in 2..Len(frames') PROVE Head(frames'[i].todo).kind = "Foreach"
  <2>1. i \in 2..(n - 1) /\ i + 1 \in 2..n
    BY <1>2, <1>6
  <2> QED
    BY <1>6, <2>1 DEF FollowsInv, n
<1>8. CASE n = 2
  <2>1. Len(frames') = 1 /\ frames'[Len(frames')] = h
    BY <1>6, <1>8
  <2>2. Follows(cs, outer, b, k, low.on /\ n = 1)
    BY <1>5, <1>8 DEF outer
  <2>3. h.visible = NamesAfter(NamesAt(cs, b, k), Head(outer.todo))
    <3>1. outer.visible = NamesAt(cs, b, k)
      BY <1>1, <2>2 DEF Follows
    <3> QED
      BY <1>3, <1>4, <3>1 DEF NamesAfter
  <2>4. IsSequence(cs)
    BY DEF FollowsInv
  <2> HIDE DEF cs
  <2>5. Follows(cs, h, b, k + 1, FALSE)
    BY <1>3, <1>4, <2>2, <2>3, <2>4, FollowsOn
  <2>6. Follows(cs, frames'[Len(frames')], b, k + 1, low'.on /\ Len(frames') = 1)
    BY <1>1, <2>1, <2>5 DEF Follows
  <2> QED
    BY <1>1, <1>7, <2>4, <2>6 DEF FollowsInv, cs
<1>9. CASE n > 2
  <2>1. n - 1 \in 2..(n - 1) /\ (n - 1) + 1 = n
    BY <1>2, <1>9
  <2>2. frames'[Len(frames')] = frames[n]
    BY <1>6, <2>1
  <2>3. Follows(cs, frames'[Len(frames')], b, k, low'.on /\ Len(frames') = 1)
    BY <1>1, <1>5, <2>2 DEF Follows
  <2> QED
    BY <1>1, <1>7, <2>3 DEF FollowsInv
<1> QED
  BY <1>1, <1>2, <1>8, <1>9

LEMMA StepFollowed ==
  ASSUME Proper, VInv, FollowsInv, [Next]_vars
  PROVE  FollowsInv'
<1>1. CASE Begin
  BY <1>1, BeginFollowed
<1>2. CASE BeginMatch
  BY <1>2, BeginMatchFollowed
<1>3. CASE EndMatch
  BY <1>3, EndMatchFollowed
<1>4. CASE LowerLink \/ PatternDone
  <2>1. UNCHANGED <<frames, query>> /\ low.on /\ low'.on
    <3>1. CASE LowerLink
      <4>1. UNCHANGED <<frames, query>> /\ low.on
        BY <3>1 DEF LowerLink
      <4>2. low'.on
        BY <3>1, <4>1 DEF LowerLink, VInv, LowInv, LowFields
      <4> QED
        BY <4>1, <4>2
    <3>2. CASE PatternDone
      <4>1. UNCHANGED <<frames, query>> /\ low.on
        BY <3>2 DEF PatternDone
      <4>2. low'.on
        <5>1. \A ps, combined : Lowering(ps, combined).on
          BY DEF Lowering
        <5>2. DOMAIN low = LowFields
          BY <4>1 DEF VInv, LowInv
        <5>3. \A ps, combined : [low EXCEPT !.patterns = ps, !.combined = combined].on
          BY <4>1, <5>2 DEF LowFields
        <5>4. \E ps, combined : \/ low' = Lowering(ps, combined)
                               \/ low' = [low EXCEPT !.patterns = ps, !.combined = combined]
          BY <3>2 DEF PatternDone
        <5> QED
          BY <5>1, <5>3, <5>4
      <4> QED
        BY <4>1, <4>2
    <3> QED
      BY <1>4, <3>1, <3>2
  <2> QED
    BY <2>1 DEF FollowsInv, Follows
<1>5. CASE Combine \/ Returned \/ UNCHANGED vars
  <2>1. UNCHANGED <<frames, low, query>>
    BY <1>5 DEF Combine, Fail, Returned, vars
  <2> QED
    BY <2>1 DEF FollowsInv
<1>6. CASE Where \/ Call \/ LoadCsv \/ Unwind \/ Start \/ Update
  BY <1>6, EmitsFollowed
<1>7. CASE Write
  BY <1>7, WriteFollowed
<1>8. CASE SchemaCommand \/ Return \/ OrderBy \/ Skip \/ Limit
  BY <1>8, OthersFollowed
<1>9. CASE With
  BY <1>9, WithFollowed
<1>10. CASE BeginForeach
  BY <1>10, ForeachFollowed
<1>11. CASE EndBody
  BY <1>11, EndBodyFollowed
<1>12. CASE EndBranch
  BY <1>12, EndBranchFollowed
<1> QED
  BY <1>1, <1>2, <1>3, <1>4, <1>5, <1>6, <1>7, <1>8, <1>9, <1>10, <1>11, <1>12
     DEF Next, Work, Lower

LEMMA FollowedIsVisible == VInv /\ FollowsInv => TypedIsVisible
<1> SUFFICES ASSUME VInv, FollowsInv, Len(frames) = 1, ~low.on
             PROVE  DOMAIN TypesAt(Handled) = Top.visible
  BY DEF TypedIsVisible
<1> DEFINE cs == query.clauses
<1>1. frames # <<>>
  <2>1. Len(frames) # Len(<<>>)
    BY Nothing
  <2> QED
    BY <2>1
<1>2. PICK b, k : Follows(cs, Top, b, k, low.on /\ Len(frames) = 1)
  BY <1>1, TopShape DEF VInv, FollowsInv
<1>3. IsSequence(cs) /\ Len(cs) \in Nat
  BY SequenceFacts DEF FollowsInv
<1>4. k \in 0..Len(cs) /\ Len(Top.todo) = Len(cs) - k /\ Begins(cs, b, k)
  BY <1>2 DEF Follows, Begins
<1>5. Len(cs) - Len(Top.todo) = k
  BY <1>3, <1>4
<1> HIDE DEF cs
<1>6. BranchStart(cs, k) = b
  BY <1>3, <1>4, StartOfBranch
<1>7. Handled = ClausesDone(cs, b, k)
  BY <1>5, <1>6 DEF Handled, ClausesDone, cs
<1> QED
  BY <1>2, <1>7 DEF Follows, NamesAt

(* The analysis and the planner go through the clauses of a query on their *)
(* own and never compare notes.  Whatever the query, the names one has     *)
(* types for are, after every clause, the names the other counts as        *)
(* visible, in every branch of a UNION and around every FOREACH.           *)
THEOREM AnalysisFollowsThePlanner ==
  ASSUME Proper
  PROVE  Spec => []TypedIsVisible
<1> DEFINE I == query \in Queries /\ VInv /\ FollowsInv
<1>1. Init => I
  <2> SUFFICES ASSUME Init PROVE I
    OBVIOUS
  <2>1. query \in Queries /\ frames = <<>>
    BY DEF Init
  <2>2. IsSequence(query.clauses)
    BY <2>1 DEF Proper, ProperQueries, IsSequence
  <2>3. FollowsInv
    BY <2>1, <2>2, Nothing DEF FollowsInv
  <2> QED
    BY <2>1, <2>3, Beginning
<1>2. I /\ [Next]_vars => I'
  <2> SUFFICES ASSUME I, [Next]_vars PROVE I'
    OBVIOUS
  <2>1. query' = query
    BY QueryStays DEF vars
  <2> QED
    BY <2>1, EveryStep, StepFollowed
<1>3. I => TypedIsVisible
  BY FollowedIsVisible
<1> QED
  BY <1>1, <1>2, <1>3, PTL DEF Spec
=============================================================================
