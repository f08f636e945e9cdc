-------------------------- MODULE PlannerFitProofs --------------------------
(***************************************************************************)
(* The plan of every query fits what optimize takes for granted of it.     *)
(*                                                                         *)
(* A plan is built from pieces: the plans of the calls of plan_branch, of  *)
(* the branches that are done, of the MATCH being lowered, and the second  *)
(* inputs.  Each piece is sound by itself, and every second input is used  *)
(* in one place of one piece.                                              *)
(***************************************************************************)
EXTENDS PlannerProofs, FiniteSetTheorems, FunctionTheorems, SequenceTheorems

-----------------------------------------------------------------------------
(* What the expressions of a query read, the flags of its clauses, and its *)
(* options; what is made up are names, and a missing name is none.         *)
Options == {"Cypher", "Explain", "Profile", "PeriodicCommit"}

ReadingKinds == {"Where", "Set", "Remove", "Delete", "OrderBy", "Skip", "Limit",
                 "LoadCsv", "Unwind", "Start", "Call", "Merge", "Foreach"}

TypedPatterns ==
  /\ \A l \in AnyLink : l.rel.reads \subseteq UserVars /\ l.node.reads \subseteq UserVars
  /\ \A p \in AnyPattern : p.anchor.reads \subseteq UserVars

TypedItems ==
  \A t \in AnyItem : /\ t.reads \subseteq UserVars
                     /\ t.expr # NoVar => t.expr \in t.reads

TypedClauses ==
  \A c \in AnyClause :
    /\ c.kind \in ReadingKinds => c.reads \subseteq UserVars
    /\ c.kind = "Call" => c.pred \in Seq(SUBSET UserVars)
    /\ c.kind \in {"With", "Return"} => c.items \in Seq(AnyItem) /\ c.star \in BOOLEAN
    /\ c.kind = "Foreach" => c.var \in UserVars

TypedNames ==
  /\ NoVar \notin Vars
  /\ \A n \in Nat : Fresh("node", n) \in Vars /\ Fresh("rel", n) \in Vars

WellTyped == /\ TypedPatterns /\ TypedItems /\ TypedClauses /\ TypedNames
         /\ \A q \in Queries : q.options \in Seq(Options)

(* The bound of the model: the spines suffice for the second inputs.       *)
EnoughSpines == free <= NumSpines

-----------------------------------------------------------------------------
(* Operators that stay in the spine they are put on.                       *)
Passive(op) ==
  /\ op \in Op
  /\ op.kind \notin LeafKinds \cup BinaryKinds
  /\ WellFormedOp(1, op)

Adding == {"Cartesian", "Optional", "Union"}

Scoped(q) == \A i \in 1..Len(q) : q[i].used \subseteq Bound(q, i - 1)

(* A sound spine whose second inputs are spines of pl before the n-th; if  *)
(* strict, with every operator reading what is bound below it.             *)
Piece(q, n, pl, strict) ==
  /\ q \in Seq(Op)
  /\ \A i \in 1..Len(q) : WellFormedOp(n, q[i])
  /\ \A i \in 2..Len(q) : q[i].kind \notin LeafKinds
  /\ \A i \in 1..Len(q) : q[i].kind \in Adding => q[i].intro = BoundVars(pl[q[i].right])
  /\ \A i, j \in 1..Len(q) : q[i].right # 0 /\ q[i].right = q[j].right => i = j
  /\ strict => Scoped(q)

RightsOf(q) == {q[i].right : i \in 1..Len(q)} \ {0}

LEMMA OpsAreSequence ==
  ASSUME NEW q \in Seq(Op)
  PROVE  IsSequence(q) /\ Len(q) \in Nat /\ \A i \in 1..Len(q) : q[i] \in Op
BY DEF IsSequence

LEMMA PassiveShape ==
  ASSUME NEW op, Passive(op)
  PROVE  /\ op.right = 0 /\ \A n : WellFormedOp(n, op)
         /\ op.kind \notin Adding /\ op.kind \notin LeafKinds
         /\ op.intro \subseteq Vars
BY DEF Passive, WellFormedOp, Adding, BinaryKinds, Op

LEMMA PieceNothing ==
  ASSUME NEW n, NEW pl, NEW strict
  PROVE  Piece(<<>>, n, pl, strict) /\ RightsOf(<<>>) = {}
<1>1. <<>> \in Seq(Op) /\ Len(<<>>) = 0
  OBVIOUS
<1> QED
  BY <1>1 DEF Piece, RightsOf, Scoped

(* Second inputs that are built later change nothing.                      *)
LEMMA PieceGrows ==
  ASSUME NEW q, NEW n \in Nat, NEW m \in Nat, n <= m, NEW pl, NEW pm, NEW strict,
         \A s \in 1..(n - 1) : pm[s] = pl[s], Piece(q, n, pl, strict)
  PROVE  Piece(q, m, pm, strict)
<1>1. ASSUME NEW i \in 1..Len(q)
      PROVE  /\ WellFormedOp(m, q[i])
             /\ q[i].kind \in Adding => q[i].intro = BoundVars(pm[q[i].right])
  <2>1. WellFormedOp(n, q[i])
    BY DEF Piece
  <2>2. CASE q[i].kind \in BinaryKinds
    <3>1. q[i].right \in 1..(n - 1)
      BY <2>1, <2>2 DEF WellFormedOp
    <3>2. q[i].right \in 1..(m - 1) /\ pm[q[i].right] = pl[q[i].right]
      BY <3>1
    <3> QED
      BY <2>1, <2>2, <3>2 DEF Piece, WellFormedOp
  <2>3. CASE q[i].kind \notin BinaryKinds
    BY <2>1, <2>3 DEF WellFormedOp, Adding, BinaryKinds
  <2> QED
    BY <2>2, <2>3
<1> QED
  BY <1>1 DEF Piece

(* One more operator on top.                                               *)
LEMMA PieceAppended ==
  ASSUME NEW q, NEW n, NEW pl, NEW strict, Piece(q, n, pl, strict), NEW op \in Op,
         WellFormedOp(n, op), op.kind \notin LeafKinds,
         op.kind \in Adding => op.intro = BoundVars(pl[op.right]),
         op.right # 0 => op.right \notin RightsOf(q),
         strict => op.used \subseteq BoundVars(q)
  PROVE  /\ Piece(Append(q, op), n, pl, strict)
         /\ RightsOf(Append(q, op)) = RightsOf(q) \cup ({op.right} \ {0})
<1> DEFINE t == Append(q, op)
           m == Len(q)
<1>1. /\ q \in Seq(Op) /\ t \in Seq(Op) /\ m \in Nat /\ Len(t) = m + 1 /\ t[m + 1] = op
      /\ \A i \in 1..m : t[i] = q[i]
  BY DEF Piece
<1>2. \A i \in 1..(m + 1) : i \in 1..m \/ i = m + 1
  BY <1>1
<1> HIDE DEF t, m
<1>3. \A i \in 1..m : q[i].right # 0 => q[i].right \in RightsOf(q)
  BY DEF RightsOf, m
<1>4. \A i \in 1..(m + 1) : /\ WellFormedOp(n, t[i])
                            /\ t[i].kind \in Adding => t[i].intro = BoundVars(pl[t[i].right])
  BY <1>1, <1>2 DEF Piece, m
<1>5. ASSUME NEW i \in 2..(m + 1) PROVE t[i].kind \notin LeafKinds
  <2>1. i \in 2..m \/ i = m + 1
    BY <1>1
  <2>2. i \in 2..m => i \in 1..m
    BY <1>1
  <2> QED
    BY <1>1, <2>1, <2>2 DEF Piece, m
<1>6. ASSUME NEW i \in 1..(m + 1), NEW j \in 1..(m + 1),
             t[i].right # 0, t[i].right = t[j].right
      PROVE  i = j
  <2>1. CASE i \in 1..m /\ j \in 1..m
    BY <1>1, <1>6, <2>1 DEF Piece, m
  <2>2. CASE i \in 1..m /\ j = m + 1
    BY <1>1, <1>3, <1>6, <2>2
  <2>3. CASE i = m + 1 /\ j \in 1..m
    BY <1>1, <1>3, <1>6, <2>3
  <2> QED
    BY <1>2, <2>1, <2>2, <2>3
<1>7. ASSUME strict, NEW i \in 1..(m + 1) PROVE t[i].used \subseteq Bound(t, i - 1)
  <2>1. \A k \in 1..(i - 1) : k \in 1..m
    BY <1>1
  <2>2. Bound(t, i - 1) = Bound(q, i - 1)
    <3>1. \A k \in 1..(i - 1) : t[k] = q[k]
      BY <1>1, <2>1
    <3>2. \A j \in 1..(i - 1) : \A k \in (j + 1)..(i - 1) : k \in 1..(i - 1)
      BY <1>1
    <3> QED
      BY <3>1, <3>2 DEF Bound
  <2>3. CASE i \in 1..m
    BY <1>1, <1>7, <2>2, <2>3 DEF Piece, Scoped, m
  <2>4. CASE i = m + 1
    <3>1. i - 1 = m
      BY <1>1, <2>4
    <3> QED
      BY <1>1, <1>7, <2>2, <2>4, <3>1 DEF BoundVars, m
  <2> QED
    BY <1>2, <2>3, <2>4
<1>8. Piece(t, n, pl, strict)
  BY <1>1, <1>4, <1>5, <1>6, <1>7 DEF Piece, Scoped
<1>9. RightsOf(t) = RightsOf(q) \cup ({op.right} \ {0})
  <2>1. \A i \in 1..m : i \in 1..(m + 1)
    BY <1>1
  <2>2. m + 1 \in 1..(m + 1)
    BY <1>1
  <2>3. RightsOf(q) = {q[i].right : i \in 1..m} \ {0}
    BY DEF RightsOf, m
  <2>4. RightsOf(t) = {t[i].right : i \in 1..(m + 1)} \ {0}
    BY <1>1 DEF RightsOf
  <2> QED
    BY <1>1, <1>2, <2>1, <2>2, <2>3, <2>4
<1> QED
  BY <1>8, <1>9 DEF t

(* A passive operator on top.                                              *)
LEMMA PieceTopped ==
  ASSUME NEW q, NEW n, NEW pl, NEW strict, Piece(q, n, pl, strict), NEW op, Passive(op),
         strict => op.used \subseteq BoundVars(q)
  PROVE  Piece(Append(q, op), n, pl, strict) /\ RightsOf(Append(q, op)) = RightsOf(q)
<1>1. /\ op \in Op /\ WellFormedOp(n, op) /\ op.kind \notin LeafKinds
      /\ op.kind \notin Adding /\ op.right = 0
  BY PassiveShape DEF Passive
<1>2. RightsOf(Append(q, op)) = RightsOf(q) \cup ({op.right} \ {0})
  BY <1>1, PieceAppended
<1>3. Piece(Append(q, op), n, pl, strict)
  BY <1>1, PieceAppended
<1> QED
  BY <1>1, <1>2, <1>3

(* Operators on top that hide nothing and read what is bound below all of  *)
(* them.                                                                   *)
Stackable(r, q, n, pl, strict) ==
  /\ r \in Seq(Op)
  /\ \A i \in 1..Len(r) :
       /\ WellFormedOp(n, r[i]) /\ r[i].kind \notin LeafKinds /\ ~HidesInput(r[i])
       /\ r[i].kind \in Adding => r[i].intro = BoundVars(pl[r[i].right])
       /\ r[i].right # 0 => r[i].right \notin RightsOf(q)
       /\ strict => r[i].used \subseteq BoundVars(q)
  /\ \A i, j \in 1..Len(r) : r[i].right # 0 /\ r[i].right = r[j].right => i = j

LEMMA PieceJoined ==
  ASSUME NEW q, NEW n, NEW pl, NEW strict, Piece(q, n, pl, strict),
         NEW r, Stackable(r, q, n, pl, strict)
  PROVE  Piece(q \o r, n, pl, strict) /\ RightsOf(q \o r) = RightsOf(q) \cup RightsOf(r)
<1> DEFINE t == q \o r
           m == Len(q)
           l == Len(r)
<1>1. /\ q \in Seq(Op) /\ t \in Seq(Op) /\ m \in Nat /\ l \in Nat /\ Len(t) = m + l
      /\ \A i \in 1..m : t[i] = q[i]
      /\ \A i \in 1..l : t[m + i] = r[i]
  BY DEF Piece, Stackable
<1>2. ASSUME NEW i \in 1..(m + l), i \notin 1..m
      PROVE  i - m \in 1..l /\ t[i] = r[i - m] /\ i > m
  <2>1. i - m \in 1..l /\ m + (i - m) = i
    BY <1>1, <1>2
  <2> QED
    BY <1>1, <1>2, <2>1
<1> HIDE DEF t, m, l
<1>3. \A i \in 1..m : q[i].right # 0 => q[i].right \in RightsOf(q)
  BY DEF RightsOf, m
<1>4. \A i \in 1..(m + l) :
        /\ WellFormedOp(n, t[i])
        /\ t[i].kind \in Adding => t[i].intro = BoundVars(pl[t[i].right])
  <2> SUFFICES ASSUME NEW i \in 1..(m + l)
               PROVE  /\ WellFormedOp(n, t[i])
                      /\ t[i].kind \in Adding => t[i].intro = BoundVars(pl[t[i].right])
    OBVIOUS
  <2>1. CASE i \in 1..m
    BY <1>1, <2>1 DEF Piece, m
  <2>2. CASE i \notin 1..m
    BY <1>2, <2>2 DEF Stackable, l
  <2> QED
    BY <2>1, <2>2
<1>5. ASSUME NEW i \in 2..(m + l) PROVE t[i].kind \notin LeafKinds
  <2>1. i \in 1..(m + l)
    BY <1>1
  <2>2. i \in 1..m => i \in 2..m
    BY <1>1
  <2> QED
    BY <1>1, <1>2, <2>1, <2>2 DEF Piece, Stackable, m, l
<1>6. ASSUME NEW i \in 1..(m + l), NEW j \in 1..(m + l),
             t[i].right # 0, t[i].right = t[j].right
      PROVE  i = j
  <2>1. CASE i \in 1..m /\ j \in 1..m
    BY <1>1, <1>6, <2>1 DEF Piece, m
  <2>2. CASE i \in 1..m /\ j \notin 1..m
    BY <1>1, <1>2, <1>3, <1>6, <2>2, SMTT(30) DEF Stackable, l
  <2>3. CASE i \notin 1..m /\ j \in 1..m
    BY <1>1, <1>2, <1>3, <1>6, <2>3 DEF Stackable, l
  <2>4. CASE i \notin 1..m /\ j \notin 1..m
    <3>1. i - m = j - m
      BY <1>2, <1>6, <2>4 DEF Stackable, l
    <3> QED
      BY <1>1, <3>1
  <2> QED
    BY <2>1, <2>2, <2>3, <2>4
<1>7. ASSUME strict, NEW i \in 1..(m + l) PROVE t[i].used \subseteq Bound(t, i - 1)
  <2>1. CASE i \in 1..m
    <3>1. \A k \in 1..(i - 1) : t[k] = q[k] /\ k \in 1..m
      BY <1>1, <2>1
    <3>2. \A j \in 1..(i - 1) : \A k \in (j + 1)..(i - 1) : k \in 1..(i - 1)
      BY <1>1, <2>1
    <3>3. Bound(t, i - 1) = Bound(q, i - 1)
      BY <3>1, <3>2 DEF Bound
    <3> QED
      BY <1>1, <1>7, <2>1, <3>3 DEF Piece, Scoped, m
  <2>2. CASE i \notin 1..m
    <3>1. t[i].used \subseteq Bound(q, m)
      BY <1>2, <1>7, <2>2 DEF BoundVars, Stackable, m, l
    <3>2. ASSUME NEW v \in Bound(q, m) PROVE v \in Bound(t, i - 1)
      <4>1. PICK j \in 1..m : v \in q[j].intro /\ \A k \in (j + 1)..m : ~HidesInput(q[k])
        BY <3>2 DEF Bound
      <4>2. j \in 1..(i - 1) /\ v \in t[j].intro /\ v \in Vars
        BY <1>1, <1>2, <2>2, <3>2, <4>1 DEF Bound
      <4>3. ASSUME NEW k \in (j + 1)..(i - 1) PROVE ~HidesInput(t[k])
        <5>1. k \in 1..(m + l)
          BY <1>1
        <5>2. k \in 1..m => k \in (j + 1)..m
          BY <1>1
        <5> QED
          BY <1>1, <1>2, <4>1, <5>1, <5>2 DEF Stackable, l
      <4> QED
        BY <4>2, <4>3 DEF Bound
    <3> QED
      BY <3>1, <3>2
  <2> QED
    BY <2>1, <2>2
<1>8. Piece(t, n, pl, strict)
  BY <1>1, <1>4, <1>5, <1>6, <1>7 DEF Piece, Scoped
<1>9. RightsOf(t) = RightsOf(q) \cup RightsOf(r)
  <2>1. RightsOf(q) = {q[i].right : i \in 1..m} \ {0} /\ RightsOf(r) = {r[i].right : i \in 1..l} \ {0}
    BY DEF RightsOf, m, l
  <2>2. RightsOf(t) = {t[i].right : i \in 1..(m + l)} \ {0}
    BY <1>1 DEF RightsOf
  <2>3. \A i \in 1..m : i \in 1..(m + l) /\ t[i] = q[i]
    BY <1>1
  <2>4. \A i \in 1..l : m + i \in 1..(m + l) /\ t[m + i] = r[i]
    BY <1>1
  <2> QED
    BY <1>2, <2>1, <2>2, <2>3, <2>4
<1> QED
  BY <1>8, <1>9 DEF t

(* Passive operators that hide nothing.                                    *)
Flat(r) == r \in Seq(Op) /\ \A i \in 1..Len(r) : Passive(r[i]) /\ ~HidesInput(r[i])

ReadsOf(r) == UNION {r[i].used : i \in 1..Len(r)}

OfKinds(r, kinds) == \A i \in 1..Len(r) : r[i].kind \in kinds

LEMMA FlatFacts ==
  ASSUME NEW r, Flat(r)
  PROVE  Straight(r) /\ RightsOf(r) = {} /\ IsSequence(r)
<1>1. r \in Seq(Op) /\ IsSequence(r)
  BY OpsAreSequence DEF Flat
<1>2. \A i \in 1..Len(r) : r[i].right = 0
  BY PassiveShape DEF Flat
<1> QED
  BY <1>1, <1>2 DEF RightsOf, Flat, Straight

LEMMA FlatJoined ==
  ASSUME NEW r, Flat(r), NEW s, Flat(s)
  PROVE  Flat(r \o s) /\ ReadsOf(r \o s) = ReadsOf(r) \cup ReadsOf(s)
<1>1. /\ r \in Seq(Op) /\ s \in Seq(Op) /\ r \o s \in Seq(Op)
      /\ Len(r) \in Nat /\ Len(s) \in Nat /\ Len(r \o s) = Len(r) + Len(s)
      /\ \A i \in 1..Len(r) : (r \o s)[i] = r[i]
      /\ \A i \in 1..Len(s) : (r \o s)[Len(r) + i] = s[i]
  BY DEF Flat
<1> DEFINE t == r \o s
<1> HIDE DEF t
<1>2. ASSUME NEW i \in 1..(Len(r) + Len(s)), i \notin 1..Len(r)
      PROVE  i - Len(r) \in 1..Len(s) /\ t[i] = s[i - Len(r)]
  <2>1. i - Len(r) \in 1..Len(s) /\ Len(r) + (i - Len(r)) = i
    BY <1>1, <1>2
  <2> QED
    BY <1>1, <2>1 DEF t
<1>3. \A i \in 1..Len(t) : Passive(t[i]) /\ ~HidesInput(t[i])
  BY <1>1, <1>2 DEF Flat, t
<1>4. \A i \in 1..Len(r) : i \in 1..Len(t) /\ t[i] = r[i]
  BY <1>1 DEF t
<1>5. \A i \in 1..Len(s) : Len(r) + i \in 1..Len(t) /\ t[Len(r) + i] = s[i]
  BY <1>1 DEF t
<1>6. ReadsOf(t) = ReadsOf(r) \cup ReadsOf(s)
  <2>1. ASSUME NEW v \in ReadsOf(t) PROVE v \in ReadsOf(r) \cup ReadsOf(s)
    <3>1. PICK i \in 1..Len(t) : v \in t[i].used
      BY <2>1 DEF ReadsOf
    <3>2. CASE i \in 1..Len(r)
      BY <1>4, <3>1, <3>2 DEF ReadsOf
    <3>3. CASE i \notin 1..Len(r)
      <4>1. i \in 1..(Len(r) + Len(s))
        BY <1>1 DEF t
      <4>2. i - Len(r) \in 1..Len(s) /\ t[i] = s[i - Len(r)]
        BY <1>2, <3>3, <4>1
      <4> QED
        BY <3>1, <4>2 DEF ReadsOf
    <3> QED
      BY <3>2, <3>3
  <2>2. ReadsOf(r) \subseteq ReadsOf(t)
    BY <1>4 DEF ReadsOf
  <2>3. ReadsOf(s) \subseteq ReadsOf(t)
    <3> SUFFICES ASSUME NEW i \in 1..Len(s), NEW v \in s[i].used PROVE v \in ReadsOf(t)
      BY DEF ReadsOf
    <3> QED
      BY <1>5 DEF ReadsOf
  <2> QED
    BY <2>1, <2>2, <2>3
<1> QED
  BY <1>1, <1>3, <1>6 DEF Flat, t

LEMMA FlatOne ==
  ASSUME NEW op, Passive(op), ~HidesInput(op)
  PROVE  Flat(<<op>>) /\ ReadsOf(<<op>>) = op.used
<1>1. <<op>> \in Seq(Op) /\ Len(<<op>>) = 1 /\ <<op>>[1] = op
  BY DEF Passive
<1> QED
  BY <1>1 DEF Flat, ReadsOf

LEMMA FlatNothing == Flat(<<>>) /\ ReadsOf(<<>>) = {}
<1>1. <<>> \in Seq(Op) /\ Len(<<>>) = 0
  OBVIOUS
<1> QED
  BY <1>1 DEF Flat, ReadsOf

LEMMA PieceFlat ==
  ASSUME NEW q, NEW n, NEW pl, NEW strict, Piece(q, n, pl, strict), NEW r, Flat(r),
         strict => ReadsOf(r) \subseteq BoundVars(q)
  PROVE  Piece(q \o r, n, pl, strict) /\ RightsOf(q \o r) = RightsOf(q)
<1>1. r \in Seq(Op) /\ RightsOf(r) = {}
  BY FlatFacts DEF Flat
<1>2. ASSUME NEW i \in 1..Len(r)
      PROVE  /\ WellFormedOp(n, r[i]) /\ r[i].kind \notin LeafKinds /\ ~HidesInput(r[i])
             /\ r[i].kind \notin Adding /\ r[i].right = 0
             /\ strict => r[i].used \subseteq BoundVars(q)
  BY PassiveShape DEF Flat, ReadsOf
<1>3. Stackable(r, q, n, pl, strict)
  BY <1>1, <1>2 DEF Stackable
<1> QED
  BY <1>1, <1>3, PieceJoined

-----------------------------------------------------------------------------
(* Where the second inputs are used: in the MATCH being lowered, in the    *)
(* plan of a call, outermost first, in a branch, in a second input.        *)
Places == {"low", "frame", "branch", "plan"} \X Nat

Used ==
  [a \in Places |->
     IF a[1] = "low" /\ a[2] = 0 THEN RightsOf(low.combined)
     ELSE IF a[1] = "frame" /\ a[2] \in 1..Len(frames)
          THEN RightsOf(frames[Len(frames) + 1 - a[2]].main)
     ELSE IF a[1] = "branch" /\ a[2] \in 1..Len(branches)
          THEN RightsOf(branches[a[2]].main)
     ELSE IF a[1] = "plan" /\ a[2] \in 1..(free - 1) THEN RightsOf(plan[a[2]])
     ELSE {}]

(* Each second input before the n-th is used in one place, no other is.    *)
OnceUsed(F, n) ==
  /\ \A a \in Places : F[a] \subseteq 1..(n - 1)
  /\ \A r \in 1..(n - 1) : \E a \in Places : \A b \in Places : r \in F[b] <=> b = a

(* A piece goes to a place where there was none.                           *)
LEMMA UsesMoved ==
  ASSUME NEW F, NEW G, NEW n, OnceUsed(F, n), NEW a \in Places, NEW b \in Places, a # b,
         F[b] = {}, G[a] = {}, G[b] = F[a],
         \A c \in Places : c # a /\ c # b => G[c] = F[c]
  PROVE  OnceUsed(G, n)
<1>1. \A c \in Places : G[c] \subseteq 1..(n - 1)
  BY DEF OnceUsed
<1>2. ASSUME NEW r \in 1..(n - 1)
      PROVE  \E c \in Places : \A d \in Places : r \in G[d] <=> d = c
  <2>1. PICK c \in Places : \A d \in Places : r \in F[d] <=> d = c
    BY DEF OnceUsed
  <2>2. CASE c = a
    <3>1. \A d \in Places : r \in G[d] <=> d = b
      BY <2>1, <2>2
    <3> QED
      BY <3>1
  <2>3. CASE c # a
    <3>1. \A d \in Places : r \in G[d] <=> d = c
      BY <2>1, <2>3
    <3> QED
      BY <3>1
  <2> QED
    BY <2>2, <2>3
<1> QED
  BY <1>1, <1>2 DEF OnceUsed

(* A place uses the next second input.                                     *)
LEMMA UsesGained ==
  ASSUME NEW F, NEW G, NEW n \in Nat \ {0}, OnceUsed(F, n), NEW a \in Places,
         G[a] = F[a] \cup {n}, \A c \in Places : c # a => G[c] = F[c]
  PROVE  OnceUsed(G, n + 1)
<1>1. \A c \in Places : n \notin F[c] /\ F[c] \subseteq 1..(n - 1)
  BY DEF OnceUsed
<1>2. \A c \in Places : G[c] \subseteq 1..((n + 1) - 1)
  BY <1>1
<1>3. ASSUME NEW r \in 1..((n + 1) - 1)
      PROVE  \E c \in Places : \A d \in Places : r \in G[d] <=> d = c
  <2>1. CASE r = n
    <3>1. \A d \in Places : r \in G[d] <=> d = a
      BY <1>1, <2>1
    <3> QED
      BY <3>1
  <2>2. CASE r # n
    <3>1. r \in 1..(n - 1)
      BY <2>2
    <3>2. PICK c \in Places : \A d \in Places : r \in F[d] <=> d = c
      BY <3>1 DEF OnceUsed
    <3>3. \A d \in Places : r \in G[d] <=> d = c
      BY <2>2, <3>2
    <3> QED
      BY <3>3
  <2> QED
    BY <2>1, <2>2
<1> QED
  BY <1>2, <1>3 DEF OnceUsed

LEMMA UsesSame ==
  ASSUME NEW F, NEW G, NEW n, OnceUsed(F, n), \A c \in Places : G[c] = F[c]
  PROVE  OnceUsed(G, n)
BY DEF OnceUsed

-----------------------------------------------------------------------------
(* What is kept aside for the end of a branch.                             *)
Slot(s, kind) == s = None \/ \E op \in Op : s = <<op>> /\ Passive(op) /\ op.kind = kind

FrameBuilt(f, n, pl, strict) ==
  /\ Piece(f.main, n, pl, strict)
  /\ Slot(f.project, "Project") /\ Slot(f.sort, "Sort")
  /\ Slot(f.skip, "Skip") /\ Slot(f.limit, "Limit")
  /\ HasSchemaCommand(f.todo) => f.main = <<>>

(* The links of a pattern read what is bound before them and what they     *)
(* bind, if scope is bound before the first.                               *)
LinksInScope(scope, chain) ==
  \A i \in 1..Len(chain) :
    chain[i].rel.reads \cup chain[i].node.reads
      \subseteq scope \cup UNION {Named(chain[j].rel.var) \cup Named(chain[j].node.var)
                                    : j \in 1..i}

PatternInScope(p) ==
  /\ p.anchor.reads \subseteq Named(p.anchor.var)
  /\ LinksInScope(Named(p.anchor.var), p.chain)

LowBuilt(strict) ==
  /\ Piece(low.path, 1, plan, strict)
  /\ Piece(low.combined, free, plan, strict)
  /\ ~low.on => low.combined = <<>>
  /\ low.on => Named(low.head) \subseteq Intros(low.path)
  /\ strict /\ low.on =>
       /\ LinksInScope(Intros(low.path), low.chain)
       /\ \A i \in 1..Len(low.patterns) : PatternInScope(low.patterns[i])

(* A call that waits for the one on the body of a FOREACH.                 *)
Waiting(f, strict) ==
  /\ Head(f.todo).kind = "Foreach"
  /\ strict => Head(f.todo).reads \subseteq f.visible

(* While the plan is built: finished second inputs, and the pieces.        *)
BuildInv(strict) ==
  /\ \A s \in Spines : IF s < free THEN Piece(plan[s], s, plan, strict) ELSE plan[s] = <<>>
  /\ \A i \in 1..Len(frames) : FrameBuilt(frames[i], free, plan, strict)
  /\ \A i \in 2..Len(frames) : Waiting(frames[i], strict)
  /\ \A i \in 1..Len(branches) : Piece(branches[i].main, free, plan, strict)
  /\ LowBuilt(strict)
  /\ OnceUsed(Used, free)

Results ==
  {"none", "planned", "MultipleStatementsUnsupported", "EmptyQuery",
   "OptionalMatchWithoutAnchor", "UnionBranchWithoutReturn", "UnionColumnCountMismatch"}

(* What makes a plan fit, but for what its operators read.                 *)
Shaped ==
  /\ WellFormed(plan) /\ RightScopesExact(plan)
  /\ \A s \in Spines : \A i \in 2..Len(plan[s]) : plan[s][i].kind \notin LeafKinds
  /\ \A r \in 1..(free - 1) :
       \E s \in Spines : \E i \in 1..Len(plan[s]) :
          /\ plan[s][i].right = r
          /\ \A u \in Spines : \A j \in 1..Len(plan[u]) :
               plan[u][j].right = r => u = s /\ j = i
  /\ \A s \in Spines : \A i \in 1..Len(plan[s]) : plan[s][i].right < free

FitInv(strict) ==
  /\ free \in Nat \ {0} /\ plan \in [Spines -> Seq(Op)] /\ result \in Results
  /\ IsSequence(branches)
  /\ result # "planned" => BuildInv(strict)
  /\ result = "planned" =>
       /\ frames = <<>> /\ low.path \in Seq(Op) /\ low.combined \in Seq(Op)
       /\ \A i \in 1..Len(branches) : branches[i].main \in Seq(Op)
       /\ Shaped /\ (strict => WellScoped(plan))

-----------------------------------------------------------------------------
(* A finished second input leaves the pieces as they are.                  *)
LEMMA SpineAdded ==
  ASSUME NEW strict, FitInv(strict), BuildInv(strict), EnoughSpines, NEW p,
         Piece(p, free, plan, strict), plan' = [plan EXCEPT ![free] = p], free' = free + 1
  PROVE  /\ plan' \in [Spines -> Seq(Op)] /\ free' \in Nat \ {0}
         /\ plan'[free] = p /\ free \in 0..NumSpines /\ \A s \in 1..(free - 1) : plan'[s] = plan[s]
         /\ \A s \in Spines : IF s < free' THEN Piece(plan'[s], s, plan', strict)
                              ELSE plan'[s] = <<>>
         /\ \A q : Piece(q, free, plan, strict) => Piece(q, free', plan', strict)
         /\ \A q : Piece(q, 1, plan, strict) => Piece(q, 1, plan', strict)
<1>1. /\ free \in Nat /\ free > 0 /\ free <= NumSpines /\ free \in Spines
      /\ NumSpines \in Nat /\ Spines = 1..NumSpines
      /\ plan \in [Spines -> Seq(Op)] /\ p \in Seq(Op)
  BY SpineAssumption DEF FitInv, EnoughSpines, Spines, Piece
<1>2. /\ plan' \in [Spines -> Seq(Op)] /\ plan'[free] = p
      /\ \A s \in Spines : s # free => plan'[s] = plan[s]
  BY <1>1
<1>3. \A s \in 1..(free - 1) : s \in Spines /\ s # free /\ plan'[s] = plan[s]
  BY <1>1, <1>2
<1>4. \A q : \A n, m \in Nat : n <= free /\ n <= m /\ Piece(q, n, plan, strict)
                                 => Piece(q, m, plan', strict)
  <2> SUFFICES ASSUME NEW q, NEW n \in Nat, NEW m \in Nat, n <= free, n <= m,
                      Piece(q, n, plan, strict)
               PROVE  Piece(q, m, plan', strict)
    OBVIOUS
  <2>1. \A s \in 1..(n - 1) : s \in 1..(free - 1)
    BY <1>1
  <2> QED
    BY <1>3, <2>1, PieceGrows
<1>5. ASSUME NEW s \in Spines
      PROVE  IF s < free' THEN Piece(plan'[s], s, plan', strict) ELSE plan'[s] = <<>>
  <2>1. s \in Nat /\ s > 0
    BY <1>1
  <2>2. CASE s < free
    <3>1. Piece(plan[s], s, plan, strict) /\ s <= free /\ s <= s
      BY <1>1, <2>1, <2>2 DEF BuildInv
    <3>2. Piece(plan[s], s, plan', strict)
      BY <1>4, <2>1, <3>1, Zenon
    <3> QED
      BY <1>1, <1>2, <2>1, <2>2, <3>2
  <2>3. CASE s = free
    <3>1. free <= free
      BY <1>1
    <3>2. Piece(p, free, plan', strict)
      BY <1>1, <1>4, <3>1, Zenon
    <3> QED
      BY <1>1, <1>2, <2>3, <3>2
  <2>4. CASE s > free
    <3>1. plan'[s] = plan[s] /\ ~(s < free') /\ ~(s < free)
      BY <1>1, <1>2, <2>1, <2>4
    <3> QED
      BY <3>1 DEF BuildInv
  <2> QED
    BY <1>1, <2>1, <2>2, <2>3, <2>4
<1>6. free' \in Nat /\ free <= free /\ free <= free' /\ 1 \in Nat /\ 1 <= free /\ 1 <= 1
  BY <1>1
<1>7. \A q : Piece(q, free, plan, strict) => Piece(q, free', plan', strict)
  BY <1>1, <1>4, <1>6, Zenon
<1>8. \A q : Piece(q, 1, plan, strict) => Piece(q, 1, plan', strict)
  BY <1>1, <1>4, <1>6, Zenon
<1>9. free' \in Nat \ {0} /\ free \in 0..NumSpines
  BY <1>1
<1> QED
  BY <1>2, <1>3, <1>5, <1>7, <1>8, <1>9, Zenon

(* The uses in the frames when the innermost one becomes f.                *)
LEMMA UsesOfTop ==
  ASSUME FramesInv, frames # <<>>, NEW f, frames' = <<f>> \o Tail(frames)
  PROVE  /\ <<"frame", Len(frames)>> \in Places /\ Len(frames') = Len(frames)
         /\ Used[<<"frame", Len(frames)>>] = RightsOf(Top.main)
         /\ Used'[<<"frame", Len(frames)>>] = RightsOf(f.main)
         /\ \A c \in Places : c[1] = "frame" /\ c # <<"frame", Len(frames)>>
                                => Used'[c] = Used[c]
<1>1. /\ Len(frames') = Len(frames) /\ frames'[1] = f /\ Len(frames) \in Nat
      /\ Len(frames) > 0 /\ Top = frames[1]
      /\ \A i \in 2..Len(frames) : frames'[i] = frames[i]
  BY TopShape, Replaced, TailFacts DEF FramesInv
<1>2. <<"frame", Len(frames)>> \in Places
  BY <1>1 DEF Places
<1>3. /\ Used[<<"frame", Len(frames)>>] = RightsOf(Top.main)
      /\ Used'[<<"frame", Len(frames)>>] = RightsOf(f.main)
  BY <1>1, <1>2 DEF Used
<1>4. ASSUME NEW c \in Places, c[1] = "frame", c # <<"frame", Len(frames)>>
      PROVE  Used'[c] = Used[c]
  <2>1. c[2] \in Nat /\ c[2] # Len(frames)
    BY <1>4 DEF Places
  <2>2. CASE c[2] \in 1..Len(frames)
    <3>1. Len(frames) + 1 - c[2] \in 2..Len(frames)
      BY <1>1, <2>1, <2>2
    <3> QED
      BY <1>1, <1>4, <2>2, <3>1 DEF Used
  <2>3. CASE c[2] \notin 1..Len(frames)
    BY <1>1, <1>4, <2>3 DEF Used
  <2> QED
    BY <2>2, <2>3
<1> QED
  BY <1>1, <1>2, <1>3, <1>4

LEMMA OtherUses ==
  ASSUME NEW c \in Places
  PROVE  /\ c[1] = "low" /\ RightsOf(low.combined)' = RightsOf(low.combined) => Used'[c] = Used[c]
         /\ c[1] = "branch" /\ branches' = branches => Used'[c] = Used[c]
         /\ c[1] = "plan" /\ UNCHANGED <<plan, free>> => Used'[c] = Used[c]
         /\ c[1] \in {"low", "frame", "branch", "plan"}
BY DEF Used, Places

(* The innermost frame becomes f, of the same second inputs.               *)
LEMMA Retopped ==
  ASSUME NEW strict, FitInv(strict), BuildInv(strict), VInv, frames # <<>>, Busy,
         NEW f, frames' = <<f>> \o Tail(frames), FrameBuilt(f, free, plan, strict),
         RightsOf(f.main) = RightsOf(Top.main), LowBuilt(strict)',
         RightsOf(low.combined)' = RightsOf(low.combined),
         UNCHANGED <<plan, free, branches, result>>
  PROVE  FitInv(strict)'
<1>1. /\ Len(frames') = Len(frames) /\ frames'[1] = f /\ Len(frames) \in Nat
      /\ \A i \in 2..Len(frames) : frames'[i] = frames[i]
  BY TopShape, Replaced DEF VInv
<1>2. ASSUME NEW i \in 1..Len(frames') PROVE FrameBuilt(frames'[i], free, plan, strict)
  <2>1. i = 1 \/ (i \in 2..Len(frames) /\ i \in 1..Len(frames))
    BY <1>1
  <2> QED
    BY <1>1, <2>1 DEF BuildInv
<1>3. \A c \in Places : Used'[c] = Used[c]
  BY UsesOfTop, OtherUses DEF VInv
<1>4. OnceUsed(Used', free')
  BY <1>3, UsesSame DEF BuildInv
<1>5. \A i \in 2..Len(frames') : Waiting(frames'[i], strict)
  BY <1>1 DEF BuildInv
<1>6. BuildInv(strict)'
  BY <1>2, <1>4, <1>5 DEF BuildInv
<1> QED
  BY <1>6 DEF FitInv, Busy

LEMMA NothingBuilt ==
  ASSUME NEW strict, FitInv(strict), BuildInv(strict),
         UNCHANGED <<plan, free, frames, low, branches>>, result' \in Results \ {"planned"}
  PROVE  FitInv(strict)'
<1>1. Used' = Used
  BY DEF Used
<1>2. LowBuilt(strict)'
  BY DEF BuildInv, LowBuilt
<1>3. BuildInv(strict)'
  BY <1>1, <1>2 DEF BuildInv
<1> QED
  BY <1>3 DEF FitInv

-----------------------------------------------------------------------------
(* What a clause reads of the names before it, and what is kept aside of   *)
(* those, and of the columns, at the end of a branch.                      *)
NeededBy(c) ==
  IF c.kind = "Call" THEN c.reads \cup ((UNION {c.pred[i] : i \in 1..Len(c.pred)}) \ c.binds)
  ELSE IF c.kind \in {"Create", "Merge"}
  THEN (Patterns(c.patterns, PatternReads) \cup (IF c.kind = "Merge" THEN c.reads ELSE {}))
         \ Patterns(c.patterns, PatternBindings)
  ELSE IF c.kind = "With" THEN UNION {c.items[i].reads : i \in 1..Len(c.items)}
  ELSE IF c.kind \in {"Where", "Set", "Remove", "Delete", "LoadCsv", "Unwind", "Start",
                      "Foreach"}
  THEN c.reads ELSE {}

ScopeAtEnd(f) ==
  IF f.project = None THEN f.visible
  ELSE f.project[1].intro \cup (IF f.project[1].keep THEN f.visible ELSE {})

KeptInScope(f) ==
  /\ f.project # None => f.project[1].used \subseteq f.visible
  /\ \A slot \in {"sort", "skip", "limit"} :
       f[slot] # None => f[slot][1].used \subseteq ScopeAtEnd(f)

(* The clause that is next reads names that are visible.                   *)
ReadsInScope ==
  Busy /\ frames # <<>> /\ ~low.on =>
    IF Top.todo = <<>> \/ Clause.kind = "Union" THEN KeptInScope(Top)
    ELSE NeededBy(Clause) \subseteq Top.visible

MatchesInScope ==
  \A c \in AnyClause :
    c.kind = "Match" => \A i \in 1..Len(c.patterns) : PatternInScope(c.patterns[i])

(* Where a step starts.                                                    *)
Here(strict) ==
  /\ Proper /\ WellTyped /\ VInv /\ FitInv(strict) /\ EnoughSpines
  /\ strict => ReadsInScope /\ MatchesInScope

LEMMA BusyBuilt ==
  ASSUME NEW strict, FitInv(strict), Busy
  PROVE  BuildInv(strict) /\ LowBuilt(strict)
BY DEF FitInv, Busy, BuildInv

LEMMA TopBuilt ==
  ASSUME NEW strict, Here(strict), Busy, frames # <<>>
  PROVE  /\ FrameBuilt(Top, free, plan, strict) /\ FrameShape(Top)
         /\ ~low.on => Top.visible \subseteq BoundVars(Top.main)
<1>1. BuildInv(strict) /\ FramesInv
  BY BusyBuilt DEF Here, VInv
<1>2. FrameShape(Top) /\ Top = frames[1] /\ 1 \in 1..Len(frames)
  BY <1>1, TopShape
<1>3. FrameBuilt(Top, free, plan, strict)
  BY <1>1, <1>2 DEF BuildInv
<1>4. ~low.on => Top.visible \subseteq BoundVars(Top.main)
  BY <1>1 DEF FramesInv, Fits
<1> QED
  BY <1>2, <1>3, <1>4

(* plan_branch goes on to the next clause, of the same second inputs.      *)
LEMMA ProceedBuilt ==
  ASSUME NEW strict, Here(strict), Busy, frames # <<>>, ~low.on, Top.todo # <<>>,
         NEW f, Proceed(f), DOMAIN f = FrameFields, f.todo = Top.todo,
         Piece(f.main, free, plan, strict), RightsOf(f.main) = RightsOf(Top.main),
         Slot(f.project, "Project"), Slot(f.sort, "Sort"), Slot(f.skip, "Skip"),
         Slot(f.limit, "Limit"), UNCHANGED <<plan, free, low, branches, result>>
  PROVE  FitInv(strict)'
<1> DEFINE g == [f EXCEPT !.todo = Tail(@)]
<1>1. /\ g.todo = Tail(Top.todo) /\ g.main = f.main /\ g.project = f.project
      /\ g.sort = f.sort /\ g.skip = f.skip /\ g.limit = f.limit
  BY DEF FrameFields
<1>2. frames' = <<g>> \o Tail(frames)
  BY DEF Proceed
<1> HIDE DEF g
<1>3. ~HasSchemaCommand(g.todo)
  BY <1>1, ClauseShape DEF Here, VInv
<1>4. FrameBuilt(g, free, plan, strict)
  BY <1>1, <1>3 DEF FrameBuilt
<1>5. BuildInv(strict) /\ LowBuilt(strict) /\ VInv /\ FitInv(strict)
  BY BusyBuilt DEF Here
<1>6. LowBuilt(strict)' /\ RightsOf(low.combined)' = RightsOf(low.combined)
  BY <1>5 DEF LowBuilt
<1> QED
  BY <1>1, <1>2, <1>4, <1>5, <1>6, Retopped

LEMMA EmitBuilt ==
  ASSUME NEW strict, Here(strict), NEW kinds, At(kinds), NEW ops, NEW names,
         Emit(ops, names), Piece(Top.main \o ops, free, plan, strict),
         RightsOf(Top.main \o ops) = RightsOf(Top.main)
  PROVE  FitInv(strict)'
<1> DEFINE f == [Top EXCEPT !.main = @ \o ops, !.visible = @ \cup names]
<1>1. Busy /\ frames # <<>> /\ ~low.on /\ Top.todo # <<>>
  BY DEF At
<1>2. FrameBuilt(Top, free, plan, strict) /\ FrameShape(Top)
  BY <1>1, TopBuilt
<1>3. /\ DOMAIN f = FrameFields /\ f.todo = Top.todo /\ f.main = Top.main \o ops
      /\ f.project = Top.project /\ f.sort = Top.sort /\ f.skip = Top.skip
      /\ f.limit = Top.limit
  BY <1>2 DEF FrameShape, FrameFields
<1>4. Proceed(f) /\ UNCHANGED <<plan, free, low, branches, result>>
  BY DEF Emit
<1> HIDE DEF f
<1> QED
  BY <1>1, <1>2, <1>3, <1>4, ProceedBuilt DEF FrameBuilt

(* An operator on top of the plan.                                         *)
LEMMA EmitOneBuilt ==
  ASSUME NEW strict, Here(strict), NEW kinds, At(kinds), NEW op, NEW names,
         Emit(<<op>>, names), Passive(op), strict => op.used \subseteq Top.visible
  PROVE  FitInv(strict)'
<1>1. Busy /\ frames # <<>> /\ ~low.on
  BY DEF At
<1>2. /\ Piece(Top.main, free, plan, strict) /\ Top.main \in Seq(Op)
      /\ strict => op.used \subseteq BoundVars(Top.main)
  BY <1>1, TopBuilt DEF FrameBuilt, Piece
<1>3. Top.main \o <<op>> = Append(Top.main, op)
  BY <1>2
<1> QED
  BY <1>2, <1>3, PieceTopped, EmitBuilt

LEMMA NodeTyped ==
  ASSUME NEW kind \in UnaryKinds \ {"Project"}, NEW used \in SUBSET Vars,
         NEW intro \in SUBSET Vars, kind \notin BindingKinds => intro = {}
  PROVE  /\ Passive(Node(kind, used, intro)) /\ ~HidesInput(Node(kind, used, intro))
         /\ Node(kind, used, intro).used = used /\ Node(kind, used, intro).intro = intro
<1>1. <<>> \in Seq(Argument) /\ 0 \in 0..NumSpines
  BY SpineAssumption
<1>2. Node(kind, used, intro) \in Op
  BY <1>1 DEF Node, Op, Kinds
<1> QED
  BY <1>2 DEF Passive, WellFormedOp, Node, HidesInput, UnaryKinds, LeafKinds, BinaryKinds

LEMMA ReadsAtClause ==
  ASSUME NEW strict, Here(strict), NEW kinds, At(kinds)
  PROVE  /\ Clause \in AnyClause /\ UserVars \subseteq Vars /\ Clause.kind \in kinds
         /\ strict /\ Clause.kind # "Union" => NeededBy(Clause) \subseteq Top.visible
BY AtShape, ClauseShape DEF Here, VInv, Proper, ProperNames, ReadsInScope, At

LEMMA SimpleBuilt ==
  ASSUME NEW strict, Here(strict), Where \/ LoadCsv \/ Unwind \/ Start \/ Update
  PROVE  FitInv(strict)'
<1>1. ASSUME NEW kind \in {"Filter", "Set", "Remove", "Delete"},
             At({"Where", "Set", "Remove", "Delete"}),
             Emit(<<Node(kind, Clause.reads, {})>>, {})
      PROVE  FitInv(strict)'
  <2>1. Clause.reads \subseteq Vars /\ (strict => Clause.reads \subseteq Top.visible)
    BY <1>1, ReadsAtClause DEF Here, WellTyped, TypedClauses, ReadingKinds, NeededBy
  <2>2. kind \in UnaryKinds \ {"Project"}
    BY DEF UnaryKinds
  <2>3. /\ Passive(Node(kind, Clause.reads, {}))
        /\ Node(kind, Clause.reads, {}).used = Clause.reads
    BY <2>1, <2>2, NodeTyped
  <2> QED
    BY <1>1, <2>1, <2>3, EmitOneBuilt
<1>2. ASSUME NEW kind \in {"LoadCsv", "Unwind", "Start"}, At({kind}),
             Emit(<<Node(kind, Clause.reads, Clause.binds)>>, Clause.binds)
      PROVE  FitInv(strict)'
  <2>1. /\ Clause.reads \subseteq Vars /\ (strict => Clause.reads \subseteq Top.visible)
        /\ Clause.binds \subseteq Vars
    BY <1>2, ReadsAtClause DEF Here, WellTyped, TypedClauses, ReadingKinds, NeededBy,
                               Proper, ProperClauses
  <2>2. kind \in UnaryKinds \ {"Project"} /\ kind \in BindingKinds
    BY DEF UnaryKinds, BindingKinds
  <2>3. /\ Passive(Node(kind, Clause.reads, Clause.binds))
        /\ Node(kind, Clause.reads, Clause.binds).used = Clause.reads
    BY <2>1, <2>2, NodeTyped
  <2> QED
    BY <1>2, <2>1, <2>3, EmitOneBuilt
<1>3. CASE Where
  <2>1. At({"Where"}) /\ Emit(<<Node("Filter", Clause.reads, {})>>, {})
    BY <1>3 DEF Where
  <2>2. At({"Where", "Set", "Remove", "Delete"})
    BY <2>1 DEF At
  <2> QED
    BY <1>1, <2>1, <2>2
<1>4. CASE Update
  <2>1. At({"Set", "Remove", "Delete"}) /\ Emit(<<Node(Clause.kind, Clause.reads, {})>>, {})
    BY <1>4 DEF Update
  <2>2. /\ At({"Where", "Set", "Remove", "Delete"})
        /\ Clause.kind \in {"Filter", "Set", "Remove", "Delete"}
    BY <2>1 DEF At
  <2> QED
    BY <1>1, <2>1, <2>2
<1>5. CASE LoadCsv
  BY <1>2, <1>5 DEF LoadCsv
<1>6. CASE Unwind
  BY <1>2, <1>6 DEF Unwind
<1>7. CASE Start
  BY <1>2, <1>7 DEF Start
<1> QED
  BY <1>3, <1>4, <1>5, <1>6, <1>7

-----------------------------------------------------------------------------
(* CALL: the filters above it read what it yields.                         *)
LEMMA FlatFunction ==
  ASSUME NEW n \in Nat, NEW s, s = [i \in 1..n |-> s[i]],
         \A i \in 1..n : Passive(s[i]) /\ ~HidesInput(s[i])
  PROVE  Flat(s) /\ ReadsOf(s) = UNION {s[i].used : i \in 1..n}
<1>1. \A i \in 1..n : s[i] \in Op
  BY DEF Passive
<1>2. s \in Seq(Op) /\ Len(s) = n
  BY <1>1
<1> QED
  BY <1>2 DEF Flat, ReadsOf

LEMMA CallBuilt ==
  ASSUME NEW strict, Here(strict), Call
  PROVE  FitInv(strict)'
<1> DEFINE op == Node("ProcedureCall", Clause.reads, Clause.binds)
           tests == [i \in 1..Len(Clause.pred) |-> Node("Filter", Clause.pred[i], {})]
           q == Top.main
<1>1. At({"Call"}) /\ Emit(<<op>> \o tests, Clause.binds)
  BY DEF Call
<1>2. /\ Clause.reads \subseteq Vars /\ Clause.binds \subseteq Vars
      /\ Clause.pred \in Seq(SUBSET UserVars) /\ UserVars \subseteq Vars
      /\ strict => /\ Clause.reads \subseteq Top.visible
                   /\ UNION {Clause.pred[i] : i \in 1..Len(Clause.pred)}
                        \subseteq Top.visible \cup Clause.binds
  <2>1. /\ Clause \in AnyClause /\ UserVars \subseteq Vars /\ Clause.kind = "Call"
        /\ strict => NeededBy(Clause) \subseteq Top.visible
    BY <1>1, ReadsAtClause
  <2>2. /\ Clause.reads \subseteq UserVars /\ Clause.binds \subseteq UserVars
        /\ Clause.pred \in Seq(SUBSET UserVars)
    BY <2>1 DEF Here, WellTyped, TypedClauses, ReadingKinds, Proper, ProperClauses
  <2> DEFINE all == UNION {Clause.pred[i] : i \in 1..Len(Clause.pred)}
  <2>3. NeededBy(Clause) = Clause.reads \cup (all \ Clause.binds)
    BY <2>1 DEF NeededBy
  <2> HIDE DEF all
  <2>4. strict => Clause.reads \subseteq Top.visible
                  /\ all \subseteq Top.visible \cup Clause.binds
    BY <2>1, <2>3
  <2>5. Clause.reads \subseteq Vars /\ Clause.binds \subseteq Vars
    BY <2>1, <2>2
  <2> QED
    BY <2>1, <2>2, <2>4, <2>5, Zenon DEF all
<1>3. /\ Passive(op) /\ op.used = Clause.reads /\ op.intro = Clause.binds /\ ~HidesInput(op)
  BY <1>2, NodeTyped DEF UnaryKinds, BindingKinds
<1>4. Len(Clause.pred) \in Nat /\ \A i \in 1..Len(Clause.pred) : Clause.pred[i] \subseteq Vars
  BY <1>2
<1>5. /\ Flat(tests)
      /\ ReadsOf(tests) = UNION {Clause.pred[i] : i \in 1..Len(Clause.pred)}
  <2>1. \A i \in 1..Len(Clause.pred) :
          Passive(tests[i]) /\ ~HidesInput(tests[i]) /\ tests[i].used = Clause.pred[i]
    BY <1>4, NodeTyped DEF UnaryKinds
  <2>2. tests = [i \in 1..Len(Clause.pred) |-> tests[i]]
    OBVIOUS
  <2> HIDE DEF tests
  <2>3. /\ Flat(tests)
        /\ ReadsOf(tests) = UNION {tests[i].used : i \in 1..Len(Clause.pred)}
    BY <1>4, <2>1, <2>2, FlatFunction
  <2> QED
    BY <2>1, <2>3
<1>6. Busy /\ frames # <<>> /\ ~low.on
  BY <1>1 DEF At
<1>7. Piece(q, free, plan, strict) /\ q \in Seq(Op) /\ Top.visible \subseteq BoundVars(q)
  BY <1>6, TopBuilt DEF FrameBuilt, Piece
<1> HIDE DEF op, tests, q
<1>8. q \o (<<op>> \o tests) = Append(q, op) \o tests
  <2>1. tests \in Seq(Op) /\ op \in Op
    BY <1>3, <1>5 DEF Flat, Passive
  <2> QED
    BY <1>7, <2>1, SMTT(30)
<1>9. /\ Piece(Append(q, op), free, plan, strict) /\ RightsOf(Append(q, op)) = RightsOf(q)
  <2>1. strict => op.used \subseteq BoundVars(q)
    BY <1>2, <1>3, <1>7
  <2> QED
    BY <1>3, <1>7, <2>1, PieceTopped
<1>10. strict => ReadsOf(tests) \subseteq BoundVars(Append(q, op))
  <2>1. IsSequence(q)
    BY <1>7 DEF IsSequence
  <2>2. BoundVars(Append(q, op)) =
          (op.intro \cap Vars) \cup (IF HidesInput(op) THEN {} ELSE BoundVars(q))
    BY <2>1, BoundAppended
  <2> QED
    BY <1>2, <1>3, <1>5, <1>7, <2>2
<1>11. /\ Piece(Append(q, op) \o tests, free, plan, strict)
       /\ RightsOf(Append(q, op) \o tests) = RightsOf(q)
  BY <1>5, <1>9, <1>10, PieceFlat
<1> QED
  BY <1>1, <1>8, <1>11, EmitBuilt DEF q

-----------------------------------------------------------------------------
(* CREATE and MERGE.                                                       *)
LEMMA ReadsOfPattern ==
  ASSUME Proper, WellTyped, NEW p \in AnyPattern
  PROVE  PatternReads(p) \subseteq UserVars /\ PatternBindings(p) \subseteq UserVars
<1>1. p.chain \in Seq(AnyLink) /\ p.anchor.reads \subseteq UserVars
  BY DEF Proper, ProperPatterns, WellTyped, TypedPatterns
<1>2. ASSUME NEW i \in 1..Len(p.chain)
      PROVE  p.chain[i].rel.reads \cup p.chain[i].node.reads \subseteq UserVars
  <2>1. p.chain[i] \in AnyLink
    BY <1>1
  <2> QED
    BY <2>1 DEF WellTyped, TypedPatterns
<1> QED
  BY <1>1, <1>2, BindingsOfPattern DEF PatternReads

LEMMA PartsJoined ==
  ASSUME NEW s \in Seq(Argument), NEW t \in Seq(Argument)
  PROVE  /\ s \o t \in Seq(Argument)
         /\ Names(s \o t) = Names(s) \cup Names(t) /\ Reads(s \o t) = Reads(s) \cup Reads(t)
<1> DEFINE u == s \o t
<1>1. /\ u \in Seq(Argument) /\ Len(s) \in Nat /\ Len(t) \in Nat
      /\ Len(u) = Len(s) + Len(t)
      /\ \A i \in 1..Len(s) : u[i] = s[i]
      /\ \A i \in 1..Len(t) : u[Len(s) + i] = t[i]
  OBVIOUS
<1> HIDE DEF u
<1>2. ASSUME NEW i \in 1..Len(u), i \notin 1..Len(s)
      PROVE  i - Len(s) \in 1..Len(t) /\ u[i] = t[i - Len(s)]
  <2>1. i - Len(s) \in 1..Len(t) /\ Len(s) + (i - Len(s)) = i
    BY <1>1, <1>2
  <2> QED
    BY <1>1, <2>1
<1>3. /\ \A i \in 1..Len(s) : i \in 1..Len(u) /\ u[i] = s[i]
      /\ \A i \in 1..Len(t) : Len(s) + i \in 1..Len(u) /\ u[Len(s) + i] = t[i]
  BY <1>1
<1>4. Names(u) = Names(s) \cup Names(t)
  <2>1. ASSUME NEW i \in 1..Len(u) PROVE u[i].names \subseteq Names(s) \cup Names(t)
    <3>1. CASE i \in 1..Len(s)
      BY <1>3, <3>1 DEF Names
    <3>2. CASE i \notin 1..Len(s)
      BY <1>2, <3>2 DEF Names
    <3> QED
      BY <3>1, <3>2
  <2>2. Names(u) \subseteq Names(s) \cup Names(t)
    BY <2>1 DEF Names
  <2>3. Names(s) \subseteq Names(u) /\ Names(t) \subseteq Names(u)
    BY <1>3 DEF Names
  <2> QED
    BY <2>2, <2>3
<1>5. Reads(u) = Reads(s) \cup Reads(t)
  <2>1. ASSUME NEW i \in 1..Len(u) PROVE u[i].reads \subseteq Reads(s) \cup Reads(t)
    <3>1. CASE i \in 1..Len(s)
      BY <1>3, <3>1 DEF Reads
    <3>2. CASE i \notin 1..Len(s)
      BY <1>2, <3>2 DEF Reads
    <3> QED
      BY <3>1, <3>2
  <2>2. Reads(u) \subseteq Reads(s) \cup Reads(t)
    BY <2>1 DEF Reads
  <2>3. Reads(s) \subseteq Reads(u) /\ Reads(t) \subseteq Reads(u)
    BY <1>3 DEF Reads
  <2> QED
    BY <2>2, <2>3
<1> QED
  BY <1>1, <1>4, <1>5 DEF u

LEMMA WriteBuilt ==
  ASSUME NEW strict, Here(strict), Write
  PROVE  FitInv(strict)'
<1> DEFINE ps == Clause.patterns
           made == [i \in 1..Len(ps) |-> Part(PatternBindings(ps[i]), PatternReads(ps[i]))]
           actions == IF Clause.kind = "Merge" THEN <<Part({}, Clause.reads)>> ELSE <<>>
           parts == made \o actions
           node == Node(Clause.kind, Reads(parts) \ Names(parts), Names(parts))
           op == [node EXCEPT !.parts = parts]
<1>1. At({"Create", "Merge"}) /\ Emit(<<op>>, Names(parts))
  BY DEF Write
<1>2. /\ ps \in Seq(AnyPattern) /\ UserVars \subseteq Vars /\ Clause.kind \in {"Create", "Merge"}
      /\ Clause.kind = "Merge" => Clause.reads \subseteq UserVars
      /\ strict => (Patterns(ps, PatternReads)
                      \cup (IF Clause.kind = "Merge" THEN Clause.reads ELSE {}))
                     \ Patterns(ps, PatternBindings) \subseteq Top.visible
  BY <1>1, ReadsAtClause DEF Here, WellTyped, TypedClauses, ReadingKinds, NeededBy,
                             Proper, ProperClauses
<1>3. /\ made \in Seq(Argument) /\ Names(made) = Patterns(ps, PatternBindings)
      /\ Reads(made) = Patterns(ps, PatternReads)
  <2>1. Len(ps) \in Nat /\ \A i \in 1..Len(ps) : ps[i] \in AnyPattern
    BY <1>2
  <2>2. \A i \in 1..Len(ps) : made[i] \in Argument
    <3> SUFFICES ASSUME NEW i \in 1..Len(ps)
                 PROVE  Part(PatternBindings(ps[i]), PatternReads(ps[i])) \in Argument
      OBVIOUS
    <3>1. PatternReads(ps[i]) \subseteq Vars /\ PatternBindings(ps[i]) \subseteq Vars
      BY <1>2, <2>1, ReadsOfPattern DEF Here
    <3> QED
      BY <3>1 DEF Part, Argument
  <2>3. made = [i \in 1..Len(ps) |-> made[i]]
    OBVIOUS
  <2>4. \A i \in 1..Len(ps) : /\ made[i].names = PatternBindings(ps[i])
                              /\ made[i].reads = PatternReads(ps[i])
    BY DEF Part
  <2> HIDE DEF made, ps
  <2>5. /\ made \in Seq(Argument) /\ Len(made) = Len(ps)
    BY <2>1, <2>2, <2>3
  <2> QED
    BY <2>4, <2>5 DEF Names, Reads, Patterns
<1>4. /\ actions \in Seq(Argument) /\ Names(actions) = {}
      /\ Reads(actions) = IF Clause.kind = "Merge" THEN Clause.reads ELSE {}
  <2>1. CASE Clause.kind = "Merge"
    <3>1. Part({}, Clause.reads) \in Argument
      BY <1>2, <2>1 DEF Part, Argument
    <3>2. /\ actions = <<Part({}, Clause.reads)>> /\ Len(actions) = 1
          /\ actions[1].names = {} /\ actions[1].reads = Clause.reads
      BY <2>1 DEF Part
    <3>3. \A i \in 1..1 : i = 1
      OBVIOUS
    <3> HIDE DEF actions
    <3>4. Names(actions) = {} /\ Reads(actions) = Clause.reads
      BY <3>2, <3>3 DEF Names, Reads
    <3> QED
      BY <2>1, <3>1, <3>2, <3>4
  <2>2. CASE Clause.kind # "Merge"
    <3>1. actions = <<>> /\ Len(actions) = 0
      BY <2>2
    <3> HIDE DEF actions
    <3> QED
      BY <2>2, <3>1 DEF Names, Reads
  <2> QED
    BY <2>1, <2>2
<1> HIDE DEF made, actions
<1>5. /\ parts \in Seq(Argument) /\ Names(parts) = Patterns(ps, PatternBindings)
      /\ Reads(parts) = Patterns(ps, PatternReads)
                          \cup (IF Clause.kind = "Merge" THEN Clause.reads ELSE {})
  <2>1. /\ made \o actions \in Seq(Argument)
        /\ Names(made \o actions) = Names(made) \cup Names(actions)
        /\ Reads(made \o actions) = Reads(made) \cup Reads(actions)
    BY <1>3, <1>4, PartsJoined
  <2> HIDE DEF ps
  <2> QED
    BY <1>3, <1>4, <2>1
<1> HIDE DEF parts
<1>6. Names(parts) \subseteq Vars /\ Reads(parts) \subseteq Vars
  <2>1. \A i \in 1..Len(parts) : parts[i].names \subseteq Vars /\ parts[i].reads \subseteq Vars
    <3>1. \A i \in 1..Len(parts) : parts[i] \in Argument
      BY <1>5
    <3> QED
      BY <3>1 DEF Argument
  <2> QED
    BY <2>1 DEF Names, Reads
<1>7. Clause.kind \in UnaryKinds \ {"Project"} /\ Clause.kind \in BindingKinds
  BY <1>2 DEF UnaryKinds, BindingKinds
<1>8. Passive(node)
  BY <1>6, <1>7, NodeTyped
<1>9. Passive(op) /\ op.used = Reads(parts) \ Names(parts)
  BY <1>5, <1>8 DEF Passive, WellFormedOp, Op, Node
<1>10. strict => op.used \subseteq Top.visible
  BY <1>2, <1>5, <1>9
<1> HIDE DEF op
<1> QED
  BY <1>1, <1>9, <1>10, EmitOneBuilt

-----------------------------------------------------------------------------
(* Projections.                                                            *)
LEMMA ProjectionTyped ==
  ASSUME Proper, WellTyped, NEW items \in Seq(AnyItem), NEW star \in BOOLEAN
  PROVE  LET op == ProjectItems(star, items)
         IN  /\ Passive(op) /\ op.kind = "Project" /\ op.keep = star
             /\ op.intro = ItemNames(items) /\ ItemNames(items) \subseteq UserVars
             /\ op.used = UNION {items[i].reads : i \in 1..Len(items)}
<1> DEFINE n == Len(items)
           parts == [i \in 1..n |-> Part(Named(ItemName(items[i])), items[i].reads)]
           alias == UNION {Named(items[i].alias) : i \in 1..n}
           agg == \E i \in 1..n : items[i].agg
           op == ProjectItems(star, items)
<1>1. n \in Nat /\ UserVars \subseteq Vars /\ \A i \in 1..n : items[i] \in AnyItem
  BY DEF Proper, ProperNames
<1>2. ASSUME NEW i \in 1..n
      PROVE  /\ Named(items[i].alias) \subseteq UserVars
             /\ Named(ItemName(items[i])) \subseteq UserVars
             /\ Named(items[i].alias) \subseteq Named(ItemName(items[i]))
             /\ items[i].reads \subseteq UserVars
             /\ Named(ItemName(items[i])) \ Named(items[i].alias) \subseteq items[i].reads
  BY <1>1 DEF Proper, ProperItems, WellTyped, TypedItems, AnyVar, Named, ItemName
<1>3. \A i \in 1..n : parts[i] \in Argument
  BY <1>1, <1>2 DEF Part, Argument
<1>4. /\ parts \in Seq(Argument) /\ Len(parts) = n
      /\ \A i \in 1..n : /\ parts[i].names = Named(ItemName(items[i]))
                         /\ parts[i].reads = items[i].reads
  BY <1>1, <1>3 DEF Part
<1>5. op = Projection(star, parts, alias, agg)
  BY DEF ProjectItems
<1>6. /\ agg \in BOOLEAN
  OBVIOUS
<1> HIDE DEF parts, agg, op
<1>7. /\ Names(parts) = ItemNames(items) /\ ItemNames(items) \subseteq UserVars
      /\ Reads(parts) = UNION {items[i].reads : i \in 1..n} /\ Reads(parts) \subseteq UserVars
  BY <1>2, <1>4 DEF Names, Reads, ItemNames
<1>8. alias \subseteq Names(parts) /\ Names(parts) \ alias \subseteq Reads(parts)
  <2>1. Names(parts) = UNION {Named(ItemName(items[i])) : i \in 1..n}
    BY <1>7 DEF ItemNames
  <2>2. Reads(parts) = UNION {items[i].reads : i \in 1..n}
    BY <1>7
  <2> HIDE DEF n
  <2> QED
    BY <1>2, <2>1, <2>2, SMTT(30)
<1> HIDE DEF alias, n
<1>9. /\ op.kind = "Project" /\ op.keep = star /\ op.intro = Names(parts)
      /\ op.used = Reads(parts) /\ op.alias = alias /\ op.right = 0
  BY <1>5 DEF Projection, Node
<1>10. op \in Op
  <2>1. "Project" \in Kinds /\ 0 \in 0..NumSpines
    BY SpineAssumption DEF Kinds, UnaryKinds
  <2>2. /\ Reads(parts) \subseteq Vars /\ Names(parts) \subseteq Vars /\ alias \subseteq Vars
        /\ parts \in Seq(Argument) /\ star \in BOOLEAN /\ agg \in BOOLEAN
    BY <1>1, <1>4, <1>6, <1>7, <1>8
  <2>3. op = [kind |-> "Project", used |-> Reads(parts), intro |-> Names(parts),
              parts |-> parts, alias |-> alias, keep |-> star, agg |-> agg, right |-> 0]
    BY <1>5 DEF Projection, Node
  <2> QED
    BY <2>1, <2>2, <2>3 DEF Op
<1> QED
  BY <1>7, <1>8, <1>9, <1>10
     DEF op, n, Passive, WellFormedOp, BindingKinds, LeafKinds, BinaryKinds

LEMMA DeduplicateFlat ==
  ASSUME NEW distinct
  PROVE  Flat(Deduplicate(distinct)) /\ ReadsOf(Deduplicate(distinct)) = {}
<1>1. Passive(Node("Distinct", {}, {})) /\ ~HidesInput(Node("Distinct", {}, {}))
      /\ Node("Distinct", {}, {}).used = {}
  BY NodeTyped DEF UnaryKinds
<1> QED
  BY <1>1, FlatOne, FlatNothing DEF Deduplicate

LEMMA WithBuilt ==
  ASSUME NEW strict, Here(strict), With
  PROVE  FitInv(strict)'
<1> DEFINE op == ProjectItems(Clause.star, Clause.items)
           once == Deduplicate(Clause.distinct)
           names == (IF Clause.star THEN Top.visible ELSE {}) \cup ItemNames(Clause.items)
           f == [Top EXCEPT !.main = @ \o <<op>> \o once, !.visible = names]
           q == Top.main
<1>1. At({"With"}) /\ Proceed(f) /\ UNCHANGED <<plan, free, low, branches, result>>
  BY DEF With
<1>2. Busy /\ frames # <<>> /\ ~low.on /\ Top.todo # <<>>
  BY <1>1 DEF At
<1>3. FrameBuilt(Top, free, plan, strict) /\ FrameShape(Top) /\ Top.visible \subseteq BoundVars(q)
  BY <1>2, TopBuilt
<1>4. /\ Clause.items \in Seq(AnyItem) /\ Clause.star \in BOOLEAN
      /\ strict => UNION {Clause.items[i].reads : i \in 1..Len(Clause.items)} \subseteq Top.visible
  BY <1>1, ReadsAtClause DEF Here, WellTyped, TypedClauses, NeededBy
<1>5. /\ Passive(op)
      /\ op.used = UNION {Clause.items[i].reads : i \in 1..Len(Clause.items)}
  BY <1>4, ProjectionTyped DEF Here
<1>6. Flat(once) /\ ReadsOf(once) = {}
  BY DeduplicateFlat
<1>7. /\ DOMAIN f = FrameFields /\ f.todo = Top.todo /\ f.main = q \o <<op>> \o once
      /\ f.project = Top.project /\ f.sort = Top.sort /\ f.skip = Top.skip
      /\ f.limit = Top.limit
  BY <1>3 DEF FrameShape, FrameFields
<1> HIDE DEF f, op, once, q
<1>8. Piece(q, free, plan, strict) /\ q \in Seq(Op)
  BY <1>3 DEF FrameBuilt, Piece, q
<1>9. q \o <<op>> = Append(q, op)
  BY <1>8
<1>10. /\ Piece(Append(q, op), free, plan, strict) /\ RightsOf(Append(q, op)) = RightsOf(q)
  <2>1. strict => op.used \subseteq BoundVars(q)
    BY <1>3, <1>4, <1>5
  <2> QED
    BY <1>5, <1>8, <2>1, PieceTopped
<1>11. /\ Piece(Append(q, op) \o once, free, plan, strict)
       /\ RightsOf(Append(q, op) \o once) = RightsOf(q)
  <2>1. ReadsOf(once) \subseteq BoundVars(Append(q, op))
    BY <1>6
  <2> QED
    BY <1>6, <1>10, <2>1, PieceFlat
<1> QED
  BY <1>1, <1>2, <1>3, <1>7, <1>9, <1>11, ProceedBuilt DEF FrameBuilt, q

-----------------------------------------------------------------------------
(* A leaf, and the clauses that put nothing on top.                        *)
LEMMA PieceLeaf ==
  ASSUME NEW kind \in LeafKinds, NEW intro \in SUBSET Vars,
         kind \notin BindingKinds => intro = {}, NEW n, NEW pl, NEW strict
  PROVE  /\ Piece(<<Node(kind, {}, intro)>>, n, pl, strict)
         /\ RightsOf(<<Node(kind, {}, intro)>>) = {}
<1> DEFINE op == Node(kind, {}, intro)
<1>1. <<>> \in Seq(Argument) /\ 0 \in 0..NumSpines
  BY SpineAssumption
<1>2. op \in Op
  BY <1>1 DEF Node, Op, Kinds
<1>3. /\ op.used = {} /\ op.right = 0 /\ op.kind \notin Adding
      /\ WellFormedOp(n, op)
  BY DEF Node, WellFormedOp, LeafKinds, BinaryKinds, Adding
<1> HIDE DEF op
<1>4. <<op>> \in Seq(Op) /\ Len(<<op>>) = 1 /\ <<op>>[1] = op
  BY <1>2
<1>5. \A i \in 1..1 : i = 1
  OBVIOUS
<1>6. Piece(<<op>>, n, pl, strict)
  BY <1>3, <1>4, <1>5 DEF Piece, Scoped
<1>7. RightsOf(<<op>>) = {}
  BY <1>3, <1>4, <1>5 DEF RightsOf
<1> QED
  BY <1>6, <1>7 DEF op

LEMMA SchemaBuilt ==
  ASSUME NEW strict, Here(strict), SchemaCommand
  PROVE  FitInv(strict)'
<1> DEFINE q == <<Node("SchemaCommand", {}, {})>>
           f == [Top EXCEPT !.main = q]
<1>1. At({"SchemaCommand"}) /\ Proceed(f) /\ UNCHANGED <<plan, free, low, branches, result>>
  BY DEF SchemaCommand
<1>2. Busy /\ frames # <<>> /\ ~low.on /\ Top.todo # <<>> /\ Clause.kind = "SchemaCommand"
  BY <1>1 DEF At
<1>3. FrameBuilt(Top, free, plan, strict) /\ FrameShape(Top)
  BY <1>2, TopBuilt
<1>4. HasSchemaCommand(Top.todo)
  <2>1. Len(Top.todo) \in Nat /\ Len(Top.todo) > 0 /\ Top.todo[1].kind = "SchemaCommand"
    BY <1>2, <1>3 DEF FrameShape, Clause
  <2>2. 1 \in 1..Len(Top.todo)
    BY <2>1
  <2> QED
    BY <2>1, <2>2 DEF HasSchemaCommand
<1>5. RightsOf(Top.main) = {}
  BY <1>3, <1>4, PieceNothing DEF FrameBuilt
<1>6. Piece(q, free, plan, strict) /\ RightsOf(q) = {}
  BY PieceLeaf DEF LeafKinds
<1>7. /\ DOMAIN f = FrameFields /\ f.todo = Top.todo /\ f.main = q
      /\ f.project = Top.project /\ f.sort = Top.sort /\ f.skip = Top.skip
      /\ f.limit = Top.limit
  BY <1>3 DEF FrameShape, FrameFields
<1> HIDE DEF f, q
<1> QED
  BY <1>1, <1>2, <1>3, <1>5, <1>6, <1>7, ProceedBuilt DEF FrameBuilt

(* RETURN, ORDER BY, SKIP and LIMIT are kept aside.                        *)
LEMMA KeptBuilt ==
  ASSUME NEW strict, Here(strict), Return \/ OrderBy \/ Skip \/ Limit
  PROVE  FitInv(strict)'
<1>1. PICK kinds \in {{"Return"}, {"OrderBy"}, {"Skip"}, {"Limit"}} : At(kinds)
  BY DEF Return, OrderBy, Skip, Limit
<1>2. /\ Busy /\ frames # <<>> /\ ~low.on /\ Top.todo # <<>>
      /\ Clause \in AnyClause /\ UserVars \subseteq Vars
      /\ UNCHANGED <<plan, free, low, branches, result>>
  BY <1>1, ReadsAtClause DEF At, Return, OrderBy, Skip, Limit
<1>3. FrameBuilt(Top, free, plan, strict) /\ DOMAIN Top = FrameFields
  BY <1>2, TopBuilt DEF FrameShape
<1>4. ASSUME NEW kind \in {"Sort", "Skip", "Limit"}, Clause.kind \in {"OrderBy", "Skip", "Limit"}
      PROVE  Slot(Some(Node(kind, Clause.reads, {})), kind)
  <2>1. Clause.reads \subseteq Vars
    BY <1>2, <1>4 DEF Here, WellTyped, TypedClauses, ReadingKinds
  <2>2. Passive(Node(kind, Clause.reads, {})) /\ Node(kind, Clause.reads, {}).kind = kind
    BY <2>1, NodeTyped DEF UnaryKinds, BindingKinds, Node
  <2> QED
    BY <2>2 DEF Slot, Some, Passive
<1>5. CASE Return
  <2> DEFINE op == ProjectItems(Clause.star, Clause.items)
             count == Some(Len(Clause.items)
                        + IF Clause.star THEN Cardinality(Top.visible) ELSE 0)
             f == [Top EXCEPT !.project = Some(op), !.distinct = Clause.distinct,
                              !.columns = count]
  <2>1. Proceed(f) /\ Clause.kind = "Return"
    BY <1>5 DEF Return, At
  <2>2. Passive(op) /\ op.kind = "Project"
    BY <1>2, <2>1, ProjectionTyped DEF Here, WellTyped, TypedClauses
  <2>3. Slot(Some(op), "Project")
    BY <2>2 DEF Slot, Some, Passive
  <2> HIDE DEF op, count
  <2>4. /\ DOMAIN f = FrameFields /\ f.todo = Top.todo /\ f.main = Top.main
        /\ f.project = Some(op) /\ f.sort = Top.sort /\ f.skip = Top.skip
        /\ f.limit = Top.limit
    BY <1>3 DEF FrameFields
  <2> HIDE DEF f
  <2> QED
    BY <1>2, <1>3, <2>1, <2>3, <2>4, ProceedBuilt DEF FrameBuilt
<1>6. CASE OrderBy
  <2> DEFINE s == Some(Node("Sort", Clause.reads, {}))
             f == [Top EXCEPT !.sort = s]
  <2>1. Proceed(f) /\ Clause.kind = "OrderBy"
    BY <1>6 DEF OrderBy, At
  <2>2. Slot(s, "Sort")
    BY <1>4, <2>1
  <2> HIDE DEF s
  <2>3. /\ DOMAIN f = FrameFields /\ f.todo = Top.todo /\ f.main = Top.main
        /\ f.project = Top.project /\ f.sort = s /\ f.skip = Top.skip
        /\ f.limit = Top.limit
    BY <1>3 DEF FrameFields
  <2> HIDE DEF f
  <2> QED
    BY <1>2, <1>3, <2>1, <2>2, <2>3, ProceedBuilt DEF FrameBuilt
<1>7. CASE Skip
  <2> DEFINE s == Some(Node("Skip", Clause.reads, {}))
             f == [Top EXCEPT !.skip = s]
  <2>1. Proceed(f) /\ Clause.kind = "Skip"
    BY <1>7 DEF Skip, At
  <2>2. Slot(s, "Skip")
    BY <1>4, <2>1
  <2> HIDE DEF s
  <2>3. /\ DOMAIN f = FrameFields /\ f.todo = Top.todo /\ f.main = Top.main
        /\ f.project = Top.project /\ f.sort = Top.sort /\ f.skip = s
        /\ f.limit = Top.limit
    BY <1>3 DEF FrameFields
  <2> HIDE DEF f
  <2> QED
    BY <1>2, <1>3, <2>1, <2>2, <2>3, ProceedBuilt DEF FrameBuilt
<1>8. CASE Limit
  <2> DEFINE s == Some(Node("Limit", Clause.reads, {}))
             f == [Top EXCEPT !.limit = s]
  <2>1. Proceed(f) /\ Clause.kind = "Limit"
    BY <1>8 DEF Limit, At
  <2>2. Slot(s, "Limit")
    BY <1>4, <2>1
  <2> HIDE DEF s
  <2>3. /\ DOMAIN f = FrameFields /\ f.todo = Top.todo /\ f.main = Top.main
        /\ f.project = Top.project /\ f.sort = Top.sort /\ f.skip = Top.skip
        /\ f.limit = s
    BY <1>3 DEF FrameFields
  <2> HIDE DEF f
  <2> QED
    BY <1>2, <1>3, <2>1, <2>2, <2>3, ProceedBuilt DEF FrameBuilt
<1> QED
  BY <1>5, <1>6, <1>7, <1>8

-----------------------------------------------------------------------------
(* A call of plan_branch begins.                                           *)
LEMMA Pushed ==
  ASSUME NEW strict, FitInv(strict), VInv, Busy, NEW clauses,
         HasSchemaCommand(clauses) => Frame(clauses).main = <<>>,
         frames # <<>> => Waiting(Top, strict),
         frames' = <<Frame(clauses)>> \o frames,
         UNCHANGED <<plan, free, low, branches, result>>
  PROVE  FitInv(strict)'
<1> DEFINE f == Frame(clauses)
<1>1. BuildInv(strict) /\ IsSequence(frames) /\ Len(frames) \in Nat
  BY BusyBuilt, SequenceFacts DEF VInv, FramesInv
<1>2. IsSequence(<<f>>) /\ Len(<<f>>) = 1 /\ <<f>>[1] = f
  BY One
<1>3. FrameBuilt(f, free, plan, strict) /\ RightsOf(f.main) = {}
  <2>1. /\ f.main = <<>> /\ f.project = None /\ f.sort = None /\ f.skip = None
        /\ f.limit = None /\ f.todo = clauses
    BY DEF Frame
  <2> HIDE DEF f
  <2> QED
    BY <2>1, PieceNothing DEF FrameBuilt, Slot
<1> HIDE DEF f
<1>4. /\ Len(frames') = 1 + Len(frames)
      /\ \A i \in 1..1 : frames'[i] = <<f>>[i]
      /\ \A i \in 1..Len(frames) : frames'[1 + i] = frames[i]
  BY <1>1, <1>2, Concatenated DEF f
<1>5. frames'[1] = f
  BY <1>2, <1>4
<1>6. ASSUME NEW i \in 2..Len(frames')
      PROVE  i - 1 \in 1..Len(frames) /\ frames'[i] = frames[i - 1]
  <2>1. i - 1 \in 1..Len(frames) /\ 1 + (i - 1) = i
    BY <1>1, <1>4
  <2> QED
    BY <1>4, <2>1
<1>7. \A i \in 1..Len(frames') : i = 1 \/ i \in 2..Len(frames')
  BY <1>1, <1>4
<1>8. \A i \in 1..Len(frames') : FrameBuilt(frames'[i], free, plan, strict)
  BY <1>1, <1>3, <1>5, <1>6, <1>7 DEF BuildInv
<1>9. \A i \in 2..Len(frames') : Waiting(frames'[i], strict)
  <2> SUFFICES ASSUME NEW i \in 2..Len(frames') PROVE Waiting(frames'[i], strict)
    OBVIOUS
  <2>1. i - 1 = 1 \/ i - 1 \in 2..Len(frames)
    BY <1>1, <1>4
  <2>2. CASE i - 1 = 1
    <3>1. frames # <<>>
      BY <1>1, <1>6, <2>2, Nothing
    <3> QED
      BY <1>6, <2>2, <3>1, TopShape DEF VInv
  <2>3. CASE i - 1 \in 2..Len(frames)
    BY <1>1, <1>6, <2>3 DEF BuildInv
  <2> QED
    BY <2>1, <2>2, <2>3
<1>10. ASSUME NEW c \in Places PROVE Used'[c] = Used[c]
  <2>1. CASE c[1] = "frame" /\ c[2] \in 1..Len(frames)
    <3> DEFINE k == Len(frames) + 1 - c[2]
    <3>0. Len(frames') = 1 + Len(frames) /\ Len(frames) \in Nat /\ c[2] \in 1..Len(frames)
      BY <1>1, <1>4, <2>1
    <3>1. /\ c[2] \in 1..Len(frames') /\ k \in 1..Len(frames)
          /\ Len(frames') + 1 - c[2] = 1 + k
      BY <3>0, SMTT(30)
    <3>2. Used[c] = RightsOf(frames[k].main)
      BY <2>1 DEF Used
    <3> HIDE DEF k
    <3>3. Used'[c] = RightsOf(frames'[1 + k].main)
      BY <2>1, <3>1 DEF Used
    <3> QED
      BY <1>4, <3>1, <3>2, <3>3
  <2>2. CASE c[1] = "frame" /\ c[2] = Len(frames) + 1
    <3>1. c[2] \in 1..Len(frames') /\ c[2] \notin 1..Len(frames) /\ Len(frames') + 1 - c[2] = 1
      BY <1>1, <1>4, <2>2
    <3> QED
      BY <1>3, <1>5, <2>2, <3>1 DEF Used
  <2>3. CASE c[1] = "frame" /\ c[2] \notin 1..Len(frames) /\ c[2] # Len(frames) + 1
    <3>1. c[2] \in Nat
      BY DEF Places
    <3>2. c[2] \notin 1..Len(frames')
      BY <1>1, <1>4, <2>3, <3>1
    <3> QED
      BY <2>3, <3>2 DEF Used
  <2>4. CASE c[1] # "frame"
    BY <2>4, OtherUses
  <2> QED
    BY <2>1, <2>2, <2>3, <2>4
<1>11. OnceUsed(Used', free')
  BY <1>1, <1>10, UsesSame DEF BuildInv
<1>12. LowBuilt(strict)'
  BY <1>1 DEF BuildInv, LowBuilt
<1>13. BuildInv(strict)'
  BY <1>1, <1>8, <1>9, <1>11, <1>12 DEF BuildInv
<1> QED
  BY <1>13 DEF FitInv, Busy

LEMMA ForeachBuilt ==
  ASSUME NEW strict, Here(strict), BeginForeach
  PROVE  FitInv(strict)'
<1>1. /\ At({"Foreach"}) /\ frames' = <<Frame(Clause.body)>> \o frames
      /\ UNCHANGED <<plan, free, low, branches, result>>
  BY DEF BeginForeach
<1>2. Clause.kind = "Foreach" /\ (strict => NeededBy(Clause) \subseteq Top.visible)
  BY <1>1, ReadsAtClause
<1>3. strict => Clause.reads \subseteq Top.visible
  BY <1>2 DEF NeededBy
<1>4. Waiting(Top, strict)
  BY <1>2, <1>3 DEF Waiting, Clause
<1>5. Frame(Clause.body).main = <<>>
  BY DEF Frame
<1> QED
  BY <1>1, <1>4, <1>5, Pushed DEF Here, At

LEMMA BeginBuilt ==
  ASSUME NEW strict, Here(strict), Begin
  PROVE  FitInv(strict)'
<1>1. Busy /\ frames = <<>> /\ BuildInv(strict)
  BY BusyBuilt DEF Begin, Here
<1>2. CASE Fail("MultipleStatementsUnsupported") \/ Fail("EmptyQuery")
  BY <1>1, <1>2, NothingBuilt DEF Fail, Results, Here
<1>3. CASE frames' = <<Frame(query.clauses)>> /\ UNCHANGED <<plan, free, low, branches, result>>
  <2>1. <<Frame(query.clauses)>> \o <<>> = <<Frame(query.clauses)>>
    <3>1. <<Frame(query.clauses)>> \in Seq({Frame(query.clauses)})
      OBVIOUS
    <3> QED
      BY <3>1
  <2>2. Frame(query.clauses).main = <<>>
    BY DEF Frame
  <2> QED
    BY <1>1, <1>3, <2>1, <2>2, Pushed DEF Here
<1> QED
  BY <1>2, <1>3 DEF Begin

-----------------------------------------------------------------------------
(* The end of a call: what was kept goes on top.                           *)
LEMMA FlatSlot ==
  ASSUME NEW kind, kind # "Project", NEW s, Slot(s, kind)
  PROVE  /\ Flat(s)
         /\ s = None => ReadsOf(s) = {}
         /\ s # None => ReadsOf(s) = s[1].used
<1>1. CASE s = None
  BY <1>1, FlatNothing DEF None
<1>2. CASE s # None
  <2>1. PICK op \in Op : s = <<op>> /\ Passive(op) /\ op.kind = kind
    BY <1>2 DEF Slot
  <2>2. ~HidesInput(op) /\ s[1] = op
    BY <2>1 DEF HidesInput
  <2> QED
    BY <1>2, <2>1, <2>2, FlatOne
<1> QED
  BY <1>1, <1>2

(* The projection that was kept.                                           *)
LEMMA ProjectedBuilt ==
  ASSUME NEW strict, NEW f, FrameBuilt(f, free, plan, strict),
         f.visible \subseteq BoundVars(f.main), strict => KeptInScope(f)
  PROVE  /\ Piece(f.main \o f.project, free, plan, strict)
         /\ RightsOf(f.main \o f.project) = RightsOf(f.main)
         /\ ScopeAtEnd(f) \subseteq BoundVars(f.main \o f.project)
<1>1. /\ Piece(f.main, free, plan, strict) /\ f.main \in Seq(Op) /\ IsSequence(f.main)
      /\ Slot(f.project, "Project")
  BY DEF FrameBuilt, Piece, IsSequence
<1>2. CASE f.project = None
  <2>1. f.main \o f.project = f.main
    BY <1>1, <1>2, ConcatEmptySeq DEF None
  <2> QED
    BY <1>1, <1>2, <2>1 DEF ScopeAtEnd
<1>3. CASE f.project # None
  <2>1. PICK op \in Op : f.project = <<op>> /\ Passive(op) /\ op.kind = "Project"
    BY <1>1, <1>3 DEF Slot
  <2>2. f.main \o f.project = Append(f.main, op) /\ f.project[1] = op
    BY <1>1, <2>1
  <2>3. strict => op.used \subseteq BoundVars(f.main)
    BY <1>3, <2>2 DEF KeptInScope
  <2>4. BoundVars(Append(f.main, op)) =
          (op.intro \cap Vars) \cup (IF HidesInput(op) THEN {} ELSE BoundVars(f.main))
    BY <1>1, BoundAppended
  <2>5. op.intro \subseteq Vars /\ (HidesInput(op) => ~op.keep)
    BY <2>1, PassiveShape DEF HidesInput
  <2>6. ScopeAtEnd(f) \subseteq BoundVars(Append(f.main, op))
    BY <1>3, <2>2, <2>4, <2>5 DEF ScopeAtEnd
  <2>7. /\ Piece(Append(f.main, op), free, plan, strict)
        /\ RightsOf(Append(f.main, op)) = RightsOf(f.main)
    BY <1>1, <2>1, <2>3, PieceTopped
  <2> QED
    BY <2>2, <2>6, <2>7
<1> QED
  BY <1>2, <1>3

LEMMA FlatOnTop ==
  ASSUME NEW strict, NEW n, NEW pl, NEW q, Piece(q, n, pl, strict), NEW r, Flat(r),
         NEW scope, scope \subseteq BoundVars(q), strict => ReadsOf(r) \subseteq scope
  PROVE  /\ Piece(q \o r, n, pl, strict) /\ RightsOf(q \o r) = RightsOf(q)
         /\ scope \subseteq BoundVars(q \o r)
<1>1. IsSequence(q) /\ Straight(r)
  BY FlatFacts DEF Piece, IsSequence
<1>2. BoundVars(q \o r) = BoundVars(q) \cup Intros(r)
  BY <1>1, BoundJoined
<1>3. strict => ReadsOf(r) \subseteq BoundVars(q)
  OBVIOUS
<1>4. Piece(q \o r, n, pl, strict) /\ RightsOf(q \o r) = RightsOf(q)
  BY <1>3, PieceFlat
<1> QED
  BY <1>2, <1>4

LEMMA StackedBuilt ==
  ASSUME NEW strict, NEW f, FrameBuilt(f, free, plan, strict),
         f.visible \subseteq BoundVars(f.main), strict => KeptInScope(f)
  PROVE  /\ Piece(Stacked(f), free, plan, strict) /\ RightsOf(Stacked(f)) = RightsOf(f.main)
<1> DEFINE scope == ScopeAtEnd(f)
           Sound(q) == /\ Piece(q, free, plan, strict) /\ RightsOf(q) = RightsOf(f.main)
                       /\ scope \subseteq BoundVars(q)
           once == IF f.project # None THEN Deduplicate(f.distinct) ELSE <<>>
           base == f.main \o f.project
<1>1. Sound(base)
  BY ProjectedBuilt
<1>2. Flat(once) /\ ReadsOf(once) \subseteq scope
  BY DeduplicateFlat, FlatNothing
<1>3. Slot(f.sort, "Sort") /\ Slot(f.skip, "Skip") /\ Slot(f.limit, "Limit")
  BY DEF FrameBuilt
<1>4. Flat(f.sort) /\ (strict => ReadsOf(f.sort) \subseteq scope)
  <2>1. strict /\ f.sort # None => f.sort[1].used \subseteq scope
    BY DEF KeptInScope
  <2> QED
    BY <1>3, <2>1, FlatSlot
<1>5. Flat(f.skip) /\ (strict => ReadsOf(f.skip) \subseteq scope)
  <2>1. strict /\ f.skip # None => f.skip[1].used \subseteq scope
    BY DEF KeptInScope
  <2> QED
    BY <1>3, <2>1, FlatSlot
<1>6. Flat(f.limit) /\ (strict => ReadsOf(f.limit) \subseteq scope)
  <2>1. strict /\ f.limit # None => f.limit[1].used \subseteq scope
    BY DEF KeptInScope
  <2> QED
    BY <1>3, <2>1, FlatSlot
<1>7. Stacked(f) = base \o once \o f.sort \o f.skip \o f.limit
  BY DEF Stacked
<1> HIDE DEF scope, once, base
<1>8. ASSUME NEW q, Sound(q), NEW r, Flat(r), strict => ReadsOf(r) \subseteq scope
      PROVE  Sound(q \o r)
  BY <1>8, FlatOnTop
<1> HIDE DEF Sound
<1>9. Sound(base \o once)
  BY <1>1, <1>2, <1>8
<1>10. Sound(base \o once \o f.sort)
  BY <1>4, <1>8, <1>9
<1>11. Sound(base \o once \o f.sort \o f.skip)
  BY <1>5, <1>8, <1>10
<1>12. Sound(base \o once \o f.sort \o f.skip \o f.limit)
  BY <1>6, <1>8, <1>11
<1> QED
  BY <1>7, <1>12 DEF Sound

LEMMA TopStacked ==
  ASSUME NEW strict, Here(strict), Busy, frames # <<>>, ~low.on,
         Top.todo # <<>> => Clause.kind = "Union"
  PROVE  /\ Piece(Stacked(Top), free, plan, strict)
         /\ RightsOf(Stacked(Top)) = RightsOf(Top.main)
<1>1. FrameBuilt(Top, free, plan, strict) /\ Top.visible \subseteq BoundVars(Top.main)
  BY TopBuilt
<1>2. strict => KeptInScope(Top)
  BY DEF Here, ReadsInScope
<1> QED
  BY <1>1, <1>2, StackedBuilt

LEMMA FreshFrame ==
  ASSUME NEW strict, NEW clauses
  PROVE  /\ FrameBuilt(Frame(clauses), free, plan, strict)
         /\ RightsOf(Frame(clauses).main) = {}
<1> DEFINE f == Frame(clauses)
<1>1. /\ f.main = <<>> /\ f.project = None /\ f.sort = None /\ f.skip = None
      /\ f.limit = None
  BY DEF Frame
<1> HIDE DEF f
<1>2. FrameBuilt(f, free, plan, strict) /\ RightsOf(f.main) = {}
  BY <1>1, PieceNothing DEF FrameBuilt, Slot
<1> QED
  BY <1>2 DEF f

(* A branch ends.                                                          *)
LEMMA EndBranchBuilt ==
  ASSUME NEW strict, Here(strict), EndBranch
  PROVE  FitInv(strict)'
<1> DEFINE done == [main |-> Stacked(Top), columns |-> Top.columns]
           m == Len(branches)
           from == <<"frame", 1>>
           to == <<"branch", m + 1>>
<1>1. /\ Busy /\ Len(frames) = 1 /\ ~low.on /\ (Top.todo # <<>> => Clause.kind = "Union")
      /\ branches' = Append(branches, done)
      /\ UNCHANGED <<plan, free, low, result>>
      /\ frames' = <<>> \/ frames' = <<Frame(Tail(Top.todo))>>
  BY DEF EndBranch
<1>2. /\ BuildInv(strict) /\ IsSequence(branches) /\ m \in Nat /\ FramesInv /\ frames # <<>>
  <2>1. BuildInv(strict) /\ IsSequence(branches) /\ FramesInv
    BY <1>1, BusyBuilt DEF Here, FitInv, VInv
  <2>2. Len(<<>>) # Len(frames)
    BY <1>1, Nothing
  <2> QED
    BY <2>1, <2>2, SequenceFacts
<1>3. Piece(done.main, free, plan, strict) /\ RightsOf(done.main) = RightsOf(Top.main)
  BY <1>1, <1>2, TopStacked
<1>4. /\ IsSequence(branches') /\ Len(branches') = m + 1 /\ branches'[m + 1] = done
      /\ \A i \in 1..m : branches'[i] = branches[i]
  BY <1>1, <1>2, Appended
<1>5. Top = frames[1]
  BY <1>2, TopShape
<1> HIDE DEF done, m
<1>6. \A i \in 1..Len(branches') : i \in 1..m \/ i = m + 1
  BY <1>2, <1>4
<1>7. \A i \in 1..Len(branches') : Piece(branches'[i].main, free, plan, strict)
  BY <1>2, <1>3, <1>4, <1>6 DEF BuildInv, m
<1>8. /\ Len(frames') \in {0, 1}
      /\ \A i \in 1..Len(frames') : i = 1 /\ FrameBuilt(frames'[i], free, plan, strict)
                                    /\ RightsOf(frames'[i].main) = {}
  <2>1. CASE frames' = <<>>
    BY <2>1, Nothing
  <2>2. CASE frames' = <<Frame(Tail(Top.todo))>>
    <3>1. Len(frames') = 1 /\ frames'[1] = Frame(Tail(Top.todo))
      BY <2>2, One
    <3>2. \A i \in 1..1 : i = 1
      OBVIOUS
    <3> QED
      BY <3>1, <3>2, FreshFrame
  <2> QED
    BY <1>1, <2>1, <2>2
<1>9. /\ from \in Places /\ to \in Places /\ from # to
  BY <1>2 DEF Places
<1>10. Used[to] = {} /\ Used'[to] = RightsOf(done.main)
  <2>1. m + 1 \notin 1..m /\ m + 1 \in 1..(m + 1)
    BY <1>2
  <2> QED
    BY <1>4, <1>9, <2>1 DEF Used, m
<1>11. Used[from] = RightsOf(Top.main) /\ Used'[from] = {}
  <2>1. 1 \in 1..1 /\ 1 + 1 - 1 = 1
    OBVIOUS
  <2>2. Used[from] = RightsOf(Top.main)
    BY <1>1, <1>5, <1>9, <2>1 DEF Used
  <2>3. \A i : i \in 1..0 => FALSE
    OBVIOUS
  <2>4. Used'[from] = {}
    BY <1>8, <1>9, <2>1, <2>3 DEF Used
  <2> QED
    BY <2>2, <2>4
<1>12. ASSUME NEW c \in Places, c # from, c # to PROVE Used'[c] = Used[c]
  <2>1. CASE c[1] = "frame"
    <3>1. c[2] \in Nat /\ c[2] # 1
      BY <1>12, <2>1 DEF Places
    <3>2. c[2] \notin 1..Len(frames) /\ c[2] \notin 1..Len(frames')
      BY <1>1, <1>8, <3>1
    <3> QED
      BY <2>1, <3>2 DEF Used
  <2>2. CASE c[1] = "branch"
    <3>1. c[2] \in Nat /\ c[2] # m + 1
      BY <1>12, <2>2 DEF Places
    <3>2. c[2] \in 1..(m + 1) <=> c[2] \in 1..m
      BY <1>2, <3>1
    <3> QED
      BY <1>4, <2>2, <3>2 DEF Used, m
  <2>3. CASE c[1] \notin {"frame", "branch"}
    BY <1>1, <2>3, OtherUses
  <2> QED
    BY <2>1, <2>2, <2>3
<1> HIDE DEF from, to
<1>13. OnceUsed(Used', free)
  BY <1>2, <1>3, <1>9, <1>10, <1>11, <1>12, UsesMoved DEF BuildInv
<1>14. \A i \in 2..Len(frames') : FALSE
  BY <1>8
<1>15. LowBuilt(strict)'
  BY <1>1, <1>2 DEF BuildInv, LowBuilt
<1>16. BuildInv(strict)'
  BY <1>1, <1>2, <1>7, <1>8, <1>13, <1>14, <1>15 DEF BuildInv
<1> QED
  BY <1>1, <1>4, <1>16 DEF Here, FitInv, Busy

-----------------------------------------------------------------------------
(* The body of a FOREACH ends: it becomes a second input of the operator   *)
(* that goes on top of the plan around it.                                 *)
LEMMA BodyGone ==
  ASSUME FramesInv, Len(frames) > 1, NEW f, frames' = <<f>> \o Tail(Tail(frames))
  PROVE  /\ Len(frames) \in Nat /\ Len(frames') = Len(frames) - 1 /\ frames'[1] = f
         /\ frames # <<>> /\ Top = frames[1]
         /\ \A i \in 2..Len(frames') : frames'[i] = frames[i + 1]
<1> DEFINE rest == Tail(Tail(frames))
<1>1. Len(frames) \in Nat /\ frames # <<>>
  BY Nothing, SequenceFacts DEF FramesInv
<1>2. /\ IsSequence(Tail(frames)) /\ Len(Tail(frames)) = Len(frames) - 1 /\ Top = frames[1]
      /\ \A i \in 1..Len(Tail(frames)) : Tail(frames)[i] = frames[i + 1]
  BY <1>1, TopShape
<1>3. Tail(frames) # <<>>
  <2>1. Len(Tail(frames)) > 0
    BY <1>1, <1>2
  <2>2. Len(Tail(frames)) # Len(<<>>)
    BY <2>1, Nothing
  <2> QED
    BY <2>2
<1>4. /\ IsSequence(rest) /\ Len(rest) = Len(Tail(frames)) - 1
      /\ \A i \in 1..Len(rest) : rest[i] = Tail(frames)[i + 1]
  BY <1>2, <1>3, TailFacts
<1>5. IsSequence(<<f>>) /\ Len(<<f>>) = 1 /\ <<f>>[1] = f
  BY One
<1> HIDE DEF rest
<1>6. /\ Len(frames') = 1 + Len(rest)
      /\ \A i \in 1..1 : frames'[i] = <<f>>[i]
      /\ \A i \in 1..Len(rest) : frames'[1 + i] = rest[i]
  BY <1>4, <1>5, Concatenated DEF rest
<1>7. Len(frames') = Len(frames) - 1 /\ frames'[1] = f
  BY <1>1, <1>2, <1>4, <1>5, <1>6
<1>8. ASSUME NEW i \in 2..Len(frames') PROVE frames'[i] = frames[i + 1]
  <2> DEFINE k == i - 1
  <2>1. k \in 1..Len(rest) /\ 1 + k = i /\ k + 1 \in 1..Len(Tail(frames)) /\ (k + 1) + 1 = i + 1
    BY <1>1, <1>2, <1>4, <1>7
  <2> HIDE DEF k
  <2>2. frames'[1 + k] = rest[k] /\ rest[k] = Tail(frames)[k + 1]
    BY <1>4, <1>6, <2>1
  <2>3. Tail(frames)[k + 1] = frames[(k + 1) + 1]
    BY <1>2, <2>1
  <2> QED
    BY <2>1, <2>2, <2>3
<1> QED
  BY <1>1, <1>2, <1>7, <1>8

(* The operator of a FOREACH.                                              *)
LEMMA ForeachTyped ==
  ASSUME WellTyped, Proper, EnoughSpines, free \in Nat \ {0}, NEW each \in AnyClause,
         each.kind = "Foreach", NEW op,
         op = [Branching("Foreach", free, {})
                 EXCEPT !.used = each.reads, !.parts = <<Part({each.var}, each.reads)>>]
  PROVE  /\ op \in Op /\ op.kind = "Foreach" /\ op.intro = {} /\ op.used = each.reads
         /\ op.right = free /\ op.right # 0 /\ WellFormedOp(free + 1, op)
<1>1. each.reads \subseteq Vars /\ each.var \in Vars
  BY DEF WellTyped, TypedClauses, ReadingKinds, Proper, ProperNames
<1>2. Part({each.var}, each.reads) \in Argument
  BY <1>1 DEF Part, Argument
<1>3. <<Part({each.var}, each.reads)>> \in Seq(Argument)
  BY <1>2
<1>4. free \in 0..NumSpines /\ free \in 1..((free + 1) - 1)
  BY SpineAssumption DEF EnoughSpines
<1>5. /\ op.kind = "Foreach" /\ op.intro = {} /\ op.used = each.reads /\ op.right = free
  BY DEF Branching, Node
<1>6. op \in Op
  BY <1>1, <1>3, <1>4 DEF Branching, Node, Op, Kinds, BinaryKinds
<1> QED
  BY <1>4, <1>5, <1>6 DEF WellFormedOp, BinaryKinds

(* The second inputs of a piece are built.                                 *)
LEMMA RightsBuilt ==
  ASSUME NEW q, NEW n, NEW pl, NEW strict, Piece(q, n, pl, strict)
  PROVE  RightsOf(q) \subseteq 1..(n - 1)
<1>1. \A i \in 1..Len(q) : WellFormedOp(n, q[i])
  BY DEF Piece
<1>2. \A i \in 1..Len(q) : q[i].right = 0 \/ q[i].right \in 1..(n - 1)
  BY <1>1 DEF WellFormedOp
<1> QED
  BY <1>2 DEF RightsOf

(* A piece becomes the next second input, which another place uses.        *)
LEMMA UsesPassed ==
  ASSUME NEW F, NEW G, NEW n \in Nat \ {0}, OnceUsed(F, n),
         NEW a \in Places, NEW b \in Places, NEW d \in Places, a # b, a # d, b # d,
         F[b] = {}, G[a] = {}, G[b] = F[a], G[d] = F[d] \cup {n},
         \A c \in Places : c # a /\ c # b /\ c # d => G[c] = F[c]
  PROVE  OnceUsed(G, n + 1)
<1> DEFINE H == [c \in Places |-> IF c = d THEN F[d] ELSE G[c]]
<1>1. H[a] = {} /\ H[b] = F[a] /\ H[d] = F[d]
  OBVIOUS
<1>2. \A c \in Places : c # a /\ c # b => H[c] = F[c]
  OBVIOUS
<1>3. G[d] = H[d] \cup {n} /\ \A c \in Places : c # d => G[c] = H[c]
  OBVIOUS
<1> HIDE DEF H
<1>4. OnceUsed(H, n)
  BY <1>1, <1>2, UsesMoved
<1> QED
  BY <1>3, <1>4, UsesGained

LEMMA EndBodyBuilt ==
  ASSUME NEW strict, Here(strict), EndBody
  PROVE  FitInv(strict)'
<1> DEFINE outer == frames[2]
           each == Head(outer.todo)
           op == [Branching("Foreach", free, {})
                    EXCEPT !.used = each.reads, !.parts = <<Part({each.var}, each.reads)>>]
           f == [outer EXCEPT !.main = Append(@, op), !.todo = Tail(@)]
           p == Stacked(Top)
           n == Len(frames)
           a == <<"frame", n>>
           b == <<"plan", free>>
           d == <<"frame", n - 1>>
<1>1. /\ Busy /\ n > 1 /\ ~low.on /\ Top.todo = <<>>
      /\ frames' = <<f>> \o Tail(Tail(frames))
      /\ plan' = [plan EXCEPT ![free] = p] /\ free' = free + 1
      /\ UNCHANGED <<low, branches, result>>
  BY DEF EndBody
<1>2. /\ Proper /\ WellTyped /\ VInv /\ FramesInv /\ FitInv(strict) /\ EnoughSpines
      /\ BuildInv(strict) /\ free \in Nat \ {0}
  BY <1>1, BusyBuilt DEF Here, VInv, FitInv
<1>3. /\ n \in Nat /\ Len(frames') = n - 1 /\ frames'[1] = f /\ frames # <<>>
      /\ Top = frames[1] /\ \A i \in 2..Len(frames') : frames'[i] = frames[i + 1]
  BY <1>1, <1>2, BodyGone
<1>4. 2 \in 1..n /\ 2 \in 2..n /\ 1 \in 1..n
  BY <1>1, <1>3
<1>5. /\ FrameShape(outer) /\ Fits(outer) /\ outer.todo # <<>>
      /\ FrameBuilt(outer, free, plan, strict) /\ Waiting(outer, strict)
  BY <1>2, <1>4 DEF FramesInv, BuildInv
<1>6. Piece(p, free, plan, strict) /\ RightsOf(p) = RightsOf(Top.main)
  BY <1>1, <1>3, TopStacked
<1>7. /\ each \in AnyClause /\ each.kind = "Foreach" /\ outer.todo \in Seq(AnyClause)
      /\ strict => each.reads \subseteq BoundVars(outer.main)
  BY <1>5 DEF FrameShape, Fits, Waiting
<1>8. /\ op \in Op /\ op.kind = "Foreach" /\ op.intro = {} /\ op.used = each.reads
      /\ op.right = free /\ op.right # 0 /\ WellFormedOp(free + 1, op)
  <2> HIDE DEF each
  <2> QED
    BY <1>2, <1>7, ForeachTyped
<1>9. /\ DOMAIN f = FrameFields /\ f.todo = Tail(outer.todo)
      /\ f.main = Append(outer.main, op) /\ f.visible = outer.visible
      /\ f.project = outer.project /\ f.sort = outer.sort /\ f.skip = outer.skip
      /\ f.limit = outer.limit
  BY <1>5 DEF FrameShape, FrameFields
<1> HIDE DEF f, op, each, p, n
<1>10. /\ plan' \in [Spines -> Seq(Op)] /\ free' \in Nat \ {0} /\ plan'[free] = p
       /\ \A s \in 1..(free - 1) : plan'[s] = plan[s]
       /\ \A s \in Spines : IF s < free' THEN Piece(plan'[s], s, plan', strict)
                            ELSE plan'[s] = <<>>
       /\ \A q : Piece(q, free, plan, strict) => Piece(q, free', plan', strict)
       /\ \A q : Piece(q, 1, plan, strict) => Piece(q, 1, plan', strict)
  BY <1>1, <1>2, <1>6, SpineAdded
<1>11. /\ Piece(f.main, free', plan', strict)
       /\ RightsOf(f.main) = RightsOf(outer.main) \cup {free}
  <2>1. Piece(outer.main, free, plan, strict)
    BY <1>5 DEF FrameBuilt
  <2>2. RightsOf(outer.main) \subseteq 1..(free - 1)
    BY <2>1, RightsBuilt
  <2>3. free \notin RightsOf(outer.main) /\ {free} \ {0} = {free}
    BY <1>2, <2>2
  <2>4. Piece(outer.main, free', plan', strict)
    BY <1>10, <2>1
  <2>5. op.kind \notin LeafKinds /\ op.kind \notin Adding /\ WellFormedOp(free', op)
    BY <1>1, <1>8 DEF LeafKinds, Adding
  <2>6. /\ Piece(Append(outer.main, op), free', plan', strict)
        /\ RightsOf(Append(outer.main, op)) = RightsOf(outer.main) \cup ({op.right} \ {0})
    BY <1>7, <1>8, <2>3, <2>4, <2>5, PieceAppended
  <2> QED
    BY <1>8, <1>9, <2>3, <2>6
<1>12. ~HasSchemaCommand(f.todo)
  <2> SUFFICES ASSUME HasSchemaCommand(f.todo) PROVE FALSE
    OBVIOUS
  <2>1. PICK i \in 1..Len(f.todo) : f.todo[i].kind = "SchemaCommand"
    BY DEF HasSchemaCommand
  <2>2. /\ Len(outer.todo) \in Nat /\ Len(f.todo) = Len(outer.todo) - 1
        /\ f.todo[i] = outer.todo[i + 1]
    BY <1>5, <1>7, <1>9, <2>1
  <2>3. i + 1 \in 1..Len(outer.todo) /\ Len(outer.todo) # 1
    BY <2>1, <2>2
  <2>4. HasSchemaCommand(outer.todo)
    BY <2>1, <2>2, <2>3 DEF HasSchemaCommand
  <2> QED
    BY <1>5, <2>3, <2>4 DEF FrameShape
<1>13. FrameBuilt(f, free', plan', strict)
  BY <1>5, <1>9, <1>11, <1>12 DEF FrameBuilt
<1>14. \A i \in 2..Len(frames') : i + 1 \in 1..n /\ i + 1 \in 2..n
  BY <1>3
<1>15. ASSUME NEW i \in 1..Len(frames') PROVE FrameBuilt(frames'[i], free', plan', strict)
  <2>1. i = 1 \/ i \in 2..Len(frames')
    BY <1>3
  <2>2. \A g : FrameBuilt(g, free, plan, strict) => FrameBuilt(g, free', plan', strict)
    BY <1>10 DEF FrameBuilt
  <2> QED
    BY <1>2, <1>3, <1>13, <1>14, <2>1, <2>2 DEF BuildInv, n
<1>16. \A i \in 2..Len(frames') : Waiting(frames'[i], strict)
  BY <1>2, <1>3, <1>14 DEF BuildInv, n
<1>17. \A i \in 1..Len(branches') : Piece(branches'[i].main, free', plan', strict)
  BY <1>1, <1>2, <1>10 DEF BuildInv
<1>18. LowBuilt(strict)'
  BY <1>1, <1>2, <1>10 DEF BuildInv, LowBuilt
<1>19. a \in Places /\ b \in Places /\ d \in Places /\ a # b /\ a # d /\ b # d
  BY <1>1, <1>2, <1>3, SMTT(30) DEF Places
<1>20. /\ Used[b] = {} /\ Used'[b] = RightsOf(p)
       /\ Used[a] = RightsOf(Top.main) /\ Used'[a] = {}
       /\ Used[d] = RightsOf(outer.main) /\ Used'[d] = RightsOf(f.main)
  <2>1. free \notin 1..(free - 1) /\ free \in 1..(free' - 1)
    BY <1>1, <1>2
  <2>2. Used[b] = {} /\ Used'[b] = RightsOf(p)
    BY <1>10, <1>19, <2>1 DEF Used
  <2>3. n \in 1..n /\ n + 1 - n = 1 /\ n \notin 1..Len(frames')
    BY <1>1, <1>3
  <2>4. Used[a] = RightsOf(Top.main) /\ Used'[a] = {}
    BY <1>3, <1>19, <2>3 DEF Used, n
  <2>5. /\ n - 1 \in 1..n /\ n + 1 - (n - 1) = 2
        /\ n - 1 \in 1..Len(frames') /\ Len(frames') + 1 - (n - 1) = 1
    BY <1>1, <1>3, SMTT(30)
  <2>6. Used[d] = RightsOf(outer.main) /\ Used'[d] = RightsOf(f.main)
    BY <1>3, <1>19, <2>5 DEF Used, n
  <2> QED
    BY <2>2, <2>4, <2>6
<1>21. ASSUME NEW c \in Places, c # a, c # b, c # d PROVE Used'[c] = Used[c]
  <2>1. CASE c[1] = "frame" /\ c[2] \in 1..n
    <3> DEFINE k == n - c[2]
    <3>1. c[2] # n /\ c[2] # n - 1
      BY <1>21, <2>1 DEF Places
    <3>2. /\ c[2] \in 1..Len(frames') /\ k \in 2..Len(frames')
          /\ Len(frames') + 1 - c[2] = k /\ n + 1 - c[2] = k + 1
      BY <1>3, <2>1, <3>1, SMTT(30)
    <3>3. Used[c] = RightsOf(frames[k + 1].main) /\ Used'[c] = RightsOf(frames'[k].main)
      <4> HIDE DEF k
      <4> QED
        BY <2>1, <3>2 DEF Used, n
    <3> QED
      BY <1>3, <3>2, <3>3
  <2>2. CASE c[1] = "frame" /\ c[2] \notin 1..n
    <3>1. c[2] \notin 1..Len(frames')
      BY <1>3, <2>2 DEF Places
    <3> QED
      BY <2>2, <3>1 DEF Used, n
  <2>3. CASE c[1] = "plan"
    <3>1. c[2] \in Nat /\ c[2] # free
      BY <1>21, <2>3 DEF Places
    <3>2. c[2] \in 1..(free' - 1) <=> c[2] \in 1..(free - 1)
      BY <1>1, <1>2, <3>1
    <3> QED
      BY <1>10, <2>3, <3>2 DEF Used
  <2>4. CASE c[1] \in {"low", "branch"}
    BY <1>1, <2>4, OtherUses
  <2> QED
    BY <2>1, <2>2, <2>3, <2>4, OtherUses
<1> HIDE DEF a, b, d, outer
<1>22. OnceUsed(Used', free')
  <2>1. OnceUsed(Used, free)
    BY <1>2 DEF BuildInv
  <2>2. /\ Used[b] = {} /\ Used'[a] = {} /\ Used'[b] = Used[a]
        /\ Used'[d] = Used[d] \cup {free}
    BY <1>6, <1>11, <1>20
  <2>3. OnceUsed(Used', free + 1)
    BY <1>2, <1>19, <1>21, <2>1, <2>2, UsesPassed
  <2> QED
    BY <1>1, <2>3
<1>23. BuildInv(strict)'
  BY <1>10, <1>15, <1>16, <1>17, <1>18, <1>22 DEF BuildInv
<1>24. IsSequence(branches') /\ result' \in Results /\ result' # "planned"
  BY <1>1, <1>2 DEF FitInv, Busy
<1> QED
  BY <1>10, <1>23, <1>24 DEF FitInv

-----------------------------------------------------------------------------
(* The lowering of a MATCH.                                                *)
LEMMA PredicatesTyped ==
  ASSUME Proper, WellTyped, NEW e, e.var \in AnyVar, e.reads \subseteq UserVars,
         NEW prefix \in {"node", "rel"}, NEW n \in Nat
  PROVE  LET v == EffectiveVar(e, prefix, n)
         IN  /\ Named(v) \subseteq Vars /\ Named(e.var) \subseteq Named(v)
             /\ Flat(Predicates(e, v))
             /\ ReadsOf(Predicates(e, v)) \subseteq Named(v) \cup e.reads
<1> DEFINE v == EffectiveVar(e, prefix, n)
           s == IF e.props THEN <<Node("Filter", {v} \cup e.reads, {})>> ELSE <<>>
           t == IF e.map THEN <<Node("PropertyMapFilter", {v}, {})>> ELSE <<>>
<1>1. /\ Fresh(prefix, n) \in Vars /\ UserVars \subseteq Vars /\ NoVar \notin Vars
  BY DEF WellTyped, TypedNames, Proper, ProperNames
<1>2. /\ v \in Vars \cup {NoVar} /\ Named(e.var) \subseteq Named(v)
      /\ e.props \/ e.map => v \in Vars
  BY <1>1 DEF EffectiveVar, Synthesizes, AnyVar, Named
<1>3. Named(v) \subseteq Vars /\ (v \in Vars => Named(v) = {v})
  BY <1>1, <1>2 DEF Named
<1> HIDE DEF v
<1>4. Flat(s) /\ ReadsOf(s) \subseteq Named(v) \cup e.reads
  <2>1. CASE e.props
    <3>1. v \in Vars /\ {v} \cup e.reads \subseteq Vars
      BY <1>1, <1>2, <2>1
    <3>2. /\ Passive(Node("Filter", {v} \cup e.reads, {}))
          /\ ~HidesInput(Node("Filter", {v} \cup e.reads, {}))
          /\ Node("Filter", {v} \cup e.reads, {}).used = {v} \cup e.reads
      BY <3>1, NodeTyped DEF UnaryKinds
    <3> QED
      BY <1>3, <2>1, <3>1, <3>2, FlatOne
  <2>2. CASE ~e.props
    BY <2>2, FlatNothing
  <2> QED
    BY <2>1, <2>2
<1>5. Flat(t) /\ ReadsOf(t) \subseteq Named(v)
  <2>1. CASE e.map
    <3>1. v \in Vars /\ {v} \subseteq Vars
      BY <1>1, <1>2, <2>1
    <3>2. /\ Passive(Node("PropertyMapFilter", {v}, {}))
          /\ ~HidesInput(Node("PropertyMapFilter", {v}, {}))
          /\ Node("PropertyMapFilter", {v}, {}).used = {v}
      BY <3>1, NodeTyped DEF UnaryKinds
    <3> QED
      BY <1>3, <2>1, <3>1, <3>2, FlatOne
  <2>2. CASE ~e.map
    BY <2>2, FlatNothing
  <2> QED
    BY <2>1, <2>2
<1>6. Predicates(e, v) = s \o t
  BY DEF Predicates
<1> HIDE DEF s, t
<1>7. Flat(Predicates(e, v)) /\ ReadsOf(Predicates(e, v)) = ReadsOf(s) \cup ReadsOf(t)
  BY <1>4, <1>5, <1>6, FlatJoined
<1> QED
  BY <1>2, <1>3, <1>4, <1>5, <1>7 DEF v

(* The path of a pattern is lowered on its own: no operator of it has a    *)
(* second input, and none hides what is below it.                          *)
Path(q, pl, strict) == Piece(q, 1, pl, strict) /\ Straight(q)

LEMMA PathExtended ==
  ASSUME NEW pl, NEW strict, NEW q, Path(q, pl, strict), NEW r, Flat(r),
         strict => ReadsOf(r) \subseteq Intros(q)
  PROVE  Path(q \o r, pl, strict) /\ Intros(q \o r) = Intros(q) \cup Intros(r)
<1>1. BoundVars(q) = Intros(q) /\ Straight(r)
  BY BoundStraight, FlatFacts DEF Path
<1>2. Piece(q \o r, 1, pl, strict)
  BY <1>1, PieceFlat DEF Path
<1>3. Straight(q \o r) /\ Intros(q \o r) = Intros(q) \cup Intros(r)
  BY <1>1, IntrosJoined DEF Path
<1> QED
  BY <1>2, <1>3 DEF Path

LEMMA PathOnTop ==
  ASSUME NEW pl, NEW strict, NEW q, Path(q, pl, strict), NEW kind \in UnaryKinds \ {"Project"},
         NEW used \in SUBSET Vars, NEW intro \in SUBSET Vars,
         kind \notin BindingKinds => intro = {}, strict => used \subseteq Intros(q)
  PROVE  /\ Path(q \o <<Node(kind, used, intro)>>, pl, strict)
         /\ Intros(q \o <<Node(kind, used, intro)>>) = Intros(q) \cup intro
<1> DEFINE op == Node(kind, used, intro)
<1>1. Passive(op) /\ ~HidesInput(op) /\ op.used = used /\ op.intro = intro
  BY NodeTyped
<1> HIDE DEF op
<1>2. Flat(<<op>>) /\ ReadsOf(<<op>>) = used /\ Intros(<<op>>) = intro \cap Vars
  BY <1>1, FlatOne, OneStraight
<1>3. intro \cap Vars = intro
  OBVIOUS
<1>4. Path(q \o <<op>>, pl, strict) /\ Intros(q \o <<op>>) = Intros(q) \cup Intros(<<op>>)
  BY <1>2, PathExtended
<1> QED
  BY <1>2, <1>3, <1>4 DEF op

LEMMA LinksMonotone ==
  ASSUME NEW s, NEW t, s \subseteq t, NEW chain, LinksInScope(s, chain)
  PROVE  LinksInScope(t, chain)
BY DEF LinksInScope

LEMMA LoweringBuilt ==
  ASSUME Proper, WellTyped, NEW ps \in Seq(AnyPattern), ps # <<>>, NEW combined, NEW pl,
         NEW strict, strict => PatternInScope(Head(ps))
  PROVE  LET l == Lowering(ps, combined)
         IN  /\ Piece(l.path, 1, pl, strict)
             /\ Named(l.head) \subseteq Intros(l.path)
             /\ strict => LinksInScope(Intros(l.path), l.chain)
<1> DEFINE p == Head(ps)
           var == EffectiveVar(p.anchor, "node", 0)
           scan == Node("Scan", {}, Named(var))
           preds == Predicates(p.anchor, var)
           l == Lowering(ps, combined)
<1>1. p \in AnyPattern
  OBVIOUS
<1>2. p.anchor.var \in AnyVar /\ p.anchor.reads \subseteq UserVars
  BY <1>1 DEF Proper, ProperPatterns, WellTyped, TypedPatterns
<1>3. /\ Named(var) \subseteq Vars /\ Named(p.anchor.var) \subseteq Named(var)
      /\ Flat(preds) /\ ReadsOf(preds) \subseteq Named(var) \cup p.anchor.reads
  BY <1>2, PredicatesTyped
<1>4. l.path = <<scan>> \o preds /\ l.head = var /\ l.chain = p.chain
  BY DEF Lowering
<1>5. strict => /\ p.anchor.reads \subseteq Named(p.anchor.var)
                /\ LinksInScope(Named(p.anchor.var), p.chain)
  BY DEF PatternInScope
<1> HIDE DEF p, var, preds, l
<1>6. Piece(<<scan>>, 1, pl, strict)
  <2>1. "Scan" \in LeafKinds /\ "Scan" \in BindingKinds
    BY DEF LeafKinds, BindingKinds
  <2> QED
    BY <1>3, <2>1, PieceLeaf
<1>7. Straight(<<scan>>) /\ Intros(<<scan>>) = Named(var) \cap Vars
  BY NodeShape, OneStraight
<1> HIDE DEF scan
<1>8. Path(<<scan>>, pl, strict) /\ Intros(<<scan>>) = Named(var)
  BY <1>3, <1>6, <1>7 DEF Path
<1>9. strict => ReadsOf(preds) \subseteq Intros(<<scan>>)
  BY <1>3, <1>5, <1>8
<1>10. /\ Path(l.path, pl, strict)
       /\ Intros(l.path) = Named(var) \cup Intros(preds)
  BY <1>3, <1>4, <1>8, <1>9, PathExtended
<1>11. strict => LinksInScope(Intros(l.path), l.chain)
  BY <1>3, <1>4, <1>5, <1>10, LinksMonotone
<1> QED
  BY <1>4, <1>10, <1>11 DEF Path, l

LEMMA BeginMatchBuilt ==
  ASSUME NEW strict, Here(strict), BeginMatch
  PROVE  FitInv(strict)'
<1> DEFINE ps == Clause.patterns
           f == [Top EXCEPT !.visible = @ \cup Patterns(ps, PatternBindings)]
<1>1. At({"Match"})
  BY DEF BeginMatch
<1>2. /\ Busy /\ frames # <<>> /\ ~low.on /\ Top.todo # <<>>
      /\ Proper /\ WellTyped /\ VInv /\ FitInv(strict) /\ BuildInv(strict)
  BY <1>1, BusyBuilt DEF At, Here
<1>3. /\ ps \in Seq(AnyPattern)
      /\ strict => \A i \in 1..Len(ps) : PatternInScope(ps[i])
  BY <1>1, ReadsAtClause DEF Here, Proper, ProperClauses, MatchesInScope
<1>4. FrameBuilt(Top, free, plan, strict) /\ FrameShape(Top)
  BY <1>2, TopBuilt
<1>5. CASE ps = <<>>
  BY <1>2, <1>5, NothingBuilt DEF BeginMatch, Fail, Results
<1>6. CASE ps # <<>>
  <2>1. /\ frames' = <<f>> \o Tail(frames) /\ low' = Lowering(ps, <<>>)
        /\ UNCHANGED <<plan, free, branches, result>>
    BY <1>6 DEF BeginMatch
  <2>2. /\ f.todo = Top.todo /\ f.main = Top.main
        /\ f.project = Top.project /\ f.sort = Top.sort /\ f.skip = Top.skip
        /\ f.limit = Top.limit
    BY <1>4 DEF FrameShape, FrameFields
  <2> HIDE DEF f, ps
  <2>3. Head(ps) = ps[1] /\ 1 \in 1..Len(ps)
    BY <1>3, <1>6
  <2>4. /\ Piece(low'.path, 1, plan, strict)
        /\ Named(low'.head) \subseteq Intros(low'.path)
        /\ strict => LinksInScope(Intros(low'.path), low'.chain)
    BY <1>2, <1>3, <1>6, <2>1, <2>3, LoweringBuilt
  <2>5. low'.on /\ low'.patterns = ps /\ low'.combined = <<>>
    BY <2>1 DEF Lowering
  <2>6. RightsOf(low.combined)' = RightsOf(low.combined)
    BY <1>2, <2>5 DEF BuildInv, LowBuilt
  <2>7. LowBuilt(strict)'
    BY <1>3, <2>1, <2>4, <2>5, PieceNothing DEF LowBuilt
  <2>8. FrameBuilt(f, free, plan, strict)
    BY <1>4, <2>2 DEF FrameBuilt
  <2> QED
    BY <1>2, <2>1, <2>2, <2>6, <2>7, <2>8, Retopped
<1> QED
  BY <1>5, <1>6

-----------------------------------------------------------------------------
(* The frames, the branches and the uses are as they are, but for the      *)
(* second inputs: a step of the lowering.                                  *)
LEMMA LowMoved ==
  ASSUME NEW strict, FitInv(strict), BuildInv(strict), Busy, LowBuilt(strict)',
         RightsOf(low.combined)' = RightsOf(low.combined),
         UNCHANGED <<plan, free, frames, branches, result>>
  PROVE  FitInv(strict)'
<1>1. \A c \in Places : Used'[c] = Used[c]
  BY DEF Used
<1>2. OnceUsed(Used', free')
  BY <1>1, UsesSame DEF BuildInv
<1>3. BuildInv(strict)'
  BY <1>2 DEF BuildInv
<1> QED
  BY <1>3 DEF FitInv, Busy

LEMMA LinkScope ==
  ASSUME NEW scope, NEW chain \in Seq(AnyLink), chain # <<>>, LinksInScope(scope, chain),
         NEW wide, scope \subseteq wide,
         Named(Head(chain).rel.var) \cup Named(Head(chain).node.var) \subseteq wide
  PROVE  /\ Head(chain).rel.reads \cup Head(chain).node.reads \subseteq wide
         /\ LinksInScope(wide, Tail(chain))
<1> DEFINE names(l) == Named(l.rel.var) \cup Named(l.node.var)
           reads(l) == l.rel.reads \cup l.node.reads
<1>1. /\ Len(chain) \in Nat /\ Len(chain) > 0 /\ Head(chain) = chain[1]
      /\ Len(Tail(chain)) = Len(chain) - 1
      /\ \A i \in 1..Len(Tail(chain)) : Tail(chain)[i] = chain[i + 1]
  OBVIOUS
<1>2. names(chain[1]) \subseteq wide
  BY <1>1
<1>3. \A i \in 1..Len(chain) :
        reads(chain[i]) \subseteq scope \cup UNION {names(chain[j]) : j \in 1..i}
  BY DEF LinksInScope
<1>4. reads(Head(chain)) = Head(chain).rel.reads \cup Head(chain).node.reads
  OBVIOUS
<1>5. (\A i \in 1..Len(Tail(chain)) :
         reads(Tail(chain)[i]) \subseteq wide \cup UNION {names(Tail(chain)[j]) : j \in 1..i})
        => LinksInScope(wide, Tail(chain))
  BY DEF LinksInScope
<1> HIDE DEF names, reads
<1>6. reads(Head(chain)) \subseteq wide
  <2>1. 1 \in 1..Len(chain) /\ \A j \in 1..1 : j = 1
    BY <1>1
  <2> QED
    BY <1>1, <1>2, <1>3, <2>1
<1>7. ASSUME NEW i \in 1..Len(Tail(chain)), NEW v \in reads(Tail(chain)[i])
      PROVE  v \in wide \cup UNION {names(Tail(chain)[j]) : j \in 1..i}
  <2>1. i + 1 \in 1..Len(chain) /\ v \in reads(chain[i + 1])
    BY <1>1, <1>7
  <2>2. v \in scope \/ \E j \in 1..(i + 1) : v \in names(chain[j])
    BY <1>3, <2>1
  <2>3. CASE v \in scope
    BY <2>3
  <2>4. ASSUME NEW j \in 1..(i + 1), v \in names(chain[j])
        PROVE  v \in wide \cup UNION {names(Tail(chain)[k]) : k \in 1..i}
    <3>1. CASE j = 1
      BY <1>2, <2>4, <3>1
    <3>2. CASE j # 1
      <4>1. j - 1 \in 1..i /\ j - 1 \in 1..Len(Tail(chain)) /\ (j - 1) + 1 = j
        BY <1>1, <3>2
      <4>2. v \in names(Tail(chain)[j - 1])
        BY <1>1, <2>4, <4>1
      <4> QED
        BY <4>1, <4>2
    <3> QED
      BY <3>1, <3>2
  <2> QED
    BY <2>2, <2>3, <2>4
<1> QED
  BY <1>4, <1>5, <1>6, <1>7

LEMMA LowerLinkBuilt ==
  ASSUME NEW strict, Here(strict), LowerLink
  PROVE  FitInv(strict)'
<1> DEFINE c == Head(low.chain)
           rel == EffectiveVar(c.rel, "rel", low.next)
           next == After(c.rel, low.next)
           dst == EffectiveVar(c.node, "node", next)
           new == Named(rel) \cup Named(dst)
           op == Node("Expand", Named(low.head), new)
           rels == Predicates(c.rel, rel)
           nodes == Predicates(c.node, dst)
<1>1. /\ Busy /\ low.on /\ low.patterns # <<>> /\ low.chain # <<>>
      /\ low' = [low EXCEPT !.path = @ \o <<op>> \o rels \o nodes, !.head = dst,
                            !.next = After(c.node, next), !.chain = Tail(@)]
      /\ UNCHANGED <<plan, free, frames, branches, result>>
  BY DEF LowerLink
<1>2. /\ Proper /\ WellTyped /\ VInv /\ FitInv(strict) /\ BuildInv(strict) /\ LowBuilt(strict)
  BY <1>1, BusyBuilt DEF Here
<1>3. /\ DOMAIN low = LowFields /\ low.chain \in Seq(AnyLink) /\ low.next \in Nat
      /\ Straight(low.path)
  BY <1>1, <1>2 DEF VInv, LowInv
<1>4. c \in AnyLink /\ c = low.chain[1] /\ Tail(low.chain) \in Seq(AnyLink)
  BY <1>1, <1>3
<1>5. /\ c.rel.var \in AnyVar /\ c.node.var \in AnyVar
      /\ c.rel.reads \subseteq UserVars /\ c.node.reads \subseteq UserVars
  BY <1>2, <1>4 DEF Proper, ProperLinks, WellTyped, TypedPatterns
<1>6. /\ Named(rel) \subseteq Vars /\ Named(c.rel.var) \subseteq Named(rel)
      /\ Flat(rels) /\ ReadsOf(rels) \subseteq Named(rel) \cup c.rel.reads /\ next \in Nat
  <2> HIDE DEF c
  <2> QED
    BY <1>2, <1>3, <1>5, PredicatesTyped, EffectiveName
<1> HIDE DEF rel, next, rels
<1>7. /\ Named(dst) \subseteq Vars /\ Named(c.node.var) \subseteq Named(dst)
      /\ Flat(nodes) /\ ReadsOf(nodes) \subseteq Named(dst) \cup c.node.reads
  <2> HIDE DEF c
  <2> QED
    BY <1>2, <1>5, <1>6, PredicatesTyped
<1>8. /\ low'.on /\ low'.patterns = low.patterns /\ low'.combined = low.combined
      /\ low'.chain = Tail(low.chain) /\ low'.head = dst
      /\ low'.path = low.path \o <<op>> \o rels \o nodes
  BY <1>1, <1>3 DEF LowFields
<1> HIDE DEF dst, nodes
<1>9. /\ Path(low.path, plan, strict) /\ Named(low.head) \subseteq Intros(low.path)
      /\ Intros(low.path) \subseteq Vars
  BY <1>1, <1>2, <1>3 DEF LowBuilt, Path, Intros
<1> DEFINE wide == Intros(low.path) \cup new
           one == low.path \o <<op>>
<1>10. Path(one, plan, strict) /\ Intros(one) = wide
  <2>1. "Expand" \in UnaryKinds \ {"Project"} /\ "Expand" \in BindingKinds
    BY DEF UnaryKinds, BindingKinds
  <2>2. new \in SUBSET Vars /\ Named(low.head) \in SUBSET Vars
    BY <1>6, <1>7, <1>9
  <2>3. "Expand" \notin BindingKinds => new = {}
    BY <2>1
  <2>4. strict => Named(low.head) \subseteq Intros(low.path)
    BY <1>9
  <2> HIDE DEF new, op, one, wide
  <2>5. \A q, kind, used, intro :
          /\ Path(q, plan, strict) /\ kind \in UnaryKinds \ {"Project"}
          /\ used \in SUBSET Vars /\ intro \in SUBSET Vars
          /\ kind \notin BindingKinds => intro = {}
          /\ strict => used \subseteq Intros(q)
          => /\ Path(q \o <<Node(kind, used, intro)>>, plan, strict)
             /\ Intros(q \o <<Node(kind, used, intro)>>) = Intros(q) \cup intro
    BY PathOnTop
  <2>6. /\ Path(low.path \o <<Node("Expand", Named(low.head), new)>>, plan, strict)
        /\ Intros(low.path \o <<Node("Expand", Named(low.head), new)>>)
             = Intros(low.path) \cup new
    BY <1>9, <2>1, <2>2, <2>3, <2>4, <2>5
  <2> QED
    BY <2>6 DEF op, one, wide
<1>11. strict => /\ c.rel.reads \cup c.node.reads \subseteq wide
                 /\ LinksInScope(wide, Tail(low.chain))
  <2>1. Named(c.rel.var) \cup Named(c.node.var) \subseteq wide
    BY <1>6, <1>7
  <2>2. strict => LinksInScope(Intros(low.path), low.chain)
    BY <1>1, <1>2 DEF LowBuilt
  <2>3. Intros(low.path) \subseteq wide
    OBVIOUS
  <2> HIDE DEF wide
  <2> QED
    BY <1>1, <1>3, <2>1, <2>2, <2>3, LinkScope DEF c
<1>12. strict => ReadsOf(rels) \subseteq wide /\ ReadsOf(nodes) \subseteq wide
  BY <1>6, <1>7, <1>11
<1>13. new \subseteq wide
  OBVIOUS
<1> HIDE DEF wide, one, op
<1>14. Path(one \o rels, plan, strict) /\ wide \subseteq Intros(one \o rels)
  BY <1>6, <1>10, <1>12, PathExtended
<1>15. /\ Path(low'.path, plan, strict) /\ wide \subseteq Intros(low'.path)
  <2>1. strict => ReadsOf(nodes) \subseteq Intros(one \o rels)
    BY <1>12, <1>14
  <2>2. /\ Path(one \o rels \o nodes, plan, strict)
        /\ Intros(one \o rels \o nodes) = Intros(one \o rels) \cup Intros(nodes)
    BY <1>7, <1>14, <2>1, PathExtended
  <2> QED
    BY <1>8, <1>14, <2>2 DEF one
<1>16. strict => LinksInScope(Intros(low'.path), low'.chain)
  BY <1>8, <1>11, <1>15, LinksMonotone
<1>17. Named(low'.head) \subseteq Intros(low'.path)
  BY <1>8, <1>13, <1>15
<1>18. LowBuilt(strict)'
  BY <1>1, <1>2, <1>8, <1>15, <1>16, <1>17 DEF LowBuilt, Path
<1> QED
  BY <1>1, <1>2, <1>8, <1>18, LowMoved

LEMMA BranchingTyped ==
  ASSUME NEW kind \in {"Cartesian", "Optional", "Union"}, NEW n \in Nat \ {0},
         n \in 0..NumSpines, NEW m \in Nat, n < m, NEW q
  PROVE  LET op == Branching(kind, n, BoundVars(q))
         IN  /\ op \in Op /\ op.kind = kind /\ op.intro = BoundVars(q) /\ op.used = {}
             /\ op.right = n /\ WellFormedOp(m, op) /\ ~HidesInput(op)
<1> DEFINE op == Branching(kind, n, BoundVars(q))
<1>1. BoundVars(q) \in SUBSET Vars /\ <<>> \in Seq(Argument) /\ kind \in Kinds
  BY DEF BoundVars, Bound, Kinds, BinaryKinds
<1>2. op \in Op
  BY <1>1 DEF Branching, Node, Op
<1>3. n \in 1..(m - 1)
  OBVIOUS
<1>4. /\ op.kind = kind /\ op.intro = BoundVars(q) /\ op.used = {} /\ op.right = n
      /\ ~HidesInput(op)
  BY DEF Branching, Node, HidesInput
<1>5. kind \in BindingKinds /\ kind \in BinaryKinds /\ kind # "Project"
  BY DEF BindingKinds, BinaryKinds
<1> QED
  BY <1>2, <1>3, <1>4, <1>5 DEF WellFormedOp

(* A second input joins what is there.                                     *)
LEMMA BranchOnTop ==
  ASSUME NEW kind \in {"Cartesian", "Optional", "Union"}, NEW n \in Nat \ {0},
         n \in 0..NumSpines, NEW m \in Nat, n < m, NEW pl, NEW strict, NEW p, pl[n] = p,
         NEW q, Piece(q, m, pl, strict), n \notin RightsOf(q)
  PROVE  LET op == Branching(kind, n, BoundVars(p))
         IN  /\ Piece(Append(q, op), m, pl, strict)
             /\ RightsOf(Append(q, op)) = RightsOf(q) \cup {n}
<1> DEFINE op == Branching(kind, n, BoundVars(p))
<1>1. /\ op \in Op /\ op.kind = kind /\ op.intro = BoundVars(p) /\ op.used = {}
      /\ op.right = n /\ WellFormedOp(m, op)
  BY BranchingTyped
<1> HIDE DEF op
<1>2. /\ op.kind \notin LeafKinds /\ op.intro = BoundVars(pl[op.right])
      /\ op.right \notin RightsOf(q) /\ {op.right} \ {0} = {n}
      /\ op.used \subseteq BoundVars(q)
  BY <1>1 DEF LeafKinds
<1>3. /\ Piece(Append(q, op), m, pl, strict)
      /\ RightsOf(Append(q, op)) = RightsOf(q) \cup ({op.right} \ {0})
  BY <1>1, <1>2, PieceAppended
<1> QED
  BY <1>2, <1>3 DEF op

-----------------------------------------------------------------------------
(* A pattern is lowered.                                                   *)
LEMMA PatternBuilt ==
  ASSUME NEW strict, Here(strict), Busy, low.on, low.patterns # <<>>,
         NEW p, p = Head(low.patterns)
  PROVE  LET done == low.path
                       \o (IF p.shortest THEN <<Node("ShortestPath", {}, {})>> ELSE <<>>)
                       \o (IF p.path # NoVar THEN <<Node("NamedPath", {}, {p.path})>>
                                             ELSE <<>>)
         IN  Piece(done, 1, plan, strict) /\ Straight(done)
<1> DEFINE short == IF p.shortest THEN <<Node("ShortestPath", {}, {})>> ELSE <<>>
           named == IF p.path # NoVar THEN <<Node("NamedPath", {}, {p.path})>> ELSE <<>>
<1>1. Path(low.path, plan, strict) /\ p \in AnyPattern /\ UserVars \subseteq Vars
  BY BusyBuilt DEF Here, VInv, LowInv, LowBuilt, Path, Proper, ProperNames
<1>2. Flat(short) /\ ReadsOf(short) = {}
  <2>1. /\ Passive(Node("ShortestPath", {}, {})) /\ ~HidesInput(Node("ShortestPath", {}, {}))
        /\ Node("ShortestPath", {}, {}).used = {}
    BY NodeTyped DEF UnaryKinds
  <2> QED
    BY <2>1, FlatOne, FlatNothing
<1>3. Flat(named) /\ ReadsOf(named) = {}
  <2>1. CASE p.path # NoVar
    <3>1. {p.path} \in SUBSET Vars
      BY <1>1, <2>1 DEF Here, Proper, ProperPatterns, AnyVar
    <3>2. /\ Passive(Node("NamedPath", {}, {p.path}))
          /\ ~HidesInput(Node("NamedPath", {}, {p.path}))
          /\ Node("NamedPath", {}, {p.path}).used = {}
      BY <3>1, NodeTyped DEF UnaryKinds, BindingKinds
    <3> QED
      BY <2>1, <3>2, FlatOne
  <2>2. CASE p.path = NoVar
    BY <2>2, FlatNothing
  <2> QED
    BY <2>1, <2>2
<1> HIDE DEF short, named
<1>4. Path(low.path \o short, plan, strict)
  BY <1>1, <1>2, PathExtended
<1>5. Path(low.path \o short \o named, plan, strict)
  <2>1. ReadsOf(named) \subseteq Intros(low.path \o short)
    BY <1>3
  <2> QED
    BY <1>3, <1>4, <2>1, PathExtended
<1> QED
  BY <1>5 DEF Path, short, named

(* What is left of the MATCH once a pattern is lowered.                    *)
LEMMA LowGoesOn ==
  ASSUME NEW strict, Here(strict), Busy, low.on, low.patterns # <<>>, low.chain = <<>>,
         NEW sofar,
         low' = IF Tail(low.patterns) = <<>>
                THEN [low EXCEPT !.patterns = Tail(low.patterns), !.combined = sofar]
                ELSE Lowering(Tail(low.patterns), sofar),
         Piece(sofar, free', plan', strict),
         \A q : Piece(q, 1, plan, strict) => Piece(q, 1, plan', strict)
  PROVE  LowBuilt(strict)' /\ low'.combined = sofar
<1> DEFINE more == Tail(low.patterns)
<1>1. /\ Proper /\ WellTyped /\ VInv /\ LowBuilt(strict)
  BY BusyBuilt DEF Here
<1>2. DOMAIN low = LowFields /\ low.patterns \in Seq(AnyPattern) /\ low.chain \in Seq(AnyLink)
  BY <1>1 DEF VInv, LowInv
<1>3. /\ more \in Seq(AnyPattern) /\ Len(more) = Len(low.patterns) - 1
      /\ Len(low.patterns) \in Nat
      /\ \A i \in 1..Len(more) : more[i] = low.patterns[i + 1]
  BY <1>2
<1>4. strict => \A i \in 1..Len(more) : PatternInScope(more[i])
  <2>1. \A i \in 1..Len(more) : i + 1 \in 1..Len(low.patterns)
    BY <1>3
  <2> QED
    BY <1>1, <1>3, <2>1 DEF LowBuilt
<1> HIDE DEF more
<1>5. CASE more = <<>>
  <2>1. /\ low'.on /\ low'.patterns = <<>> /\ low'.combined = sofar
        /\ low'.chain = low.chain /\ low'.head = low.head /\ low'.path = low.path
    BY <1>2, <1>5 DEF LowFields, more
  <2>2. \A i \in 1..Len(low'.patterns) : FALSE
    BY <2>1
  <2> QED
    BY <1>1, <2>1, <2>2 DEF LowBuilt
<1>6. CASE more # <<>>
  <2>1. low' = Lowering(more, sofar)
    BY <1>6 DEF more
  <2>2. low'.on /\ low'.patterns = more /\ low'.combined = sofar
    BY <1>1, <1>3, <1>6, <2>1, LoweringShape
  <2>3. Head(more) = more[1] /\ 1 \in 1..Len(more)
    BY <1>3, <1>6
  <2>4. /\ Piece(low'.path, 1, plan', strict)
        /\ Named(low'.head) \subseteq Intros(low'.path)
        /\ strict => LinksInScope(Intros(low'.path), low'.chain)
    BY <1>1, <1>3, <1>4, <1>6, <2>1, <2>3, LoweringBuilt
  <2> QED
    BY <1>4, <2>2, <2>4 DEF LowBuilt
<1> QED
  BY <1>5, <1>6

LEMMA PatternDoneBuilt ==
  ASSUME NEW strict, Here(strict), PatternDone
  PROVE  FitInv(strict)'
<1> DEFINE p == Head(low.patterns)
           more == Tail(low.patterns)
           short == IF p.shortest THEN <<Node("ShortestPath", {}, {})>> ELSE <<>>
           named == IF p.path # NoVar THEN <<Node("NamedPath", {}, {p.path})>> ELSE <<>>
           done == low.path \o short \o named
           op == Branching("Cartesian", free, BoundVars(done))
           sofar == IF low.combined = <<>> THEN done ELSE Append(low.combined, op)
           a == <<"low", 1>>
           b == <<"plan", free>>
           d == <<"low", 0>>
<1>1. /\ Busy /\ low.on /\ low.patterns # <<>> /\ low.chain = <<>>
      /\ low' = IF more = <<>> THEN [low EXCEPT !.patterns = more, !.combined = sofar]
                ELSE Lowering(more, sofar)
      /\ plan' = IF low.combined = <<>> THEN plan ELSE [plan EXCEPT ![free] = done]
      /\ free' = IF low.combined = <<>> THEN free ELSE free + 1
      /\ UNCHANGED <<frames, branches, result>>
  BY DEF PatternDone
<1>2. /\ FitInv(strict) /\ BuildInv(strict) /\ LowBuilt(strict) /\ EnoughSpines
      /\ free \in Nat \ {0} /\ result' \in Results /\ result' # "planned"
      /\ plan \in [Spines -> Seq(Op)] /\ IsSequence(branches')
  BY <1>1, BusyBuilt DEF Here, FitInv, Busy
<1>3. Piece(done, 1, plan, strict) /\ Straight(done)
  BY <1>1, PatternBuilt
<1> HIDE DEF done
<1>4. Piece(done, free, plan, strict) /\ RightsOf(done) = {}
  <2>1. 1 <= free /\ 1 \in Nat /\ \A s \in 1..(1 - 1) : plan[s] = plan[s]
    BY <1>2
  <2>2. RightsOf(done) \subseteq 1..(1 - 1)
    BY <1>3, RightsBuilt
  <2> QED
    BY <1>2, <1>3, <2>1, <2>2, PieceGrows
<1>5. CASE low.combined = <<>>
  <2>1. sofar = done /\ UNCHANGED <<plan, free>>
    BY <1>1, <1>5
  <2> HIDE DEF sofar
  <2>2. LowBuilt(strict)' /\ low'.combined = sofar
    BY <1>1, <1>4, <2>1, LowGoesOn
  <2>3. RightsOf(low.combined)' = RightsOf(low.combined)
    BY <1>4, <1>5, <2>1, <2>2, PieceNothing
  <2> QED
    BY <1>1, <1>2, <2>1, <2>2, <2>3, LowMoved
<1>6. CASE low.combined # <<>>
  <2>1. sofar = Append(low.combined, op)
    BY <1>6
  <2> HIDE DEF sofar
  <2>2. plan' = [plan EXCEPT ![free] = done] /\ free' = free + 1
    BY <1>1, <1>6
  <2>3. /\ plan' \in [Spines -> Seq(Op)] /\ free' \in Nat \ {0} /\ plan'[free] = done
        /\ \A s \in 1..(free - 1) : plan'[s] = plan[s]
        /\ \A s \in Spines : IF s < free' THEN Piece(plan'[s], s, plan', strict)
                             ELSE plan'[s] = <<>>
        /\ \A q : Piece(q, free, plan, strict) => Piece(q, free', plan', strict)
        /\ \A q : Piece(q, 1, plan, strict) => Piece(q, 1, plan', strict)
    BY <1>2, <1>4, <2>2, SpineAdded
  <2>4. free \in 0..NumSpines
    BY <1>2, <1>4, <2>2, SpineAdded
  <2>5. /\ Piece(low.combined, free, plan, strict) /\ Piece(low.combined, free', plan', strict)
    BY <1>2, <2>3 DEF LowBuilt
  <2>6. free < free' /\ free' \in Nat
    BY <1>2, <2>2
  <2>7. free \notin RightsOf(low.combined)
    <3>1. RightsOf(low.combined) \subseteq 1..(free - 1)
      BY <2>5, RightsBuilt
    <3> QED
      BY <1>2, <3>1
  <2>8. Piece(sofar, free', plan', strict) /\ RightsOf(sofar) = RightsOf(low.combined) \cup {free}
    <3>1. /\ Piece(Append(low.combined, op), free', plan', strict)
          /\ RightsOf(Append(low.combined, op)) = RightsOf(low.combined) \cup {free}
      BY <1>2, <2>3, <2>4, <2>5, <2>6, <2>7, BranchOnTop
    <3> HIDE DEF op
    <3> QED
      BY <2>1, <3>1
  <2> HIDE DEF op
  <2>9. LowBuilt(strict)' /\ low'.combined = sofar
    BY <1>1, <2>3, <2>8, LowGoesOn
  <2>10. a \in Places /\ b \in Places /\ d \in Places /\ a # b /\ a # d /\ b # d
    BY <1>2 DEF Places
  <2>11. /\ Used[a] = {} /\ Used'[a] = {} /\ Used[b] = {} /\ Used'[b] = {}
         /\ Used[d] = RightsOf(low.combined) /\ Used'[d] = RightsOf(sofar)
    <3>1. free \notin 1..(free - 1) /\ free \in 1..(free' - 1)
      BY <1>2, <2>2
    <3> QED
      BY <1>4, <2>3, <2>9, <2>10, <3>1 DEF Used
  <2>12. ASSUME NEW c \in Places, c # a, c # b, c # d PROVE Used'[c] = Used[c]
    <3>1. CASE c[1] = "low"
      <4>1. c[2] # 0
        BY <2>12, <3>1 DEF Places
      <4> QED
        BY <3>1, <4>1 DEF Used
    <3>2. CASE c[1] = "plan"
      <4>1. c[2] \in Nat /\ c[2] # free
        BY <2>12, <3>2 DEF Places
      <4>2. c[2] \in 1..(free' - 1) <=> c[2] \in 1..(free - 1)
        BY <1>2, <2>2, <4>1
      <4> QED
        BY <2>3, <3>2, <4>2 DEF Used
    <3>3. CASE c[1] \in {"frame", "branch"}
      BY <1>1, <3>3 DEF Used
    <3> QED
      BY <3>1, <3>2, <3>3, OtherUses
  <2> HIDE DEF a, b, d
  <2>13. OnceUsed(Used', free')
    <3>1. OnceUsed(Used, free)
      BY <1>2 DEF BuildInv
    <3>2. /\ Used[b] = {} /\ Used'[a] = {} /\ Used'[b] = Used[a]
          /\ Used'[d] = Used[d] \cup {free}
      BY <2>8, <2>11
    <3>3. free \in Nat \ {0}
      BY <1>2
    <3>4. OnceUsed(Used', free + 1)
      BY <2>10, <2>12, <3>1, <3>2, <3>3, UsesPassed
    <3> QED
      BY <2>2, <3>4
  <2>14. /\ \A i \in 1..Len(frames') : FrameBuilt(frames'[i], free', plan', strict)
         /\ \A i \in 2..Len(frames') : Waiting(frames'[i], strict)
         /\ \A i \in 1..Len(branches') : Piece(branches'[i].main, free', plan', strict)
    BY <1>1, <1>2, <2>3 DEF BuildInv, FrameBuilt
  <2>15. BuildInv(strict)'
    BY <2>3, <2>9, <2>13, <2>14 DEF BuildInv
  <2> QED
    BY <1>2, <2>3, <2>15 DEF FitInv
<1> QED
  BY <1>5, <1>6

-----------------------------------------------------------------------------
(* The MATCH is lowered: it begins the plan, or is a second input of what  *)
(* joins it to the plan there is.                                          *)
LEMMA HintsFlat ==
  ASSUME NEW n \in Nat
  PROVE  LET hints == [i \in 1..n |-> Node("PlannerHint", {}, {})]
         IN  Flat(hints) /\ ReadsOf(hints) = {}
<1> DEFINE hint == Node("PlannerHint", {}, {})
           hints == [i \in 1..n |-> hint]
<1>1. Passive(hint) /\ ~HidesInput(hint) /\ hint.used = {}
  BY NodeTyped DEF UnaryKinds
<1> HIDE DEF hint
<1>2. /\ hints = [i \in 1..n |-> hints[i]]
      /\ \A i \in 1..n : Passive(hints[i]) /\ ~HidesInput(hints[i]) /\ hints[i].used = {}
  BY <1>1
<1> HIDE DEF hints
<1>3. Flat(hints) /\ ReadsOf(hints) = UNION {hints[i].used : i \in 1..n}
  BY <1>2, FlatFunction
<1>4. ReadsOf(hints) = {}
  BY <1>2, <1>3
<1> QED
  BY <1>3, <1>4 DEF hints, hint

LEMMA IdleBuilt ==
  ASSUME NEW strict, low' = Idle
  PROVE  LowBuilt(strict)' /\ low'.combined = <<>>
<1>1. ~low'.on /\ low'.path = <<>> /\ low'.combined = <<>>
  BY DEF Idle
<1> QED
  BY <1>1, PieceNothing DEF LowBuilt

(* The frames when the innermost one becomes f, the second inputs grown.   *)
LEMMA FramesGrown ==
  ASSUME NEW strict, BuildInv(strict), FramesInv, frames # <<>>, NEW f,
         frames' = <<f>> \o Tail(frames), FrameBuilt(f, free', plan', strict),
         \A q : Piece(q, free, plan, strict) => Piece(q, free', plan', strict),
         branches' = branches
  PROVE  /\ \A i \in 1..Len(frames') : FrameBuilt(frames'[i], free', plan', strict)
         /\ \A i \in 2..Len(frames') : Waiting(frames'[i], strict)
         /\ \A i \in 1..Len(branches') : Piece(branches'[i].main, free', plan', strict)
<1>1. /\ Len(frames') = Len(frames) /\ frames'[1] = f /\ Len(frames) \in Nat
      /\ \A i \in 2..Len(frames) : frames'[i] = frames[i]
  BY TopShape, Replaced
<1>2. \A i \in 1..Len(frames) : i = 1 \/ i \in 2..Len(frames)
  BY <1>1
<1>3. \A i \in 2..Len(frames) : i \in 1..Len(frames)
  BY <1>1
<1>4. \A g : FrameBuilt(g, free, plan, strict) => FrameBuilt(g, free', plan', strict)
  BY DEF FrameBuilt
<1>5. \A i \in 1..Len(frames') : FrameBuilt(frames'[i], free', plan', strict)
  BY <1>1, <1>2, <1>3, <1>4 DEF BuildInv
<1>6. \A i \in 2..Len(frames') : Waiting(frames'[i], strict)
  BY <1>1 DEF BuildInv
<1> QED
  BY <1>5, <1>6 DEF BuildInv

LEMMA MatchAlone ==
  ASSUME NEW strict, Here(strict), Busy, frames # <<>>, Top.main = <<>>, low' = Idle,
         NEW f, frames' = <<f>> \o Tail(frames), FrameBuilt(f, free, plan, strict),
         RightsOf(f.main) = RightsOf(low.combined),
         UNCHANGED <<plan, free, branches, result>>
  PROVE  FitInv(strict)'
<1> DEFINE a == <<"low", 0>>
           b == <<"frame", Len(frames)>>
<1>1. /\ FitInv(strict) /\ BuildInv(strict) /\ VInv /\ FramesInv
  BY BusyBuilt DEF Here, VInv
<1>2. /\ b \in Places /\ Used[b] = RightsOf(Top.main) /\ Used'[b] = RightsOf(f.main)
      /\ \A c \in Places : c[1] = "frame" /\ c # b => Used'[c] = Used[c]
  BY <1>1, UsesOfTop
<1>3. LowBuilt(strict)' /\ low'.combined = <<>>
  BY IdleBuilt
<1>4. a \in Places /\ a # b
  BY DEF Places
<1>5. Used[b] = {} /\ Used'[a] = {} /\ Used[a] = RightsOf(low.combined)
  BY <1>2, <1>3, <1>4, PieceNothing DEF Used
<1>6. Used'[b] = Used[a]
  BY <1>2, <1>5
<1>7. ASSUME NEW c \in Places, c # a, c # b PROVE Used'[c] = Used[c]
  <2>1. CASE c[1] = "low"
    <3>1. c[2] # 0
      BY <1>7, <2>1 DEF Places
    <3> QED
      BY <2>1, <3>1 DEF Used
  <2>2. CASE c[1] = "frame"
    BY <1>2, <1>7, <2>2
  <2>3. CASE c[1] \in {"branch", "plan"}
    BY <2>3, OtherUses
  <2> QED
    BY <2>1, <2>2, <2>3, OtherUses
<1> HIDE DEF a, b
<1>8. OnceUsed(Used', free')
  <2>1. OnceUsed(Used, free)
    BY <1>1 DEF BuildInv
  <2>2. OnceUsed(Used', free)
    BY <1>2, <1>4, <1>5, <1>6, <1>7, <2>1, UsesMoved
  <2> QED
    BY <2>2
<1>9. /\ \A i \in 1..Len(frames') : FrameBuilt(frames'[i], free', plan', strict)
      /\ \A i \in 2..Len(frames') : Waiting(frames'[i], strict)
      /\ \A i \in 1..Len(branches') : Piece(branches'[i].main, free', plan', strict)
  BY <1>1, FramesGrown
<1>10. BuildInv(strict)'
  BY <1>1, <1>3, <1>8, <1>9 DEF BuildInv
<1> QED
  BY <1>1, <1>10 DEF FitInv, Busy

(* p becomes the next second input.                                        *)
SecondInput(p) == plan' = [plan EXCEPT ![free] = p] /\ free' = free + 1

LEMMA MatchJoined ==
  ASSUME NEW strict, Here(strict), Busy, frames # <<>>, low' = Idle,
         NEW p, Piece(p, free, plan, strict), RightsOf(p) = RightsOf(low.combined),
         SecondInput(p), NEW f, frames' = <<f>> \o Tail(frames),
         NEW kind \in {"Cartesian", "Optional"},
         f.main = Append(Top.main, Branching(kind, free, BoundVars(p))),
         f.project = Top.project, f.sort = Top.sort, f.skip = Top.skip, f.limit = Top.limit,
         ~HasSchemaCommand(f.todo), UNCHANGED <<branches, result>>
  PROVE  FitInv(strict)'
<1> DEFINE op == Branching(kind, free, BoundVars(p))
           a == <<"low", 0>>
           b == <<"plan", free>>
           d == <<"frame", Len(frames)>>
<1>1. /\ FitInv(strict) /\ BuildInv(strict) /\ VInv /\ FramesInv /\ EnoughSpines
      /\ free \in Nat \ {0} /\ IsSequence(branches')
      /\ result' \in Results /\ result' # "planned" /\ free' = free + 1
  BY BusyBuilt DEF Here, VInv, FitInv, Busy, SecondInput
<1>2. /\ plan' \in [Spines -> Seq(Op)] /\ free' \in Nat \ {0} /\ plan'[free] = p
      /\ free \in 0..NumSpines /\ \A s \in 1..(free - 1) : plan'[s] = plan[s]
      /\ \A s \in Spines : IF s < free' THEN Piece(plan'[s], s, plan', strict)
                           ELSE plan'[s] = <<>>
      /\ \A q : Piece(q, free, plan, strict) => Piece(q, free', plan', strict)
  BY <1>1, SpineAdded DEF SecondInput
<1>3. free < free' /\ free' \in Nat
  BY <1>1
<1>4. f.main = Append(Top.main, op)
  OBVIOUS
<1>5. FrameBuilt(Top, free, plan, strict)
  BY TopBuilt
<1>6. Piece(Top.main, free, plan, strict) /\ Piece(Top.main, free', plan', strict)
  BY <1>2, <1>5 DEF FrameBuilt
<1>7. free \notin RightsOf(Top.main)
  <2>1. RightsOf(Top.main) \subseteq 1..(free - 1)
    BY <1>6, RightsBuilt
  <2> QED
    BY <1>1, <2>1
<1>8. Piece(f.main, free', plan', strict) /\ RightsOf(f.main) = RightsOf(Top.main) \cup {free}
  <2>1. /\ Piece(Append(Top.main, op), free', plan', strict)
        /\ RightsOf(Append(Top.main, op)) = RightsOf(Top.main) \cup {free}
    BY <1>1, <1>2, <1>3, <1>6, <1>7, BranchOnTop
  <2> HIDE DEF op
  <2> QED
    BY <1>4, <2>1
<1> HIDE DEF op
<1>9. FrameBuilt(f, free', plan', strict)
  BY <1>5, <1>8 DEF FrameBuilt
<1>10. /\ d \in Places /\ Used[d] = RightsOf(Top.main) /\ Used'[d] = RightsOf(f.main)
       /\ \A c \in Places : c[1] = "frame" /\ c # d => Used'[c] = Used[c]
  BY <1>1, UsesOfTop
<1>11. LowBuilt(strict)' /\ low'.combined = <<>>
  BY IdleBuilt
<1>12. a \in Places /\ b \in Places /\ a # b /\ a # d /\ b # d
  BY <1>1 DEF Places
<1>13. /\ Used[b] = {} /\ Used'[a] = {} /\ Used'[b] = Used[a]
  <2>1. free \notin 1..(free - 1) /\ free \in 1..(free' - 1)
    BY <1>1
  <2>2. Used'[b] = RightsOf(p) /\ Used[a] = RightsOf(low.combined)
    BY <1>2, <1>12, <2>1 DEF Used
  <2>3. Used[b] = {} /\ Used'[a] = {}
    BY <1>11, <1>12, <2>1, PieceNothing DEF Used
  <2> QED
    BY <2>2, <2>3
<1>14. Used'[d] = Used[d] \cup {free}
  BY <1>8, <1>10
<1>15. ASSUME NEW c \in Places, c # a, c # b, c # d PROVE Used'[c] = Used[c]
  <2>1. CASE c[1] = "low"
    <3>1. c[2] # 0
      BY <1>15, <2>1 DEF Places
    <3> QED
      BY <2>1, <3>1 DEF Used
  <2>2. CASE c[1] = "frame"
    BY <1>10, <1>15, <2>2
  <2>3. CASE c[1] = "plan"
    <3>1. c[2] \in Nat /\ c[2] # free
      BY <1>15, <2>3 DEF Places
    <3>2. c[2] \in 1..(free' - 1) <=> c[2] \in 1..(free - 1)
      BY <1>1, <3>1
    <3> QED
      BY <1>2, <2>3, <3>2 DEF Used
  <2>4. CASE c[1] = "branch"
    BY <2>4, OtherUses
  <2> QED
    BY <2>1, <2>2, <2>3, <2>4, OtherUses
<1> HIDE DEF a, b, d
<1>16. OnceUsed(Used', free')
  <2>1. OnceUsed(Used, free)
    BY <1>1 DEF BuildInv
  <2>2. free \in Nat \ {0} /\ d \in Places
    BY <1>1, <1>10
  <2>3. OnceUsed(Used', free + 1)
    BY <1>12, <1>13, <1>14, <1>15, <2>1, <2>2, UsesPassed
  <2> QED
    BY <1>1, <2>3
<1>17. /\ \A i \in 1..Len(frames') : FrameBuilt(frames'[i], free', plan', strict)
       /\ \A i \in 2..Len(frames') : Waiting(frames'[i], strict)
       /\ \A i \in 1..Len(branches') : Piece(branches'[i].main, free', plan', strict)
  BY <1>1, <1>2, <1>9, FramesGrown
<1>18. BuildInv(strict)'
  BY <1>2, <1>11, <1>16, <1>17 DEF BuildInv
<1> QED
  BY <1>1, <1>2, <1>18 DEF FitInv

LEMMA EndMatchBuilt ==
  ASSUME NEW strict, Here(strict), EndMatch
  PROVE  FitInv(strict)'
<1> DEFINE hints == [i \in 1..Clause.hints |-> Node("PlannerHint", {}, {})]
           lowered == low.combined \o hints
           joins == IF Clause.optional THEN "Optional" ELSE "Cartesian"
           second == Branching(joins, free, BoundVars(lowered))
           alone == [[Top EXCEPT !.main = lowered] EXCEPT !.todo = Tail(@)]
           joined == [[Top EXCEPT !.main = Append(@, second)] EXCEPT !.todo = Tail(@)]
<1>1. Busy /\ low.on /\ low.patterns = <<>>
  BY DEF EndMatch
<1>2. /\ FitInv(strict) /\ BuildInv(strict) /\ LowBuilt(strict) /\ VInv /\ FramesInv
      /\ frames # <<>> /\ Top.todo # <<>> /\ Clause.kind = "Match"
  BY <1>1, BusyBuilt DEF Here, VInv, LowInv
<1>3. \/ Fail("OptionalMatchWithoutAnchor")
      \/ /\ Top.main = <<>> /\ frames' = <<alone>> \o Tail(frames) /\ low' = Idle
         /\ UNCHANGED <<plan, free, branches, result>>
      \/ /\ frames' = <<joined>> \o Tail(frames) /\ low' = Idle
         /\ plan' = [plan EXCEPT ![free] = lowered] /\ free' = free + 1
         /\ UNCHANGED <<branches, result>>
  BY DEF EndMatch, Proceed
<1>4. FrameBuilt(Top, free, plan, strict) /\ DOMAIN Top = FrameFields
  BY <1>1, <1>2, TopBuilt DEF FrameShape
<1>5. Clause \in AnyClause /\ ~HasSchemaCommand(Tail(Top.todo))
  BY <1>2, ClauseShape
<1>6. Piece(lowered, free, plan, strict) /\ RightsOf(lowered) = RightsOf(low.combined)
  <2>1. Clause.hints \in Nat
    BY <1>2, <1>5 DEF Here, Proper, ProperClauses
  <2>2. Flat(hints) /\ ReadsOf(hints) = {}
    BY <2>1, HintsFlat
  <2> HIDE DEF hints
  <2>3. Piece(low.combined, free, plan, strict) /\ ReadsOf(hints) \subseteq BoundVars(low.combined)
    BY <1>2, <2>2 DEF LowBuilt
  <2> QED
    BY <2>2, <2>3, PieceFlat
<1> HIDE DEF lowered
<1>7. /\ alone.main = lowered /\ alone.todo = Tail(Top.todo)
      /\ alone.project = Top.project /\ alone.sort = Top.sort /\ alone.skip = Top.skip
      /\ alone.limit = Top.limit
  BY <1>4 DEF FrameFields
<1>8. /\ joined.main = Append(Top.main, second) /\ joined.todo = Tail(Top.todo)
      /\ joined.project = Top.project /\ joined.sort = Top.sort /\ joined.skip = Top.skip
      /\ joined.limit = Top.limit
  BY <1>4 DEF FrameFields
<1>9. joins \in {"Cartesian", "Optional"}
  OBVIOUS
<1> HIDE DEF alone, joined, joins
<1>10. CASE Fail("OptionalMatchWithoutAnchor")
  BY <1>2, <1>10, NothingBuilt DEF Fail, Results
<1>11. CASE /\ Top.main = <<>> /\ frames' = <<alone>> \o Tail(frames) /\ low' = Idle
            /\ UNCHANGED <<plan, free, branches, result>>
  <2>1. FrameBuilt(alone, free, plan, strict) /\ RightsOf(alone.main) = RightsOf(low.combined)
    BY <1>4, <1>5, <1>6, <1>7 DEF FrameBuilt
  <2> QED
    BY <1>1, <1>2, <1>11, <2>1, MatchAlone
<1>12. CASE /\ frames' = <<joined>> \o Tail(frames) /\ low' = Idle
            /\ plan' = [plan EXCEPT ![free] = lowered] /\ free' = free + 1
            /\ UNCHANGED <<branches, result>>
  BY <1>1, <1>2, <1>5, <1>6, <1>8, <1>9, <1>12, MatchJoined DEF SecondInput
<1> QED
  BY <1>3, <1>10, <1>11, <1>12

-----------------------------------------------------------------------------
(* The operators that go around the plan, a recursive function of the      *)
(* options.                                                                *)
LEMMA OptionsFlat ==
  ASSUME NEW options \in Seq(Options)
  PROVE  /\ Flat(OptionOps(options)) /\ ReadsOf(OptionOps(options)) = {}
         /\ OfKinds(OptionOps(options), Options)
<1> DEFINE N == Len(options)
           last(i) == options[N + 1 - i]
           next(r, i) == IF last(i) = "Cypher" THEN r ELSE Append(r, Node(last(i), {}, {}))
           Is(f, n) == f = [i \in 0..n |-> IF i = 0 THEN <<>> ELSE next(f[i - 1], i)]
           Around == CHOOSE f : Is(f, N)
<1>1. OptionOps(options) = Around[N]
  BY DEF OptionOps
<1>2. N \in Nat /\ \A i \in 1..N : last(i) \in Options
  <2>1. \A i \in 1..N : N + 1 - i \in 1..N
    OBVIOUS
  <2> QED
    BY <2>1
<1> HIDE DEF N, last, next
<1>3. \E f : Is(f, N)
  <2> DEFINE T == {n \in Nat : \E f : Is(f, n)}
  <2>1. 0 \in T
    <3> DEFINE f == [i \in 0..0 |-> IF i = 0 THEN <<>> ELSE next(<<>>, i)]
    <3>1. \A i \in 0..0 : i = 0
      OBVIOUS
    <3>2. Is(f, 0)
      BY <3>1
    <3> QED
      BY <3>2
  <2>2. ASSUME NEW n \in Nat, n \in T PROVE n + 1 \in T
    <3>1. PICK f : Is(f, n)
      BY <2>2
    <3> DEFINE g == [i \in 0..(n + 1) |-> IF i = n + 1 THEN next(f[n], n + 1) ELSE f[i]]
    <3>2. ASSUME NEW i \in 0..(n + 1)
          PROVE  g[i] = IF i = 0 THEN <<>> ELSE next(g[i - 1], i)
      <4>1. CASE i = n + 1
        <5>1. i # 0 /\ i - 1 = n /\ n \in 0..(n + 1) /\ n # n + 1
          BY <2>2, <4>1
        <5> QED
          BY <4>1, <5>1
      <4>2. CASE i # n + 1 /\ i # 0
        <5>1. i \in 0..n /\ i - 1 \in 0..(n + 1) /\ i - 1 # n + 1
          BY <2>2, <4>2
        <5>2. g[i] = f[i] /\ g[i - 1] = f[i - 1]
          BY <4>2, <5>1
        <5>3. f[i] = next(f[i - 1], i)
          BY <3>1, <4>2, <5>1
        <5> QED
          BY <4>2, <5>2, <5>3
      <4>3. CASE i = 0
        <5>1. 0 \in 0..n /\ 0 # n + 1
          BY <2>2
        <5>2. g[0] = f[0] /\ f[0] = <<>>
          BY <3>1, <4>3, <5>1
        <5> QED
          BY <4>3, <5>2
      <4> QED
        BY <4>1, <4>2, <4>3
    <3>3. g = [i \in 0..(n + 1) |-> g[i]]
      OBVIOUS
    <3> HIDE DEF g
    <3>4. Is(g, n + 1)
      BY <3>2, <3>3
    <3> QED
      BY <2>2, <3>4
  <2> HIDE DEF T
  <2>3. Nat \subseteq T
    BY <2>1, <2>2, SetInduction
  <2> QED
    BY <1>2, <2>3 DEF T
<1>4. Is(Around, N)
  BY <1>3
<1> HIDE DEF Around
<1>5. ASSUME NEW i \in 1..N, NEW r, Flat(r), ReadsOf(r) = {}, OfKinds(r, Options)
      PROVE  Flat(next(r, i)) /\ ReadsOf(next(r, i)) = {} /\ OfKinds(next(r, i), Options)
  <2>1. CASE last(i) = "Cypher"
    BY <1>5, <2>1 DEF next
  <2>2. CASE last(i) # "Cypher"
    <3> DEFINE op == Node(last(i), {}, {})
    <3>1. last(i) \in UnaryKinds \ {"Project"}
      BY <1>2, <2>2 DEF Options, UnaryKinds
    <3>2. Passive(op) /\ ~HidesInput(op) /\ op.used = {}
      BY <3>1, NodeTyped
    <3>a. op.kind \in Options
      BY <1>2 DEF Node
    <3> HIDE DEF op
    <3>3. Append(r, op) = r \o <<op>>
      BY <1>5, <3>2 DEF Flat, Passive
    <3>4. Flat(r \o <<op>>) /\ ReadsOf(r \o <<op>>) = {}
      BY <1>5, <3>2, FlatOne, FlatJoined
    <3>5. OfKinds(Append(r, op), Options)
      <4>1. /\ Len(Append(r, op)) = Len(r) + 1 /\ Len(r) \in Nat
            /\ \A k \in 1..Len(r) : Append(r, op)[k] = r[k]
            /\ Append(r, op)[Len(r) + 1] = op
        BY <1>5, FlatFacts, Appended, SequenceFacts
      <4> QED
        BY <1>5, <3>a, <4>1 DEF OfKinds
    <3> QED
      BY <2>2, <3>3, <3>4, <3>5 DEF next, op
  <2> QED
    BY <2>1, <2>2
<1> DEFINE G == {n \in Nat : n <= N => /\ Flat(Around[n]) /\ ReadsOf(Around[n]) = {}
                                        /\ OfKinds(Around[n], Options)}
<1>6. 0 \in G
  <2>1. 0 \in 0..N
    BY <1>2
  <2>2. Around[0] = <<>>
    BY <1>4, <2>1
  <2>3. OfKinds(<<>>, Options)
    BY Nothing DEF OfKinds
  <2> QED
    BY <2>2, <2>3, FlatNothing
<1>7. ASSUME NEW n \in Nat, n \in G PROVE n + 1 \in G
  <2> SUFFICES ASSUME n + 1 <= N
               PROVE  /\ Flat(Around[n + 1]) /\ ReadsOf(Around[n + 1]) = {}
                      /\ OfKinds(Around[n + 1], Options)
    BY <1>7
  <2>1. n + 1 \in 0..N /\ n + 1 # 0 /\ (n + 1) - 1 = n /\ n <= N /\ n + 1 \in 1..N
    BY <1>2, <1>7
  <2>2. Around[n + 1] = next(Around[n], n + 1)
    BY <1>4, <2>1
  <2> QED
    BY <1>5, <1>7, <2>1, <2>2
<1> HIDE DEF G
<1>8. Nat \subseteq G
  BY <1>6, <1>7, SetInduction
<1>9. N <= N
  BY <1>2
<1>10. Flat(Around[N]) /\ ReadsOf(Around[N]) = {} /\ OfKinds(Around[N], Options)
  BY <1>2, <1>8, <1>9 DEF G
<1> QED
  BY <1>1, <1>10

-----------------------------------------------------------------------------
(* plan: the branches are combined.                                        *)
UnionSpines == free..(free + (Len(branches) - 1) - 1)

(* The place, before the branches are combined, of what is in a spine.     *)
PlaceOf(s) ==
  IF s = Root THEN <<"branch", 1>>
  ELSE IF s \in UnionSpines THEN <<"branch", s - free + 2>>
  ELSE IF s < free THEN <<"plan", s>> ELSE <<"low", 1>>

LEMMA NothingElse ==
  ASSUME NEW strict, FitInv(strict), VInv, Busy, frames = <<>>
  PROVE  \A a \in Places : Used[a] # {} =>
           \/ a[1] = "branch" /\ a[2] \in 1..Len(branches)
           \/ a[1] = "plan" /\ a[2] \in 1..(free - 1)
<1>1. low.combined = <<>>
  BY BusyBuilt DEF VInv, LowInv, LowBuilt
<1>2. RightsOf(low.combined) = {}
  BY <1>1, PieceNothing
<1>3. Len(frames) = 0 /\ \A i : i \notin 1..0
  BY Nothing
<1> QED
  BY <1>2, <1>3, OtherUses DEF Used

Unions(n, m) ==
  [k \in 1..m |-> Branching("Union", n + k - 1, BoundVars(branches[k + 1].main))]

LEMMA UnionsOnTop ==
  ASSUME NEW n \in Nat \ {0}, NEW m \in Nat, NEW pl, NEW strict,
         NEW q, Piece(q, n + m, pl, strict), RightsOf(q) \subseteq 1..(n - 1),
         n + m <= NumSpines, \A k \in 1..m : pl[n + k - 1] = branches[k + 1].main
  PROVE  /\ Piece(q \o Unions(n, m), n + m, pl, strict)
         /\ RightsOf(q \o Unions(n, m)) = RightsOf(q) \cup n..(n + m - 1)
<1> DEFINE op(k) == Branching("Union", n + k - 1, BoundVars(branches[k + 1].main))
           r == Unions(n, m)
<1>1. \A k \in 1..m : /\ n + k - 1 \in Nat \ {0} /\ n + k - 1 \in 0..NumSpines
                      /\ n + k - 1 < n + m /\ n + k - 1 \notin 1..(n - 1)
  BY SpineAssumption
<1>2. ASSUME NEW k \in 1..m
      PROVE  /\ op(k) \in Op /\ op(k).kind = "Union"
             /\ op(k).intro = BoundVars(branches[k + 1].main)
             /\ op(k).used = {} /\ op(k).right = n + k - 1
             /\ WellFormedOp(n + m, op(k)) /\ ~HidesInput(op(k))
  <2>1. /\ n + k - 1 \in Nat \ {0} /\ n + k - 1 \in 0..NumSpines /\ n + k - 1 < n + m
        /\ n + m \in Nat
    BY <1>1
  <2> QED
    BY <2>1, BranchingTyped
<1>3. r = [k \in 1..m |-> op(k)]
  BY DEF Unions
<1> HIDE DEF op, r
<1>4. r \in Seq(Op) /\ Len(r) = m /\ \A k \in 1..m : r[k] = op(k)
  BY <1>2, <1>3
<1>5. ASSUME NEW k \in 1..m
      PROVE  /\ WellFormedOp(n + m, r[k]) /\ r[k].kind \notin LeafKinds /\ ~HidesInput(r[k])
             /\ r[k].intro = BoundVars(pl[r[k].right])
             /\ r[k].right \notin RightsOf(q) /\ r[k].used = {} /\ r[k].right = n + k - 1
  BY <1>1, <1>2, <1>4 DEF LeafKinds
<1>6. \A i, j \in 1..m : r[i].right = r[j].right => i = j
  BY <1>5
<1>7. Stackable(r, q, n + m, pl, strict)
  BY <1>4, <1>5, <1>6 DEF Stackable
<1>8. RightsOf(r) = n..(n + m - 1)
  <2>1. ASSUME NEW i \in RightsOf(r) PROVE i \in n..(n + m - 1)
    <3>1. PICK k \in 1..m : r[k].right = i
      BY <1>4, <2>1 DEF RightsOf
    <3>2. i = n + k - 1
      BY <1>5, <3>1
    <3> QED
      BY <3>2
  <2>2. ASSUME NEW i \in n..(n + m - 1) PROVE i \in RightsOf(r)
    <3>1. i - n + 1 \in 1..m /\ n + (i - n + 1) - 1 = i /\ i # 0
      OBVIOUS
    <3>2. r[i - n + 1].right = i
      BY <1>5, <3>1
    <3> QED
      BY <1>4, <3>1, <3>2 DEF RightsOf
  <2> QED
    BY <2>1, <2>2
<1>9. Piece(q \o r, n + m, pl, strict) /\ RightsOf(q \o r) = RightsOf(q) \cup RightsOf(r)
  BY <1>7, PieceJoined
<1> QED
  BY <1>8, <1>9 DEF r

(* A plan whose spines are pieces that use each second input once.         *)
LEMMA PiecesFit ==
  ASSUME NEW strict, \A s \in Spines : Piece(plan'[s], s, plan', strict),
         \A s \in Spines : \A i \in 1..Len(plan'[s]) : plan'[s][i].right < free',
         \A r \in 1..(free' - 1) : \E s \in Spines : \A u \in Spines :
            r \in RightsOf(plan'[u]) <=> u = s
  PROVE  Shaped' /\ (strict => WellScoped(plan'))
<1>1. WellFormed(plan') /\ RightScopesExact(plan')
  BY DEF Piece, WellFormed, RightScopesExact, Adding
<1>2. strict => WellScoped(plan')
  BY DEF Piece, Scoped, WellScoped
<1>3. ASSUME NEW r \in 1..(free' - 1)
      PROVE  \E s \in Spines : \E i \in 1..Len(plan'[s]) :
               /\ plan'[s][i].right = r
               /\ \A u \in Spines : \A j \in 1..Len(plan'[u]) :
                    plan'[u][j].right = r => u = s /\ j = i
  <2>0. r # 0
    OBVIOUS
  <2>1. PICK s \in Spines : \A u \in Spines : r \in RightsOf(plan'[u]) <=> u = s
    OBVIOUS
  <2>2. PICK i \in 1..Len(plan'[s]) : plan'[s][i].right = r
    BY <2>1 DEF RightsOf
  <2>3. ASSUME NEW u \in Spines, NEW j \in 1..Len(plan'[u]), plan'[u][j].right = r
        PROVE  u = s /\ j = i
    <3>1. r \in RightsOf(plan'[u])
      BY <2>0, <2>3 DEF RightsOf
    <3>2. u = s
      BY <2>1, <3>1
    <3> QED
      BY <2>0, <2>2, <2>3, <3>2 DEF Piece
  <2> QED
    BY <2>2, <2>3
<1> QED
  BY <1>1, <1>2, <1>3 DEF Shaped, Piece

(* Where combining puts everything, and what then uses what.               *)
Combined(root) ==
  plan' = [s \in Spines |-> IF s = Root THEN root
                            ELSE IF s \in UnionSpines THEN branches[s - free + 2].main
                            ELSE plan[s]]

LEMMA CombinedUses ==
  ASSUME NEW strict, FitInv(strict), VInv, Busy, frames = <<>>, branches # <<>>,
         NEW root, Combined(root), free' = free + (Len(branches) - 1), EnoughSpines',
         RightsOf(root) = RightsOf(branches[1].main) \cup UnionSpines
  PROVE  \A r \in 1..(free' - 1) : \E s \in Spines : \A u \in Spines :
            r \in RightsOf(plan'[u]) <=> u = s
<1> DEFINE m == Len(branches)
<1>1. /\ BuildInv(strict) /\ IsSequence(branches) /\ OnceUsed(Used, free)
      /\ free \in Nat \ {0} /\ m \in Nat /\ m > 0
  <2>1. BuildInv(strict) /\ IsSequence(branches) /\ free \in Nat \ {0}
    BY BusyBuilt DEF FitInv
  <2>2. m \in Nat /\ m > 0
    BY <2>1, SequenceFacts, TailFacts
  <2> QED
    BY <2>1, <2>2 DEF BuildInv
<1>2. /\ free + (m - 1) <= Root /\ Root \in Spines /\ Spines = 1..Root /\ Root \in Nat
      /\ UnionSpines = free..(free + (m - 1) - 1)
  BY SpineAssumption DEF EnoughSpines, Root, Spines, UnionSpines
<1>3. /\ plan'[Root] = root
      /\ \A s \in UnionSpines : s \in Spines /\ s # Root /\ plan'[s] = branches[s - free + 2].main
      /\ \A s \in 1..(free - 1) : s \in Spines /\ s # Root /\ plan'[s] = plan[s]
      /\ \A s \in Spines : s # Root /\ s \notin UnionSpines /\ s >= free => plan'[s] = <<>>
  <2>1. \A s \in UnionSpines : s \in Spines /\ s # Root
    BY <1>1, <1>2
  <2>2. \A s \in 1..(free - 1) : s \in Spines /\ s # Root /\ s \notin UnionSpines
    BY <1>1, <1>2
  <2>3. \A s \in Spines : s >= free => ~(s < free)
    BY <1>1, <1>2
  <2>4. \A s \in Spines : s >= free => plan[s] = <<>>
    BY <1>1, <2>3 DEF BuildInv
  <2> QED
    BY <1>2, <2>1, <2>2, <2>4 DEF Combined
<1> HIDE DEF m
<1>4. ASSUME NEW s \in Spines
      PROVE  /\ PlaceOf(s) \in Places
             /\ \A r \in 1..(free - 1) : r \in RightsOf(plan'[s]) <=> r \in Used[PlaceOf(s)]
             /\ \A r \in UnionSpines : r \in RightsOf(plan'[s]) <=> s = Root
  <2>0. s \in Nat /\ s > 0
    BY <1>2
  <2>1. \A r \in UnionSpines : r \notin 1..(free - 1)
    BY <1>1, <1>2
  <2>2. \A i \in 1..m : /\ <<"branch", i>> \in Places
                        /\ Used[<<"branch", i>>] = RightsOf(branches[i].main)
                        /\ RightsOf(branches[i].main) \subseteq 1..(free - 1)
    <3> SUFFICES ASSUME NEW i \in 1..m
                 PROVE  /\ <<"branch", i>> \in Places
                        /\ Used[<<"branch", i>>] = RightsOf(branches[i].main)
                        /\ RightsOf(branches[i].main) \subseteq 1..(free - 1)
      OBVIOUS
    <3>1. <<"branch", i>> \in Places
      BY <1>1 DEF Places
    <3>2. Used[<<"branch", i>>] = RightsOf(branches[i].main)
      BY <3>1 DEF Used, m
    <3> QED
      BY <1>1, <3>1, <3>2 DEF OnceUsed
  <2>3. CASE s = Root
    <3>1. PlaceOf(s) = <<"branch", 1>> /\ 1 \in 1..m
      BY <1>1, <2>3 DEF PlaceOf
    <3>2. RightsOf(plan'[s]) = Used[PlaceOf(s)] \cup UnionSpines
      BY <1>3, <2>2, <2>3, <3>1
    <3> QED
      BY <2>1, <2>2, <2>3, <3>1, <3>2
  <2>4. CASE s # Root /\ s \in UnionSpines
    <3>1. PlaceOf(s) = <<"branch", s - free + 2>> /\ s - free + 2 \in 1..m
      BY <1>1, <1>2, <2>4 DEF PlaceOf
    <3>2. RightsOf(plan'[s]) = Used[PlaceOf(s)] /\ RightsOf(plan'[s]) \subseteq 1..(free - 1)
      BY <1>3, <2>2, <2>4, <3>1
    <3> QED
      BY <2>1, <2>2, <2>4, <3>1, <3>2
  <2>5. CASE s # Root /\ s \notin UnionSpines /\ s < free
    <3>1. PlaceOf(s) = <<"plan", s>> /\ s \in 1..(free - 1)
      BY <1>1, <2>0, <2>5 DEF PlaceOf
    <3>2. PlaceOf(s) \in Places
      BY <2>0, <3>1 DEF Places
    <3>3. RightsOf(plan'[s]) = Used[PlaceOf(s)]
      BY <1>3, <3>1, <3>2 DEF Used
    <3>4. RightsOf(plan'[s]) \subseteq 1..(free - 1)
      BY <1>1, <3>2, <3>3 DEF OnceUsed
    <3> QED
      BY <2>1, <2>5, <3>2, <3>3, <3>4
  <2>6. CASE s # Root /\ s \notin UnionSpines /\ ~(s < free)
    <3>1. PlaceOf(s) = <<"low", 1>> /\ s >= free
      BY <1>1, <2>0, <2>6 DEF PlaceOf
    <3>2. PlaceOf(s) \in Places /\ Used[PlaceOf(s)] = {}
      BY <3>1 DEF Places, Used
    <3>3. RightsOf(plan'[s]) = {}
      BY <1>3, <2>6, <3>1, PieceNothing
    <3> QED
      BY <2>6, <3>2, <3>3
  <2> QED
    BY <2>3, <2>4, <2>5, <2>6
<1>5. \A r \in 1..(free' - 1) : r \in 1..(free - 1) \/ r \in UnionSpines
  BY <1>1, <1>2 DEF m
<1>6. ASSUME NEW r \in 1..(free - 1)
      PROVE  \E s \in Spines : \A u \in Spines : r \in RightsOf(plan'[u]) <=> u = s
  <2>1. PICK a \in Places : \A b \in Places : r \in Used[b] <=> b = a
    BY <1>1 DEF OnceUsed
  <2>2. \/ a[1] = "branch" /\ a[2] \in 1..m
        \/ a[1] = "plan" /\ a[2] \in 1..(free - 1)
    BY <2>1, NothingElse DEF m
  <2>3. \E s \in Spines : PlaceOf(s) = a /\ \A u \in Spines : PlaceOf(u) = a => u = s
    <3>1. CASE a[1] = "branch" /\ a[2] = 1
      <4>1. a = <<"branch", 1>>
        BY <3>1 DEF Places
      <4>2. PlaceOf(Root) = a
        BY <4>1 DEF PlaceOf
      <4>3. ASSUME NEW u \in Spines, PlaceOf(u) = a PROVE u = Root
        <5>1. u \in UnionSpines => u - free + 2 # 1
          BY <1>1, <1>2
        <5> QED
          BY <4>1, <4>3, <5>1 DEF PlaceOf
      <4> QED
        BY <1>2, <4>2, <4>3
    <3>2. CASE a[1] = "branch" /\ a[2] \in 2..m
      <4> DEFINE s == a[2] - 2 + free
      <4>1. a = <<"branch", a[2]>>
        BY <3>2 DEF Places
      <4>2. s \in UnionSpines /\ s - free + 2 = a[2]
        BY <1>1, <1>2, <3>2
      <4>3. s \in Spines /\ s # Root
        BY <1>3, <4>2
      <4>4. PlaceOf(s) = a
        BY <4>1, <4>2, <4>3 DEF PlaceOf
      <4>5. ASSUME NEW u \in Spines, PlaceOf(u) = a PROVE u = s
        <5>1. u # Root
          BY <3>2, <4>1, <4>5 DEF PlaceOf
        <5>2. u \in UnionSpines /\ u - free + 2 = a[2]
          BY <4>1, <4>5, <5>1 DEF PlaceOf
        <5> QED
          BY <1>1, <1>2, <5>2
      <4> QED
        BY <4>3, <4>4, <4>5
    <3>3. CASE a[1] = "plan" /\ a[2] \in 1..(free - 1)
      <4>1. a = <<"plan", a[2]>>
        BY <3>3 DEF Places
      <4>2. a[2] \in Spines /\ a[2] # Root /\ a[2] < free /\ a[2] \notin UnionSpines
        BY <1>1, <1>2, <1>3, <3>3
      <4>3. PlaceOf(a[2]) = a
        BY <4>1, <4>2 DEF PlaceOf
      <4>4. ASSUME NEW u \in Spines, PlaceOf(u) = a PROVE u = a[2]
        BY <4>1, <4>4 DEF PlaceOf
      <4> QED
        BY <4>2, <4>3, <4>4
    <3>4. a[1] = "branch" /\ a[2] \in 1..m => a[2] = 1 \/ a[2] \in 2..m
      BY <1>1
    <3> QED
      BY <2>2, <3>1, <3>2, <3>3, <3>4
  <2>4. PICK s \in Spines : PlaceOf(s) = a /\ \A u \in Spines : PlaceOf(u) = a => u = s
    BY <2>3
  <2>5. \A u \in Spines : r \in RightsOf(plan'[u]) <=> PlaceOf(u) = a
    BY <1>4, <2>1
  <2> QED
    BY <2>4, <2>5
<1>7. ASSUME NEW r \in UnionSpines
      PROVE  \E s \in Spines : \A u \in Spines : r \in RightsOf(plan'[u]) <=> u = s
  BY <1>2, <1>4
<1> QED
  BY <1>5, <1>6, <1>7

LEMMA RightsBelow ==
  ASSUME NEW q, NEW n \in Nat \ {0}, NEW pl, NEW strict, Piece(q, n, pl, strict),
         NEW i \in 1..Len(q)
  PROVE  q[i].right < n /\ q[i].right \in Nat
BY DEF Piece, WellFormedOp

LEMMA CombineSucceeds ==
  ASSUME NEW strict, Here(strict), EnoughSpines', query \in Queries,
         Busy, frames = <<>>, branches # <<>>,
         NEW root,
         root = branches[1].main \o Unions(free, Len(branches) - 1) \o OptionOps(query.options),
         Combined(root), free' = free + (Len(branches) - 1), result' = "planned",
         UNCHANGED <<frames, low, branches>>
  PROVE  FitInv(strict)'
<1> DEFINE m == Len(branches) - 1
           q == branches[1].main
           n == free + m
           top == q \o Unions(free, m)
<1>1. /\ BuildInv(strict) /\ IsSequence(branches) /\ OnceUsed(Used, free) /\ LowBuilt(strict)
      /\ free \in Nat \ {0} /\ m \in Nat /\ FitInv(strict) /\ VInv /\ WellTyped
      /\ plan \in [Spines -> Seq(Op)]
  <2>1. /\ BuildInv(strict) /\ IsSequence(branches) /\ free \in Nat \ {0} /\ FitInv(strict)
        /\ VInv /\ WellTyped /\ plan \in [Spines -> Seq(Op)]
    BY BusyBuilt DEF FitInv, Here
  <2>2. Len(branches) \in Nat /\ Len(branches) > 0
    BY <2>1, SequenceFacts, TailFacts
  <2>3. m \in Nat
    BY <2>2
  <2> QED
    BY <2>1, <2>3 DEF BuildInv
<1>2. /\ n \in Nat /\ free <= n /\ n <= Root /\ Root \in Nat /\ Root \in Spines
      /\ Spines = 1..Root /\ Root = NumSpines
  BY <1>1, SpineAssumption DEF EnoughSpines, Root, Spines
<1>3. /\ UnionSpines = free..(n - 1) /\ 1 \in 1..Len(branches)
      /\ \A k \in 1..m : free + k - 1 \in UnionSpines /\ k + 1 \in 1..Len(branches)
                         /\ (free + k - 1) - free + 2 = k + 1
      /\ \A s \in UnionSpines : s - free + 2 \in 1..Len(branches)
  BY <1>1 DEF UnionSpines
<1>4. /\ plan'[Root] = root
      /\ \A s \in UnionSpines : s \in Spines /\ s # Root /\ plan'[s] = branches[s - free + 2].main
      /\ \A s \in 1..(free - 1) : s \in Spines /\ s # Root /\ plan'[s] = plan[s]
      /\ \A s \in Spines : s # Root /\ s \notin UnionSpines /\ ~(s < free) => plan'[s] = <<>>
  <2>1. \A s \in UnionSpines : s \in Spines /\ s # Root
    BY <1>1, <1>2, <1>3
  <2>2. \A s \in 1..(free - 1) : s \in Spines /\ s # Root /\ s \notin UnionSpines
    BY <1>1, <1>2, <1>3
  <2>3. \A s \in Spines : ~(s < free) => plan[s] = <<>>
    BY <1>1 DEF BuildInv
  <2> QED
    BY <1>2, <2>1, <2>2, <2>3 DEF Combined
<1> HIDE DEF m
<1>5. Piece(q, free, plan, strict) /\ RightsOf(q) \subseteq 1..(free - 1)
  <2>1. <<"branch", 1>> \in Places
    BY DEF Places
  <2>2. Used[<<"branch", 1>>] = RightsOf(q)
    BY <1>3, <2>1 DEF Used
  <2> QED
    BY <1>1, <1>3, <2>1, <2>2 DEF BuildInv, OnceUsed
<1>6. Piece(q, n, plan', strict)
  BY <1>1, <1>2, <1>4, <1>5, PieceGrows
<1>7. \A k \in 1..m : plan'[free + k - 1] = branches[k + 1].main
  BY <1>3, <1>4
<1>8. Piece(top, n, plan', strict) /\ RightsOf(top) = RightsOf(q) \cup UnionSpines
  <2>1. /\ free \in Nat \ {0} /\ m \in Nat /\ free + m <= NumSpines
        /\ Piece(q, free + m, plan', strict) /\ RightsOf(q) \subseteq 1..(free - 1)
        /\ UnionSpines = free..(free + m - 1)
    BY <1>1, <1>2, <1>3, <1>5, <1>6
  <2> HIDE DEF q
  <2>2. /\ Piece(q \o Unions(free, m), free + m, plan', strict)
        /\ RightsOf(q \o Unions(free, m)) = RightsOf(q) \cup free..(free + m - 1)
    BY <1>7, <2>1, UnionsOnTop
  <2> QED
    BY <2>1, <2>2
<1>9. root = top \o OptionOps(query.options)
  BY DEF m
<1> HIDE DEF top, n, q
<1>10. Flat(OptionOps(query.options)) /\ ReadsOf(OptionOps(query.options)) = {}
  BY <1>1, OptionsFlat DEF WellTyped
<1>11. Piece(root, n, plan', strict) /\ RightsOf(root) = RightsOf(q) \cup UnionSpines
  <2> DEFINE r == OptionOps(query.options)
  <2>1. Flat(r) /\ (strict => ReadsOf(r) \subseteq BoundVars(top))
    BY <1>10
  <2> HIDE DEF r
  <2>2. /\ Piece(top \o r, n, plan', strict)
        /\ RightsOf(top \o r) = RightsOf(top)
    BY <1>8, <2>1, PieceFlat
  <2> QED
    BY <1>8, <1>9, <2>2 DEF r
<1>12. Piece(root, Root, plan', strict)
  BY <1>2, <1>11, PieceGrows
<1>13. ASSUME NEW s \in Spines PROVE Piece(plan'[s], s, plan', strict)
  <2>0. s \in Nat /\ s > 0
    BY <1>2
  <2>1. CASE s = Root
    BY <1>4, <1>12, <2>1
  <2>2. CASE s \in UnionSpines
    <3>1. Piece(branches[s - free + 2].main, free, plan, strict)
      BY <1>1, <1>3, <2>2 DEF BuildInv
    <3>2. free <= s
      BY <1>1, <1>2, <1>3, <2>2
    <3>3. Piece(branches[s - free + 2].main, s, plan', strict)
      BY <1>1, <1>4, <2>0, <3>1, <3>2, PieceGrows
    <3> QED
      BY <1>4, <2>2, <3>3
  <2>3. CASE s < free
    <3>1. s \in 1..(free - 1) /\ s <= s
      BY <1>1, <2>0, <2>3
    <3>2. Piece(plan[s], s, plan, strict)
      BY <1>1, <2>3 DEF BuildInv
    <3>3. \A r \in 1..(s - 1) : plan'[r] = plan[r]
      <4>1. \A r \in 1..(s - 1) : r \in 1..(free - 1)
        BY <1>1, <2>0, <2>3
      <4> QED
        BY <1>4, <4>1
    <3>4. Piece(plan[s], s, plan', strict)
      BY <2>0, <3>1, <3>2, <3>3, PieceGrows
    <3> QED
      BY <1>4, <3>1, <3>4
  <2>4. CASE s # Root /\ s \notin UnionSpines /\ ~(s < free)
    BY <1>4, <2>4, PieceNothing
  <2> QED
    BY <2>1, <2>2, <2>3, <2>4
<1>14. \A r \in 1..(free' - 1) : \E s \in Spines : \A u \in Spines :
         r \in RightsOf(plan'[u]) <=> u = s
  BY <1>1, <1>11, CombinedUses DEF q
<1>b. ASSUME NEW s \in Spines, NEW i \in 1..Len(plan'[s]) PROVE plan'[s][i].right < free'
  <2>0. s \in Nat /\ s > 0 /\ free' = n /\ free <= n
    BY <1>2 DEF n, m
  <2>1. CASE s = Root
    <3>1. n \in Nat \ {0}
      BY <1>1, <1>2
    <3>2. Piece(plan'[s], n, plan', strict)
      BY <1>4, <1>11, <2>1
    <3> QED
      BY <2>0, <3>1, <3>2, RightsBelow
  <2>2. CASE s \in UnionSpines
    <3>1. Piece(branches[s - free + 2].main, free, plan, strict)
      BY <1>1, <1>3, <2>2 DEF BuildInv
    <3>2. plan'[s][i].right < free /\ plan'[s][i].right \in Nat
      BY <1>1, <1>4, <2>2, <3>1, RightsBelow
    <3> QED
      BY <1>1, <1>2, <2>0, <3>2
  <2>3. CASE s < free
    <3>1. Piece(plan[s], s, plan, strict) /\ s \in 1..(free - 1)
      BY <1>1, <2>0, <2>3 DEF BuildInv
    <3>2. plan'[s][i].right < s /\ plan'[s][i].right \in Nat
      BY <1>4, <2>0, <3>1, RightsBelow
    <3> QED
      BY <1>1, <1>2, <2>0, <2>3, <3>2
  <2>4. CASE s # Root /\ s \notin UnionSpines /\ ~(s < free)
    BY <1>4, <2>4
  <2> QED
    BY <2>1, <2>2, <2>3, <2>4
<1>15. Shaped' /\ (strict => WellScoped(plan'))
  BY <1>13, <1>14, <1>b, PiecesFit
<1>16. plan' \in [Spines -> Seq(Op)]
  <2>1. \A s \in Spines : plan'[s] \in Seq(Op)
    BY <1>13 DEF Piece
  <2>2. plan' = [s \in Spines |-> plan'[s]]
    BY DEF Combined
  <2> QED
    BY <2>1, <2>2
<1>17. free' \in Nat \ {0}
  BY <1>1, <1>2 DEF n, m
<1>18. /\ low'.path \in Seq(Op) /\ low'.combined \in Seq(Op)
       /\ \A i \in 1..Len(branches') : branches'[i].main \in Seq(Op)
  BY <1>1 DEF LowBuilt, BuildInv, Piece
<1>19. IsSequence(branches')
  BY <1>1
<1> QED
  BY <1>15, <1>16, <1>17, <1>18, <1>19 DEF FitInv, Results

LEMMA CombineBuilt ==
  ASSUME NEW strict, Here(strict), EnoughSpines', query \in Queries, Combine
  PROVE  FitInv(strict)'
<1>1. Busy /\ frames = <<>> /\ branches # <<>> /\ FitInv(strict) /\ BuildInv(strict)
  BY BusyBuilt DEF Combine, Here
<1>2. CASE ColumnError # "none"
  <2>1. ColumnError \in Results \ {"planned"}
    BY <1>2 DEF ColumnError, Results
  <2>2. UNCHANGED <<plan, free, frames, low, branches>> /\ result' = ColumnError
    BY <1>2 DEF Combine, Fail
  <2> QED
    BY <1>1, <2>1, <2>2, NothingBuilt
<1>3. CASE ColumnError = "none"
  <2> DEFINE root == branches[1].main \o Unions(free, Len(branches) - 1)
                       \o OptionOps(query.options)
  <2>1. /\ Combined(root) /\ free' = free + (Len(branches) - 1) /\ result' = "planned"
        /\ UNCHANGED <<frames, low, branches>>
    BY <1>3 DEF Combine, Combined, Unions, UnionSpines
  <2> QED
    BY <1>1, <2>1, CombineSucceeds
<1> QED
  BY <1>2, <1>3

-----------------------------------------------------------------------------
(* Every step.                                                             *)
LEMMA RestBuilt ==
  ASSUME NEW strict, FitInv(strict), UNCHANGED vars
  PROVE  FitInv(strict)'
<1>1. UNCHANGED <<query, plan, free, frames, low, branches, result>>
  BY DEF vars
<1>2. Used' = Used
  BY <1>1 DEF Used
<1>3. LowBuilt(strict) => LowBuilt(strict)'
  BY <1>1 DEF LowBuilt
<1>4. BuildInv(strict) => BuildInv(strict)'
  BY <1>1, <1>2, <1>3 DEF BuildInv
<1>5. Shaped => Shaped'
  BY <1>1 DEF Shaped
<1> QED
  BY <1>1, <1>4, <1>5 DEF FitInv

LEMMA StepBuilt ==
  ASSUME NEW strict, Here(strict), EnoughSpines', query \in Queries, [Next]_vars
  PROVE  FitInv(strict)'
<1>1. CASE Begin
  BY <1>1, BeginBuilt
<1>2. CASE Lower
  BY <1>2, BeginMatchBuilt, LowerLinkBuilt, PatternDoneBuilt, EndMatchBuilt DEF Lower
<1>3. CASE Where \/ LoadCsv \/ Unwind \/ Start \/ Update
  BY <1>3, SimpleBuilt
<1>4. CASE Call
  BY <1>4, CallBuilt
<1>5. CASE Write
  BY <1>5, WriteBuilt
<1>6. CASE SchemaCommand
  BY <1>6, SchemaBuilt
<1>7. CASE With
  BY <1>7, WithBuilt
<1>8. CASE Return \/ OrderBy \/ Skip \/ Limit
  BY <1>8, KeptBuilt
<1>9. CASE BeginForeach
  BY <1>9, ForeachBuilt
<1>10. CASE EndBody
  BY <1>10, EndBodyBuilt
<1>11. CASE EndBranch
  BY <1>11, EndBranchBuilt
<1>12. CASE Combine
  BY <1>12, CombineBuilt
<1>13. CASE Returned \/ UNCHANGED vars
  BY <1>13, RestBuilt DEF Returned, Here
<1> QED
  BY <1>1, <1>2, <1>3, <1>4, <1>5, <1>6, <1>7, <1>8, <1>9, <1>10, <1>11, <1>12, <1>13
     DEF Next, Work

LEMMA NothingBuiltYet ==
  ASSUME NEW strict, Init
  PROVE  FitInv(strict)
<1>1. /\ plan = [s \in Spines |-> <<>>] /\ free = 1 /\ frames = <<>> /\ branches = <<>>
      /\ result = "none"
      /\ low.path = <<>> /\ low.combined = <<>> /\ ~low.on
  BY DEF Init, Idle
<1>2. Len(frames) = 0 /\ Len(branches) = 0 /\ IsSequence(branches)
  BY <1>1, Nothing
<1>3. \A s \in Spines : ~(s < free) /\ plan[s] = <<>>
  BY <1>1, SpineAssumption DEF Spines
<1>4. OnceUsed(Used, free)
  <2>1. \A a \in Places : Used[a] = {}
    <3>1. \A i : i \notin 1..0
      OBVIOUS
    <3>2. RightsOf(low.combined) = {}
      BY <1>1, PieceNothing
    <3>3. free - 1 = 0
      BY <1>1
    <3> QED
      BY <1>2, <3>1, <3>2, <3>3 DEF Used
  <2>2. \A r : r \notin 1..(free - 1)
    BY <1>1
  <2> QED
    BY <2>1, <2>2 DEF OnceUsed
<1>5. LowBuilt(strict)
  BY <1>1, PieceNothing DEF LowBuilt
<1>6. \A i : i \notin 1..0 /\ i \notin 2..0
  OBVIOUS
<1>7. BuildInv(strict)
  BY <1>2, <1>3, <1>4, <1>5, <1>6 DEF BuildInv
<1>8. plan \in [Spines -> Seq(Op)] /\ free \in Nat \ {0}
  BY <1>1
<1> QED
  BY <1>1, <1>2, <1>7, <1>8 DEF FitInv, Results

(* What the steps keep true, and what is taken of the states they start in.*)
Planning(strict) == query \in Queries /\ VInv /\ FitInv(strict)

Granted(strict) == EnoughSpines /\ (strict => ReadsInScope)

LEMMA PlanningStep ==
  ASSUME Proper, WellTyped, NEW strict, strict => MatchesInScope, Planning(strict),
         Granted(strict), Granted(strict)', [Next]_vars
  PROVE  Planning(strict)'
<1>1. query \in Queries /\ VInv /\ FitInv(strict) /\ EnoughSpines /\ EnoughSpines'
  BY DEF Planning, Granted
<1>2. Here(strict)
  BY <1>1 DEF Here, Granted
<1>3. query' \in Queries
  BY <1>1, QueryStays DEF vars
<1>4. VInv'
  BY <1>1, EveryStep
<1>5. FitInv(strict)'
  BY <1>1, <1>2, StepBuilt
<1> QED
  BY <1>3, <1>4, <1>5 DEF Planning

LEMMA PlanningStarts ==
  ASSUME NEW strict, Init
  PROVE  Planning(strict)
<1>1. query \in Queries
  BY DEF Init
<1> QED
  BY <1>1, Beginning, NothingBuiltYet DEF Planning

-----------------------------------------------------------------------------
(* What holds of every plan.                                               *)
LEMMA NamesOfPatterns ==
  ASSUME Proper, NEW ps \in Seq(AnyPattern)
  PROVE  PatternNames(ps) \subseteq UserVars
<1>1. ASSUME NEW i \in 1..Len(ps) PROVE PatternBindings(ps[i]) \subseteq UserVars
  <2>1. /\ ps[i].path \in AnyVar /\ ps[i].anchor.var \in AnyVar
        /\ ps[i].chain \in Seq(AnyLink)
    BY DEF Proper, ProperPatterns
  <2>2. \A j \in 1..Len(ps[i].chain) : /\ ps[i].chain[j].rel.var \in AnyVar
                                       /\ ps[i].chain[j].node.var \in AnyVar
    BY <2>1 DEF Proper, ProperLinks
  <2> QED
    BY <2>1, <2>2 DEF PatternBindings, Named, AnyVar
<1> QED
  BY <1>1 DEF PatternNames, Patterns

LEMMA SlotTyped ==
  ASSUME NEW s, NEW kind, Slot(s, kind)
  PROVE  s \in Seq(Op) /\ Len(s) <= 1
<1>1. CASE s = <<>>
  BY <1>1
<1>2. CASE s # <<>>
  <2>1. PICK op \in Op : s = <<op>>
    BY <1>2 DEF Slot, None
  <2> QED
    BY <2>1
<1> QED
  BY <1>1, <1>2

LEMMA FramesTyped ==
  ASSUME Proper, VInv, NEW strict, BuildInv(strict), NEW i \in 1..Len(frames)
  PROVE  /\ frames[i].main \in Seq(Op) /\ frames[i].visible \subseteq UserVars
         /\ \A slot \in {"project", "sort", "skip", "limit"} :
              frames[i][slot] \in Seq(Op) /\ Len(frames[i][slot]) <= 1
<1>1. FrameBuilt(frames[i], free, plan, strict)
  BY DEF BuildInv
<1>2. frames[i].main \in Seq(Op)
  BY <1>1 DEF FrameBuilt, Piece
<1>3. \A slot \in {"project", "sort", "skip", "limit"} :
        frames[i][slot] \in Seq(Op) /\ Len(frames[i][slot]) <= 1
  BY <1>1, SlotTyped DEF FrameBuilt
<1>4. frames # <<>> /\ Top = frames[1] /\ (i = 1 \/ i \in 2..Len(frames))
  <2>1. frames # <<>>
    BY Nothing
  <2> QED
    BY <2>1, TopShape DEF VInv
<1>5. Fits(frames[i]) => frames[i].visible \subseteq UserVars
  BY DEF Fits
<1>6. CASE Fits(frames[i])
  BY <1>2, <1>3, <1>5, <1>6
<1>7. CASE ~Fits(frames[i])
  <2>1. i = 1 /\ low.on /\ Top.todo # <<>> /\ Clause.kind = "Match"
    BY <1>4, <1>7 DEF VInv, FramesInv, LowInv
  <2>2. Clause \in AnyClause
    BY <1>4, <2>1, ClauseShape DEF VInv
  <2>3. Clause.patterns \in Seq(AnyPattern)
    BY <2>1, <2>2 DEF Proper, ProperClauses
  <2>4. Top.visible \subseteq UserVars
    BY <2>1, <2>3, NamesOfPatterns DEF VInv, LowInv
  <2> QED
    BY <1>2, <1>3, <1>4, <2>1, <2>4
<1> QED
  BY <1>6, <1>7

LEMMA PlanningTyped ==
  ASSUME Proper, NEW strict, Planning(strict), EnoughSpines
  PROVE  TypeOK
<1>1. /\ VInv /\ FitInv(strict) /\ plan \in [Spines -> Seq(Op)] /\ result \in Results
      /\ free \in 1..(NumSpines + 1)
  BY SpineAssumption DEF Planning, FitInv, EnoughSpines
<1>2. low.path \in Seq(Op) /\ low.combined \in Seq(Op)
  BY <1>1 DEF FitInv, BuildInv, LowBuilt, Piece
<1>3. \A i \in 1..Len(branches) : branches[i].main \in Seq(Op)
  BY <1>1 DEF FitInv, BuildInv, Piece
<1>4. \A i \in 1..Len(frames) :
        /\ frames[i].main \in Seq(Op) /\ frames[i].visible \subseteq UserVars
        /\ \A slot \in {"project", "sort", "skip", "limit"} :
             frames[i][slot] \in Seq(Op) /\ Len(frames[i][slot]) <= 1
  <2>1. CASE result = "planned"
    <3>1. Len(frames) = 0
      BY <1>1, <2>1, Nothing DEF FitInv
    <3>2. \A i : i \notin 1..0
      OBVIOUS
    <3> QED
      BY <3>1, <3>2
  <2>2. CASE result # "planned"
    BY <1>1, <2>2, FramesTyped DEF FitInv
  <2> QED
    BY <2>1, <2>2
<1>5. Building \subseteq Seq(Op)
  BY <1>2, <1>3, <1>4 DEF Building
<1>6. low.on => frames # <<>> /\ Top.todo # <<>> /\ Clause.kind = "Match"
  BY <1>1 DEF VInv, LowInv
<1> QED
  BY <1>1, <1>4, <1>5, <1>6 DEF TypeOK, Results

(* Whatever the query, planning only ever builds sequences of operators,   *)
(* keeps at most one RETURN, ORDER BY, SKIP and LIMIT aside, and lowers a  *)
(* MATCH only while a MATCH is the next clause.                            *)
THEOREM PlannerTyped ==
  ASSUME Proper, WellTyped
  PROVE  Spec /\ []EnoughSpines => []TypeOK
<1> DEFINE I == Planning(FALSE)
           G == Granted(FALSE)
<1>1. Init => I
  BY PlanningStarts
<1>2. I /\ G /\ G' /\ [Next]_vars => I'
  BY PlanningStep
<1>3. I /\ EnoughSpines => TypeOK
  BY PlanningTyped
<1>4. EnoughSpines => G
  BY DEF Granted
<1> QED
  BY <1>1, <1>2, <1>3, <1>4, PTL DEF Spec

(* Every plan that is returned is a plan: second inputs come before what   *)
(* uses them and are used once, each in one place; an operator with two    *)
(* inputs adds the scope of the second; leaves are at the bottom.  This    *)
(* takes nothing of the query but its grammar.                             *)
THEOREM PlansAreShaped ==
  ASSUME Proper, WellTyped
  PROVE  Spec /\ []EnoughSpines => [](result = "planned" => Shaped)
<1> DEFINE I == Planning(FALSE)
           G == Granted(FALSE)
<1>1. Init => I
  BY PlanningStarts
<1>2. I /\ G /\ G' /\ [Next]_vars => I'
  BY PlanningStep
<1>3. I => (result = "planned" => Shaped)
  BY DEF Planning, FitInv
<1>4. EnoughSpines => G
  BY DEF Granted
<1> QED
  BY <1>1, <1>2, <1>3, <1>4, PTL DEF Spec

(* The plan of a query whose clauses read names that are visible where     *)
(* they stand, and whose patterns read what the pattern itself has bound,  *)
(* fits what optimize takes for granted: it is a plan, and no operator     *)
(* reads a variable that is not bound below it.                            *)
THEOREM PlansFitOptimize ==
  ASSUME Proper, WellTyped, MatchesInScope
  PROVE  Spec /\ []EnoughSpines /\ []ReadsInScope => []FitForOptimize
<1> DEFINE I == Planning(TRUE)
           G == Granted(TRUE)
<1>1. Init => I
  BY PlanningStarts
<1>2. I /\ G /\ G' /\ [Next]_vars => I'
  BY PlanningStep
<1>3. I => FitForOptimize
  BY DEF Planning, FitInv, Shaped, FitForOptimize
<1>4. EnoughSpines /\ ReadsInScope => G
  BY DEF Granted
<1> QED
  BY <1>1, <1>2, <1>3, <1>4, PTL DEF Spec

-----------------------------------------------------------------------------
(* The columns of a UNION branch are counted when its RETURN is met.  What *)
(* is taken of the query: every column has a name and no two the same,     *)
(* a star comes with no name twice, and what follows the RETURN of a       *)
(* branch are ORDER BY, SKIP and LIMIT (cypher.pest; clause placement).    *)
ColumnsHaveNames ==
  Len(frames) = 1 /\ At({"Return"}) =>
    /\ \A i \in 1..Len(Clause.items) :
         /\ ItemName(Clause.items[i]) # NoVar
         /\ \A j \in 1..Len(Clause.items) :
              ItemName(Clause.items[i]) = ItemName(Clause.items[j]) => i = j
    /\ Clause.star => ItemNames(Clause.items) \cap Top.visible = {}

Modifiers == {"OrderBy", "Skip", "Limit"}

ReturnIsLast ==
  Busy /\ Len(frames) = 1 /\ ~low.on /\ Top.columns # None =>
    Top.todo = <<>> \/ Clause.kind \in Modifiers \cup {"Union"}

(* The columns kept for the end of a branch are those of its projection    *)
(* and, with the star, what is visible where the projection will go.       *)
CountsColumns(f) ==
  f.columns # None =>
    /\ f.project # None /\ f.project[1].intro \subseteq UserVars
    /\ f.project[1].keep => f.project[1].intro \cap f.visible = {}
    /\ f.columns = Some(Cardinality(f.project[1].intro)
                         + IF f.project[1].keep THEN Cardinality(f.visible) ELSE 0)

(* The branch is the outermost call: the last frame.                       *)
ColumnsInv ==
  /\ frames # <<>> => CountsColumns(frames[Len(frames)])
  /\ IsSequence(branches)
  /\ \A i \in 1..Len(branches) :
       branches[i].columns # None => branches[i].columns = Some(Outputs(branches[i].main))

(* n names, no two the same, are n.                                        *)
LEMMA CountOfNames ==
  ASSUME NEW n \in Nat, NEW S, NEW F \in [1..n -> S],
         \A i, j \in 1..n : F[i] = F[j] => i = j,
         \A t \in S : \E i \in 1..n : F[i] = t
  PROVE  Cardinality(S) = n
<1> DEFINE T == 1..n
<1>1. F \in [T -> S] /\ \A i, j \in T : F[i] = F[j] => i = j
  OBVIOUS
<1>2. \A t \in S : \E i \in T : F[i] = t
  OBVIOUS
<1>3. IsFiniteSet(T) /\ Cardinality(T) = n
  BY FS_Interval
<1> HIDE DEF T
<1>4. F \in Bijection(T, S)
  BY <1>1, <1>2, Fun_IsBij
<1>5. ExistsBijection(T, S)
  BY <1>4, Fun_ExistsBij
<1> QED
  BY <1>3, <1>5, FS_Bijection

LEMMA CountOfItems ==
  ASSUME Proper, NEW items \in Seq(AnyItem),
         \A i \in 1..Len(items) :
           /\ ItemName(items[i]) # NoVar
           /\ \A j \in 1..Len(items) : ItemName(items[i]) = ItemName(items[j]) => i = j
  PROVE  /\ Cardinality(ItemNames(items)) = Len(items)
         /\ ItemNames(items) \subseteq UserVars
<1> DEFINE S == ItemNames(items)
           F == [i \in 1..Len(items) |-> ItemName(items[i])]
<1>1. S = {ItemName(items[i]) : i \in 1..Len(items)}
  BY DEF ItemNames, Named
<1>2. F \in [1..Len(items) -> S] /\ \A t \in S : \E i \in 1..Len(items) : F[i] = t
  BY <1>1
<1>3. \A i, j \in 1..Len(items) : F[i] = F[j] => i = j
  OBVIOUS
<1>4. S \subseteq UserVars
  BY <1>1 DEF Proper, ProperItems, ItemName, AnyVar
<1>5. Len(items) \in Nat
  OBVIOUS
<1> HIDE DEF F, S
<1>6. Cardinality(S) = Len(items)
  BY <1>2, <1>3, <1>5, CountOfNames
<1> QED
  BY <1>4, <1>6 DEF S

(* What goes on top of the projection binds nothing, so the columns are    *)
(* those counted.                                                          *)
LEMMA ScopeOfStacked ==
  ASSUME NEW strict, NEW f, FrameBuilt(f, free, plan, strict), f.project # None
  PROVE  BoundVars(Stacked(f)) =
           (f.project[1].intro \cap Vars)
             \cup (IF f.project[1].keep THEN BoundVars(f.main) ELSE {})
<1> DEFINE once == IF f.project # None THEN Deduplicate(f.distinct) ELSE <<>>
           base == f.main \o f.project
<1>1. /\ IsSequence(f.main)
      /\ Slot(f.project, "Project") /\ Slot(f.sort, "Sort")
      /\ Slot(f.skip, "Skip") /\ Slot(f.limit, "Limit")
  BY DEF FrameBuilt, Piece, IsSequence
<1>2. PICK op \in Op : f.project = <<op>> /\ Passive(op) /\ op.kind = "Project"
  BY <1>1 DEF Slot
<1>3. base = Append(f.main, op) /\ f.project[1] = op
  <2>1. f.main \in Seq(Op)
    BY DEF FrameBuilt, Piece
  <2> QED
    BY <1>2, <2>1
<1>4. HidesInput(op) <=> ~op.keep
  BY <1>2 DEF HidesInput
<1>5. BoundVars(base) = (op.intro \cap Vars) \cup (IF op.keep THEN BoundVars(f.main) ELSE {})
      /\ IsSequence(base)
  BY <1>1, <1>3, <1>4, BoundAppended, Appended
<1>6. ASSUME NEW kind \in {"Sort", "Skip", "Limit"}, NEW r, Slot(r, kind)
      PROVE  Straight(r) /\ Intros(r) = {}
  <2>1. CASE r = None
    BY <2>1, NothingBound DEF None
  <2>2. CASE r # None
    <3>1. PICK o \in Op : r = <<o>> /\ Passive(o) /\ o.kind = kind
      BY <1>6, <2>2 DEF Slot
    <3>2. o.intro = {} /\ ~HidesInput(o)
      BY <1>6, <3>1 DEF Passive, WellFormedOp, BindingKinds, HidesInput
    <3> QED
      BY <3>1, <3>2, OneStraight
  <2> QED
    BY <2>1, <2>2
<1>7. Straight(once) /\ Intros(once) = {}
  <2>1. Node("Distinct", {}, {}).intro = {} /\ ~HidesInput(Node("Distinct", {}, {}))
    BY DEF Node, HidesInput
  <2>2. Straight(<<Node("Distinct", {}, {})>>) /\ Intros(<<Node("Distinct", {}, {})>>) = {}
    BY <2>1, OneStraight
  <2> QED
    BY <2>2, NothingBound DEF Deduplicate
<1>8. ASSUME NEW q, IsSequence(q), NEW r, Straight(r), Intros(r) = {}
      PROVE  IsSequence(q \o r) /\ BoundVars(q \o r) = BoundVars(q)
  <2>1. IsSequence(r)
    BY <1>8 DEF Straight
  <2>2. BoundVars(q \o r) = BoundVars(q) \cup Intros(r)
    BY <1>8, BoundJoined
  <2>3. IsSequence(q \o r)
    BY <1>8, <2>1, Concatenated
  <2> QED
    BY <1>8, <2>2, <2>3
<1>9. Stacked(f) = base \o once \o f.sort \o f.skip \o f.limit
  BY DEF Stacked
<1>10. /\ Straight(f.sort) /\ Intros(f.sort) = {}
       /\ Straight(f.skip) /\ Intros(f.skip) = {}
       /\ Straight(f.limit) /\ Intros(f.limit) = {}
  BY <1>1, <1>6
<1> HIDE DEF base, once
<1>11. IsSequence(base \o once) /\ BoundVars(base \o once) = BoundVars(base)
  BY <1>5, <1>7, <1>8
<1>12. /\ IsSequence(base \o once \o f.sort)
       /\ BoundVars(base \o once \o f.sort) = BoundVars(base)
  BY <1>8, <1>10, <1>11
<1>13. /\ IsSequence(base \o once \o f.sort \o f.skip)
       /\ BoundVars(base \o once \o f.sort \o f.skip) = BoundVars(base)
  BY <1>8, <1>10, <1>12
<1>14. BoundVars(base \o once \o f.sort \o f.skip \o f.limit) = BoundVars(base)
  BY <1>8, <1>10, <1>13
<1> QED
  BY <1>3, <1>5, <1>9, <1>14

(* A branch that ends has the columns that were counted.                   *)
LEMMA CountedColumns ==
  ASSUME Proper, IsFiniteSet(UserVars), NEW strict, NEW f, FrameBuilt(f, free, plan, strict),
         Fits(f), CountsColumns(f), f.columns # None
  PROVE  f.columns = Some(Outputs(Stacked(f)))
<1> DEFINE op == f.project[1]
           B == BoundVars(Stacked(f))
<1>1. /\ f.project # None /\ op.intro \subseteq UserVars
      /\ op.keep => op.intro \cap f.visible = {}
      /\ f.columns = Some(Cardinality(op.intro) + IF op.keep THEN Cardinality(f.visible) ELSE 0)
  BY DEF CountsColumns
<1>2. B = (op.intro \cap Vars) \cup (IF op.keep THEN BoundVars(f.main) ELSE {})
  BY <1>1, ScopeOfStacked
<1>3. UserVars \subseteq Vars /\ f.visible = BoundVars(f.main) \cap UserVars
  BY DEF Proper, ProperNames, Fits
<1> HIDE DEF op, B
<1>4. B \cap UserVars = op.intro \cup (IF op.keep THEN f.visible ELSE {})
  BY <1>1, <1>2, <1>3
<1>5. IsFiniteSet(op.intro) /\ IsFiniteSet(f.visible)
  BY <1>1, <1>3, FS_Subset
<1>6. /\ Cardinality(op.intro) \in Nat /\ Cardinality(f.visible) \in Nat
      /\ Cardinality({}) = 0
  BY <1>5, FS_CardinalityType, FS_EmptySet
<1>7. CASE op.keep
  <2>1. Cardinality(op.intro \cup f.visible) = Cardinality(op.intro) + Cardinality(f.visible)
    <3>1. op.intro \cap f.visible = {}
      BY <1>1, <1>7
    <3>2. Cardinality(op.intro \cup f.visible) =
            Cardinality(op.intro) + Cardinality(f.visible) - Cardinality(op.intro \cap f.visible)
      BY <1>5, FS_Union
    <3>3. Cardinality(op.intro \cap f.visible) = 0
      BY <1>6, <3>1, Zenon
    <3> QED
      BY ONLY <1>6, <3>2, <3>3
  <2>2. Outputs(Stacked(f)) = Cardinality(op.intro) + Cardinality(f.visible)
    <3>1. B \cap UserVars = op.intro \cup f.visible
      BY <1>4, <1>7
    <3> QED
      BY <2>1, <3>1 DEF Outputs, B
  <2>3. f.columns = Some(Cardinality(op.intro) + Cardinality(f.visible))
    BY <1>1, <1>7, Zenon
  <2> QED
    BY <2>2, <2>3
<1>8. CASE ~op.keep
  <2>1. Cardinality(B \cap UserVars) = Cardinality(op.intro) + 0
    <3>1. B \cap UserVars = op.intro
      BY <1>4, <1>8
    <3> QED
      BY <1>6, <3>1
  <2>2. Outputs(Stacked(f)) = Cardinality(op.intro) + 0
    BY <2>1 DEF Outputs, B, op
  <2>3. f.columns = Some(Cardinality(op.intro) + 0)
    BY <1>1, <1>8, Zenon
  <2> QED
    BY <2>2, <2>3
<1> QED
  BY <1>7, <1>8

-----------------------------------------------------------------------------
(* How a step keeps the count of the outermost call.                       *)
LEMMA CountsStay ==
  ASSUME NEW f, NEW g, CountsColumns(f),
         g.columns = f.columns, g.project = f.project, g.visible = f.visible
  PROVE  CountsColumns(g)
BY DEF CountsColumns

LEMMA TopReplaced ==
  ASSUME VInv, ColumnsInv, frames # <<>>, NEW g, frames' = <<g>> \o Tail(frames),
         Len(frames) = 1 => CountsColumns(g), UNCHANGED branches
  PROVE  ColumnsInv'
<1>1. /\ Len(frames') = Len(frames) /\ frames'[1] = g
      /\ \A i \in 2..Len(frames) : frames'[i] = frames[i]
  BY Replaced DEF VInv
<1>2. Len(frames) \in Nat /\ Len(frames) # 0
  BY TopShape, TailFacts DEF VInv, FramesInv
<1>3. CountsColumns(frames'[Len(frames')])
  <2>1. CASE Len(frames) = 1
    BY <1>1, <2>1
  <2>2. CASE Len(frames) # 1
    <3>1. Len(frames) \in 2..Len(frames)
      BY <1>2, <2>2
    <3> QED
      BY <1>1, <3>1 DEF ColumnsInv
  <2> QED
    BY <2>1, <2>2
<1> QED
  BY <1>3 DEF ColumnsInv

LEMMA Proceeded ==
  ASSUME VInv, ColumnsInv, frames # <<>>, NEW f, Proceed(f), DOMAIN f = FrameFields,
         Len(frames) = 1 => CountsColumns(f), UNCHANGED branches
  PROVE  ColumnsInv'
<1> DEFINE g == [f EXCEPT !.todo = Tail(@)]
<1>1. g.columns = f.columns /\ g.project = f.project /\ g.visible = f.visible
  BY DEF FrameFields
<1>2. frames' = <<g>> \o Tail(frames)
  BY DEF Proceed
<1> HIDE DEF g
<1>3. Len(frames) = 1 => CountsColumns(g)
  BY <1>1, CountsStay
<1> QED
  BY <1>2, <1>3, TopReplaced

(* Before the RETURN nothing is counted.                                   *)
LEMMA NotCountedYet ==
  ASSUME ReturnIsLast, NEW kinds, At(kinds),
         \A kind \in kinds : kind \notin Modifiers \cup {"Union"},
         NEW f, f.columns = Top.columns
  PROVE  Len(frames) = 1 => CountsColumns(f)
BY AtShape DEF ReturnIsLast, At, CountsColumns

LEMMA Before ==
  ASSUME VInv, ColumnsInv, ReturnIsLast, NEW kinds, At(kinds),
         \A kind \in kinds : kind \notin Modifiers \cup {"Union"},
         NEW f, Proceed(f), DOMAIN f = FrameFields, f.columns = Top.columns,
         UNCHANGED branches
  PROVE  ColumnsInv'
<1>1. frames # <<>>
  BY AtShape
<1>2. Len(frames) = 1 => CountsColumns(f)
  BY NotCountedYet
<1> QED
  BY <1>1, <1>2, Proceeded

LEMMA FrameOfTop ==
  ASSUME VInv, NEW kinds, At(kinds)
  PROVE  /\ frames # <<>> /\ DOMAIN Top = FrameFields
         /\ Len(frames) = 1 /\ ColumnsInv => CountsColumns(Top)
<1>1. frames # <<>> /\ DOMAIN Top = FrameFields /\ Top = frames[1]
  BY AtShape, TopShape DEF VInv, FrameShape
<1> QED
  BY <1>1 DEF ColumnsInv

LEMMA EmitCounted ==
  ASSUME VInv, ColumnsInv, ReturnIsLast,
         Where \/ Call \/ LoadCsv \/ Unwind \/ Start \/ Write \/ Update
  PROVE  ColumnsInv'
<1>1. ASSUME NEW kinds, At(kinds), \A kind \in kinds : kind \notin Modifiers \cup {"Union"},
             NEW ops, NEW names, Emit(ops, names)
      PROVE  ColumnsInv'
  <2> DEFINE f == [Top EXCEPT !.main = @ \o ops, !.visible = @ \cup names]
  <2>1. DOMAIN Top = FrameFields
    BY <1>1, FrameOfTop
  <2>2. f.columns = Top.columns /\ DOMAIN f = FrameFields
    BY <2>1 DEF FrameFields
  <2>3. Proceed(f) /\ UNCHANGED branches
    BY <1>1 DEF Emit
  <2> HIDE DEF f
  <2> QED
    BY <1>1, <2>2, <2>3, Before
<1>2. CASE Where
  BY <1>1, <1>2 DEF Where, Modifiers
<1>3. CASE Call
  <2>1. At({"Call"}) /\ \E ops, names : Emit(ops, names)
    BY <1>3 DEF Call
  <2> QED
    BY <1>1, <2>1 DEF Modifiers
<1>4. CASE LoadCsv \/ Unwind \/ Start
  BY <1>1, <1>4 DEF LoadCsv, Unwind, Start, Modifiers
<1>5. CASE Write
  <2>1. At({"Create", "Merge"}) /\ \E ops, names : Emit(ops, names)
    BY <1>5 DEF Write
  <2> QED
    BY <1>1, <2>1 DEF Modifiers
<1>6. CASE Update
  BY <1>1, <1>6 DEF Update, Modifiers
<1> QED
  BY <1>2, <1>3, <1>4, <1>5, <1>6

LEMMA OthersCounted ==
  ASSUME VInv, ColumnsInv, ReturnIsLast, With \/ SchemaCommand
  PROVE  ColumnsInv'
<1>1. CASE With
  <2> DEFINE f == [Top EXCEPT
        !.main = @ \o <<ProjectItems(Clause.star, Clause.items)>>
                   \o Deduplicate(Clause.distinct),
        !.visible = (IF Clause.star THEN @ ELSE {}) \cup ItemNames(Clause.items)]
  <2>1. At({"With"}) /\ Proceed(f) /\ UNCHANGED branches
    BY <1>1 DEF With
  <2>2. DOMAIN Top = FrameFields
    BY <2>1, FrameOfTop
  <2>3. f.columns = Top.columns /\ DOMAIN f = FrameFields
    BY <2>2 DEF FrameFields
  <2> HIDE DEF f
  <2> QED
    BY <2>1, <2>3, Before DEF Modifiers
<1>2. CASE SchemaCommand
  <2> DEFINE f == [Top EXCEPT !.main = <<Node("SchemaCommand", {}, {})>>]
  <2>1. At({"SchemaCommand"}) /\ Proceed(f) /\ UNCHANGED branches
    BY <1>2 DEF SchemaCommand
  <2>2. DOMAIN Top = FrameFields
    BY <2>1, FrameOfTop
  <2>3. f.columns = Top.columns /\ DOMAIN f = FrameFields
    BY <2>2 DEF FrameFields
  <2> HIDE DEF f
  <2> QED
    BY <2>1, <2>3, Before DEF Modifiers
<1> QED
  BY <1>1, <1>2

LEMMA ModifiersCounted ==
  ASSUME VInv, ColumnsInv, OrderBy \/ Skip \/ Limit
  PROVE  ColumnsInv'
<1>1. PICK kinds, f : /\ At(kinds) /\ Proceed(f) /\ UNCHANGED branches
                      /\ DOMAIN f = DOMAIN Top
                      /\ DOMAIN Top = FrameFields =>
                           /\ f.columns = Top.columns /\ f.project = Top.project
                           /\ f.visible = Top.visible
  <2>1. CASE OrderBy
    <3> DEFINE g == [Top EXCEPT !.sort = Some(Node("Sort", Clause.reads, {}))]
    <3>1. At({"OrderBy"}) /\ Proceed(g) /\ UNCHANGED branches
      BY <2>1 DEF OrderBy
    <3>2. /\ DOMAIN g = DOMAIN Top
          /\ DOMAIN Top = FrameFields =>
               /\ g.columns = Top.columns /\ g.project = Top.project
               /\ g.visible = Top.visible
      BY DEF FrameFields
    <3> HIDE DEF g
    <3> QED
      BY <3>1, <3>2
  <2>2. CASE Skip
    <3> DEFINE g == [Top EXCEPT !.skip = Some(Node("Skip", Clause.reads, {}))]
    <3>1. At({"Skip"}) /\ Proceed(g) /\ UNCHANGED branches
      BY <2>2 DEF Skip
    <3>2. /\ DOMAIN g = DOMAIN Top
          /\ DOMAIN Top = FrameFields =>
               /\ g.columns = Top.columns /\ g.project = Top.project
               /\ g.visible = Top.visible
      BY DEF FrameFields
    <3> HIDE DEF g
    <3> QED
      BY <3>1, <3>2
  <2>3. CASE Limit
    <3> DEFINE g == [Top EXCEPT !.limit = Some(Node("Limit", Clause.reads, {}))]
    <3>1. At({"Limit"}) /\ Proceed(g) /\ UNCHANGED branches
      BY <2>3 DEF Limit
    <3>2. /\ DOMAIN g = DOMAIN Top
          /\ DOMAIN Top = FrameFields =>
               /\ g.columns = Top.columns /\ g.project = Top.project
               /\ g.visible = Top.visible
      BY DEF FrameFields
    <3> HIDE DEF g
    <3> QED
      BY <3>1, <3>2
  <2> QED
    BY <2>1, <2>2, <2>3
<1>2. /\ frames # <<>> /\ DOMAIN Top = FrameFields
      /\ Len(frames) = 1 => CountsColumns(Top)
  BY <1>1, FrameOfTop
<1>3. Len(frames) = 1 => CountsColumns(f)
  BY <1>1, <1>2, CountsStay
<1> QED
  BY <1>1, <1>2, <1>3, Proceeded

(* RETURN counts its columns.                                              *)
LEMMA ReturnCounted ==
  ASSUME Proper, WellTyped, VInv, ColumnsInv, ColumnsHaveNames, Return
  PROVE  ColumnsInv'
<1> DEFINE items == Clause.items
           op == ProjectItems(Clause.star, items)
           count == Len(items) + IF Clause.star THEN Cardinality(Top.visible) ELSE 0
           f == [Top EXCEPT !.project = Some(op), !.distinct = Clause.distinct,
                            !.columns = Some(count)]
<1>1. At({"Return"}) /\ Proceed(f) /\ UNCHANGED branches
  BY DEF Return
<1>2. frames # <<>> /\ DOMAIN Top = FrameFields
  BY <1>1, FrameOfTop
<1>3. items \in Seq(AnyItem) /\ Clause.star \in BOOLEAN
  BY <1>1, AtShape, ClauseShape DEF VInv, WellTyped, TypedClauses
<1>4. op.keep = Clause.star /\ op.intro = ItemNames(items) /\ ItemNames(items) \subseteq UserVars
  BY <1>3, ProjectionTyped
<1> HIDE DEF op
<1>5. /\ DOMAIN f = FrameFields /\ f.project = Some(op) /\ f.columns = Some(count)
      /\ f.visible = Top.visible
  BY <1>2 DEF FrameFields
<1>6. f.project[1] = op /\ f.project # None
  <2>1. Some(op)[1] = op /\ Len(Some(op)) = 1
    BY One DEF Some
  <2>2. Len(None) = 0
    BY Nothing DEF None
  <2> QED
    BY <1>5, <2>1, <2>2
<1>7. Len(frames) = 1 => CountsColumns(f)
  <2> SUFFICES ASSUME Len(frames) = 1 PROVE CountsColumns(f)
    OBVIOUS
  <2>1. /\ \A i \in 1..Len(items) :
             /\ ItemName(items[i]) # NoVar
             /\ \A j \in 1..Len(items) : ItemName(items[i]) = ItemName(items[j]) => i = j
        /\ Clause.star => ItemNames(items) \cap Top.visible = {}
    BY <1>1 DEF ColumnsHaveNames
  <2>2. Cardinality(ItemNames(items)) = Len(items)
    BY <1>3, <2>1, CountOfItems
  <2>3. count = Cardinality(op.intro) + IF op.keep THEN Cardinality(f.visible) ELSE 0
    BY <1>4, <1>5, <2>2
  <2> HIDE DEF f, count
  <2>4. /\ op.intro \subseteq UserVars
        /\ op.keep => op.intro \cap f.visible = {}
    BY <1>4, <1>5, <2>1
  <2> QED
    BY <1>5, <1>6, <2>3, <2>4 DEF CountsColumns
<1> HIDE DEF f
<1> QED
  BY <1>1, <1>2, <1>5, <1>7, Proceeded

(* A MATCH.                                                                *)
LEMMA MatchCounted ==
  ASSUME VInv, ColumnsInv, ReturnIsLast, BeginMatch \/ EndMatch
  PROVE  ColumnsInv'
<1>1. CASE UNCHANGED <<frames, branches>>
  BY <1>1 DEF ColumnsInv
<1>2. CASE BeginMatch /\ ~UNCHANGED frames
  <2> DEFINE f == [Top EXCEPT !.visible = @ \cup Patterns(Clause.patterns, PatternBindings)]
  <2>1. At({"Match"}) /\ frames' = <<f>> \o Tail(frames) /\ UNCHANGED branches
    BY <1>2 DEF BeginMatch, Fail
  <2>2. frames # <<>> /\ DOMAIN Top = FrameFields
    BY <2>1, FrameOfTop
  <2>3. f.columns = Top.columns
    BY <2>2 DEF FrameFields
  <2> HIDE DEF f
  <2>4. Len(frames) = 1 => CountsColumns(f)
    BY <2>1, <2>3, NotCountedYet DEF Modifiers
  <2> QED
    BY <2>1, <2>2, <2>4, TopReplaced
<1>3. CASE EndMatch /\ ~UNCHANGED frames
  <2>1. PICK main : Proceed([Top EXCEPT !.main = main]) /\ UNCHANGED branches /\ low.on
    BY <1>3 DEF EndMatch, Fail
  <2> DEFINE f == [Top EXCEPT !.main = main]
  <2>2. frames # <<>>
    BY <2>1 DEF VInv, LowInv
  <2>3. DOMAIN Top = FrameFields /\ Top = frames[1]
    BY <2>2, TopShape DEF VInv, FrameShape
  <2>4. /\ f.columns = Top.columns /\ f.project = Top.project /\ f.visible = Top.visible
        /\ DOMAIN f = FrameFields
    BY <2>3 DEF FrameFields
  <2> HIDE DEF f
  <2>5. Len(frames) = 1 => CountsColumns(f)
    BY <2>2, <2>3, <2>4, CountsStay DEF ColumnsInv
  <2> QED
    BY <2>1, <2>2, <2>4, <2>5, Proceeded DEF f
<1> QED
  <2>1. UNCHANGED frames => UNCHANGED branches
    BY DEF BeginMatch, EndMatch, Fail
  <2> QED
    BY <1>1, <1>2, <1>3, <2>1

(* The calls of plan_branch: for a branch, and for the body of a FOREACH.  *)
LEMMA BeginCounted ==
  ASSUME ColumnsInv, Begin
  PROVE  ColumnsInv'
<1>1. CASE UNCHANGED <<frames, branches>>
  BY <1>1 DEF ColumnsInv
<1>2. CASE frames' = <<Frame(query.clauses)>> /\ branches' = branches
  <2>1. Len(frames') = 1 /\ frames'[1] = Frame(query.clauses)
    BY <1>2, One
  <2>2. CountsColumns(Frame(query.clauses))
    BY DEF CountsColumns, Frame
  <2>3. CountsColumns(frames'[Len(frames')])
    BY <2>1, <2>2
  <2> QED
    BY <1>2, <2>3 DEF ColumnsInv
<1> QED
  BY <1>1, <1>2 DEF Begin, Fail

LEMMA EndBranchCounted ==
  ASSUME Proper, IsFiniteSet(UserVars), NEW strict, FitInv(strict), VInv, ColumnsInv, EndBranch
  PROVE  ColumnsInv'
<1> DEFINE done == [main |-> Stacked(Top), columns |-> Top.columns]
<1>1. /\ Busy /\ Len(frames) = 1 /\ ~low.on /\ branches' = Append(branches, done)
      /\ frames' = IF Top.todo = <<>> THEN <<>> ELSE <<Frame(Tail(Top.todo))>>
  BY DEF EndBranch
<1>2. frames # <<>>
  <2>1. Len(frames) # Len(<<>>)
    BY <1>1, Nothing
  <2> QED
    BY <2>1
<1>3. Top = frames[1] /\ 1 \in 1..Len(frames) /\ Fits(Top)
  BY <1>1, <1>2, TopShape DEF VInv, FramesInv
<1>4. FrameBuilt(Top, free, plan, strict)
  BY <1>1, <1>3, BusyBuilt DEF BuildInv
<1>5. CountsColumns(Top)
  BY <1>1, <1>2, <1>3 DEF ColumnsInv
<1>6. Top.columns # None => Top.columns = Some(Outputs(Stacked(Top)))
  BY <1>3, <1>4, <1>5, CountedColumns
<1>7. /\ IsSequence(branches') /\ Len(branches') = Len(branches) + 1 /\ Len(branches) \in Nat
      /\ \A i \in 1..Len(branches) : branches'[i] = branches[i]
      /\ branches'[Len(branches) + 1] = done
  BY <1>1, Appended, SequenceFacts DEF ColumnsInv
<1>8. \A i \in 1..Len(branches') : i \in 1..Len(branches) \/ i = Len(branches) + 1
  BY <1>7
<1>9. done.columns # None => done.columns = Some(Outputs(done.main))
  BY <1>6
<1> HIDE DEF done
<1>10. \A i \in 1..Len(branches') :
         branches'[i].columns # None => branches'[i].columns = Some(Outputs(branches'[i].main))
  BY <1>7, <1>8, <1>9 DEF ColumnsInv
<1>11. frames' # <<>> => CountsColumns(frames'[Len(frames')])
  <2> SUFFICES ASSUME frames' # <<>> PROVE CountsColumns(frames'[Len(frames')])
    OBVIOUS
  <2>1. Len(frames') = 1 /\ frames'[1] = Frame(Tail(Top.todo))
    BY <1>1, One
  <2>2. CountsColumns(Frame(Tail(Top.todo)))
    BY DEF CountsColumns, Frame
  <2> QED
    BY <2>1, <2>2
<1> QED
  BY <1>7, <1>10, <1>11 DEF ColumnsInv

LEMMA ForeachCounted ==
  ASSUME VInv, ColumnsInv, BeginForeach
  PROVE  ColumnsInv'
<1> DEFINE f == Frame(Clause.body)
<1>1. frames # <<>> /\ frames' = <<f>> \o frames /\ UNCHANGED branches
  BY AtShape DEF BeginForeach
<1>2. IsSequence(frames) /\ IsSequence(<<f>>) /\ Len(<<f>>) = 1 /\ Len(frames) \in Nat
  BY One, SequenceFacts DEF VInv, FramesInv
<1> HIDE DEF f
<1>3. /\ Len(frames') = 1 + Len(frames)
      /\ \A i \in 1..Len(frames) : frames'[1 + i] = frames[i]
  BY <1>1, <1>2, Concatenated
<1>4. Len(frames) \in 1..Len(frames)
  BY <1>1, TopShape DEF VInv
<1>5. frames'[Len(frames')] = frames[Len(frames)]
  BY <1>3, <1>4
<1> QED
  BY <1>1, <1>5 DEF ColumnsInv

LEMMA EndBodyCounted ==
  ASSUME VInv, ColumnsInv, EndBody
  PROVE  ColumnsInv'
<1> DEFINE n == Len(frames)
           outer == frames[2]
           rest == Tail(Tail(frames))
<1>1. PICK op : /\ n > 1 /\ UNCHANGED branches
                /\ frames' = <<[outer EXCEPT !.main = Append(@, op), !.todo = Tail(@)]>> \o rest
  BY DEF EndBody
<1> DEFINE g == [outer EXCEPT !.main = Append(@, op), !.todo = Tail(@)]
<1>2. n \in Nat /\ IsSequence(frames) /\ frames # <<>>
  BY <1>1, SequenceFacts, Nothing DEF VInv, FramesInv
<1>3. DOMAIN outer = FrameFields
  <2>1. 2 \in 1..n
    BY <1>1, <1>2
  <2> QED
    BY <2>1 DEF VInv, FramesInv, FrameShape
<1>4. g.columns = outer.columns /\ g.project = outer.project /\ g.visible = outer.visible
  BY <1>3 DEF FrameFields
<1>5. /\ IsSequence(Tail(frames)) /\ Len(Tail(frames)) = n - 1 /\ Tail(frames) # <<>>
      /\ \A i \in 1..(n - 1) : Tail(frames)[i] = frames[i + 1]
  <2>1. /\ IsSequence(Tail(frames)) /\ Len(Tail(frames)) = n - 1
        /\ \A i \in 1..Len(Tail(frames)) : Tail(frames)[i] = frames[i + 1]
    BY <1>2, TailFacts
  <2>2. Tail(frames) # <<>>
    <3>1. Len(Tail(frames)) # Len(<<>>)
      BY <1>1, <1>2, <2>1, Nothing
    <3> QED
      BY <3>1
  <2> QED
    BY <2>1, <2>2
<1>6. /\ IsSequence(rest) /\ Len(rest) = n - 2
      /\ \A i \in 1..(n - 2) : rest[i] = Tail(frames)[i + 1]
  <2>1. /\ IsSequence(rest) /\ Len(rest) = Len(Tail(frames)) - 1
        /\ \A i \in 1..Len(rest) : rest[i] = Tail(frames)[i + 1]
    BY <1>5, TailFacts
  <2>2. (n - 1) - 1 = n - 2
    BY <1>2
  <2> QED
    BY <1>5, <2>1, <2>2
<1> HIDE DEF n, rest, g, outer
<1>7. /\ Len(frames') = 1 + (n - 2) /\ frames'[1] = g
      /\ \A i \in 1..(n - 2) : frames'[1 + i] = rest[i]
  <2>1. IsSequence(<<g>>) /\ Len(<<g>>) = 1 /\ <<g>>[1] = g
    BY One
  <2>2. frames' = <<g>> \o rest
    BY <1>1 DEF g
  <2>3. 1 \in 1..1
    OBVIOUS
  <2> QED
    BY <1>6, <2>1, <2>2, <2>3, Concatenated
<1>8. CASE n = 2
  <2>1. Len(frames') = 1 /\ frames'[Len(frames')] = g
    BY <1>7, <1>8
  <2>2. CountsColumns(outer)
    BY <1>2, <1>8 DEF ColumnsInv, n, outer
  <2>3. CountsColumns(g)
    BY <1>4, <2>2, CountsStay
  <2> QED
    BY <1>1, <2>1, <2>3 DEF ColumnsInv
<1>9. CASE n > 2
  <2>1. n - 2 \in 1..(n - 2) /\ (n - 2) + 1 \in 1..(n - 1) /\ ((n - 2) + 1) + 1 = n
        /\ Len(frames') = 1 + (n - 2)
    BY <1>2, <1>7, <1>9
  <2>2. frames'[Len(frames')] = rest[n - 2]
    BY <1>7, <2>1
  <2>3. rest[n - 2] = Tail(frames)[(n - 2) + 1]
    BY <1>6, <2>1
  <2>4. Tail(frames)[(n - 2) + 1] = frames[n]
    BY <1>5, <2>1
  <2>5. CountsColumns(frames[n])
    BY <1>2 DEF ColumnsInv, n
  <2> QED
    BY <1>1, <2>2, <2>3, <2>4, <2>5 DEF ColumnsInv
<1> QED
  BY <1>1, <1>2, <1>8, <1>9

LEMMA StepCounted ==
  ASSUME Proper, WellTyped, IsFiniteSet(UserVars), NEW strict, FitInv(strict), VInv,
         ColumnsInv, ColumnsHaveNames, ReturnIsLast, [Next]_vars
  PROVE  ColumnsInv'
<1>1. CASE Begin
  BY <1>1, BeginCounted
<1>2. CASE BeginMatch \/ EndMatch
  BY <1>2, MatchCounted
<1>3. CASE LowerLink \/ PatternDone \/ Combine \/ Returned \/ UNCHANGED vars
  <2>1. UNCHANGED <<frames, branches>>
    BY <1>3 DEF LowerLink, PatternDone, Combine, Fail, Returned, vars
  <2> QED
    BY <2>1, SMTT(30) DEF ColumnsInv
<1>4. CASE Where \/ Call \/ LoadCsv \/ Unwind \/ Start \/ Write \/ Update
  BY <1>4, EmitCounted
<1>5. CASE With \/ SchemaCommand
  BY <1>5, OthersCounted
<1>6. CASE Return
  BY <1>6, ReturnCounted
<1>7. CASE OrderBy \/ Skip \/ Limit
  BY <1>7, ModifiersCounted
<1>8. CASE BeginForeach
  BY <1>8, ForeachCounted
<1>9. CASE EndBody
  BY <1>9, EndBodyCounted
<1>10. CASE EndBranch
  BY <1>10, EndBranchCounted
<1> QED
  BY <1>1, <1>2, <1>3, <1>4, <1>5, <1>6, <1>7, <1>8, <1>9, <1>10 DEF Next, Work, Lower

(* A query is only planned when every branch counts as many columns as the *)
(* first.                                                                  *)
ColumnsCompared ==
  result = "planned" =>
    \A i \in 1..Len(branches) :
       branches[i].columns # None => branches[i].columns = branches[1].columns

(* combine_union compares the columns before anything is planned.          *)
LEMMA OnlyCombinePlans ==
  ASSUME [Next]_vars, result' = "planned"
  PROVE  /\ UNCHANGED branches \/ result # "planned"
         /\ result # "planned" => UNCHANGED branches /\ ColumnError = "none"
<1>1. CASE Combine
  <2>1. CASE ColumnError # "none"
    <3>1. result' = ColumnError
      BY <1>1, <2>1 DEF Combine, Fail
    <3> QED
      BY <3>1 DEF ColumnError
  <2>2. CASE ColumnError = "none"
    <3>1. UNCHANGED branches
      BY <1>1, <2>2 DEF Combine
    <3> QED
      BY <2>2, <3>1
  <2> QED
    BY <2>1, <2>2
<1>2. CASE Begin \/ BeginMatch \/ EndMatch
  BY <1>2 DEF Begin, BeginMatch, EndMatch, At, Busy, Fail
<1>3. CASE LowerLink \/ PatternDone
  BY <1>3 DEF LowerLink, PatternDone, Busy
<1>4. CASE Where \/ Call \/ LoadCsv \/ Unwind \/ Start \/ Update
  BY <1>4 DEF Where, Call, LoadCsv, Unwind, Start, Update, At, Busy, Emit
<1>5. CASE Write
  <2>1. Busy /\ \E ops, names : Emit(ops, names)
    BY <1>5 DEF Write, At
  <2> QED
    BY <2>1 DEF Emit, Busy
<1>6. CASE SchemaCommand \/ With \/ Return \/ OrderBy \/ Skip \/ Limit
  BY <1>6 DEF SchemaCommand, With, Return, OrderBy, Skip, Limit, At, Busy
<1>7. CASE BeginForeach \/ EndBody \/ EndBranch
  BY <1>7 DEF BeginForeach, EndBody, EndBranch, At, Busy
<1>8. CASE Returned \/ UNCHANGED vars
  BY <1>8 DEF Returned, vars
<1> QED
  BY <1>1, <1>2, <1>3, <1>4, <1>5, <1>6, <1>7, <1>8 DEF Next, Work, Lower

LEMMA StepCompared ==
  ASSUME ColumnsInv, ColumnsCompared, [Next]_vars
  PROVE  ColumnsCompared'
<1> SUFFICES ASSUME result' = "planned" PROVE ColumnsCompared'
  BY DEF ColumnsCompared
<1>1. CASE result = "planned"
  <2>1. UNCHANGED branches
    BY <1>1, OnlyCombinePlans
  <2> QED
    BY <1>1, <2>1 DEF ColumnsCompared
<1>2. CASE result # "planned"
  <2>1. UNCHANGED branches /\ ColumnError = "none"
    BY <1>2, OnlyCombinePlans
  <2>2. CASE Len(branches) = 1
    BY <2>1, <2>2 DEF ColumnsCompared
  <2>3. CASE Len(branches) # 1
    <3> DEFINE bad == {k \in 1..Len(branches) : branches[k].columns # branches[1].columns
                                                 \/ branches[k].columns = None}
    <3>1. bad = {}
      BY <2>1, <2>3 DEF ColumnError
    <3>2. \A k \in 1..Len(branches) : branches[k].columns = branches[1].columns
      BY <3>1
    <3> QED
      BY <2>1, <3>2 DEF ColumnsCompared
  <2> QED
    BY <2>2, <2>3
<1> QED
  BY <1>1, <1>2

LEMMA ComparedAgree ==
  ASSUME ColumnsInv, ColumnsCompared
  PROVE  ColumnsAgree
<1> SUFFICES ASSUME result = "planned", NEW i \in 1..Len(branches), branches[i].columns # None
             PROVE  Outputs(branches[i].main) = Outputs(branches[1].main)
  BY DEF ColumnsAgree
<1>1. branches[i].columns = branches[1].columns
  BY DEF ColumnsCompared
<1>2. 1 \in 1..Len(branches)
  <2>1. Len(branches) \in Nat
    BY SequenceFacts DEF ColumnsInv
  <2> QED
    BY <2>1
<1>3. /\ branches[i].columns = Some(Outputs(branches[i].main))
      /\ branches[1].columns = Some(Outputs(branches[1].main))
  BY <1>1, <1>2 DEF ColumnsInv
<1> DEFINE m == Outputs(branches[i].main)
           n == Outputs(branches[1].main)
<1>4. Some(m) = Some(n)
  BY <1>1, <1>3
<1> HIDE DEF m, n
<1>5. Some(m)[1] = m /\ Some(n)[1] = n
  BY One DEF Some
<1>6. m = n
  BY <1>4, <1>5
<1> QED
  BY <1>6 DEF m, n

(* ColumnsAgree of every query whose columns are named and whose branches  *)
(* end with their RETURN and its modifiers: plan_branch counts the columns *)
(* of a star from the names it keeps, and the count is what the plan has.  *)
THEOREM UnionColumnsAgree ==
  ASSUME Proper, WellTyped, IsFiniteSet(UserVars)
  PROVE  Spec /\ []EnoughSpines /\ []ColumnsHaveNames /\ []ReturnIsLast => []ColumnsAgree
<1> DEFINE I == Planning(FALSE) /\ ColumnsInv /\ ColumnsCompared
<1>1. Init => I
  <2> SUFFICES ASSUME Init PROVE I
    OBVIOUS
  <2>1. Planning(FALSE)
    BY PlanningStarts
  <2>2. IsSequence(<<>>) /\ Len(<<>>) = 0
    BY Nothing
  <2>3. ColumnsInv /\ ColumnsCompared
    BY <2>2 DEF Init, ColumnsInv, ColumnsCompared
  <2> QED
    BY <2>1, <2>3
<1>2. /\ I /\ EnoughSpines /\ EnoughSpines' /\ ColumnsHaveNames /\ ReturnIsLast
      /\ [Next]_vars
      => I'
  <2> SUFFICES ASSUME I, EnoughSpines, EnoughSpines', ColumnsHaveNames, ReturnIsLast,
                      [Next]_vars
               PROVE  I'
    OBVIOUS
  <2>1. Planning(FALSE)'
    BY PlanningStep DEF Granted
  <2>2. ColumnsInv'
    BY StepCounted DEF Planning
  <2>3. ColumnsCompared'
    BY StepCompared
  <2> QED
    BY <2>1, <2>2, <2>3
<1>3. I => ColumnsAgree
  BY ComparedAgree
<1> QED
  BY <1>1, <1>2, <1>3, PTL DEF Spec
=============================================================================
