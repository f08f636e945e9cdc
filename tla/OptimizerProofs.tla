-------------------------- MODULE OptimizerProofs ---------------------------
(***************************************************************************)
(* Theorems about Optimizer, for plans of any size over any variables.     *)
(*                                                                         *)
(* Everything follows from how one rewrite step changes the spines: two    *)
(* lemmas, SlideKeeps and SinkKeeps, say that the shape of the plan, the   *)
(* scope of every operator and what holds the filters already put down     *)
(* stay as they are.                                                       *)
(***************************************************************************)
EXTENDS OptimizerSemantics, SequenceTheorems, WellFoundedInduction, TLAPS

-----------------------------------------------------------------------------
(* The operators of Plans: what moving a filter does to a spine and to the *)
(* variables bound above each of its operators.                            *)

(* Swapping two neighbours of a spine gives a spine of the same length.    *)
LEMMA SwapFacts ==
  ASSUME NEW q \in Seq(Op), NEW p \in 2..Len(q)
  PROVE  /\ Swap(q, p) \in Seq(Op)
         /\ Len(Swap(q, p)) = Len(q)
         /\ Swap(q, p)[p - 1] = q[p]
         /\ Swap(q, p)[p] = q[p - 1]
         /\ \A i \in 1..Len(q) : i # p - 1 /\ i # p => Swap(q, p)[i] = q[i]
  BY DEF Swap

(* Taking an operator out of a spine moves those above it down by one.     *)
LEMMA DropFacts ==
  ASSUME NEW q \in Seq(Op), NEW p \in 1..Len(q)
  PROVE  /\ Drop(q, p) \in Seq(Op)
         /\ Len(Drop(q, p)) = Len(q) - 1
         /\ \A i \in 1..(p - 1) : Drop(q, p)[i] = q[i]
         /\ \A i \in p..(Len(q) - 1) : Drop(q, p)[i] = q[i + 1]
  BY DEF Drop

(* Putting an operator on top of a spine leaves the rest in place.         *)
LEMMA PutOnFacts ==
  ASSUME NEW q \in Seq(Op), NEW f \in Op
  PROVE  /\ Append(q, f) \in Seq(Op)
         /\ Len(Append(q, f)) = Len(q) + 1
         /\ Append(q, f)[Len(q) + 1] = f
         /\ \A i \in 1..Len(q) : Append(q, f)[i] = q[i]
  OBVIOUS

(* What is bound above n operators is decided by these n operators.        *)
LEMMA SameBelow ==
  ASSUME NEW q, NEW t, NEW n \in Nat, \A i \in 1..n : t[i] = q[i]
  PROVE  Bound(t, n) = Bound(q, n)
<1>1. \A j \in 1..n : \A k \in (j + 1)..n : HidesInput(t[k]) <=> HidesInput(q[k])
  BY DEF HidesInput
<1> QED BY <1>1 DEF Bound

(* A filter that binds nothing changes no scope but, where it passed an    *)
(* operator, the one between the two.                                      *)
LEMMA SwapBound ==
  ASSUME NEW q \in Seq(Op), NEW p \in 2..Len(q),
         IsFilter(q[p]), q[p].intro = {}
  PROVE  /\ Bound(Swap(q, p), p - 1) = Bound(q, p - 2)
         /\ \A n \in 0..Len(q) :
              n # p - 1 => Bound(Swap(q, p), n) = Bound(q, n)
<1> DEFINE t == Swap(q, p)
<1>s. /\ t \in Seq(Op) /\ Len(t) = Len(q) /\ t[p - 1] = q[p] /\ t[p] = q[p - 1]
      /\ \A i \in 1..Len(q) : i # p - 1 /\ i # p => t[i] = q[i]
  BY SwapFacts
<1>n. p \in Int /\ Len(q) \in Nat /\ 2 <= p /\ p <= Len(q)
  OBVIOUS
<1> HIDE DEF t
<1>0. ~HidesInput(q[p]) /\ ~HidesInput(t[p - 1]) /\ t[p - 1].intro = {}
  BY <1>s DEF HidesInput, IsFilter
<1>1. Bound(t, p - 1) = Bound(q, p - 2)
  BY <1>0, <1>s, <1>n, SMTT(30) DEF Bound
<1>2. ASSUME NEW n \in 0..Len(q), n # p - 1
      PROVE  Bound(t, n) = Bound(q, n)
  <2>1. CASE n < p - 1
    <3>1. n \in Nat /\ \A i \in 1..n : t[i] = q[i] BY <2>1, <1>s, <1>n
    <3> QED BY <3>1, SameBelow
  <2>2. CASE n >= p
    <3>1. ASSUME NEW v \in Bound(q, n) PROVE v \in Bound(t, n)
      <4>1. PICK j \in 1..n : /\ v \in q[j].intro
                              /\ \A k \in (j + 1)..n : ~HidesInput(q[k])
        BY DEF Bound
      <4>2. v \in Vars BY DEF Bound
      <4>3. CASE j = p - 1
        <5>1. \A k \in (p + 1)..n : ~HidesInput(t[k])
          <6> TAKE k \in (p + 1)..n
          <6>1. t[k] = q[k] BY <1>s, <1>n
          <6>2. k \in (j + 1)..n BY <4>3, <1>n
          <6> QED BY <6>1, <6>2, <4>1
        <5> QED BY <4>1, <4>2, <4>3, <5>1, <2>2, <1>s, <1>n DEF Bound
      <4>4. CASE j # p - 1
        <5>1. j # p BY <4>1
        <5>2. t[j] = q[j] BY <5>1, <4>4, <1>s, <1>n
        <5>3. \A k \in (j + 1)..n : ~HidesInput(t[k])
          <6> TAKE k \in (j + 1)..n
          <6>1. CASE k = p - 1 BY <6>1, <1>0
          <6>2. CASE k = p
            <7>1. p - 1 \in (j + 1)..n BY <6>2, <4>4, <5>1
            <7> QED BY <6>2, <4>1, <7>1, <1>s, <1>n
          <6>3. CASE k # p - 1 /\ k # p BY <6>3, <4>1, <1>s, <1>n
          <6> QED BY <6>1, <6>2, <6>3
        <5> QED BY <4>1, <4>2, <5>2, <5>3 DEF Bound
      <4> QED BY <4>3, <4>4
    <3>2. ASSUME NEW v \in Bound(t, n) PROVE v \in Bound(q, n)
      <4>1. PICK j \in 1..n : /\ v \in t[j].intro
                              /\ \A k \in (j + 1)..n : ~HidesInput(t[k])
        BY DEF Bound
      <4>2. v \in Vars BY DEF Bound
      <4>3. CASE j = p
        <5>1. \A k \in p..n : ~HidesInput(q[k])
          <6> TAKE k \in p..n
          <6>1. CASE k = p BY <6>1, <1>0
          <6>2. CASE k # p BY <6>2, <4>1, <4>3, <1>s, <1>n
          <6> QED BY <6>1, <6>2
        <5> QED BY <4>1, <4>2, <4>3, <5>1, <2>2, <1>s, <1>n DEF Bound
      <4>4. CASE j # p
        <5>1. j # p - 1 BY <4>1, <1>0
        <5>2. t[j] = q[j] BY <5>1, <4>4, <1>s, <1>n
        <5>3. \A k \in (j + 1)..n : ~HidesInput(q[k])
          <6> TAKE k \in (j + 1)..n
          <6>1. CASE k = p BY <6>1, <1>0
          <6>2. CASE k = p - 1
            <7>1. p \in (j + 1)..n BY <6>2, <2>2
            <7> QED BY <6>2, <4>1, <7>1, <1>s, <1>n
          <6>3. CASE k # p - 1 /\ k # p BY <6>3, <4>1, <1>s, <1>n
          <6> QED BY <6>1, <6>2, <6>3
        <5> QED BY <4>1, <4>2, <5>2, <5>3 DEF Bound
      <4> QED BY <4>3, <4>4
    <3> QED BY <3>1, <3>2
  <2> QED BY <1>2, <2>1, <2>2
<1> QED BY <1>1, <1>2 DEF t

(* Taking a filter out of a spine changes no scope.                        *)
LEMMA DropBound ==
  ASSUME NEW q \in Seq(Op), NEW p \in 1..Len(q),
         IsFilter(q[p]), q[p].intro = {}
  PROVE  /\ \A n \in 0..(p - 1) : Bound(Drop(q, p), n) = Bound(q, n)
         /\ \A n \in (p - 1)..(Len(q) - 1) :
              Bound(Drop(q, p), n) = Bound(q, n + 1)
<1> DEFINE t == Drop(q, p)
<1>s. /\ t \in Seq(Op) /\ Len(t) = Len(q) - 1
      /\ \A i \in 1..(p - 1) : t[i] = q[i]
      /\ \A i \in p..(Len(q) - 1) : t[i] = q[i + 1]
  BY DropFacts
<1>n. p \in Int /\ Len(q) \in Nat /\ 1 <= p /\ p <= Len(q)
  OBVIOUS
<1> HIDE DEF t
<1>0. ~HidesInput(q[p]) BY DEF HidesInput, IsFilter
<1>1. ASSUME NEW n \in 0..(p - 1) PROVE Bound(t, n) = Bound(q, n)
  <2>1. n \in Nat /\ \A i \in 1..n : t[i] = q[i] BY <1>s, <1>n
  <2> QED BY <2>1, SameBelow
<1>2. ASSUME NEW n \in (p - 1)..(Len(q) - 1)
      PROVE  Bound(t, n) = Bound(q, n + 1)
  <2>1. ASSUME NEW v \in Bound(q, n + 1) PROVE v \in Bound(t, n)
    <3>1. PICK j \in 1..(n + 1) :
                  /\ v \in q[j].intro
                  /\ \A k \in (j + 1)..(n + 1) : ~HidesInput(q[k])
      BY DEF Bound
    <3>2. v \in Vars BY DEF Bound
    <3>3. j # p BY <3>1
    <3>4. CASE j < p
      <4>1. t[j] = q[j] /\ j \in 1..n BY <3>4, <1>s, <1>n
      <4>2. \A k \in (j + 1)..n : ~HidesInput(t[k])
        <5> TAKE k \in (j + 1)..n
        <5>1. CASE k < p BY <5>1, <3>1, <3>4, <1>s, <1>n
        <5>2. CASE k >= p
          <6>1. k + 1 \in (j + 1)..(n + 1) /\ t[k] = q[k + 1]
            BY <5>2, <1>s, <1>n
          <6> QED BY <6>1, <3>1
        <5> QED BY <5>1, <5>2
      <4> QED BY <3>1, <3>2, <4>1, <4>2 DEF Bound
    <3>5. CASE j > p
      <4>1. t[j - 1] = q[j] /\ j - 1 \in 1..n BY <3>5, <1>s, <1>n
      <4>2. \A k \in ((j - 1) + 1)..n : ~HidesInput(t[k])
        <5> TAKE k \in ((j - 1) + 1)..n
        <5>1. k + 1 \in (j + 1)..(n + 1) /\ t[k] = q[k + 1]
          BY <3>5, <1>s, <1>n
        <5> QED BY <5>1, <3>1
      <4> QED BY <3>1, <3>2, <4>1, <4>2 DEF Bound
    <3> QED BY <3>3, <3>4, <3>5
  <2>2. ASSUME NEW v \in Bound(t, n) PROVE v \in Bound(q, n + 1)
    <3>1. PICK j \in 1..n : /\ v \in t[j].intro
                            /\ \A k \in (j + 1)..n : ~HidesInput(t[k])
      BY DEF Bound
    <3>2. v \in Vars BY DEF Bound
    <3>3. CASE j < p
      <4>1. t[j] = q[j] /\ j \in 1..(n + 1) BY <3>3, <1>s, <1>n
      <4>2. \A k \in (j + 1)..(n + 1) : ~HidesInput(q[k])
        <5> TAKE k \in (j + 1)..(n + 1)
        <5>1. CASE k < p
          <6>1. k \in (j + 1)..n /\ k \in 1..(p - 1) BY <5>1, <1>n
          <6>2. t[k] = q[k] BY <6>1, <1>s
          <6> QED BY <6>1, <6>2, <3>1
        <5>2. CASE k = p BY <5>2, <1>0
        <5>3. CASE k > p
          <6>1. k - 1 \in (j + 1)..n /\ k - 1 \in p..(Len(q) - 1)
            BY <5>3, <3>3, <1>n
          <6>2. t[k - 1] = q[k] BY <6>1, <1>s
          <6> QED BY <6>1, <6>2, <3>1
        <5> QED BY <5>1, <5>2, <5>3
      <4> QED BY <3>1, <3>2, <4>1, <4>2 DEF Bound
    <3>4. CASE j >= p
      <4>1. t[j] = q[j + 1] /\ j + 1 \in 1..(n + 1) BY <3>4, <1>s, <1>n
      <4>2. \A k \in ((j + 1) + 1)..(n + 1) : ~HidesInput(q[k])
        <5> TAKE k \in ((j + 1) + 1)..(n + 1)
        <5>1. k - 1 \in (j + 1)..n /\ t[k - 1] = q[k]
          BY <3>4, <1>s, <1>n, SMTT(30)
        <5> QED BY <5>1, <3>1
      <4> QED BY <3>1, <3>2, <4>1, <4>2 DEF Bound
    <3> QED BY <3>3, <3>4
  <2> QED BY <2>1, <2>2
<1> QED BY <1>1, <1>2 DEF t

(* Putting a filter on top of a spine changes no scope.                    *)
LEMMA PutOnBound ==
  ASSUME NEW q \in Seq(Op), NEW f \in Op, IsFilter(f), f.intro = {}
  PROVE  /\ \A n \in 0..Len(q) : Bound(Append(q, f), n) = Bound(q, n)
         /\ Bound(Append(q, f), Len(q) + 1) = Bound(q, Len(q))
<1> DEFINE t == Append(q, f)
<1>s. /\ t \in Seq(Op) /\ Len(t) = Len(q) + 1 /\ t[Len(q) + 1] = f
      /\ \A i \in 1..Len(q) : t[i] = q[i]
  BY PutOnFacts
<1>n. Len(q) \in Nat
  OBVIOUS
<1> HIDE DEF t
<1>0. ~HidesInput(f) BY DEF HidesInput, IsFilter
<1>1. ASSUME NEW n \in 0..Len(q) PROVE Bound(t, n) = Bound(q, n)
  <2>1. n \in Nat /\ \A i \in 1..n : t[i] = q[i] BY <1>s, <1>n
  <2> QED BY <2>1, SameBelow
<1>2. Bound(t, Len(q) + 1) = Bound(t, Len(q))
  BY <1>0, <1>s, <1>n DEF Bound
<1> QED BY <1>1, <1>2 DEF t

(* The variables an operator adds and hides, one operator at a time.       *)
LEMMA BoundStep ==
  ASSUME NEW q \in Seq(Op), NEW n \in 1..Len(q)
  PROVE  Bound(q, n) = q[n].intro \cup
                       (IF HidesInput(q[n]) THEN {} ELSE Bound(q, n - 1))
<1>0. q[n].intro \subseteq Vars
  <2>1. q[n] \in Op OBVIOUS
  <2> QED BY <2>1 DEF Op
<1>1. ASSUME NEW v \in q[n].intro PROVE v \in Bound(q, n)
  BY <1>0 DEF Bound
<1>2. ASSUME ~HidesInput(q[n]), NEW v \in Bound(q, n - 1)
      PROVE  v \in Bound(q, n)
  BY <1>2 DEF Bound
<1>3. ASSUME NEW v \in Bound(q, n), v \notin q[n].intro
      PROVE  ~HidesInput(q[n]) /\ v \in Bound(q, n - 1)
  BY <1>3 DEF Bound
<1> QED BY <1>1, <1>2, <1>3

-----------------------------------------------------------------------------

(* The plan is one the planner could have built, and well scoped.          *)
Sound(pl) == WellFormed(pl) /\ RightScopesExact(pl) /\ WellScoped(pl)

(* The filter in flight comes from below the operator the pass visits      *)
(* next, which is at most one above the top of its spine.                  *)
Control ==
  /\ Flying => /\ phase = "pass" /\ cur \in Spines
               /\ fly.sp <= cur
               /\ fly.sp = cur => fly.pos < at
  /\ cur \in Spines => at <= Len(plan[cur]) + 1

ScopeInv == TypeOK /\ Control /\ Sound(plan)

(* The plan after a filter slides and after it sinks.                      *)
SlideTo(pl, s, p) == [pl EXCEPT ![s] = Swap(@, p)]

SinkTo(pl, s, p, r) ==
  [pl EXCEPT ![s] = Drop(@, p), ![r] = Append(@, pl[s][p])]

-----------------------------------------------------------------------------
(* A filter of a well-formed plan binds nothing.                           *)
LEMMA FilterShape ==
  ASSUME NEW pl \in [Spines -> Seq(Op)], WellFormed(pl),
         NEW s \in Spines, NEW p \in 1..Len(pl[s]), IsFilter(pl[s][p])
  PROVE  /\ pl[s][p] \in Op /\ pl[s][p].intro = {} /\ pl[s][p].right = 0
         /\ pl[s][p].used \subseteq Vars
<1>1. pl[s] \in Seq(Op) OBVIOUS
<1>2. pl[s][p] \in Op BY <1>1
<1>3. WellFormedOp(s, pl[s][p]) BY DEF WellFormed
<1>4. pl[s][p].used \subseteq Vars BY <1>2 DEF Op
<1> QED BY <1>2, <1>3, <1>4 DEF WellFormedOp, IsFilter, BindingKinds, BinaryKinds

(* The second input of an operator is a spine with a smaller number.       *)
LEMMA RightShape ==
  ASSUME NEW s \in Spines, NEW op, WellFormedOp(s, op), op.kind \in BinaryKinds
  PROVE  op.right \in 1..(s - 1) /\ op.right \in Spines /\ op.right # s
<1>1. op.right \in 1..(s - 1) BY DEF WellFormedOp
<1>2. s \in Int /\ 1 <= s /\ s <= NumSpines /\ NumSpines \in Int
  BY SpineAssumption DEF Spines
<1> QED BY <1>1, <1>2 DEF Spines

(* What a filter passes is an operator, not another filter.                *)
LEMMA SlidesShape ==
  ASSUME NEW q \in Seq(Op), NEW p \in 2..Len(q), Slides(q, p)
  PROVE  q[p - 1].kind \in {"Project", "Sort", "Expand", "NamedPath", "LoadCsv",
                            "PropertyMapFilter", "Cartesian"}
  BY DEF Slides, PassesProject, PassesSort, PassesExpand, PassesNamedPath,
         PassesLoadCsv, PassesPropertyMapFilter, GoesLeft

(* In a well-scoped plan a filter only slides to where the variables of    *)
(* its predicate are bound, and past an operator that writes none of them. *)
LEMMA SlideScope ==
  ASSUME NEW pl \in [Spines -> Seq(Op)], Sound(pl),
         NEW s \in Spines, NEW p \in 2..Len(pl[s]),
         IsFilter(pl[s][p]), Slides(pl[s], p)
  PROVE  /\ pl[s][p].used \subseteq Bound(pl[s], p - 2)
         /\ pl[s][p].used \cap Promise!Writes(pl[s][p - 1]) = {}
<1> DEFINE q == pl[s]
           f == q[p]
           op == q[p - 1]
<1>1. q \in Seq(Op) /\ p - 1 \in 1..Len(q) OBVIOUS
<1>2. /\ f.used \subseteq Bound(q, p - 1)
      /\ op.used \subseteq Bound(q, p - 2)
  <2>1. p \in 1..Len(q) /\ p - 1 \in 1..Len(q) /\ (p - 1) - 1 = p - 2
    OBVIOUS
  <2> QED BY <2>1 DEF Sound, WellScoped
<1>3. Bound(q, p - 1) =
        op.intro \cup (IF HidesInput(op) THEN {} ELSE Bound(q, p - 2))
  <2>1. (p - 1) - 1 = p - 2 OBVIOUS
  <2> QED BY <1>1, <2>1, BoundStep
<1>4. WellFormedOp(s, op) BY <1>1 DEF Sound, WellFormed
<1> HIDE DEF q, f, op
<1>5. CASE PassesProject(f, op)
  <2>1. f.used \cap op.alias = {} /\ op.intro \ op.alias \subseteq op.used
    BY <1>4, <1>5 DEF PassesProject, WellFormedOp
  <2>2. Promise!Writes(op) = op.alias
    BY <1>5 DEF PassesProject, Promise!Writes
  <2> QED BY <2>1, <2>2, <1>2, <1>3 DEF q, f, op
<1>6. CASE PassesSort(op) \/ PassesPropertyMapFilter(op)
  <2>1. op.intro = {} /\ ~HidesInput(op)
    BY <1>4, <1>6 DEF PassesSort, PassesPropertyMapFilter, WellFormedOp,
                      BindingKinds, HidesInput
  <2>2. Promise!Writes(op) = op.intro
    BY <1>6 DEF PassesSort, PassesPropertyMapFilter, Promise!Writes
  <2> QED BY <2>1, <2>2, <1>2, <1>3 DEF q, f, op
<1>7. CASE PassesExpand(f, op) \/ PassesNamedPath(f, op) \/ PassesLoadCsv(f, op)
  <2>1. f.used \cap op.intro = {} /\ ~HidesInput(op)
    BY <1>7 DEF PassesExpand, PassesNamedPath, PassesLoadCsv, HidesInput
  <2>2. Promise!Writes(op) = op.intro
    BY <1>7 DEF PassesExpand, PassesNamedPath, PassesLoadCsv, Promise!Writes
  <2> QED BY <2>1, <2>2, <1>2, <1>3 DEF q, f, op
<1>8. CASE GoesLeft(q, p)
  <2>1. Promise!Writes(op) = {}
    BY <1>8 DEF GoesLeft, Promise!Writes, op
  <2> QED BY <2>1, <1>8 DEF GoesLeft, q, f, op
<1> QED BY <1>5, <1>6, <1>7, <1>8 DEF Slides, q, f, op

-----------------------------------------------------------------------------
(* A rewrite that permutes the operators of one spine around a filter.     *)
LEMMA SlideKeeps ==
  ASSUME NEW pl \in [Spines -> Seq(Op)], Sound(pl),
         NEW s \in Spines, NEW p \in 2..Len(pl[s]),
         IsFilter(pl[s][p]), Slides(pl[s], p),
         NEW t, t = SlideTo(pl, s, p)
  PROVE  /\ t \in [Spines -> Seq(Op)]
         /\ Sound(t)
         /\ \A r \in Spines : BoundVars(t[r]) = BoundVars(pl[r])
<1> USE DEF SlideTo
<1> DEFINE q == pl[s]
<1>1. q \in Seq(Op) /\ q[p].intro = {} /\ IsFilter(q[p])
  BY FilterShape DEF Sound
<1>2. /\ t[s] = Swap(q, p)
      /\ \A r \in Spines : r # s => t[r] = pl[r]
      /\ t[s] \in Seq(Op) /\ Len(t[s]) = Len(q)
      /\ t[s][p - 1] = q[p] /\ t[s][p] = q[p - 1]
      /\ \A i \in 1..Len(q) : i # p - 1 /\ i # p => t[s][i] = q[i]
  BY <1>1, SwapFacts
<1>3. t \in [Spines -> Seq(Op)] BY <1>2
<1>4. /\ Bound(t[s], p - 1) = Bound(q, p - 2)
      /\ \A n \in 0..Len(q) : n # p - 1 => Bound(t[s], n) = Bound(q, n)
  BY <1>1, <1>2, SwapBound
<1>n. p \in Int /\ Len(q) \in Nat /\ 2 <= p /\ p <= Len(q) OBVIOUS
<1>5. \A r \in Spines : BoundVars(t[r]) = BoundVars(pl[r])
  <2>1. BoundVars(t[s]) = BoundVars(q)
    BY <1>2, <1>4, <1>n DEF BoundVars
  <2> QED BY <2>1, <1>2
<1>6. \A r \in Spines : \A i \in 1..Len(t[r]) :
         \E j \in 1..Len(pl[r]) : t[r][i] = pl[r][j]
  <2> TAKE r \in Spines
  <2> TAKE i \in 1..Len(t[r])
  <2>1. CASE r # s BY <2>1, <1>2
  <2>2. CASE r = s
    <3>1. CASE i = p - 1 BY <3>1, <2>2, <1>2, <1>n
    <3>2. CASE i = p BY <3>2, <2>2, <1>2, <1>n
    <3>3. CASE i # p - 1 /\ i # p BY <3>3, <2>2, <1>2, <1>n
    <3> QED BY <3>1, <3>2, <3>3
  <2> QED BY <2>1, <2>2
<1>7. WellFormed(t) BY <1>6 DEF Sound, WellFormed
<1>8. RightScopesExact(t)
  <2> SUFFICES ASSUME NEW r \in Spines, NEW i \in 1..Len(t[r]),
                      t[r][i].kind \in {"Cartesian", "Optional", "Union"}
               PROVE  t[r][i].intro = BoundVars(t[t[r][i].right])
    BY DEF RightScopesExact
  <2>1. PICK j \in 1..Len(pl[r]) : t[r][i] = pl[r][j] BY <1>6
  <2>2. pl[r][j].intro = BoundVars(pl[pl[r][j].right])
    BY <2>1 DEF Sound, RightScopesExact
  <2>3. t[r][i].right \in Spines
    <3>1. WellFormedOp(r, t[r][i]) BY <1>7 DEF WellFormed
    <3> QED BY <3>1, RightShape DEF BinaryKinds
  <2> QED BY <2>1, <2>2, <2>3, <1>5
<1>9. WellScoped(t)
  <2> SUFFICES ASSUME NEW r \in Spines, NEW i \in 1..Len(t[r])
               PROVE  t[r][i].used \subseteq Bound(t[r], i - 1)
    BY DEF WellScoped
  <2>0. \A j \in 1..Len(pl[r]) : pl[r][j].used \subseteq Bound(pl[r], j - 1)
    BY DEF Sound, WellScoped
  <2>1. CASE r # s BY <2>0, <2>1, <1>2
  <2>2. CASE r = s /\ i = p - 1
    <3>1. q[p].used \subseteq Bound(q, p - 2) BY SlideScope
    <3>2. Bound(t[s], p - 2) = Bound(q, p - 2) BY <1>4, <1>n
    <3> QED BY <3>1, <3>2, <2>2, <1>2, <1>n
  <2>3. CASE r = s /\ i = p
    <3>1. q[p - 1].used \subseteq Bound(q, p - 2)
      <4>1. p - 1 \in 1..Len(q) /\ (p - 1) - 1 = p - 2 BY <1>n
      <4> QED BY <4>1, <2>0, <2>3
    <3> QED BY <3>1, <2>3, <1>2, <1>4
  <2>4. CASE r = s /\ i # p - 1 /\ i # p
    <3>1. i - 1 \in 0..Len(q) /\ i - 1 # p - 1 /\ i \in 1..Len(q)
      BY <2>4, <1>2, <1>n
    <3> QED BY <3>1, <2>4, <2>0, <1>2, <1>4, SMTT(30)
  <2> QED BY <2>1, <2>2, <2>3, <2>4
<1> QED BY <1>3, <1>5, <1>7, <1>8, <1>9 DEF Sound

(* A rewrite that takes a filter out of one spine and puts it on another.  *)
LEMMA SinkKeeps ==
  ASSUME NEW pl \in [Spines -> Seq(Op)], Sound(pl),
         NEW s \in Spines, NEW p \in 2..Len(pl[s]),
         IsFilter(pl[s][p]), GoesRight(pl, pl[s], p),
         NEW r, r = pl[s][p - 1].right,
         NEW t, t = SinkTo(pl, s, p, r)
  PROVE  /\ r \in 1..(s - 1) /\ r \in Spines /\ r # s
         /\ t \in [Spines -> Seq(Op)]
         /\ Sound(t)
         /\ \A u \in Spines : BoundVars(t[u]) = BoundVars(pl[u])
<1> DEFINE q == pl[s]
           f == pl[s][p]
<1>n. p \in Int /\ Len(q) \in Nat /\ 2 <= p /\ p <= Len(q) OBVIOUS
<1>r. r \in 1..(s - 1) /\ r \in Spines /\ r # s
  <2>1. WellFormedOp(s, q[p - 1])
    <3>1. p - 1 \in 1..Len(q) BY <1>n
    <3> QED BY <3>1 DEF Sound, WellFormed
  <2> QED BY <2>1, RightShape DEF GoesRight, BinaryKinds
<1>1. q \in Seq(Op) /\ pl[r] \in Seq(Op) /\ f \in Op /\ f.intro = {} /\ f.right = 0
      /\ IsFilter(f)
  BY <1>r, FilterShape DEF Sound
<1> USE DEF SinkTo
<1>2. /\ t[s] = Drop(q, p) /\ t[r] = Append(pl[r], f)
      /\ \A u \in Spines : u # s /\ u # r => t[u] = pl[u]
  <2> HIDE DEF f
  <2>1. t = [pl EXCEPT ![s] = Drop(@, p), ![r] = Append(@, f)] BY DEF f
  <2> QED BY ONLY <1>r, <2>1
<1>3. /\ t[s] \in Seq(Op) /\ Len(t[s]) = Len(q) - 1
      /\ \A i \in 1..(p - 1) : t[s][i] = q[i]
      /\ \A i \in p..(Len(q) - 1) : t[s][i] = q[i + 1]
  <2>1. p \in 1..Len(q) BY <1>n
  <2>2. q \in Seq(Op) BY <1>1
  <2> HIDE DEF q, f
  <2>3. /\ Drop(q, p) \in Seq(Op) /\ Len(Drop(q, p)) = Len(q) - 1
        /\ \A i \in 1..(p - 1) : Drop(q, p)[i] = q[i]
        /\ \A i \in p..(Len(q) - 1) : Drop(q, p)[i] = q[i + 1]
    BY ONLY <2>1, <2>2, DropFacts
  <2>4. t[s] = Drop(q, p) BY <1>2, SMTT(30)
  <2> QED BY <2>3, <2>4
<1>4. /\ t[r] \in Seq(Op) /\ Len(t[r]) = Len(pl[r]) + 1
      /\ t[r][Len(pl[r]) + 1] = f
      /\ \A i \in 1..Len(pl[r]) : t[r][i] = pl[r][i]
  <2>1. pl[r] \in Seq(Op) /\ f \in Op BY <1>1
  <2> HIDE DEF q, f
  <2>2. /\ Append(pl[r], f) \in Seq(Op)
        /\ Len(Append(pl[r], f)) = Len(pl[r]) + 1
        /\ Append(pl[r], f)[Len(pl[r]) + 1] = f
        /\ \A i \in 1..Len(pl[r]) : Append(pl[r], f)[i] = pl[r][i]
    BY ONLY <2>1, PutOnFacts, SMTT(30)
  <2>3. t[r] = Append(pl[r], f) BY <1>2
  <2> QED BY <2>2, <2>3
<1>5. /\ \A n \in 0..(p - 1) : Bound(t[s], n) = Bound(q, n)
      /\ \A n \in (p - 1)..(Len(q) - 1) : Bound(t[s], n) = Bound(q, n + 1)
  <2>1. p \in 1..Len(q) /\ IsFilter(q[p]) /\ q[p].intro = {} BY <1>1, <1>n
  <2>2. q \in Seq(Op) BY <1>1
  <2> HIDE DEF q, f
  <2>3. /\ \A n \in 0..(p - 1) : Bound(Drop(q, p), n) = Bound(q, n)
        /\ \A n \in (p - 1)..(Len(q) - 1) : Bound(Drop(q, p), n) = Bound(q, n + 1)
    BY ONLY <2>1, <2>2, DropBound, SMTT(30)
  <2>4. t[s] = Drop(q, p) BY <1>2
  <2> QED BY <2>3, <2>4
<1>6. /\ \A n \in 0..Len(pl[r]) : Bound(t[r], n) = Bound(pl[r], n)
      /\ Bound(t[r], Len(pl[r]) + 1) = Bound(pl[r], Len(pl[r]))
  <2>1. pl[r] \in Seq(Op) /\ f \in Op /\ IsFilter(f) /\ f.intro = {}
    BY <1>1
  <2> HIDE DEF q, f
  <2>2. /\ \A n \in 0..Len(pl[r]) : Bound(Append(pl[r], f), n) = Bound(pl[r], n)
        /\ Bound(Append(pl[r], f), Len(pl[r]) + 1) = Bound(pl[r], Len(pl[r]))
    BY ONLY <2>1, PutOnBound
  <2>3. t[r] = Append(pl[r], f) BY <1>2
  <2> QED BY <2>2, <2>3
<1>7. t \in [Spines -> Seq(Op)]
  <2>1. \A u \in Spines : t[u] \in Seq(Op) BY <1>2, <1>3, <1>4
  <2> QED BY <2>1
<1>8. \A u \in Spines : BoundVars(t[u]) = BoundVars(pl[u])
  <2>1. BoundVars(t[s]) = BoundVars(q)
    <3>1. Len(q) - 1 \in (p - 1)..(Len(q) - 1) /\ (Len(q) - 1) + 1 = Len(q)
      BY <1>n
    <3> QED BY <3>1, <1>3, <1>5 DEF BoundVars
  <2>2. BoundVars(t[r]) = BoundVars(pl[r]) BY <1>4, <1>6 DEF BoundVars
  <2> QED BY <2>1, <2>2, <1>2
<1>9. \A u \in Spines : \A i \in 1..Len(t[u]) :
         \/ \E j \in 1..Len(pl[u]) : t[u][i] = pl[u][j]
         \/ u = r /\ i = Len(pl[r]) + 1 /\ t[u][i] = f
  <2> SUFFICES ASSUME NEW u \in Spines, NEW i \in 1..Len(t[u])
               PROVE  \/ \E j \in 1..Len(pl[u]) : t[u][i] = pl[u][j]
                      \/ u = r /\ i = Len(pl[r]) + 1 /\ t[u][i] = f
    BY Zenon
  <2>1. CASE u # s /\ u # r BY <2>1, <1>2, SMTT(30)
  <2>2. CASE u = s
    <3>1. CASE i < p BY <3>1, <2>2, <1>3, <1>n
    <3>2. CASE i >= p
      <4>1. i \in p..(Len(q) - 1) /\ i + 1 \in 1..Len(q)
        BY <3>2, <2>2, <1>3, <1>n, SMTT(30)
      <4> QED BY <4>1, <2>2, <1>3
    <3> QED BY <3>1, <3>2, <1>n, SMTT(30)
  <2>3. CASE u = r
    <3>1. Len(pl[r]) \in Nat BY <1>1
    <3> QED BY <2>3, <3>1, <1>4
  <2> QED BY <2>1, <2>2, <2>3
<1>10. WellFormed(t)
  <2> SUFFICES ASSUME NEW u \in Spines, NEW i \in 1..Len(t[u])
               PROVE  WellFormedOp(u, t[u][i])
    BY SMTT(30) DEF WellFormed
  <2>1. CASE \E j \in 1..Len(pl[u]) : t[u][i] = pl[u][j]
    BY <2>1, ZenonT(30) DEF Sound, WellFormed
  <2>2. CASE t[u][i] = f
    BY <2>2, <1>1 DEF WellFormedOp, IsFilter, BinaryKinds
  <2> QED BY <2>1, <2>2, <1>9
<1>11. RightScopesExact(t)
  <2> SUFFICES ASSUME NEW u \in Spines, NEW i \in 1..Len(t[u]),
                      t[u][i].kind \in {"Cartesian", "Optional", "Union"}
               PROVE  t[u][i].intro = BoundVars(t[t[u][i].right])
    BY DEF RightScopesExact
  <2>1. t[u][i] # f BY <1>1, SMTT(30) DEF IsFilter
  <2>2. PICK j \in 1..Len(pl[u]) : t[u][i] = pl[u][j] BY <1>9, <2>1
  <2>3. pl[u][j].intro = BoundVars(pl[pl[u][j].right])
    BY <2>2, SMTT(30) DEF Sound, RightScopesExact
  <2>4. t[u][i].right \in Spines
    <3>1. WellFormedOp(u, t[u][i]) BY <1>10 DEF WellFormed
    <3> QED BY <3>1, RightShape DEF BinaryKinds
  <2> QED BY <2>2, <2>3, <2>4, <1>8, ZenonT(30)
<1>12. WellScoped(t)
  <2> SUFFICES ASSUME NEW u \in Spines, NEW i \in 1..Len(t[u])
               PROVE  t[u][i].used \subseteq Bound(t[u], i - 1)
    BY DEF WellScoped
  <2>0. \A j \in 1..Len(pl[u]) : pl[u][j].used \subseteq Bound(pl[u], j - 1)
    BY SMTT(30) DEF Sound, WellScoped
  <2>1. CASE u # s /\ u # r BY <2>0, <2>1, <1>2, SMTT(30)
  <2>2. CASE u = s /\ i < p
    <3>1. i \in 1..(p - 1) /\ i - 1 \in 0..(p - 1) /\ i \in 1..Len(q)
      BY <2>2, <1>3, <1>n, SMTT(30)
    <3> QED BY <3>1, <2>0, <2>2, <1>3, <1>5
  <2>3. CASE u = s /\ i >= p
    <3>1. /\ i \in p..(Len(q) - 1) /\ i - 1 \in (p - 1)..(Len(q) - 1)
          /\ i + 1 \in 1..Len(q) /\ (i + 1) - 1 = (i - 1) + 1
      BY <2>3, <1>3, <1>n
    <3>2. q[i + 1].used \subseteq Bound(q, (i - 1) + 1)
      BY <3>1, <2>0, <2>3, SMTT(30)
    <3> QED BY <3>1, <3>2, <2>3, <1>3, <1>5
  <2>4. CASE u = r /\ i <= Len(pl[r])
    <3>1. i \in 1..Len(pl[r]) /\ i - 1 \in 0..Len(pl[r]) BY <2>4, <1>1, SMTT(30)
    <3> QED BY <3>1, <2>0, <2>4, <1>4, <1>6
  <2>5. CASE u = r /\ i > Len(pl[r])
    <3>1. i = Len(pl[r]) + 1 /\ i - 1 = Len(pl[r]) /\ Len(pl[r]) \in 0..Len(pl[r])
      BY <2>5, <1>1, <1>4, SMTT(30)
    <3>2. f.used \subseteq Bound(pl[r], Len(pl[r]))
      BY DEF GoesRight, BoundVars
    <3> QED BY <3>1, <3>2, <2>5, <1>4, <1>6
  <2>6. i \in Int /\ Len(pl[r]) \in Int BY <1>1
  <2> QED BY <2>1, <2>2, <2>3, <2>4, <2>5, <2>6, <1>n, SMTT(30)
<1> QED BY <1>r, <1>7, <1>8, <1>10, <1>11, <1>12 DEF Sound

-----------------------------------------------------------------------------
(* The filter in flight is where TypeOK says, and Slide and Sink are calls *)
(* to the lemmas above.                                                    *)
LEMMA InFlight ==
  ASSUME TypeOK, Flying
  PROVE  /\ fly.sp \in Spines /\ fly.pos \in 1..Len(plan[fly.sp])
         /\ IsFilter(plan[fly.sp][fly.pos])
         /\ plan[fly.sp] \in Seq(Op)
         /\ fly.pos > 1 => fly.pos \in 2..Len(plan[fly.sp])
  BY DEF TypeOK

(***************************************************************************)
(* Type correctness and scope.  TypeOK and Sound need each other: a slide  *)
(* keeps scopes because operators are well formed, a sink goes to a spine  *)
(* because second inputs have smaller numbers.                             *)
(***************************************************************************)
LEMMA ScopeInit == Init => ScopeInv
<1> SUFFICES ASSUME Init PROVE ScopeInv OBVIOUS
<1>1. plan \in [Spines -> Seq(Op)] BY InputsAssumption DEF Init
<1>2. ~Flying BY DEF Init, Flying
<1>3. TypeOK
  BY <1>1, <1>2, SpineAssumption DEF Init, TypeOK, Grounded
<1>4. Control BY <1>1, <1>2 DEF Init, Control
<1> QED BY <1>3, <1>4 DEF Init, ScopeInv, Sound

LEMMA ScopeStep == ScopeInv /\ [Next]_vars => ScopeInv'
<1> SUFFICES ASSUME ScopeInv, [Next]_vars PROVE ScopeInv' OBVIOUS
<1>0. TypeOK /\ Control /\ Sound(plan) BY DEF ScopeInv
<1>n. NumSpines \in Nat /\ Spines = 1..NumSpines
  BY SpineAssumption DEF Spines
<1>1. CASE Visit
  <2>1. Sound(plan)' BY <1>0, <1>1 DEF Visit
  <2>2. TypeOK' BY <1>0, <1>1 DEF Visit, TypeOK, Flying
  <2>3. plan[cur] \in Seq(Op) BY <1>0, <1>1 DEF Visit, TypeOK
  <2>4. Control' BY <1>0, <1>1, <2>3 DEF Visit, TypeOK, Control, Flying
  <2> QED BY <2>1, <2>2, <2>4 DEF ScopeInv
<1>2. CASE PickUp
  <2>1. Sound(plan)' BY <1>0, <1>2 DEF PickUp
  <2>3. plan[cur] \in Seq(Op) BY <1>0, <1>2 DEF PickUp, TypeOK
  <2>2. TypeOK' BY <1>0, <1>2, <1>n, <2>3 DEF PickUp, TypeOK, Flying
  <2>4. Control' BY <1>0, <1>2, <1>n, <2>3 DEF PickUp, TypeOK, Control, Flying
  <2> QED BY <2>1, <2>2, <2>4 DEF ScopeInv
<1>3. CASE Slide
  <2>1. /\ fly.sp \in Spines /\ fly.pos \in 2..Len(plan[fly.sp])
        /\ IsFilter(plan[fly.sp][fly.pos]) /\ plan[fly.sp] \in Seq(Op)
        /\ Slides(plan[fly.sp], fly.pos)
    BY <1>0, <1>3, InFlight DEF Slide
  <2>2. plan' = SlideTo(plan, fly.sp, fly.pos)
    BY <1>3 DEF Slide, SlideTo
  <2>3. plan' \in [Spines -> Seq(Op)] /\ Sound(plan')
    BY <1>0, <2>1, <2>2, SlideKeeps DEF TypeOK
  <2>4. /\ plan'[fly.sp] = Swap(plan[fly.sp], fly.pos)
        /\ \A u \in Spines : u # fly.sp => plan'[u] = plan[u]
        /\ fly' = [sp |-> fly.sp, pos |-> fly.pos - 1]
    BY <1>0, <1>3, <2>1, <2>2 DEF Slide, SlideTo, TypeOK
  <2>5. /\ fly.pos - 1 \in 1..Len(plan'[fly.sp])
        /\ Len(plan'[fly.sp]) = Len(plan[fly.sp])
        /\ IsFilter(plan'[fly.sp][fly.pos - 1])
    BY <2>1, <2>4, SwapFacts
  <2>6. UNCHANGED <<cur, at, prev, rounds, phase>>
    BY <1>3 DEF Slide
  <2>7. TypeOK'
    BY <1>0, <2>1, <2>3, <2>4, <2>5, <2>6 DEF TypeOK
  <2>8. Control'
    <3>1. Flying BY <1>3 DEF Slide
    <3>2. cur \in Spines => Len(plan'[cur]) = Len(plan[cur])
      BY <2>4, <2>5
    <3>3. fly'.sp = fly.sp /\ fly'.pos = fly.pos - 1 BY <2>4
    <3>4. at \in Nat /\ fly.pos \in Nat BY <1>0 DEF TypeOK
    <3> QED BY <1>0, <2>6, <3>1, <3>2, <3>3, <3>4 DEF Control
  <2> QED BY <2>3, <2>7, <2>8 DEF ScopeInv
<1>4. CASE Sink
  <2> DEFINE s == fly.sp
             p == fly.pos
             r == plan[s][p - 1].right
  <2>1. /\ s \in Spines /\ p \in 2..Len(plan[s]) /\ IsFilter(plan[s][p])
        /\ plan[s] \in Seq(Op) /\ GoesRight(plan, plan[s], p)
    BY <1>0, <1>4, InFlight DEF Sink
  <2>2. plan' = SinkTo(plan, s, p, r)
    BY <1>4 DEF Sink, SinkTo
  <2>3. /\ plan' \in [Spines -> Seq(Op)] /\ Sound(plan')
        /\ r \in 1..(s - 1) /\ r \in Spines /\ r # s
    BY <1>0, <2>1, <2>2, SinkKeeps DEF TypeOK
  <2>4. /\ plan'[r] = Append(plan[r], plan[s][p])
        /\ plan'[s] = Drop(plan[s], p)
        /\ \A u \in Spines : u # s /\ u # r => plan'[u] = plan[u]
        /\ fly' = [sp |-> r, pos |-> Len(plan[r]) + 1]
        /\ at' = IF s = cur THEN at - 1 ELSE at
        /\ UNCHANGED <<cur, prev, rounds, phase>>
    BY <1>0, <1>4, <2>1, <2>2, <2>3 DEF Sink, SinkTo, TypeOK
  <2>5. plan[r] \in Seq(Op) /\ plan[s][p] \in Op
    BY <1>0, <2>1, <2>3, SMTT(30) DEF TypeOK
  <2> HIDE DEF s, p, r
  <2>6. /\ Len(plan[r]) + 1 \in 1..Len(plan'[r])
        /\ IsFilter(plan'[r][Len(plan[r]) + 1])
    BY <2>1, <2>4, <2>5, PutOnFacts
  <2>7. Len(plan'[s]) = Len(plan[s]) - 1
    <3>1. p \in 1..Len(plan[s]) BY <2>1
    <3> QED BY ONLY <3>1, <2>1, <2>4, DropFacts
  <2>8. /\ cur \in Spines /\ s \in Int /\ r \in Int /\ cur \in Int
        /\ r < s /\ s <= cur /\ r # cur /\ phase = "pass"
        /\ at \in Nat \ {0} /\ at <= Len(plan[cur]) + 1
        /\ s = cur => p < at /\ at - 1 \in Nat \ {0}
    <3>1. Flying BY <1>4 DEF Sink
    <3>2. s = cur => p < at
      BY <1>0, <3>1 DEF Control, s, p
    <3>3. cur \in Spines /\ s <= cur /\ phase = "pass"
          /\ at <= Len(plan[cur]) + 1
      BY <1>0, <3>1 DEF Control, s
    <3>4. at \in Nat \ {0} BY <1>0 DEF TypeOK
    <3>5. s \in Int /\ r \in Int /\ cur \in Int /\ r < s
      BY <2>1, <2>3, <3>3, <1>n
    <3>6. r # cur BY <3>3, <3>5
    <3>7. s = cur => at - 1 \in Nat \ {0}
      <4>1. p \in Int /\ 2 <= p BY <2>1
      <4> QED BY <4>1, <3>2, <3>4
    <3> QED BY <3>2, <3>3, <3>4, <3>5, <3>6, <3>7, SMTT(30)
  <2>9. at' \in Nat \ {0} /\ at' <= Len(plan'[cur]) + 1
    <3>1. CASE s = cur BY <3>1, <2>1, <2>4, <2>7, <2>8
    <3>2. CASE s # cur BY <3>2, <2>4, <2>8
    <3> QED BY <3>1, <3>2
  <2>10. TypeOK'
    <3>1. fly' \in [sp : 0..NumSpines, pos : Nat]
          /\ fly'.sp = r /\ fly'.pos = Len(plan[r]) + 1
      BY <1>n, <2>3, <2>4, <2>5
    <3> QED BY <1>0, <3>1, <2>3, <2>4, <2>6, <2>9 DEF TypeOK
  <2>11. Control' BY <2>4, <2>8, <2>9 DEF Control
  <2> QED BY <2>3, <2>10, <2>11, SMTT(30) DEF ScopeInv
<1>5. CASE Rest
  <2>1. Sound(plan)' BY <1>0, <1>5 DEF Rest
  <2>2. ~Flying' BY <1>5 DEF Rest, Flying
  <2>3. TypeOK' BY <1>0, <1>5, <1>n, <2>2 DEF Rest, TypeOK, Grounded
  <2>4. Control' BY <1>0, <1>5, <2>2 DEF Rest, Control
  <2> QED BY <2>1, <2>3, <2>4 DEF ScopeInv
<1>6. CASE NextSpine
  <2>1. Sound(plan)' BY <1>0, <1>6 DEF NextSpine
  <2>2. TypeOK' BY <1>0, <1>6, <1>n DEF NextSpine, TypeOK, Flying
  <2>3. \A u \in Spines : Len(plan[u]) \in Nat BY <1>0 DEF TypeOK
  <2>4. Control' BY <1>0, <1>6, <2>3 DEF NextSpine, Control, Flying
  <2> QED BY <2>1, <2>2, <2>4 DEF ScopeInv
<1>7. CASE Again
  <2>1. Sound(plan)' BY <1>0, <1>7 DEF Again
  <2>2. ~Flying /\ ~Flying'
    <3>1. ~ (cur \in Spines) BY <1>0, <1>7, <1>n DEF Again, TypeOK, Root
    <3> QED BY <1>0, <1>7, <3>1 DEF Again, Control, Flying
  <2>3. TypeOK' BY <1>0, <1>7, <1>n, <2>2, SpineAssumption DEF Again, TypeOK
  <2>4. \A u \in Spines : Len(plan[u]) \in Nat BY <1>0 DEF TypeOK
  <2>5. Control' BY <1>0, <1>7, <2>2, <2>4 DEF Again, Control
  <2> QED BY <2>1, <2>3, <2>5 DEF ScopeInv
<1>8. CASE Finish
  <2>1. Sound(plan)' BY <1>0, <1>8 DEF Finish
  <2>2. ~Flying /\ ~Flying'
    <3>1. ~ (cur \in Spines) BY <1>0, <1>8, <1>n DEF Finish, TypeOK, Root
    <3> QED BY <1>0, <1>8, <3>1 DEF Finish, Control, Flying
  <2>3. TypeOK' BY <1>0, <1>8, <2>2 DEF Finish, TypeOK
  <2>4. Control' BY <1>0, <1>8, <2>2 DEF Finish, Control
  <2> QED BY <2>1, <2>3, <2>4 DEF ScopeInv
<1>9. CASE UNCHANGED vars
  <2>1. Sound(plan)' BY <1>0, <1>9 DEF vars
  <2>2. TypeOK' BY <1>0, <1>9 DEF vars, TypeOK, Flying
  <2>3. Control' BY <1>0, <1>9 DEF vars, Control, Flying
  <2> QED BY <2>1, <2>2, <2>3 DEF ScopeInv
<1> QED
  BY <1>1, <1>2, <1>3, <1>4, <1>5, <1>6, <1>7, <1>8, <1>9
     DEF Next, Work, Returned

(* What is bound at the top of a spine, its columns, stays the same.       *)
LEMMA StepKeepsColumns ==
  ASSUME ScopeInv, [Next]_vars, NEW r \in Spines
  PROVE  BoundVars(plan'[r]) = BoundVars(plan[r])
<1>1. TypeOK /\ Sound(plan)
  BY DEF ScopeInv
<1>2. plan \in [Spines -> Seq(Op)]
  BY <1>1 DEF TypeOK
<1>3. CASE Slide
  <2> DEFINE s == fly.sp
             p == fly.pos
  <2>1. /\ s \in Spines /\ p \in 2..Len(plan[s])
        /\ IsFilter(plan[s][p]) /\ Slides(plan[s], p)
    BY <1>1, <1>3, InFlight DEF Slide
  <2>2. plan' = SlideTo(plan, s, p)
    BY <1>3 DEF Slide, SlideTo
  <2> HIDE DEF s, p
  <2>3. /\ plan' \in [Spines -> Seq(Op)] /\ Sound(plan')
        /\ \A u \in Spines : BoundVars(plan'[u]) = BoundVars(plan[u])
    BY ONLY <1>1, <1>2, <2>1, <2>2, SlideKeeps, SMTT(30)
  <2> QED
    BY <2>3
<1>4. CASE Sink
  <2>1. PICK s, p, q, t : s = fly.sp /\ p = fly.pos /\ q = plan[s][p - 1].right /\ t = plan'
    OBVIOUS
  <2>2. /\ s \in Spines /\ p \in 2..Len(plan[s])
        /\ IsFilter(plan[s][p]) /\ GoesRight(plan, plan[s], p)
    BY <1>1, <1>4, <2>1, InFlight, ZenonT(30) DEF Sink
  <2>3. t = SinkTo(plan, s, p, q) /\ q = plan[s][p - 1].right
    BY <1>4, <2>1 DEF Sink, SinkTo
  <2>4. \A u \in Spines : BoundVars(t[u]) = BoundVars(plan[u])
    <3>1. \A s2 \in Spines : \A p2 \in 2..Len(plan[s2]) :
             IsFilter(plan[s2][p2]) /\ GoesRight(plan, plan[s2], p2) =>
             \A r2 : r2 = plan[s2][p2 - 1].right =>
             \A t2 : t2 = SinkTo(plan, s2, p2, r2) =>
                \A u \in Spines : BoundVars(t2[u]) = BoundVars(plan[u])
      BY ONLY <1>1, <1>2, SinkKeeps, SMTT(30)
    <3> QED
      BY ONLY <2>2, <2>3, <3>1
  <2> QED
    BY <2>1, <2>4
<1>5. CASE ~Slide /\ ~Sink
  <2>1. UNCHANGED plan
    BY <1>5 DEF Next, Work, Returned, vars, Visit, PickUp, Rest, NextSpine, Again, Finish
  <2> QED
    BY <2>1
<1> QED
  BY <1>3, <1>4, <1>5

LEMMA ScopeInvariant == Spec => []ScopeInv
  BY ScopeInit, ScopeStep, PTL DEF Spec

(* The variables of optimize keep their types.                             *)
THEOREM TypeCorrect == Spec => []TypeOK
<1>1. ScopeInv => TypeOK BY DEF ScopeInv
<1> QED BY <1>1, ScopeInvariant, PTL

(* Whatever the plan, no rewrite of optimize takes a predicate, or any     *)
(* other operator, out of the scope of a variable it reads.                *)
THEOREM ScopesAreKept == Spec => []ScopeKept
<1>1. ScopeInv => ScopeKept BY DEF ScopeInv, Sound, ScopeKept
<1> QED BY <1>1, ScopeInvariant, PTL

-----------------------------------------------------------------------------
(***************************************************************************)
(* Refinement.  The operators of Plans that Pushdown uses are the ones     *)
(* Optimizer uses.                                                         *)
(***************************************************************************)
LEMMA SameScopes ==
  /\ \A q, n : Promise!Bound(q, n) = Bound(q, n)
  /\ \A q : Promise!BoundVars(q) = BoundVars(q)
  BY DEF Promise!Bound, Bound, Promise!BoundVars, BoundVars,
         Promise!HidesInput, HidesInput

LEMMA SameShapes ==
  /\ Promise!Spines = Spines /\ Promise!Op = Op
  /\ \A q, p : Promise!Swap(q, p) = Swap(q, p) /\ Promise!Drop(q, p) = Drop(q, p)
  /\ \A op : Promise!IsFilter(op) = IsFilter(op)
  BY DEF Promise!Spines, Spines, Promise!Op, Op, Promise!Argument, Argument,
         Promise!Kinds, Kinds,
         Promise!LeafKinds, LeafKinds, Promise!UnaryKinds, UnaryKinds,
         Promise!BinaryKinds, BinaryKinds, Promise!Swap, Swap, Promise!Drop,
         Drop, Promise!IsFilter, IsFilter

LEMMA SameSoundness ==
  /\ \A pl : Promise!WellFormed(pl) = WellFormed(pl)
  /\ \A pl : Promise!RightScopesExact(pl) = RightScopesExact(pl)
  /\ \A pl : Promise!WellScoped(pl) = WellScoped(pl)
  BY SameScopes, SameShapes
     DEF Promise!WellFormed, WellFormed, Promise!WellFormedOp, WellFormedOp,
         Promise!BindingKinds, BindingKinds, Promise!BinaryKinds, BinaryKinds,
         Promise!RightScopesExact, RightScopesExact, Promise!WellScoped,
         WellScoped

LEMMA StepRefines == ScopeInv /\ [Next]_vars => [Promise!Next]_plan
<1> SUFFICES ASSUME ScopeInv, [Next]_vars PROVE [Promise!Next]_plan OBVIOUS
<1>0. TypeOK /\ Sound(plan) BY DEF ScopeInv
<1>1. CASE Slide
  <2> DEFINE s == fly.sp
             p == fly.pos
  <2>1. /\ s \in Spines /\ p \in 2..Len(plan[s]) /\ IsFilter(plan[s][p])
        /\ plan[s] \in Seq(Op) /\ Slides(plan[s], p)
        /\ plan' = [plan EXCEPT ![s] = Swap(@, p)]
    BY <1>0, <1>1, InFlight DEF Slide
  <2>2. /\ plan[s][p].used \subseteq Bound(plan[s], p - 2)
        /\ plan[s][p].used \cap Promise!Writes(plan[s][p - 1]) = {}
    BY <1>0, <2>1, SlideScope DEF TypeOK
  <2>3. plan[s][p - 1].kind \in Promise!Transparent
    BY <2>1, SlidesShape DEF Promise!Transparent
  <2> HIDE DEF s, p
  <2>4. Promise!MoveBelow(s, p)
    BY <2>1, <2>2, <2>3, SameScopes, SameShapes
       DEF Promise!MoveBelow, Promise!FilterAt
  <2> QED BY <2>1, <2>4, SameShapes DEF Promise!Next
<1>2. CASE Sink
  <2> DEFINE s == fly.sp
             p == fly.pos
             r == plan[s][p - 1].right
  <2>1. /\ s \in Spines /\ p \in 2..Len(plan[s]) /\ IsFilter(plan[s][p])
        /\ plan[s] \in Seq(Op) /\ GoesRight(plan, plan[s], p)
    BY <1>0, <1>2, InFlight DEF Sink
  <2>2. plan' = [plan EXCEPT ![s] = Drop(@, p), ![r] = Append(@, plan[s][p])]
    BY <1>2 DEF Sink
  <2>3. /\ plan[s][p - 1].kind = "Cartesian"
        /\ plan[s][p].used \subseteq BoundVars(plan[r])
    BY <2>1, SMTT(30) DEF GoesRight
  <2> HIDE DEF s, p
  <2>4. Promise!MoveAcross(s, p)
    BY <2>1, <2>2, <2>3, SameScopes, SameShapes
       DEF Promise!MoveAcross, Promise!FilterAt
  <2> QED BY <2>1, <2>4, SameShapes DEF Promise!Next
<1>3. CASE ~Slide /\ ~Sink
  <2>1. UNCHANGED plan
    BY <1>3 DEF Next, Work, Returned, vars, Visit, PickUp, Rest, NextSpine,
                Again, Finish
  <2> QED BY <2>1
<1> QED BY <1>1, <1>2, <1>3

(* optimize implements the promise of its module doc: every change of the  *)
(* plan is a filter moving one step to where its variables are still bound *)
(* and past nothing that selects rows, writes to the graph or rebinds what *)
(* the predicate reads.                                                    *)
THEOREM OptimizerImplementsPushdown == Spec => ImplementsPushdown
<1>1. Init => Promise!Init
  BY InputsAssumption, SameShapes, SameSoundness DEF Init, Promise!Init
<1>2. ScopeInv /\ [Next]_vars => [Promise!Next]_plan BY StepRefines
<1> QED BY <1>1, <1>2, ScopeInvariant, PTL DEF Spec, Promise!Spec, ImplementsPushdown

-----------------------------------------------------------------------------
(***************************************************************************)
(* One pass is enough.  Behind the cursor every filter is held, but the    *)
(* one in flight, which has only other operators above it there; and once  *)
(* a pass is complete nothing can move.                                    *)
(***************************************************************************)
Visited(s, i) == s < cur \/ (s = cur /\ i < at)

InFlightAt(s, i) == Flying /\ fly.sp = s /\ fly.pos = i

PutDown ==
  \A s \in Spines : \A i \in 1..Len(plan[s]) :
     Visited(s, i) /\ IsFilter(plan[s][i]) /\ ~InFlightAt(s, i)
       => Held(plan, s, i)

ClearAbove ==
  Flying => \A i \in 1..Len(plan[fly.sp]) :
              i > fly.pos /\ Visited(fly.sp, i) => ~IsFilter(plan[fly.sp][i])

AllHeld(pl) ==
  \A s \in Spines : \A i \in 1..Len(pl[s]) : IsFilter(pl[s][i]) => Held(pl, s, i)

Settled ==
  /\ rounds \in 0..1
  /\ rounds = 1 => plan = prev /\ AllHeld(plan)

PassInv == PutDown /\ ClearAbove /\ Settled

(* What holds a filter is the operator below it and the variables bound    *)
(* below that and in its second input.                                     *)
LEMMA HeldSame ==
  ASSUME NEW pl \in [Spines -> Seq(Op)], NEW t \in [Spines -> Seq(Op)],
         WellFormed(pl), NEW s \in Spines,
         NEW i \in 1..Len(pl[s]), i \in 1..Len(t[s]),
         t[s][i] = pl[s][i],
         i > 1 => /\ t[s][i - 1] = pl[s][i - 1]
                  /\ Bound(t[s], i - 2) = Bound(pl[s], i - 2),
         \A u \in Spines : BoundVars(t[u]) = BoundVars(pl[u]),
         Held(pl, s, i)
  PROVE  Held(t, s, i)
<1>1. CASE i = 1 BY <1>1 DEF Held
<1>2. CASE i > 1
  <2>1. Slides(t[s], i) = Slides(pl[s], i)
    BY <1>2 DEF Slides, GoesLeft
  <2>2. GoesRight(t, t[s], i) = GoesRight(pl, pl[s], i)
    <3>1. CASE pl[s][i - 1].kind = "Cartesian"
      <4>1. WellFormedOp(s, pl[s][i - 1])
        <5>1. i - 1 \in 1..Len(pl[s]) BY <1>2
        <5> QED BY <5>1 DEF WellFormed
      <4>2. pl[s][i - 1].right \in Spines
        BY <3>1, <4>1, RightShape DEF BinaryKinds
      <4> QED BY <1>2, <4>2 DEF GoesRight
    <3>2. CASE pl[s][i - 1].kind # "Cartesian"
      BY <1>2, <3>2 DEF GoesRight
    <3> QED BY <3>1, <3>2
  <2>3. ~Slides(pl[s], i) /\ ~GoesRight(pl, pl[s], i)
    BY <1>2 DEF Held
  <2> QED BY <1>2, <2>1, <2>2, <2>3 DEF Held
<1> QED BY <1>1, <1>2

(* A slide leaves the other filters held, unless one was right above it.   *)
LEMMA SlideHeld ==
  ASSUME NEW pl \in [Spines -> Seq(Op)], Sound(pl),
         NEW s \in Spines, NEW p \in 2..Len(pl[s]),
         IsFilter(pl[s][p]), Slides(pl[s], p),
         NEW t, t = SlideTo(pl, s, p),
         NEW u \in Spines, NEW i \in 1..Len(pl[u]), Held(pl, u, i),
         u = s => i # p - 1 /\ i # p /\ i # p + 1
  PROVE  Held(t, u, i)
<1> USE DEF SlideTo
<1> DEFINE q == pl[s]
<1>1. /\ t \in [Spines -> Seq(Op)]
      /\ \A r \in Spines : BoundVars(t[r]) = BoundVars(pl[r])
  BY SlideKeeps
<1>2. q \in Seq(Op) /\ q[p].intro = {} /\ IsFilter(q[p])
  BY FilterShape, SMTT(30) DEF Sound
<1>3. t[s] = Swap(q, p) /\ \A r \in Spines : r # s => t[r] = pl[r] OBVIOUS
<1>4. CASE u # s BY <1>1, <1>3, <1>4, HeldSame DEF Sound
<1>5. CASE u = s
  <2> HIDE DEF q
  <2>1. /\ Len(t[s]) = Len(q)
        /\ \A j \in 1..Len(q) : j # p - 1 /\ j # p => t[s][j] = q[j]
    <3>1. p \in 2..Len(q) BY DEF q
    <3> QED BY ONLY <3>1, <1>2, <1>3, SwapFacts
  <2>2. \A n \in 0..Len(q) : n # p - 1 => Bound(t[s], n) = Bound(q, n)
    <3>1. p \in 2..Len(q) BY DEF q
    <3> QED BY ONLY <3>1, <1>2, <1>3, SwapBound
  <2>3. i \in 1..Len(q) /\ i # p - 1 /\ i # p /\ i # p + 1 /\ p \in Int
    BY <1>5 DEF q
  <2>4. t[s][i] = q[i] BY <2>1, <2>3
  <2>5. i > 1 => t[s][i - 1] = q[i - 1] /\ Bound(t[s], i - 2) = Bound(q, i - 2)
    <3> SUFFICES ASSUME i > 1 PROVE t[s][i - 1] = q[i - 1]
                                    /\ Bound(t[s], i - 2) = Bound(q, i - 2)
      OBVIOUS
    <3>1. /\ i - 1 \in 1..Len(q) /\ i - 1 # p - 1 /\ i - 1 # p
          /\ i - 2 \in 0..Len(q) /\ i - 2 # p - 1
      BY <2>3
    <3> QED BY <3>1, <2>1, <2>2
  <2> QED BY <1>1, <1>5, <2>1, <2>3, <2>4, <2>5, HeldSame DEF q, Sound
<1> QED BY <1>4, <1>5

(* A sink leaves held the filters below where it started, in the spine it  *)
(* goes to and in all others.                                              *)
LEMMA SinkHeld ==
  ASSUME NEW pl \in [Spines -> Seq(Op)], Sound(pl),
         NEW s \in Spines, NEW p \in 2..Len(pl[s]),
         IsFilter(pl[s][p]), GoesRight(pl, pl[s], p),
         NEW r, r = pl[s][p - 1].right,
         NEW t, t = SinkTo(pl, s, p, r)
  PROVE  \A u \in Spines : \A i \in 1..Len(pl[u]) :
           Held(pl, u, i) /\ (u = s => i < p) => Held(t, u, i)
<1>a. r \in Spines BY SinkKeeps
<1>b. r # s BY SinkKeeps
<1>c. t \in [Spines -> Seq(Op)] BY SinkKeeps
<1>d. \A v \in Spines : BoundVars(t[v]) = BoundVars(pl[v]) BY SinkKeeps
<1>1. /\ t \in [Spines -> Seq(Op)] /\ r \in Spines /\ r # s
      /\ \A v \in Spines : BoundVars(t[v]) = BoundVars(pl[v])
  BY <1>a, <1>b, <1>c, <1>d
<1> SUFFICES ASSUME NEW u \in Spines, NEW i \in 1..Len(pl[u]), Held(pl, u, i),
                    u = s => i < p
             PROVE  Held(t, u, i)
  OBVIOUS
<1> USE DEF SinkTo
<1> DEFINE q == pl[s]
           f == pl[s][p]
<1>2. q \in Seq(Op) /\ pl[r] \in Seq(Op) /\ f \in Op /\ f.intro = {} /\ IsFilter(f)
  <2>1. WellFormed(pl) /\ p \in 1..Len(pl[s]) BY DEF Sound
  <2>2. f \in Op /\ f.intro = {} BY <2>1, FilterShape
  <2> QED BY <1>1, <2>2
<1>3. /\ t[s] = Drop(q, p) /\ t[r] = Append(pl[r], f)
      /\ \A v \in Spines : v # s /\ v # r => t[v] = pl[v]
  BY <1>1, SMTT(30)
<1>4. CASE u # s /\ u # r BY <1>1, <1>3, <1>4, HeldSame DEF Sound
<1>5. CASE u = s
  <2>0. p \in 1..Len(q) /\ p \in Int OBVIOUS
  <2>f. q[p].intro = {} /\ IsFilter(q[p]) BY <1>2
  <2>i. i \in 1..Len(q) /\ i < p BY <1>5
  <2> HIDE DEF q, f
  <2>1. /\ Len(t[s]) = Len(q) - 1
        /\ \A j \in 1..(p - 1) : t[s][j] = q[j]
    BY ONLY <2>0, <1>2, <1>3, DropFacts
  <2>2. \A n \in 0..(p - 1) : Bound(t[s], n) = Bound(q, n)
    BY ONLY <2>0, <2>f, <1>2, <1>3, DropBound
  <2>3. i \in 1..(p - 1) /\ i \in 1..Len(t[s]) BY <2>0, <2>1, <2>i
  <2>4. i > 1 => i - 1 \in 1..(p - 1) /\ i - 2 \in 0..(p - 1) BY <2>3, SMTT(30)
  <2> QED BY <1>1, <1>5, <2>1, <2>2, <2>3, <2>4, HeldSame DEF q, Sound
<1>6. CASE u = r
  <2> HIDE DEF q, f
  <2>1. /\ Len(t[r]) = Len(pl[r]) + 1
        /\ \A j \in 1..Len(pl[r]) : t[r][j] = pl[r][j]
    BY ONLY <1>2, <1>3, PutOnFacts
  <2>2. \A n \in 0..Len(pl[r]) : Bound(t[r], n) = Bound(pl[r], n)
    BY ONLY <1>2, <1>3, PutOnBound, ZenonT(30)
  <2>3. i \in 1..Len(pl[r]) /\ i \in 1..Len(t[r]) BY <1>6, <1>2, <2>1
  <2>l. Len(pl[r]) \in Nat BY <1>2
  <2>4. i > 1 => i - 1 \in 1..Len(pl[r]) /\ i - 2 \in 0..Len(pl[r])
    BY ONLY <2>3, <2>l
  <2>5. t[u][i] = pl[u][i] /\ i \in 1..Len(t[u]) BY <1>6, <2>1, <2>3
  <2>6. i > 1 => /\ t[u][i - 1] = pl[u][i - 1]
                 /\ Bound(t[u], i - 2) = Bound(pl[u], i - 2)
    BY <1>6, <2>1, <2>2, <2>4
  <2>7. WellFormed(pl) BY DEF Sound
  <2> QED BY <1>1, <2>5, <2>6, <2>7, HeldSame
<1> QED BY <1>4, <1>5, <1>6

LEMMA PassInit == Init => PassInv
<1> SUFFICES ASSUME Init PROVE PassInv OBVIOUS
<1>1. PutDown
  <2> SUFFICES ASSUME NEW s \in Spines, NEW i \in 1..Len(plan[s]), Visited(s, i)
               PROVE  FALSE
    BY DEF PutDown
  <2> QED BY SpineAssumption DEF Init, Visited, Spines
<1>2. ClearAbove BY DEF Init, ClearAbove, Flying
<1>3. Settled BY DEF Init, Settled
<1> QED BY <1>1, <1>2, <1>3 DEF PassInv

(* Any sound plan may be handed to optimize.                               *)
HandedOver ==
  /\ plan \in [Spines -> Seq(Op)] /\ Sound(plan)
  /\ cur = 1 /\ at = 1 /\ fly = Grounded
  /\ prev = plan /\ rounds = 0 /\ phase = "pass"

LEMMA StartsFromAny == HandedOver => ScopeInv /\ PassInv
<1> SUFFICES ASSUME HandedOver PROVE ScopeInv /\ PassInv
  OBVIOUS
<1>1. ~Flying
  BY DEF HandedOver, Flying
<1>2. TypeOK
  BY <1>1, SpineAssumption DEF HandedOver, TypeOK, Grounded
<1>3. Control
  BY <1>1 DEF HandedOver, Control
<1>4. ScopeInv
  BY <1>2, <1>3 DEF HandedOver, ScopeInv
<1>5. PutDown
  <2> SUFFICES ASSUME NEW s \in Spines, NEW i \in 1..Len(plan[s]), Visited(s, i)
               PROVE  FALSE
    BY DEF PutDown
  <2> QED
    BY SpineAssumption DEF HandedOver, Visited, Spines
<1>6. ClearAbove /\ Settled
  BY <1>1 DEF HandedOver, ClearAbove, Settled
<1> QED
  BY <1>4, <1>5, <1>6 DEF PassInv

LEMMA PassStep == ScopeInv /\ PassInv /\ [Next]_vars => PassInv'
<1> SUFFICES ASSUME ScopeInv, PassInv, [Next]_vars PROVE PassInv' OBVIOUS
<1>0. /\ TypeOK /\ Control /\ Sound(plan)
      /\ PutDown /\ ClearAbove /\ Settled
  BY DEF ScopeInv, PassInv
<1>n. NumSpines \in Nat /\ Spines = 1..NumSpines /\ cur \in Nat /\ at \in Nat
  BY <1>0, SpineAssumption DEF Spines, TypeOK
<1>1. CASE Visit
  <2>1. ~Flying /\ ~Flying' BY <1>1 DEF Visit, Flying
  <2>2. PutDown'
    <3> SUFFICES ASSUME NEW s \in Spines, NEW i \in 1..Len(plan[s]),
                        Visited(s, i)', IsFilter(plan[s][i])
                 PROVE  Held(plan, s, i)
      BY <1>1 DEF Visit, PutDown
    <3>1. Visited(s, i) BY <1>1, <1>n DEF Visit, Visited
    <3> QED BY <1>0, <2>1, <3>1 DEF PutDown, InFlightAt
  <2>3. ClearAbove' BY <2>1 DEF ClearAbove
  <2>4. Settled' BY <1>0, <1>1 DEF Visit, Settled
  <2> QED BY <2>2, <2>3, <2>4 DEF PassInv
<1>2. CASE PickUp
  <2>1. /\ ~Flying /\ cur \in Spines /\ at \in 1..Len(plan[cur])
        /\ fly' = [sp |-> cur, pos |-> at] /\ at' = at + 1
        /\ UNCHANGED <<plan, cur, prev, rounds>>
    BY <1>2 DEF PickUp
  <2>2. PutDown'
    <3> SUFFICES ASSUME NEW s \in Spines, NEW i \in 1..Len(plan[s]),
                        Visited(s, i)', IsFilter(plan[s][i]), ~InFlightAt(s, i)'
                 PROVE  Held(plan, s, i)
      BY <2>1 DEF PutDown
    <3>1. Flying' BY <2>1, <1>n DEF Flying, Grounded
    <3>2. ~ (s = cur /\ i = at) BY <2>1, <3>1 DEF InFlightAt
    <3>3. Visited(s, i) BY <2>1, <3>2, <1>n DEF Visited
    <3> QED BY <1>0, <2>1, <3>3 DEF PutDown, InFlightAt
  <2>3. ClearAbove'
    BY <2>1, <1>n DEF ClearAbove, Visited
  <2>4. Settled' BY <1>0, <2>1 DEF Settled
  <2> QED BY <2>2, <2>3, <2>4 DEF PassInv
<1>3. CASE Slide
  <2> DEFINE s == fly.sp
             p == fly.pos
             q == plan[s]
  <2>1. /\ s \in Spines /\ p \in 2..Len(plan[s]) /\ IsFilter(plan[s][p])
        /\ plan[s] \in Seq(Op) /\ Slides(plan[s], p)
        /\ plan' = SlideTo(plan, s, p)
        /\ fly' = [sp |-> s, pos |-> p - 1]
        /\ UNCHANGED <<cur, at, prev, rounds>> /\ Flying
    BY <1>0, <1>3, InFlight DEF Slide, SlideTo, TypeOK
  <2>6. \A i \in 1..Len(plan[s]) : i > p /\ Visited(s, i) => ~IsFilter(plan[s][i])
    BY <1>0, <2>1 DEF ClearAbove
  <2> HIDE DEF s, p, q
  <2>2. /\ plan'[s] = Swap(plan[s], p)
        /\ \A u \in Spines : u # s => plan'[u] = plan[u]
    BY <1>0, <2>1 DEF SlideTo, TypeOK
  <2>3. /\ Len(plan'[s]) = Len(plan[s])
        /\ plan'[s][p - 1] = plan[s][p] /\ plan'[s][p] = plan[s][p - 1]
        /\ \A i \in 1..Len(plan[s]) :
             i # p - 1 /\ i # p => plan'[s][i] = plan[s][i]
    <3> DEFINE b == plan[s]
    <3>1. b \in Seq(Op) /\ p \in 2..Len(b) /\ plan'[s] = Swap(b, p)
      BY ONLY <2>1, <2>2
    <3> HIDE DEF b
    <3>2. /\ Len(Swap(b, p)) = Len(b)
          /\ Swap(b, p)[p - 1] = b[p] /\ Swap(b, p)[p] = b[p - 1]
          /\ \A i \in 1..Len(b) : i # p - 1 /\ i # p => Swap(b, p)[i] = b[i]
      BY ONLY <3>1, SwapFacts
    <3> QED BY ONLY <3>1, <3>2 DEF b
  <2>4. ~IsFilter(plan[s][p - 1])
    BY <2>1, SlidesShape DEF IsFilter
  <2>5. plan \in [Spines -> Seq(Op)] BY <1>0 DEF TypeOK
  <2>h. ASSUME NEW u \in Spines, NEW i \in 1..Len(plan[u]), Held(plan, u, i),
               u = s => i # p - 1 /\ i # p /\ i # p + 1
        PROVE  Held(plan', u, i)
    <3>1. Sound(plan) BY <1>0
    <3> QED BY ONLY <2>1, <2>5, <2>h, <3>1, SlideHeld
  <2>7. PutDown'
    <3> SUFFICES ASSUME NEW u \in Spines, NEW i \in 1..Len(plan'[u]),
                        Visited(u, i), IsFilter(plan'[u][i]), ~InFlightAt(u, i)'
                 PROVE  Held(plan', u, i)
      BY <2>1 DEF PutDown, Visited
    <3>1. i \in 1..Len(plan[u]) BY <2>2, <2>3
    <3>2. u = s => i # p - 1
      <4>1. Flying' BY <2>1 DEF Flying, Grounded, s
      <4> QED BY <2>1, <4>1 DEF InFlightAt
    <3>3. u = s => i # p BY <2>3, <2>4
    <3>4. plan'[u][i] = plan[u][i] BY <2>2, <2>3, <3>1, <3>2, <3>3
    <3>5. u = s => i # p + 1
      <4> SUFFICES ASSUME u = s, i = p + 1 PROVE FALSE OBVIOUS
      <4>1. i > p BY <2>1
      <4> QED BY <4>1, <2>6, <3>1, <3>4
    <3>6. ~InFlightAt(u, i) BY <3>3 DEF InFlightAt, s, p
    <3>7. Held(plan, u, i) BY <1>0, <3>1, <3>4, <3>6 DEF PutDown
    <3> QED BY <2>h, <3>1, <3>2, <3>3, <3>5, <3>7
  <2>8. ClearAbove'
    <3> SUFFICES ASSUME NEW i \in 1..Len(plan'[s]), i > p - 1, Visited(s, i)
                 PROVE  ~IsFilter(plan'[s][i])
      BY <2>1 DEF ClearAbove, Visited
    <3>1. CASE i = p BY <3>1, <2>3, <2>4
    <3>2. CASE i # p
      <4>1. i > p /\ i # p - 1 /\ i \in 1..Len(plan[s]) BY <3>2, <2>1, <2>3
      <4> QED BY <4>1, <3>2, <2>3, <2>6
    <3> QED BY <3>1, <3>2
  <2>9. Settled'
    <3>1. rounds # 1
      <4> SUFFICES ASSUME rounds = 1 PROVE FALSE OBVIOUS
      <4>1. AllHeld(plan) BY <1>0 DEF Settled
      <4>2. Held(plan, s, p) /\ p > 1
        BY <4>1, <2>1, SMTT(30) DEF AllHeld
      <4> QED BY <4>2, <2>1 DEF Held
    <3> QED BY <1>0, <2>1, <3>1 DEF Settled
  <2> QED BY <2>7, <2>8, <2>9 DEF PassInv
<1>4. CASE Sink
  <2> DEFINE s == fly.sp
             p == fly.pos
             r == plan[s][p - 1].right
  <2>1. /\ s \in Spines /\ p \in 2..Len(plan[s]) /\ IsFilter(plan[s][p])
        /\ plan[s] \in Seq(Op) /\ GoesRight(plan, plan[s], p)
        /\ Flying
    BY <1>0, <1>4, InFlight, SMTT(30) DEF Sink
  <2>2. plan' = SinkTo(plan, s, p, r)
    BY <1>4 DEF Sink, SinkTo
  <2>s. /\ plan \in [Spines -> Seq(Op)] /\ Sound(plan)
        /\ r = plan[s][p - 1].right
    BY <1>0 DEF TypeOK
  <2>3. /\ plan' \in [Spines -> Seq(Op)]
        /\ r \in 1..(s - 1) /\ r \in Spines /\ r # s
        /\ \A v \in Spines : BoundVars(plan'[v]) = BoundVars(plan[v])
    <3> HIDE DEF s, p, r
    <3> QED BY ONLY <2>s, <2>1, <2>2, SinkKeeps, SMTT(30)
  <2>4. /\ plan'[r] = Append(plan[r], plan[s][p])
        /\ plan'[s] = Drop(plan[s], p)
        /\ \A u \in Spines : u # s /\ u # r => plan'[u] = plan[u]
        /\ fly' = [sp |-> r, pos |-> Len(plan[r]) + 1]
        /\ at' = IF s = cur THEN at - 1 ELSE at
        /\ UNCHANGED <<cur, prev, rounds>>
    BY <1>0, <1>4, <2>1, <2>2, <2>3 DEF Sink, SinkTo, TypeOK
  <2>5. /\ plan[r] \in Seq(Op) /\ plan[s][p] \in Op
        /\ plan \in [Spines -> Seq(Op)]
    BY <1>0, <2>1, <2>3, SMTT(30) DEF TypeOK
  <2>6. \A i \in 1..Len(plan[s]) : i > p /\ Visited(s, i) => ~IsFilter(plan[s][i])
    BY <1>0, <2>1 DEF ClearAbove
  <2>7. s <= cur BY <1>0, <2>1 DEF Control
  <2>h. \A u \in Spines : \A i \in 1..Len(plan[u]) :
          Held(plan, u, i) /\ (u = s => i < p) => Held(plan', u, i)
    <3> HIDE DEF s, p, r
    <3> QED BY ONLY <2>s, <2>1, <2>2, SinkHeld
  <2> HIDE DEF s, p, r
  <2>8. /\ Len(plan'[r]) = Len(plan[r]) + 1
        /\ \A i \in 1..Len(plan[r]) : plan'[r][i] = plan[r][i]
    BY ONLY <2>4, <2>5, PutOnFacts
  <2>9. /\ Len(plan'[s]) = Len(plan[s]) - 1
        /\ \A i \in 1..(p - 1) : plan'[s][i] = plan[s][i]
        /\ \A i \in p..(Len(plan[s]) - 1) : plan'[s][i] = plan[s][i + 1]
    <3>1. p \in 1..Len(plan[s]) BY <2>1
    <3> QED BY ONLY <3>1, <2>1, <2>4, DropFacts, ZenonT(30)
  <2>n. /\ p \in Nat /\ Len(plan[s]) \in Nat /\ Len(plan[r]) \in Nat
        /\ r < s /\ r < cur /\ r # cur /\ s \in Nat /\ r \in Nat
    BY <2>1, <2>3, <2>5, <2>7, <1>n
  <2>10. Flying' BY <2>4, <2>n DEF Flying, Grounded
  <2>11. PutDown'
    <3> SUFFICES ASSUME NEW u \in Spines, NEW i \in 1..Len(plan'[u]),
                        Visited(u, i)', IsFilter(plan'[u][i]), ~InFlightAt(u, i)'
                 PROVE  Held(plan', u, i)
      BY DEF PutDown
    <3>1. CASE u # s /\ u # r
      <4>1. Visited(u, i) BY <2>4, <3>1, <1>n DEF Visited
      <4>2. ~InFlightAt(u, i) BY <3>1 DEF InFlightAt, s
      <4>3. i \in 1..Len(plan[u]) /\ plan'[u][i] = plan[u][i] BY <2>4, <3>1
      <4> QED BY <1>0, <2>h, <3>1, <4>1, <4>2, <4>3 DEF PutDown
    <3>2. CASE u = s /\ i < p
      <4>1. Visited(u, i) BY <2>4, <3>2, <1>n DEF Visited
      <4>2. ~InFlightAt(u, i) BY <3>2, <2>n DEF InFlightAt, s, p
      <4>3. i \in 1..Len(plan[u]) /\ plan'[u][i] = plan[u][i]
        BY <2>9, <2>n, <3>2
      <4> QED BY <1>0, <2>h, <3>2, <4>1, <4>2, <4>3 DEF PutDown
    <3>3. CASE u = s /\ i >= p
      <4>1. i \in p..(Len(plan[s]) - 1) /\ i + 1 \in 1..Len(plan[s]) /\ i + 1 > p
        BY <2>9, <2>n, <3>3
      <4>2. plan'[s][i] = plan[s][i + 1] BY <2>9, <4>1
      <4>3. Visited(s, i + 1)
        BY <2>4, <3>3, <1>n, <2>n DEF Visited
      <4> QED BY <2>6, <3>3, <4>1, <4>2, <4>3
    <3>4. CASE u = r
      <4>1. i # Len(plan[r]) + 1 BY <2>4, <2>10, <3>4 DEF InFlightAt
      <4>2. i \in 1..Len(plan[r]) BY <2>8, <2>n, <3>4, <4>1
      <4>3. Visited(u, i) BY <3>4, <2>n DEF Visited
      <4>4. ~InFlightAt(u, i) BY <3>4, <2>3 DEF InFlightAt, s
      <4>5. plan'[u][i] = plan[u][i] BY <2>8, <3>4, <4>2
      <4> QED BY <1>0, <2>3, <2>h, <3>4, <4>2, <4>3, <4>4, <4>5 DEF PutDown
    <3> QED BY <3>1, <3>2, <3>3, <3>4, <2>n
  <2>12. ClearAbove'
    <3> SUFFICES ASSUME NEW i \in 1..Len(plan'[r]), i > Len(plan[r]) + 1
                 PROVE  FALSE
      BY <2>4 DEF ClearAbove
    <3> QED BY <2>8, <2>n
  <2>13. Settled'
    <3>1. rounds # 1
      <4> SUFFICES ASSUME rounds = 1 PROVE FALSE OBVIOUS
      <4>1. AllHeld(plan) BY <1>0 DEF Settled
      <4>2. Held(plan, s, p) /\ p > 1
        BY <4>1, <2>1 DEF AllHeld
      <4> QED BY <4>2, <2>1 DEF Held
    <3> QED BY <1>0, <2>4, <3>1 DEF Settled
  <2> QED BY <2>11, <2>12, <2>13 DEF PassInv
<1>5. CASE Rest
  <2>1. /\ Held(plan, fly.sp, fly.pos) /\ ~Flying'
        /\ UNCHANGED <<plan, cur, at, prev, rounds>>
    BY <1>5 DEF Rest, Flying
  <2>2. PutDown'
    <3> SUFFICES ASSUME NEW s \in Spines, NEW i \in 1..Len(plan[s]),
                        Visited(s, i), IsFilter(plan[s][i])
                 PROVE  Held(plan, s, i)
      BY <2>1 DEF PutDown, Visited
    <3>1. CASE InFlightAt(s, i) BY <2>1, <3>1 DEF InFlightAt
    <3>2. CASE ~InFlightAt(s, i) BY <1>0, <3>2 DEF PutDown
    <3> QED BY <3>1, <3>2
  <2>3. ClearAbove' BY <2>1 DEF ClearAbove
  <2>4. Settled' BY <1>0, <2>1 DEF Settled
  <2> QED BY <2>2, <2>3, <2>4 DEF PassInv
<1>6. CASE NextSpine
  <2>1. /\ ~Flying /\ ~Flying' /\ at > Len(plan[cur]) /\ cur \in Spines
        /\ cur' = cur + 1 /\ at' = 1
        /\ UNCHANGED <<plan, prev, rounds>>
    BY <1>6 DEF NextSpine, Flying
  <2>2. PutDown'
    <3> SUFFICES ASSUME NEW s \in Spines, NEW i \in 1..Len(plan[s]),
                        Visited(s, i)', IsFilter(plan[s][i])
                 PROVE  Held(plan, s, i)
      BY <2>1 DEF PutDown
    <3>1. Len(plan[cur]) \in Nat BY <1>0, <2>1 DEF TypeOK
    <3>2. Visited(s, i) BY <2>1, <1>n, <3>1 DEF Visited
    <3> QED BY <1>0, <2>1, <3>2 DEF PutDown, InFlightAt
  <2>3. ClearAbove' BY <2>1 DEF ClearAbove
  <2>4. Settled' BY <1>0, <2>1 DEF Settled
  <2> QED BY <2>2, <2>3, <2>4 DEF PassInv
<1>7. CASE Again
  <2>1. /\ cur > Root /\ plan # prev /\ prev' = plan /\ rounds' = rounds + 1
        /\ cur' = 1 /\ at' = 1 /\ UNCHANGED <<plan, fly>>
    BY <1>7 DEF Again
  <2>2. ~Flying /\ ~Flying'
    <3>1. ~ (cur \in Spines) BY <2>1, <1>n DEF Root
    <3> QED BY <1>0, <2>1, <3>1 DEF Control, Flying
  <2>3. AllHeld(plan)
    <3> SUFFICES ASSUME NEW s \in Spines, NEW i \in 1..Len(plan[s]),
                        IsFilter(plan[s][i])
                 PROVE  Held(plan, s, i)
      BY DEF AllHeld
    <3>1. Visited(s, i) BY <2>1, <1>n DEF Visited, Root
    <3> QED BY <1>0, <2>2, <3>1 DEF PutDown, InFlightAt
  <2>4. PutDown'
    <3> SUFFICES ASSUME NEW s \in Spines, NEW i \in 1..Len(plan[s]),
                        Visited(s, i)'
                 PROVE  FALSE
      BY <2>1 DEF PutDown
    <3> QED BY <2>1, <1>n DEF Visited
  <2>5. ClearAbove' BY <2>2 DEF ClearAbove
  <2>6. Settled'
    <3>1. rounds = 0 BY <1>0, <2>1 DEF Settled
    <3> QED BY <2>1, <2>3, <3>1 DEF Settled
  <2> QED BY <2>4, <2>5, <2>6 DEF PassInv
<1>8. CASE Finish \/ UNCHANGED vars
  <2>1. UNCHANGED <<plan, cur, at, fly, prev, rounds>>
    BY <1>8 DEF Finish, vars
  <2>2. PutDown'
    BY <1>0, <2>1 DEF PutDown, Visited, InFlightAt, Flying
  <2>3. ClearAbove' BY <1>0, <2>1 DEF ClearAbove, Visited, Flying
  <2>4. Settled' BY <1>0, <2>1 DEF Settled
  <2> QED BY <2>2, <2>3, <2>4 DEF PassInv
<1> QED
  BY <1>1, <1>2, <1>3, <1>4, <1>5, <1>6, <1>7, <1>8
     DEF Next, Work, Returned

(* The second pass of optimize never changes the plan: one pass reaches    *)
(* the fixpoint, whatever the plan.                                        *)
THEOREM OnePassSuffices == Spec => []SecondPassIdle
<1>1. Init => PassInv BY PassInit
<1>2. ScopeInv /\ PassInv /\ [Next]_vars => PassInv' BY PassStep
<1>3. PassInv => SecondPassIdle BY DEF PassInv, Settled, SecondPassIdle
<1> QED BY <1>1, <1>2, <1>3, ScopeInvariant, PTL DEF Spec

-----------------------------------------------------------------------------
(* Sequences of rows.  Induction over a sequence, as a statement about the *)
(* set of the sequences for which something holds.                         *)

LEMMA LeastOf ==
  ASSUME NEW T, T \subseteq Nat, T # {}
  PROVE  \E x \in T : \A y \in T : ~(y < x)
<1> DEFINE R == {p \in Nat \X Nat : p[1] < p[2]}
<1>1. OpToRel(<, Nat) = {p \in Nat \X Nat : p[1] < p[2]}
  BY DEF OpToRel
<1>2. IsWellFoundedOn(R, Nat)
  BY <1>1, NatLessThanWellFounded
<1> HIDE DEF R
<1>3. PICK x \in T : \A y \in T : ~(<<y, x>> \in R)
  BY <1>2, WFMin
<1> QED
  BY <1>3 DEF R

LEMMA SetInduction ==
  ASSUME NEW T, 0 \in T, \A n \in Nat : n \in T => n + 1 \in T
  PROVE  Nat \subseteq T
<1> SUFFICES ASSUME Nat \ T # {} PROVE FALSE
  OBVIOUS
<1>1. PICK x \in Nat \ T : \A y \in Nat \ T : ~(y < x)
  BY LeastOf
<1>2. x # 0 /\ x - 1 \in Nat /\ x - 1 < x
  BY <1>1
<1>3. x - 1 \in T
  BY <1>1, <1>2
<1> QED
  BY <1>1, <1>2, <1>3

LEMMA SeqInduction ==
  ASSUME NEW D, NEW S, <<>> \in S,
         \A s \in Seq(D) : \A d \in D : s \in S => Append(s, d) \in S
  PROVE  Seq(D) \subseteq S
<1> DEFINE T == {n \in Nat : \A s \in Seq(D) : Len(s) = n => s \in S}
<1>1. 0 \in T
  <2> SUFFICES ASSUME NEW s \in Seq(D), Len(s) = 0 PROVE s \in S
    OBVIOUS
  <2>1. s = <<>>
    OBVIOUS
  <2> QED
    BY <2>1
<1>2. ASSUME NEW n \in Nat, n \in T PROVE n + 1 \in T
  <2> SUFFICES ASSUME NEW s \in Seq(D), Len(s) = n + 1 PROVE s \in S
    OBVIOUS
  <2> DEFINE t == [i \in 1..n |-> s[i]]
  <2>1. t \in Seq(D) /\ Len(t) = n /\ s[n + 1] \in D
    OBVIOUS
  <2>2. s = Append(t, s[n + 1])
    OBVIOUS
  <2>3. t \in S
    BY <1>2, <2>1
  <2> HIDE DEF t
  <2> QED
    BY <2>1, <2>2, <2>3
<1> HIDE DEF T
<1>3. Nat \subseteq T
  BY <1>1, <1>2, SetInduction
<1>4. ASSUME NEW s \in Seq(D) PROVE s \in S
  <2>1. Len(s) \in T
    BY <1>3, SMTT(30)
  <2> QED
    BY <2>1 DEF T
<1> QED
  BY <1>4
-----------------------------------------------------------------------------
Flatten(ss, N) ==
  CHOOSE g : g = [i \in 1..N |-> IF i = 1 THEN ss[i] ELSE g[i - 1] \o ss[i]]

LEMMA FlattenIs ==
  ASSUME NEW ss, NEW N \in Nat
  PROVE  Flatten(ss, N) =
           [i \in 1..N |-> IF i = 1 THEN ss[i] ELSE Flatten(ss, N)[i - 1] \o ss[i]]
<1> DEFINE Right(g, n) == \A i \in 1..N : i <= n =>
                            g[i] = IF i = 1 THEN ss[i] ELSE g[i - 1] \o ss[i]
           T == {n \in Nat : \E g : g = [i \in 1..N |-> g[i]] /\ Right(g, n)}
<1>1. 0 \in T
  <2> DEFINE g == [i \in 1..N |-> <<>>]
  <2>1. g = [i \in 1..N |-> g[i]]
    OBVIOUS
  <2> HIDE DEF g
  <2>2. Right(g, 0)
    OBVIOUS
  <2> QED
    BY <2>1, <2>2
<1>2. ASSUME NEW n \in Nat, n \in T PROVE n + 1 \in T
  <2>1. PICK f : f = [i \in 1..N |-> f[i]] /\ Right(f, n)
    BY <1>2
  <2> DEFINE g == [i \in 1..N |-> IF i = n + 1
                                  THEN IF i = 1 THEN ss[i] ELSE f[i - 1] \o ss[i]
                                  ELSE f[i]]
  <2>2. /\ g = [i \in 1..N |-> g[i]]
        /\ \A i \in 1..N : g[i] = IF i = n + 1
                                  THEN IF i = 1 THEN ss[i] ELSE f[i - 1] \o ss[i]
                                  ELSE f[i]
    OBVIOUS
  <2> HIDE DEF g
  <2>3. ASSUME NEW i \in 1..N, i <= n + 1
        PROVE  g[i] = IF i = 1 THEN ss[i] ELSE g[i - 1] \o ss[i]
    <3>1. /\ i # 1 => i - 1 \in 1..N /\ i - 1 # n + 1
          /\ i # n + 1 => i <= n
      BY <2>3
    <3>2. i # 1 => g[i - 1] = f[i - 1]
      BY <2>2, <3>1
    <3>3. i # n + 1 => f[i] = IF i = 1 THEN ss[i] ELSE f[i - 1] \o ss[i]
      BY <2>1, <3>1
    <3> QED
      BY <2>2, <3>2, <3>3
  <2>4. Right(g, n + 1)
    BY <2>3
  <2> HIDE DEF Right
  <2> QED
    BY <2>2, <2>4
<1> HIDE DEF T
<1>3. N \in T
  BY <1>1, <1>2, SetInduction
<1>4. PICK g : g = [i \in 1..N |-> g[i]] /\ Right(g, N)
  BY <1>3 DEF T
<1>5. \A i \in 1..N : g[i] = IF i = 1 THEN ss[i] ELSE g[i - 1] \o ss[i]
  <2>1. \A i \in 1..N : i <= N
    OBVIOUS
  <2> QED
    BY <1>4, <2>1
<1>6. g = [i \in 1..N |-> IF i = 1 THEN ss[i] ELSE g[i - 1] \o ss[i]]
  BY <1>4, <1>5
<1> QED
  BY <1>6 DEF Flatten

LEMMA FlattenSame ==
  ASSUME NEW ss, NEW tt, NEW N \in Nat, NEW M \in Nat, NEW K \in 1..N, K <= M,
         \A i \in 1..K : ss[i] = tt[i]
  PROVE  Flatten(ss, N)[K] = Flatten(tt, M)[K]
<1> DEFINE f == Flatten(ss, N)
           g == Flatten(tt, M)
<1>1. /\ \A i \in 1..N : f[i] = IF i = 1 THEN ss[i] ELSE f[i - 1] \o ss[i]
      /\ \A i \in 1..M : g[i] = IF i = 1 THEN tt[i] ELSE g[i - 1] \o tt[i]
  <2>1. /\ f = [i \in 1..N |-> IF i = 1 THEN ss[i] ELSE f[i - 1] \o ss[i]]
        /\ g = [i \in 1..M |-> IF i = 1 THEN tt[i] ELSE g[i - 1] \o tt[i]]
    BY FlattenIs
  <2> HIDE DEF f, g
  <2> QED
    BY <2>1
<1> HIDE DEF f, g
<1> DEFINE T == {n \in Nat : n \in 1..K => f[n] = g[n]}
<1>2. 0 \in T
  OBVIOUS
<1>3. ASSUME NEW n \in Nat, n \in T PROVE n + 1 \in T
  <2> SUFFICES ASSUME n + 1 \in 1..K PROVE f[n + 1] = g[n + 1]
    OBVIOUS
  <2>1. n + 1 \in 1..N /\ n + 1 \in 1..M /\ (n + 1) - 1 = n /\ ss[n + 1] = tt[n + 1]
    OBVIOUS
  <2>2. n + 1 # 1 => f[n] = g[n]
    BY <1>3
  <2> QED
    BY <1>1, <2>1, <2>2
<1> HIDE DEF T
<1>4. K \in T
  BY <1>2, <1>3, SetInduction
<1> QED
  BY <1>4 DEF T, f, g

(* Flattening one more sequence appends it.                                *)
LEMMA FlatPut ==
  ASSUME NEW X, NEW ss \in Seq(Seq(X)), NEW t \in Seq(X)
  PROVE  /\ FlattenSeq(<<>>) = <<>>
         /\ FlattenSeq(Append(ss, t)) = FlattenSeq(ss) \o t
<1> DEFINE N == Len(ss)
           tt == Append(ss, t)
<1>0. N \in Nat /\ Len(tt) = N + 1 /\ tt[N + 1] = t /\ \A i \in 1..N : tt[i] = ss[i]
  OBVIOUS
<1>a. ss = <<>> <=> N = 0
  OBVIOUS
<1>1. FlattenSeq(<<>>) = <<>>
  BY DEF FlattenSeq
<1>2. FlattenSeq(tt) = Flatten(tt, Len(tt))[Len(tt)]
  <2>1. Len(tt) # 0
    BY <1>0
  <2> HIDE DEF tt
  <2> QED
    BY <2>1 DEF FlattenSeq, Flatten
<1>3. N # 0 => FlattenSeq(ss) = Flatten(ss, N)[N]
  BY DEF FlattenSeq, Flatten
<1> HIDE DEF N, tt
<1>4. Flatten(tt, N + 1)[N + 1] =
        IF N + 1 = 1 THEN tt[N + 1] ELSE Flatten(tt, N + 1)[(N + 1) - 1] \o tt[N + 1]
  <2> DEFINE f == Flatten(tt, N + 1)
  <2>1. f = [i \in 1..(N + 1) |-> IF i = 1 THEN tt[i] ELSE f[i - 1] \o tt[i]]
    <3>1. N + 1 \in Nat
      BY <1>0
    <3> QED
      BY <3>1, FlattenIs
  <2> HIDE DEF f
  <2>2. N + 1 \in 1..(N + 1)
    BY <1>0
  <2>3. f[N + 1] = IF N + 1 = 1 THEN tt[N + 1] ELSE f[(N + 1) - 1] \o tt[N + 1]
    BY <2>1, <2>2
  <2> QED
    BY <2>3 DEF f
<1>5. CASE N = 0
  <2>1. FlattenSeq(tt) = t
    BY <1>0, <1>2, <1>4, <1>5
  <2>2. FlattenSeq(ss) = <<>> /\ <<>> \o t = t
    BY <1>1, <1>5, <1>a
  <2> QED
    BY <1>1, <2>1, <2>2 DEF tt
<1>6. CASE N # 0
  <2>1. Flatten(tt, N + 1)[N] = Flatten(ss, N)[N]
    <3>1. N \in 1..(N + 1) /\ N + 1 \in Nat /\ N <= N
      BY <1>0, <1>6
    <3> QED
      BY <1>0, <3>1, FlattenSame
  <2>2. (N + 1) - 1 = N /\ N + 1 # 1
    BY <1>0, <1>6
  <2>3. FlattenSeq(tt) = FlattenSeq(ss) \o t
    BY <1>0, <1>2, <1>3, <1>4, <1>6, <2>1, <2>2
  <2> QED
    BY <1>1, <2>3 DEF tt
<1> QED
  BY <1>5, <1>6

LEMMA FlatType ==
  ASSUME NEW X, NEW ss \in Seq(Seq(X))
  PROVE  FlattenSeq(ss) \in Seq(X)
<1> DEFINE S == {u \in Seq(Seq(X)) : FlattenSeq(u) \in Seq(X)}
<1>1. <<>> \in S
  <2>1. <<>> \in Seq(Seq(X)) /\ <<>> \in Seq(X)
    OBVIOUS
  <2>2. FlattenSeq(<<>>) = <<>>
    <3>1. \A t \in Seq(X) : FlattenSeq(<<>>) = <<>>
      BY <2>1, FlatPut
    <3> QED
      BY <2>1, <3>1
  <2> QED
    BY <2>1, <2>2
<1>2. ASSUME NEW u \in Seq(Seq(X)), NEW t \in Seq(X), u \in S
      PROVE  Append(u, t) \in S
  <2>1. FlattenSeq(Append(u, t)) = FlattenSeq(u) \o t
    BY FlatPut
  <2>2. FlattenSeq(u) \o t \in Seq(X)
    BY <1>2, ConcatProperties
  <2>3. Append(u, t) \in Seq(Seq(X))
    OBVIOUS
  <2> QED
    BY <2>1, <2>2, <2>3
<1> HIDE DEF S
<1>3. ss \in S
  BY <1>1, <1>2, SeqInduction
<1> QED
  BY <1>3 DEF S

-----------------------------------------------------------------------------
(* A sequence in which every element is replaced by a sequence: what the   *)
(* operators that treat rows one by one do to them.                        *)
Each(f, rows) == FlattenSeq([i \in 1..Len(rows) |-> f[rows[i]]])

(* A function that gives for each element of D a sequence over X.          *)
Maps(D, X) == [D -> Seq(X)]

LEMMA MapsAt ==
  ASSUME NEW D, NEW X, NEW f \in Maps(D, X), NEW d \in D
  PROVE  f[d] \in Seq(X)
  BY DEF Maps

LEMMA EachNil ==
  ASSUME NEW f
  PROVE  Each(f, <<>>) = <<>>
<1>1. [i \in 1..Len(<<>>) |-> f[<<>>[i]]] = <<>> /\ <<>> \in Seq(Seq({})) /\ <<>> \in Seq({})
  OBVIOUS
<1>2. FlattenSeq(<<>>) = <<>>
  BY <1>1, FlatPut
<1> QED
  BY <1>1, <1>2 DEF Each

LEMMA EachType ==
  ASSUME NEW D, NEW X, NEW f \in Maps(D, X), NEW rows \in Seq(D)
  PROVE  Each(f, rows) \in Seq(X)
<1> DEFINE ss == [i \in 1..Len(rows) |-> f[rows[i]]]
<1>1. ss \in Seq(Seq(X))
  BY DEF Maps
<1> HIDE DEF ss
<1>2. FlattenSeq(ss) \in Seq(X)
  BY <1>1, FlatType
<1> QED
  BY <1>2 DEF Each, ss

LEMMA EachPut ==
  ASSUME NEW D, NEW X, NEW f \in Maps(D, X), NEW rows \in Seq(D), NEW d \in D
  PROVE  Each(f, Append(rows, d)) = Each(f, rows) \o f[d]
<1> DEFINE ss == [i \in 1..Len(rows) |-> f[rows[i]]]
           more == Append(rows, d)
           tt == [i \in 1..Len(more) |-> f[more[i]]]
<1>1. ss \in Seq(Seq(X)) /\ f[d] \in Seq(X)
  BY DEF Maps
<1>2. tt = Append(ss, f[d])
  OBVIOUS
<1>3. FlattenSeq(Append(ss, f[d])) = FlattenSeq(ss) \o f[d]
  <2> HIDE DEF ss
  <2> QED
    BY <1>1, FlatPut
<1> QED
  BY <1>2, <1>3 DEF Each

LEMMA EachOne ==
  ASSUME NEW D, NEW X, NEW f \in Maps(D, X), NEW d \in D
  PROVE  Each(f, <<d>>) = f[d]
<1>1. <<>> \in Seq(D) /\ Append(<<>>, d) = <<d>>
  OBVIOUS
<1>2. Each(f, Append(<<>>, d)) = Each(f, <<>>) \o f[d]
  BY <1>1, EachPut
<1>3. f[d] \in Seq(X)
  BY MapsAt
<1>4. <<>> \o f[d] = f[d]
  BY <1>3, ConcatEmptySeq
<1> QED
  BY <1>1, <1>2, <1>4, EachNil

LEMMA EachJoin ==
  ASSUME NEW D, NEW X, NEW f \in Maps(D, X), NEW s \in Seq(D), NEW t \in Seq(D)
  PROVE  Each(f, s \o t) = Each(f, s) \o Each(f, t)
<1> DEFINE S == {u \in Seq(D) : Each(f, s \o u) = Each(f, s) \o Each(f, u)}
<1>1. <<>> \in S
  <2>1. s \o <<>> = s /\ <<>> \in Seq(D)
    BY ConcatEmptySeq
  <2>2. Each(f, <<>>) = <<>>
    BY EachNil
  <2>3. Each(f, s) \o <<>> = Each(f, s)
    <3>1. Each(f, s) \in Seq(X)
      BY EachType
    <3> QED
      BY <3>1, ConcatEmptySeq
  <2> QED
    BY <2>1, <2>2, <2>3
<1>2. ASSUME NEW u \in Seq(D), NEW d \in D, u \in S
      PROVE  Append(u, d) \in S
  <2>1. s \o Append(u, d) = Append(s \o u, d)
    OBVIOUS
  <2>2. s \o u \in Seq(D) /\ Append(u, d) \in Seq(D)
    OBVIOUS
  <2>3. Each(f, Append(s \o u, d)) = Each(f, s \o u) \o f[d]
    BY <2>2, EachPut
  <2>4. Each(f, Append(u, d)) = Each(f, u) \o f[d]
    BY EachPut
  <2>5. Each(f, s) \in Seq(X) /\ Each(f, u) \in Seq(X) /\ f[d] \in Seq(X)
    BY EachType, MapsAt
  <2>6. (Each(f, s) \o Each(f, u)) \o f[d] = Each(f, s) \o (Each(f, u) \o f[d])
    <3>1. PICK p : p = Each(f, s)
      OBVIOUS
    <3>2. PICK q : q = Each(f, u)
      OBVIOUS
    <3>3. PICK r : r = f[d]
      OBVIOUS
    <3>4. p \in Seq(X) /\ q \in Seq(X) /\ r \in Seq(X)
      BY <2>5, <3>1, <3>2, <3>3
    <3>5. (p \o q) \o r = p \o (q \o r)
      BY <3>4, SMTT(30)
    <3> QED
      BY <3>1, <3>2, <3>3, <3>5
  <2> QED
    BY <1>2, <2>1, <2>2, <2>3, <2>4, <2>6
<1> HIDE DEF S
<1>3. t \in S
  BY <1>1, <1>2, SeqInduction
<1> QED
  BY <1>3 DEF S

LEMMA EachEach ==
  ASSUME NEW D, NEW X, NEW Y, NEW f \in Maps(D, X), NEW g \in Maps(X, Y),
         NEW rows \in Seq(D), NEW h \in Maps(D, Y),
         \A d \in D : h[d] = Each(g, f[d])
  PROVE  Each(g, Each(f, rows)) = Each(h, rows)
<1> DEFINE S == {u \in Seq(D) : Each(g, Each(f, u)) = Each(h, u)}
<1>1. <<>> \in S
  <2>1. Each(g, Each(f, <<>>)) = Each(h, <<>>)
    BY EachNil
  <2> QED
    BY <2>1
<1>2. ASSUME NEW u \in Seq(D), NEW d \in D, u \in S
      PROVE  Append(u, d) \in S
  <2>0. Each(f, Append(u, d)) = Each(f, u) \o f[d]
    BY EachPut
  <2>1. Each(h, Append(u, d)) = Each(h, u) \o h[d]
    BY EachPut
  <2>2. Each(f, u) \in Seq(X)
    BY EachType
  <2>4. f[d] \in Seq(X) /\ Append(u, d) \in Seq(D)
    BY MapsAt
  <2>3. Each(g, Each(f, u) \o f[d]) = Each(g, Each(f, u)) \o Each(g, f[d])
    <3>1. Each(f, u) \in Seq(X) /\ f[d] \in Seq(X)
      BY <2>2, <2>4
    <3> QED
      BY <3>1, EachJoin, SMTT(30)
  <2>5. Each(g, Each(f, u)) = Each(h, u)
    BY <1>2
  <2>6. Each(g, Each(f, Append(u, d))) = Each(h, Append(u, d))
    BY <2>0, <2>1, <2>3, <2>5
  <2> QED
    BY <2>4, <2>6
<1> HIDE DEF S
<1>3. rows \in S
  BY <1>1, <1>2, SeqInduction
<1> QED
  BY <1>3 DEF S

LEMMA EachSame ==
  ASSUME NEW D, NEW f, NEW g, NEW rows \in Seq(D), \A d \in D : f[d] = g[d]
  PROVE  Each(f, rows) = Each(g, rows)
<1>1. [i \in 1..Len(rows) |-> f[rows[i]]] = [i \in 1..Len(rows) |-> g[rows[i]]]
  OBVIOUS
<1> QED
  BY <1>1 DEF Each

(* Keeping the elements of a set.                                          *)
Those(X, S) == [x \in X |-> IF x \in S THEN <<x>> ELSE <<>>]

LEMMA ThoseType ==
  ASSUME NEW X, NEW S
  PROVE  Those(X, S) \in Maps(X, X)
  BY DEF Those, Maps

LEMMA ThoseAt ==
  ASSUME NEW X, NEW S, NEW x \in X
  PROVE  Those(X, S)[x] = IF x \in S THEN <<x>> ELSE <<>>
  BY DEF Those

LEMMA KeepAll ==
  ASSUME NEW X, NEW S, NEW s \in Seq(X), \A i \in 1..Len(s) : s[i] \in S
  PROVE  Each(Those(X, S), s) = s
<1> DEFINE T == {u \in Seq(X) : (\A i \in 1..Len(u) : u[i] \in S) => Each(Those(X, S), u) = u}
<1>1. <<>> \in T
  <2>1. Each(Those(X, S), <<>>) = <<>>
    BY EachNil
  <2> QED
    BY <2>1
<1>2. ASSUME NEW u \in Seq(X), NEW x \in X, u \in T
      PROVE  Append(u, x) \in T
  <2> DEFINE v == Append(u, x)
  <2>1. v \in Seq(X) /\ Len(v) = Len(u) + 1 /\ v[Len(u) + 1] = x
        /\ \A i \in 1..Len(u) : v[i] = u[i]
    OBVIOUS
  <2>2. Each(Those(X, S), v) = Each(Those(X, S), u) \o Those(X, S)[x]
    <3>1. Those(X, S) \in Maps(X, X)
      BY ThoseType
    <3> QED
      BY <3>1, EachPut
  <2>3. ASSUME \A i \in 1..Len(v) : v[i] \in S PROVE Each(Those(X, S), v) = v
    <3>0. Len(u) \in Nat
      OBVIOUS
    <3> HIDE DEF v
    <3>1. x \in S /\ \A i \in 1..Len(u) : u[i] \in S
      BY <2>1, <2>3, <3>0
    <3>2. Each(Those(X, S), u) = u
      BY <1>2, <3>1
    <3>3. Those(X, S)[x] = <<x>>
      BY <3>1, ThoseAt
    <3>4. u \o <<x>> = v
      BY DEF v
    <3> QED
      BY <2>2, <3>2, <3>3, <3>4
  <2> HIDE DEF v
  <2>4. v \in T
    BY <2>1, <2>3
  <2> QED
    BY <2>4 DEF v
<1> HIDE DEF T
<1>3. s \in T
  BY <1>1, <1>2, SeqInduction
<1> QED
  BY <1>3 DEF T

LEMMA KeepNone ==
  ASSUME NEW X, NEW S, NEW s \in Seq(X), \A i \in 1..Len(s) : s[i] \notin S
  PROVE  Each(Those(X, S), s) = <<>>
<1> DEFINE T == {u \in Seq(X) : (\A i \in 1..Len(u) : u[i] \notin S) => Each(Those(X, S), u) = <<>>}
<1>1. <<>> \in T
  <2>1. Each(Those(X, S), <<>>) = <<>>
    BY EachNil
  <2> QED
    BY <2>1
<1>2. ASSUME NEW u \in Seq(X), NEW x \in X, u \in T
      PROVE  Append(u, x) \in T
  <2> DEFINE v == Append(u, x)
  <2>1. v \in Seq(X) /\ Len(v) = Len(u) + 1 /\ v[Len(u) + 1] = x
        /\ \A i \in 1..Len(u) : v[i] = u[i]
    OBVIOUS
  <2>2. Each(Those(X, S), v) = Each(Those(X, S), u) \o Those(X, S)[x]
    <3>1. Those(X, S) \in Maps(X, X)
      BY ThoseType
    <3> QED
      BY <3>1, EachPut
  <2>3. ASSUME \A i \in 1..Len(v) : v[i] \notin S PROVE Each(Those(X, S), v) = <<>>
    <3>0. Len(u) \in Nat
      OBVIOUS
    <3> HIDE DEF v
    <3>1. x \notin S /\ \A i \in 1..Len(u) : u[i] \notin S
      BY <2>1, <2>3, <3>0
    <3>2. Each(Those(X, S), u) = <<>>
      BY <1>2, <3>1
    <3>3. Those(X, S)[x] = <<>>
      BY <3>1, ThoseAt
    <3> QED
      BY <2>2, <3>2, <3>3
  <2> HIDE DEF v
  <2>4. v \in T
    BY <2>1, <2>3
  <2> QED
    BY <2>4 DEF v
<1> HIDE DEF T
<1>3. s \in T
  BY <1>1, <1>2, SeqInduction
<1> QED
  BY <1>3 DEF T

(* Selecting before or after.                                              *)
LEMMA KeepBefore ==
  ASSUME NEW D, NEW X, NEW f \in Maps(D, X), NEW rows \in Seq(D), NEW P, NEW S,
         \A d \in D : \A i \in 1..Len(f[d]) : f[d][i] \in S <=> d \in P
  PROVE  Each(Those(X, S), Each(f, rows)) = Each(f, Each(Those(D, P), rows))
<1> DEFINE h == [d \in D |-> Each(Those(X, S), f[d])]
           k == [d \in D |-> Each(f, Those(D, P)[d])]
<1>g. Those(X, S) \in Maps(X, X)
  BY ThoseType
<1>p. Those(D, P) \in Maps(D, D)
  BY ThoseType
<1>0. \A d \in D : f[d] \in Seq(X) /\ Those(D, P)[d] \in Seq(D)
  BY <1>p, MapsAt
<1>h. /\ h \in Maps(D, X)
      /\ \A d \in D : h[d] = Each(Those(X, S), f[d])
  <2>1. \A d \in D : Each(Those(X, S), f[d]) \in Seq(X)
    BY <1>g, <1>0, EachType
  <2> QED
    BY <2>1 DEF Maps
<1>k. /\ k \in Maps(D, X)
      /\ \A d \in D : k[d] = Each(f, Those(D, P)[d])
  <2>1. \A d \in D : Each(f, Those(D, P)[d]) \in Seq(X)
    BY <1>0, EachType
  <2> QED
    BY <2>1 DEF Maps
<1> HIDE DEF h, k
<1>1. Each(Those(X, S), Each(f, rows)) = Each(h, rows)
  <2> DEFINE g == Those(X, S)
  <2>1. g \in Maps(X, X) /\ \A d \in D : h[d] = Each(g, f[d])
    BY <1>g, <1>h
  <2> HIDE DEF g
  <2>2. h \in Maps(D, X)
    BY <1>h
  <2>3. Each(g, Each(f, rows)) = Each(h, rows)
    BY <2>1, <2>2, EachEach
  <2> QED
    BY <2>3 DEF g
<1>2. Each(f, Each(Those(D, P), rows)) = Each(k, rows)
  <2> DEFINE g == Those(D, P)
  <2>1. g \in Maps(D, D) /\ \A d \in D : k[d] = Each(f, g[d])
    BY <1>p, <1>k
  <2> HIDE DEF g
  <2>2. k \in Maps(D, X)
    BY <1>k
  <2>3. Each(f, Each(g, rows)) = Each(k, rows)
    BY <2>1, <2>2, EachEach
  <2> QED
    BY <2>3 DEF g
<1>3. ASSUME NEW d \in D PROVE h[d] = k[d]
  <2>1. f[d] \in Seq(X)
    BY <1>0
  <2>2. CASE d \in P
    <3>1. Each(Those(X, S), f[d]) = f[d]
      BY <2>1, <2>2, KeepAll
    <3>2. Those(D, P)[d] = <<d>>
      <4>1. Those(D, P)[d] = IF d \in P THEN <<d>> ELSE <<>>
        BY ThoseAt
      <4> QED
        BY <2>2, <4>1
    <3>3. Each(f, <<d>>) = f[d]
      BY EachOne
    <3> QED
      BY <1>h, <1>k, <3>1, <3>2, <3>3
  <2>3. CASE d \notin P
    <3>1. Each(Those(X, S), f[d]) = <<>>
      BY <2>1, <2>3, KeepNone
    <3>2. Those(D, P)[d] = <<>>
      <4>1. Those(D, P)[d] = IF d \in P THEN <<d>> ELSE <<>>
        BY ThoseAt
      <4> QED
        BY <2>3, <4>1
    <3>3. Each(f, <<>>) = <<>>
      BY EachNil
    <3> QED
      BY <1>h, <1>k, <3>1, <3>2, <3>3
  <2> QED
    BY <2>2, <2>3
<1>4. Each(h, rows) = Each(k, rows)
  BY <1>3, EachSame
<1> QED
  BY <1>1, <1>2, <1>4

(* Replacing every element by one.                                         *)
LEMMA MapIsEach ==
  ASSUME NEW D, NEW X, NEW m, NEW rows \in Seq(D), NEW f \in Maps(D, X),
         \A d \in D : f[d] = <<m[d]>>
  PROVE  Each(f, rows) = [i \in 1..Len(rows) |-> m[rows[i]]]
<1> DEFINE T == {u \in Seq(D) : Each(f, u) = [i \in 1..Len(u) |-> m[u[i]]]}
<1>1. <<>> \in T
  <2>1. Each(f, <<>>) = <<>>
    BY EachNil
  <2>2. [i \in 1..Len(<<>>) |-> m[<<>>[i]]] = <<>> /\ <<>> \in Seq(D)
    OBVIOUS
  <2>3. Each(f, <<>>) = [i \in 1..Len(<<>>) |-> m[<<>>[i]]]
    BY <2>1, <2>2
  <2> QED
    BY <2>2, <2>3
<1>2. ASSUME NEW u \in Seq(D), NEW d \in D, u \in T
      PROVE  Append(u, d) \in T
  <2> DEFINE v == Append(u, d)
             t == [i \in 1..Len(u) |-> m[u[i]]]
             w == [i \in 1..Len(v) |-> m[v[i]]]
  <2>1. Each(f, v) = Each(f, u) \o f[d]
    BY EachPut
  <2>2. w = t \o <<m[d]>>
    OBVIOUS
  <2>3. Each(f, u) = t
    BY <1>2
  <2>4. v \in Seq(D) /\ f[d] = <<m[d]>>
    OBVIOUS
  <2> HIDE DEF t, w, v
  <2>5. Each(f, v) = w
    BY <2>1, <2>2, <2>3, <2>4
  <2> QED
    BY <2>4, <2>5 DEF v, w
<1> HIDE DEF T
<1>3. rows \in T
  BY <1>1, <1>2, SeqInduction
<1> QED
  BY <1>3 DEF T

-----------------------------------------------------------------------------
(* Rows.                                                                   *)
Over(S) == {r \in Row : S \subseteq DOMAIN r}

Holding(op) == {r \in Row : Passes(op, r)}

(* What the constants say of operators is of the right type.               *)
TypedMeaning == \A op \in Op : GivesValues(op, Seq(Row))

LEMMA RowIs ==
  ASSUME NEW D \in SUBSET Vars, NEW r \in [D -> Values]
  PROVE  r \in Row /\ DOMAIN r = D
  BY DEF Row

LEMMA RowHas ==
  ASSUME NEW r \in Row
  PROVE  DOMAIN r \in SUBSET Vars /\ r \in [DOMAIN r -> Values]
  BY DEF Row

LEMMA EmptyRowIs == EmptyRow \in Row /\ DOMAIN EmptyRow = {}
<1>1. EmptyRow \in [{} -> Values] /\ {} \in SUBSET Vars
  BY DEF EmptyRow
<1> QED
  BY <1>1, RowIs

LEMMA ValueIs ==
  ASSUME NEW r \in Row, NEW v
  PROVE  Value(r, v) \in Values
<1>1. r \in [DOMAIN r -> Values]
  BY RowHas
<1> QED
  BY <1>1, MeaningAssumption DEF Value

LEMMA MergeIs ==
  ASSUME NEW r \in Row, NEW t \in Row
  PROVE  /\ Merge(r, t) \in Row
         /\ DOMAIN Merge(r, t) = DOMAIN r \cup DOMAIN t
         /\ \A v \in DOMAIN r \cup DOMAIN t :
              Merge(r, t)[v] = IF v \in DOMAIN r THEN r[v] ELSE t[v]
<1>1. /\ DOMAIN r \in SUBSET Vars /\ r \in [DOMAIN r -> Values]
      /\ DOMAIN t \in SUBSET Vars /\ t \in [DOMAIN t -> Values]
  BY RowHas
<1>2. Merge(r, t) \in [DOMAIN r \cup DOMAIN t -> Values]
  BY <1>1 DEF Merge
<1>3. Merge(r, t) \in Row /\ DOMAIN Merge(r, t) = DOMAIN r \cup DOMAIN t
  BY <1>1, <1>2, RowIs
<1> QED
  BY <1>3 DEF Merge

LEMMA MergeOver ==
  ASSUME NEW r \in Row, NEW t \in Row
  PROVE  Merge(r, t) \in Row /\ DOMAIN Merge(r, t) = DOMAIN r \cup DOMAIN t
  BY MergeIs

LEMMA MergeElse ==
  ASSUME NEW r \in Row, NEW t \in Row, NEW v, v \notin DOMAIN t
  PROVE  Value(Merge(r, t), v) = Value(r, v)
<1>1. PICK m : m = Merge(r, t)
  OBVIOUS
<1>2. DOMAIN m = DOMAIN r \cup DOMAIN t
  BY <1>1, MergeIs
<1>3. CASE v \in DOMAIN r
  <2>1. m[v] = r[v]
    BY <1>1, <1>3, MergeIs
  <2> QED
    BY <1>1, <1>2, <1>3, <2>1 DEF Value
<1>4. CASE v \notin DOMAIN r
  BY <1>1, <1>2, <1>4 DEF Value
<1> QED
  BY <1>3, <1>4

(* A filter sees no difference between rows that agree on what it reads.   *)
LEMMA SameView ==
  ASSUME NEW f, NEW r \in Row, NEW t \in Row,
         \A v \in f.used : Value(r, v) = Value(t, v)
  PROVE  r \in Holding(f) <=> t \in Holding(f)
<1>1. View(r, f.used) = View(t, f.used)
  BY DEF View
<1> QED
  BY <1>1 DEF Holding, Passes

-----------------------------------------------------------------------------
(* The operators, as what they do to each row.                             *)
LEMMA PassingIs ==
  ASSUME NEW f, NEW D, D \subseteq Row, NEW rows \in Seq(D)
  PROVE  Passing(f, rows) = Each(Those(D, Holding(f)), rows)
<1> DEFINE picked == {i \in 1..Len(rows) : Passes(f, rows[i])}
<1>1. ASSUME NEW i \in 1..Len(rows)
      PROVE  (IF i \in picked THEN <<rows[i]>> ELSE <<>>) = Those(D, Holding(f))[rows[i]]
  <2>1. rows[i] \in D
    OBVIOUS
  <2>2. Those(D, Holding(f))[rows[i]] = IF rows[i] \in Holding(f) THEN <<rows[i]>> ELSE <<>>
    BY <2>1, ThoseAt
  <2>3. i \in picked <=> rows[i] \in Holding(f)
    BY <2>1 DEF Holding
  <2> QED
    BY <2>2, <2>3
<1> HIDE DEF picked
<1>2. [i \in 1..Len(rows) |-> IF i \in picked THEN <<rows[i]>> ELSE <<>>] =
        [i \in 1..Len(rows) |-> Those(D, Holding(f))[rows[i]]]
  BY <1>1
<1> QED
  BY <1>2 DEF Passing, Keep, Each, picked

LEMMA KeepType ==
  ASSUME NEW D, NEW rows \in Seq(D), NEW picked
  PROVE  Keep(rows, picked) \in Seq(D)
<1> DEFINE ss == [i \in 1..Len(rows) |-> IF i \in picked THEN <<rows[i]>> ELSE <<>>]
<1>1. ss \in Seq(Seq(D))
  OBVIOUS
<1> HIDE DEF ss
<1>2. FlattenSeq(ss) \in Seq(D)
  BY <1>1, FlatType
<1> QED
  BY <1>2 DEF Keep, ss

(* The rows row is extended to by others of E.                             *)
Longer(row, E) == {Merge(row, e) : e \in {x \in E : Compatible(row, x)}}

Extending(row, E) ==
  [e \in E |-> IF Compatible(row, e) THEN <<Merge(row, e)>> ELSE <<>>]

LEMMA ExtensionsIs ==
  ASSUME NEW row, NEW E, NEW others \in Seq(E)
  PROVE  /\ Extending(row, E) \in Maps(E, Longer(row, E))
         /\ Extensions(row, others) = Each(Extending(row, E), others)
         /\ Extensions(row, others) \in Seq(Longer(row, E))
<1>1. Extending(row, E) \in Maps(E, Longer(row, E))
  <2>1. ASSUME NEW e \in E
        PROVE  (IF Compatible(row, e) THEN <<Merge(row, e)>> ELSE <<>>) \in Seq(Longer(row, E))
    <3>1. Compatible(row, e) => Merge(row, e) \in Longer(row, E)
      BY DEF Longer
    <3>2. <<>> \in Seq(Longer(row, E)) /\ \A x \in Longer(row, E) : <<x>> \in Seq(Longer(row, E))
      OBVIOUS
    <3> QED
      BY <3>1, <3>2
  <2> QED
    BY <2>1 DEF Extending, Maps
<1>2. Extensions(row, others) = Each(Extending(row, E), others)
  <2>1. [i \in 1..Len(others) |-> IF Compatible(row, others[i]) THEN <<Merge(row, others[i])>>
                                  ELSE <<>>] =
          [i \in 1..Len(others) |-> Extending(row, E)[others[i]]]
    BY DEF Extending
  <2> QED
    BY <2>1 DEF Extensions, Each
<1>3. Each(Extending(row, E), others) \in Seq(Longer(row, E))
  BY <1>1, EachType
<1> QED
  BY <1>1, <1>2, <1>3

(* Every row extended by rows that others gives for it.                    *)
Widened(D, others) == [d \in D |-> Extensions(d, others[d])]

LEMMA WidenedIs ==
  ASSUME NEW D \in SUBSET Row, NEW E \in SUBSET Row, NEW others \in Maps(D, E)
  PROVE  /\ Widened(D, others) \in Maps(D, Row)
         /\ \A d \in D : /\ Widened(D, others)[d] = Extensions(d, others[d])
                         /\ Widened(D, others)[d] \in Seq(Longer(d, E))
<1>1. \A d \in D : Widened(D, others)[d] = Extensions(d, others[d])
  BY DEF Widened
<1>2. ASSUME NEW d \in D
      PROVE  Extensions(d, others[d]) \in Seq(Longer(d, E)) /\ Longer(d, E) \subseteq Row
  <2>1. others[d] \in Seq(E)
    BY MapsAt
  <2>2. Extensions(d, others[d]) \in Seq(Longer(d, E))
    BY <2>1, ExtensionsIs
  <2>3. \A e \in E : Merge(d, e) \in Row
    BY MergeIs
  <2> QED
    BY <2>2, <2>3 DEF Longer
<1>3. ASSUME NEW d \in D
      PROVE  Extensions(d, others[d]) \in Seq(Row)
  BY <1>2, SeqMonotonic
<1>4. Widened(D, others) \in Maps(D, Row)
  BY <1>3 DEF Maps, Widened
<1> QED
  BY <1>1, <1>2, <1>4

LEMMA WidenedEach ==
  ASSUME NEW D \in SUBSET Row, NEW others, NEW rows \in Seq(D)
  PROVE  Each(Widened(D, others), rows) =
           FlattenSeq([i \in 1..Len(rows) |-> Extensions(rows[i], others[rows[i]])])
<1>1. [i \in 1..Len(rows) |-> Widened(D, others)[rows[i]]] =
        [i \in 1..Len(rows) |-> Extensions(rows[i], others[rows[i]])]
  BY DEF Widened
<1> QED
  BY <1>1 DEF Each

(* Extending the rows of D by those of E makes no difference to f.         *)
Indifferent(f, D, E) ==
  \A d \in D : \A e \in E :
     Compatible(d, e) => (Merge(d, e) \in Holding(f) <=> d \in Holding(f))

(* A filter that a row passes just when the rows it is extended to do.     *)
LEMMA PassWidened ==
  ASSUME NEW f, NEW D \in SUBSET Row, NEW E \in SUBSET Row, NEW others \in Maps(D, E),
         NEW rows \in Seq(D), Indifferent(f, D, E)
  PROVE  /\ Passing(f, rows) \in Seq(D)
         /\ Passing(f, Each(Widened(D, others), rows)) =
              Each(Widened(D, others), Passing(f, rows))
<1> DEFINE g == Widened(D, others)
<1>1. /\ g \in Maps(D, Row)
      /\ \A d \in D : g[d] \in Seq(Longer(d, E))
  BY WidenedIs
<1> HIDE DEF g
<1>2. ASSUME NEW d \in D, NEW i \in 1..Len(g[d])
      PROVE  g[d][i] \in Holding(f) <=> d \in Holding(f)
  <2>1. g[d] \in Seq(Longer(d, E))
    BY <1>1
  <2>2. g[d][i] \in Longer(d, E)
    BY <2>1, ElementOfSeq
  <2> QED
    BY <2>2 DEF Longer, Indifferent
<1>3. Each(Those(Row, Holding(f)), Each(g, rows)) = Each(g, Each(Those(D, Holding(f)), rows))
  BY <1>1, <1>2, KeepBefore
<1>4. Each(g, rows) \in Seq(Row)
  BY <1>1, EachType
<1>5. Passing(f, Each(g, rows)) = Each(Those(Row, Holding(f)), Each(g, rows))
  BY <1>4, PassingIs
<1>6. Passing(f, rows) = Each(Those(D, Holding(f)), rows)
  BY PassingIs
<1>7. Each(Those(D, Holding(f)), rows) \in Seq(D)
  BY ThoseType, EachType
<1> QED
  BY <1>3, <1>5, <1>6, <1>7 DEF g

(* What a merged row says of a variable that only the first, or only the   *)
(* second, binds.                                                          *)
LEMMA MergeValue ==
  ASSUME NEW r \in Row, NEW t \in Row, NEW v
  PROVE  /\ v \notin DOMAIN t => Value(Merge(r, t), v) = Value(r, v)
         /\ v \in DOMAIN r => Value(Merge(r, t), v) = Value(r, v)
         /\ v \notin DOMAIN r => Value(Merge(r, t), v) = Value(t, v)
<1> DEFINE m == Merge(r, t)
<1>1. /\ DOMAIN m = DOMAIN r \cup DOMAIN t
      /\ \A x \in DOMAIN r \cup DOMAIN t : m[x] = IF x \in DOMAIN r THEN r[x] ELSE t[x]
  BY MergeIs
<1> HIDE DEF m
<1>2. v \in DOMAIN r => v \in DOMAIN m /\ m[v] = r[v]
  BY <1>1
<1>3. v \notin DOMAIN r /\ v \in DOMAIN t => v \in DOMAIN m /\ m[v] = t[v]
  BY <1>1
<1>4. v \notin DOMAIN r /\ v \notin DOMAIN t => v \notin DOMAIN m
  BY <1>1
<1>5. /\ v \notin DOMAIN t => Value(m, v) = Value(r, v)
      /\ v \in DOMAIN r => Value(m, v) = Value(r, v)
      /\ v \notin DOMAIN r => Value(m, v) = Value(t, v)
  BY <1>2, <1>3, <1>4 DEF Value
<1> QED
  BY <1>5 DEF m

LEMMA PassExtended ==
  ASSUME TypedMeaning, NEW f, NEW op \in Op, f.used \cap op.intro = {},
         NEW rows \in Seq(Row)
  PROVE  Passing(f, Extended(op, rows)) = Extended(op, Passing(f, rows))
<1> DEFINE D == Row
           others == [r \in D |-> Found(op, r)]
           E == [op.intro -> Values]
<1>0. op.intro \in SUBSET Vars
  BY DEF Op
<1>1. E \in SUBSET Row /\ \A e \in E : DOMAIN e = op.intro
  BY <1>0, RowIs
<1>2. others \in Maps(D, E)
  BY DEF Maps, TypedMeaning, GivesValues
<1>3. ASSUME NEW d \in Row, NEW e \in E
      PROVE  Merge(d, e) \in Holding(f) <=> d \in Holding(f)
  <2>1. e \in Row /\ DOMAIN e = op.intro
    BY <1>1
  <2> HIDE DEF E
  <2>2. \A v \in f.used : Value(Merge(d, e), v) = Value(d, v)
    <3> TAKE v \in f.used
    <3>1. v \notin DOMAIN e
      BY <2>1
    <3> QED
      BY <2>1, <3>1, MergeValue
  <2>3. Merge(d, e) \in Row
    BY <2>1, MergeIs
  <2> QED
    BY <2>2, <2>3, SameView
<1>4. ASSUME NEW u \in Seq(Row)
      PROVE  Extended(op, u) = Each(Widened(D, others), u)
  <2>1. \A i \in 1..Len(u) : others[u[i]] = Found(op, u[i])
    OBVIOUS
  <2>2. D \in SUBSET Row /\ u \in Seq(D)
    OBVIOUS
  <2>4. Each(Widened(D, others), u) =
          FlattenSeq([i \in 1..Len(u) |-> Extensions(u[i], others[u[i]])])
    BY <2>2, WidenedEach
  <2>3. [i \in 1..Len(u) |-> Extensions(u[i], others[u[i]])] =
          [i \in 1..Len(u) |-> Extensions(u[i], Found(op, u[i]))]
    BY <2>1
  <2> QED
    BY <2>3, <2>4 DEF Extended
<1> HIDE DEF others, E, D
<1>5. D \in SUBSET Row /\ rows \in Seq(D)
  BY DEF D
<1>6. /\ Passing(f, rows) \in Seq(D)
      /\ Passing(f, Each(Widened(D, others), rows)) =
           Each(Widened(D, others), Passing(f, rows))
  <2>1. Indifferent(f, D, E)
    BY <1>3 DEF D, Indifferent
  <2>2. E \in SUBSET Row
    BY <1>1
  <2> QED
    BY <1>2, <1>5, <2>1, <2>2, PassWidened
<1>7. Passing(f, rows) \in Seq(Row)
  BY <1>6 DEF D
<1> QED
  BY <1>4, <1>6, <1>7

(* A product: the filter reads what the left input binds, or the right.    *)
LEMMA PassJoinedLeft ==
  ASSUME NEW f, NEW lrows \in Seq(Over(f.used)), NEW rrows \in Seq(Row)
  PROVE  Passing(f, Joined(lrows, rrows)) = Joined(Passing(f, lrows), rrows)
<1> DEFINE D == Over(f.used)
           others == [d \in D |-> rrows]
<1>1. D \in SUBSET Row /\ others \in Maps(D, Row)
  BY DEF Over, Maps
<1>2. ASSUME NEW d \in D, NEW e \in Row
      PROVE  Merge(d, e) \in Holding(f) <=> d \in Holding(f)
  <2>1. d \in Row /\ f.used \subseteq DOMAIN d
    BY DEF Over
  <2> HIDE DEF D
  <2>2. \A v \in f.used : Value(Merge(d, e), v) = Value(d, v)
    BY <2>1, MergeValue
  <2>3. Merge(d, e) \in Row
    BY <2>1, MergeIs
  <2> QED
    BY <2>1, <2>2, <2>3, SameView
<1>3. ASSUME NEW u \in Seq(D)
      PROVE  Joined(u, rrows) = Each(Widened(D, others), u)
  <2>1. Each(Widened(D, others), u) =
          FlattenSeq([i \in 1..Len(u) |-> Extensions(u[i], others[u[i]])])
    BY <1>1, WidenedEach
  <2>2. [i \in 1..Len(u) |-> Extensions(u[i], others[u[i]])] =
          [i \in 1..Len(u) |-> Extensions(u[i], rrows)]
    OBVIOUS
  <2> QED
    BY <2>1, <2>2 DEF Joined
<1> HIDE DEF others, D
<1>4. lrows \in Seq(D)
  BY DEF D
<1>5. /\ Passing(f, lrows) \in Seq(D)
      /\ Passing(f, Each(Widened(D, others), lrows)) =
           Each(Widened(D, others), Passing(f, lrows))
  <2>1. Indifferent(f, D, Row)
    BY <1>2 DEF Indifferent
  <2>2. Row \in SUBSET Row
    OBVIOUS
  <2> QED
    BY <1>1, <1>4, <2>1, <2>2, PassWidened
<1> QED
  BY <1>3, <1>4, <1>5

-----------------------------------------------------------------------------
LEMMA PassJoinedRight ==
  ASSUME NEW f, NEW lrows \in Seq(Row), NEW rrows \in Seq(Over(f.used))
  PROVE  Passing(f, Joined(lrows, rrows)) = Joined(lrows, Passing(f, rrows))
<1> DEFINE D == Row
           E == Over(f.used)
           H == Holding(f)
           few == Passing(f, rrows)
           all == [d \in D |-> rrows]
           some == [d \in D |-> few]
<1>1. D \in SUBSET Row /\ E \in SUBSET Row /\ rrows \in Seq(E) /\ lrows \in Seq(D)
  BY DEF Over
<1>2. few = Each(Those(E, H), rrows) /\ few \in Seq(E)
  <2>1. few = Each(Those(E, H), rrows)
    BY <1>1, PassingIs
  <2>2. Each(Those(E, H), rrows) \in Seq(E)
    BY <1>1, ThoseType, EachType
  <2> QED
    BY <2>1, <2>2
<1>3. all \in Maps(D, E) /\ some \in Maps(D, E)
  <2> HIDE DEF E, few, D
  <2> QED
    BY <1>1, <1>2 DEF Maps
<1>4. ASSUME NEW rr \in Seq(E), NEW o, o = [d \in D |-> rr]
      PROVE  Joined(lrows, rr) = Each(Widened(D, o), lrows)
  <2>1. Each(Widened(D, o), lrows) =
          FlattenSeq([i \in 1..Len(lrows) |-> Extensions(lrows[i], o[lrows[i]])])
    BY <1>1, WidenedEach
  <2>2. [i \in 1..Len(lrows) |-> Extensions(lrows[i], o[lrows[i]])] =
          [i \in 1..Len(lrows) |-> Extensions(lrows[i], rr)]
    BY <1>4
  <2> QED
    BY <2>1, <2>2 DEF Joined
<1>5. ASSUME NEW d \in D, NEW e \in E, Compatible(d, e)
      PROVE  Merge(d, e) \in H <=> e \in H
  <2>1. d \in Row /\ e \in Row /\ f.used \subseteq DOMAIN e
    BY DEF Over
  <2>2. \A v \in f.used : Value(Merge(d, e), v) = Value(e, v)
    <3> TAKE v \in f.used
    <3>1. v \in DOMAIN e
      BY <2>1
    <3>2. v \notin DOMAIN d => Value(Merge(d, e), v) = Value(e, v)
      BY <2>1, MergeValue
    <3>3. v \in DOMAIN d => Value(Merge(d, e), v) = Value(d, v)
      BY <2>1, MergeValue
    <3>4. v \in DOMAIN d => Value(d, v) = Value(e, v)
      BY <1>5, <3>1 DEF Compatible, Value
    <3> QED
      BY <3>2, <3>3, <3>4
  <2>3. Merge(d, e) \in Row
    BY <2>1, MergeIs
  <2> QED
    BY <2>1, <2>2, <2>3, SameView
<1>6. ASSUME NEW d \in D
      PROVE  /\ Extensions(d, few) = Each(Those(Row, H), Extensions(d, rrows))
             /\ Extensions(d, rrows) \in Seq(Row)
  <2> DEFINE x == Extending(d, E)
  <2>1. /\ Extensions(d, rrows) = Each(x, rrows)
        /\ Extensions(d, few) = Each(x, few)
    BY <1>1, <1>2, ExtensionsIs
  <2>2. x \in Maps(E, Row)
    <3>1. \A e \in E : Merge(d, e) \in Row
      BY <1>1, MergeIs
    <3>2. \A e \in E : (IF Compatible(d, e) THEN <<Merge(d, e)>> ELSE <<>>) \in Seq(Row)
      BY <3>1
    <3> QED
      BY <3>2 DEF Extending, Maps
  <2>3. \A e \in E : x[e] = IF Compatible(d, e) THEN <<Merge(d, e)>> ELSE <<>>
    BY DEF Extending
  <2> HIDE DEF x, E, H
  <2>4. \A e \in E : \A i \in 1..Len(x[e]) : x[e][i] \in H <=> e \in H
    <3> TAKE e \in E
    <3> TAKE i \in 1..Len(x[e])
    <3>1. CASE Compatible(d, e)
      <4>1. x[e] = <<Merge(d, e)>>
        BY <2>3, <3>1
      <4>2. x[e][i] = Merge(d, e)
        BY <4>1
      <4> QED
        BY <1>5, <3>1, <4>2
    <3>2. CASE ~Compatible(d, e)
      <4>1. x[e] = <<>>
        BY <2>3, <3>2
      <4> QED
        BY <4>1
    <3> QED
      BY <3>1, <3>2
  <2>5. Each(Those(Row, H), Each(x, rrows)) = Each(x, Each(Those(E, H), rrows))
    BY <1>1, <2>2, <2>4, KeepBefore
  <2>6. Each(x, rrows) \in Seq(Row)
    BY <1>1, <2>2, EachType
  <2> QED
    BY <1>2, <2>1, <2>5, <2>6
<1>w. /\ Widened(D, all) \in Maps(D, Row) /\ Widened(D, some) \in Maps(D, Row)
      /\ \A d \in D : Widened(D, all)[d] = Extensions(d, rrows)
      /\ \A d \in D : Widened(D, some)[d] = Extensions(d, few)
  <2>1. /\ \A d \in D : Widened(D, all)[d] = Extensions(d, rrows)
        /\ \A d \in D : Widened(D, some)[d] = Extensions(d, few)
    BY DEF Widened
  <2> HIDE DEF D, E, all, some
  <2>2. Widened(D, all) \in Maps(D, Row)
    BY <1>1, <1>3, WidenedIs
  <2>3. Widened(D, some) \in Maps(D, Row)
    BY <1>1, <1>3, WidenedIs
  <2> QED
    BY <2>1, <2>2, <2>3
<1>7. Joined(lrows, rrows) = Each(Widened(D, all), lrows)
  <2> HIDE DEF D, E
  <2> QED
    BY <1>1, <1>4
<1>8. Joined(lrows, few) = Each(Widened(D, some), lrows)
  <2> HIDE DEF D, E, few
  <2> QED
    BY <1>2, <1>4
<1>9. Passing(f, Joined(lrows, rrows)) = Each(Those(Row, H), Each(Widened(D, all), lrows))
  <2>1. Each(Widened(D, all), lrows) \in Seq(Row)
    BY <1>1, <1>w, EachType
  <2> QED
    BY <1>7, <2>1, PassingIs
<1> DEFINE a == Widened(D, all)
           b == Widened(D, some)
           g == Those(Row, H)
<1>10. g \in Maps(Row, Row)
  BY ThoseType
<1>11. \A d \in D : b[d] = Each(g, a[d])
  <2> HIDE DEF few, H, E, D
  <2> QED
    BY <1>6, <1>w
<1> HIDE DEF a, b, g, D
<1>12. Each(g, Each(a, lrows)) = Each(b, lrows)
  <2>1. a \in Maps(D, Row) /\ b \in Maps(D, Row) /\ lrows \in Seq(D)
    BY <1>1, <1>w DEF a, b
  <2> QED
    BY <1>10, <1>11, <2>1, EachEach
<1> QED
  BY <1>8, <1>9, <1>12 DEF a, b, g

(* Two filters.                                                            *)
LEMMA PassPassing ==
  ASSUME NEW f, NEW g, NEW rows \in Seq(Row)
  PROVE  Passing(f, Passing(g, rows)) = Passing(g, Passing(f, rows))
<1> DEFINE F == Those(Row, Holding(f))
           G == Those(Row, Holding(g))
<1>1. F \in Maps(Row, Row) /\ G \in Maps(Row, Row)
  BY ThoseType
<1>2. ASSUME NEW u \in Seq(Row)
      PROVE  /\ Passing(f, u) = Each(F, u) /\ Passing(g, u) = Each(G, u)
             /\ Each(F, u) \in Seq(Row) /\ Each(G, u) \in Seq(Row)
  <2>1. Passing(f, u) = Each(F, u) /\ Passing(g, u) = Each(G, u)
    BY PassingIs
  <2>2. Each(F, u) \in Seq(Row) /\ Each(G, u) \in Seq(Row)
    <3> HIDE DEF F, G
    <3> QED
      BY <1>1, EachType
  <2> QED
    BY <2>1, <2>2
<1>3. \A d \in Row : \A i \in 1..Len(G[d]) : G[d][i] \in Holding(f) <=> d \in Holding(f)
  <2>1. \A d \in Row : G[d] = IF d \in Holding(g) THEN <<d>> ELSE <<>>
    BY ThoseAt
  <2> HIDE DEF G
  <2> TAKE d \in Row
  <2>2. G[d] = <<d>> \/ G[d] = <<>>
    BY <2>1
  <2> QED
    BY <2>2
<1>4. Each(F, Each(G, rows)) = Each(G, Each(F, rows))
  <2> HIDE DEF G
  <2>1. Each(Those(Row, Holding(f)), Each(G, rows)) =
          Each(G, Each(Those(Row, Holding(f)), rows))
    BY <1>1, <1>3, KeepBefore
  <2> QED
    BY <2>1
<1> HIDE DEF F, G
<1> QED
  BY <1>2, <1>4

(* The rows of a rank, for every rank.                                     *)
Ranked(op, k) == {r \in Row : SortKey(op, r) = k}

ByRank(op, rows) == [k \in Nat |-> Each(Those(Row, Ranked(op, k)), rows)]

LEMMA SortedIs ==
  ASSUME NEW op, NEW rows \in Seq(Row), NEW ks, ks = [k \in 1..SortKeys |-> k]
  PROVE  /\ ks \in Seq(Nat)
         /\ ByRank(op, rows) \in Maps(Nat, Row)
         /\ Sorted(op, rows) = Each(ByRank(op, rows), ks)
<1>1. ks \in Seq(Nat) /\ Len(ks) = SortKeys /\ \A k \in 1..SortKeys : ks[k] = k
  BY MeaningAssumption
<1>2. ASSUME NEW k \in Nat
      PROVE  /\ Keep(rows, {i \in 1..Len(rows) : SortKey(op, rows[i]) = k}) =
                  ByRank(op, rows)[k]
             /\ ByRank(op, rows)[k] \in Seq(Row)
  <2> DEFINE pos == {i \in 1..Len(rows) : SortKey(op, rows[i]) = k}
             T == Those(Row, Ranked(op, k))
  <2>1. ASSUME NEW i \in 1..Len(rows)
        PROVE  (IF i \in pos THEN <<rows[i]>> ELSE <<>>) = T[rows[i]]
    <3>1. rows[i] \in Row
      OBVIOUS
    <3>2. T[rows[i]] = IF rows[i] \in Ranked(op, k) THEN <<rows[i]>> ELSE <<>>
      BY <3>1, ThoseAt
    <3>3. i \in pos <=> rows[i] \in Ranked(op, k)
      BY <3>1 DEF Ranked
    <3> QED
      BY <3>2, <3>3
  <2>2. T \in Maps(Row, Row)
    BY ThoseType
  <2>3. ByRank(op, rows)[k] = Each(T, rows)
    BY DEF ByRank
  <2> HIDE DEF pos, T
  <2>4. [i \in 1..Len(rows) |-> IF i \in pos THEN <<rows[i]>> ELSE <<>>] =
          [i \in 1..Len(rows) |-> T[rows[i]]]
    BY <2>1
  <2>5. Keep(rows, pos) = Each(T, rows)
    BY <2>4 DEF Keep, Each
  <2>6. Each(T, rows) \in Seq(Row)
    BY <2>2, EachType
  <2> QED
    BY <2>3, <2>5, <2>6 DEF pos
<1>3. ByRank(op, rows) \in Maps(Nat, Row)
  BY <1>2 DEF ByRank, Maps
<1> DEFINE of(k) == Keep(rows, {i \in 1..Len(rows) : SortKey(op, rows[i]) = k})
<1>4. [k \in 1..SortKeys |-> of(k)] = [k \in 1..Len(ks) |-> ByRank(op, rows)[ks[k]]]
  <2>1. \A k \in 1..SortKeys : k \in Nat /\ ks[k] = k
    BY <1>1
  <2>2. \A k \in 1..SortKeys : of(k) = ByRank(op, rows)[ks[k]]
    BY <1>2, <2>1
  <2> HIDE DEF of
  <2> QED
    BY <1>1, <2>2
<1> QED
  BY <1>1, <1>3, <1>4 DEF Sorted, Each

LEMMA PassSorted ==
  ASSUME NEW f, NEW op, NEW rows \in Seq(Row)
  PROVE  Passing(f, Sorted(op, rows)) = Sorted(op, Passing(f, rows))
<1> DEFINE ks == [k \in 1..SortKeys |-> k]
           F == Those(Row, Holding(f))
           few == Passing(f, rows)
           a == ByRank(op, rows)
           b == ByRank(op, few)
<1>1. F \in Maps(Row, Row)
  BY ThoseType
<1>2. few = Each(F, rows) /\ few \in Seq(Row)
  <2>1. few = Each(F, rows)
    BY PassingIs
  <2> HIDE DEF F, few
  <2>2. Each(F, rows) \in Seq(Row)
    BY <1>1, EachType
  <2> QED
    BY <2>1, <2>2
<1>3. ks \in Seq(Nat) /\ a \in Maps(Nat, Row) /\ Sorted(op, rows) = Each(a, ks)
  BY SortedIs
<1>4. b \in Maps(Nat, Row) /\ Sorted(op, few) = Each(b, ks)
  <2> HIDE DEF few
  <2> QED
    BY <1>2, SortedIs
<1>5. ASSUME NEW k \in Nat PROVE b[k] = Each(F, a[k])
  <2> DEFINE G == Those(Row, Ranked(op, k))
  <2>1. a[k] = Each(G, rows) /\ b[k] = Each(G, few)
    BY DEF ByRank
  <2>2. G \in Maps(Row, Row)
    BY ThoseType
  <2>3. \A d \in Row : \A i \in 1..Len(G[d]) : G[d][i] \in Holding(f) <=> d \in Holding(f)
    <3>1. \A d \in Row : G[d] = IF d \in Ranked(op, k) THEN <<d>> ELSE <<>>
      BY ThoseAt
    <3> HIDE DEF G
    <3> TAKE d \in Row
    <3>2. G[d] = <<d>> \/ G[d] = <<>>
      BY <3>1
    <3> QED
      BY <3>2
  <2>4. Each(F, Each(G, rows)) = Each(G, Each(F, rows))
    <3> HIDE DEF G
    <3>1. Each(Those(Row, Holding(f)), Each(G, rows)) =
            Each(G, Each(Those(Row, Holding(f)), rows))
      BY <2>2, <2>3, KeepBefore
    <3> QED
      BY <3>1
  <2> HIDE DEF G, F, few, a, b
  <2> QED
    BY <1>2, <2>1, <2>4
<1> HIDE DEF ks, F, few, a, b
<1>6. Each(F, Each(a, ks)) = Each(b, ks)
  BY <1>1, <1>3, <1>4, <1>5, EachEach
<1>7. Passing(f, Each(a, ks)) = Each(F, Each(a, ks))
  <2>1. Each(a, ks) \in Seq(Row)
    BY <1>3, EachType
  <2> QED
    BY <2>1, PassingIs DEF F
<1> QED
  BY <1>3, <1>4, <1>6, <1>7 DEF few

(* A projection of a row.                                                  *)
LEMMA ProjectedIs ==
  ASSUME TypedMeaning, NEW op \in Op, NEW r \in Row
  PROVE  /\ Projected(op, r) \in Row
         /\ DOMAIN Projected(op, r) =
              (IF op.keep THEN DOMAIN r ELSE {}) \cup op.intro
         /\ \A v \in DOMAIN Projected(op, r) :
              v \notin op.alias => Projected(op, r)[v] = Value(r, v)
<1> DEFINE D == (IF op.keep THEN DOMAIN r ELSE {}) \cup op.intro
           p == Projected(op, r)
<1>1. p = [v \in D |-> IF v \in op.alias THEN Computed(op, v, r) ELSE Value(r, v)]
  BY DEF Projected
<1>2. D \in SUBSET Vars
  <2>1. op.intro \subseteq Vars /\ DOMAIN r \subseteq Vars
    BY RowHas DEF Op
  <2> QED
    BY <2>1
<1>3. \A v \in D : (IF v \in op.alias THEN Computed(op, v, r) ELSE Value(r, v)) \in Values
  BY ValueIs DEF TypedMeaning, GivesValues
<1> HIDE DEF D, p
<1>4. p \in [D -> Values]
  BY <1>1, <1>3
<1>5. p \in Row /\ DOMAIN p = D
  BY <1>2, <1>4, RowIs
<1>6. \A v \in D : v \notin op.alias => p[v] = Value(r, v)
  BY <1>1
<1> QED
  BY <1>5, <1>6 DEF D, p

LEMMA PassProjected ==
  ASSUME TypedMeaning, NEW f, NEW op \in Op, f.used \cap op.alias = {},
         op.kind = "Project", HidesInput(op) => f.used \subseteq op.intro,
         NEW rows \in Seq(Row)
  PROVE  Passing(f, [i \in 1..Len(rows) |-> Projected(op, rows[i])]) =
           [i \in 1..Len(Passing(f, rows)) |-> Projected(op, Passing(f, rows)[i])]
<1> DEFINE m == [r \in Row |-> Projected(op, r)]
           g == [r \in Row |-> <<m[r]>>]
           F == Those(Row, Holding(f))
<1>1. g \in Maps(Row, Row) /\ \A d \in Row : g[d] = <<m[d]>> /\ m[d] = Projected(op, d)
  <2>1. \A r \in Row : Projected(op, r) \in Row
    BY ProjectedIs
  <2> QED
    BY <2>1 DEF Maps
<1>2. ASSUME NEW d \in Row PROVE m[d] \in Holding(f) <=> d \in Holding(f)
  <2> DEFINE p == Projected(op, d)
  <2>1. /\ p \in Row
        /\ DOMAIN p = (IF op.keep THEN DOMAIN d ELSE {}) \cup op.intro
        /\ \A v \in DOMAIN p : v \notin op.alias => p[v] = Value(d, v)
    BY ProjectedIs
  <2>2. m[d] = p
    OBVIOUS
  <2> HIDE DEF p, m
  <2>3. \A v \in f.used : Value(p, v) = Value(d, v)
    <3> TAKE v \in f.used
    <3>1. v \notin op.alias
      OBVIOUS
    <3>2. CASE v \in DOMAIN p
      BY <2>1, <3>1, <3>2 DEF Value
    <3>3. CASE v \notin DOMAIN p
      <4>1. v \notin DOMAIN d
        BY <2>1, <3>3 DEF HidesInput
      <4> QED
        BY <3>3, <4>1 DEF Value
    <3> QED
      BY <3>2, <3>3
  <2> QED
    BY <2>1, <2>2, <2>3, SameView
<1> HIDE DEF m, g
<1>3. \A d \in Row : \A i \in 1..Len(g[d]) : g[d][i] \in Holding(f) <=> d \in Holding(f)
  <2> TAKE d \in Row
  <2>1. g[d] = <<m[d]>>
    BY <1>1
  <2> QED
    BY <1>2, <2>1
<1>4. Each(Those(Row, Holding(f)), Each(g, rows)) = Each(g, Each(Those(Row, Holding(f)), rows))
  BY <1>1, <1>3, KeepBefore
<1>5. F \in Maps(Row, Row)
  BY ThoseType
<1>6. ASSUME NEW u \in Seq(Row)
      PROVE  /\ [i \in 1..Len(u) |-> Projected(op, u[i])] = Each(g, u)
             /\ Passing(f, u) = Each(F, u)
             /\ Each(F, u) \in Seq(Row) /\ Each(g, u) \in Seq(Row)
  <2>1. Each(g, u) = [i \in 1..Len(u) |-> m[u[i]]]
    BY <1>1, MapIsEach
  <2>2. [i \in 1..Len(u) |-> m[u[i]]] = [i \in 1..Len(u) |-> Projected(op, u[i])]
    <3>1. \A i \in 1..Len(u) : u[i] \in Row
      OBVIOUS
    <3> QED
      BY <1>1, <3>1
  <2>3. Passing(f, u) = Each(F, u)
    BY PassingIs
  <2>4. Each(F, u) \in Seq(Row) /\ Each(g, u) \in Seq(Row)
    <3> HIDE DEF F
    <3> QED
      BY <1>1, <1>5, EachType
  <2> QED
    BY <2>1, <2>2, <2>3, <2>4
<1>7. Each(F, Each(g, rows)) = Each(g, Each(F, rows))
  BY <1>4
<1> HIDE DEF F
<1> DEFINE few == Passing(f, rows)
<1>8. few = Each(F, rows) /\ few \in Seq(Row)
  BY <1>6
<1> HIDE DEF few
<1>9. [i \in 1..Len(few) |-> Projected(op, few[i])] = Each(g, few)
  BY <1>6, <1>8
<1>10. Passing(f, Each(g, rows)) = Each(F, Each(g, rows))
  BY <1>6
<1> QED
  BY <1>6, <1>7, <1>8, <1>9, <1>10 DEF few

-----------------------------------------------------------------------------
(* Each element once.                                                      *)
In(s, d) == \E i \in 1..Len(s) : s[i] = d

LEMMA InPut ==
  ASSUME NEW X, NEW s \in Seq(X), NEW c \in X, NEW d
  PROVE  In(Append(s, c), d) <=> In(s, d) \/ c = d
<1> DEFINE N == Len(s)
           v == Append(s, c)
<1>1. N \in Nat /\ Len(v) = N + 1 /\ v[N + 1] = c /\ \A i \in 1..N : v[i] = s[i]
  OBVIOUS
<1>2. N + 1 \in 1..(N + 1) /\ \A i \in 1..(N + 1) : i = N + 1 \/ i \in 1..N
  BY <1>1
<1>3. \A i \in 1..N : i \in 1..(N + 1)
  BY <1>1
<1> HIDE DEF v
<1> QED
  BY <1>1, <1>2, <1>3 DEF In, v

LEMMA AppendIs ==
  ASSUME NEW X, NEW s \in Seq(X), NEW t \in X
  PROVE  Append(s, t) = [i \in 1..(Len(s) + 1) |-> IF i = Len(s) + 1 THEN t ELSE s[i]]
<1> DEFINE v == Append(s, t)
           N == Len(s)
<1>1. v \in Seq(X) /\ N \in Nat /\ Len(v) = N + 1
      /\ v[N + 1] = t /\ \A i \in 1..N : v[i] = s[i]
  OBVIOUS
<1> HIDE DEF v
<1>2. v = [i \in 1..Len(v) |-> v[i]]
  BY <1>1
<1> HIDE DEF N
<1>3. \A i \in 1..(N + 1) : v[i] = IF i = N + 1 THEN t ELSE s[i]
  BY <1>1
<1>4. v = [i \in 1..(N + 1) |-> IF i = N + 1 THEN t ELSE s[i]]
  BY <1>1, <1>2, <1>3
<1> QED
  BY <1>4 DEF v, N

LEMMA UniquePut ==
  ASSUME NEW X, NEW s \in Seq(X), NEW d \in X
  PROVE  Unique(Append(s, d)) = Unique(s) \o (IF In(s, d) THEN <<>> ELSE <<d>>)
<1> DEFINE N == Len(s)
           v == Append(s, d)
           fresh(u) == {i \in 1..Len(u) : \A j \in 1..(i - 1) : u[j] # u[i]}
           ss == [i \in 1..Len(s) |-> IF i \in fresh(s) THEN <<s[i]>> ELSE <<>>]
           vv == [i \in 1..Len(v) |-> IF i \in fresh(v) THEN <<v[i]>> ELSE <<>>]
           t == IF In(s, d) THEN <<>> ELSE <<d>>
<1>1. N \in Nat /\ Len(v) = N + 1 /\ v[N + 1] = d /\ \A i \in 1..N : v[i] = s[i]
  OBVIOUS
<1>2. \A i \in 1..N : i \in fresh(v) <=> i \in fresh(s)
  <2> TAKE i \in 1..N
  <2>1. \A j \in 1..(i - 1) : j \in 1..N
    BY <1>1
  <2>2. i \in 1..Len(v) /\ i \in 1..Len(s)
    BY <1>1
  <2> HIDE DEF v, N
  <2>3. \A j \in 1..(i - 1) : v[j] # v[i] <=> s[j] # s[i]
    BY <1>1, <2>1
  <2> QED
    BY <2>2, <2>3
<1>3. N + 1 \in fresh(v) <=> ~In(s, d)
  <2>1. N + 1 \in 1..Len(v) /\ (N + 1) - 1 = N
    BY <1>1
  <2> HIDE DEF v
  <2> QED
    BY <1>1, <2>1 DEF In
<1>4. ss \in Seq(Seq(X)) /\ t \in Seq(X) /\ Len(ss) = N
      /\ \A i \in 1..N : ss[i] = IF i \in fresh(s) THEN <<s[i]>> ELSE <<>>
  OBVIOUS
<1>5. vv = [i \in 1..(N + 1) |-> IF i \in fresh(v) THEN <<v[i]>> ELSE <<>>]
  BY <1>1
<1> HIDE DEF fresh, v, ss, vv, N, t
<1>6. \A i \in 1..(N + 1) : vv[i] = IF i = N + 1 THEN t ELSE ss[i]
  <2> TAKE i \in 1..(N + 1)
  <2>1. CASE i = N + 1
    BY <1>1, <1>3, <1>5, <2>1 DEF t
  <2>2. CASE i # N + 1
    <3>1. i \in 1..N
      BY <1>1, <2>2
    <3> QED
      BY <1>1, <1>2, <1>4, <1>5, <2>2, <3>1
  <2> QED
    BY <2>1, <2>2
<1>7. vv = Append(ss, t)
  <2>1. Append(ss, t) = [i \in 1..(N + 1) |-> IF i = N + 1 THEN t ELSE ss[i]]
    <3>1. ss \in Seq(Seq(X)) /\ t \in Seq(X) /\ Len(ss) = N
      BY <1>4
    <3> QED
      BY <3>1, AppendIs
  <2>2. vv = [i \in 1..(N + 1) |-> vv[i]]
    BY <1>5
  <2> QED
    BY <1>6, <2>1, <2>2
<1>8. FlattenSeq(Append(ss, t)) = FlattenSeq(ss) \o t
  BY <1>4, FlatPut
<1> QED
  BY <1>7, <1>8 DEF Unique, Keep, fresh, ss, vv, v, t, N

LEMMA UniqueNil == Unique(<<>>) = <<>>
<1>1. <<>> \in Seq({}) /\ <<>> \in Seq(Seq({}))
  OBVIOUS
<1>2. FlattenSeq(<<>>) = <<>>
  BY <1>1, FlatPut
<1>3. Len(<<>>) = 0 /\ 1..0 = {}
  OBVIOUS
<1> DEFINE at0 == {i \in 1..Len(<<>>) : \A j \in 1..(i - 1) : <<>>[j] # <<>>[i]}
           ss == [i \in 1..Len(<<>>) |-> IF i \in at0 THEN <<<<>>[i]>> ELSE <<>>]
<1>4. ss = <<>>
  BY <1>3
<1> QED
  BY <1>2, <1>4 DEF Unique, Keep

LEMMA UniqueType ==
  ASSUME NEW X, NEW s \in Seq(X)
  PROVE  Unique(s) \in Seq(X)
  BY KeepType DEF Unique

(* Which elements are kept of those of S does not depend on the others.    *)
LEMMA InThose ==
  ASSUME NEW X, NEW S, NEW s \in Seq(X), NEW d \in S
  PROVE  In(Each(Those(X, S), s), d) <=> In(s, d)
<1> DEFINE F == Those(X, S)
           T == {u \in Seq(X) : In(Each(F, u), d) <=> In(u, d)}
<1>0. F \in Maps(X, X)
  BY ThoseType
<1>1. <<>> \in T
  <2>1. Each(F, <<>>) = <<>>
    BY EachNil
  <2>2. <<>> \in Seq(X)
    OBVIOUS
  <2> QED
    BY <2>1, <2>2
<1>2. ASSUME NEW u \in Seq(X), NEW c \in X, u \in T
      PROVE  Append(u, c) \in T
  <2>0. Append(u, c) \in Seq(X) /\ (In(Each(F, u), d) <=> In(u, d))
    BY <1>2
  <2>1. Each(F, Append(u, c)) = Each(F, u) \o F[c]
    BY <1>0, EachPut
  <2>2. Each(F, u) \in Seq(X)
    BY <1>0, EachType
  <2>3. F[c] = IF c \in S THEN <<c>> ELSE <<>>
    BY ThoseAt
  <2>4. In(Append(u, c), d) <=> In(u, d) \/ c = d
    BY InPut
  <2> HIDE DEF F
  <2>5. CASE c \in S
    <3>1. Each(F, u) \o <<c>> = Append(Each(F, u), c)
      BY <2>2
    <3>2. In(Append(Each(F, u), c), d) <=> In(Each(F, u), d) \/ c = d
      BY <2>2, InPut
    <3> QED
      BY <2>0, <2>1, <2>3, <2>4, <2>5, <3>1, <3>2
  <2>6. CASE c \notin S
    <3>1. Each(F, u) \o <<>> = Each(F, u)
      BY <2>2, ConcatEmptySeq
    <3>2. c # d
      BY <2>6
    <3> QED
      BY <2>0, <2>1, <2>3, <2>4, <2>6, <3>1, <3>2
  <2> QED
    BY <2>5, <2>6
<1> HIDE DEF T, F
<1>3. s \in T
  BY <1>1, <1>2, SeqInduction
<1> QED
  BY <1>3 DEF T, F

LEMMA UniqueThose ==
  ASSUME NEW X, NEW S, NEW s \in Seq(X)
  PROVE  Unique(Each(Those(X, S), s)) = Each(Those(X, S), Unique(s))
<1> DEFINE F == Those(X, S)
           T == {u \in Seq(X) : Unique(Each(F, u)) = Each(F, Unique(u))}
<1>0. F \in Maps(X, X)
  BY ThoseType
<1>1. <<>> \in T
  <2>1. Each(F, <<>>) = <<>> /\ Unique(<<>>) = <<>>
    BY EachNil, UniqueNil
  <2>2. <<>> \in Seq(X)
    OBVIOUS
  <2> QED
    BY <2>1, <2>2
<1>2. ASSUME NEW u \in Seq(X), NEW c \in X, u \in T
      PROVE  Append(u, c) \in T
  <2>0. Append(u, c) \in Seq(X) /\ Unique(Each(F, u)) = Each(F, Unique(u))
    BY <1>2
  <2>1. Each(F, Append(u, c)) = Each(F, u) \o F[c]
    BY <1>0, EachPut
  <2>2. Each(F, u) \in Seq(X) /\ Unique(u) \in Seq(X)
    BY <1>0, EachType, UniqueType
  <2>3. F[c] = IF c \in S THEN <<c>> ELSE <<>>
    BY ThoseAt
  <2>4. Unique(Append(u, c)) = Unique(u) \o (IF In(u, c) THEN <<>> ELSE <<c>>)
    BY UniquePut
  <2>5. c \in S => (In(Each(F, u), c) <=> In(u, c))
    BY InThose
  <2>6. Each(F, Unique(u)) \in Seq(X) /\ Unique(Each(F, u)) \in Seq(X)
    BY <1>0, <2>2, EachType, UniqueType
  <2>7. /\ Unique(u) \o <<>> = Unique(u) /\ Each(F, u) \o <<>> = Each(F, u)
        /\ Each(F, Unique(u)) \o <<>> = Each(F, Unique(u))
        /\ Unique(Each(F, u)) \o <<>> = Unique(Each(F, u))
    BY <2>2, <2>6, ConcatEmptySeq
  <2>8. /\ Unique(u) \o <<c>> = Append(Unique(u), c)
        /\ Each(F, u) \o <<c>> = Append(Each(F, u), c)
    BY <2>2
  <2>9. Each(F, Append(Unique(u), c)) = Each(F, Unique(u)) \o F[c]
    BY <1>0, <2>2, EachPut
  <2> HIDE DEF F, T
  <2>10. Unique(Append(Each(F, u), c)) =
           Unique(Each(F, u)) \o (IF In(Each(F, u), c) THEN <<>> ELSE <<c>>)
    BY <2>2, UniquePut
  <2>11. Unique(Each(F, Append(u, c))) = Each(F, Unique(Append(u, c)))
    <3>1. CASE c \notin S
      <4>1. Each(F, Append(u, c)) = Each(F, u)
        BY <2>1, <2>3, <2>7, <3>1
      <4>2. Each(F, Unique(Append(u, c))) = Each(F, Unique(u))
        <5>1. CASE In(u, c)
          BY <2>4, <2>7, <5>1
        <5>2. CASE ~In(u, c)
          <6>1. Unique(Append(u, c)) = Append(Unique(u), c)
            BY <2>4, <2>8, <5>2
          <6> QED
            BY <2>3, <2>7, <2>9, <3>1, <6>1
        <5> QED
          BY <5>1, <5>2
      <4> QED
        BY <2>0, <4>1, <4>2
    <3>2. CASE c \in S /\ In(u, c)
      <4>1. Each(F, Append(u, c)) = Append(Each(F, u), c)
        BY <2>1, <2>3, <2>8, <3>2
      <4>2. Unique(Append(Each(F, u), c)) = Unique(Each(F, u))
        BY <2>5, <2>7, <2>10, <3>2
      <4>3. Unique(Append(u, c)) = Unique(u)
        BY <2>4, <2>7, <3>2
      <4> QED
        BY <2>0, <4>1, <4>2, <4>3
    <3>3. CASE c \in S /\ ~In(u, c)
      <4>1. Each(F, Append(u, c)) = Append(Each(F, u), c)
        BY <2>1, <2>3, <2>8, <3>3
      <4>2. Unique(Append(Each(F, u), c)) = Unique(Each(F, u)) \o <<c>>
        BY <2>5, <2>10, <3>3
      <4>3. Unique(Append(u, c)) = Append(Unique(u), c)
        BY <2>4, <2>8, <3>3
      <4>4. Each(F, Append(Unique(u), c)) = Each(F, Unique(u)) \o <<c>>
        BY <2>3, <2>9, <3>3
      <4> QED
        BY <2>0, <4>1, <4>2, <4>3, <4>4
    <3> QED
      BY <3>1, <3>2, <3>3
  <2> QED
    BY <2>0, <2>11 DEF T
<1> HIDE DEF T, F
<1>3. s \in T
  BY <1>1, <1>2, SeqInduction
<1> QED
  BY <1>3 DEF T, F

(* Nothing of a part is lost by keeping more than the part first.          *)
LEMMA ThoseThose ==
  ASSUME NEW X, NEW S, NEW P, NEW s \in Seq(X), S \cap X \subseteq P
  PROVE  Each(Those(X, S), Each(Those(X, P), s)) = Each(Those(X, S), s)
<1> DEFINE F == Those(X, P)
           G == Those(X, S)
<1>1. F \in Maps(X, X) /\ G \in Maps(X, X)
  BY ThoseType
<1>2. ASSUME NEW d \in X PROVE G[d] = Each(G, F[d])
  <2>1. F[d] = IF d \in P THEN <<d>> ELSE <<>>
    BY ThoseAt
  <2>2. G[d] = IF d \in S THEN <<d>> ELSE <<>>
    BY ThoseAt
  <2>3. Each(G, <<>>) = <<>>
    BY EachNil
  <2>4. Each(G, <<d>>) = G[d]
    BY <1>1, EachOne
  <2> HIDE DEF F, G
  <2> QED
    BY <2>1, <2>2, <2>3, <2>4
<1> HIDE DEF F, G
<1>3. Each(G, Each(F, s)) = Each(G, s)
  BY <1>1, <1>2, EachEach
<1> QED
  BY <1>3 DEF F, G

-----------------------------------------------------------------------------
(* Groups of rows.                                                         *)
Keyed(op, k) == {r \in Row : GroupKey(op, r) = k}

GroupOf(op, rows, k) == Each(Those(Row, Keyed(op, k)), rows)

Group(op, rows, k) ==
  Merge(k, [v \in op.alias |-> Aggregated(op, v, GroupOf(op, rows, k))])

Keys(op, rows) == Unique([i \in 1..Len(rows) |-> GroupKey(op, rows[i])])

LEMMA KeyIs ==
  ASSUME NEW op \in Op, NEW r \in Row
  PROVE  /\ GroupKey(op, r) \in Row
         /\ DOMAIN GroupKey(op, r) =
              ((IF op.keep THEN DOMAIN r ELSE {}) \cup op.intro) \ op.alias
         /\ \A v \in DOMAIN GroupKey(op, r) : GroupKey(op, r)[v] = Value(r, v)
<1> DEFINE D == ((IF op.keep THEN DOMAIN r ELSE {}) \cup op.intro) \ op.alias
           k == GroupKey(op, r)
<1>1. k = [v \in D |-> Value(r, v)]
  BY DEF GroupKey
<1>2. D \in SUBSET Vars
  <2>1. op.intro \subseteq Vars /\ DOMAIN r \subseteq Vars
    BY RowHas DEF Op
  <2> QED
    BY <2>1
<1>3. \A v \in D : Value(r, v) \in Values
  BY ValueIs
<1> HIDE DEF D, k
<1>4. k \in [D -> Values]
  BY <1>1, <1>3
<1>5. k \in Row /\ DOMAIN k = D
  BY <1>2, <1>4, RowIs
<1>6. \A v \in D : k[v] = Value(r, v)
  BY <1>1
<1> QED
  BY <1>5, <1>6 DEF D, k

(* A filter that reads no aggregate sees of a row what it sees of its key. *)
LEMMA KeyPasses ==
  ASSUME NEW f, NEW op \in Op, f.used \cap op.alias = {}, op.kind = "Project",
         HidesInput(op) => f.used \subseteq op.intro, NEW r \in Row
  PROVE  GroupKey(op, r) \in Holding(f) <=> r \in Holding(f)
<1> DEFINE k == GroupKey(op, r)
<1>1. /\ k \in Row
      /\ DOMAIN k = ((IF op.keep THEN DOMAIN r ELSE {}) \cup op.intro) \ op.alias
      /\ \A v \in DOMAIN k : k[v] = Value(r, v)
  BY KeyIs
<1> HIDE DEF k
<1>2. \A v \in f.used : Value(k, v) = Value(r, v)
  <2> TAKE v \in f.used
  <2>1. v \notin op.alias
    OBVIOUS
  <2>2. CASE v \in DOMAIN k
    BY <1>1, <2>2 DEF Value
  <2>3. CASE v \notin DOMAIN k
    <3>1. v \notin DOMAIN r
      BY <1>1, <2>1, <2>3 DEF HidesInput
    <3> QED
      BY <2>3, <3>1 DEF Value
  <2> QED
    BY <2>2, <2>3
<1>3. k \in Holding(f) <=> r \in Holding(f)
  BY <1>1, <1>2, SameView
<1> QED
  BY <1>3 DEF k

LEMMA KeepKeyed ==
  ASSUME NEW op, NEW rows \in Seq(Row), NEW k
  PROVE  Keep(rows, {i \in 1..Len(rows) : GroupKey(op, rows[i]) = k}) = GroupOf(op, rows, k)
<1> DEFINE pos == {i \in 1..Len(rows) : GroupKey(op, rows[i]) = k}
           T == Those(Row, Keyed(op, k))
<1>1. ASSUME NEW i \in 1..Len(rows)
      PROVE  (IF i \in pos THEN <<rows[i]>> ELSE <<>>) = T[rows[i]]
  <2>1. rows[i] \in Row
    OBVIOUS
  <2>2. T[rows[i]] = IF rows[i] \in Keyed(op, k) THEN <<rows[i]>> ELSE <<>>
    BY <2>1, ThoseAt
  <2>3. i \in pos <=> rows[i] \in Keyed(op, k)
    BY <2>1 DEF Keyed
  <2> QED
    BY <2>2, <2>3
<1> HIDE DEF pos, T
<1>2. [i \in 1..Len(rows) |-> IF i \in pos THEN <<rows[i]>> ELSE <<>>] =
        [i \in 1..Len(rows) |-> T[rows[i]]]
  BY <1>1
<1>3. Keep(rows, pos) = Each(T, rows)
  BY <1>2 DEF Keep, Each
<1> QED
  BY <1>3 DEF pos, T, GroupOf

LEMMA GroupedIs ==
  ASSUME NEW op, ~OneGroup(op), NEW rows \in Seq(Row)
  PROVE  Grouped(op, rows) =
           [n \in 1..Len(Keys(op, rows)) |-> Group(op, rows, Keys(op, rows)[n])]
<1> DEFINE of(k) == Keep(rows, {i \in 1..Len(rows) : GroupKey(op, rows[i]) = k})
           keys == Keys(op, rows)
<1>1. \A k : of(k) = GroupOf(op, rows, k)
  BY KeepKeyed
<1>2. Grouped(op, rows) =
        [n \in 1..Len(keys) |->
           Merge(keys[n], [v \in op.alias |-> Aggregated(op, v, of(keys[n]))])]
  BY DEF Grouped, Keys
<1> HIDE DEF of, keys
<1>3. \A n : Merge(keys[n], [v \in op.alias |-> Aggregated(op, v, of(keys[n]))]) =
             Group(op, rows, keys[n])
  BY <1>1 DEF Group
<1> QED
  BY <1>2, <1>3 DEF keys

LEMMA GroupOfType ==
  ASSUME NEW op, NEW rows \in Seq(Row), NEW k
  PROVE  GroupOf(op, rows, k) \in Seq(Row)
<1>1. Those(Row, Keyed(op, k)) \in Maps(Row, Row)
  BY ThoseType
<1> QED
  BY <1>1, EachType DEF GroupOf

LEMMA GroupIs ==
  ASSUME TypedMeaning, NEW op \in Op, NEW k \in Row, NEW rows \in Seq(Row)
  PROVE  /\ Group(op, rows, k) \in Row
         /\ DOMAIN Group(op, rows, k) = DOMAIN k \cup op.alias
         /\ \A v : v \notin op.alias => Value(Group(op, rows, k), v) = Value(k, v)
<1>1. GroupOf(op, rows, k) \in Seq(Row)
  BY GroupOfType
<1>2. PICK t : t = GroupOf(op, rows, k)
  OBVIOUS
<1> DEFINE a == [v \in op.alias |-> Aggregated(op, v, t)]
<1>3. \A v \in op.alias : Aggregated(op, v, t) \in Values
  BY <1>1, <1>2 DEF TypedMeaning, GivesValues
<1>4. a \in [op.alias -> Values] /\ op.alias \in SUBSET Vars
  BY <1>3 DEF Op
<1>5. a \in Row /\ DOMAIN a = op.alias
  BY <1>4, RowIs
<1>6. Group(op, rows, k) = Merge(k, a)
  BY <1>2 DEF Group
<1>7. PICK b : b = a
  OBVIOUS
<1> HIDE DEF a
<1>8. b \in Row /\ DOMAIN b = op.alias
  BY <1>5, <1>7
<1>9. Merge(k, b) \in Row /\ DOMAIN Merge(k, b) = DOMAIN k \cup op.alias
  BY ONLY <1>8, k \in Row, MergeOver
<1>10. \A v : v \notin op.alias => Value(Merge(k, b), v) = Value(k, v)
  BY <1>8, MergeElse
<1> QED
  BY <1>6, <1>7, <1>9, <1>10

KeyMap(op) == [r \in Row |-> <<GroupKey(op, r)>>]

LEMMA KeysIs ==
  ASSUME NEW op \in Op
  PROVE  /\ KeyMap(op) \in Maps(Row, Row)
         /\ \A r \in Row : KeyMap(op)[r] = <<GroupKey(op, r)>>
         /\ \A rows \in Seq(Row) : /\ Keys(op, rows) = Unique(Each(KeyMap(op), rows))
                                   /\ Keys(op, rows) \in Seq(Row)
<1> DEFINE m == [r \in Row |-> GroupKey(op, r)]
<1>1. \A r \in Row : GroupKey(op, r) \in Row
  BY KeyIs
<1>2. KeyMap(op) \in Maps(Row, Row)
  BY <1>1 DEF KeyMap, Maps
<1>3. \A r \in Row : KeyMap(op)[r] = <<GroupKey(op, r)>> /\ m[r] = GroupKey(op, r)
  BY DEF KeyMap
<1> HIDE DEF m
<1>4. ASSUME NEW rows \in Seq(Row)
      PROVE  Keys(op, rows) = Unique(Each(KeyMap(op), rows)) /\ Keys(op, rows) \in Seq(Row)
  <2>1. PICK g : g = KeyMap(op)
    OBVIOUS
  <2>2. g \in Maps(Row, Row) /\ \A d \in Row : g[d] = <<m[d]>>
    BY <1>2, <1>3, <2>1
  <2>3. Each(g, rows) = [i \in 1..Len(rows) |-> m[rows[i]]]
    BY <2>2, MapIsEach
  <2>4. \A i \in 1..Len(rows) : m[rows[i]] = GroupKey(op, rows[i])
    BY <1>3
  <2>5. Each(g, rows) = [i \in 1..Len(rows) |-> GroupKey(op, rows[i])]
    BY <2>3, <2>4
  <2>6. Each(g, rows) \in Seq(Row)
    BY <2>2, EachType
  <2>7. Unique(Each(g, rows)) \in Seq(Row)
    BY <2>6, UniqueType
  <2> QED
    BY <2>1, <2>5, <2>7 DEF Keys
<1> QED
  BY <1>2, <1>3, <1>4

GroupMap(op, rows) == [k \in Row |-> <<Group(op, rows, k)>>]

LEMMA GroupsAre ==
  ASSUME TypedMeaning, NEW op \in Op, ~OneGroup(op), NEW rows \in Seq(Row)
  PROVE  /\ GroupMap(op, rows) \in Maps(Row, Row)
         /\ \A k \in Row : GroupMap(op, rows)[k] = <<Group(op, rows, k)>>
         /\ Grouped(op, rows) = Each(GroupMap(op, rows), Keys(op, rows))
         /\ Grouped(op, rows) \in Seq(Row)
<1> DEFINE m == [k \in Row |-> Group(op, rows, k)]
<1>1. \A k \in Row : Group(op, rows, k) \in Row
  BY GroupIs
<1>2. GroupMap(op, rows) \in Maps(Row, Row)
  BY <1>1 DEF GroupMap, Maps
<1>3. \A k \in Row : GroupMap(op, rows)[k] = <<Group(op, rows, k)>> /\ m[k] = Group(op, rows, k)
  BY DEF GroupMap
<1>4. PICK keys : keys = Keys(op, rows)
  OBVIOUS
<1>5. keys \in Seq(Row)
  BY <1>4, KeysIs
<1> HIDE DEF m
<1>6. PICK g : g = GroupMap(op, rows)
  OBVIOUS
<1>7. g \in Maps(Row, Row) /\ \A d \in Row : g[d] = <<m[d]>>
  BY <1>2, <1>3, <1>6
<1>8. Each(g, keys) = [i \in 1..Len(keys) |-> m[keys[i]]]
  BY <1>5, <1>7, MapIsEach
<1>9. \A i \in 1..Len(keys) : m[keys[i]] = Group(op, rows, keys[i])
  BY <1>3, <1>5
<1>10. Grouped(op, rows) = [i \in 1..Len(keys) |-> Group(op, rows, keys[i])]
  BY <1>4, GroupedIs
<1>11. Grouped(op, rows) = Each(g, keys)
  BY <1>8, <1>9, <1>10
<1>12. Each(g, keys) \in Seq(Row)
  BY <1>5, <1>7, EachType
<1> QED
  BY <1>2, <1>3, <1>4, <1>6, <1>11, <1>12

(* A filter that tells no rows of a group apart.                           *)
SeesKeys(f, op) ==
  \A r \in Row : GroupKey(op, r) \in Holding(f) <=> r \in Holding(f)

LEMMA FewKeys ==
  ASSUME NEW f, NEW op \in Op, SeesKeys(f, op), NEW rows \in Seq(Row)
  PROVE  Keys(op, Each(Those(Row, Holding(f)), rows)) =
           Each(Those(Row, Holding(f)), Keys(op, rows))
<1> DEFINE H == Holding(f)
           F == Those(Row, H)
<1>1. F \in Maps(Row, Row)
  BY ThoseType
<1>2. Each(F, rows) \in Seq(Row)
  BY <1>1, EachType
<1>3. PICK g : g = KeyMap(op)
  OBVIOUS
<1>4. /\ g \in Maps(Row, Row)
      /\ \A r \in Row : g[r] = <<GroupKey(op, r)>>
      /\ \A s \in Seq(Row) : Keys(op, s) = Unique(Each(g, s))
  BY <1>3, KeysIs
<1>5. \A d \in Row : \A i \in 1..Len(g[d]) : g[d][i] \in H <=> d \in H
  BY <1>4 DEF SeesKeys
<1> HIDE DEF H
<1>6. Each(F, Each(g, rows)) = Each(g, Each(F, rows))
  BY <1>4, <1>5, KeepBefore
<1>7. Each(g, rows) \in Seq(Row)
  BY <1>4, EachType
<1>8. Unique(Each(F, Each(g, rows))) = Each(F, Unique(Each(g, rows)))
  BY <1>7, UniqueThose
<1> HIDE DEF F
<1>9. Keys(op, Each(F, rows)) = Each(F, Keys(op, rows))
  BY <1>2, <1>4, <1>6, <1>8
<1> QED
  BY <1>9 DEF F, H

LEMMA FewGroup ==
  ASSUME NEW f, NEW op \in Op, SeesKeys(f, op), NEW rows \in Seq(Row),
         NEW k \in Row, k \in Holding(f)
  PROVE  Group(op, Each(Those(Row, Holding(f)), rows), k) = Group(op, rows, k)
<1>1. Keyed(op, k) \cap Row \subseteq Holding(f)
  BY DEF Keyed, SeesKeys
<1>2. GroupOf(op, Each(Those(Row, Holding(f)), rows), k) = GroupOf(op, rows, k)
  BY <1>1, ThoseThose DEF GroupOf
<1> QED
  BY <1>2 DEF Group

LEMMA PassGrouped ==
  ASSUME TypedMeaning, NEW f, NEW op \in Op, op.kind = "Project", ~OneGroup(op),
         f.used \cap op.alias = {}, HidesInput(op) => f.used \subseteq op.intro,
         NEW rows \in Seq(Row)
  PROVE  Passing(f, Grouped(op, rows)) = Grouped(op, Passing(f, rows))
<1> DEFINE H == Holding(f)
           F == Those(Row, H)
           few == Each(F, rows)
<1>1. F \in Maps(Row, Row)
  BY ThoseType
<1>2. few \in Seq(Row)
  BY <1>1, EachType
<1>3. SeesKeys(f, op)
  BY KeyPasses DEF SeesKeys
<1>4. /\ Passing(f, rows) = few
      /\ Passing(f, Grouped(op, rows)) = Each(F, Grouped(op, rows))
  <2>1. Grouped(op, rows) \in Seq(Row)
    BY GroupsAre
  <2> QED
    BY <2>1, PassingIs
<1>5. PICK a : a = GroupMap(op, rows)
  OBVIOUS
<1>6. PICK b : b = GroupMap(op, few)
  OBVIOUS
<1>7. PICK keys : keys = Keys(op, rows)
  OBVIOUS
<1>8. keys \in Seq(Row)
  BY <1>7, KeysIs
<1>9. a \in Maps(Row, Row) /\ b \in Maps(Row, Row)
      /\ (\A k \in Row : a[k] = <<Group(op, rows, k)>>)
      /\ (\A k \in Row : b[k] = <<Group(op, few, k)>>)
  <2> HIDE DEF few
  <2> QED
    BY <1>2, <1>5, <1>6, GroupsAre
<1>10. Grouped(op, rows) = Each(a, keys)
  BY <1>5, <1>7, GroupsAre
<1>11. Grouped(op, few) = Each(b, Each(F, keys))
  <2>1. Keys(op, few) = Each(F, keys)
    BY <1>3, <1>7, FewKeys
  <2> HIDE DEF few, F
  <2>2. Grouped(op, few) = Each(b, Keys(op, few))
    BY <1>2, <1>6, GroupsAre
  <2> QED
    BY <2>1, <2>2
<1>12. \A k \in Row : \A i \in 1..Len(a[k]) : a[k][i] \in H <=> k \in H
  <2> TAKE k \in Row
  <2>1. PICK g : g = Group(op, rows, k)
    OBVIOUS
  <2>2. g \in Row /\ \A v : v \notin op.alias => Value(g, v) = Value(k, v)
    BY <2>1, GroupIs
  <2>3. \A v \in f.used : Value(g, v) = Value(k, v)
    BY <2>2
  <2>4. g \in Holding(f) <=> k \in Holding(f)
    BY <2>2, <2>3, SameView
  <2> QED
    BY <1>9, <2>1, <2>4
<1>13. \A k \in H : a[k] = b[k]
  <2> TAKE k \in H
  <2>1. k \in Row /\ k \in Holding(f)
    BY DEF Holding
  <2>2. Group(op, few, k) = Group(op, rows, k)
    BY <1>3, <2>1, FewGroup
  <2> QED
    BY <1>9, <2>1, <2>2
<1>14. Each(F, Each(a, keys)) = Each(a, Each(F, keys))
  <2>1. a \in Maps(Row, Row)
    BY <1>9
  <2> HIDE DEF H
  <2> QED
    BY <1>8, <1>12, <2>1, KeepBefore
<1>15. Each(a, Each(F, keys)) = Each(b, Each(F, keys))
  <2> DEFINE c == [k \in Row |-> Each(a, F[k])]
             d == [k \in Row |-> Each(b, F[k])]
  <2>1. \A k \in Row : F[k] \in Seq(Row) /\ F[k] = IF k \in H THEN <<k>> ELSE <<>>
    <3> TAKE k \in Row
    <3>1. F[k] = IF k \in H THEN <<k>> ELSE <<>>
      BY ThoseAt
    <3> QED
      BY <3>1
  <2>2. \A k \in Row : Each(a, F[k]) \in Seq(Row) /\ Each(b, F[k]) \in Seq(Row)
    BY <1>9, <2>1, EachType
  <2>3. \A k \in Row : Each(a, F[k]) = Each(b, F[k])
    <3> TAKE k \in Row
    <3>1. CASE k \in H
      <4>1. Each(a, <<k>>) = a[k] /\ Each(b, <<k>>) = b[k]
        BY <1>9, EachOne
      <4> QED
        BY <1>13, <2>1, <3>1, <4>1
    <3>2. CASE k \notin H
      <4>1. Each(a, <<>>) = <<>> /\ Each(b, <<>>) = <<>>
        BY EachNil
      <4> QED
        BY <2>1, <3>2, <4>1
    <3> QED
      BY <3>1, <3>2
  <2>4. /\ c \in Maps(Row, Row) /\ (\A k \in Row : c[k] = Each(a, F[k]))
        /\ d \in Maps(Row, Row) /\ (\A k \in Row : d[k] = Each(b, F[k]))
        /\ \A k \in Row : c[k] = d[k]
    BY <2>2, <2>3 DEF Maps
  <2> HIDE DEF F, c, d
  <2>5. Each(a, Each(F, keys)) = Each(c, keys)
    BY <1>1, <1>8, <1>9, <2>4, EachEach
  <2>6. Each(b, Each(F, keys)) = Each(d, keys)
    BY <1>1, <1>8, <1>9, <2>4, EachEach
  <2>7. Each(c, keys) = Each(d, keys)
    BY <1>8, <2>4, EachSame
  <2> QED
    BY <2>5, <2>6, <2>7
<1> QED
  BY <1>4, <1>10, <1>11, <1>14, <1>15

-----------------------------------------------------------------------------
(* The operators a filter may pass give the rows that pass it the same     *)
(* before and after.                                                       *)
MayPass(f, op) ==
  /\ op.kind \in Promise!Transparent
  /\ f.used \cap Promise!Writes(op) = {}
  /\ OneGroup(op) => f.used # {}
  /\ HidesInput(op) => f.used \subseteq op.intro

LEMMA PassApply ==
  ASSUME TypedMeaning, NEW f, NEW op \in Op, MayPass(f, op),
         NEW rows \in Seq(Over(f.used)), NEW other \in Seq(Row)
  PROVE  Passing(f, Apply(op, rows, other)) = Apply(op, Passing(f, rows), other)
<1>0. /\ op.kind \in Promise!Transparent
      /\ f.used \cap Promise!Writes(op) = {}
      /\ OneGroup(op) => f.used # {}
      /\ HidesInput(op) => f.used \subseteq op.intro
  BY DEF MayPass
<1>1. rows \in Seq(Row)
  <2>1. Over(f.used) \subseteq Row
    BY DEF Over
  <2> QED
    BY <2>1, SeqMonotonic
<1>2. CASE op.kind = "Project" /\ ~op.agg
  <2>1. \A u : Apply(op, u, other) = [i \in 1..Len(u) |-> Projected(op, u[i])]
    BY <1>2 DEF Apply
  <2>2. f.used \cap op.alias = {}
    BY <1>0, <1>2 DEF Promise!Writes
  <2>4. Passing(f, [i \in 1..Len(rows) |-> Projected(op, rows[i])]) =
          [i \in 1..Len(Passing(f, rows)) |-> Projected(op, Passing(f, rows)[i])]
    BY <1>0, <1>1, <1>2, <2>2, PassProjected
  <2> HIDE DEF Passing
  <2> QED
    BY <2>1, <2>4, Zenon
<1>7. CASE op.kind = "Project" /\ op.agg
  <2>1. \A u : Apply(op, u, other) = Grouped(op, u)
    BY <1>7 DEF Apply
  <2>2. f.used \cap op.alias = {}
    BY <1>0, <1>7 DEF Promise!Writes
  <2>3. ~OneGroup(op)
    BY <1>0, <1>7, <2>2 DEF OneGroup, HidesInput
  <2>4. Passing(f, Grouped(op, rows)) = Grouped(op, Passing(f, rows))
    BY <1>0, <1>1, <1>7, <2>2, <2>3, PassGrouped
  <2> QED
    BY <2>1, <2>4
<1>3. CASE op.kind = "Sort"
  <2>1. \A u : Apply(op, u, other) = Sorted(op, u)
    BY <1>3 DEF Apply
  <2> QED
    BY <1>1, <2>1, PassSorted
<1>4. CASE op.kind \in {"Expand", "NamedPath", "LoadCsv"}
  <2>1. \A u : Apply(op, u, other) = Extended(op, u)
    BY <1>4 DEF Apply
  <2>2. f.used \cap op.intro = {}
    BY <1>0, <1>4 DEF Promise!Writes
  <2> QED
    BY <1>1, <2>1, <2>2, PassExtended
<1>5. CASE op.kind = "PropertyMapFilter"
  <2>1. \A u : Apply(op, u, other) = Passing(op, u)
    BY <1>5 DEF Apply
  <2> QED
    BY <1>1, <2>1, PassPassing
<1>6. CASE op.kind = "Cartesian"
  <2>1. \A u : Apply(op, u, other) = Joined(u, other)
    BY <1>6 DEF Apply
  <2> QED
    BY <2>1, PassJoinedLeft
<1> QED
  BY <1>0, <1>2, <1>3, <1>4, <1>5, <1>6, <1>7 DEF Promise!Transparent

-----------------------------------------------------------------------------
(* The rows an operator produces bind what is bound above it.              *)
Both(B, N) == B \cup N

LEMMA OverMerge ==
  ASSUME NEW B, NEW N, NEW r \in Over(B), NEW t \in Over(N)
  PROVE  Merge(r, t) \in Over(Both(B, N))
<1>1. r \in Row /\ t \in Row /\ B \subseteq DOMAIN r /\ N \subseteq DOMAIN t
  BY DEF Over
<1>2. Merge(r, t) \in Row /\ DOMAIN Merge(r, t) = DOMAIN r \cup DOMAIN t
  BY <1>1, MergeIs
<1> QED
  BY <1>1, <1>2 DEF Over, Both

LEMMA OverFewer ==
  ASSUME NEW B, NEW N, N \subseteq B, NEW rows \in Seq(Over(B))
  PROVE  rows \in Seq(Over(N))
<1>1. Over(B) \subseteq Over(N)
  BY DEF Over
<1> QED
  BY <1>1, SeqMonotonic

LEMMA OverRow ==
  ASSUME NEW B, NEW rows \in Seq(Over(B))
  PROVE  rows \in Seq(Row)
<1>1. Over(B) \subseteq Row
  BY DEF Over
<1> QED
  BY <1>1, SeqMonotonic

LEMMA ExtensionsType ==
  ASSUME NEW B, NEW N, NEW row \in Over(B), NEW others \in Seq(Over(N))
  PROVE  Extensions(row, others) \in Seq(Over(Both(B, N)))
<1> DEFINE ss == [i \in 1..Len(others) |->
                    IF Compatible(row, others[i]) THEN <<Merge(row, others[i])>>
                    ELSE <<>>]
<1>1. \A i \in 1..Len(others) : Merge(row, others[i]) \in Over(Both(B, N))
  <2>1. \A i \in 1..Len(others) : others[i] \in Over(N)
    OBVIOUS
  <2> QED
    BY <2>1, OverMerge
<1>2. ss \in Seq(Seq(Over(Both(B, N))))
  BY <1>1
<1> HIDE DEF ss
<1>3. FlattenSeq(ss) \in Seq(Over(Both(B, N)))
  BY <1>2, FlatType
<1> QED
  BY <1>3 DEF Extensions, ss

LEMMA JoinedType ==
  ASSUME NEW B, NEW N, NEW lrows \in Seq(Over(B)), NEW rrows \in Seq(Over(N))
  PROVE  Joined(lrows, rrows) \in Seq(Over(Both(B, N)))
<1> DEFINE ss == [i \in 1..Len(lrows) |-> Extensions(lrows[i], rrows)]
<1>1. \A i \in 1..Len(lrows) : Extensions(lrows[i], rrows) \in Seq(Over(Both(B, N)))
  <2>1. \A i \in 1..Len(lrows) : lrows[i] \in Over(B)
    OBVIOUS
  <2> QED
    BY <2>1, ExtensionsType
<1>2. ss \in Seq(Seq(Over(Both(B, N))))
  BY <1>1
<1> HIDE DEF ss
<1>3. FlattenSeq(ss) \in Seq(Over(Both(B, N)))
  BY <1>2, FlatType
<1> QED
  BY <1>3 DEF Joined, ss

LEMMA OuterJoinedType ==
  ASSUME NEW op \in Op, NEW B, NEW lrows \in Seq(Over(B)),
         NEW rrows \in Seq(Over(op.intro))
  PROVE  OuterJoined(op, lrows, rrows) \in Seq(Over(Both(B, op.intro)))
<1> DEFINE nulls == [v \in op.intro |-> Null]
           of(i) == IF Extensions(lrows[i], rrows) = <<>>
                    THEN <<Merge(lrows[i], nulls)>>
                    ELSE Extensions(lrows[i], rrows)
           ss == [i \in 1..Len(lrows) |-> of(i)]
<1>0. nulls \in Over(op.intro)
  <2>1. op.intro \in SUBSET Vars
    BY DEF Op
  <2>2. nulls \in [op.intro -> Values]
    BY MeaningAssumption
  <2> HIDE DEF nulls
  <2>3. nulls \in Row /\ DOMAIN nulls = op.intro
    BY <2>1, <2>2, RowIs
  <2> QED
    BY <2>3 DEF Over
<1> HIDE DEF nulls
<1>1. \A i \in 1..Len(lrows) : /\ Extensions(lrows[i], rrows) \in Seq(Over(Both(B, op.intro)))
                               /\ Merge(lrows[i], nulls) \in Over(Both(B, op.intro))
  <2>1. \A i \in 1..Len(lrows) : lrows[i] \in Over(B)
    OBVIOUS
  <2> QED
    BY <1>0, <2>1, ExtensionsType, OverMerge
<1>2. ss \in Seq(Seq(Over(Both(B, op.intro))))
  <2>1. ASSUME NEW i \in 1..Len(lrows) PROVE of(i) \in Seq(Over(Both(B, op.intro)))
    <3>1. \A x \in Over(Both(B, op.intro)) : <<x>> \in Seq(Over(Both(B, op.intro)))
      OBVIOUS
    <3> QED
      BY <1>1, <3>1
  <2> HIDE DEF of
  <2> QED
    BY <2>1
<1> HIDE DEF ss
<1>3. FlattenSeq(ss) \in Seq(Over(Both(B, op.intro)))
  BY <1>2, FlatType
<1> QED
  BY <1>3 DEF OuterJoined, ss, of, nulls

LEMMA ExtendedType ==
  ASSUME TypedMeaning, NEW op \in Op, NEW B, NEW rows \in Seq(Over(B))
  PROVE  Extended(op, rows) \in Seq(Over(Both(B, op.intro)))
<1> DEFINE ss == [i \in 1..Len(rows) |-> Extensions(rows[i], Found(op, rows[i]))]
<1>1. ASSUME NEW i \in 1..Len(rows)
      PROVE  Extensions(rows[i], Found(op, rows[i])) \in Seq(Over(Both(B, op.intro)))
  <2>1. rows[i] \in Over(B) /\ rows[i] \in Row
    BY DEF Over
  <2>2. op.intro \in SUBSET Vars
    BY DEF Op
  <2>3. Found(op, rows[i]) \in Seq([op.intro -> Values])
    BY <2>1 DEF TypedMeaning, GivesValues
  <2>4. [op.intro -> Values] \subseteq Over(op.intro)
    BY <2>2, RowIs DEF Over
  <2>5. Found(op, rows[i]) \in Seq(Over(op.intro))
    BY <2>3, <2>4, SeqMonotonic
  <2> QED
    BY <2>1, <2>5, ExtensionsType
<1>2. ss \in Seq(Seq(Over(Both(B, op.intro))))
  BY <1>1
<1> HIDE DEF ss
<1>3. FlattenSeq(ss) \in Seq(Over(Both(B, op.intro)))
  BY <1>2, FlatType
<1> QED
  BY <1>3 DEF Extended, ss

LEMMA SortedType ==
  ASSUME NEW op, NEW D, NEW rows \in Seq(D)
  PROVE  Sorted(op, rows) \in Seq(D)
<1> DEFINE of(k) == Keep(rows, {i \in 1..Len(rows) : SortKey(op, rows[i]) = k})
           ss == [k \in 1..SortKeys |-> of(k)]
<1>1. \A k : of(k) \in Seq(D)
  BY KeepType
<1> HIDE DEF of
<1>2. ss \in Seq(Seq(D))
  BY <1>1, MeaningAssumption
<1> HIDE DEF ss
<1>3. FlattenSeq(ss) \in Seq(D)
  BY <1>2, FlatType
<1> QED
  BY <1>3 DEF Sorted, ss, of

(* What is bound above an operator, given what is bound below.             *)
Above(op, B) == op.intro \cup (IF HidesInput(op) THEN {} ELSE B)

LEMMA GroupedType ==
  ASSUME TypedMeaning, NEW op \in Op, op.kind = "Project", op.alias \subseteq op.intro,
         NEW B, NEW rows \in Seq(Over(B))
  PROVE  Grouped(op, rows) \in Seq(Over(Above(op, B)))
<1>0. rows \in Seq(Row)
  BY OverRow
<1>1. CASE OneGroup(op)
  <2>1. Grouped(op, rows) = <<Group(op, rows, EmptyRow)>>
    <3>1. PICK keys : keys = <<EmptyRow>>
      OBVIOUS
    <3>2. Len(keys) = 1 /\ keys[1] = EmptyRow
      BY <3>1
    <3> DEFINE of(k) == Keep(rows, {i \in 1..Len(rows) : GroupKey(op, rows[i]) = k})
    <3>3. of(EmptyRow) = GroupOf(op, rows, EmptyRow)
      BY <1>0, KeepKeyed
    <3>4. Grouped(op, rows) =
            [n \in 1..Len(keys) |->
               Merge(keys[n], [v \in op.alias |-> Aggregated(op, v, of(keys[n]))])]
      BY <1>1, <3>1 DEF Grouped
    <3> HIDE DEF of
    <3>5. \A n \in 1..1 : Merge(keys[n], [v \in op.alias |-> Aggregated(op, v, of(keys[n]))]) =
                          Group(op, rows, EmptyRow)
      BY <3>2, <3>3 DEF Group
    <3>6. Grouped(op, rows) = [n \in 1..1 |-> Group(op, rows, EmptyRow)]
      BY <3>2, <3>4, <3>5
    <3> QED
      BY <3>6
  <2>2. /\ Group(op, rows, EmptyRow) \in Row
        /\ DOMAIN Group(op, rows, EmptyRow) = DOMAIN EmptyRow \cup op.alias
    BY <1>0, EmptyRowIs, GroupIs
  <2>3. Above(op, B) \subseteq op.alias
    BY <1>1 DEF Above, HidesInput, OneGroup
  <2>4. Group(op, rows, EmptyRow) \in Over(Above(op, B))
    BY <2>2, <2>3 DEF Over
  <2> QED
    BY <2>1, <2>4
<1>2. CASE ~OneGroup(op)
  <2> DEFINE K == Over(Above(op, B) \ op.alias)
             ks == [i \in 1..Len(rows) |-> GroupKey(op, rows[i])]
  <2>1. ASSUME NEW i \in 1..Len(rows)
        PROVE  GroupKey(op, rows[i]) \in K
    <3>1. PICK r : r = rows[i]
      OBVIOUS
    <3>2. r \in Row /\ B \subseteq DOMAIN r
      BY <3>1 DEF Over
    <3>3. PICK k : k = GroupKey(op, r)
      OBVIOUS
    <3>4. /\ k \in Row
          /\ DOMAIN k = ((IF op.keep THEN DOMAIN r ELSE {}) \cup op.intro) \ op.alias
      BY <3>2, <3>3, KeyIs
    <3>5. Above(op, B) \ op.alias \subseteq DOMAIN k
      BY <3>2, <3>4 DEF Above, HidesInput
    <3> QED
      BY <3>1, <3>3, <3>4, <3>5 DEF Over
  <2> HIDE DEF K
  <2>2. ks \in Seq(K)
    BY <2>1
  <2> HIDE DEF ks
  <2>3. PICK keys : keys = Keys(op, rows)
    OBVIOUS
  <2>4. keys \in Seq(K)
    BY <2>2, <2>3, UniqueType DEF Keys, ks
  <2>5. Grouped(op, rows) = [n \in 1..Len(keys) |-> Group(op, rows, keys[n])]
    BY <1>0, <1>2, <2>3, GroupedIs
  <2>6. ASSUME NEW n \in 1..Len(keys)
        PROVE  Group(op, rows, keys[n]) \in Over(Above(op, B))
    <3>1. PICK k : k = keys[n]
      OBVIOUS
    <3>2. k \in Row /\ Above(op, B) \ op.alias \subseteq DOMAIN k
      BY <2>4, <3>1 DEF K, Over
    <3>3. /\ Group(op, rows, k) \in Row
          /\ DOMAIN Group(op, rows, k) = DOMAIN k \cup op.alias
      BY <1>0, <3>2, GroupIs
    <3> QED
      BY <3>1, <3>2, <3>3 DEF Over
  <2> QED
    BY <2>4, <2>5, <2>6
<1> QED
  BY <1>1, <1>2

LEMMA ApplyType ==
  ASSUME TypedMeaning, NEW op \in Op, NEW s, WellFormedOp(s, op), ~Closes(op),
         NEW B, NEW rows \in Seq(Over(B)), NEW other,
         op.kind = "Scan" => B = {},
         op.kind \in {"Cartesian", "Optional"} => other \in Seq(Over(op.intro))
  PROVE  Apply(op, rows, other) \in Seq(Over(Above(op, B)))
<1>0. CASE op.kind = "Project" /\ op.agg
  <2>1. Apply(op, rows, other) = Grouped(op, rows)
    BY <1>0 DEF Apply
  <2>2. op.alias \subseteq op.intro
    BY <1>0 DEF WellFormedOp
  <2> QED
    BY <1>0, <2>1, <2>2, GroupedType
<1>1. CASE op.kind = "Project" /\ ~op.agg
  <2>1. Apply(op, rows, other) = [i \in 1..Len(rows) |-> Projected(op, rows[i])]
    BY <1>1 DEF Apply
  <2>2. ASSUME NEW i \in 1..Len(rows)
        PROVE  Projected(op, rows[i]) \in Over(Above(op, B))
    <3> DEFINE r == rows[i]
    <3>1. r \in Over(B)
      OBVIOUS
    <3> HIDE DEF r
    <3>2. r \in Row /\ B \subseteq DOMAIN r
      BY <3>1 DEF Over
    <3>3. /\ Projected(op, r) \in Row
          /\ DOMAIN Projected(op, r) = (IF op.keep THEN DOMAIN r ELSE {}) \cup op.intro
      BY <3>2, ProjectedIs
    <3>4. Above(op, B) \subseteq DOMAIN Projected(op, r)
      BY <1>1, <3>2, <3>3 DEF Above, HidesInput
    <3> QED
      BY <3>3, <3>4 DEF Over, r
  <2> QED
    BY <2>1, <2>2
<1>2. CASE op.kind = "Scan"
  <2>1. Apply(op, rows, other) = Extended(op, <<EmptyRow>>)
    BY <1>2 DEF Apply
  <2>2. <<EmptyRow>> \in Seq(Over({}))
    BY EmptyRowIs DEF Over
  <2>3. Extended(op, <<EmptyRow>>) \in Seq(Over(Both({}, op.intro)))
    BY <2>2, ExtendedType
  <2>4. Both({}, op.intro) = Above(op, B)
    BY <1>2 DEF Above, Both
  <2> QED
    BY <2>1, <2>3, <2>4
<1>3. ASSUME op.kind # "Project"
      PROVE  Above(op, B) = Both(B, op.intro)
  BY <1>3 DEF Above, HidesInput, Both
<1>4. CASE op.kind \in {"Expand", "LoadCsv", "NamedPath", "Unwind", "ProcedureCall",
                        "Start", "Create", "Merge"}
  <2>1. Apply(op, rows, other) = Extended(op, rows)
    BY <1>4 DEF Apply
  <2>2. Extended(op, rows) \in Seq(Over(Both(B, op.intro)))
    BY ExtendedType
  <2> QED
    BY <1>3, <1>4, <2>1, <2>2
<1>5. CASE op.kind = "Cartesian"
  <2>1. Apply(op, rows, other) = Joined(rows, other)
    BY <1>5 DEF Apply
  <2>2. Joined(rows, other) \in Seq(Over(Both(B, op.intro)))
    BY <1>5, JoinedType
  <2> QED
    BY <1>3, <1>5, <2>1, <2>2
<1>6. CASE op.kind = "Optional"
  <2>1. Apply(op, rows, other) = OuterJoined(op, rows, other)
    BY <1>6 DEF Apply
  <2>2. OuterJoined(op, rows, other) \in Seq(Over(Both(B, op.intro)))
    BY <1>6, OuterJoinedType
  <2> QED
    BY <1>3, <1>6, <2>1, <2>2
<1>7. CASE op.kind \in Kinds \ {"Project", "Scan", "Expand", "LoadCsv", "NamedPath",
                                "Unwind", "ProcedureCall", "Start", "Create",
                                "Merge", "Cartesian", "Optional", "Union"}
  <2>1. op.intro = {}
    BY <1>7 DEF WellFormedOp, BindingKinds, Kinds
  <2>2. Apply(op, rows, other) \in Seq(Over(B))
    <3>1. CASE op.kind \in {"Filter", "PropertyMapFilter"}
      <4>1. Apply(op, rows, other) = Passing(op, rows)
        BY <3>1 DEF Apply
      <4>2. Passing(op, rows) \in Seq(Over(B))
        BY KeepType DEF Passing
      <4> QED
        BY <4>1, <4>2
    <3>2. CASE op.kind = "Sort"
      <4>1. Apply(op, rows, other) = Sorted(op, rows)
        BY <3>2 DEF Apply
      <4> QED
        BY <4>1, SortedType
    <3>3. CASE op.kind \in {"Skip", "Limit", "ShortestPath"}
      <4>1. Apply(op, rows, other) = Keep(rows, Picks(op, rows))
        BY <3>3 DEF Apply
      <4> QED
        BY <4>1, KeepType
    <3>4. CASE op.kind = "Distinct"
      <4>1. Apply(op, rows, other) = Unique(rows)
        BY <3>4 DEF Apply
      <4>2. Unique(rows) \in Seq(Over(B))
        BY KeepType DEF Unique
      <4> QED
        BY <4>1, <4>2
    <3>5. CASE op.kind \notin {"Filter", "PropertyMapFilter", "Sort", "Skip", "Limit",
                               "ShortestPath", "Distinct"}
      <4>1. Apply(op, rows, other) = rows
        BY <1>7, <3>5 DEF Apply
      <4> QED
        BY <4>1
    <3> QED
      BY <3>1, <3>2, <3>3, <3>4, <3>5
  <2>3. Both(B, op.intro) = B
    BY <2>1 DEF Both
  <2> QED
    BY <1>3, <1>7, <2>2, <2>3
<1>8. op.kind \in Kinds /\ op.kind # "Union"
  BY DEF Op, Closes
<1> QED
  BY <1>0, <1>1, <1>2, <1>4, <1>5, <1>6, <1>7, <1>8

-----------------------------------------------------------------------------
(* The rows along a spine, and of every spine.                             *)
Other(op, T) == IF op.right = 0 THEN <<>> ELSE T[op.right]

Climb(q, T) ==
  CHOOSE g : g = [n \in 0..Len(q) |->
                    IF n = 0 THEN <<EmptyRow>>
                    ELSE Apply(q[n], g[n - 1], IF q[n].right = 0 THEN <<>> ELSE T[q[n].right])]

LEMMA AlongIs ==
  ASSUME NEW q, NEW T, Len(q) \in Nat
  PROVE  /\ Along(q, T)[0] = <<EmptyRow>>
         /\ \A n \in 1..Len(q) :
              Along(q, T)[n] = Apply(q[n], Along(q, T)[n - 1], Other(q[n], T))
<1> DEFINE N == Len(q)
           Here(g, n) == IF n = 0 THEN <<EmptyRow>>
                         ELSE Apply(q[n], g[n - 1], Other(q[n], T))
           Right(g, n) == \A i \in 0..N : i <= n => g[i] = Here(g, i)
           Over0(g) == g = [i \in 0..N |-> g[i]]
           S == {n \in Nat : \E g : Over0(g) /\ Right(g, n)}
<1>0. N \in Nat
  OBVIOUS
<1> HIDE DEF N
<1>1. 0 \in S
  <2> DEFINE g == [i \in 0..N |-> <<EmptyRow>>]
  <2>1. g = [i \in 0..N |-> g[i]] /\ 0 \in 0..N /\ g[0] = <<EmptyRow>>
    BY <1>0
  <2> HIDE DEF g
  <2>2. Right(g, 0)
    <3>1. \A i \in 0..N : i <= 0 => i = 0
      BY <1>0
    <3> QED
      BY <2>1, <3>1
  <2> QED
    BY <2>1, <2>2
<1>2. ASSUME NEW n \in Nat, n \in S PROVE n + 1 \in S
  <2>1. PICK f : f = [i \in 0..N |-> f[i]] /\ Right(f, n)
    BY <1>2
  <2> DEFINE g == [i \in 0..N |-> IF i = n + 1 THEN Here(f, i) ELSE f[i]]
  <2>2. /\ g = [i \in 0..N |-> g[i]]
        /\ \A i \in 0..N : g[i] = IF i = n + 1 THEN Here(f, i) ELSE f[i]
    OBVIOUS
  <2> HIDE DEF g
  <2>3. ASSUME NEW i \in 0..N, i <= n + 1 PROVE g[i] = Here(g, i)
    <3>1. i # 0 => i - 1 \in 0..N /\ i - 1 # n + 1
      BY <1>0, <2>3
    <3>2. i # 0 => g[i - 1] = f[i - 1]
      BY <2>2, <3>1
    <3>3. Here(g, i) = Here(f, i)
      BY <3>2
    <3>4. i # n + 1 => f[i] = Here(f, i)
      <4> SUFFICES ASSUME i # n + 1 PROVE f[i] = Here(f, i)
        OBVIOUS
      <4>1. i <= n
        BY <1>0, <2>3
      <4> HIDE DEF Here
      <4> QED
        BY <2>1, <4>1
    <3> HIDE DEF Here
    <3> QED
      BY <2>2, <3>3, <3>4
  <2>4. Right(g, n + 1)
    <3> HIDE DEF Here
    <3>1. \A i \in 0..N : i <= n + 1 => g[i] = Here(g, i)
      BY <2>3
    <3> QED
      BY <3>1
  <2>5. Over0(g)
    BY <2>2
  <2> HIDE DEF Right, Here, Over0
  <2> QED
    BY <2>4, <2>5
<1> HIDE DEF S
<1>3. N \in S
  BY <1>0, <1>1, <1>2, SetInduction
<1>4. PICK g : g = [i \in 0..N |-> g[i]] /\ Right(g, N)
  BY <1>3 DEF S
<1>5. \A i \in 0..N : g[i] = Here(g, i)
  <2>1. \A i \in 0..N : i <= N
    BY <1>0
  <2> HIDE DEF Here
  <2> QED
    BY <1>4, <2>1
<1>6. g = [i \in 0..N |-> Here(g, i)]
  <2> HIDE DEF Here
  <2> QED
    BY <1>4, <1>5
<1>7. Climb(q, T) = [i \in 0..N |-> Here(Climb(q, T), i)]
  BY <1>6 DEF Climb, N, Other
<1>8. Along(q, T) = Climb(q, T)
  BY DEF Along, Climb
<1> DEFINE A == Along(q, T)
<1>9. A = [i \in 0..N |-> Here(A, i)]
  BY <1>7, <1>8
<1> HIDE DEF A
<1>10. \A i \in 0..N : A[i] = Here(A, i)
  <2> HIDE DEF Here
  <2> QED
    BY <1>9
<1>11. 0 \in 0..N /\ \A n \in 1..N : n \in 0..N /\ n # 0
  BY <1>0
<1>12. A[0] = <<EmptyRow>>
  BY <1>10, <1>11
<1>13. \A n \in 1..N : A[n] = Apply(q[n], A[n - 1], Other(q[n], T))
  BY <1>10, <1>11
<1> QED
  BY <1>12, <1>13 DEF A, N

(* Where two spines have the same operators, with the same rows of second  *)
(* inputs, the same rows below give the same rows above.                   *)
Alike(q, T, a, r, U, b, m) ==
  /\ Len(q) \in Nat /\ Len(r) \in Nat /\ a \in Nat /\ b \in Nat /\ m \in Nat
  /\ a + m <= Len(q) /\ b + m <= Len(r)
  /\ Along(q, T)[a] = Along(r, U)[b]
  /\ \A i \in 1..m : q[a + i] = r[b + i] /\ Other(q[a + i], T) = Other(r[b + i], U)

LEMMA AlongFrom ==
  ASSUME NEW q, NEW r, NEW T, NEW U, NEW a, NEW b, NEW m, Alike(q, T, a, r, U, b, m)
  PROVE  \A i \in 0..m : Along(q, T)[a + i] = Along(r, U)[b + i]
<1>a. /\ Len(q) \in Nat /\ Len(r) \in Nat /\ a \in Nat /\ b \in Nat /\ m \in Nat
      /\ a + m <= Len(q) /\ b + m <= Len(r)
      /\ Along(q, T)[a] = Along(r, U)[b]
      /\ \A i \in 1..m : q[a + i] = r[b + i] /\ Other(q[a + i], T) = Other(r[b + i], U)
  BY DEF Alike
<1> DEFINE A == Along(q, T)
           B1 == Along(r, U)
           S == {n \in Nat : n <= m => A[a + n] = B1[b + n]}
<1>1. /\ \A n \in 1..Len(q) : A[n] = Apply(q[n], A[n - 1], Other(q[n], T))
      /\ \A n \in 1..Len(r) : B1[n] = Apply(r[n], B1[n - 1], Other(r[n], U))
  BY <1>a, AlongIs
<1>0. A[a] = B1[b] /\ a + 0 = a /\ b + 0 = b
  BY <1>a
<1> HIDE DEF A, B1
<1>2. 0 \in S
  BY <1>0
<1>3. ASSUME NEW n \in Nat, n \in S PROVE n + 1 \in S
  <2> SUFFICES ASSUME n + 1 <= m PROVE A[a + (n + 1)] = B1[b + (n + 1)]
    OBVIOUS
  <2>1. A[a + n] = B1[b + n]
    BY <1>a, <1>3
  <2>2. /\ a + (n + 1) \in 1..Len(q) /\ (a + (n + 1)) - 1 = a + n
        /\ b + (n + 1) \in 1..Len(r) /\ (b + (n + 1)) - 1 = b + n
        /\ n + 1 \in 1..m
    BY <1>a
  <2>3. /\ A[a + (n + 1)] = Apply(q[a + (n + 1)], A[a + n], Other(q[a + (n + 1)], T))
        /\ B1[b + (n + 1)] = Apply(r[b + (n + 1)], B1[b + n], Other(r[b + (n + 1)], U))
    BY <1>1, <2>2
  <2>4. q[a + (n + 1)] = r[b + (n + 1)] /\ Other(q[a + (n + 1)], T) = Other(r[b + (n + 1)], U)
    BY <1>a, <2>2
  <2> QED
    BY <2>1, <2>3, <2>4
<1> HIDE DEF S
<1>4. Nat \subseteq S
  BY <1>2, <1>3, SetInduction
<1>5. \A i \in 0..m : A[a + i] = B1[b + i]
  BY <1>4 DEF S
<1> QED
  BY <1>5 DEF A, B1

Begin(q, T, r, U, m) ==
  /\ Len(q) \in Nat /\ Len(r) \in Nat /\ m \in Nat /\ m <= Len(q) /\ m <= Len(r)
  /\ \A i \in 1..m : q[i] = r[i] /\ Other(q[i], T) = Other(r[i], U)

LEMMA AlongSame ==
  ASSUME NEW q, NEW r, NEW T, NEW U, NEW m, Begin(q, T, r, U, m)
  PROVE  \A i \in 0..m : Along(q, T)[i] = Along(r, U)[i]
<1>a. /\ Len(q) \in Nat /\ Len(r) \in Nat /\ m \in Nat /\ m <= Len(q) /\ m <= Len(r)
      /\ \A i \in 1..m : q[i] = r[i] /\ Other(q[i], T) = Other(r[i], U)
  BY DEF Begin
<1> DEFINE z == 0
<1>1. z \in Nat /\ Along(q, T)[z] = Along(r, U)[z]
  BY <1>a, AlongIs
<1>2. \A i \in 0..m : z + i = i
  OBVIOUS
<1>3. Alike(q, T, z, r, U, z, m)
  <2>1. z + m <= Len(q) /\ z + m <= Len(r)
    BY <1>a
  <2>2. \A i \in 1..m : z + i = i
    OBVIOUS
  <2> HIDE DEF z
  <2> QED
    BY <1>a, <1>1, <2>1, <2>2 DEF Alike
<1> HIDE DEF z
<1>5. \A i \in 0..m : Along(q, T)[z + i] = Along(r, U)[z + i]
  BY <1>3, AlongFrom
<1> QED
  BY <1>2, <1>5

-----------------------------------------------------------------------------
(* What makes a function the rows of the spines of a plan.                 *)
Tabled(pl, T) == T = [s \in Spines |-> Along(pl[s], T)[Len(pl[s])]]

LEMMA RightIsLess ==
  ASSUME NEW pl \in [Spines -> Seq(Op)], WellFormed(pl),
         NEW s \in Spines, NEW i \in 1..Len(pl[s])
  PROVE  pl[s][i].right = 0 \/ pl[s][i].right \in 1..(s - 1)
BY DEF WellFormed, WellFormedOp

LEMMA SpinesAre == Spines = {s \in Nat : 1 <= s /\ s <= NumSpines} /\ NumSpines \in Nat
BY SpineAssumption DEF Spines

AgreeBefore(s, T, U) == \A t \in Spines : t < s => T[t] = U[t]

(* The rows of a spine are decided by those of the spines before it.       *)
LEMMA SpineFrom ==
  ASSUME NEW pl \in [Spines -> Seq(Op)], WellFormed(pl), NEW s \in Spines,
         NEW T, NEW U, AgreeBefore(s, T, U)
  PROVE  \A i \in 0..Len(pl[s]) : Along(pl[s], T)[i] = Along(pl[s], U)[i]
<1> DEFINE q == pl[s]
<1>1. Len(q) \in Nat
  OBVIOUS
<1>2. ASSUME NEW i \in 1..Len(q) PROVE Other(q[i], T) = Other(q[i], U)
  <2>1. q[i].right = 0 \/ q[i].right \in 1..(s - 1)
    BY RightIsLess
  <2>2. q[i].right # 0 => q[i].right \in Spines /\ q[i].right < s
    BY <2>1, SpinesAre
  <2> QED
    BY <2>2 DEF Other, AgreeBefore
<1> HIDE DEF q
<1>3. \A i \in 0..Len(q) : Along(q, T)[i] = Along(q, U)[i]
  <2>1. \A i \in 1..Len(q) : q[i] = q[i] /\ Other(q[i], T) = Other(q[i], U)
    BY <1>2
  <2>2. Len(q) <= Len(q)
    BY <1>1
  <2> QED
    <3>1. Begin(q, T, q, U, Len(q))
      BY <1>1, <2>1, <2>2 DEF Begin
    <3> QED
      BY <3>1, AlongSame
<1> QED
  BY <1>3 DEF q

LEMMA TablesAre ==
  ASSUME NEW pl \in [Spines -> Seq(Op)], WellFormed(pl)
  PROVE  Tabled(pl, Tables(pl))
<1> DEFINE Here(g, s) == Along(pl[s], g)[Len(pl[s])]
           Whole(g) == g = [s \in Spines |-> g[s]]
           Right(g, n) == \A s \in Spines : s <= n => g[s] = Here(g, s)
           S == {n \in Nat : \E g : Whole(g) /\ Right(g, n)}
<1>0. \A s \in Spines : s \in Nat /\ 1 <= s /\ s <= NumSpines
  BY SpinesAre
<1>s. ASSUME NEW g, NEW h, NEW s \in Spines, AgreeBefore(s, g, h)
      PROVE  Here(g, s) = Here(h, s)
  <2>1. \A i \in 0..Len(pl[s]) : Along(pl[s], g)[i] = Along(pl[s], h)[i]
    BY <1>s, SpineFrom
  <2>2. Len(pl[s]) \in 0..Len(pl[s])
    OBVIOUS
  <2> QED
    BY <2>1, <2>2
<1> HIDE DEF Here
<1>1. 0 \in S
  <2> DEFINE g == [s \in Spines |-> <<>>]
  <2>1. Whole(g)
    OBVIOUS
  <2>2. Right(g, 0)
    BY <1>0
  <2> HIDE DEF g, Whole, Right
  <2> QED
    BY <2>1, <2>2
<1>2. ASSUME NEW n \in Nat, n \in S PROVE n + 1 \in S
  <2>1. PICK f : Whole(f) /\ Right(f, n)
    BY <1>2
  <2> DEFINE g == [s \in Spines |-> IF s = n + 1 THEN Here(f, s) ELSE f[s]]
  <2>2. Whole(g) /\ \A s \in Spines : g[s] = IF s = n + 1 THEN Here(f, s) ELSE f[s]
    OBVIOUS
  <2> HIDE DEF g, Whole
  <2>3. ASSUME NEW s \in Spines, s <= n + 1 PROVE g[s] = Here(g, s)
    <3>1. \A t \in Spines : t < s => t # n + 1
      BY <1>0, <2>3
    <3>2. AgreeBefore(s, g, f)
      BY <2>2, <3>1 DEF AgreeBefore
    <3>3. Here(g, s) = Here(f, s)
      BY <1>s, <3>2
    <3>4. s # n + 1 => f[s] = Here(f, s)
      BY <1>0, <2>1, <2>3
    <3> QED
      BY <2>2, <3>3, <3>4
  <2>4. Right(g, n + 1)
    BY <2>3
  <2> HIDE DEF Right
  <2> QED
    BY <2>2, <2>4
<1> HIDE DEF S
<1>3. NumSpines \in S
  BY <1>1, <1>2, SetInduction, SpinesAre
<1>4. PICK g : Whole(g) /\ Right(g, NumSpines)
  BY <1>3 DEF S
<1>5. g = [s \in Spines |-> Here(g, s)]
  BY <1>0, <1>4
<1>6. Tabled(pl, g)
  BY <1>5 DEF Tabled, Here
<1>7. Tables(pl) = CHOOSE T : Tabled(pl, T)
  BY DEF Tables, Tabled
<1> QED
  BY <1>6, <1>7

LEMMA TablesOnly ==
  ASSUME NEW pl \in [Spines -> Seq(Op)], WellFormed(pl), NEW U, Tabled(pl, U)
  PROVE  U = Tables(pl)
<1> DEFINE T == Tables(pl)
           S == {n \in Nat : \A s \in Spines : s < n => T[s] = U[s]}
<1>0. \A s \in Spines : s \in Nat /\ 1 <= s /\ s <= NumSpines
  BY SpinesAre
<1>1. /\ T = [s \in Spines |-> Along(pl[s], T)[Len(pl[s])]]
      /\ U = [s \in Spines |-> Along(pl[s], U)[Len(pl[s])]]
  BY TablesAre DEF Tabled
<1> HIDE DEF T
<1>2. 0 \in S
  BY <1>0
<1>3. ASSUME NEW n \in Nat, n \in S PROVE n + 1 \in S
  <2>1. ASSUME NEW s \in Spines, s < n + 1 PROVE T[s] = U[s]
    <3>1. AgreeBefore(s, T, U)
      BY <1>0, <1>3, <2>1 DEF AgreeBefore
    <3>2. \A i \in 0..Len(pl[s]) : Along(pl[s], T)[i] = Along(pl[s], U)[i]
      BY <3>1, SpineFrom
    <3>3. Len(pl[s]) \in 0..Len(pl[s])
      OBVIOUS
    <3> QED
      BY <1>1, <3>2, <3>3
  <2> QED
    BY <2>1
<1> HIDE DEF S
<1>4. NumSpines + 1 \in S
  <2>1. Nat \subseteq S
    BY <1>2, <1>3, SetInduction
  <2> QED
    BY <2>1, SpinesAre
<1>5. \A s \in Spines : T[s] = U[s]
  BY <1>0, <1>4, SpinesAre DEF S
<1>6. T = [s \in Spines |-> T[s]] /\ U = [s \in Spines |-> U[s]]
  BY <1>1
<1> QED
  BY <1>5, <1>6 DEF T

-----------------------------------------------------------------------------
(* The rows above an operator bind what is bound there, up to the first    *)
(* operator that makes rows of another kind.                               *)
Bare(q, n) == \A i \in 1..n : ~Closes(q[i])

TypedBefore(pl, T, s) ==
  \A t \in Spines : t < s => T[t] \in Seq(Over(BoundVars(pl[t])))

LEMMA BoundNone == ASSUME NEW q PROVE Bound(q, 0) = {}
BY DEF Bound

LEMMA SpineTyped ==
  ASSUME TypedMeaning, NEW pl \in [Spines -> Seq(Op)], Sound(pl), IsTree(pl),
         NEW s \in Spines, NEW T, TypedBefore(pl, T, s),
         NEW m \in 0..Len(pl[s]), Bare(pl[s], m)
  PROVE  \A n \in 0..m : Along(pl[s], T)[n] \in Seq(Over(Bound(pl[s], n)))
<1> DEFINE q == pl[s]
           A == Along(q, T)
           S == {n \in Nat : n <= m => A[n] \in Seq(Over(Bound(q, n)))}
<1>0. q \in Seq(Op) /\ Len(q) \in Nat /\ m \in 0..Len(q)
  OBVIOUS
<1>a. /\ A[0] = <<EmptyRow>>
      /\ \A n \in 1..Len(q) : A[n] = Apply(q[n], A[n - 1], Other(q[n], T))
  BY <1>0, AlongIs
<1>b. \A n \in 1..Len(q) : /\ WellFormedOp(s, q[n])
                           /\ q[n].kind \in {"Cartesian", "Optional", "Union"}
                                => q[n].intro = BoundVars(pl[q[n].right])
                           /\ n >= 2 => q[n].kind \notin LeafKinds
  BY DEF Sound, WellFormed, RightScopesExact, IsTree
<1>c. \A n \in 1..m : ~Closes(q[n])
  BY DEF Bare
<1> HIDE DEF q, A
<1>1. 0 \in S
  <2>1. EmptyRow \in Over(Bound(q, 0))
    BY BoundNone, EmptyRowIs DEF Over
  <2>2. <<EmptyRow>> \in Seq(Over(Bound(q, 0)))
    BY <2>1
  <2> QED
    BY <1>a, <2>2
<1>2. ASSUME NEW k \in Nat, k \in S PROVE k + 1 \in S
  <2> SUFFICES ASSUME k + 1 <= m PROVE A[k + 1] \in Seq(Over(Bound(q, k + 1)))
    OBVIOUS
  <2> DEFINE n == k + 1
             op == q[n]
             B == Bound(q, k)
  <2>0. n \in 1..Len(q) /\ n \in 1..m /\ n - 1 = k /\ k <= m
    BY <1>0
  <2>1. A[k] \in Seq(Over(B))
    BY <1>2, <2>0
  <2>2. A[n] = Apply(op, A[k], Other(op, T))
    BY <1>a, <2>0
  <2>3. Bound(q, n) = Above(op, B)
    BY <1>0, <2>0, BoundStep DEF Above
  <2>4. op \in Op /\ WellFormedOp(s, op) /\ ~Closes(op)
    BY <1>0, <1>b, <1>c, <2>0
  <2>5. op.kind = "Scan" => B = {}
    <3> SUFFICES ASSUME op.kind = "Scan" PROVE B = {}
      OBVIOUS
    <3>1. ~(n >= 2)
      BY <1>b, <2>0 DEF LeafKinds
    <3>2. k = 0
      BY <3>1
    <3> QED
      BY <3>2, BoundNone
  <2>6. op.kind \in {"Cartesian", "Optional"} => Other(op, T) \in Seq(Over(op.intro))
    <3> SUFFICES ASSUME op.kind \in {"Cartesian", "Optional"}
                 PROVE  Other(op, T) \in Seq(Over(op.intro))
      OBVIOUS
    <3>1. op.intro = BoundVars(pl[op.right])
      BY <1>b, <2>0
    <3>2. op.right \in 1..(s - 1)
      BY <2>4 DEF WellFormedOp, BinaryKinds
    <3>3. op.right \in Spines /\ op.right < s /\ op.right # 0
      BY <3>2, SpinesAre
    <3>4. T[op.right] \in Seq(Over(BoundVars(pl[op.right])))
      BY <3>3 DEF TypedBefore
    <3> QED
      BY <3>1, <3>3, <3>4 DEF Other
  <2> HIDE DEF n, op, B
  <2>7. Apply(op, A[k], Other(op, T)) \in Seq(Over(Above(op, B)))
    BY <2>1, <2>4, <2>5, <2>6, ApplyType
  <2> QED
    BY <2>2, <2>3, <2>7 DEF n
<1> HIDE DEF S
<1>3. Nat \subseteq S
  BY <1>1, <1>2, SetInduction
<1>4. \A n \in 0..m : n \in Nat /\ n <= m
  BY <1>0
<1>5. \A n \in 0..m : A[n] \in Seq(Over(Bound(q, n)))
  BY <1>3, <1>4 DEF S
<1> QED
  BY <1>5 DEF A, q

LEMMA TablesTyped ==
  ASSUME TypedMeaning, NEW pl \in [Spines -> Seq(Op)], Sound(pl), IsTree(pl),
         FiltersInside(pl)
  PROVE  TypedBefore(pl, Tables(pl), Root)
<1> DEFINE T == Tables(pl)
           S == {n \in Nat : n <= NumSpines => TypedBefore(pl, T, n)}
<1>0. \A s \in Spines : s \in Nat /\ 1 <= s /\ s <= NumSpines
  BY SpinesAre
<1>1. T = [s \in Spines |-> Along(pl[s], T)[Len(pl[s])]]
  BY TablesAre DEF Tabled, Sound
<1> HIDE DEF T
<1>2. 0 \in S
  BY <1>0 DEF TypedBefore
<1>3. ASSUME NEW n \in Nat, n \in S PROVE n + 1 \in S
  <2> SUFFICES ASSUME n + 1 <= NumSpines PROVE TypedBefore(pl, T, n + 1)
    OBVIOUS
  <2>1. TypedBefore(pl, T, n)
    BY <1>3, SpinesAre
  <2>2. ASSUME NEW s \in Spines, s < n + 1
        PROVE  T[s] \in Seq(Over(BoundVars(pl[s])))
    <3>1. CASE s < n
      BY <2>1, <3>1 DEF TypedBefore
    <3>2. CASE s = n
      <4>1. s # Root
        BY <3>2, SpinesAre DEF Root
      <4>2. Bare(pl[s], Len(pl[s]))
        BY <4>1 DEF FiltersInside, UnionLast, Bare
      <4>3. Len(pl[s]) \in 0..Len(pl[s])
        OBVIOUS
      <4>4. TypedBefore(pl, T, s)
        BY <2>1, <3>2
      <4>5. \A k \in 0..Len(pl[s]) : Along(pl[s], T)[k] \in Seq(Over(Bound(pl[s], k)))
        BY <4>2, <4>3, <4>4, SpineTyped
      <4> QED
        BY <1>1, <4>3, <4>5 DEF BoundVars
    <3> QED
      BY <1>0, <2>2, <3>1, <3>2
  <2> QED
    BY <2>2 DEF TypedBefore
<1> HIDE DEF S
<1>4. Nat \subseteq S
  BY <1>2, <1>3, SetInduction
<1> QED
  BY <1>4, SpinesAre DEF S, Root, T

LEMMA RowsTyped ==
  ASSUME TypedMeaning, NEW pl \in [Spines -> Seq(Op)], Sound(pl), IsTree(pl),
         FiltersInside(pl), NEW s \in Spines, NEW m \in 0..Len(pl[s]), Bare(pl[s], m)
  PROVE  \A n \in 0..m : Along(pl[s], Tables(pl))[n] \in Seq(Over(Bound(pl[s], n)))
<1>1. TypedBefore(pl, Tables(pl), s)
  <2>1. \A t \in Spines : t < s => t < Root
    BY SpinesAre DEF Root
  <2> QED
    BY <2>1, TablesTyped DEF TypedBefore
<1> QED
  BY <1>1, SpineTyped

-----------------------------------------------------------------------------
(* Below a filter.                                                         *)
GoodPlan(pl) ==
  /\ pl \in [Spines -> Seq(Op)]
  /\ Sound(pl) /\ IsTree(pl) /\ FiltersInside(pl)

LEMMA UnderFilter ==
  ASSUME TypedMeaning, NEW pl, GoodPlan(pl), NEW s \in Spines,
         NEW p \in 2..Len(pl[s]), IsFilter(pl[s][p]),
         NEW T, T = Tables(pl)
  PROVE  /\ pl[s][p] \in Op /\ pl[s][p - 1] \in Op
         /\ WellFormedOp(s, pl[s][p - 1]) /\ ~Closes(pl[s][p - 1])
         /\ pl[s][p].right = 0
         /\ OneGroup(pl[s][p - 1]) => pl[s][p].used # {}
         /\ HidesInput(pl[s][p - 1]) => pl[s][p].used \subseteq pl[s][p - 1].intro
         /\ Along(pl[s], T)[p - 2] \in Seq(Over(Bound(pl[s], p - 2)))
         /\ Along(pl[s], T)[p - 1] =
              Apply(pl[s][p - 1], Along(pl[s], T)[p - 2], Other(pl[s][p - 1], T))
         /\ Along(pl[s], T)[p] = Passing(pl[s][p], Along(pl[s], T)[p - 1])
<1> DEFINE q == pl[s]
           A == Along(q, T)
<1>1. /\ pl \in [Spines -> Seq(Op)] /\ Sound(pl) /\ IsTree(pl) /\ FiltersInside(pl)
      /\ WellFormed(pl) /\ WellScoped(pl)
  BY DEF GoodPlan, Sound
<1>2. q \in Seq(Op) /\ Len(q) \in Nat
  BY <1>1
<1>3. p \in 1..Len(q) /\ p - 1 \in 1..Len(q) /\ p - 2 \in 0..Len(q) /\ (p - 1) - 1 = p - 2
  BY <1>2
<1>4. q[p] \in Op /\ q[p - 1] \in Op /\ WellFormedOp(s, q[p - 1])
  BY <1>1, <1>2, <1>3 DEF WellFormed
<1>5. q[p].right = 0
  BY <1>1, <1>3, FilterShape
<1>6. \A i \in 1..(p - 1) : ~Closes(q[i])
  <2>1. \A i \in 1..(p - 1) : i \in 1..Len(q) /\ p \in (i + 1)..Len(q)
    BY <1>2
  <2> QED
    BY <1>1, <2>1 DEF FiltersInside, UnionLast
<1>14. OneGroup(q[p - 1]) => q[p].used # {}
  <2>1. p - 1 \in 1..Len(q) /\ p \in 1..Len(q) /\ p - 1 < p
    BY <1>2
  <2>2. GroupsRead(pl)
    BY <1>1 DEF FiltersInside
  <2> QED
    BY <2>1, <2>2 DEF GroupsRead
<1>7. HidesInput(q[p - 1]) => q[p].used \subseteq q[p - 1].intro
  <2>1. q[p].used \subseteq Bound(q, p - 1)
    BY <1>1, <1>3 DEF WellScoped
  <2>2. Bound(q, p - 1) = q[p - 1].intro \cup
                          (IF HidesInput(q[p - 1]) THEN {} ELSE Bound(q, (p - 1) - 1))
    BY <1>2, <1>3, BoundStep
  <2> QED
    BY <2>1, <2>2
<1>8. A[p - 2] \in Seq(Over(Bound(q, p - 2)))
  <2>1. Bare(q, p - 2)
    BY <1>2, <1>6 DEF Bare
  <2>2. \A n \in 0..(p - 2) : A[n] \in Seq(Over(Bound(q, n)))
    BY <1>1, <1>3, <2>1, RowsTyped
  <2>3. p - 2 \in 0..(p - 2)
    BY <1>3
  <2> QED
    BY <2>2, <2>3
<1>9. A[p - 1] = Apply(q[p - 1], A[(p - 1) - 1], Other(q[p - 1], T))
  BY <1>2, <1>3, AlongIs
<1>10. A[p] = Apply(q[p], A[p - 1], Other(q[p], T))
  BY <1>2, <1>3, AlongIs
<1>11. A[p] = Passing(q[p], A[p - 1])
  BY <1>10 DEF Apply, IsFilter
<1>12. ~Closes(q[p - 1])
  <2>1. p - 1 \in 1..(p - 1)
    BY <1>3
  <2> QED
    BY <1>6, <2>1
<1>13. A[p - 1] = Apply(q[p - 1], A[p - 2], Other(q[p - 1], T))
  BY <1>3, <1>9
<1> QED
  BY <1>4, <1>5, <1>7, <1>8, <1>11, <1>12, <1>13, <1>14

(* What the second input of an operator gives is rows.                     *)
LEMMA OtherTyped ==
  ASSUME TypedMeaning, NEW pl, GoodPlan(pl), NEW s \in Spines, NEW i \in 1..Len(pl[s]),
         NEW T, T = Tables(pl)
  PROVE  /\ Other(pl[s][i], T) \in Seq(Row)
         /\ pl[s][i].right # 0 =>
              /\ pl[s][i].right \in Spines /\ pl[s][i].right < s
              /\ T[pl[s][i].right] \in Seq(Over(BoundVars(pl[pl[s][i].right])))
<1>1. /\ pl \in [Spines -> Seq(Op)] /\ Sound(pl) /\ IsTree(pl) /\ FiltersInside(pl)
      /\ WellFormed(pl)
  BY DEF GoodPlan, Sound
<1> DEFINE r == pl[s][i].right
<1>2. r = 0 \/ r \in 1..(s - 1)
  BY <1>1, RightIsLess
<1> HIDE DEF r
<1>3. r # 0 => r \in Spines /\ r < s /\ r < Root
  BY <1>2, SpinesAre DEF Root
<1>4. r # 0 => T[r] \in Seq(Over(BoundVars(pl[r])))
  BY <1>1, <1>3, TablesTyped DEF TypedBefore
<1>5. r # 0 => T[r] \in Seq(Row)
  BY <1>4, OverRow
<1>6. <<>> \in Seq(Row)
  OBVIOUS
<1> QED
  BY <1>3, <1>4, <1>5, <1>6 DEF r, Other

-----------------------------------------------------------------------------
(* The places above the one at p.                                          *)
LEMMA PlacesAbove ==
  ASSUME NEW N \in Nat, NEW p \in 2..N
  PROVE  /\ N - p \in Nat /\ p \in Nat /\ p - 1 \in Nat /\ p + (N - p) = N
         /\ (p - 1) + (N - p) = N - 1 /\ N - 1 \in Nat
         /\ p + (N - p) <= N /\ (p - 1) + (N - p) <= N - 1
         /\ \A i \in p..N : /\ i - p \in 0..(N - p) /\ p + (i - p) = i
                             /\ (p - 1) + (i - p) = i - 1
         /\ \A j \in 1..(N - p) : /\ (p - 1) + j \in p..(N - 1)
                                   /\ ((p - 1) + j) + 1 = p + j
                                   /\ p + j \in 1..N /\ p + j # p - 1 /\ p + j # p
OBVIOUS

(* A filter that moves below an operator changes the rows between the two, *)
(* and no others.                                                          *)
LEMMA SwapRows ==
  ASSUME TypedMeaning, NEW pl, GoodPlan(pl), NEW s \in Spines,
         NEW p \in 2..Len(pl[s]), IsFilter(pl[s][p]),
         pl[s][p - 1].kind \in Promise!Transparent,
         pl[s][p].used \cap Promise!Writes(pl[s][p - 1]) = {},
         pl[s][p].used \subseteq Bound(pl[s], p - 2),
         NEW T, T = Tables(pl)
  PROVE  \A i \in 0..Len(pl[s]) : i # p - 1 =>
           Along(Swap(pl[s], p), T)[i] = Along(pl[s], T)[i]
<1> DEFINE q == pl[s]
           w == Swap(q, p)
           A == Along(q, T)
           W == Along(w, T)
           f == q[p]
           op == q[p - 1]
<1>1. q \in Seq(Op) /\ Len(q) \in Nat
  BY DEF GoodPlan
<1>2. /\ w \in Seq(Op) /\ Len(w) = Len(q) /\ w[p - 1] = f /\ w[p] = op
      /\ \A i \in 1..Len(q) : i # p - 1 /\ i # p => w[i] = q[i]
  BY <1>1, SwapFacts
<1>3. p - 2 \in Nat /\ p - 2 <= Len(q) /\ (p - 1) - 1 = p - 2 /\ p \in Nat /\ p <= Len(q)
      /\ p - 1 \in 1..Len(q) /\ p \in 1..Len(q)
  BY <1>1
<1>4. /\ f \in Op /\ op \in Op /\ f.right = 0
      /\ OneGroup(op) => f.used # {}
      /\ HidesInput(op) => f.used \subseteq op.intro
      /\ A[p - 2] \in Seq(Over(Bound(q, p - 2)))
      /\ A[p - 1] = Apply(op, A[p - 2], Other(op, T))
      /\ A[p] = Passing(f, A[p - 1])
  BY UnderFilter
<1>5. Other(op, T) \in Seq(Row)
  BY <1>3, OtherTyped
<1>6. IsFilter(f) /\ f.used \subseteq Bound(q, p - 2)
      /\ op.kind \in Promise!Transparent /\ f.used \cap Promise!Writes(op) = {}
  OBVIOUS
<1>7. ASSUME NEW i \in 0..(p - 2) PROVE W[i] = A[i]
  <2>1. \A j \in 1..(p - 2) : j \in 1..Len(q) /\ j # p - 1 /\ j # p
    BY <1>1
  <2>2. \A j \in 1..(p - 2) : w[j] = q[j] /\ Other(w[j], T) = Other(q[j], T)
    BY <1>2, <2>1
  <2> HIDE DEF w, q
  <2>3. \A j \in 0..(p - 2) : W[j] = A[j]
    <3>1. Begin(w, T, q, T, p - 2)
      BY <1>1, <1>2, <1>3, <2>2 DEF Begin
    <3> QED
      BY <3>1, AlongSame
  <2> QED
    BY <2>3
<1> HIDE DEF q, w, A, W, f, op
<1>8. W[p - 1] = Passing(f, A[p - 2])
  <2>1. W[p - 1] = Apply(w[p - 1], W[(p - 1) - 1], Other(w[p - 1], T))
    BY <1>1, <1>2, <1>3, AlongIs, SMTT(30) DEF W
  <2>2. W[p - 2] = A[p - 2]
    <3>1. p - 2 \in 0..(p - 2)
      BY <1>3
    <3> QED
      BY <1>7, <3>1
  <2> QED
    BY <1>2, <1>3, <1>6, <2>1, <2>2 DEF Apply, IsFilter
<1>9. W[p] = A[p]
  <2>1. W[p] = Apply(op, W[p - 1], Other(op, T))
    BY <1>1, <1>2, <1>3, AlongIs DEF W
  <2>2. A[p - 2] \in Seq(Over(f.used))
    BY <1>4, <1>6, OverFewer
  <2>3. Passing(f, Apply(op, A[p - 2], Other(op, T))) =
          Apply(op, Passing(f, A[p - 2]), Other(op, T))
    <3>1. MayPass(f, op) /\ op \in Op
      BY <1>4, <1>6 DEF MayPass
    <3> QED
      BY <1>5, <2>2, <3>1, PassApply
  <2> QED
    BY <1>4, <1>8, <2>1, <2>3
<1>10. ASSUME NEW i \in p..Len(q) PROVE W[i] = A[i]
  <2> DEFINE N == Len(q)
             m == N - p
  <2>0. N \in Nat /\ p \in 2..N /\ i \in p..N /\ N = Len(q)
    BY <1>1 DEF q
  <2> HIDE DEF N
  <2>1. m \in Nat /\ p + m = Len(q) /\ i - p \in 0..m /\ p + (i - p) = i
    <3>1. N - p \in Nat /\ p + (N - p) = N
      BY ONLY <2>0, PlacesAbove
    <3>2. \A j \in p..N : j - p \in 0..(N - p) /\ p + (j - p) = j
      BY ONLY <2>0, PlacesAbove
    <3> QED
      BY <2>0, <3>1, <3>2
  <2>2. \A j \in 1..m : w[p + j] = q[p + j]
    <3>1. \A j \in 1..m : p + j \in 1..Len(q) /\ p + j # p - 1 /\ p + j # p
      BY <2>0, PlacesAbove
    <3> QED
      BY <1>2, <3>1
  <2> HIDE DEF m
  <2>3. Alike(w, T, p, q, T, p, m)
    <3>1. p + m <= Len(q) /\ p + m <= Len(w)
      BY <1>1, <1>2, <2>1
    <3> QED
      BY <1>1, <1>2, <1>3, <1>9, <2>1, <2>2, <3>1 DEF Alike, W, A
  <2>4. \A j \in 0..m : W[p + j] = A[p + j]
    BY <2>3, AlongFrom DEF W, A
  <2> QED
    BY <2>1, <2>4
<1>11. ASSUME NEW i \in 0..Len(q), i # p - 1 PROVE W[i] = A[i]
  <2>1. i \in 0..(p - 2) \/ i \in p..Len(q)
    BY <1>1, <1>3, <1>11
  <2> QED
    BY <1>7, <1>10, <2>1
<1> QED
  BY <1>11 DEF q, w, A, W

Past == Promise!Transparent \cup {"Filter"}

SameRows(pl, base) ==
  /\ Eval(pl) = Eval(base)
  /\ \A s \in Spines : RowsReaching(pl, s, Past) = RowsReaching(base, s, Past)

LEMMA SwapKeepsRows ==
  ASSUME TypedMeaning, NEW pl, GoodPlan(pl), NEW s \in Spines,
         NEW p \in 2..Len(pl[s]), IsFilter(pl[s][p]),
         pl[s][p - 1].kind \in Promise!Transparent,
         pl[s][p].used \cap Promise!Writes(pl[s][p - 1]) = {},
         pl[s][p].used \subseteq Bound(pl[s], p - 2),
         NEW t, t = SlideTo(pl, s, p), WellFormed(t)
  PROVE  SameRows(t, pl)
<1> DEFINE T == Tables(pl)
           q == pl[s]
           w == Swap(q, p)
<1>1. pl \in [Spines -> Seq(Op)] /\ WellFormed(pl) /\ q \in Seq(Op) /\ Len(q) \in Nat
  BY DEF GoodPlan, Sound
<1>2. /\ w \in Seq(Op) /\ Len(w) = Len(q) /\ w[p - 1] = q[p] /\ w[p] = q[p - 1]
      /\ \A i \in 1..Len(q) : i # p - 1 /\ i # p => w[i] = q[i]
  BY <1>1, SwapFacts
<1>3. t \in [Spines -> Seq(Op)] /\ t[s] = w /\ \A u \in Spines : u # s => t[u] = pl[u]
  BY <1>1, <1>2 DEF SlideTo
<1>4. \A i \in 0..Len(q) : i # p - 1 => Along(w, T)[i] = Along(q, T)[i]
  BY SwapRows
<1>5. T = [u \in Spines |-> Along(pl[u], T)[Len(pl[u])]]
  BY <1>1, TablesAre DEF Tabled
<1>6. Along(w, T)[Len(w)] = Along(q, T)[Len(q)]
  <2>1. Len(q) \in 0..Len(q) /\ Len(q) # p - 1
    BY <1>1
  <2> QED
    BY <1>2, <1>4, <2>1
<1>7. q[p - 1].kind \in Past /\ q[p].kind \in Past
  BY DEF IsFilter, Past
<1> HIDE DEF T, w
<1>8. T = Tables(t)
  <2>1. \A u \in Spines : Along(t[u], T)[Len(t[u])] = Along(pl[u], T)[Len(pl[u])]
    BY <1>3, <1>6
  <2>2. T = [u \in Spines |-> Along(t[u], T)[Len(t[u])]]
    BY <1>5, <2>1
  <2>3. Tabled(t, T)
    BY <2>2 DEF Tabled
  <2> QED
    BY <1>3, <2>3, TablesOnly
<1>9. Eval(t) = Eval(pl)
  BY <1>8 DEF Eval, T
<1>10. ASSUME NEW u \in Spines
       PROVE  RowsReaching(t, u, Past) = RowsReaching(pl, u, Past)
  <2>1. CASE u = s
    <3> DEFINE of(r, i) == IF r[i].kind \in Past THEN <<>> ELSE <<Along(r, T)[i - 1]>>
    <3>1. ASSUME NEW i \in 1..Len(q) PROVE of(w, i) = of(q, i)
      <4>1. CASE i # p - 1 /\ i # p
        <5>1. i - 1 \in 0..Len(q) /\ i - 1 # p - 1
          BY <1>1, <4>1
        <5> QED
          BY <1>2, <1>4, <4>1, <5>1
      <4>2. CASE i = p - 1 \/ i = p
        <5>1. w[i].kind \in Past /\ q[i].kind \in Past
          BY <1>2, <1>7, <4>2
        <5> QED
          BY <5>1
      <4> QED
        BY <4>1, <4>2
    <3> HIDE DEF of
    <3>2. [i \in 1..Len(w) |-> of(w, i)] = [i \in 1..Len(q) |-> of(q, i)]
      BY <1>2, <3>1
    <3>3. /\ RowsReaching(t, s, Past) = FlattenSeq([i \in 1..Len(w) |-> of(w, i)])
          /\ RowsReaching(pl, s, Past) = FlattenSeq([i \in 1..Len(q) |-> of(q, i)])
      BY <1>3, <1>8 DEF RowsReaching, Rows, of, T
    <3> QED
      BY <2>1, <3>2, <3>3
  <2>2. CASE u # s
    BY <1>3, <1>8, <2>2 DEF RowsReaching, Rows, T
  <2> QED
    BY <2>1, <2>2
<1> QED
  BY <1>9, <1>10 DEF SameRows

-----------------------------------------------------------------------------
(* Sequences of sequences, less or more an empty one.                      *)
LEMMA FlatJoin ==
  ASSUME NEW X, NEW a \in Seq(Seq(X)), NEW b \in Seq(Seq(X))
  PROVE  FlattenSeq(a \o b) = FlattenSeq(a) \o FlattenSeq(b)
<1> DEFINE D == Seq(X)
           f == [x \in D |-> x]
<1>1. f \in Maps(D, X)
  BY DEF Maps
<1>2. ASSUME NEW u \in Seq(D) PROVE Each(f, u) = FlattenSeq(u)
  <2>1. [i \in 1..Len(u) |-> f[u[i]]] = u
    OBVIOUS
  <2> QED
    BY <2>1 DEF Each
<1>3. a \in Seq(D) /\ b \in Seq(D) /\ a \o b \in Seq(D)
  BY ConcatProperties
<1> HIDE DEF f, D
<1>4. Each(f, a \o b) = Each(f, a) \o Each(f, b)
  BY <1>1, <1>3, EachJoin
<1> QED
  BY <1>2, <1>3, <1>4

LEMMA FlatDrop ==
  ASSUME NEW X, NEW ss \in Seq(Seq(X)), NEW p \in 1..Len(ss), ss[p] = <<>>,
         NEW tt, tt = [i \in 1..(Len(ss) - 1) |-> IF i < p THEN ss[i] ELSE ss[i + 1]]
  PROVE  FlattenSeq(tt) = FlattenSeq(ss)
<1> DEFINE a == [i \in 1..(p - 1) |-> ss[i]]
           b == [i \in 1..(Len(ss) - p) |-> ss[p + i]]
           e == Append(a, <<>>)
<1>1. a \in Seq(Seq(X)) /\ b \in Seq(Seq(X)) /\ <<>> \in Seq(X)
  BY SMTT(30)
<1>2. tt = a \o b
  OBVIOUS
<1>3. ss = e \o b
  <2>1. Len(e) = p /\ \A i \in 1..p : e[i] = ss[i]
    OBVIOUS
  <2>2. e \in Seq(Seq(X))
    BY <1>1
  <2>3. Len(b) = Len(ss) - p /\ \A i \in 1..(Len(ss) - p) : b[i] = ss[p + i]
    OBVIOUS
  <2> HIDE DEF e, b
  <2>4. /\ e \o b \in Seq(Seq(X)) /\ Len(e \o b) = Len(e) + Len(b)
        /\ \A i \in 1..(Len(e) + Len(b)) :
             (e \o b)[i] = IF i <= Len(e) THEN e[i] ELSE b[i - Len(e)]
    BY <1>1, <2>2, ConcatProperties
  <2> DEFINE c == e \o b
  <2> HIDE DEF c
  <2>5. Len(ss) \in Nat /\ Len(e) + Len(b) = Len(ss)
    BY <2>1, <2>3
  <2>6. ASSUME NEW i \in 1..Len(ss) PROVE c[i] = ss[i]
    <3>1. c[i] = IF i <= Len(e) THEN e[i] ELSE b[i - Len(e)]
      BY <2>4, <2>5 DEF c
    <3>2. CASE i <= p
      <4>1. i \in 1..p
        BY <2>5, <3>2
      <4>2. c[i] = e[i]
        BY <2>1, <3>1, <3>2
      <4> QED
        BY <2>1, <4>1, <4>2
    <3>3. CASE ~(i <= p)
      <4>1. i - p \in 1..(Len(ss) - p) /\ p + (i - p) = i
        <5> DEFINE N == Len(ss)
        <5>1. N \in Nat /\ p \in 1..N /\ i \in 1..N
          BY <2>5
        <5> HIDE DEF N
        <5>2. i - p \in 1..(N - p) /\ p + (i - p) = i
          BY <3>3, <5>1
        <5> QED
          BY <5>2 DEF N
      <4> QED
        BY <2>1, <2>3, <3>1, <3>3, <4>1
    <3> QED
      BY <3>2, <3>3
  <2>7. c \in Seq(Seq(X)) /\ Len(c) = Len(ss)
    BY <2>4, <2>5 DEF c
  <2>8. c = ss
    BY <2>6, <2>7, SeqEqual
  <2> QED
    BY <2>8 DEF c
<1> HIDE DEF a, b
<1>4. FlattenSeq(e) = FlattenSeq(a) \o <<>>
  BY <1>1, FlatPut
<1>5. FlattenSeq(a) \o <<>> = FlattenSeq(a)
  <2>1. FlattenSeq(a) \in Seq(X)
    BY <1>1, FlatType
  <2> QED
    BY <2>1, ConcatEmptySeq
<1>6. e \in Seq(Seq(X))
  BY <1>1
<1> HIDE DEF e
<1>7. FlattenSeq(a \o b) = FlattenSeq(a) \o FlattenSeq(b)
  BY <1>1, FlatJoin
<1>8. FlattenSeq(e \o b) = FlattenSeq(e) \o FlattenSeq(b)
  BY <1>1, <1>6, FlatJoin
<1> QED
  BY <1>2, <1>3, <1>4, <1>5, <1>7, <1>8

-----------------------------------------------------------------------------
(* A filter that moves on top of the second input of a product: the rows   *)
(* of that input are fewer, those above the product are the same.          *)
AgreeBut(r, T, U) == \A x \in Spines : x # r => U[x] = T[x]

Feeds(pl, r, s, k) ==
  r \in Spines /\ s \in Spines /\ k \in 1..Len(pl[s]) /\ pl[s][k].right = r

LEMMA SinkOthers ==
  ASSUME NEW pl, GoodPlan(pl), NEW s, NEW k, NEW r, Feeds(pl, r, s, k),
         NEW T, NEW U, AgreeBut(r, T, U)
  PROVE  \A u \in Spines : \A i \in 1..Len(pl[u]) :
           \/ u = s /\ i = k
           \/ Other(pl[u][i], U) = Other(pl[u][i], T)
<1> SUFFICES ASSUME NEW u \in Spines, NEW i \in 1..Len(pl[u]), ~(u = s /\ i = k)
             PROVE  Other(pl[u][i], U) = Other(pl[u][i], T)
  OBVIOUS
<1>0. r \in Spines /\ s \in Spines /\ k \in 1..Len(pl[s]) /\ pl[s][k].right = r
  BY DEF Feeds
<1>1. pl \in [Spines -> Seq(Op)] /\ WellFormed(pl) /\ IsTree(pl)
  BY DEF GoodPlan, Sound
<1>2. pl[u][i].right = 0 \/ pl[u][i].right \in 1..(u - 1)
  BY <1>1, RightIsLess
<1>3. pl[u][i].right # 0 => pl[u][i].right \in Spines
  BY <1>2, SpinesAre
<1>4. r # 0
  BY <1>0, SpinesAre
<1>5. pl[u][i].right # r
  BY <1>0, <1>1, <1>4 DEF IsTree
<1> QED
  BY <1>3, <1>5 DEF Other, AgreeBut

LEMMA SinkRows ==
  ASSUME TypedMeaning, NEW pl, GoodPlan(pl), NEW s \in Spines,
         NEW p \in 2..Len(pl[s]), IsFilter(pl[s][p]),
         pl[s][p - 1].kind = "Cartesian",
         NEW r, r = pl[s][p - 1].right,
         pl[s][p].used \subseteq BoundVars(pl[r]),
         NEW T, T = Tables(pl),
         NEW U, AgreeBut(r, T, U),
         U[r] = Passing(pl[s][p], T[r])
  PROVE  /\ r \in Spines /\ r < s
         /\ \A i \in 0..(p - 2) : Along(Drop(pl[s], p), U)[i] = Along(pl[s], T)[i]
         /\ \A i \in p..Len(pl[s]) :
              Along(Drop(pl[s], p), U)[i - 1] = Along(pl[s], T)[i]
<1> DEFINE q == pl[s]
           w == Drop(q, p)
           A == Along(q, T)
           W == Along(w, U)
           f == q[p]
           op == q[p - 1]
<1>1. q \in Seq(Op) /\ Len(q) \in Nat
  BY DEF GoodPlan
<1>3. p - 2 \in Nat /\ p - 2 <= Len(q) /\ (p - 1) - 1 = p - 2 /\ p \in Nat /\ p <= Len(q)
      /\ p - 1 \in 1..Len(q) /\ p \in 1..Len(q) /\ p - 1 \in Nat /\ p - 1 # p
      /\ p - 1 \in 1..(Len(q) - 1) /\ p - 1 \in 1..(p - 1)
  BY <1>1
<1>2. /\ w \in Seq(Op) /\ Len(w) = Len(q) - 1
      /\ \A i \in 1..(p - 1) : w[i] = q[i]
      /\ \A i \in p..(Len(q) - 1) : w[i] = q[i + 1]
  BY <1>1, <1>3, DropFacts
<1>4. /\ f \in Op /\ op \in Op /\ f.right = 0 /\ WellFormedOp(s, op)
      /\ A[p - 2] \in Seq(Over(Bound(q, p - 2)))
      /\ A[p - 1] = Apply(op, A[p - 2], Other(op, T))
      /\ A[p] = Passing(f, A[p - 1])
  BY UnderFilter
<1>5. op.kind = "Cartesian" /\ r = op.right
  OBVIOUS
<1>6. r \in Spines /\ r < s /\ r # 0 /\ T[r] \in Seq(Over(BoundVars(pl[r])))
  <2>1. r # 0
    BY <1>4, <1>5 DEF WellFormedOp, BinaryKinds
  <2> QED
    BY <1>3, <2>1, OtherTyped
<1>7. T[r] \in Seq(Over(f.used))
  BY <1>6, OverFewer
<1>8. \A i \in 1..Len(q) : i # p - 1 => Other(q[i], U) = Other(q[i], T)
  <2> DEFINE k == p - 1
  <2>1. k \in 1..Len(pl[s]) /\ pl[s][k].right = r
    BY <1>3
  <2> HIDE DEF k
  <2>2. \A u \in Spines : \A i \in 1..Len(pl[u]) :
           \/ u = s /\ i = k
           \/ Other(pl[u][i], U) = Other(pl[u][i], T)
    <3>1. Feeds(pl, r, s, k)
      BY <1>6, <2>1 DEF Feeds
    <3> QED
      BY <3>1, SinkOthers
  <2> QED
    BY <2>2 DEF k
<1>9. Other(op, T) = T[r] /\ Other(op, U) = Passing(f, T[r])
  BY <1>5, <1>6 DEF Other
<1> HIDE DEF q, w, A, W, f, op
<1>10. \A i \in 0..(p - 2) : W[i] = A[i]
  <2>1. \A i \in 1..(p - 2) : i \in 1..Len(q) /\ i # p - 1 /\ i \in 1..(p - 1)
    BY <1>1, <1>3
  <2>2. \A i \in 1..(p - 2) : w[i] = q[i] /\ Other(w[i], U) = Other(q[i], T)
    BY <1>2, <1>8, <2>1
  <2>3. p - 2 <= Len(w) /\ Len(w) \in Nat
    BY <1>1, <1>2, <1>3
  <2>4. Begin(w, U, q, T, p - 2)
    BY <1>1, <1>3, <2>2, <2>3 DEF Begin
  <2> QED
    BY <2>4, AlongSame DEF W, A
<1>11. W[p - 1] = A[p]
  <2>1. p - 1 \in 1..Len(w) /\ Len(w) \in Nat
    BY <1>1, <1>2, <1>3
  <2>2. W[p - 1] = Apply(w[p - 1], W[(p - 1) - 1], Other(w[p - 1], U))
    BY <2>1, AlongIs DEF W
  <2>3. w[p - 1] = op
    BY <1>2, <1>3 DEF op
  <2>4. W[p - 2] = A[p - 2]
    <3>1. p - 2 \in 0..(p - 2)
      BY <1>3
    <3> QED
      BY <1>10, <3>1
  <2>5. W[p - 1] = Joined(A[p - 2], Passing(f, T[r]))
    BY <1>3, <1>5, <1>9, <2>2, <2>3, <2>4 DEF Apply
  <2>6. A[p - 2] \in Seq(Row)
    BY <1>4, OverRow
  <2>7. Passing(f, Joined(A[p - 2], T[r])) = Joined(A[p - 2], Passing(f, T[r]))
    BY <1>7, <2>6, PassJoinedRight
  <2>8. A[p - 1] = Joined(A[p - 2], T[r])
    BY <1>4, <1>5, <1>9 DEF Apply
  <2> QED
    BY <1>4, <2>5, <2>7, <2>8
<1>12. ASSUME NEW i \in p..Len(q) PROVE W[i - 1] = A[i]
  <2> DEFINE N == Len(q)
             m == N - p
             b == p - 1
  <2>0. N \in Nat /\ p \in 2..N /\ i \in p..N /\ N = Len(q) /\ Len(w) = N - 1
    BY <1>1, <1>2 DEF q
  <2> HIDE DEF N
  <2>1. /\ m \in Nat /\ p + m = Len(q) /\ b \in Nat /\ b + m = Len(w) /\ Len(w) \in Nat
        /\ i - p \in 0..m /\ p + (i - p) = i /\ b + (i - p) = i - 1
    <3>1. /\ N - p \in Nat /\ p + (N - p) = N /\ p - 1 \in Nat
          /\ (p - 1) + (N - p) = N - 1 /\ N - 1 \in Nat
      BY ONLY <2>0, PlacesAbove
    <3>2. i - p \in 0..(N - p) /\ p + (i - p) = i /\ (p - 1) + (i - p) = i - 1
      BY ONLY <2>0, PlacesAbove
    <3> QED
      BY <2>0, <3>1, <3>2
  <2>2. ASSUME NEW j \in 1..m
        PROVE  w[b + j] = q[p + j] /\ Other(w[b + j], U) = Other(q[p + j], T)
    <3>1. /\ b + j \in p..(Len(q) - 1) /\ (b + j) + 1 = p + j
          /\ p + j \in 1..Len(q) /\ p + j # p - 1
      BY <2>0, PlacesAbove
    <3>2. w[b + j] = q[p + j]
      BY <1>2, <3>1
    <3> QED
      BY <1>8, <3>1, <3>2
  <2>3. W[b] = A[p]
    BY <1>11
  <2> HIDE DEF m, b
  <2>4. Alike(w, U, b, q, T, p, m)
    <3>1. p + m <= Len(q) /\ b + m <= Len(w)
      BY <2>0, PlacesAbove DEF m, b
    <3> QED
      BY <1>1, <1>3, <2>1, <2>2, <2>3, <3>1 DEF Alike, W, A
  <2>5. \A j \in 0..m : W[b + j] = A[p + j]
    BY <2>4, AlongFrom DEF W, A
  <2> QED
    BY <2>1, <2>5
<1> QED
  BY <1>6, <1>10, <1>12 DEF q, w, A, W

(* The same rows below every operator of a spine that is as it was.        *)
LEMMA SameReach ==
  ASSUME NEW pl, NEW t, NEW u, t[u] = pl[u],
         \A i \in 1..Len(pl[u]) : Rows(t, u, i - 1) = Rows(pl, u, i - 1)
  PROVE  RowsReaching(t, u, Past) = RowsReaching(pl, u, Past)
<1> DEFINE of(x, i) == IF pl[u][i].kind \in Past THEN <<>> ELSE <<Rows(x, u, i - 1)>>
<1>1. \A i \in 1..Len(pl[u]) : of(t, i) = of(pl, i)
  OBVIOUS
<1> HIDE DEF of
<1>2. [i \in 1..Len(pl[u]) |-> of(t, i)] = [i \in 1..Len(pl[u]) |-> of(pl, i)]
  BY <1>1
<1> QED
  BY <1>2 DEF RowsReaching, of

(* An operator on top of a spine that lets rows pass, or taken out.        *)
LEMMA PutOnReach ==
  ASSUME NEW pl, NEW t, NEW u, pl[u] \in Seq(Op), NEW f \in Op, f.kind \in Past,
         t[u] = Append(pl[u], f),
         \A i \in 1..Len(pl[u]) : Rows(t, u, i - 1) = Rows(pl, u, i - 1)
  PROVE  RowsReaching(t, u, Past) = RowsReaching(pl, u, Past)
<1> DEFINE q == pl[u]
           w == t[u]
           of(x, y, i) == IF x[i].kind \in Past THEN <<>> ELSE <<Rows(y, u, i - 1)>>
           X == {Rows(pl, u, i - 1) : i \in 1..Len(q)}
           ss == [i \in 1..Len(q) |-> of(q, pl, i)]
           tt == [i \in 1..Len(w) |-> of(w, t, i)]
<1>1. /\ Len(q) \in Nat /\ Len(w) = Len(q) + 1 /\ w[Len(q) + 1] = f
      /\ \A i \in 1..Len(q) : w[i] = q[i]
  BY PutOnFacts
<1>2. ss \in Seq(Seq(X))
  <2>1. \A i \in 1..Len(q) : of(q, pl, i) \in Seq(X)
    <3> TAKE i \in 1..Len(q)
    <3>1. Rows(pl, u, i - 1) \in X
      OBVIOUS
    <3> HIDE DEF X
    <3> QED
      BY <3>1
  <2> HIDE DEF of, X
  <2> QED
    BY <1>1, <2>1
<1> HIDE DEF X
<1>3. \A i \in 1..Len(q) : of(w, t, i) = of(q, pl, i)
  BY <1>1
<1>4. of(w, t, Len(q) + 1) = <<>>
  BY <1>1
<1> HIDE DEF of
<1>5. tt = Append(ss, <<>>)
  <2> DEFINE N == Len(q)
  <2>1. N \in Nat /\ ss = [i \in 1..N |-> of(q, pl, i)] /\ tt = [i \in 1..(N + 1) |-> of(w, t, i)]
    BY <1>1
  <2> HIDE DEF N, ss, tt, w, q
  <2>2. Len(ss) = N /\ \A i \in 1..N : ss[i] = of(q, pl, i)
    BY <2>1
  <2>3. \A i \in 1..N : tt[i] = ss[i]
    BY <1>3, <2>1, <2>2 DEF N
  <2>4. tt[N + 1] = <<>>
    BY <1>4, <2>1 DEF N
  <2>5. Append(ss, <<>>) = [i \in 1..(N + 1) |-> IF i = N + 1 THEN <<>> ELSE ss[i]]
    BY <1>2, <2>1, <2>2
  <2>6. \A i \in 1..(N + 1) : of(w, t, i) = IF i = N + 1 THEN <<>> ELSE ss[i]
    <3>1. \A i \in 1..(N + 1) : tt[i] = of(w, t, i) /\ (i = N + 1 \/ i \in 1..N)
      BY <2>1
    <3> QED
      BY <2>3, <2>4, <3>1
  <2> QED
    BY <2>1, <2>5, <2>6
<1>6. FlattenSeq(Append(ss, <<>>)) = FlattenSeq(ss) \o <<>>
  <2>1. <<>> \in Seq(X)
    OBVIOUS
  <2> HIDE DEF ss
  <2> QED
    BY <1>2, <2>1, FlatPut
<1>7. FlattenSeq(ss) \o <<>> = FlattenSeq(ss)
  <2> HIDE DEF ss
  <2>1. FlattenSeq(ss) \in Seq(X)
    BY <1>2, FlatType
  <2> QED
    BY <2>1, ConcatEmptySeq
<1>8. RowsReaching(t, u, Past) = FlattenSeq(tt) /\ RowsReaching(pl, u, Past) = FlattenSeq(ss)
  BY DEF RowsReaching, of
<1> HIDE DEF ss, tt
<1> QED
  BY <1>5, <1>6, <1>7, <1>8

LEMMA DropReach ==
  ASSUME NEW pl, NEW t, NEW u, pl[u] \in Seq(Op), NEW p \in 1..Len(pl[u]),
         pl[u][p].kind \in Past, t[u] = Drop(pl[u], p),
         \A i \in 0..(p - 2) : Rows(t, u, i) = Rows(pl, u, i),
         \A i \in p..Len(pl[u]) : Rows(t, u, i - 1) = Rows(pl, u, i)
  PROVE  RowsReaching(t, u, Past) = RowsReaching(pl, u, Past)
<1> DEFINE q == pl[u]
           w == t[u]
           N == Len(q)
           of(x, y, i) == IF x[i].kind \in Past THEN <<>> ELSE <<Rows(y, u, i - 1)>>
           X == {Rows(pl, u, i - 1) : i \in 1..N}
           ss == [i \in 1..N |-> of(q, pl, i)]
           tt == [i \in 1..Len(w) |-> of(w, t, i)]
<1>1. /\ N \in Nat /\ Len(w) = N - 1 /\ p \in 1..N
      /\ \A i \in 1..(p - 1) : w[i] = q[i]
      /\ \A i \in p..(N - 1) : w[i] = q[i + 1]
  <2>1. q \in Seq(Op) /\ p \in 1..Len(q) /\ w = Drop(q, p) /\ Len(q) \in Nat
    OBVIOUS
  <2> HIDE DEF q, w
  <2>2. /\ Len(w) = Len(q) - 1
        /\ \A i \in 1..(p - 1) : w[i] = q[i]
        /\ \A i \in p..(Len(q) - 1) : w[i] = q[i + 1]
    BY <2>1, DropFacts
  <2> QED
    BY <2>1, <2>2
<1>a. /\ \A i \in 0..(p - 2) : Rows(t, u, i) = Rows(pl, u, i)
      /\ \A i \in p..N : Rows(t, u, i - 1) = Rows(pl, u, i)
  OBVIOUS
<1>b. q[p].kind \in Past
  OBVIOUS
<1>2. ss \in Seq(Seq(X))
  <2>1. \A i \in 1..N : of(q, pl, i) \in Seq(X)
    <3> TAKE i \in 1..N
    <3>1. Rows(pl, u, i - 1) \in X
      OBVIOUS
    <3> HIDE DEF X
    <3> QED
      BY <3>1
  <2> HIDE DEF of, X
  <2> QED
    BY <1>1, <2>1
<1>8. RowsReaching(t, u, Past) = FlattenSeq(tt) /\ RowsReaching(pl, u, Past) = FlattenSeq(ss)
  BY DEF RowsReaching
<1> HIDE DEF X, q, w, N
<1>3. \A i \in 1..(N - 1) : i < p => of(w, t, i) = of(q, pl, i)
  <2> SUFFICES ASSUME NEW i \in 1..(N - 1), i < p PROVE of(w, t, i) = of(q, pl, i)
    OBVIOUS
  <2>1. i \in 1..(p - 1) /\ i - 1 \in 0..(p - 2)
    BY <1>1
  <2>2. w[i] = q[i] /\ Rows(t, u, i - 1) = Rows(pl, u, i - 1)
    BY <1>1, <1>a, <2>1
  <2> QED
    BY <2>2
<1>4. \A i \in 1..(N - 1) : ~(i < p) => of(w, t, i) = of(q, pl, i + 1)
  <2> SUFFICES ASSUME NEW i \in 1..(N - 1), ~(i < p) PROVE of(w, t, i) = of(q, pl, i + 1)
    OBVIOUS
  <2>1. i \in p..(N - 1) /\ i \in p..N /\ (i + 1) - 1 = i
    BY <1>1
  <2>2. w[i] = q[i + 1] /\ Rows(t, u, i - 1) = Rows(pl, u, i)
    BY <1>1, <1>a, <2>1
  <2> QED
    BY <2>1, <2>2
<1>5. of(q, pl, p) = <<>>
  BY <1>b
<1> HIDE DEF of
<1>s. ss = [i \in 1..N |-> of(q, pl, i)] /\ tt = [i \in 1..(N - 1) |-> of(w, t, i)]
  BY <1>1
<1> HIDE DEF ss, tt
<1>l. Len(ss) = N /\ \A i \in 1..N : ss[i] = of(q, pl, i)
  BY <1>1, <1>s
<1>6. tt = [i \in 1..(Len(ss) - 1) |-> IF i < p THEN ss[i] ELSE ss[i + 1]]
  <2>1. \A i \in 1..(N - 1) : of(w, t, i) = IF i < p THEN ss[i] ELSE ss[i + 1]
    <3> TAKE i \in 1..(N - 1)
    <3>1. i \in 1..N /\ i + 1 \in 1..N
      BY <1>1
    <3>2. ss[i] = of(q, pl, i) /\ ss[i + 1] = of(q, pl, i + 1)
      BY <1>l, <3>1
    <3> QED
      BY <1>3, <1>4, <3>2
  <2> QED
    BY <1>s, <1>l, <2>1
<1>7. FlattenSeq(tt) = FlattenSeq(ss)
  <2>1. p \in 1..Len(ss) /\ ss[p] = <<>>
    BY <1>1, <1>5, <1>l
  <2> QED
    BY <1>2, <1>6, <2>1, FlatDrop
<1> QED
  BY <1>7, <1>8

LEMMA SinkKeepsRows ==
  ASSUME TypedMeaning, NEW pl, GoodPlan(pl), NEW s \in Spines,
         NEW p \in 2..Len(pl[s]), IsFilter(pl[s][p]),
         pl[s][p - 1].kind = "Cartesian",
         NEW r, r = pl[s][p - 1].right,
         pl[s][p].used \subseteq BoundVars(pl[r]),
         NEW t \in [Spines -> Seq(Op)], t = SinkTo(pl, s, p, r), WellFormed(t)
  PROVE  SameRows(t, pl)
<1> DEFINE T == Tables(pl)
           q == pl[s]
           w == Drop(q, p)
           f == q[p]
           U == [T EXCEPT ![r] = Passing(f, T[r])]
<1>1. pl \in [Spines -> Seq(Op)] /\ WellFormed(pl) /\ q \in Seq(Op) /\ Len(q) \in Nat
      /\ p \in 1..Len(q) /\ p \in p..Len(q) /\ p - 1 \in 1..Len(q) /\ p - 1 # p
  BY DEF GoodPlan, Sound
<1>2. T = [u \in Spines |-> Along(pl[u], T)[Len(pl[u])]]
  BY <1>1, TablesAre DEF Tabled
<1>0. r \in Spines /\ r < s
  <2>1. WellFormedOp(s, q[p - 1])
    BY <1>1 DEF WellFormed
  <2>3. q[p - 1].right \in 1..(s - 1)
    BY <2>1, RightShape DEF BinaryKinds
  <2>2. q[p - 1].right # 0
    BY <2>3
  <2> QED
    BY <1>1, <2>2, OtherTyped
<1>3. /\ \A x \in Spines : x # r => U[x] = T[x]
      /\ U[r] = Passing(f, T[r])
      /\ U = [u \in Spines |-> U[u]]
  <2>1. DOMAIN T = Spines
    BY <1>2
  <2> HIDE DEF T, f
  <2> QED
    BY <1>0, <2>1
<1>4. f \in Op /\ f.right = 0 /\ IsFilter(f) /\ f.kind \in Past
  BY <1>1, FilterShape, SMTT(30) DEF IsFilter, Past
<1>5. /\ t \in [Spines -> Seq(Op)] /\ t[s] = w /\ t[r] = Append(pl[r], f)
      /\ \A u \in Spines : u # s /\ u # r => t[u] = pl[u]
  <2>1. r # s
    BY <1>0, SpinesAre
  <2> HIDE DEF f
  <2>2. t = [pl EXCEPT ![s] = Drop(@, p), ![r] = Append(@, f)]
    BY DEF SinkTo, f
  <2>3. t[s] = Drop(pl[s], p)
    BY ONLY <1>0, <1>1, <2>1, <2>2
  <2>4. t[r] = Append(pl[r], f)
    BY ONLY <1>0, <1>1, <2>1, <2>2
  <2>5. \A u \in Spines : u # s /\ u # r => t[u] = pl[u]
    BY ONLY <1>0, <1>1, <2>1, <2>2
  <2> QED
    BY <2>3, <2>4, <2>5
<1> HIDE DEF T, U, w, f
<1>6. AgreeBut(r, T, U)
  BY <1>3 DEF AgreeBut
<1>7. /\ \A i \in 0..(p - 2) : Along(w, U)[i] = Along(q, T)[i]
      /\ \A i \in p..Len(q) : Along(w, U)[i - 1] = Along(q, T)[i]
  <2>1. AgreeBut(r, T, U) /\ U[r] = Passing(pl[s][p], T[r]) /\ T = Tables(pl)
    BY <1>3, <1>6 DEF T, f
  <2>2. /\ \A i \in 0..(p - 2) : Along(Drop(pl[s], p), U)[i] = Along(pl[s], T)[i]
        /\ \A i \in p..Len(pl[s]) : Along(Drop(pl[s], p), U)[i - 1] = Along(pl[s], T)[i]
    BY <2>1, SinkRows, SMTT(30)
  <2> QED
    BY <2>2 DEF w
<1>8. Feeds(pl, r, s, p - 1)
  BY <1>0, <1>1 DEF Feeds
<1>9. ASSUME NEW u \in Spines, u # s
      PROVE  \A i \in 0..Len(pl[u]) : Along(pl[u], U)[i] = Along(pl[u], T)[i]
  <2>1. \A i \in 1..Len(pl[u]) : Other(pl[u][i], U) = Other(pl[u][i], T)
    BY <1>6, <1>8, <1>9, SinkOthers
  <2>2. Len(pl[u]) \in Nat /\ Len(pl[u]) <= Len(pl[u])
    BY <1>1
  <2>3. Begin(pl[u], U, pl[u], T, Len(pl[u]))
    BY <2>1, <2>2 DEF Begin
  <2> QED
    BY <2>3, AlongSame
<1>10. \A i \in 0..Len(pl[r]) : Along(t[r], U)[i] = Along(pl[r], T)[i]
  <2> DEFINE x == pl[r]
             y == t[r]
  <2>1. x \in Seq(Op) /\ Len(x) \in Nat /\ y = Append(x, f)
    BY <1>0, <1>1, <1>5
  <2>2. \A i \in 1..Len(x) : Other(x[i], U) = Other(x[i], T)
    <3>1. r # s
      BY <1>0, SpinesAre
    <3> QED
      BY <1>0, <1>6, <1>8, <3>1, SinkOthers
  <2> HIDE DEF x, y
  <2>3. Len(y) = Len(x) + 1 /\ \A i \in 1..Len(x) : y[i] = x[i]
    BY <1>4, <2>1, PutOnFacts
  <2>4. Len(y) \in Nat /\ Len(x) <= Len(y) /\ Len(x) <= Len(x)
    BY <2>1, <2>3
  <2>5. Begin(y, U, x, T, Len(x))
    BY <2>1, <2>2, <2>3, <2>4, SMTT(30) DEF Begin
  <2> QED
    BY <2>5, AlongSame, SMTT(30) DEF x, y
<1>11. Along(t[r], U)[Len(t[r])] = U[r]
  <2> DEFINE x == pl[r]
             y == t[r]
  <2>1. x \in Seq(Op) /\ Len(x) \in Nat /\ y = Append(x, f)
    BY <1>0, <1>1, <1>5
  <2>2. T[r] = Along(x, T)[Len(x)]
    BY <1>0, <1>2
  <2>a. Along(y, U)[Len(x)] = Along(x, T)[Len(x)]
    <3>1. Len(x) \in 0..Len(x)
      BY <2>1
    <3>2. \A i \in 0..Len(x) : Along(y, U)[i] = Along(x, T)[i]
      BY <1>10
    <3> HIDE DEF x, y
    <3> QED
      BY <3>1, <3>2
  <2> HIDE DEF x, y
  <2>3. Len(y) = Len(x) + 1 /\ y[Len(x) + 1] = f
    BY <1>4, <2>1, PutOnFacts
  <2>4. Len(y) \in Nat /\ Len(y) \in 1..Len(y) /\ Len(y) - 1 = Len(x)
    BY <2>1, <2>3
  <2>5. Along(y, U)[Len(y)] = Apply(y[Len(y)], Along(y, U)[Len(y) - 1], Other(y[Len(y)], U))
    BY <2>4, AlongIs
  <2>6. Along(y, U)[Len(y)] = Passing(f, T[r])
    BY <1>4, <2>2, <2>3, <2>4, <2>5, <2>a, SMTT(30) DEF Apply, IsFilter
  <2> QED
    BY <1>3, <2>6 DEF y
<1>12. Along(t[s], U)[Len(t[s])] = U[s]
  <2>1. Len(w) = Len(q) - 1
    BY <1>1, DropFacts DEF w
  <2>2. Along(w, U)[Len(q) - 1] = Along(q, T)[Len(q)]
    <3>1. Len(q) \in p..Len(q)
      BY <1>1
    <3> QED
      BY <1>7, <3>1
  <2>3. T[s] = Along(q, T)[Len(q)]
    BY <1>2
  <2>4. U[s] = T[s]
    BY <1>0, <1>3, SpinesAre
  <2> QED
    BY <1>5, <2>1, <2>2, <2>3, <2>4
<1>13. ASSUME NEW u \in Spines, u # s, u # r
       PROVE  Along(t[u], U)[Len(t[u])] = U[u]
  <2>1. t[u] = pl[u] /\ U[u] = T[u] /\ T[u] = Along(pl[u], T)[Len(pl[u])]
    BY <1>2, <1>3, <1>5, <1>13
  <2>2. Len(pl[u]) \in 0..Len(pl[u])
    BY <1>1, SMTT(30)
  <2> QED
    BY <1>9, <1>13, <2>1, <2>2, SMTT(30)
<1>14. U = Tables(t)
  <2>1. \A u \in Spines : Along(t[u], U)[Len(t[u])] = U[u]
    BY <1>11, <1>12, <1>13, ZenonT(30)
  <2>2. U = [u \in Spines |-> Along(t[u], U)[Len(t[u])]]
    BY <1>3, <2>1, SMTT(30)
  <2>3. Tabled(t, U)
    BY <2>2 DEF Tabled
  <2> QED
    BY <1>5, <2>3, TablesOnly, SMTT(30)
<1>15. Eval(t) = Eval(pl)
  <2>1. Root \in Spines /\ Root # r
    BY <1>0, SpinesAre DEF Root
  <2> QED
    BY <1>3, <1>14, <2>1 DEF Eval, T
<1>16. ASSUME NEW u \in Spines
       PROVE  RowsReaching(t, u, Past) = RowsReaching(pl, u, Past)
  <2>1. \A n : Rows(t, u, n) = Along(t[u], U)[n] /\ Rows(pl, u, n) = Along(pl[u], T)[n]
    BY <1>14 DEF Rows, T
  <2>2. pl[u] \in Seq(Op) /\ Len(pl[u]) \in Nat
        /\ \A i \in 1..Len(pl[u]) : i - 1 \in 0..Len(pl[u])
    BY <1>1
  <2>3. CASE u = s
    <3>1. /\ \A i \in 0..(p - 2) : Rows(t, u, i) = Rows(pl, u, i)
          /\ \A i \in p..Len(pl[u]) : Rows(t, u, i - 1) = Rows(pl, u, i)
      <4>1. t[u] = w /\ pl[u] = q
        BY <1>5, <2>3 DEF w
      <4>2. \A n : Rows(t, u, n) = Along(w, U)[n] /\ Rows(pl, u, n) = Along(q, T)[n]
        BY <2>1, <4>1
      <4> HIDE DEF w, q, U, T
      <4>3. \A i \in 0..(p - 2) : Rows(t, u, i) = Rows(pl, u, i)
        BY <1>7, <4>2
      <4>4. \A i \in p..Len(q) : Rows(t, u, i - 1) = Rows(pl, u, i)
        BY <1>7, <4>2
      <4> QED
        BY <4>1, <4>3, <4>4
    <3>2. pl[u][p].kind \in Past /\ t[u] = Drop(pl[u], p) /\ p \in 1..Len(pl[u])
      BY <1>1, <1>4, <1>5, <2>3 DEF w, f
    <3> QED
      BY <2>2, <3>1, <3>2, DropReach
  <2>4. CASE u = r
    <3>1. \A i \in 1..Len(pl[u]) : Rows(t, u, i - 1) = Rows(pl, u, i - 1)
      BY <1>10, <2>1, <2>2, <2>4
    <3>2. t[u] = Append(pl[u], f)
      BY <1>5, <2>4
    <3> QED
      BY <1>4, <2>2, <3>1, <3>2, PutOnReach
  <2>5. CASE u # s /\ u # r
    <3>1. t[u] = pl[u]
      BY <1>5, <2>5
    <3>2. \A i \in 1..Len(pl[u]) : Rows(t, u, i - 1) = Rows(pl, u, i - 1)
      BY <1>9, <2>1, <2>2, <2>5, <3>1
    <3> QED
      BY <3>1, <3>2, SameReach
  <2> QED
    BY <2>3, <2>4, <2>5
<1> QED
  BY <1>15, <1>16 DEF SameRows

-----------------------------------------------------------------------------
(* Where a plan is a tree whose filters are all inside it, moving a filter *)
(* leaves it one.                                                          *)
LEMMA FilterIsInner ==
  ASSUME NEW f, IsFilter(f)
  PROVE  ~Closes(f) /\ f.kind \notin LeafKinds
  BY DEF IsFilter, Closes, LeafKinds

LEMMA SlideStaysTree ==
  ASSUME NEW pl, GoodPlan(pl), NEW s \in Spines,
         NEW p \in 2..Len(pl[s]), IsFilter(pl[s][p]),
         pl[s][p - 1].kind \in Promise!Transparent,
         NEW t \in [Spines -> Seq(Op)], t = SlideTo(pl, s, p)
  PROVE  IsTree(t)
<1> DEFINE q == pl[s]
<1>1. pl \in [Spines -> Seq(Op)] /\ IsTree(pl) /\ q \in Seq(Op) /\ Len(q) \in Nat
  BY DEF GoodPlan
<1>2. /\ t[s] = Swap(q, p) /\ \A u \in Spines : u # s => t[u] = pl[u]
  BY <1>1 DEF SlideTo
<1>3. /\ Len(t[s]) = Len(q) /\ t[s][p - 1] = q[p] /\ t[s][p] = q[p - 1]
      /\ \A i \in 1..Len(q) : i # p - 1 /\ i # p => t[s][i] = q[i]
  BY <1>1, <1>2, SwapFacts
<1>4. q[p].kind \notin LeafKinds /\ q[p - 1].kind \notin LeafKinds
  BY FilterIsInner DEF Promise!Transparent, LeafKinds
<1> DEFINE from(u, i) == IF u # s THEN i
                         ELSE IF i = p - 1 THEN p ELSE IF i = p THEN p - 1 ELSE i
<1>5. ASSUME NEW u \in Spines, NEW i \in 1..Len(t[u])
      PROVE  from(u, i) \in 1..Len(pl[u]) /\ t[u][i] = pl[u][from(u, i)]
  <2>1. CASE u # s
    BY <1>2, <2>1
  <2>2. CASE u = s
    BY <1>1, <1>3, <2>2
  <2> QED
    BY <2>1, <2>2
<1>6. \A u \in Spines : \A i, j \in 1..Len(t[u]) : from(u, i) = from(u, j) => i = j
  OBVIOUS
<1>7. ASSUME NEW u \in Spines, NEW i \in 2..Len(t[u])
      PROVE  t[u][i].kind \notin LeafKinds
  <2>1. CASE u # s
    BY <1>1, <1>2, <2>1 DEF IsTree
  <2>2. CASE u = s
    BY <1>1, <1>3, <1>4, <2>2 DEF IsTree
  <2> QED
    BY <2>1, <2>2
<1> HIDE DEF from, q
<1>8. ASSUME NEW u \in Spines, NEW v \in Spines,
             NEW i \in 1..Len(t[u]), NEW j \in 1..Len(t[v]),
             t[u][i].right # 0, t[u][i].right = t[v][j].right
      PROVE  u = v /\ i = j
  <2>1. /\ from(u, i) \in 1..Len(pl[u]) /\ t[u][i] = pl[u][from(u, i)]
        /\ from(v, j) \in 1..Len(pl[v]) /\ t[v][j] = pl[v][from(v, j)]
    BY <1>5
  <2>a. /\ pl[u][from(u, i)].right # 0
        /\ pl[u][from(u, i)].right = pl[v][from(v, j)].right
    BY <1>8, <2>1
  <2>3. \A a, b \in Spines : \A x \in 1..Len(pl[a]), y \in 1..Len(pl[b]) :
          pl[a][x].right # 0 /\ pl[a][x].right = pl[b][y].right => a = b /\ x = y
    BY <1>1 DEF IsTree
  <2> HIDE DEF from
  <2>2. u = v /\ from(u, i) = from(v, j)
    <3>1. PICK x, y : x = from(u, i) /\ y = from(v, j)
      OBVIOUS
    <3>2. /\ x \in 1..Len(pl[u]) /\ y \in 1..Len(pl[v])
          /\ pl[u][x].right # 0 /\ pl[u][x].right = pl[v][y].right
      BY <2>a, <2>1, <3>1
    <3>3. u = v /\ x = y
      BY ONLY u \in Spines, v \in Spines, <2>3, <3>2
    <3> QED
      BY <3>1, <3>3
  <2> QED
    BY <1>6, <2>2
<1> QED
  BY <1>7, <1>8, SMTT(30) DEF IsTree

LEMMA SlideStaysLast ==
  ASSUME NEW pl, GoodPlan(pl), NEW s \in Spines,
         NEW p \in 2..Len(pl[s]), IsFilter(pl[s][p]),
         NEW t \in [Spines -> Seq(Op)], t = SlideTo(pl, s, p)
  PROVE  UnionLast(t)
<1> DEFINE q == pl[s]
<1>1. pl \in [Spines -> Seq(Op)] /\ UnionLast(pl) /\ q \in Seq(Op) /\ Len(q) \in Nat
  BY DEF GoodPlan, FiltersInside
<1>2. /\ t[s] = Swap(q, p) /\ \A u \in Spines : u # s => t[u] = pl[u]
  BY <1>1 DEF SlideTo
<1>3. /\ Len(t[s]) = Len(q) /\ t[s][p - 1] = q[p] /\ t[s][p] = q[p - 1]
      /\ \A i \in 1..Len(q) : i # p - 1 /\ i # p => t[s][i] = q[i]
  BY <1>1, <1>2, SwapFacts
<1>4. \A i \in 1..Len(q) : Closes(q[i]) =>
         s = Root /\ i > p /\ \A j \in (i + 1)..Len(q) : ~IsFilter(q[j])
  <2> SUFFICES ASSUME NEW i \in 1..Len(q), Closes(q[i])
               PROVE  s = Root /\ i > p /\ \A j \in (i + 1)..Len(q) : ~IsFilter(q[j])
    OBVIOUS
  <2>1. s = Root /\ \A j \in (i + 1)..Len(q) : ~IsFilter(q[j])
    BY <1>1 DEF UnionLast
  <2>2. i # p
    BY FilterIsInner
  <2>3. ~(p \in (i + 1)..Len(q))
    BY <2>1
  <2> QED
    BY <1>1, <2>1, <2>2, <2>3
<1>5. ASSUME NEW u \in Spines, NEW i \in 1..Len(t[u]), Closes(t[u][i])
      PROVE  u = Root /\ \A j \in (i + 1)..Len(t[u]) : ~IsFilter(t[u][j])
  <2>1. CASE u # s
    BY <1>1, <1>2, <1>5, <2>1 DEF UnionLast
  <2>2. CASE u = s
    <3>1. i # p - 1 /\ i # p
      <4>1. p \in 1..Len(q) /\ p - 1 \in 1..Len(q) /\ p - 1 < p
        BY <1>1
      <4>2. ~Closes(q[p]) /\ ~Closes(q[p - 1])
        BY <1>4, <4>1
      <4> QED
        BY <1>3, <1>5, <2>2, <4>2
    <3>2. i \in 1..Len(q) /\ t[u][i] = q[i]
      BY <1>3, <2>2, <3>1
    <3>3. s = Root /\ i > p /\ \A j \in (i + 1)..Len(q) : ~IsFilter(q[j])
      BY <1>4, <1>5, <3>2
    <3>4. \A j \in (i + 1)..Len(q) : t[s][j] = q[j]
      BY <1>3, <3>3
    <3> QED
      BY <1>3, <2>2, <3>3, <3>4
  <2> QED
    BY <2>1, <2>2
<1> QED
  BY <1>5 DEF UnionLast

LEMMA SlideStaysRead ==
  ASSUME NEW pl, GoodPlan(pl), NEW s \in Spines,
         NEW p \in 2..Len(pl[s]), IsFilter(pl[s][p]),
         NEW t \in [Spines -> Seq(Op)], t = SlideTo(pl, s, p)
  PROVE  GroupsRead(t)
<1> DEFINE q == pl[s]
           from(i) == IF i = p - 1 THEN p ELSE IF i = p THEN p - 1 ELSE i
<1>1. pl \in [Spines -> Seq(Op)] /\ GroupsRead(pl) /\ q \in Seq(Op) /\ Len(q) \in Nat
  BY DEF GoodPlan, FiltersInside
<1>2. /\ t[s] = Swap(q, p) /\ \A u \in Spines : u # s => t[u] = pl[u]
  BY <1>1 DEF SlideTo
<1>3. /\ Len(t[s]) = Len(q) /\ t[s][p - 1] = q[p] /\ t[s][p] = q[p - 1]
      /\ \A i \in 1..Len(q) : i # p - 1 /\ i # p => t[s][i] = q[i]
  BY <1>1, <1>2, SwapFacts
<1>4. ~OneGroup(q[p])
  BY DEF IsFilter, OneGroup
<1>5. \A i \in 1..Len(q) : from(i) \in 1..Len(q) /\ t[s][i] = q[from(i)]
  BY <1>1, <1>3
<1>6. \A i, j \in 1..Len(q) : i # p - 1 /\ i < j => from(i) < from(j)
  BY <1>1
<1> HIDE DEF from, q
<1>7. ASSUME NEW u \in Spines, NEW i \in 1..Len(t[u]), NEW j \in 1..Len(t[u]),
             OneGroup(t[u][i]), i < j, IsFilter(t[u][j])
      PROVE  t[u][j].used # {}
  <2>1. CASE u # s
    BY <1>1, <1>2, <1>7, <2>1 DEF GroupsRead
  <2>2. CASE u = s
    <3>1. i # p - 1
      BY <1>3, <1>4, <1>7, <2>2
    <3>2. i \in 1..Len(q) /\ j \in 1..Len(q)
      BY <1>3, <2>2
    <3>3. from(i) < from(j)
      BY <1>6, <1>7, <3>1, <3>2
    <3> QED
      BY <1>1, <1>5, <1>7, <2>2, <3>2, <3>3 DEF GroupsRead, q
  <2> QED
    BY <2>1, <2>2
<1> QED
  BY <1>7 DEF GroupsRead

LEMMA SinkStaysTree ==
  ASSUME NEW pl, GoodPlan(pl), NEW s \in Spines,
         NEW p \in 2..Len(pl[s]), IsFilter(pl[s][p]),
         NEW r \in Spines, r # s,
         NEW t \in [Spines -> Seq(Op)], t = SinkTo(pl, s, p, r)
  PROVE  IsTree(t)
<1> DEFINE q == pl[s]
           f == q[p]
<1>1. pl \in [Spines -> Seq(Op)] /\ IsTree(pl) /\ q \in Seq(Op) /\ Len(q) \in Nat
      /\ WellFormed(pl) /\ pl[r] \in Seq(Op) /\ Len(pl[r]) \in Nat /\ p \in 1..Len(q)
  BY DEF GoodPlan, Sound
<1>2. f \in Op /\ f.right = 0 /\ f.kind \notin LeafKinds
  BY <1>1, FilterShape, FilterIsInner
<1>3. /\ t[s] = Drop(q, p) /\ t[r] = Append(pl[r], f)
      /\ \A u \in Spines : u # s /\ u # r => t[u] = pl[u]
  <2> HIDE DEF f
  <2>1. t = [pl EXCEPT ![s] = Drop(@, p), ![r] = Append(@, f)]
    BY DEF SinkTo, f
  <2> QED
    BY ONLY <1>1, <2>1
<1>4. /\ Len(t[s]) = Len(q) - 1
      /\ \A i \in 1..(p - 1) : t[s][i] = q[i]
      /\ \A i \in p..(Len(q) - 1) : t[s][i] = q[i + 1]
  <2> HIDE DEF q
  <2> QED
    BY <1>1, <1>3, DropFacts, ZenonT(30)
<1>5. /\ Len(t[r]) = Len(pl[r]) + 1 /\ t[r][Len(pl[r]) + 1] = f
      /\ \A i \in 1..Len(pl[r]) : t[r][i] = pl[r][i]
  <2> HIDE DEF f
  <2> QED
    BY <1>1, <1>2, <1>3, PutOnFacts
<1> DEFINE from(u, i) == IF u = s /\ i >= p THEN i + 1 ELSE i
<1>6. ASSUME NEW u \in Spines, NEW i \in 1..Len(t[u]), t[u][i].right # 0
      PROVE  from(u, i) \in 1..Len(pl[u]) /\ t[u][i] = pl[u][from(u, i)]
  <2> HIDE DEF f
  <2>1. CASE u # s /\ u # r
    BY <1>3, <2>1
  <2>2. CASE u = s
    BY <1>1, <1>4, <2>2
  <2>3. CASE u = r
    <3>1. i # Len(pl[r]) + 1
      BY <1>2, <1>5, <1>6, <2>3
    <3>2. i \in 1..Len(pl[r])
      BY <1>1, <1>5, <2>3, <3>1
    <3> QED
      BY <1>5, <2>3, <3>2
  <2> QED
    BY <2>1, <2>2, <2>3
<1>7. \A u \in Spines : \A i, j \in 1..Len(t[u]) : from(u, i) = from(u, j) => i = j
  OBVIOUS
<1>8. ASSUME NEW u \in Spines, NEW i \in 2..Len(t[u])
      PROVE  t[u][i].kind \notin LeafKinds
  <2> HIDE DEF f
  <2>1. CASE u # s /\ u # r
    BY <1>1, <1>3, <2>1 DEF IsTree
  <2>2. CASE u = s
    <3>1. CASE i < p
      <4>1. i \in 1..(p - 1) /\ i \in 2..Len(q)
        BY <1>1, <3>1
      <4> QED
        BY <1>1, <1>4, <2>2, <4>1 DEF IsTree
    <3>2. CASE ~(i < p)
      <4>1. i \in p..(Len(q) - 1) /\ i + 1 \in 2..Len(q)
        BY <1>1, <1>4, <2>2, <3>2
      <4> QED
        BY <1>1, <1>4, <2>2, <4>1 DEF IsTree
    <3> QED
      BY <3>1, <3>2
  <2>3. CASE u = r
    <3>1. CASE i = Len(pl[r]) + 1
      BY <1>2, <1>5, <2>3, <3>1
    <3>2. CASE i # Len(pl[r]) + 1
      <4>1. i \in 1..Len(pl[r]) /\ i \in 2..Len(pl[r])
        BY <1>1, <1>5, <2>3, <3>2
      <4> QED
        BY <1>1, <1>5, <2>3, <4>1 DEF IsTree
    <3> QED
      BY <3>1, <3>2
  <2> QED
    BY <2>1, <2>2, <2>3
<1> HIDE DEF from, q, f
<1>9. ASSUME NEW u \in Spines, NEW v \in Spines,
             NEW i \in 1..Len(t[u]), NEW j \in 1..Len(t[v]),
             t[u][i].right # 0, t[u][i].right = t[v][j].right
      PROVE  u = v /\ i = j
  <2>1. /\ from(u, i) \in 1..Len(pl[u]) /\ t[u][i] = pl[u][from(u, i)]
        /\ from(v, j) \in 1..Len(pl[v]) /\ t[v][j] = pl[v][from(v, j)]
    BY <1>6, <1>9
  <2>2. u = v /\ from(u, i) = from(v, j)
    BY <1>1, <1>9, <2>1, SMTT(30) DEF IsTree
  <2> QED
    BY <1>7, <2>2
<1> QED
  BY <1>8, <1>9 DEF IsTree

LEMMA SinkStaysLast ==
  ASSUME NEW pl, GoodPlan(pl), NEW s \in Spines,
         NEW p \in 2..Len(pl[s]), IsFilter(pl[s][p]),
         NEW r \in Spines, r < s,
         NEW t \in [Spines -> Seq(Op)], t = SinkTo(pl, s, p, r)
  PROVE  UnionLast(t)
<1> DEFINE q == pl[s]
           f == q[p]
<1>0. r # s /\ r # Root
  BY SpineAssumption DEF Spines, Root
<1>1. pl \in [Spines -> Seq(Op)] /\ UnionLast(pl) /\ q \in Seq(Op) /\ Len(q) \in Nat
      /\ WellFormed(pl) /\ pl[r] \in Seq(Op) /\ Len(pl[r]) \in Nat /\ p \in 1..Len(q)
  BY DEF GoodPlan, Sound, FiltersInside
<1>2. f \in Op /\ ~Closes(f)
  BY <1>1, FilterShape, FilterIsInner
<1>3. /\ t[s] = Drop(q, p) /\ t[r] = Append(pl[r], f)
      /\ \A u \in Spines : u # s /\ u # r => t[u] = pl[u]
  <2> HIDE DEF f
  <2>1. t = [pl EXCEPT ![s] = Drop(@, p), ![r] = Append(@, f)]
    BY DEF SinkTo, f
  <2> QED
    BY ONLY <1>0, <1>1, <2>1
<1>4. /\ Len(t[s]) = Len(q) - 1
      /\ \A i \in 1..(p - 1) : t[s][i] = q[i]
      /\ \A i \in p..(Len(q) - 1) : t[s][i] = q[i + 1]
  <2> HIDE DEF q
  <2> QED
    BY <1>1, <1>3, DropFacts, ZenonT(30)
<1>5. /\ Len(t[r]) = Len(pl[r]) + 1 /\ t[r][Len(pl[r]) + 1] = f
      /\ \A i \in 1..Len(pl[r]) : t[r][i] = pl[r][i]
  <2> HIDE DEF f
  <2> QED
    BY <1>1, <1>2, <1>3, PutOnFacts
<1>6. \A i \in 1..Len(q) : Closes(q[i]) =>
         s = Root /\ i > p /\ \A j \in (i + 1)..Len(q) : ~IsFilter(q[j])
  <2> SUFFICES ASSUME NEW i \in 1..Len(q), Closes(q[i])
               PROVE  s = Root /\ i > p /\ \A j \in (i + 1)..Len(q) : ~IsFilter(q[j])
    OBVIOUS
  <2>1. s = Root /\ \A j \in (i + 1)..Len(q) : ~IsFilter(q[j])
    BY <1>1 DEF UnionLast
  <2>2. i # p
    BY <1>2
  <2>3. ~(p \in (i + 1)..Len(q))
    BY <2>1
  <2> QED
    BY <1>1, <2>1, <2>2, <2>3
<1> HIDE DEF f, q
<1>7. ASSUME NEW u \in Spines, NEW i \in 1..Len(t[u]), Closes(t[u][i])
      PROVE  u = Root /\ \A j \in (i + 1)..Len(t[u]) : ~IsFilter(t[u][j])
  <2>1. CASE u # s /\ u # r
    BY <1>1, <1>3, <1>7, <2>1 DEF UnionLast
  <2>2. CASE u = s
    <3>1. CASE i < p
      <4>1. i \in 1..(p - 1) /\ i \in 1..Len(q)
        BY <1>1, <3>1
      <4>2. Closes(q[i])
        BY <1>4, <1>7, <2>2, <4>1
      <4> QED
        BY <1>6, <3>1, <4>1, <4>2
    <3>2. CASE ~(i < p)
      <4>1. i \in p..(Len(q) - 1) /\ i + 1 \in 1..Len(q)
        BY <1>1, <1>4, <2>2, <3>2
      <4>2. Closes(q[i + 1])
        BY <1>4, <1>7, <2>2, <4>1
      <4>3. s = Root /\ \A j \in ((i + 1) + 1)..Len(q) : ~IsFilter(q[j])
        BY <1>6, <4>1, <4>2
      <4>4. ASSUME NEW j \in (i + 1)..Len(t[u])
            PROVE  ~IsFilter(t[u][j])
        <5>1. j \in p..(Len(q) - 1) /\ j + 1 \in ((i + 1) + 1)..Len(q)
          BY <1>1, <1>4, <2>2, <3>2
        <5> QED
          BY <1>4, <2>2, <4>3, <5>1
      <4> QED
        BY <2>2, <4>3, <4>4
    <3> QED
      BY <3>1, <3>2
  <2>3. CASE u = r
    <3>1. CASE i = Len(pl[r]) + 1
      BY <1>2, <1>5, <1>7, <2>3, <3>1
    <3>2. CASE i # Len(pl[r]) + 1
      <4>1. i \in 1..Len(pl[r])
        BY <1>1, <1>5, <2>3, <3>2
      <4>2. Closes(pl[r][i])
        BY <1>5, <1>7, <2>3, <4>1
      <4> QED
        BY <1>0, <1>1, <4>1, <4>2 DEF UnionLast
    <3> QED
      BY <3>1, <3>2
  <2> QED
    BY <2>1, <2>2, <2>3
<1> QED
  BY <1>7 DEF UnionLast

LEMMA SinkStaysRead ==
  ASSUME NEW pl, GoodPlan(pl), NEW s \in Spines,
         NEW p \in 2..Len(pl[s]), IsFilter(pl[s][p]), pl[s][p].used # {},
         NEW r \in Spines, r # s,
         NEW t \in [Spines -> Seq(Op)], t = SinkTo(pl, s, p, r)
  PROVE  GroupsRead(t)
<1> DEFINE q == pl[s]
           f == q[p]
           from(i) == IF i >= p THEN i + 1 ELSE i
<1>1. pl \in [Spines -> Seq(Op)] /\ GroupsRead(pl) /\ q \in Seq(Op) /\ Len(q) \in Nat
      /\ pl[r] \in Seq(Op) /\ Len(pl[r]) \in Nat /\ p \in 1..Len(q)
  BY DEF GoodPlan, Sound, FiltersInside
<1>2. f \in Op /\ f.used # {}
  BY <1>1
<1>3. /\ t[s] = Drop(q, p) /\ t[r] = Append(pl[r], f)
      /\ \A u \in Spines : u # s /\ u # r => t[u] = pl[u]
  <2> HIDE DEF f
  <2>1. t = [pl EXCEPT ![s] = Drop(@, p), ![r] = Append(@, f)]
    BY DEF SinkTo, f
  <2> QED
    BY ONLY <1>1, <2>1, r # s
<1>4. /\ Len(t[s]) = Len(q) - 1
      /\ \A i \in 1..(p - 1) : t[s][i] = q[i]
      /\ \A i \in p..(Len(q) - 1) : t[s][i] = q[i + 1]
  <2>1. q \in Seq(Op) /\ p \in 1..Len(q) /\ t[s] = Drop(q, p)
    BY <1>1, <1>3
  <2> HIDE DEF q
  <2> QED
    BY ONLY <2>1, DropFacts
<1>5. /\ Len(t[r]) = Len(pl[r]) + 1 /\ t[r][Len(pl[r]) + 1] = f
      /\ \A i \in 1..Len(pl[r]) : t[r][i] = pl[r][i]
  <2> HIDE DEF f
  <2> QED
    BY <1>1, <1>2, <1>3, PutOnFacts
<1>6. \A i \in 1..(Len(q) - 1) : from(i) \in 1..Len(q) /\ t[s][i] = q[from(i)]
  <2> TAKE i \in 1..(Len(q) - 1)
  <2>1. CASE i < p
    <3>1. i \in 1..(p - 1) /\ i \in 1..Len(q)
      BY <1>1, <2>1
    <3> QED
      BY <1>1, <1>4, <2>1, <3>1
  <2>2. CASE ~(i < p)
    <3>1. i \in p..(Len(q) - 1) /\ i + 1 \in 1..Len(q)
      BY <1>1, <2>2
    <3> QED
      BY <1>1, <1>4, <2>2, <3>1
  <2> QED
    BY <2>1, <2>2
<1>7. \A i, j \in 1..(Len(q) - 1) : i < j => from(i) < from(j)
  BY <1>1
<1> HIDE DEF from, q, f
<1>8. ASSUME NEW u \in Spines, NEW i \in 1..Len(t[u]), NEW j \in 1..Len(t[u]),
             OneGroup(t[u][i]), i < j, IsFilter(t[u][j])
      PROVE  t[u][j].used # {}
  <2>1. CASE u # s /\ u # r
    BY <1>1, <1>3, <1>8, <2>1 DEF GroupsRead
  <2>2. CASE u = s
    <3>1. i \in 1..(Len(q) - 1) /\ j \in 1..(Len(q) - 1)
      BY <1>4, <2>2
    <3>2. from(i) < from(j)
      BY <1>7, <1>8, <3>1
    <3> QED
      BY <1>1, <1>6, <1>8, <2>2, <3>1, <3>2 DEF GroupsRead, q
  <2>3. CASE u = r
    <3>1. CASE j = Len(pl[r]) + 1
      BY <1>2, <1>5, <2>3, <3>1
    <3>2. CASE j # Len(pl[r]) + 1
      <4>0. i \in 1..(Len(pl[r]) + 1) /\ j \in 1..(Len(pl[r]) + 1) /\ i < j
        BY <1>5, <1>8, <2>3
      <4>1. i \in 1..Len(pl[r]) /\ j \in 1..Len(pl[r])
        BY ONLY <1>1, <3>2, <4>0
      <4>2. OneGroup(pl[r][i]) /\ IsFilter(pl[r][j]) /\ t[u][j] = pl[r][j]
        BY <1>5, <1>8, <2>3, <4>1
      <4> QED
        BY <1>1, <1>8, <4>1, <4>2 DEF GroupsRead
    <3> QED
      BY <3>1, <3>2
  <2> QED
    BY <2>1, <2>2, <2>3
<1> QED
  BY <1>8 DEF GroupsRead

-----------------------------------------------------------------------------
(***************************************************************************)
(* The rows.  The invariant carries the shape of the plan: a rewrite keeps *)
(* it, and the lemmas above need it of the plan that is rewritten.         *)
(***************************************************************************)
RowsInv == ScopeInv /\ GoodPlan(plan) /\ RowsKept

LEMMA RowsKeptIs == RowsKept <=> SameRows(plan, prev)
  BY DEF RowsKept, EvalKept, SameRows, Past

LEMMA SlideRows ==
  ASSUME TypedMeaning, NEW pl, GoodPlan(pl),
         NEW s \in Spines, NEW p \in 2..Len(pl[s]),
         IsFilter(pl[s][p]), Slides(pl[s], p),
         NEW t, t = SlideTo(pl, s, p)
  PROVE  GoodPlan(t) /\ SameRows(t, pl)
<1>1. pl \in [Spines -> Seq(Op)] /\ Sound(pl) /\ pl[s] \in Seq(Op)
  BY DEF GoodPlan
<1>2. t \in [Spines -> Seq(Op)] /\ Sound(t)
  BY <1>1, SlideKeeps
<1>3. pl[s][p - 1].kind \in Promise!Transparent
  BY <1>1, SlidesShape DEF Promise!Transparent
<1>4. IsTree(t)
  BY <1>2, <1>3, SlideStaysTree
<1>5. FiltersInside(t)
  BY <1>2, SlideStaysLast, SlideStaysRead DEF FiltersInside
<1>6. /\ pl[s][p].used \subseteq Bound(pl[s], p - 2)
      /\ pl[s][p].used \cap Promise!Writes(pl[s][p - 1]) = {}
  BY <1>1, SlideScope
<1>7. WellFormed(t)
  BY <1>2 DEF Sound
<1>8. SameRows(t, pl)
  BY <1>3, <1>6, <1>7, <1>2, SwapKeepsRows
<1> QED
  BY <1>2, <1>4, <1>5, <1>8 DEF GoodPlan

LEMMA SinkRowsKept ==
  ASSUME TypedMeaning, NEW pl, GoodPlan(pl),
         NEW s \in Spines, NEW p \in 2..Len(pl[s]),
         IsFilter(pl[s][p]), GoesRight(pl, pl[s], p),
         NEW r, r = pl[s][p - 1].right,
         NEW t, t = SinkTo(pl, s, p, r)
  PROVE  GoodPlan(t) /\ SameRows(t, pl)
<1>1. pl \in [Spines -> Seq(Op)] /\ Sound(pl) /\ pl[s] \in Seq(Op)
  BY DEF GoodPlan
<1>2. /\ r \in 1..(s - 1) /\ r \in Spines /\ r # s
      /\ t \in [Spines -> Seq(Op)] /\ Sound(t)
  BY <1>1, SinkKeeps
<1>3. /\ pl[s][p - 1].kind = "Cartesian" /\ pl[s][p].used \subseteq BoundVars(pl[r])
      /\ pl[s][p].used # {}
  BY DEF GoesRight
<1>4. IsTree(t)
  BY <1>2, SinkStaysTree
<1>5. r < s
  BY <1>2 DEF Spines
<1>6. FiltersInside(t)
  BY <1>2, <1>3, <1>5, SinkStaysLast, SinkStaysRead DEF FiltersInside
<1>7. WellFormed(t)
  BY <1>2 DEF Sound
<1>8. SameRows(t, pl)
  BY <1>2, <1>3, <1>7, SinkKeepsRows
<1> QED
  BY <1>2, <1>4, <1>6, <1>8 DEF GoodPlan

LEMMA RowsInit ==
  ASSUME \A pl \in Inputs : IsTree(pl) /\ FiltersInside(pl), Init
  PROVE  RowsInv
<1>1. ScopeInv
  BY ScopeInit
<1>2. plan \in Inputs /\ prev = plan
  BY DEF Init
<1>3. GoodPlan(plan)
  BY <1>1, <1>2 DEF GoodPlan, ScopeInv, TypeOK
<1>4. SameRows(plan, prev)
  BY <1>2 DEF SameRows
<1> QED
  BY <1>1, <1>3, <1>4, RowsKeptIs DEF RowsInv

LEMMA RowsStep ==
  ASSUME TypedMeaning, RowsInv, [Next]_vars
  PROVE  RowsInv' /\ SameRows(plan', plan)
<1>1. ScopeInv /\ GoodPlan(plan) /\ SameRows(plan, prev) /\ TypeOK
  BY RowsKeptIs DEF RowsInv, ScopeInv
<1>2. ScopeInv'
  BY <1>1, ScopeStep
<1>3. GoodPlan(plan') /\ SameRows(plan', prev') /\ SameRows(plan', plan)
  <2>1. CASE Slide
    <3>1. PICK s, p, t : s = fly.sp /\ p = fly.pos /\ t = plan'
      OBVIOUS
    <3>2. /\ s \in Spines /\ p \in 2..Len(plan[s])
          /\ IsFilter(plan[s][p]) /\ Slides(plan[s], p)
      BY <1>1, <2>1, <3>1, InFlight DEF Slide
    <3>3. t = SlideTo(plan, s, p) /\ prev' = prev
      BY <2>1, <3>1 DEF Slide, SlideTo
    <3>4. GoodPlan(t) /\ SameRows(t, plan)
      BY <1>1, <3>2, <3>3, SlideRows, SMTT(30)
    <3> QED
      BY <1>1, <3>1, <3>3, <3>4 DEF SameRows
  <2>2. CASE Sink
    <3>1. PICK s, p, r, t : s = fly.sp /\ p = fly.pos /\ r = plan[s][p - 1].right /\ t = plan'
      BY SMTT(30)
    <3>2. /\ s \in Spines /\ p \in 2..Len(plan[s])
          /\ IsFilter(plan[s][p]) /\ GoesRight(plan, plan[s], p)
      BY <1>1, <2>2, <3>1, InFlight, ZenonT(30) DEF Sink
    <3>3. t = SinkTo(plan, s, p, r) /\ r = plan[s][p - 1].right /\ prev' = prev
      BY <2>2, <3>1 DEF Sink, SinkTo
    <3>4. GoodPlan(t) /\ SameRows(t, plan)
      BY <1>1, <3>2, <3>3, SinkRowsKept
    <3> QED
      BY <1>1, <3>1, <3>3, <3>4 DEF SameRows
  <2>3. CASE Again
    BY <1>1, <2>3 DEF Again, SameRows
  <2>4. CASE ~Slide /\ ~Sink /\ ~Again
    <3>1. plan' = plan /\ prev' = prev
      BY <2>4 DEF Next, Work, Returned, vars, Visit, PickUp, Rest, NextSpine, Finish
    <3> QED
      BY <1>1, <3>1 DEF SameRows
  <2> QED
    BY <2>1, <2>2, <2>3, <2>4
<1>4. RowsKept'
  BY <1>3 DEF SameRows, RowsKept, EvalKept, Past
<1> QED
  BY <1>2, <1>3, <1>4 DEF RowsInv

(* Whatever the graph and the predicates, and however long the plan: no    *)
(* rewrite of optimize changes the rows a plan returns, nor the rows that  *)
(* any operator which selects, writes or combines rows is reached by.      *)
THEOREM RowsAreKept ==
  ASSUME TypedMeaning, \A pl \in Inputs : IsTree(pl) /\ FiltersInside(pl)
  PROVE  Spec => []RowsKept
<1>1. Init => RowsInv
  BY RowsInit
<1>2. RowsInv /\ [Next]_vars => RowsInv'
  BY RowsStep
<1>3. RowsInv => RowsKept
  BY DEF RowsInv
<1> QED
  BY <1>1, <1>2, <1>3, PTL DEF Spec
=============================================================================
