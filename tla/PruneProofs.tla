---------------------------- MODULE PruneProofs -----------------------------
(***************************************************************************)
(* What is demanded of an operator exists in its input, for every plan     *)
(* whose operators read what their input has, and every demand.            *)
(***************************************************************************)
EXTENDS Prune, TLAPS

(* The columns above an operator: those it gives, and those below it       *)
(* unless it hides them.                                                   *)
LEMMA OutputStep ==
  ASSUME NEW q \in Seq(Op), NEW p \in 1..Len(q), NEW v \in Output(q, p),
         v \notin q[p].intro
  PROVE  ~HidesInput(q[p]) /\ v \in Output(q, p - 1)
<1>1. PICK j \in 1..p : /\ v \in q[j].intro /\ q[j].kind # "Union"
                        /\ \A k \in (j + 1)..p : ~HidesInput(q[k])
  BY DEF Output
<1>2. j \in 1..(p - 1) /\ v \in Vars
  BY <1>1 DEF Output
<1>3. p \in (j + 1)..p /\ (j + 1)..(p - 1) \subseteq (j + 1)..p
  BY <1>2
<1> QED BY <1>1, <1>2, <1>3 DEF Output

LEMMA OutputIsVars ==
  ASSUME NEW q, NEW n
  PROVE  Output(q, n) \subseteq Vars
  BY DEF Output

(* A projection: what passes its star is in the input, and so is what its  *)
(* items read.                                                             *)
LEMMA ProjectExists ==
  ASSUME NEW op, NEW D, NEW below, Reads(op.parts) \subseteq below,
         op.keep => D \ op.intro \subseteq below
  PROVE  RequiredByProject(op, D, below) \subseteq below
<1> DEFINE wanted == {i \in 1..Len(op.parts) :
                        \/ op.parts[i].names = {} \/ D = {}
                        \/ op.parts[i].names \cap D # {}}
           kept   == IF ~op.keep THEN {} ELSE IF D = {} THEN below ELSE D
<1>1. UNION {op.parts[i].reads : i \in wanted} \subseteq Reads(op.parts)
  BY DEF Reads
<1>2. kept \ op.intro \subseteq below
  OBVIOUS
<1>3. RequiredByProject(op, D, below) =
        (kept \ op.intro) \cup UNION {op.parts[i].reads : i \in wanted}
  BY DEF RequiredByProject
<1> HIDE DEF wanted, kept
<1> QED BY <1>1, <1>2, <1>3

(* The patterns of a CREATE read what all of them read.                    *)
LEMMA CreateExists ==
  ASSUME NEW op, NEW D, NEW below, Reads(op.parts) \subseteq below,
         D \ op.intro \subseteq below
  PROVE  RequiredByCreate(op, D) \subseteq below
  BY DEF RequiredByCreate, Reads

(* required_input_columns asks the input for columns it has.               *)
LEMMA RequiredExists ==
  ASSUME NEW pl \in [Spines -> Seq(Op)], NEW s \in Spines,
         NEW p \in 1..Len(pl[s]), NEW D \in SUBSET Output(pl[s], p),
         WellFormedOp(s, pl[s][p]), ReadsColumns(pl, s, p),
         pl[s][p].kind \notin Joining
  PROVE  Required(pl, s, p, D) \subseteq Output(pl[s], p - 1)
<1> DEFINE op  == pl[s][p]
           has == Output(pl[s], p - 1)
<1>1. op \in Op
  OBVIOUS
<1>2. D \ op.intro \subseteq has
  BY OutputStep
<1>3. op.used \subseteq has
  BY DEF ReadsColumns
<1>4. op.kind \notin BindingKinds => D \subseteq has
  BY <1>2 DEF WellFormedOp
<1>5. CASE op.kind \in LeafKinds
  BY <1>5 DEF Required, BindingKindsOfRows, LeafKinds, ReadingKinds
<1>6. CASE op.kind \in ReadingKinds
  <2>1. op.kind \notin BindingKinds /\ op.kind \notin LeafKinds
    BY <1>6 DEF ReadingKinds, BindingKinds, LeafKinds
  <2>2. Required(pl, s, p, D) = D \cup op.used
    BY <1>6 DEF Required, BindingKindsOfRows, LeafKinds, ReadingKinds
  <2> QED BY <2>1, <2>2, <1>3, <1>4
<1>7. CASE op.kind \in BindingKindsOfRows
  <2>1. Required(pl, s, p, D) = (D \ op.intro) \cup op.used
    BY <1>7 DEF Required, BindingKindsOfRows, LeafKinds, ReadingKinds
  <2> QED BY <2>1, <1>2, <1>3
<1>8. CASE op.kind = "Project"
  <2>1. Required(pl, s, p, D) = RequiredByProject(op, D, has)
    BY <1>8 DEF Required, BindingKindsOfRows, LeafKinds, ReadingKinds
  <2>2. Reads(op.parts) \subseteq has
    BY <1>8 DEF ReadsColumns
  <2> HIDE DEF op, has
  <2> QED BY <2>1, <2>2, <1>2, ProjectExists DEF has
<1>9. CASE op.kind = "Create"
  <2>1. Required(pl, s, p, D) = RequiredByCreate(op, D)
    BY <1>9 DEF Required, BindingKindsOfRows, LeafKinds, ReadingKinds
  <2>2. Reads(op.parts) \subseteq has
    BY <1>9 DEF ReadsColumns
  <2> HIDE DEF op, has
  <2> QED BY <2>1, <2>2, <1>2, CreateExists DEF has
<1>10. CASE op.kind = "Merge"
  <2>1. Required(pl, s, p, D) = (D \cup Reads(op.parts)) \ op.intro
    BY <1>10 DEF Required, BindingKindsOfRows, LeafKinds, ReadingKinds
  <2>2. Reads(op.parts) \subseteq has \cup op.intro
    BY <1>10 DEF ReadsColumns
  <2> QED BY <2>1, <2>2, <1>2
<1>11. CASE op.kind = "Start"
  <2>1. Required(pl, s, p, D) = (D \cup op.used) \ op.intro
    BY <1>11 DEF Required, BindingKindsOfRows, LeafKinds, ReadingKinds
  <2> QED BY <2>1, <1>2, <1>3
<1>12. CASE op.kind = "Foreach"
  <2>1. Required(pl, s, p, D) = RequiredByForeach(pl, op, D)
    BY <1>12 DEF Required, BindingKindsOfRows, LeafKinds, ReadingKinds
  <2>2. UsedIn(pl, op.right) \subseteq
          has \cup Names(op.parts) \cup Produced(pl[op.right])
    BY <1>12 DEF ReadsColumns
  <2>3. D \subseteq has
    BY <1>4, <1>12 DEF BindingKinds
  <2> QED BY <2>1, <2>2, <2>3, <1>3 DEF RequiredByForeach
<1>13. CASE op.kind \in {"ShortestPath", "PlannerHint", "PeriodicCommit",
                         "Explain", "Profile", "Distinct"}
  <2>1. Required(pl, s, p, D) = D
    BY <1>13 DEF Required, BindingKindsOfRows, LeafKinds, ReadingKinds
  <2>2. op.kind \notin BindingKinds
    BY <1>13 DEF BindingKinds
  <2> QED BY <2>1, <2>2, <1>4
<1>14. op.kind \in LeafKinds \cup ReadingKinds \cup BindingKindsOfRows
         \cup {"Project", "Create", "Merge", "Start", "Foreach"}
         \cup {"ShortestPath", "PlannerHint", "PeriodicCommit", "Explain",
               "Profile", "Distinct"}
  <2>1. op.kind \in Kinds
    BY <1>1 DEF Op
  <2> QED BY <2>1 DEF Kinds, LeafKinds, UnaryKinds, BinaryKinds, Joining,
                      ReadingKinds, BindingKindsOfRows
<1> HIDE DEF op, has
<1> QED BY <1>5, <1>6, <1>7, <1>8, <1>9, <1>10, <1>11, <1>12, <1>13, <1>14
        DEF has

-----------------------------------------------------------------------------
(* The invariant: the plan is one the planner makes, no operator reads     *)
(* what its input does not have, and what was asked so far exists.         *)
Inv ==
  /\ TypeOK
  /\ WellFormed(plan)
  /\ ReadsAreColumns(plan)
  /\ SupplyExists

LEMMA InitInv == Init => Inv
<1> SUFFICES ASSUME Init PROVE Inv
  OBVIOUS
<1>1. PICK q \in Questions :
        /\ WellFormed(q.plan) /\ ReadsAreColumns(q.plan)
        /\ q.asked \subseteq Columns(q.plan[Root])
        /\ plan = q.plan
        /\ supply = [s \in Spines |-> [n \in 0..Len(q.plan[s]) |->
                       IF s = Root /\ n = Len(q.plan[s]) THEN q.asked ELSE {}]]
  BY DEF Init
<1>2. plan \in [Spines -> Seq(Op)] /\ q.asked \in SUBSET Vars
  <2>1. q \in [plan : [Spines -> Seq(Op)], asked : SUBSET Vars]
    BY QuestionsAssumption
  <2> QED BY <2>1, <1>1
<1>3. Root \in Spines /\ Spines \subseteq Nat /\ Root \in 0..NumSpines
  BY SpineAssumption DEF Root, Spines
<1>4. \A s \in Spines : Len(plan[s]) \in Nat
  BY <1>2
<1>5. TypeOK
  <2>1. \A s \in Spines : supply[s] \in [0..Len(plan[s]) -> SUBSET Vars]
    BY <1>1, <1>2
  <2>2. cur = Root /\ at = Len(plan[Root])
    BY DEF Init
  <2> QED BY <1>1, <1>2, <1>3, <1>4, <2>1, <2>2 DEF TypeOK
<1>6. SupplyExists
  <2> SUFFICES ASSUME NEW s \in Spines, NEW n \in 0..Len(plan[s])
               PROVE  supply[s][n] \subseteq Output(plan[s], n)
    BY DEF SupplyExists
  <2>1. supply[s][n] = IF s = Root /\ n = Len(plan[s]) THEN q.asked ELSE {}
    BY <1>1
  <2> QED BY <2>1, <1>1 DEF Columns
<1> QED BY <1>1, <1>5, <1>6 DEF Inv

LEMMA StepInv == Inv /\ [Next]_vars => Inv'
<1> SUFFICES ASSUME Inv, [Next]_vars PROVE Inv'
  OBVIOUS
<1>0. /\ plan \in [Spines -> Seq(Op)]
      /\ DOMAIN supply = Spines
      /\ \A s \in Spines : supply[s] \in [0..Len(plan[s]) -> SUBSET Vars]
      /\ \A s \in Spines : Len(plan[s]) \in Nat
      /\ cur \in 0..NumSpines /\ at \in Nat
      /\ cur \in Spines => at <= Len(plan[cur])
      /\ Spines = 1..NumSpines /\ NumSpines \in Nat
  BY SpineAssumption DEF Inv, TypeOK, Spines
<1>1. CASE Ask
  <2> DEFINE D == Required(plan, cur, at, supply[cur][at])
  <2>1. cur \in Spines /\ at \in 1..Len(plan[cur]) /\ ~IsBody(plan, cur)
    BY <1>1 DEF Ask, Asking
  <2>2. D \subseteq Output(plan[cur], at - 1)
    <3>1. WellFormedOp(cur, plan[cur][at]) /\ ReadsColumns(plan, cur, at)
      BY <2>1 DEF Inv, WellFormed, ReadsAreColumns
    <3>2. supply[cur][at] \in SUBSET Output(plan[cur], at)
      BY <2>1, <1>0 DEF Inv, SupplyExists
    <3>3. plan[cur][at].kind \notin Joining
      BY <1>1 DEF Ask
    <3> QED BY <3>1, <3>2, <3>3, <2>1, <1>0, RequiredExists
  <2>3. D \in SUBSET Vars
    BY <2>2, OutputIsVars
  <2> HIDE DEF D
  <2>4. /\ supply' = [supply EXCEPT ![cur][at - 1] = D]
        /\ at' = at - 1 /\ UNCHANGED <<plan, cur>>
    BY <1>1 DEF Ask, D
  <2>5. at - 1 \in 0..Len(plan[cur])
    BY <2>1, <1>0
  <2>6. TypeOK'
    BY <2>1, <2>3, <2>4, <2>5, <1>0 DEF TypeOK
  <2>7. SupplyExists'
    BY <2>1, <2>2, <2>4, <2>5, <1>0 DEF Inv, SupplyExists
  <2> QED BY <2>4, <2>6, <2>7 DEF Inv
<1>2. CASE Split
  <2> DEFINE r == plan[cur][at].right
             D == Required(plan, cur, at, supply[cur][at])
             own   == D \cap Output(plan[cur], at - 1)
             other == D \cap Columns(plan[r])
  <2>1. cur \in Spines /\ at \in 1..Len(plan[cur])
    BY <1>2 DEF Split, Asking
  <2>2. r \in 1..(cur - 1)
    <3>1. plan[cur][at].kind \in BinaryKinds
      BY <1>2 DEF Split, Joining, BinaryKinds
    <3> QED BY <3>1, <2>1 DEF Inv, WellFormed, WellFormedOp
  <2>3. r \in Spines /\ r # cur
    BY <2>1, <2>2, <1>0
  <2>4. own \in SUBSET Vars /\ other \in SUBSET Vars
    BY OutputIsVars DEF Columns
  <2>5. own \subseteq Output(plan[cur], at - 1)
        /\ other \subseteq Output(plan[r], Len(plan[r]))
    BY DEF Columns
  <2>6. /\ supply' = [supply EXCEPT ![cur][at - 1] = own, ![r][Len(plan[r])] = other]
        /\ at' = at - 1 /\ UNCHANGED <<plan, cur>>
    BY <1>2 DEF Split
  <2> HIDE DEF r, D, own, other
  <2>7. at - 1 \in 0..Len(plan[cur]) /\ Len(plan[r]) \in 0..Len(plan[r])
    BY <2>1, <2>3, <1>0
  <2>8. TypeOK'
    <3>1. DOMAIN supply' = Spines
      BY <2>6, <1>0
    <3>2. ASSUME NEW s \in Spines
          PROVE  supply'[s] \in [0..Len(plan[s]) -> SUBSET Vars]
      <4>1. CASE s = cur BY <4>1, <2>1, <2>3, <2>4, <2>6, <2>7, <1>0
      <4>2. CASE s = r BY <4>2, <2>1, <2>3, <2>4, <2>6, <2>7, <1>0
      <4>3. CASE s # cur /\ s # r BY <4>3, <2>6, <1>0
      <4> QED BY <4>1, <4>2, <4>3
    <3>3. at' \in Nat /\ at' <= Len(plan[cur])
      BY <2>1, <2>6, <1>0
    <3> QED BY <3>1, <3>2, <3>3, <2>6, <1>0 DEF TypeOK
  <2>9. SupplyExists'
    BY <2>1, <2>3, <2>5, <2>6, <2>7, <1>0 DEF Inv, SupplyExists
  <2> QED BY <2>6, <2>8, <2>9 DEF Inv
<1>3. CASE NextInput
  <2>1. /\ cur \in Spines /\ cur' = cur - 1 /\ UNCHANGED <<plan, supply>>
        /\ at' = IF cur = 1 THEN 0 ELSE Len(plan[cur - 1])
    BY <1>3 DEF NextInput
  <2>2. TypeOK'
    <3>1. cur' \in 0..NumSpines
      BY <2>1, <1>0
    <3>2. at' \in Nat
      <4>1. CASE cur = 1 BY <4>1, <2>1
      <4>2. CASE cur # 1
        <5>1. cur - 1 \in Spines BY <4>2, <2>1, <1>0
        <5> QED BY <5>1, <4>2, <2>1, <1>0
      <4> QED BY <4>1, <4>2
    <3>3. cur' \in Spines => at' <= Len(plan'[cur'])
      <4>1. CASE cur = 1 BY <4>1, <2>1, <1>0
      <4>2. CASE cur # 1
        <5>1. cur - 1 \in Spines BY <4>2, <2>1, <1>0
        <5>2. at' = Len(plan'[cur']) /\ at' \in Nat BY <5>1, <4>2, <2>1, <1>0
        <5> QED BY <5>2
      <4> QED BY <4>1, <4>2
    <3> QED BY <3>1, <3>2, <3>3, <2>1, <1>0 DEF TypeOK
  <2> QED BY <2>1, <2>2 DEF Inv, SupplyExists
<1>4. CASE UNCHANGED vars
  BY <1>4 DEF Inv, TypeOK, SupplyExists, vars
<1> QED BY <1>1, <1>2, <1>3, <1>4 DEF Next, Work, Answered

(* Every demand on the way down the plan is a set of variables with its    *)
(* place in it: the call on an operator and the calls on its inputs.       *)
THEOREM DemandsAreTyped == Spec => []TypeOK
<1>1. Inv => TypeOK BY DEF Inv
<1> QED BY InitInv, StepInv, <1>1, PTL DEF Spec

(* required_input_columns never asks an input for a column that            *)
(* output_columns does not list.                                           *)
THEOREM DemandExists == Spec => []SupplyExists
<1>1. Inv => SupplyExists BY DEF Inv
<1> QED BY InitInv, StepInv, <1>1, PTL DEF Spec
=============================================================================
