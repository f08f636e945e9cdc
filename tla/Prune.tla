------------------------------- MODULE Prune --------------------------------
(***************************************************************************)
(* Projection pruning, src/src/prune.rs: which columns the rows of a plan  *)
(* have, output_columns, and which of them the input of an operator must   *)
(* supply for what is demanded of the operator, required_input_columns.    *)
(*                                                                         *)
(* "Executors call this recursively to compute per-op input schemas": the  *)
(* walk is down a spine, from what is asked of the query, and into the     *)
(* second input of a join with what the join's own demand leaves for it.   *)
(*   plan     the plan, which is not changed                               *)
(*   supply   for each spine, the columns demanded above its first n       *)
(*            operators, for every n                                       *)
(*   cur, at  the operator asked next                                      *)
(***************************************************************************)
EXTENDS Plans

CONSTANT Questions   \* plans, each with the columns asked of its rows

ASSUME QuestionsAssumption ==
  Questions \subseteq [plan : [Spines -> Seq(Op)], asked : SUBSET Vars]

VARIABLES plan, supply, cur, at

vars == <<plan, supply, cur, at>>

-----------------------------------------------------------------------------
(* output_columns of the first n operators of the spine q.  A UNION has    *)
(* the columns of its first branch.                                        *)
Output(q, n) ==
  {v \in Vars : \E j \in 1..n :
                   /\ v \in q[j].intro /\ q[j].kind # "Union"
                   /\ \A k \in (j + 1)..n : ~HidesInput(q[k])}

Columns(q) == Output(q, Len(q))

(* Definitions named a bug are what the code could get wrong; nothing uses *)
(* them, and the properties of this module tell them apart.                *)
(* Bug: a star supplies what the items give, too.                          *)
BugRequiredByProject(op, D, below) ==
  (IF op.keep THEN IF D = {} THEN below ELSE D ELSE {})
    \cup Reads(SelectSeq(op.parts,
                         LAMBDA p : p.names = {} \/ D = {} \/ p.names \cap D # {}))

(* Project: the items that are demanded, or give no name; every item if    *)
(* nothing is demanded; and, of a star, what no item gives.                *)
RequiredByProject(op, D, below) ==
  LET whole  == D = {}
      kept   == IF ~op.keep THEN {} ELSE IF whole THEN below ELSE D
      wanted == {i \in 1..Len(op.parts) :
                   \/ op.parts[i].names = {} \/ whole
                   \/ op.parts[i].names \cap D # {}}
  IN  (kept \ op.intro) \cup UNION {op.parts[i].reads : i \in wanted}

(* Create: pattern after pattern, its names out, what it reads in: a read  *)
(* stays unless the same or a later pattern gives the name.                *)
RequiredByCreate(op, D) ==
  LET stays(v, i) ==
        \A j \in 1..Len(op.parts) : j > i => v \notin op.parts[j].names
  IN  (D \ op.intro)
        \cup {v \in Vars : \E i \in 1..Len(op.parts) :
                              v \in op.parts[i].reads /\ stays(v, i)}

(* walk_update_dependencies of the body of a Foreach, from its top down to *)
(* an operator that updates nothing: what it reads, and what it makes.     *)
UpdateKinds == {"Create", "Merge", "Set", "Remove", "Delete", "Foreach"}

Walked(q) == {i \in 1..Len(q) : \A j \in i..Len(q) : q[j].kind \in UpdateKinds}

Produced(q) ==
  UNION {q[i].intro : i \in {k \in Walked(q) : q[k].kind \in {"Create", "Merge"}}}

UsedIn(pl, body) ==
  LET U[s \in Spines] ==
        LET q == pl[s]
            reads(i) ==
              CASE q[i].kind \in {"Create", "Merge"} -> Reads(q[i].parts)
                [] q[i].kind = "Foreach" ->
                     q[i].used \cup ((U[q[i].right] \ Names(q[i].parts))
                                       \ Produced(pl[q[i].right]))
                [] OTHER -> q[i].used
        IN  UNION {reads(i) : i \in Walked(q)}
  IN  U[body]

RequiredByForeach(pl, op, D) ==
  ((D \cup op.used \cup UsedIn(pl, op.right)) \ Names(op.parts))
    \ Produced(pl[op.right])

(* required_input_columns for operators that read, for those that also     *)
(* bind, and for those that do neither.                                    *)
ReadingKinds ==
  {"Filter", "PropertyMapFilter", "Sort", "Skip", "Limit", "Set", "Remove", "Delete"}

BindingKindsOfRows == {"Expand", "ProcedureCall", "LoadCsv", "Unwind", "NamedPath"}

(* Bug: the operators that change no row supply what is demanded of them.  *)
BugRequiredUnread(pl, s, p, D) ==
  LET op == pl[s][p]
  IN  CASE op.kind \in LeafKinds -> {}
        [] op.kind = "Project" -> RequiredByProject(op, D, Output(pl[s], p - 1))
        [] op.kind \in {"Set", "Remove", "Delete", "Sort"} -> D
        [] OTHER -> (D \ op.intro) \cup op.used

Required(pl, s, p, D) ==
  LET op == pl[s][p]
      k  == op.kind
  IN
  CASE k \in LeafKinds          -> {}
    [] k \in ReadingKinds       -> D \cup op.used
    [] k \in BindingKindsOfRows -> (D \ op.intro) \cup op.used
    [] k = "Project" -> RequiredByProject(op, D, Output(pl[s], p - 1))
    [] k = "Create"  -> RequiredByCreate(op, D)
    [] k = "Merge"   -> (D \cup Reads(op.parts)) \ op.intro
    [] k = "Start"   -> (D \cup op.used) \ op.intro
    [] k = "Foreach" -> RequiredByForeach(pl, op, D)
    [] OTHER         -> D

-----------------------------------------------------------------------------
(* The body of a Foreach updates the graph, nothing asks for its rows.     *)
IsBody(pl, s) ==
  \E t \in Spines : \E i \in 1..Len(pl[t]) :
     pl[t][i].kind = "Foreach" /\ pl[t][i].right = s

Joining == {"Cartesian", "Optional", "Union"}

Asking ==
  /\ cur \in Spines /\ ~IsBody(plan, cur)
  /\ at \in 1..Len(plan[cur])

(* The input of an operator is asked for what the operator requires.       *)
Ask ==
  /\ Asking /\ plan[cur][at].kind \notin Joining
  /\ supply' = [supply EXCEPT ![cur][at - 1] =
                  Required(plan, cur, at, supply[cur][at])]
  /\ at' = at - 1
  /\ UNCHANGED <<plan, cur>>

(* Bug: only the first input of a join is asked.                           *)
BugSplit ==
  /\ Asking /\ plan[cur][at].kind \in Joining
  /\ supply' = [supply EXCEPT ![cur][at - 1] =
                  Required(plan, cur, at, supply[cur][at])
                    \cap Output(plan[cur], at - 1)]
  /\ at' = at - 1
  /\ UNCHANGED <<plan, cur>>

(* "Both branches see the same outer demand, restricted to variables that  *)
(* branch's subtree actually exposes": the caller splits it.               *)
Split ==
  /\ Asking /\ plan[cur][at].kind \in Joining
  /\ LET r == plan[cur][at].right
         D == Required(plan, cur, at, supply[cur][at])
     IN  supply' = [supply EXCEPT
                      ![cur][at - 1] = D \cap Output(plan[cur], at - 1),
                      ![r][Len(plan[r])] = D \cap Columns(plan[r])]
  /\ at' = at - 1
  /\ UNCHANGED <<plan, cur>>

(* Bug: the walk goes on at the height of the spine it leaves.             *)
BugNextInput ==
  /\ cur \in Spines
  /\ at = 0 \/ IsBody(plan, cur)
  /\ cur' = cur - 1
  /\ at' = Len(plan[cur])
  /\ UNCHANGED <<plan, supply>>

(* The bottom of a spine: on to a second input.                            *)
NextInput ==
  /\ cur \in Spines
  /\ at = 0 \/ IsBody(plan, cur)
  /\ cur' = cur - 1
  /\ at' = IF cur = 1 THEN 0 ELSE Len(plan[cur - 1])
  /\ UNCHANGED <<plan, supply>>

Done == cur = 0

Answered == Done /\ UNCHANGED vars

Work == Ask \/ Split \/ NextInput

Next == Work \/ Answered

-----------------------------------------------------------------------------
(* What the planner makes sure of: operators read what their input has.    *)
(* Left out are CREATEs with a pattern that reads what another one gives:  *)
(* required_input_columns asks the input for it.                           *)
ReadsColumns(pl, s, p) ==
  LET op  == pl[s][p]
      has == Output(pl[s], p - 1)
  IN  /\ op.used \subseteq has
      /\ op.kind \in {"Project", "Create"} => Reads(op.parts) \subseteq has
      /\ op.kind = "Merge" => Reads(op.parts) \subseteq has \cup op.intro
      /\ op.kind = "Foreach" =>
           UsedIn(pl, op.right) \subseteq
             has \cup Names(op.parts) \cup Produced(pl[op.right])

ReadsAreColumns(pl) ==
  \A s \in Spines : ~IsBody(pl, s) =>
     \A p \in 1..Len(pl[s]) : ReadsColumns(pl, s, p)

Init ==
  /\ \E q \in Questions :
       /\ WellFormed(q.plan) /\ ReadsAreColumns(q.plan)
       /\ q.asked \subseteq Columns(q.plan[Root])
       /\ plan = q.plan
       /\ supply = [s \in Spines |-> [n \in 0..Len(q.plan[s]) |->
                      IF s = Root /\ n = Len(q.plan[s]) THEN q.asked ELSE {}]]
  /\ cur = Root
  /\ at = Len(plan[Root])

Spec == Init /\ [][Next]_vars /\ WF_vars(Work)

-----------------------------------------------------------------------------
TypeOK ==
  /\ plan \in [Spines -> Seq(Op)]
  /\ DOMAIN supply = Spines
  /\ \A s \in Spines : supply[s] \in [0..Len(plan[s]) -> SUBSET Vars]
  /\ cur \in 0..NumSpines
  /\ at \in Nat
  /\ cur \in Spines => at <= Len(plan[cur])

(* Nothing is asked of an input that the input does not have: an executor  *)
(* that takes the answer for a schema finds all of its columns.            *)
SupplyExists ==
  \A s \in Spines : \A n \in 0..Len(plan[s]) :
     supply[s][n] \subseteq Output(plan[s], n)
=============================================================================
