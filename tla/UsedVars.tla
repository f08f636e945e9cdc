------------------------------ MODULE UsedVars ------------------------------
(***************************************************************************)
(* used_vars, src/src/optimize.rs: the variables an expression reads, on   *)
(* which it depends where a filter may go.  prune.rs has the same walk.    *)
(*                                                                         *)
(* walk_expr calls itself for every part and collects into the set it is   *)
(* given; for parts in a scope of their own it collects into a new, local  *)
(* set, takes the names of the scope out and adds the rest.                *)
(*   expr    the expression                                                *)
(*   agenda  what the open calls still have to do, innermost call first    *)
(*   sets    the sets being collected, the innermost last                  *)
(***************************************************************************)
EXTENDS Expressions, FiniteSets

CONSTANTS Vars,    \* names of variables
          Inputs   \* the expressions walked

VARIABLES expr, agenda, sets

vars == <<expr, agenda, sets>>

-----------------------------------------------------------------------------
Task(do, what, names) == [do |-> do, what |-> what, names |-> names]

Walk(e)       == Task("walk", e, {})
OpenLocal     == Task("open", Constant, {})
Close(names)  == Task("close", Constant, names)
Insert(names) == Task("insert", Constant, names)

Walks(parts) == [i \in 1..Len(parts) |-> Walk(parts[i])]

Depth == Len(sets)

Current == Head(agenda)

AddTo(n, names) == [sets EXCEPT ![n] = @ \cup names]

-----------------------------------------------------------------------------
Walking(kinds) ==
  agenda # <<>> /\ Current.do = "walk" /\ Current.what.kind \in kinds

ReadVariable ==
  /\ Walking({"Variable"})
  /\ sets' = AddTo(Depth, Current.what.names)
  /\ agenda' = Tail(agenda)
  /\ UNCHANGED expr

Descend ==
  /\ Walking({"Composed"})
  /\ agenda' = Walks(Current.what.outer) \o Tail(agenda)
  /\ UNCHANGED <<expr, sets>>

(* Bug: the source of a comprehension is walked in its scope.              *)
BugEnterScope ==
  /\ Walking(Scoping)
  /\ agenda' = <<OpenLocal>> \o Walks(Current.what.outer) \o Walks(Current.what.inner)
                 \o <<Close(Current.what.names)>> \o Tail(agenda)
  /\ UNCHANGED <<expr, sets>>

EnterScope ==
  /\ Walking(Scoping)
  /\ agenda' = Walks(Current.what.outer)
                 \o <<OpenLocal>> \o Walks(Current.what.inner)
                 \o <<Close(Current.what.names)>> \o Tail(agenda)
  /\ UNCHANGED <<expr, sets>>

(* A pattern as a condition reads its properties and all of its names.     *)
EnterPattern ==
  /\ Walking({"PatternExpression"})
  /\ agenda' = Walks(Current.what.outer) \o <<Insert(Current.what.names)>>
                 \o Tail(agenda)
  /\ UNCHANGED <<expr, sets>>

Doing(do) == agenda # <<>> /\ Current.do = do

InsertNames ==
  /\ Doing("insert")
  /\ sets' = AddTo(Depth, Current.names)
  /\ agenda' = Tail(agenda)
  /\ UNCHANGED expr

StartLocal ==
  /\ Doing("open")
  /\ sets' = Append(sets, {})
  /\ agenda' = Tail(agenda)
  /\ UNCHANGED expr

(* Bug: the local set is never merged into the one around it.              *)
BugEndLocalStays ==
  /\ Doing("close")
  /\ sets' = [sets EXCEPT ![Depth] = @ \ Current.names]
  /\ agenda' = Tail(agenda)
  /\ UNCHANGED expr

(* Bug: the names leave the set around the scope, too.                     *)
BugEndLocal ==
  /\ Doing("close")
  /\ sets' = [n \in 1..(Depth - 1) |->
                IF n = Depth - 1 THEN (sets[n] \cup sets[Depth]) \ Current.names
                ELSE sets[n]]
  /\ agenda' = Tail(agenda)
  /\ UNCHANGED expr

EndLocal ==
  /\ Doing("close")
  /\ sets' = [n \in 1..(Depth - 1) |->
                IF n = Depth - 1 THEN sets[n] \cup (sets[Depth] \ Current.names)
                ELSE sets[n]]
  /\ agenda' = Tail(agenda)
  /\ UNCHANGED expr

Done == agenda = <<>>

Returned == Done /\ UNCHANGED vars

Work ==
  \/ ReadVariable \/ Descend \/ EnterScope \/ EnterPattern
  \/ InsertNames \/ StartLocal \/ EndLocal

Next == Work \/ Returned

Init ==
  /\ expr \in Inputs
  /\ agenda = <<Walk(expr)>>
  /\ sets = <<{}>>

Spec == Init /\ [][Next]_vars /\ WF_vars(Work)

-----------------------------------------------------------------------------
(* What is collected are variables, and every local set that is open has   *)
(* its scope still to be closed: in the end one set is left.               *)
Pending(do) == Cardinality({i \in 1..Len(agenda) : agenda[i].do = do})

TypeOK ==
  /\ sets \in Seq(SUBSET Vars)
  /\ Depth = 1 + Pending("close") - Pending("open")

(* What was found for a set is never lost again, whatever scopes are       *)
(* closed inside of it.                                                    *)
NothingForgotten ==
  [][\A n \in 1..Depth : n <= Len(sets') => sets[n] \subseteq sets'[n]]_vars
=============================================================================
