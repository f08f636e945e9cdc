----------------------------- MODULE MCPipeline -----------------------------
(***************************************************************************)
(* Queries for analyzing, planning and optimizing: all of MCPlanner, and   *)
(* those with one more clause and a WHERE to push.                         *)
(***************************************************************************)
EXTENDS Pipeline, Agreement, SemaReport, MCPlanner

(* A MATCH, one more clause, a WHERE where it may stand, and a RETURN.     *)
WhereLast ==
  LET wheres == {Reading("Where", {"a"}), Reading("Where", {"b"}),
                 Reading("Where", {"a", "b"}), Reading("Where", {})}
  IN  Asked({<<m, c, w>> \o t : m \in MatchClauses, c \in PlainClauses,
                                w \in wheres, t \in Tails})

Queried == AllQueries \cup WhereLast

(* MATCH (a) RETURN a.k AS b ORDER BY b, as the query of README.md sorts.  *)
SortedQueries ==
  Asked({<<Match(FALSE, <<Path(Bare("a"), <<>>)>>, 0),
           Projecting("Return", FALSE, FALSE, <<Expression("b", {"a"})>>),
           Reading("OrderBy", {"b"})>>})

-----------------------------------------------------------------------------
(* The names by which a RETURN calls its columns, that nothing else binds. *)
ColumnNames(clauses) ==
  UNION {ItemNames(clauses[i].items) : i \in {j \in 1..Len(clauses) :
                                               clauses[j].kind = "Return"}}
    \ Report(clauses).bindings

SortsByColumn(clauses) ==
  \E i \in 1..Len(clauses) :
     clauses[i].kind = "OrderBy" /\ clauses[i].reads \cap ColumnNames(clauses) # {}

(* The analysis reports no unbound name in a query whose clauses all read  *)
(* what the clauses before them leave in scope: collecting the names of a  *)
(* branch all at once misses none, also inside a FOREACH and after a WITH. *)
(* Sorting by a name the RETURN gives is left to EveryNameIsBound.         *)
NoFalseAlarm ==
  ~SortsByColumn(query.clauses) => report.unbound = {}

(* README.md: its query sorts by a column the RETURN names, "assert!(      *)
(* !analysis.has_errors())": no query in which every name is in scope      *)
(* where it is read is reported.                                           *)
EveryNameIsBound == report.unbound = {}
=============================================================================
