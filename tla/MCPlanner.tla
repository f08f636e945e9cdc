----------------------------- MODULE MCPlanner ------------------------------
(***************************************************************************)
(* Queries for the model checker: MaxClauses clauses of an alphabet over   *)
(* two variables and a projection with some of its modifiers.              *)
(***************************************************************************)
EXTENDS QuerySemantics, ClauseOrder

CONSTANTS MaxClauses, MaxSynth

(* Synth::fresh: __node_0, __rel_1, ...                                    *)
SynthName(prefix, n) == "__" \o prefix \o "_" \o ToString(n)

SynthVars == {SynthName(p, n) : p \in {"node", "rel"}, n \in 0..MaxSynth}

AllVars == UserVars \cup SynthVars

-----------------------------------------------------------------------------
(* The scope of the query text: what each clause may read.                 *)
ClauseReads(c) ==
  CASE c.kind = "Match" -> Patterns(c.patterns, PatternReads)
    [] c.kind \in {"With", "Return"} ->
         UNION {c.items[i].reads : i \in 1..Len(c.items)}
    [] c.kind \in {"Create", "Merge"} ->
         (Patterns(c.patterns, PatternReads) \cup c.reads)
           \ Patterns(c.patterns, PatternBindings)
    [] c.kind = "Union" -> {}
    [] OTHER -> c.reads

ScopeAfter(scope, c) ==
  CASE c.kind \in {"Match", "Create", "Merge"} ->
         scope \cup Patterns(c.patterns, PatternBindings)
    [] c.kind \in {"With", "Return"} ->
         (IF c.star THEN scope ELSE {}) \cup ItemNames(c.items)
    [] c.kind \in {"Unwind", "Call", "LoadCsv", "Start"} -> scope \cup c.binds
    [] c.kind = "Union" -> {}
    [] OTHER -> scope

ScopeAt(q, i) ==
  FoldLeft(LAMBDA scope, c : ScopeAfter(scope, c), {}, SubSeq(q, 1, i))

(* Clauses read what is bound; a MATCH also what it binds itself; a star   *)
(* comes with no name twice; OPTIONAL MATCH follows something.             *)
Scoped(q) ==
  \A i \in 1..Len(q) :
     /\ ClauseReads(q[i]) \subseteq
          ScopeAt(q, IF q[i].kind = "Match" THEN i ELSE i - 1)
     /\ q[i].kind \in {"With", "Return"} /\ q[i].star
          => ItemNames(q[i].items) \cap ScopeAt(q, i - 1) = {}

Placed(q) == WellPlaced([i \in 1..Len(q) |-> q[i].kind])

-----------------------------------------------------------------------------
Path(anchor, chain) == Pattern(NoVar, FALSE, anchor, chain)

WithProps(v, reads) == Element(v, TRUE, reads, FALSE)
WithMap(v)          == Element(v, FALSE, {}, TRUE)

(* MATCH (a) / (a)-->(b {k: a.k}) USING ... / (a), (b {k: 1}) /            *)
(* OPTIONAL MATCH (b)-[{k: 1}]->(a) / b = ({m})-->(a {k: 1})               *)
MatchClauses ==
  {Match(FALSE, <<Path(Bare("a"), <<>>)>>, 0),
   Match(FALSE, <<Path(Bare("a"), <<Link(Bare(NoVar), WithProps("b", {"a"}))>>)>>, 1),
   Match(FALSE, <<Path(Bare("a"), <<>>), Path(WithProps("b", {}), <<>>)>>, 0),
   Match(TRUE, <<Path(Bare("b"), <<Link(WithProps(NoVar, {}), Bare("a"))>>)>>, 0),
   Match(FALSE, <<Pattern("b", FALSE, WithMap(NoVar),
                          <<Link(Bare(NoVar), WithProps("a", {}))>>)>>, 0)}

(* WITH a / WITH DISTINCT b / WITH a AS b / WITH *, 1 AS b /               *)
(* WITH a, count( * ) AS b                                                 *)
WithClauses ==
  {Projecting("With", FALSE, FALSE, <<Variable("a")>>),
   Projecting("With", FALSE, TRUE, <<Variable("b")>>),
   Projecting("With", FALSE, FALSE, <<Expression("b", {"a"})>>),
   Projecting("With", TRUE, FALSE, <<Expression("b", {})>>),
   Projecting("With", FALSE, FALSE, <<Variable("a"), Aggregate("b")>>)}

OtherClauses ==
  {Reading("Where", {"a"}), Reading("Where", {"a", "b"}),
   Reading("Set", {"a"}), Reading("Delete", {"b"}),
   Writing("Create", <<Path(WithProps("b", {"a"}), <<>>)>>, {}),
   Writing("Merge", <<Path(Bare("a"), <<Link(Bare(NoVar), Bare("b"))>>)>>, {"b"}),
   Binding("Unwind", {"b"}, {}, <<>>), Binding("LoadCsv", {"b"}, {"a"}, <<>>),
   Binding("Start", {"a"}, {}, <<>>), Binding("Call", {"b"}, {"a"}, <<{"b"}>>),
   Foreach("b", {"a"},
           <<Reading("Set", {}), Foreach("a", {}, <<Reading("Remove", {})>>)>>),
   Foreach("a", {}, <<Match(FALSE, <<Path(Bare("b"), <<>>)>>, 0), Reading("Set", {"b"})>>)}

(* The end of a branch: a RETURN with some of its modifiers, or nothing.   *)
Returns ==
  {Projecting("Return", FALSE, FALSE, <<Variable("a")>>),
   Projecting("Return", FALSE, TRUE, <<Variable("b")>>),
   Projecting("Return", FALSE, FALSE, <<Expression("a", {"b"})>>),
   Projecting("Return", TRUE, FALSE, <<>>)}

Key(c) == IF c.star THEN {} ELSE ItemNames(c.items)

Tails ==
  {<<>>} \cup UNION {{<<r>>, <<r, Reading("Limit", {})>>,
                    <<r, Reading("OrderBy", Key(r)), Reading("Skip", {}),
                      Reading("Limit", {})>>} : r \in Returns}

(* Lists of at most MaxClauses clauses.                                    *)
Bodies(clauses) == UNION {[1..n -> clauses] : n \in 0..MaxClauses}

Asked(lists) == {Query(<<>>, q, FALSE) : q \in {l \in lists : Placed(l) /\ Scoped(l)}}

PlainClauses == MatchClauses \cup WithClauses \cup OtherClauses

PlainQueries ==
  Asked({b \o t : b \in Bodies(PlainClauses), t \in Tails})

(* UNION, query options, schema commands, and what plan refuses.           *)
Union == <<Plain("Union")>>

Branches ==
  LET m == Match(FALSE, <<Path(Bare("a"), <<>>), Path(Bare("b"), <<>>)>>, 0)
  IN  {<<m>> \o t : t \in Tails}
        \cup {<<Binding("Unwind", {"b"}, {}, <<>>), r>> : r \in Returns}

UnionQueries ==
  Asked({p \o Union \o q : p \in Branches, q \in Branches}
          \cup {p \o Union \o q \o Union \o p : p \in Branches, q \in Branches})

OptionLists ==
  {<<"Explain">>, <<"Profile", "Cypher">>, <<"Cypher", "Explain", "PeriodicCommit">>}

OtherQueries ==
  {[q EXCEPT !.options = o] : q \in UnionQueries, o \in OptionLists}
    \cup {Query(<<>>, <<Plain("SchemaCommand")>>, FALSE),
          Query(<<"Explain">>, <<>>, FALSE),
          Query(<<>>, <<Match(FALSE, <<>>, 0)>>, FALSE),
          Query(<<>>, <<Plain("SchemaCommand")>>, TRUE)}

AllQueries == PlainQueries \cup OtherQueries

(* WITH with modifiers, the only queries in which ORDER BY, SKIP or LIMIT  *)
(* is followed by another clause.                                          *)
PipelineQueries ==
  LET limits == {Reading("OrderBy", {"a"}), Reading("Skip", {}), Reading("Limit", {})}
  IN  Asked({<<m, w, l>> \o t : m \in MatchClauses, w \in WithClauses,
                                l \in limits, t \in Tails})

-----------------------------------------------------------------------------
(* The plan of a query returns the rows the query means, in that order.    *)
MeansTheQuery ==
  result = "planned" => Visible(Eval(plan)) = Visible(MeaningOf(query.clauses))
=============================================================================
