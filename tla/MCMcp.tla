------------------------------- MODULE MCMcp --------------------------------
(***************************************************************************)
(* Lines for the server: every kind of line and method, with and without   *)
(* an id, and every tool for a query that is planned, one that does not    *)
(* parse and one that has no plan.                                         *)
(***************************************************************************)
EXTENDS Mcp

Plans == {"plan", "pushed"}

Reports == {"clean", "issues"}

ReportOf   == [q \in Queries |-> IF q \in Unplanned THEN "issues" ELSE "clean"]
BindingsIn == [r \in Reports |-> IF r = "clean" THEN "names" ELSE "none"]
Planned    == [q \in Queries |-> "plan"]
Pushed     == [p \in Plans |-> "pushed"]
Estimated  == [p \in Plans |-> IF p = "plan" THEN "dear" ELSE "cheap"]
ColumnsFor == [p \in Plans |-> IF p = "plan" THEN "all" ELSE "needed"]

Oddities == {Text("blank"), Text("broken"), Text("malformed"), Request("", NoId)}

Requests ==
  {Request(m, id) : m \in {"initialize", "ping", "tools/list", "resources/list"} \cup Notices,
                    id \in Ids \cup {NoId}}

Calls ==
  {Call(tool, q, id) : tool \in DOMAIN Stages, q \in Queries, id \in Ids}
    \cup {Call("cypher_sql", q, id) : q \in {CHOOSE q \in Queries : TRUE}, id \in Ids}
    \cup {Call("cypher_cost", NoQuery, NoId)}
    \cup {[Call("cypher_plan", q, id) EXCEPT !.optimize = TRUE] : q \in Queries, id \in Ids}

AllLines == Oddities \cup Requests \cup Calls
=============================================================================
