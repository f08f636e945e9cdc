-------------------------------- MODULE Mcp ---------------------------------
(***************************************************************************)
(* The MCP server of src/src/mcp.rs and src/src/bin/cypher-mcp.rs: a loop  *)
(* that reads a line, handles the request in it and writes the answer if   *)
(* there is one, before it reads the next line.  The client sends lines at *)
(* any time and may close its end of the server's input.  It takes answers *)
(* from a pipe of bounded capacity, at any time or never, and may close    *)
(* that end too: a server that writes waits while the pipe is full, and is *)
(* refused once it is closed.                                              *)
(*                                                                         *)
(* A query is known by what the stages of the pipeline make of it: whether *)
(* it parses, what the analysis reports, its plan, if it has one, what the *)
(* optimizer makes of that plan, its estimate and its columns.             *)
(***************************************************************************)
EXTENDS Integers, Sequences

CONSTANTS
  Ids, NoId,        \* the ids of requests; an id that is absent or null
  Queries, NoQuery, \* texts; a "query" argument that is missing or no string
  Invalid,          \* the queries that do not parse
  Unplanned,        \* those that parse and have no plan
  Reported,         \* what the analysis reports of a query
  PlanOf,           \* the plan of a query
  OptimizeOf,       \* the optimized plan of a plan
  EstimateOf,       \* the estimate of a plan
  ColumnsOf,        \* the output and required input columns of a plan
  BindingsOf,       \* the bindings in what the analysis reports
  Capacity,         \* how many answers the pipe to the client holds
  Lines,            \* the lines a client may send
  MaxLines          \* how many lines it sends: a bound of the model

ASSUME LineCount == MaxLines \in Nat

ASSUME PipeHolds == Capacity \in Nat \ {0}

(* Text that is no JSON has no id and no method.                           *)
ASSUME MalformedIsEmpty ==
  \A l \in Lines : l.kind = "malformed" => l.id = NoId /\ l.method = ""

Notices == {"notifications/initialized", "initialized", "notifications/cancelled"}

(* A line is blank, no UTF-8 ("broken"), no JSON, or JSON.  JSON that is   *)
(* no object has neither a method nor an id.                               *)
Text(kind) ==
  [kind |-> kind, method |-> "", id |-> NoId, tool |-> "", query |-> NoQuery,
   optimize |-> FALSE]

Request(method, id) == [Text("json") EXCEPT !.method = method, !.id = id]

Call(tool, query, id) ==
  [Request("tools/call", id) EXCEPT !.tool = tool, !.query = query]

(* The stages a tool runs, in their order, and those whose results are in  *)
(* its answer.                                                             *)
Stages ==
  [cypher_parse    |-> <<"parse">>,
   cypher_validate |-> <<"parse", "analyze">>,
   cypher_analyze  |-> <<"parse", "analyze", "bindings">>,
   cypher_plan     |-> <<"parse", "plan">>,
   cypher_optimize |-> <<"parse", "plan", "optimize">>,
   cypher_explain  |-> <<"parse", "analyze", "plan", "optimize", "estimate", "columns",
                        "bindings">>,
   cypher_cost     |-> <<"parse", "plan", "optimize", "estimate">>,
   cypher_columns  |-> <<"parse", "plan", "optimize", "columns">>]

(* Bug: the cost tool estimates the plan as it was before the optimizer.   *)
BugToolStages(call) ==
  CASE call.tool = "cypher_cost" -> <<"parse", "plan", "estimate">>
    [] call.tool = "cypher_plan" /\ call.optimize -> <<"parse", "plan", "optimize">>
    [] OTHER -> Stages[call.tool]

ToolStages(call) ==
  IF call.tool = "cypher_plan" /\ call.optimize THEN <<"parse", "plan", "optimize">>
                                                ELSE Stages[call.tool]

Shown(call) ==
  CASE call.tool = "cypher_plan" -> IF call.optimize THEN {"optimize"} ELSE {"plan"}
    [] call.tool = "cypher_optimize" -> {"plan", "optimize"}
    [] call.tool = "cypher_cost"     -> {"optimize", "estimate"}
    [] call.tool = "cypher_columns"  -> {"columns"}
    [] call.tool = "cypher_analyze"  -> {"analyze", "bindings"}
    [] OTHER -> {"parse", "analyze", "plan", "optimize", "estimate", "columns", "bindings"}

(* Tools for which a query that does not parse is a result and no error.   *)
ReportsParse == {"cypher_parse", "cypher_validate", "cypher_explain"}

VARIABLES
  lines,    \* what the client has sent
  closed,   \* it will send no more
  deaf,     \* it has closed the pipe of the answers: writing fails
  taken,    \* how many answers it has taken from the pipe
  next,     \* how many lines the server has read
  pc,       \* "read", "handle", "tool", "write" or "stopped"
  found,    \* the results of the stages of a call that have run
  answer,   \* what will be written
  stdout    \* the answers written, those still in the pipe included

vars == <<lines, closed, deaf, taken, next, pc, found, answer, stdout>>

line == lines[next]

-----------------------------------------------------------------------------
(* An answer: kind is a result, an error of JSON-RPC or an error of a tool *)
(* ("isError").  to says which line it answers; it is not on the wire.     *)
Answer(kind, id, body) == [kind |-> kind, id |-> id, body |-> body, to |-> next]

NoAnswer == Answer("none", NoId, <<>>)

Respond(kind, id, body) ==
  /\ answer' = Answer(kind, id, body)
  /\ pc' = "write"

Result(body)  == Respond("result", line.id, body)
Failed(at, kind) == Respond(kind, line.id, [failed |-> at])

Client == <<lines, closed, deaf, taken>>

Init ==
  /\ lines = <<>> /\ closed = FALSE /\ deaf = FALSE /\ taken = 0
  /\ next = 0 /\ pc = "read"
  /\ found = <<>>
  /\ answer = NoAnswer
  /\ stdout = <<>>

Send(l) ==
  /\ ~closed /\ Len(lines) < MaxLines
  /\ lines' = Append(lines, l)
  /\ UNCHANGED <<closed, deaf, taken, next, pc, found, answer, stdout>>

Close ==
  /\ ~closed
  /\ closed' = TRUE
  /\ UNCHANGED <<lines, deaf, taken, next, pc, found, answer, stdout>>

StopListening ==
  /\ ~deaf
  /\ deaf' = TRUE
  /\ UNCHANGED <<lines, closed, taken, next, pc, found, answer, stdout>>

Take ==
  /\ ~deaf /\ taken < Len(stdout)
  /\ taken' = taken + 1
  /\ UNCHANGED <<lines, closed, deaf, next, pc, found, answer, stdout>>

-----------------------------------------------------------------------------
(* The loop of main.                                                       *)

(* Bug: a blank line ends the loop.                                        *)
BugReadLine ==
  /\ pc = "read" /\ next < Len(lines)
  /\ next' = next + 1
  /\ pc' = IF lines[next'].kind \in {"broken", "blank"} THEN "stopped" ELSE "handle"
  /\ UNCHANGED <<Client, found, answer, stdout>>

(* A line that cannot be read ends the loop, a blank one is skipped.       *)
ReadLine ==
  /\ pc = "read" /\ next < Len(lines)
  /\ next' = next + 1
  /\ pc' = CASE lines[next'].kind = "broken" -> "stopped"
             [] lines[next'].kind = "blank"  -> "read"
             [] OTHER -> "handle"
  /\ UNCHANGED <<Client, found, answer, stdout>>

(* Bug: the end of the input is read as a blank line.                      *)
BugEndOfInput ==
  /\ pc = "read" /\ next = Len(lines) /\ closed
  /\ UNCHANGED vars

EndOfInput ==
  /\ pc = "read" /\ next = Len(lines) /\ closed
  /\ pc' = "stopped"
  /\ UNCHANGED <<Client, next, found, answer, stdout>>

(* writeln! and flush: they wait while the pipe is full, and an error of   *)
(* either is ignored.                                                      *)
Full == ~deaf /\ Len(stdout) - taken = Capacity

Write ==
  /\ pc = "write" /\ ~Full
  /\ stdout' = IF deaf THEN stdout ELSE Append(stdout, answer)
  /\ pc' = "read"
  /\ answer' = NoAnswer
  /\ found' = <<>>
  /\ UNCHANGED <<Client, next>>

-----------------------------------------------------------------------------
(* handle_request.                                                         *)
Handling(methods) == pc = "handle" /\ line.kind = "json" /\ line.method \in methods

BadJson ==
  /\ pc = "handle" /\ line.kind = "malformed"
  /\ Respond("error", NoId, -32700)
  /\ UNCHANGED <<Client, next, found, stdout>>

Immediate ==
  /\ Handling({"initialize", "ping", "tools/list"})
  /\ Result(line.method)
  /\ UNCHANGED <<Client, next, found, stdout>>

Notice ==
  /\ Handling(Notices)
  /\ pc' = "read"
  /\ UNCHANGED <<Client, next, found, answer, stdout>>

Methods == {"initialize", "ping", "tools/list", "tools/call"} \cup Notices

Unknown == pc = "handle" /\ line.kind = "json" /\ line.method \notin Methods

(* Bug: an unknown method is refused whether or not the request has an id. *)
BugMethodNotFound ==
  /\ Unknown
  /\ Respond("error", line.id, -32601)
  /\ UNCHANGED <<Client, next, found, stdout>>

MethodNotFound ==
  /\ Unknown
  /\ line.id # NoId
  /\ Respond("error", line.id, -32601)
  /\ UNCHANGED <<Client, next, found, stdout>>

IgnoreNotification ==
  /\ Unknown
  /\ line.id = NoId
  /\ pc' = "read"
  /\ UNCHANGED <<Client, next, found, answer, stdout>>

(* dispatch, and get_query, which every tool calls first.                  *)
NoSuchTool ==
  /\ Handling({"tools/call"})
  /\ line.tool \notin DOMAIN Stages \/ line.query = NoQuery
  /\ Failed("arguments", "isError")
  /\ UNCHANGED <<Client, next, found, stdout>>

(* Bug: a call without a query reaches the tool.                           *)
BugStartTool ==
  /\ Handling({"tools/call"})
  /\ line.tool \in DOMAIN Stages
  /\ pc' = "tool"
  /\ found' = <<>>
  /\ UNCHANGED <<Client, next, answer, stdout>>

StartTool ==
  /\ Handling({"tools/call"})
  /\ line.tool \in DOMAIN Stages /\ line.query # NoQuery
  /\ pc' = "tool"
  /\ found' = <<>>
  /\ UNCHANGED <<Client, next, answer, stdout>>

-----------------------------------------------------------------------------
(* The stages of a tool.                                                   *)
Due(stage) ==
  /\ pc = "tool"
  /\ \E i \in 1..Len(ToolStages(line)) :
        /\ ToolStages(line)[i] = stage /\ stage \notin DOMAIN found
        /\ \A j \in 1..(i - 1) : ToolStages(line)[j] \in DOMAIN found

Finds(stage, result) ==
  /\ Due(stage)
  /\ found' = [s \in DOMAIN found \cup {stage} |-> IF s = stage THEN result ELSE found[s]]
  /\ UNCHANGED <<Client, next, pc, answer, stdout>>

(* A stage that fails is the answer, as a result or as an error.           *)
Fails(stage, kind) ==
  /\ Due(stage)
  /\ Failed(stage, kind)
  /\ UNCHANGED <<Client, next, found, stdout>>

Query == line.query
Plan  == IF "optimize" \in DOMAIN found THEN found["optimize"] ELSE found["plan"]

Parse    == Finds("parse", "ok") /\ Query \notin Invalid
Analyze  == Finds("analyze", Reported[Query])
MakePlan == Finds("plan", PlanOf[Query]) /\ Query \notin Unplanned
Optimize == Finds("optimize", OptimizeOf[Plan])
Estimate == Finds("estimate", EstimateOf[Plan])
Columns  == Finds("columns", ColumnsOf[Plan])
Bindings == Finds("bindings", BindingsOf[found["analyze"]])

ParseFails ==
  /\ Fails("parse", IF line.tool \in ReportsParse THEN "result" ELSE "isError")
  /\ Query \in Invalid

PlanFails ==
  /\ Fails("plan", "isError")
  /\ Query \in Unplanned /\ line.tool # "cypher_explain"

(* For cypher_explain a query without a plan is a result, and the report   *)
(* of the analysis is in it.                                               *)
ExplainFails ==
  /\ Due("plan") /\ Query \in Unplanned /\ line.tool = "cypher_explain"
  /\ Result([failed |-> "plan", analyze |-> found["analyze"]])
  /\ UNCHANGED <<Client, next, found, stdout>>

FinishTool ==
  /\ pc = "tool"
  /\ \A i \in 1..Len(ToolStages(line)) : ToolStages(line)[i] \in DOMAIN found
  /\ Result([s \in DOMAIN found \cap Shown(line) |-> found[s]])
  /\ UNCHANGED <<Client, next, found, stdout>>

-----------------------------------------------------------------------------
RunTool == \/ Parse \/ ParseFails \/ Analyze \/ MakePlan \/ PlanFails \/ ExplainFails
           \/ Optimize \/ Estimate \/ Columns \/ Bindings \/ FinishTool

HandleRequest == \/ BadJson \/ Immediate \/ Notice \/ MethodNotFound
                 \/ IgnoreNotification \/ NoSuchTool \/ StartTool

Server == ReadLine \/ EndOfInput \/ Write \/ HandleRequest \/ RunTool

ClientStep == (\E l \in Lines : Send(l)) \/ Close \/ Take \/ StopListening

Done == pc = "stopped" /\ UNCHANGED vars

Next == Server \/ ClientStep \/ Done

(* The server goes on as long as it can; a client need not do anything,    *)
(* so a server that has to write into a full pipe may wait for good.       *)
Spec == Init /\ [][Next]_vars /\ WF_vars(Server)

-----------------------------------------------------------------------------
TypeOK ==
  /\ lines \in Seq(Lines) /\ Len(lines) <= MaxLines
  /\ closed \in BOOLEAN /\ deaf \in BOOLEAN
  /\ taken \in 0..Len(stdout) /\ Len(stdout) - taken <= Capacity
  /\ next \in 0..Len(lines)
  /\ pc \in {"read", "handle", "tool", "write", "stopped"}
  /\ pc \in {"handle", "tool", "write"} => next > 0
  /\ pc = "tool" => line.tool \in DOMAIN Stages /\ line.query # NoQuery
  /\ pc # "tool" /\ pc # "write" => DOMAIN found = {}

(* A request with an id, and a line that is no JSON, must have an answer.  *)
(* A blank line, a notice without an id and a request without an id for a  *)
(* method that does not exist must have none.  The comment on              *)
(* handle_request and its arms differ on the others, initialize, ping and  *)
(* the tools without an id, and notices that have one: those may have an   *)
(* answer or not.                                                          *)
Owed(l) ==
  \/ l.kind = "malformed"
  \/ l.kind = "json" /\ l.id # NoId /\ l.method \notin Notices

MayAnswer(l) ==
  \/ l.kind = "malformed"
  \/ l.kind = "json" /\ (l.id # NoId
                         \/ l.method \in {"initialize", "ping", "tools/list", "tools/call"})

(* The lines that are through.                                             *)
Handled == IF pc \in {"handle", "tool", "write"} THEN next - 1 ELSE next

(* A client may match answers to its requests by their order: they come in *)
(* the order of the lines, have the id of the line they answer, and, until *)
(* the client hangs up, none is missing, doubled or unasked for.           *)
AnswersInOrder ==
  /\ \A i \in 1..Len(stdout) :
        /\ stdout[i].to \in 1..Handled
        /\ MayAnswer(lines[stdout[i].to])
        /\ stdout[i].id = lines[stdout[i].to].id
  /\ \A i, j \in 1..Len(stdout) : i < j => stdout[i].to < stdout[j].to
  /\ ~deaf => \A n \in 1..Handled :
                 Owed(lines[n]) => \E i \in 1..Len(stdout) : stdout[i].to = n

PlanParts == {"plan", "optimize", "estimate", "columns"}

(* The tools are views of one pipeline: whatever two answers say of the    *)
(* same stage of the same query is the same, also where one of them is of  *)
(* a query that has no plan (the analysis is in the answer of              *)
(* cypher_explain), and a stage that fails for one tool leaves nothing of  *)
(* itself or of a later one in the answer of another.                      *)
ToolsAgree ==
  \A i, j \in 1..Len(stdout) :
    LET l == lines[stdout[i].to]
        m == lines[stdout[j].to]
        s == stdout[i].body
        t == stdout[j].body
        failed(at) == "failed" \in DOMAIN s /\ s["failed"] = at
    IN  l.method = "tools/call" /\ m.method = "tools/call" /\ l.query = m.query
          /\ l.tool \in DOMAIN Stages /\ m.tool \in DOMAIN Stages =>
        /\ \A part \in DOMAIN s \cap DOMAIN t : s[part] = t[part]
        /\ failed("parse") => DOMAIN t = {"failed"}
        /\ failed("plan") => DOMAIN t \cap PlanParts = {}

(* The server is never left with an answer that the pipe has no room for.  *)
Blocked == pc = "write" /\ Full

Drained == []<>~Blocked

(* To a client that does not leave the pipe full for good, every line that *)
(* must have an answer gets it, unless the client hangs up or sent a line  *)
(* before that ends the loop.                                              *)
EveryLineAnswered ==
  Drained =>
    \A n \in 1..MaxLines :
      n <= Len(lines) /\ Owed(lines[n])
        ~> \/ deaf
           \/ \E k \in 1..Len(lines) : k < n /\ lines[k].kind = "broken"
           \/ \E i \in 1..Len(stdout) : stdout[i].to = n

(* When there is no more input and the pipe is not left full, the server   *)
(* stops, and has left no line unread but those after a line that it could *)
(* not read.                                                               *)
StopsAfterTheInput ==
  Drained =>
    (closed ~> /\ pc = "stopped"
               /\ next = Len(lines) \/ lines[next].kind = "broken")
=============================================================================
