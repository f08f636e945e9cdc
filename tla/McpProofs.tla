----------------------------- MODULE McpProofs ------------------------------
(***************************************************************************)
(* Proofs about the MCP server, for every pipeline behind it, every pipe   *)
(* to the client, every set of lines and every number of them: answers     *)
(* come in order, one for every line that must have one, and the tools do  *)
(* not contradict each other.                                              *)
(***************************************************************************)
EXTENDS Mcp, TLAPS

(* What holds of the line being handled and of the answer to it.           *)
AtWork ==
  /\ \E S : stdout \in Seq(S)
  /\ pc = "tool" => line.kind = "json" /\ line.method = "tools/call"
  /\ pc = "write" => answer.to = next /\ answer.id = line.id /\ MayAnswer(line)

IInv == TypeOK /\ AtWork /\ AnswersInOrder

LEMMA AppendTo ==
  ASSUME NEW S, NEW s \in Seq(S), NEW x
  PROVE  /\ Append(s, x) \in Seq(S \cup {x})
         /\ Len(Append(s, x)) = Len(s) + 1
         /\ \A i \in 1..Len(s) : Append(s, x)[i] = s[i]
         /\ Append(s, x)[Len(s) + 1] = x
<1>1. s \in Seq(S \cup {x})
  OBVIOUS
<1> QED
  BY <1>1

-----------------------------------------------------------------------------
LEMMA InitInv == Init => IInv
<1> SUFFICES ASSUME Init PROVE IInv
  OBVIOUS
<1>1. /\ lines \in Seq(Lines) /\ Len(lines) = 0
      /\ stdout \in Seq({}) /\ Len(stdout) = 0
      /\ next = 0 /\ pc = "read" /\ closed = FALSE /\ deaf = FALSE /\ taken = 0
  BY DEF Init
<1>2. DOMAIN found = {}
  BY DEF Init
<1>3. TypeOK
  <2>1. Len(lines) <= MaxLines /\ next \in 0..Len(lines)
    BY <1>1, LineCount
  <2>2. taken \in 0..Len(stdout) /\ Len(stdout) - taken <= Capacity
    BY <1>1, PipeHolds
  <2> QED
    BY <1>1, <1>2, <2>1, <2>2 DEF TypeOK
<1>4. AtWork
  BY <1>1 DEF AtWork
<1>5. AnswersInOrder
  BY <1>1 DEF AnswersInOrder, Handled
<1> QED
  BY <1>3, <1>4, <1>5 DEF IInv

(* The client's steps add lines after those the server has read.           *)
LEMMA ClientInv == IInv /\ ClientStep => IInv'
<1> SUFFICES ASSUME IInv, ClientStep PROVE IInv'
  OBVIOUS
<1> USE DEF IInv
<1>0. lines \in Seq(Lines) /\ next \in 0..Len(lines) /\ Len(lines) \in Nat
  BY DEF TypeOK
<1>1. ASSUME NEW l \in Lines, Send(l) PROVE IInv'
  <2>1. /\ lines' \in Seq(Lines) /\ Len(lines') = Len(lines) + 1
        /\ \A n \in 1..Len(lines) : lines'[n] = lines[n]
    BY <1>0, <1>1, AppendTo DEF Send
  <2>2. next > 0 => line' = line
    BY <1>0, <1>1, <2>1 DEF Send, line
  <2>3. TypeOK'
    BY <1>0, <1>1, <2>1, <2>2, LineCount DEF Send, TypeOK
  <2>4. AtWork'
    BY <1>1, <2>2 DEF Send, TypeOK, AtWork, MayAnswer, Owed
  <2>5. Handled' = Handled /\ Handled \in Int /\ Handled <= next
    BY <1>0, <1>1 DEF Send, Handled
  <2>6. \A n \in 1..Handled : lines'[n] = lines[n]
    BY <1>0, <2>1, <2>5
  <2>7. AnswersInOrder'
    <3>1. stdout' = stdout /\ deaf' = deaf
      BY <1>1 DEF Send
    <3>2. ASSUME NEW n \in 1..Handled
          PROVE  /\ Owed(lines'[n]) <=> Owed(lines[n])
                 /\ MayAnswer(lines'[n]) <=> MayAnswer(lines[n])
      BY <2>6
    <3> QED
      BY <2>5, <2>6, <3>1, <3>2 DEF AnswersInOrder
  <2> QED
    BY <2>3, <2>4, <2>7
<1>2. ASSUME Close \/ Take \/ StopListening PROVE IInv'
  <2>1. taken \in 0..Len(stdout) /\ Len(stdout) \in Nat /\ Len(stdout) - taken <= Capacity
        /\ Capacity \in Nat
    BY PipeHolds DEF TypeOK, AtWork
  <2>2. ASSUME Take
        PROVE  taken' \in 0..Len(stdout) /\ Len(stdout) - taken' <= Capacity
    BY <2>1, <2>2 DEF Take
  <2>3. ASSUME Close \/ StopListening PROVE taken' = taken
    BY <2>3 DEF Close, StopListening
  <2>4. /\ UNCHANGED <<lines, next, pc, found, answer, stdout>>
        /\ closed' \in BOOLEAN /\ deaf' \in BOOLEAN /\ (~deaf' => ~deaf)
        /\ taken' \in 0..Len(stdout) /\ Len(stdout) - taken' <= Capacity
    <3>1. UNCHANGED <<lines, next, pc, found, answer, stdout>>
      BY <1>2 DEF Close, Take, StopListening
    <3>2. closed' \in BOOLEAN /\ deaf' \in BOOLEAN /\ (~deaf' => ~deaf)
      BY <1>2 DEF Close, Take, StopListening, TypeOK
    <3> QED
      BY <1>2, <2>1, <2>2, <2>3, <3>1, <3>2
  <2>5. line' = line /\ Handled' = Handled
    BY <2>4 DEF line, Handled
  <2>6. TypeOK'
    BY <2>4, <2>5 DEF TypeOK
  <2>7. AtWork'
    BY <2>4, <2>5 DEF AtWork, MayAnswer, Owed
  <2>8. AnswersInOrder'
    BY <2>4, <2>5 DEF AnswersInOrder, MayAnswer, Owed
  <2> QED
    BY <2>7, <2>8, <2>6
<1> QED
  BY <1>1, <1>2 DEF ClientStep

-----------------------------------------------------------------------------
(* The steps of the loop.                                                  *)
LEMMA ReadInv == IInv /\ ReadLine => IInv'
<1> SUFFICES ASSUME IInv, ReadLine PROVE IInv'
  OBVIOUS
<1>1. /\ lines \in Seq(Lines) /\ next \in Nat /\ Len(lines) \in Nat /\ next < Len(lines)
      /\ pc = "read" /\ next' = next + 1 /\ UNCHANGED <<lines, closed, deaf, taken, found, answer, stdout>>
  BY DEF IInv, TypeOK, ReadLine, Client
<1>2. pc' \in {"read", "stopped", "handle"}
  BY DEF ReadLine
<1>3. TypeOK'
  BY <1>1, <1>2 DEF IInv, TypeOK
<1>4. AtWork'
  BY <1>1, <1>2 DEF IInv, AtWork
<1>5. AnswersInOrder'
  <2>1. Handled = next
    BY <1>1 DEF Handled
  <2>2. CASE pc' = "handle"
    <3>1. Handled' = Handled
      BY <1>1, <2>1, <2>2 DEF Handled
    <3> QED
      BY <1>1, <3>1 DEF IInv, AnswersInOrder, MayAnswer, Owed
  <2>3. CASE pc' # "handle"
    <3>1. Handled' = Handled + 1
      BY <1>1, <1>2, <2>1, <2>3 DEF Handled
    <3>2. lines[next + 1].kind \in {"blank", "broken"}
      BY <1>1, <2>3 DEF ReadLine
    <3>3. ~Owed(lines[Handled + 1])
      BY <2>1, <3>2 DEF Owed
    <3>4. \A n \in 1..Handled' : n \in 1..Handled \/ n = Handled + 1
      BY <1>1, <2>1, <3>1
    <3>5. 1..Handled \subseteq 1..Handled'
      BY <1>1, <2>1, <3>1
    <3> QED
      BY <1>1, <3>3, <3>4, <3>5 DEF IInv, AnswersInOrder, MayAnswer, Owed
  <2> QED
    BY <2>2, <2>3
<1> QED
  BY <1>3, <1>4, <1>5 DEF IInv

(* An answer is written after those of the lines before.                   *)
LEMMA WriteInv == IInv /\ Write => IInv'
<1> SUFFICES ASSUME IInv, Write PROVE IInv'
  OBVIOUS
<1>1. /\ lines \in Seq(Lines) /\ next \in Nat /\ next > 0
      /\ pc = "write" /\ pc' = "read" /\ UNCHANGED <<lines, closed, deaf, taken, next>>
  BY DEF IInv, TypeOK, Write, Client
<1>2. DOMAIN found' = {}
  BY DEF Write
<1>3. answer.to = next /\ answer.id = lines[next].id /\ MayAnswer(lines[next])
  BY <1>1 DEF IInv, AtWork, line
<1>4. Handled = next - 1 /\ Handled' = next
  BY <1>1 DEF Handled
<1>5. PICK S : stdout \in Seq(S)
  BY DEF IInv, AtWork
<1>6. CASE deaf
  <2>1. stdout' = stdout
    BY <1>6 DEF Write
  <2>2. TypeOK'
    BY <1>1, <1>2, <2>1 DEF IInv, TypeOK
  <2>3. AtWork'
    BY <1>1, <1>5, <2>1 DEF AtWork
  <2>4. 1..Handled \subseteq 1..Handled'
    BY <1>1, <1>4
  <2>5. AnswersInOrder'
    BY <1>1, <1>6, <2>1, <2>4 DEF IInv, AnswersInOrder, MayAnswer, Owed
  <2> QED
    BY <2>3, <2>5, <2>2 DEF IInv
<1>7. CASE ~deaf
  <2> DEFINE n == Len(stdout)
  <2>1. /\ n \in Nat
        /\ stdout' \in Seq(S \cup {answer}) /\ Len(stdout') = n + 1
        /\ \A i \in 1..n : stdout'[i] = stdout[i]
        /\ stdout'[n + 1] = answer
    BY <1>5, <1>7, AppendTo DEF Write
  <2>2. AtWork'
    BY <1>1, <2>1 DEF AtWork
  <2>3. TypeOK'
    <3>1. taken \in 0..n /\ n - taken <= Capacity /\ n - taken # Capacity /\ Capacity \in Nat
      BY <1>7, PipeHolds DEF IInv, TypeOK, Write, Full
    <3>2. taken \in 0..(n + 1) /\ (n + 1) - taken <= Capacity
      BY <2>1, <3>1
    <3> QED
      BY <1>1, <1>2, <2>1, <3>2 DEF IInv, TypeOK
  <2>4. \A i \in 1..(n + 1) : i \in 1..n \/ i = n + 1
    BY <2>1
  <2>5. ASSUME NEW i \in 1..n
        PROVE  /\ stdout[i].to \in 1..(next - 1)
               /\ MayAnswer(lines[stdout[i].to])
               /\ stdout[i].id = lines[stdout[i].to].id
    BY <1>4 DEF IInv, AnswersInOrder
  <2>6. ASSUME NEW i \in 1..(n + 1)
        PROVE  /\ stdout'[i].to \in 1..next
               /\ MayAnswer(lines[stdout'[i].to])
               /\ stdout'[i].id = lines[stdout'[i].to].id
    BY <1>1, <1>3, <2>1, <2>4, <2>5, SMTT(30)
  <2>7. ASSUME NEW i \in 1..(n + 1), NEW j \in 1..(n + 1), i < j
        PROVE  stdout'[i].to < stdout'[j].to
    <3>1. i \in 1..n
      BY <2>1, <2>7
    <3>2. CASE j \in 1..n
      BY <2>1, <2>7, <3>1, <3>2 DEF IInv, AnswersInOrder
    <3>3. CASE j = n + 1
      BY <1>1, <1>3, <2>1, <2>5, <3>1, <3>3
    <3> QED
      BY <2>4, <3>2, <3>3
  <2>8. ASSUME NEW k \in 1..next, Owed(lines[k])
        PROVE  \E i \in 1..(n + 1) : stdout'[i].to = k
    <3>1. CASE k = next
      <4>1. n + 1 \in 1..(n + 1)
        BY <2>1
      <4> QED
        BY <1>3, <2>1, <3>1, <4>1
    <3>2. CASE k # next
      <4>1. k \in 1..Handled
        BY <1>1, <1>4, <3>2
      <4>2. PICK i \in 1..n : stdout[i].to = k
        BY <1>7, <2>8, <4>1 DEF IInv, AnswersInOrder
      <4>3. i \in 1..(n + 1)
        BY <2>1
      <4> QED
        BY <2>1, <4>2, <4>3
    <3> QED
      BY <3>1, <3>2
  <2>9. AnswersInOrder'
    BY <1>1, <1>4, <2>1, <2>6, <2>7, <2>8 DEF AnswersInOrder, MayAnswer, Owed
  <2> QED
    BY <2>2, <2>9, <2>3 DEF IInv
<1> QED
  BY <1>6, <1>7

-----------------------------------------------------------------------------
(* A step that leaves the lines and the answers alone, and neither begins  *)
(* nor ends the work on a line.                                            *)
LEMMA SameAnswers ==
  ASSUME IInv, UNCHANGED <<lines, closed, deaf, taken, next, stdout>>, Handled' = Handled
  PROVE  AnswersInOrder' /\ (\E S : stdout' \in Seq(S)) /\ line' = line
BY DEF IInv, AtWork, AnswersInOrder, MayAnswer, Owed, line

LEMMA RespondInv ==
  ASSUME IInv, NEW kind, NEW id, NEW body, Respond(kind, id, body),
         UNCHANGED <<Client, next, stdout>>,
         pc \in {"handle", "tool"}, MayAnswer(line), id = line.id
  PROVE  IInv'
<1>1. /\ UNCHANGED <<lines, closed, deaf, taken, next, stdout>>
      /\ pc' = "write" /\ answer' = Answer(kind, id, body)
  BY DEF Respond, Client
<1>2. Handled' = Handled
  BY <1>1 DEF Handled
<1>3. AnswersInOrder' /\ (\E S : stdout' \in Seq(S)) /\ line' = line
  BY <1>1, <1>2, SameAnswers
<1>4. answer'.to = next /\ answer'.id = line.id
  BY <1>1 DEF Answer
<1>5. AtWork'
  BY <1>1, <1>3, <1>4 DEF AtWork, MayAnswer, Owed
<1>6. TypeOK'
  BY <1>1, <1>3 DEF IInv, TypeOK
<1> QED
  BY <1>3, <1>5, <1>6 DEF IInv

LEMMA MalformedLine ==
  ASSUME line \in Lines, BadJson
  PROVE  line.kind = "malformed" /\ line.id = NoId /\ line.method = ""
<1>1. line.kind = "malformed"
  BY DEF BadJson
<1>2. ASSUME NEW l \in Lines, l.kind = "malformed" PROVE l.id = NoId /\ l.method = ""
  BY <1>2, MalformedIsEmpty
<1> QED
  BY <1>1, <1>2

(* A call is answered whether or not it has an id.                         *)
LEMMA CallsAreAnswered ==
  ASSUME line.kind = "json", line.method = "tools/call" PROVE MayAnswer(line)
BY DEF MayAnswer

LEMMA HandleInv == IInv /\ HandleRequest => IInv'
<1> SUFFICES ASSUME IInv, HandleRequest PROVE IInv'
  OBVIOUS
<1>0. next \in Nat /\ next > 0 /\ lines \in Seq(Lines) /\ pc = "handle"
        /\ next \in 1..Len(lines) /\ line \in Lines /\ DOMAIN found = {}
  BY DEF IInv, TypeOK, line, HandleRequest, BadJson, Immediate, Notice, MethodNotFound,
         Unknown, IgnoreNotification, NoSuchTool, StartTool, Handling
<1>1. CASE BadJson
  <2>1. line.kind = "malformed" /\ line.id = NoId
    BY <1>0, <1>1, MalformedLine
  <2> QED
    BY <1>0, <1>1, <2>1, RespondInv DEF BadJson, MayAnswer, Owed
<1>2. CASE Immediate
  <2>1. MayAnswer(line)
    BY <1>2 DEF Immediate, Handling, MayAnswer
  <2> QED
    BY <1>0, <1>2, <2>1, RespondInv DEF Immediate, Result
<1>3. CASE MethodNotFound
  <2>1. MayAnswer(line)
    BY <1>3 DEF MethodNotFound, Unknown, MayAnswer
  <2> QED
    BY <1>0, <1>3, <2>1, RespondInv DEF MethodNotFound
<1>4. CASE NoSuchTool
  <2>1. MayAnswer(line)
    BY <1>4, CallsAreAnswered DEF NoSuchTool, Handling
  <2> QED
    BY <1>0, <1>4, <2>1, RespondInv DEF NoSuchTool, Failed
<1>5. CASE Notice \/ IgnoreNotification
  <2>1. ~Owed(line)
    BY <1>5 DEF Notice, IgnoreNotification, Unknown, Handling, Owed
  <2>2. pc' = "read" /\ UNCHANGED <<lines, closed, deaf, taken, next, found, answer, stdout>>
    BY <1>5 DEF Notice, IgnoreNotification, Client
  <2>3. Handled = next - 1 /\ Handled' = next /\ line' = line
    BY <1>0, <2>2 DEF Handled, line
  <2>4. AnswersInOrder'
    <3>1. 1..Handled \subseteq 1..Handled'
      BY <1>0, <2>3
    <3>2. \A n \in 1..Handled' : n \in 1..Handled \/ n = next
      BY <1>0, <2>3
    <3> QED
      BY <2>1, <2>2, <3>1, <3>2 DEF IInv, AnswersInOrder, MayAnswer, Owed, line
  <2>5. AtWork'
    BY <2>2 DEF IInv, AtWork
  <2>6. TypeOK'
    BY <1>0, <2>2, <2>3 DEF IInv, TypeOK
  <2> QED
    BY <2>4, <2>5, <2>6 DEF IInv
<1>6. CASE StartTool
  <2>1. pc' = "tool" /\ UNCHANGED <<lines, closed, deaf, taken, next, stdout>>
    BY <1>6 DEF StartTool, Client
  <2>2. Handled' = Handled
    BY <1>0, <2>1 DEF Handled
  <2>3. AnswersInOrder' /\ (\E S : stdout' \in Seq(S)) /\ line' = line
    BY <2>1, <2>2, SameAnswers
  <2>4. AtWork'
    BY <1>6, <2>1, <2>3 DEF AtWork, StartTool, Handling
  <2>5. TypeOK'
    BY <1>0, <1>6, <2>1, <2>3 DEF IInv, TypeOK, StartTool
  <2> QED
    BY <2>3, <2>4, <2>5 DEF IInv
<1> QED
  BY <1>1, <1>2, <1>3, <1>4, <1>5, <1>6 DEF HandleRequest

-----------------------------------------------------------------------------
(* The steps of a tool.                                                    *)
LEMMA ToolInv == IInv /\ RunTool => IInv'
<1> SUFFICES ASSUME IInv, RunTool PROVE IInv'
  OBVIOUS
<1>0. pc = "tool" /\ line.kind = "json" /\ line.method = "tools/call"
  <2>1. pc = "tool"
    BY DEF RunTool, Parse, ParseFails, Analyze, MakePlan, PlanFails, ExplainFails,
           Optimize, Estimate, Columns, Bindings, FinishTool, Finds, Fails, Due
  <2> QED
    BY <2>1 DEF IInv, AtWork
<1>1. MayAnswer(line)
  BY <1>0, CallsAreAnswered
<1>2. ASSUME NEW stage, NEW result, Finds(stage, result) PROVE IInv'
  <2>1. UNCHANGED <<lines, closed, deaf, taken, next, pc, answer, stdout>>
    BY <1>2 DEF Finds, Client
  <2>2. Handled' = Handled
    BY <2>1 DEF Handled
  <2>3. AnswersInOrder' /\ (\E S : stdout' \in Seq(S)) /\ line' = line
    BY <2>1, <2>2, SameAnswers
  <2>4. AtWork'
    BY <1>0, <2>1, <2>3 DEF AtWork
  <2>5. TypeOK'
    BY <1>0, <2>1, <2>3 DEF IInv, TypeOK
  <2> QED
    BY <2>3, <2>4, <2>5 DEF IInv
<1>3. ASSUME NEW stage, NEW kind, Fails(stage, kind) PROVE IInv'
  BY <1>0, <1>1, <1>3, RespondInv DEF Fails, Failed
<1>4. CASE FinishTool
  BY <1>0, <1>1, <1>4, RespondInv DEF FinishTool, Result
<1>5. CASE ExplainFails
  BY <1>0, <1>1, <1>5, RespondInv DEF ExplainFails, Result
<1> QED
  BY <1>2, <1>3, <1>4, <1>5 DEF RunTool, Parse, ParseFails, Analyze, MakePlan, PlanFails,
                               Optimize, Estimate, Columns, Bindings

LEMMA NextInv == IInv /\ [Next]_vars => IInv'
<1> SUFFICES ASSUME IInv, [Next]_vars PROVE IInv'
  OBVIOUS
<1>1. ASSUME UNCHANGED vars PROVE IInv'
  BY <1>1 DEF vars, IInv, TypeOK, AtWork, AnswersInOrder, MayAnswer, Owed, Handled, line
<1>2. CASE EndOfInput
  <2>1. /\ pc = "read" /\ pc' = "stopped"
        /\ UNCHANGED <<lines, closed, deaf, taken, next, found, answer, stdout>>
    BY <1>2 DEF EndOfInput, Client
  <2>2. Handled' = Handled
    BY <2>1 DEF Handled
  <2>3. AnswersInOrder' /\ (\E S : stdout' \in Seq(S)) /\ line' = line
    BY <2>1, <2>2, SameAnswers
  <2>4. AtWork' /\ TypeOK'
    BY <2>1, <2>3 DEF IInv, TypeOK, AtWork
  <2> QED
    BY <2>3, <2>4 DEF IInv
<1> QED
  BY <1>1, <1>2, ClientInv, ReadInv, WriteInv, HandleInv, ToolInv DEF Next, Server, Done

(* The state has its type, whatever a client sends.                        *)
THEOREM McpTypeOK == Spec => []TypeOK
<1>1. IInv => TypeOK
  BY DEF IInv
<1> QED
  BY <1>1, InitInv, NextInv, PTL DEF Spec

(* Answers come in the order of the lines, with their ids, one for each    *)
(* line that must have one and none for a line that must not (the loop of  *)
(* main and handle_request), for any number of lines, any pipe and any     *)
(* steps of the client between those of the server.                        *)
THEOREM OneAnswerEachInOrder == Spec => []AnswersInOrder
<1>1. IInv => AnswersInOrder
  BY DEF IInv
<1> QED
  BY <1>1, InitInv, NextInv, PTL DEF Spec

-----------------------------------------------------------------------------
(* What an answer may say of a stage of a query, and which stage of it may *)
(* fail.                                                                   *)
FailsAt(q) ==
  IF q = NoQuery THEN "arguments" ELSE IF q \in Invalid THEN "parse"
                                  ELSE IF q \in Unplanned THEN "plan" ELSE "none"

Meaning(q, part) ==
  CASE part = "failed"   -> FailsAt(q)
    [] part = "parse"    -> "ok"
    [] part = "analyze"  -> Reported[q]
    [] part = "plan"     -> PlanOf[q]
    [] part = "optimize" -> OptimizeOf[PlanOf[q]]
    [] part = "estimate" -> EstimateOf[OptimizeOf[PlanOf[q]]]
    [] part = "columns"  -> ColumnsOf[OptimizeOf[PlanOf[q]]]
    [] part = "bindings" -> BindingsOf[Reported[q]]
    [] OTHER -> "none"

SaysOf(body, q) ==
  /\ \A part \in DOMAIN body : body[part] = Meaning(q, part)
  /\ q = NoQuery \/ q \in Invalid => DOMAIN body = {"failed"}
  /\ q \in Unplanned => DOMAIN body \cap PlanParts = {}

IsCall(l) == l.method = "tools/call" /\ l.tool \in DOMAIN Stages

(* The results of the stages that have run, and the answers so far.        *)
FoundSays ==
  pc = "tool" =>
    /\ \A stage \in DOMAIN found : found[stage] = Meaning(line.query, stage)
    /\ line.query \in Invalid => DOMAIN found = {}
    /\ line.query \in Unplanned => DOMAIN found \cap PlanParts = {}

AnswerSays == pc = "write" /\ IsCall(line) => SaysOf(answer.body, line.query)

OutputSays ==
  \A i \in 1..Len(stdout) :
    IsCall(lines[stdout[i].to]) => SaysOf(stdout[i].body, lines[stdout[i].to].query)

ToolsInv == FoundSays /\ AnswerSays /\ OutputSays

LEMMA AgreeIfMeant == IInv /\ ToolsInv => ToolsAgree
<1> SUFFICES ASSUME IInv, ToolsInv,
                    NEW i \in 1..Len(stdout), NEW j \in 1..Len(stdout),
                    IsCall(lines[stdout[i].to]), IsCall(lines[stdout[j].to]),
                    lines[stdout[i].to].query = lines[stdout[j].to].query
             PROVE  LET s == stdout[i].body
                        t == stdout[j].body
                    IN  /\ \A part \in DOMAIN s \cap DOMAIN t : s[part] = t[part]
                        /\ "failed" \in DOMAIN s /\ s["failed"] = "parse" =>
                             DOMAIN t = {"failed"}
                        /\ "failed" \in DOMAIN s /\ s["failed"] = "plan" =>
                             DOMAIN t \cap PlanParts = {}
  BY DEF ToolsAgree, IsCall
<1> DEFINE q == lines[stdout[i].to].query
<1>1. SaysOf(stdout[i].body, q) /\ SaysOf(stdout[j].body, q)
  BY DEF ToolsInv, OutputSays
<1>2. /\ Meaning(q, "failed") = "parse" => q \in Invalid
      /\ Meaning(q, "failed") = "plan" => q \in Unplanned
  BY DEF Meaning, FailsAt
<1> HIDE DEF q
<1> QED
  BY <1>1, <1>2 DEF SaysOf

(* The order of the stages in every tool.                                  *)
LEMMA StageLists ==
  ASSUME line.tool \in DOMAIN Stages
  PROVE  ToolStages(line) \in
           {<<"parse">>, <<"parse", "analyze">>, <<"parse", "plan">>,
            <<"parse", "plan", "optimize">>, <<"parse", "analyze", "bindings">>,
            <<"parse", "analyze", "plan", "optimize", "estimate", "columns", "bindings">>,
            <<"parse", "plan", "optimize", "estimate">>,
            <<"parse", "plan", "optimize", "columns">>}
BY DEF ToolStages, Stages

LEMMA StartsWithParse ==
  ASSUME line.tool \in DOMAIN Stages
  PROVE  1 \in 1..Len(ToolStages(line)) /\ ToolStages(line)[1] = "parse"
<1> DEFINE stages == ToolStages(line)
<1>1. ASSUME NEW s, s = stages PROVE 1 \in 1..Len(s) /\ s[1] = "parse"
  BY <1>1, StageLists
<1> QED
  BY <1>1

LEMMA Earlier ==
  ASSUME line.tool \in DOMAIN Stages, NEW stage, Due(stage)
  PROVE  /\ stage \notin DOMAIN found
         /\ stage # "parse" => "parse" \in DOMAIN found
         /\ stage = "optimize" => "plan" \in DOMAIN found
         /\ stage \in {"estimate", "columns"} => "optimize" \in DOMAIN found
         /\ stage = "bindings" => "analyze" \in DOMAIN found
         /\ stage = "plan" /\ line.tool = "cypher_explain" => "analyze" \in DOMAIN found
<1> DEFINE stages == ToolStages(line)
<1>1. PICK i \in 1..Len(stages) :
        /\ stages[i] = stage /\ stage \notin DOMAIN found
        /\ \A j \in 1..(i - 1) : stages[j] \in DOMAIN found
  BY DEF Due
<1>2. stages \in {<<"parse">>, <<"parse", "analyze">>, <<"parse", "plan">>,
                  <<"parse", "plan", "optimize">>, <<"parse", "analyze", "bindings">>,
                  <<"parse", "analyze", "plan", "optimize", "estimate", "columns", "bindings">>,
                  <<"parse", "plan", "optimize", "estimate">>,
                  <<"parse", "plan", "optimize", "columns">>}
  BY StageLists
<1>0. line.tool = "cypher_explain" => stages[2] = "analyze" /\ stages[3] = "plan"
                                     /\ Len(stages) = 7
  BY DEF ToolStages, Stages
<1> HIDE DEF stages
<1>3. CASE stages = <<"parse">>
  BY <1>0, <1>1, <1>3
<1>4. CASE stages = <<"parse", "analyze">>
  BY <1>0, <1>1, <1>4
<1>5. CASE stages = <<"parse", "plan">>
  BY <1>0, <1>1, <1>5
<1>6. CASE stages = <<"parse", "plan", "optimize">>
  BY <1>0, <1>1, <1>6
<1>7. CASE stages = <<"parse", "analyze", "plan", "optimize", "estimate", "columns", "bindings">>
  BY <1>1, <1>7
<1>8. CASE stages = <<"parse", "plan", "optimize", "estimate">>
  BY <1>0, <1>1, <1>8
<1>9. CASE stages = <<"parse", "plan", "optimize", "columns">>
  BY <1>0, <1>1, <1>9
<1>10. CASE stages = <<"parse", "analyze", "bindings">>
  BY <1>0, <1>1, <1>10
<1> QED
  BY <1>2, <1>3, <1>4, <1>5, <1>6, <1>7, <1>8, <1>9, <1>10

(* Every step keeps what the results and the answers say.                  *)
LEMMA SameOutput ==
  ASSUME IInv, OutputSays, stdout' = stdout,
         \A n \in 1..Handled : lines'[n] = lines[n]
  PROVE  OutputSays'
<1>1. \A i \in 1..Len(stdout) : lines'[stdout[i].to] = lines[stdout[i].to]
  BY SMTT(30) DEF IInv, AnswersInOrder
<1> DEFINE Says(l, body) == IsCall(l) => SaysOf(body, l.query)
<1>2. OutputSays <=> \A i \in 1..Len(stdout) : Says(lines[stdout[i].to], stdout[i].body)
  BY DEF OutputSays
<1>3. OutputSays' <=> \A i \in 1..Len(stdout') : Says(lines'[stdout'[i].to], stdout'[i].body)
  BY DEF OutputSays, IsCall, SaysOf, Meaning, FailsAt
<1> HIDE DEF Says
<1> QED
  BY <1>1, <1>2, <1>3

LEMMA RespondSays ==
  ASSUME IInv, ToolsInv, NEW kind, NEW id, NEW body, Respond(kind, id, body),
         UNCHANGED <<Client, next, stdout>>,
         IsCall(line) => SaysOf(body, line.query)
  PROVE  ToolsInv'
<1>1. pc' = "write" /\ UNCHANGED <<lines, next, stdout>> /\ answer'.body = body
  BY DEF Respond, Answer, Client
<1>2. OutputSays'
  BY <1>1, SameOutput DEF ToolsInv
<1>3. AnswerSays'
  BY <1>1 DEF AnswerSays, line, IsCall, SaysOf, Meaning, FailsAt
<1>4. FoundSays'
  BY <1>1 DEF FoundSays
<1> QED
  BY <1>2, <1>3, <1>4 DEF ToolsInv

(* Steps after which the server is at no tool and has nothing to write.    *)
LEMMA IdleSays ==
  ASSUME IInv, ToolsInv, UNCHANGED <<lines, stdout>>,
         pc' \notin {"tool", "write"}
  PROVE  ToolsInv'
<1>1. OutputSays'
  BY SameOutput DEF ToolsInv
<1> QED
  BY <1>1 DEF ToolsInv, FoundSays, AnswerSays

LEMMA ClientSays == IInv /\ ToolsInv /\ ClientStep => ToolsInv'
<1> SUFFICES ASSUME IInv, ToolsInv, ClientStep PROVE ToolsInv'
  OBVIOUS
<1>1. /\ UNCHANGED <<next, pc, found, answer, stdout>>
      /\ lines' = lines \/ \E l \in Lines : lines' = Append(lines, l)
  BY DEF ClientStep, Send, Close, Take, StopListening
<1>2. \A n \in 1..next : lines'[n] = lines[n]
  BY <1>1 DEF IInv, TypeOK
<1>3. pc \in {"tool", "write"} => line' = line
  BY <1>1, <1>2 DEF IInv, TypeOK, line
<1>4. \A n \in 1..Handled : lines'[n] = lines[n]
  BY <1>2 DEF IInv, TypeOK, Handled
<1>5. OutputSays'
  BY <1>1, <1>4, SameOutput DEF ToolsInv
<1>6. FoundSays'
  BY <1>1, <1>3 DEF ToolsInv, FoundSays, Meaning, FailsAt
<1>7. AnswerSays'
  BY <1>1, <1>3 DEF ToolsInv, AnswerSays, IsCall, SaysOf, Meaning, FailsAt
<1> QED
  BY <1>5, <1>6, <1>7 DEF ToolsInv

LEMMA WriteSays == IInv /\ ToolsInv /\ Write => ToolsInv'
<1> SUFFICES ASSUME IInv, ToolsInv, Write PROVE ToolsInv'
  OBVIOUS
<1>1. pc = "write" /\ pc' = "read" /\ lines' = lines
  BY DEF Write, Client
<1>2. PICK S : stdout \in Seq(S)
  BY DEF IInv, AtWork
<1>3. CASE deaf
  BY <1>1, <1>3, IdleSays DEF Write
<1>4. CASE ~deaf
  <2>1. /\ Len(stdout') = Len(stdout) + 1
        /\ \A i \in 1..Len(stdout) : stdout'[i] = stdout[i]
        /\ stdout'[Len(stdout) + 1] = answer
    BY <1>2, <1>4, AppendTo DEF Write
  <2>2. answer.to = next /\ (IsCall(lines[next]) => SaysOf(answer.body, lines[next].query))
    BY <1>1 DEF IInv, AtWork, ToolsInv, AnswerSays, line
  <2>3. Len(stdout) \in Nat
    BY <1>2
  <2>4. \A i \in 1..Len(stdout') : i \in 1..Len(stdout) \/ i = Len(stdout) + 1
    BY <2>1, <2>3
  <2>5. ASSUME NEW i \in 1..Len(stdout'), IsCall(lines[stdout'[i].to])
        PROVE  SaysOf(stdout'[i].body, lines[stdout'[i].to].query)
    BY <2>1, <2>2, <2>4, <2>5, SMTT(30) DEF ToolsInv, OutputSays
  <2>6. OutputSays'
    BY <1>1, <2>5, ZenonT(30) DEF OutputSays, SaysOf, Meaning, FailsAt
  <2> QED
    BY <1>1, <2>6 DEF ToolsInv, FoundSays, AnswerSays
<1> QED
  BY <1>3, <1>4

LEMMA HandleSays == IInv /\ ToolsInv /\ HandleRequest => ToolsInv'
<1> SUFFICES ASSUME IInv, ToolsInv, HandleRequest PROVE ToolsInv'
  OBVIOUS
<1>0. line \in Lines
  BY DEF IInv, TypeOK, line, HandleRequest, BadJson, Immediate, Notice, MethodNotFound,
         Unknown, IgnoreNotification, NoSuchTool, StartTool, Handling
<1>1. CASE BadJson
  <2>1. ~IsCall(line)
    BY <1>0, <1>1, MalformedLine DEF IsCall
  <2> QED
    BY <1>1, <2>1, RespondSays DEF BadJson
<1>2. CASE Immediate
  <2>1. ~IsCall(line)
    BY <1>2 DEF Immediate, Handling, IsCall
  <2> QED
    BY <1>2, <2>1, RespondSays DEF Immediate, Result
<1>3. CASE MethodNotFound
  <2>1. ~IsCall(line)
    BY <1>3 DEF MethodNotFound, Unknown, Methods, IsCall
  <2> QED
    BY <1>3, <2>1, RespondSays DEF MethodNotFound
<1>4. CASE NoSuchTool
  <2> DEFINE body == [failed |-> "arguments"]
  <2>1. Respond("isError", line.id, body) /\ UNCHANGED <<Client, next, stdout>>
    BY <1>4 DEF NoSuchTool, Failed
  <2>2. IsCall(line) => line.query = NoQuery
    BY <1>4 DEF NoSuchTool, IsCall
  <2>3. IsCall(line) => SaysOf(body, line.query)
    BY <2>2 DEF SaysOf, Meaning, FailsAt, PlanParts
  <2> QED
    BY <2>1, <2>3, RespondSays
<1>5. CASE Notice \/ IgnoreNotification
  BY <1>5, IdleSays DEF Notice, IgnoreNotification, Client
<1>6. CASE StartTool
  <2>1. pc' = "tool" /\ UNCHANGED <<lines, stdout>> /\ DOMAIN found' = {}
    BY <1>6 DEF StartTool, Client
  <2>2. OutputSays'
    BY <2>1, SameOutput DEF ToolsInv
  <2> QED
    BY <2>1, <2>2 DEF ToolsInv, FoundSays, AnswerSays
<1> QED
  BY <1>1, <1>2, <1>3, <1>4, <1>5, <1>6 DEF HandleRequest

LEMMA ToolSays == IInv /\ ToolsInv /\ RunTool => ToolsInv'
<1> SUFFICES ASSUME IInv, ToolsInv, RunTool PROVE ToolsInv'
  OBVIOUS
<1> DEFINE q == line.query
<1>0. pc = "tool" /\ line.tool \in DOMAIN Stages /\ q # NoQuery
  <2>1. pc = "tool"
    BY DEF RunTool, Parse, ParseFails, Analyze, MakePlan, PlanFails, ExplainFails,
           Optimize, Estimate, Columns, Bindings, FinishTool, Finds, Fails, Due
  <2> QED
    BY <2>1 DEF IInv, TypeOK
<1>1. /\ \A stage \in DOMAIN found : found[stage] = Meaning(q, stage)
      /\ q \in Invalid => DOMAIN found = {}
      /\ q \in Unplanned => DOMAIN found \cap PlanParts = {}
  BY <1>0 DEF ToolsInv, FoundSays
<1>2. ASSUME NEW stage, Finds(stage, Meaning(q, stage)),
             stage = "parse" => q \notin Invalid, stage = "plan" => q \notin Unplanned
      PROVE  ToolsInv'
  <2>1. /\ UNCHANGED <<lines, next, pc, stdout>> /\ Due(stage)
        /\ found' = [s \in DOMAIN found \cup {stage} |->
                        IF s = stage THEN Meaning(q, stage) ELSE found[s]]
    BY <1>2 DEF Finds, Client
  <2>2. q \notin Invalid
    BY <1>0, <1>1, <1>2, <2>1, Earlier
  <2>3. line' = line
    BY <2>1 DEF line
  <2>4. OutputSays'
    BY <2>1, SameOutput DEF ToolsInv
  <2>5. \A s \in DOMAIN found' : found'[s] = Meaning(q, s)
    BY <1>1, <2>1
  <2>6. q \in Unplanned => DOMAIN found' \cap PlanParts = {}
    <3> SUFFICES ASSUME q \in Unplanned PROVE stage \notin PlanParts
      BY <1>1, <2>1
    <3> QED
      BY <1>0, <1>1, <1>2, <2>1, Earlier DEF PlanParts
  <2>7. FoundSays'
    BY <2>2, <2>3, <2>5, <2>6 DEF FoundSays, Meaning, FailsAt
  <2> QED
    BY <1>0, <2>1, <2>4, <2>7 DEF ToolsInv, AnswerSays
<1>3. ASSUME NEW stage, NEW kind, Fails(stage, kind),
             \/ stage = "parse" /\ q \in Invalid
             \/ stage = "plan" /\ q \in Unplanned
      PROVE  ToolsInv'
  <2> DEFINE body == [failed |-> stage]
  <2>1. Due(stage)
    BY <1>3 DEF Fails
  <2>2. q \in Invalid => stage = "parse"
    BY <1>0, <1>1, <2>1, Earlier
  <2>3. SaysOf(body, q)
    BY <1>0, <1>3, <2>2 DEF SaysOf, Meaning, FailsAt, PlanParts
  <2>4. Respond(kind, line.id, body) /\ UNCHANGED <<Client, next, stdout>>
    BY <1>3 DEF Fails, Failed
  <2> QED
    BY <2>3, <2>4, RespondSays
<1>4. CASE FinishTool
  <2> DEFINE body == [s \in DOMAIN found \cap Shown(line) |-> found[s]]
  <2>1. "parse" \in DOMAIN found
    BY <1>0, <1>4, StartsWithParse DEF FinishTool
  <2>2. SaysOf(body, q)
    BY <1>0, <1>1, <2>1 DEF SaysOf, PlanParts
  <2>3. Respond("result", line.id, body) /\ UNCHANGED <<Client, next, stdout>>
    BY <1>4 DEF FinishTool, Result
  <2> QED
    BY <2>2, <2>3, RespondSays
<1>5. Due("optimize") => Plan = PlanOf[q]
  <2> SUFFICES ASSUME Due("optimize") PROVE Plan = PlanOf[q]
    OBVIOUS
  <2>1. "optimize" \notin DOMAIN found /\ "plan" \in DOMAIN found
    BY <1>0, Earlier
  <2>2. found["plan"] = Meaning(q, "plan")
    BY <1>1, <2>1
  <2> QED
    BY <2>1, <2>2 DEF Plan, Meaning
<1>6. Due("estimate") \/ Due("columns") => Plan = OptimizeOf[PlanOf[q]]
  <2> SUFFICES ASSUME Due("estimate") \/ Due("columns") PROVE Plan = OptimizeOf[PlanOf[q]]
    OBVIOUS
  <2>1. "optimize" \in DOMAIN found
    BY <1>0, Earlier
  <2> QED
    BY <1>1, <2>1 DEF Plan, Meaning
<1>7. CASE Parse
  <2>1. Finds("parse", Meaning(q, "parse")) /\ q \notin Invalid
    BY <1>7 DEF Parse, Query, Meaning
  <2> QED
    BY <1>2, <2>1
<1>8. CASE ParseFails
  BY <1>3, <1>8 DEF ParseFails, Query
<1>9. CASE Analyze
  <2>1. Finds("analyze", Meaning(q, "analyze"))
    BY <1>9 DEF Analyze, Query, Meaning
  <2> QED
    BY <1>2, <2>1
<1>10. CASE MakePlan
  <2>1. Finds("plan", Meaning(q, "plan")) /\ q \notin Unplanned
    BY <1>10 DEF MakePlan, Query, Meaning
  <2> QED
    BY <1>2, <2>1
<1>11. CASE PlanFails
  BY <1>3, <1>11 DEF PlanFails, Query
<1>12. CASE Optimize
  <2>1. Due("optimize")
    BY <1>12 DEF Optimize, Finds
  <2>2. Finds("optimize", Meaning(q, "optimize"))
    BY <1>5, <1>12, <2>1 DEF Optimize, Meaning
  <2> QED
    BY <1>2, <2>2
<1>13. CASE Estimate
  <2>1. Due("estimate")
    BY <1>13 DEF Estimate, Finds
  <2>2. Finds("estimate", Meaning(q, "estimate"))
    BY <1>6, <1>13, <2>1 DEF Estimate, Meaning
  <2> QED
    BY <1>2, <2>2
<1>14. CASE Columns
  <2>1. Due("columns")
    BY <1>14 DEF Columns, Finds
  <2>2. Finds("columns", Meaning(q, "columns"))
    BY <1>6, <1>14, <2>1 DEF Columns, Meaning
  <2> QED
    BY <1>2, <2>2
<1>15. CASE Bindings
  <2>1. Due("bindings")
    BY <1>15 DEF Bindings, Finds
  <2>2. found["analyze"] = Reported[q]
    BY <1>0, <1>1, <2>1, Earlier DEF Meaning
  <2>3. Finds("bindings", Meaning(q, "bindings"))
    BY <1>15, <2>2 DEF Bindings, Meaning
  <2> QED
    BY <1>2, <2>3
<1>16. CASE ExplainFails
  <2> DEFINE body == [failed |-> "plan", analyze |-> found["analyze"]]
  <2>1. /\ Due("plan") /\ q \in Unplanned /\ line.tool = "cypher_explain"
        /\ Respond("result", line.id, body) /\ UNCHANGED <<Client, next, stdout>>
    BY <1>16 DEF ExplainFails, Result, Query
  <2>2. "analyze" \in DOMAIN found /\ "parse" \in DOMAIN found
    BY <1>0, <2>1, Earlier
  <2>3. q \notin Invalid /\ found["analyze"] = Reported[q]
    BY <1>1, <2>2 DEF Meaning
  <2>4. SaysOf(body, q)
    BY <1>0, <2>1, <2>3 DEF SaysOf, Meaning, FailsAt, PlanParts
  <2> QED
    BY <2>1, <2>4, RespondSays
<1> QED
  BY <1>4, <1>7, <1>8, <1>9, <1>10, <1>11, <1>12, <1>13, <1>14, <1>15, <1>16 DEF RunTool

LEMMA NextSays == IInv /\ ToolsInv /\ [Next]_vars => ToolsInv'
<1> SUFFICES ASSUME IInv, ToolsInv, [Next]_vars PROVE ToolsInv'
  OBVIOUS
<1>1. ASSUME UNCHANGED vars PROVE ToolsInv'
  <2>1. UNCHANGED <<lines, next, pc, found, answer, stdout>>
    BY <1>1 DEF vars
  <2>2. OutputSays'
    BY <2>1, SameOutput DEF ToolsInv
  <2>3. FoundSays'
    BY <2>1 DEF ToolsInv, FoundSays, Meaning, FailsAt, line
  <2>4. AnswerSays'
    BY <2>1 DEF ToolsInv, AnswerSays, IsCall, SaysOf, Meaning, FailsAt, line
  <2> QED
    BY <2>2, <2>3, <2>4 DEF ToolsInv
<1>2. CASE ReadLine
  BY <1>2, IdleSays DEF ReadLine, Client
<1>3. CASE EndOfInput
  BY <1>3, IdleSays DEF EndOfInput, Client
<1> QED
  BY <1>1, <1>2, <1>3, ClientSays, WriteSays, HandleSays, ToolSays DEF Next, Server, Done

(* Whatever two calls ask of the same query, and whatever the pipeline     *)
(* makes of it, their answers do not contradict each other (dispatch and   *)
(* tool_parse ... tool_columns), the analysis that cypher_explain returns  *)
(* of a query without a plan included.                                     *)
THEOREM ToolsAlwaysAgree == Spec => []ToolsAgree
<1>1. Init => IInv /\ ToolsInv
  <2>1. Init => Len(stdout) = 0 /\ pc = "read"
    BY DEF Init
  <2> QED
    BY <2>1, InitInv DEF ToolsInv, FoundSays, AnswerSays, OutputSays
<1>2. IInv /\ ToolsInv /\ [Next]_vars => IInv' /\ ToolsInv'
  BY NextInv, NextSays
<1>3. IInv /\ ToolsInv => ToolsAgree
  BY AgreeIfMeant
<1> QED
  BY <1>1, <1>2, <1>3, PTL DEF Spec
=============================================================================
