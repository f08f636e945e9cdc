----------------------------- MODULE Placement ------------------------------
(***************************************************************************)
(* validate_clause_placement and validate_branch_placement of              *)
(* src/src/parser.rs: the walk over the clauses of a parsed statement that *)
(* decides whether modifiers follow what they modify.  The grammar accepts *)
(* the clauses of a branch in any order; this walk is the only place where *)
(* the order is checked, and every later stage relies on it.               *)
(*                                                                         *)
(* A clause is its kind.  The walk keeps, as the code does, whether a      *)
(* MATCH is waiting for its WHERE, and the projection whose modifiers may  *)
(* still come, with the modifiers it has had.                              *)
(***************************************************************************)
EXTENDS ClauseOrder

CONSTANT Statements   \* the clause lists the grammar lets through

ASSUME StatementsAssumption == Statements \subseteq Seq(ClauseKinds)

VARIABLES
  query,      \* the clauses
  pos,        \* the clause the walk looks at
  matchWhere, \* match_where_available
  owner,      \* the kind of projection, "None" without one
  seen,       \* the modifiers that projection has had
  entered,    \* validate_branch_placement is past its check of START
  verdict

vars == <<query, pos, matchWhere, owner, seen, entered, verdict>>

(* The slice a branch is ends before the next UNION, or with the list.     *)
InBranch(i) == i \in pos..Len(query) /\ \A j \in pos..i : query[j] # "Union"

At(kinds) ==
  verdict = "running" /\ entered /\ pos \in 1..Len(query) /\ query[pos] \in kinds

Reject(message) ==
  /\ verdict' = message
  /\ UNCHANGED <<query, pos, matchWhere, owner, seen, entered>>

(* A new branch: START anywhere but first is refused before anything else. *)
EnterBranch ==
  /\ verdict = "running" /\ ~entered
  /\ IF \E i \in pos..Len(query) : i > pos /\ InBranch(i) /\ query[i] = "Start"
     THEN Reject("START must be the first clause")
     ELSE /\ entered' = TRUE
          /\ matchWhere' = FALSE /\ owner' = "None" /\ seen' = {}
          /\ UNCHANGED <<query, pos, verdict>>

(* One iteration of the loop that accepts the clause.                      *)
Accept(newMatchWhere, newOwner, newSeen) ==
  /\ pos' = pos + 1
  /\ matchWhere' = newMatchWhere /\ owner' = newOwner /\ seen' = newSeen
  /\ UNCHANGED <<query, entered, verdict>>

Where ==
  /\ At({"Where"})
  /\ IF matchWhere THEN Accept(FALSE, owner, seen)
     ELSE IF owner # "With" \/ "Where" \in seen
     THEN Reject("WHERE must follow MATCH or WITH")
     ELSE Accept(FALSE, owner, seen \cup {"Where"})

OrderBy ==
  /\ At({"OrderBy"})
  /\ IF owner = "None" THEN Reject("ORDER BY must follow WITH or RETURN")
     ELSE IF seen # {}
     THEN Reject("ORDER BY must precede SKIP, LIMIT, and WHERE")
     ELSE Accept(matchWhere, owner, seen \cup {"OrderBy"})

(* Definitions named a bug are what the code could get wrong; nothing uses *)
(* them, and the properties of this module tell them apart.                *)
(* Bug: SKIP after LIMIT.                                                  *)
BugSkip ==
  /\ At({"Skip"})
  /\ IF owner = "None" THEN Reject("SKIP must follow WITH or RETURN")
     ELSE IF seen \cap {"Skip", "Where"} # {}
     THEN Reject("SKIP must precede LIMIT and WHERE")
     ELSE Accept(matchWhere, owner, seen \cup {"Skip"})

Skip ==
  /\ At({"Skip"})
  /\ IF owner = "None" THEN Reject("SKIP must follow WITH or RETURN")
     ELSE IF seen \cap {"Skip", "Limit", "Where"} # {}
     THEN Reject("SKIP must precede LIMIT and WHERE")
     ELSE Accept(matchWhere, owner, seen \cup {"Skip"})

(* Bug: LIMIT comes first or not at all, as ORDER BY does.                 *)
BugLimit ==
  /\ At({"Limit"})
  /\ IF owner = "None" THEN Reject("LIMIT must follow WITH or RETURN")
     ELSE IF seen # {} THEN Reject("LIMIT must precede WHERE")
     ELSE Accept(matchWhere, owner, seen \cup {"Limit"})

Limit ==
  /\ At({"Limit"})
  /\ IF owner = "None" THEN Reject("LIMIT must follow WITH or RETURN")
     ELSE IF seen \cap {"Limit", "Where"} # {}
     THEN Reject("LIMIT must precede WHERE")
     ELSE Accept(matchWhere, owner, seen \cup {"Limit"})

(* Bug: every clause owns the modifiers after it.                          *)
BugClauseOwns ==
  /\ At(ClauseKinds \ (Modifiers \cup {"Union"}))
  /\ IF owner = "Return" THEN Reject("RETURN must terminate a UNION branch")
     ELSE Accept(query[pos] = "Match", query[pos], {})

(* Bug: a projection starts with the modifiers of the one before it.       *)
BugClauseKeepsSeen ==
  /\ At(ClauseKinds \ (Modifiers \cup {"Union"}))
  /\ IF owner = "Return" THEN Reject("RETURN must terminate a UNION branch")
     ELSE Accept(query[pos] = "Match",
                 IF query[pos] \in {"With", "Return"} THEN query[pos] ELSE "None",
                 seen)

(* Any other clause; nothing but modifiers may follow a RETURN.            *)
Clause ==
  /\ At(ClauseKinds \ (Modifiers \cup {"Union"}))
  /\ IF owner = "Return" THEN Reject("RETURN must terminate a UNION branch")
     ELSE Accept(query[pos] = "Match",
                 IF query[pos] \in {"With", "Return"} THEN query[pos] ELSE "None",
                 {})

(* Bug: the next slice starts at the UNION, not after it.                  *)
BugNextBranch ==
  /\ At({"Union"})
  /\ entered' = FALSE
  /\ UNCHANGED <<query, pos, matchWhere, owner, seen, verdict>>

(* The slice is validated: on to the branch after the UNION.               *)
NextBranch ==
  /\ At({"Union"})
  /\ pos' = pos + 1
  /\ entered' = FALSE
  /\ UNCHANGED <<query, matchWhere, owner, seen, verdict>>

Finish ==
  /\ verdict = "running" /\ entered /\ pos > Len(query)
  /\ verdict' = "accepted"
  /\ UNCHANGED <<query, pos, matchWhere, owner, seen, entered>>

Returned == verdict # "running" /\ UNCHANGED vars

Init ==
  /\ query \in Statements
  /\ pos = 1
  /\ matchWhere = FALSE /\ owner = "None" /\ seen = {} /\ entered = FALSE
  /\ verdict = "running"

Walk == Where \/ OrderBy \/ Skip \/ Limit \/ Clause

Work == EnterBranch \/ Walk \/ NextBranch \/ Finish

Next == Work \/ Returned

Spec == Init /\ [][Next]_vars /\ WF_vars(Work)

-----------------------------------------------------------------------------
Messages ==
  {"START must be the first clause", "WHERE must follow MATCH or WITH",
   "ORDER BY must follow WITH or RETURN",
   "ORDER BY must precede SKIP, LIMIT, and WHERE",
   "SKIP must follow WITH or RETURN", "SKIP must precede LIMIT and WHERE",
   "LIMIT must follow WITH or RETURN", "LIMIT must precede WHERE",
   "RETURN must terminate a UNION branch"}

TypeOK ==
  /\ query \in Seq(ClauseKinds)
  /\ pos \in 1..(Len(query) + 1)
  /\ matchWhere \in BOOLEAN
  /\ owner \in {"None", "With", "Return"}
  /\ seen \in SUBSET Modifiers
  /\ entered \in BOOLEAN
  /\ verdict \in {"running", "accepted"} \cup Messages

(* The walk, which remembers three things about the clauses behind it,     *)
(* accepts exactly the statements in which every clause is in its place,   *)
(* in every branch of a UNION.                                             *)
AcceptsWellPlaced == verdict = "accepted" => WellPlaced(query)

RejectsMisplaced == verdict \in Messages => ~WellPlaced(query)

(* The message is about the clause the walk stopped at: it is the first    *)
(* one out of place, unless a START further on was refused beforehand.     *)
BlamesTheFirst ==
  verdict \in Messages \ {"START must be the first clause"} =>
    /\ ~WellPlacedAt(query, pos)
    /\ \A i \in 1..(pos - 1) : WellPlacedAt(query, i)

Decides == <>(verdict # "running")
=============================================================================
