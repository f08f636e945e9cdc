-------------------------- MODULE PlacementProofs ---------------------------
(***************************************************************************)
(* The walk of validate_branch_placement decides WellPlaced, for every     *)
(* list of clauses.                                                        *)
(*                                                                         *)
(* The walk forgets the clauses behind it.  The inductive invariant says   *)
(* what the three things it remembers mean of them.                        *)
(***************************************************************************)
EXTENDS Placement, TLAPS

Running == verdict = "running"

(* What the walk has passed is in its place.                               *)
PlacedSoFar == Running => \A i \in 1..(pos - 1) : WellPlacedAt(query, i)

(* Ahead of it in the branch is no START, unless the branch begins here.   *)
NoStartAhead ==
  Running /\ entered =>
    \A i \in pos..Len(query) :
      query[i] = "Start" /\ InBranch(i) => i = pos /\ BeginsBranch(query, pos)

AtBranch == Running /\ ~entered => BeginsBranch(query, pos)

Since(h) == {query[j] : j \in (h + 1)..(pos - 1)}

(* matchWhere, owner and seen, if the walk is after the modifiers of h.    *)
Remembers(h) ==
  /\ matchWhere = (query[h] = "Match" /\ h = pos - 1)
  /\ query[h] = "Match" /\ h # pos - 1 => "Where" \in Since(h)
  /\ query[h] \in {"With", "Return"} => owner = query[h] /\ seen = Since(h)
  /\ query[h] \notin {"With", "Return"} => owner = "None"

RemembersNothing ==
  /\ \A h \in 1..(pos - 1) : ~HeadOf(query, h, pos)
  /\ ~matchWhere /\ owner = "None"

RemembersHead ==
  Running /\ entered =>
    \/ RemembersNothing
    \/ \E h \in 1..(pos - 1) : HeadOf(query, h, pos) /\ Remembers(h)

Behind ==
  /\ TypeOK
  /\ PlacedSoFar
  /\ NoStartAhead
  /\ AtBranch
  /\ RemembersHead
  /\ AcceptsWellPlaced
  /\ RejectsMisplaced
  /\ BlamesTheFirst

-----------------------------------------------------------------------------
(***************************************************************************)
(* The reference.                                                          *)
(***************************************************************************)
LEMMA RankFacts ==
  /\ Rank["OrderBy"] = 1 /\ Rank["Skip"] = 2
  /\ Rank["Limit"] = 3 /\ Rank["Where"] = 4
  BY DEF Rank, Modifiers

LEMMA AllowedFacts ==
  /\ Allowed("Match") = {"Where"}
  /\ Allowed("With") = Modifiers
  /\ Allowed("Return") = {"OrderBy", "Skip", "Limit"}
  /\ \A k : k \notin {"Match", "With", "Return"} => Allowed(k) = {}
<1>1. /\ Allowed("Match") = {"Where"}
      /\ Allowed("With") = Modifiers
      /\ Allowed("Return") = {"OrderBy", "Skip", "Limit"}
  BY DEF Allowed
<1>2. ASSUME NEW k, k \notin {"Match", "With", "Return"} PROVE Allowed(k) = {}
  BY <1>2 DEF Allowed
<1> QED BY <1>1, <1>2

(* A clause has at most one head.                                          *)
LEMMA HeadUnique ==
  ASSUME NEW q, NEW i \in Nat, NEW h, NEW g, HeadOf(q, h, i), HeadOf(q, g, i)
  PROVE  h = g
<1>1. h \in 1..(i - 1) /\ g \in 1..(i - 1) BY DEF HeadOf
<1>2. ~ (h < g) BY <1>1 DEF HeadOf
<1>3. ~ (g < h) BY <1>1 DEF HeadOf
<1> QED BY <1>1, <1>2, <1>3

(* After a modifier, the head is the one it has.                           *)
LEMMA HeadOfModifier ==
  ASSUME NEW q, NEW i \in Nat \ {0}, NEW h, q[i] \in Modifiers
  PROVE  HeadOf(q, h, i + 1) <=> HeadOf(q, h, i)
<1>1. (i + 1) - 1 = i OBVIOUS
<1>2. ASSUME HeadOf(q, h, i + 1) PROVE HeadOf(q, h, i)
  <2>1. h \in 1..i /\ q[h] \notin Modifiers
    BY <1>1, <1>2 DEF HeadOf
  <2>2. h # i BY <2>1
  <2> QED BY <1>1, <1>2, <2>1, <2>2 DEF HeadOf
<1>3. ASSUME HeadOf(q, h, i) PROVE HeadOf(q, h, i + 1)
  BY <1>1, <1>3 DEF HeadOf
<1> QED BY <1>2, <1>3

(* After any other clause, the head is that clause.                        *)
LEMMA HeadOfOther ==
  ASSUME NEW q, NEW i \in Nat \ {0}, q[i] \notin Modifiers
  PROVE  HeadOf(q, i, i + 1)
  BY DEF HeadOf

-----------------------------------------------------------------------------
(***************************************************************************)
(* What the walk remembers is enough to judge the clause it looks at.      *)
(***************************************************************************)
(* The guards of Where, OrderBy, Skip and Limit, in one formula.           *)
Fits ==
  IF query[pos] = "Where"
  THEN matchWhere \/ (owner = "With" /\ "Where" \notin seen)
  ELSE owner # "None" /\ \A k \in seen : Rank[k] < Rank[query[pos]]

LEMMA ModifierFits ==
  ASSUME TypeOK, RemembersHead, Running, entered,
         pos \in 1..Len(query), query[pos] \in Modifiers
  PROVE  Fits <=> FollowsItsHead(query, pos)
<1> DEFINE m == query[pos]
<1>0. pos \in Nat BY DEF TypeOK
<1>1. CASE RemembersNothing
  <2>1. ~FollowsItsHead(query, pos) BY <1>1 DEF RemembersNothing, FollowsItsHead
  <2>2. ~Fits BY <1>1 DEF RemembersNothing, Fits
  <2> QED BY <2>1, <2>2
<1>2. ASSUME NEW h \in 1..(pos - 1), HeadOf(query, h, pos), Remembers(h)
      PROVE  Fits <=> FollowsItsHead(query, pos)
  <2>1. FollowsItsHead(query, pos) <=>
          m \in Allowed(query[h]) /\ \A k \in Since(h) : Rank[k] < Rank[m]
    <3>1. \A g \in 1..(pos - 1) : HeadOf(query, g, pos) => g = h
      BY <1>0, <1>2, HeadUnique
    <3> QED BY <1>2, <3>1 DEF FollowsItsHead, Since
  <2>2. Since(h) \subseteq Modifiers BY <1>2 DEF HeadOf, Since
  <2>3. m # "Where" => \A k \in {"Where"} : ~ (Rank[k] < Rank[m])
    BY RankFacts DEF Modifiers
  <2>4. \A k \in Modifiers : Rank[k] < Rank["Where"] <=> k # "Where"
    BY RankFacts DEF Modifiers
  <2>5. CASE query[h] = "Match"
    <3>1. owner = "None" BY <1>2, <2>5 DEF Remembers
    <3>2. Fits <=> m = "Where" /\ h = pos - 1
      BY <1>2, <2>5, <3>1 DEF Fits, Remembers
    <3>3. m \in Allowed(query[h]) <=> m = "Where" BY <2>5, AllowedFacts
    <3>4. h = pos - 1 => Since(h) = {} BY <1>0 DEF Since
    <3>5. h # pos - 1 => "Where" \in Since(h) BY <1>2, <2>5 DEF Remembers
    <3>6. m = "Where" =>
            ((\A k \in Since(h) : Rank[k] < Rank[m]) <=> h = pos - 1)
      BY <2>2, <2>4, <3>4, <3>5
    <3> QED BY <2>1, <3>2, <3>3, <3>6
  <2>6. CASE query[h] = "With"
    <3>1. owner = "With" /\ ~matchWhere /\ seen = Since(h)
      BY <1>2, <2>6 DEF Remembers
    <3>2. m \in Allowed(query[h]) BY <2>6, AllowedFacts
    <3>3. CASE m = "Where"
      <4>1. Fits <=> "Where" \notin Since(h) BY <3>1, <3>3 DEF Fits
      <4>2. (\A k \in Since(h) : Rank[k] < Rank[m]) <=> "Where" \notin Since(h)
        BY <2>2, <2>4, <3>3
      <4> QED BY <2>1, <3>2, <4>1, <4>2
    <3>4. CASE m # "Where"
      BY <2>1, <3>1, <3>2, <3>4 DEF Fits
    <3> QED BY <3>3, <3>4
  <2>7. CASE query[h] = "Return"
    <3>1. owner = "Return" /\ ~matchWhere /\ seen = Since(h)
      BY <1>2, <2>7 DEF Remembers
    <3>2. m \in Allowed(query[h]) <=> m # "Where"
      BY <2>7, AllowedFacts DEF Modifiers
    <3> QED BY <2>1, <3>1, <3>2 DEF Fits
  <2>8. CASE query[h] \notin {"Match", "With", "Return"}
    <3>1. owner = "None" /\ ~matchWhere BY <1>2, <2>8 DEF Remembers
    <3>2. ~Fits BY <3>1 DEF Fits
    <3>3. Allowed(query[h]) = {} BY <2>8, AllowedFacts
    <3> QED BY <2>1, <3>2, <3>3
  <2> QED BY <2>5, <2>6, <2>7, <2>8
<1> QED BY <1>1, <1>2 DEF RemembersHead

(* The guard of Clause.                                                    *)
LEMMA ClauseFits ==
  ASSUME TypeOK, RemembersHead, Running, entered, pos \in 1..Len(query)
  PROVE  owner = "Return" <=> FollowsReturn(query, pos)
<1>0. pos \in Nat BY DEF TypeOK
<1>1. CASE RemembersNothing
  BY <1>1 DEF RemembersNothing, FollowsReturn
<1>2. ASSUME NEW h \in 1..(pos - 1), HeadOf(query, h, pos), Remembers(h)
      PROVE  owner = "Return" <=> FollowsReturn(query, pos)
  <2>1. \A g \in 1..(pos - 1) : HeadOf(query, g, pos) => g = h
    BY <1>0, <1>2, HeadUnique
  <2>2. owner = "Return" <=> query[h] = "Return"
    BY <1>2 DEF Remembers
  <2> QED BY <1>2, <2>1, <2>2 DEF FollowsReturn
<1> QED BY <1>1, <1>2 DEF RemembersHead

(* WHERE of a MATCH and modifiers of a projection do not mix.              *)
LEMMA Exclusive ==
  ASSUME RemembersHead, Running, entered
  PROVE  owner = "None" \/ ~matchWhere
  BY DEF RemembersHead, RemembersNothing, Remembers

-----------------------------------------------------------------------------
(***************************************************************************)
(* Steps.                                                                  *)
(***************************************************************************)
LEMMA Starts == Init => Behind
<1> SUFFICES ASSUME Init PROVE Behind OBVIOUS
<1>1. query \in Seq(ClauseKinds) /\ Len(query) \in Nat
  BY StatementsAssumption DEF Init
<1>2. TypeOK
  <2>1. pos \in 1..(Len(query) + 1) BY <1>1 DEF Init
  <2> QED BY <1>1, <2>1 DEF Init, TypeOK
<1>3. PlacedSoFar BY DEF Init, PlacedSoFar
<1>4. NoStartAhead /\ RemembersHead
  BY DEF Init, NoStartAhead, RemembersHead
<1>5. AtBranch BY DEF Init, AtBranch, BeginsBranch
<1>6. AcceptsWellPlaced /\ RejectsMisplaced /\ BlamesTheFirst
  BY DEF Init, AcceptsWellPlaced, RejectsMisplaced, BlamesTheFirst, Messages
<1> QED BY <1>2, <1>3, <1>4, <1>5, <1>6 DEF Behind

(* A clause that is refused is out of place.                               *)
LEMMA Rejected ==
  ASSUME Behind, Running, NEW message \in Messages, Reject(message),
         ~WellPlaced(query),
         message # "START must be the first clause" => ~WellPlacedAt(query, pos)
  PROVE  Behind'
<1>1. TypeOK' BY DEF Behind, TypeOK, Reject
<1>2. verdict' # "running" /\ verdict' # "accepted"
  BY DEF Reject, Messages
<1>3. PlacedSoFar' /\ NoStartAhead' /\ AtBranch' /\ RemembersHead'
      /\ AcceptsWellPlaced'
  BY <1>2 DEF PlacedSoFar, NoStartAhead, AtBranch, RemembersHead,
              AcceptsWellPlaced, Running
<1>4. RejectsMisplaced' BY DEF Reject, RejectsMisplaced
<1>5. BlamesTheFirst'
  BY DEF Behind, Reject, BlamesTheFirst, PlacedSoFar
<1> QED BY <1>1, <1>3, <1>4, <1>5 DEF Behind

(* A clause that is accepted is in its place.                              *)
LEMMA Passed ==
  ASSUME Behind, Running, entered, pos \in 1..Len(query),
         query[pos] # "Union", WellPlacedAt(query, pos),
         pos' = pos + 1, UNCHANGED <<query, entered, verdict>>,
         matchWhere' \in BOOLEAN, owner' \in {"None", "With", "Return"},
         seen' \in SUBSET Modifiers, RemembersHead'
  PROVE  Behind'
<1>0. pos \in Nat /\ Len(query) \in Nat BY DEF Behind, TypeOK
<1>1. TypeOK' BY <1>0 DEF Behind, TypeOK
<1>2. PlacedSoFar'
  <2>1. \A i \in 1..(pos - 1) : WellPlacedAt(query, i)
    BY DEF Behind, PlacedSoFar
  <2>2. \A i \in 1..(pos' - 1) : i = pos \/ i \in 1..(pos - 1) BY <1>0
  <2>3. \A i \in 1..(pos' - 1) : WellPlacedAt(query, i) BY <2>1, <2>2
  <2> QED BY <2>3 DEF PlacedSoFar
<1>3. NoStartAhead'
  <2> SUFFICES ASSUME NEW i \in pos'..Len(query), query[i] = "Start",
                      InBranch(i)'
               PROVE  FALSE
    BY DEF NoStartAhead
  <2>1. i \in pos..Len(query) /\ i # pos BY <1>0
  <2>2. \A j \in (pos + 1)..i : query[j] # "Union" BY DEF InBranch
  <2>3. \A j \in pos..i : j = pos \/ j \in (pos + 1)..i BY <1>0
  <2>4. InBranch(i) BY <2>1, <2>2, <2>3 DEF InBranch
  <2> QED BY <2>1, <2>4 DEF Behind, NoStartAhead
<1>4. AtBranch' BY DEF AtBranch
<1>5. AcceptsWellPlaced' /\ RejectsMisplaced' /\ BlamesTheFirst'
  BY DEF Running, AcceptsWellPlaced, RejectsMisplaced, BlamesTheFirst, Messages
<1> QED BY <1>1, <1>2, <1>3, <1>4, <1>5 DEF Behind

LEMMA ModifierPassed ==
  ASSUME Behind, Running, entered, pos \in 1..Len(query),
         query[pos] \in Modifiers, Fits,
         pos' = pos + 1, UNCHANGED <<query, entered, verdict>>,
         ~matchWhere', matchWhere' \in BOOLEAN, owner' = owner,
         seen' = IF owner = "None" THEN seen ELSE seen \cup {query[pos]}
  PROVE  Behind'
<1>0. pos \in Nat \ {0} /\ Len(query) \in Nat /\ TypeOK /\ RemembersHead
  BY DEF Behind, TypeOK
<1>1. FollowsItsHead(query, pos) BY <1>0, ModifierFits
<1>2. WellPlacedAt(query, pos) BY <1>1 DEF WellPlacedAt, Modifiers
<1>3. RemembersHead'
  <2>1. PICK h \in 1..(pos - 1) : HeadOf(query, h, pos) /\ Remembers(h)
    BY <1>0, <1>1 DEF RemembersHead, RemembersNothing, FollowsItsHead
  <2>2. h \in 1..(pos' - 1) /\ h # pos /\ h # pos' - 1 BY <1>0
  <2>3. HeadOf(query, h, pos)' BY <1>0, <2>1, HeadOfModifier
  <2>4. Since(h)' = Since(h) \cup {query[pos]}
    <3>1. (h + 1)..(pos' - 1) = ((h + 1)..(pos - 1)) \cup {pos} BY <1>0
    <3> QED BY <3>1 DEF Since
  <2>5. query[h] = "Match" => "Where" \in Since(h)'
    <3>1. CASE h # pos - 1 BY <2>1, <2>4, <3>1 DEF Remembers
    <3>2. ASSUME query[h] = "Match" PROVE query[pos] = "Where"
      BY <2>1, <3>2 DEF Remembers, Fits
    <3> QED BY <2>4, <3>1, <3>2
  <2>6. query[h] \in {"With", "Return"} => owner' = query[h] /\ seen' = Since(h)'
    BY <2>1, <2>4 DEF Remembers
  <2>7. query[h] \notin {"With", "Return"} => owner' = "None"
    BY <2>1 DEF Remembers
  <2>8. Remembers(h)'
    BY <2>2, <2>5, <2>6, <2>7 DEF Remembers
  <2> QED BY <2>2, <2>3, <2>8 DEF RemembersHead
<1>4. query[pos] # "Union" BY DEF Modifiers
<1>5. seen' \in SUBSET Modifiers /\ owner' \in {"None", "With", "Return"}
  BY <1>0 DEF TypeOK
<1> QED BY <1>2, <1>3, <1>4, <1>5, Passed

(* A modifier that does not fit makes the statement misplaced.             *)
LEMMA ModifierRejected ==
  ASSUME Behind, Running, entered, pos \in 1..Len(query),
         query[pos] \in Modifiers, ~Fits,
         NEW message \in Messages, Reject(message)
  PROVE  Behind'
<1>1. ~FollowsItsHead(query, pos) BY ModifierFits DEF Behind
<1>2. ~WellPlacedAt(query, pos) BY <1>1 DEF WellPlacedAt
<1>3. ~WellPlaced(query) BY <1>2 DEF WellPlaced
<1> QED BY <1>2, <1>3, Rejected

LEMMA StepOfWhere == Behind /\ Where => Behind'
<1> SUFFICES ASSUME Behind, Where PROVE Behind' OBVIOUS
<1>1. /\ Running /\ entered /\ pos \in 1..Len(query)
      /\ query[pos] = "Where" /\ query[pos] \in Modifiers
  BY DEF Where, At, Running, Modifiers
<1>2. owner = "None" \/ ~matchWhere BY <1>1, Exclusive DEF Behind
<1>3. CASE matchWhere
  BY <1>1, <1>2, <1>3, ModifierPassed DEF Where, Accept, Fits
<1>4. CASE ~matchWhere /\ owner = "With" /\ "Where" \notin seen
  BY <1>1, <1>4, ModifierPassed DEF Where, Accept, Fits
<1>5. CASE ~matchWhere /\ ~ (owner = "With" /\ "Where" \notin seen)
  <2>1. Reject("WHERE must follow MATCH or WITH") BY <1>5 DEF Where
  <2>2. ~Fits BY <1>1, <1>5 DEF Fits
  <2> QED BY <1>1, <2>1, <2>2, ModifierRejected DEF Messages
<1> QED BY <1>3, <1>4, <1>5

(* SKIP and LIMIT look for the modifiers that rank as high as they do.     *)
LEMMA RankOfSeen ==
  ASSUME NEW m \in {"OrderBy", "Skip", "Limit"}, seen \subseteq Modifiers
  PROVE  (\A k \in seen : Rank[k] < Rank[m]) <=>
           seen \cap (CASE m = "OrderBy" -> Modifiers
                       [] m = "Skip" -> {"Skip", "Limit", "Where"}
                       [] m = "Limit" -> {"Limit", "Where"}) = {}
<1>1. CASE m = "OrderBy" BY <1>1, RankFacts DEF Modifiers
<1>2. CASE m = "Skip"    BY <1>2, RankFacts DEF Modifiers
<1>3. CASE m = "Limit"   BY <1>3, RankFacts DEF Modifiers
<1> QED BY <1>1, <1>2, <1>3

LEMMA StepOfOrderBy == Behind /\ OrderBy => Behind'
<1> SUFFICES ASSUME Behind, OrderBy PROVE Behind' OBVIOUS
<1>1. /\ Running /\ entered /\ pos \in 1..Len(query)
      /\ query[pos] = "OrderBy" /\ query[pos] \in Modifiers
  BY DEF OrderBy, At, Running, Modifiers
<1>2. owner = "None" \/ ~matchWhere BY <1>1, Exclusive DEF Behind
<1>3. seen \subseteq Modifiers /\ matchWhere \in BOOLEAN
  BY DEF Behind, TypeOK
<1>4. Fits <=> owner # "None" /\ seen = {}
  BY <1>1, <1>3, RankOfSeen DEF Fits
<1>5. CASE Fits
  BY <1>1, <1>2, <1>3, <1>4, <1>5, ModifierPassed DEF OrderBy, Accept
<1>6. CASE ~Fits
  <2>1. \E message \in Messages : Reject(message)
    BY <1>4, <1>6 DEF OrderBy, Messages
  <2> QED BY <1>1, <1>6, <2>1, ModifierRejected
<1> QED BY <1>5, <1>6

LEMMA StepOfSkip == Behind /\ Skip => Behind'
<1> SUFFICES ASSUME Behind, Skip PROVE Behind' OBVIOUS
<1>1. /\ Running /\ entered /\ pos \in 1..Len(query)
      /\ query[pos] = "Skip" /\ query[pos] \in Modifiers
  BY DEF Skip, At, Running, Modifiers
<1>2. owner = "None" \/ ~matchWhere BY <1>1, Exclusive DEF Behind
<1>3. seen \subseteq Modifiers /\ matchWhere \in BOOLEAN
  BY DEF Behind, TypeOK
<1>4. Fits <=> owner # "None" /\ seen \cap {"Skip", "Limit", "Where"} = {}
  BY <1>1, <1>3, RankOfSeen DEF Fits
<1>5. CASE Fits
  BY <1>1, <1>2, <1>3, <1>4, <1>5, ModifierPassed DEF Skip, Accept
<1>6. CASE ~Fits
  <2>1. \E message \in Messages : Reject(message)
    BY <1>4, <1>6 DEF Skip, Messages
  <2> QED BY <1>1, <1>6, <2>1, ModifierRejected
<1> QED BY <1>5, <1>6

LEMMA StepOfLimit == Behind /\ Limit => Behind'
<1> SUFFICES ASSUME Behind, Limit PROVE Behind' OBVIOUS
<1>1. /\ Running /\ entered /\ pos \in 1..Len(query)
      /\ query[pos] = "Limit" /\ query[pos] \in Modifiers
  BY DEF Limit, At, Running, Modifiers
<1>2. owner = "None" \/ ~matchWhere BY <1>1, Exclusive DEF Behind
<1>3. seen \subseteq Modifiers /\ matchWhere \in BOOLEAN
  BY DEF Behind, TypeOK
<1>4. Fits <=> owner # "None" /\ seen \cap {"Limit", "Where"} = {}
  BY <1>1, <1>3, RankOfSeen DEF Fits
<1>5. CASE Fits
  BY <1>1, <1>2, <1>3, <1>4, <1>5, ModifierPassed DEF Limit, Accept
<1>6. CASE ~Fits
  <2>1. \E message \in Messages : Reject(message)
    BY <1>4, <1>6 DEF Limit, Messages
  <2> QED BY <1>1, <1>6, <2>1, ModifierRejected
<1> QED BY <1>5, <1>6

LEMMA StepOfClause == Behind /\ Clause => Behind'
<1> SUFFICES ASSUME Behind, Clause PROVE Behind' OBVIOUS
<1>1. /\ Running /\ entered /\ pos \in 1..Len(query)
      /\ query[pos] \notin Modifiers \cup {"Union"}
  BY DEF Clause, At, Running
<1>2. pos \in Nat \ {0} /\ TypeOK /\ RemembersHead BY <1>1 DEF Behind, TypeOK
<1>3. owner = "Return" <=> FollowsReturn(query, pos)
  BY <1>1, <1>2, ClauseFits
<1>4. query[pos] = "Start" => BeginsBranch(query, pos)
  <2>1. ASSUME query[pos] = "Start" PROVE InBranch(pos)
    BY <1>1, <1>2 DEF InBranch
  <2> QED BY <1>1, <1>2, <2>1 DEF Behind, NoStartAhead
<1>5. CASE owner = "Return"
  <2>1. query[pos] # "Start"
    <3>1. PICK h \in 1..(pos - 1) : HeadOf(query, h, pos) /\ query[h] = "Return"
      BY <1>3, <1>5 DEF FollowsReturn
    <3>2. ASSUME query[pos - 1] = "Union" PROVE FALSE
      <4>1. pos - 1 \in Nat \ {0} /\ (pos - 1) + 1 = pos BY <1>2, <3>1
      <4>2. HeadOf(query, pos - 1, pos) BY <3>2, <4>1, HeadOfOther DEF Modifiers
      <4> QED BY <1>2, <3>1, <3>2, <4>2, HeadUnique
    <3> QED BY <1>2, <1>4, <3>1, <3>2 DEF BeginsBranch
  <2>2. ~WellPlacedAt(query, pos)
    BY <1>1, <1>3, <1>5, <2>1 DEF WellPlacedAt
  <2>3. ~WellPlaced(query) BY <1>1, <2>2 DEF WellPlaced
  <2>4. Reject("RETURN must terminate a UNION branch") BY <1>5 DEF Clause
  <2> QED BY <1>1, <2>2, <2>3, <2>4, Rejected DEF Messages
<1>6. CASE owner # "Return"
  <2>1. WellPlacedAt(query, pos) BY <1>1, <1>3, <1>4, <1>6 DEF WellPlacedAt
  <2>2. /\ pos' = pos + 1 /\ UNCHANGED <<query, entered, verdict>>
        /\ matchWhere' = (query[pos] = "Match")
        /\ owner' = IF query[pos] \in {"With", "Return"} THEN query[pos] ELSE "None"
        /\ seen' = {}
    BY <1>6 DEF Clause, Accept
  <2>3. PICK h \in Nat : h = pos BY <1>2
  <2>4. HeadOf(query, h, pos)' BY <1>1, <1>2, <2>2, <2>3, HeadOfOther
  <2>5. pos' - 1 = h /\ h \in 1..(pos' - 1) BY <1>2, <2>2, <2>3
  <2>6. Remembers(h)'
    <3>1. Since(h)' = {} BY <2>5 DEF Since
    <3>2. query'[h] = query[pos] BY <2>2, <2>3
    <3> QED BY <2>2, <2>5, <3>1, <3>2 DEF Remembers
  <2>7. RemembersHead'
    BY <2>4, <2>5, <2>6 DEF RemembersHead
  <2> QED BY <1>1, <2>1, <2>2, <2>7, Passed
<1> QED BY <1>5, <1>6

LEMMA StepOfEnterBranch == Behind /\ EnterBranch => Behind'
<1> SUFFICES ASSUME Behind, EnterBranch PROVE Behind' OBVIOUS
<1>1. Running /\ ~entered /\ BeginsBranch(query, pos)
  BY DEF EnterBranch, Running, Behind, AtBranch
<1>2. TypeOK /\ pos \in Nat \ {0} /\ pos \in 1..(Len(query) + 1) /\ Len(query) \in Nat
  BY DEF Behind, TypeOK
<1>3. CASE \E i \in pos..Len(query) : i > pos /\ InBranch(i) /\ query[i] = "Start"
  <2>1. PICK i \in pos..Len(query) : i > pos /\ InBranch(i) /\ query[i] = "Start"
    BY <1>3
  <2>2. i # 1 /\ query[i - 1] # "Union"
    <3>1. i - 1 \in pos..i BY <1>2, <2>1
    <3> QED BY <1>2, <2>1, <3>1 DEF InBranch
  <2>3. ~WellPlacedAt(query, i) BY <2>1, <2>2 DEF WellPlacedAt, BeginsBranch
  <2>4. ~WellPlaced(query) BY <1>2, <2>1, <2>3 DEF WellPlaced
  <2>5. Reject("START must be the first clause") BY <1>3 DEF EnterBranch
  <2> QED BY <1>1, <2>4, <2>5, Rejected DEF Messages
<1>4. CASE ~ \E i \in pos..Len(query) :
               i > pos /\ InBranch(i) /\ query[i] = "Start"
  <2>1. /\ entered' /\ entered' = TRUE
        /\ matchWhere' = FALSE /\ owner' = "None" /\ seen' = {}
        /\ UNCHANGED <<query, pos, verdict>>
    BY <1>4 DEF EnterBranch
  <2>2. TypeOK' BY <1>2, <2>1 DEF TypeOK
  <2>3. NoStartAhead'
    BY <1>1, <1>2, <1>4, <2>1 DEF NoStartAhead, InBranch
  <2>4. RemembersHead'
    <3>1. CASE pos = 1
      BY <2>1, <3>1 DEF RemembersHead, RemembersNothing
    <3>2. CASE pos # 1
      <4>1. PICK h \in Nat : h = pos - 1 BY <1>2, <3>2
      <4>2. h \in Nat \ {0} /\ h + 1 = pos /\ h \in 1..(pos - 1)
        BY <1>2, <3>2, <4>1
      <4>3. query[h] = "Union" BY <1>1, <3>2, <4>1 DEF BeginsBranch
      <4>4. HeadOf(query, h, pos) BY <4>2, <4>3, HeadOfOther DEF Modifiers
      <4>5. Remembers(h)' BY <2>1, <4>3 DEF Remembers
      <4> QED BY <2>1, <4>2, <4>4, <4>5 DEF RemembersHead
    <3> QED BY <3>1, <3>2
  <2>5. PlacedSoFar' /\ AtBranch' /\ AcceptsWellPlaced' /\ RejectsMisplaced'
        /\ BlamesTheFirst'
    BY <2>1 DEF Behind, PlacedSoFar, AtBranch, AcceptsWellPlaced,
                RejectsMisplaced, BlamesTheFirst, Running
  <2> QED BY <2>2, <2>3, <2>4, <2>5 DEF Behind
<1> QED BY <1>3, <1>4

LEMMA StepOfNextBranch == Behind /\ NextBranch => Behind'
<1> SUFFICES ASSUME Behind, NextBranch PROVE Behind' OBVIOUS
<1>1. /\ Running /\ pos \in 1..Len(query) /\ query[pos] = "Union"
      /\ pos' = pos + 1 /\ ~entered' /\ entered' = FALSE
      /\ UNCHANGED <<query, matchWhere, owner, seen, verdict>>
  BY DEF NextBranch, At, Running
<1>2. TypeOK /\ pos \in Nat \ {0} /\ Len(query) \in Nat BY DEF Behind, TypeOK
<1>3. TypeOK'
  <2>1. pos' \in 1..(Len(query') + 1) BY <1>1, <1>2
  <2> QED BY <1>1, <1>2, <2>1 DEF TypeOK
<1>4. PlacedSoFar'
  <2>1. WellPlacedAt(query, pos) BY <1>1 DEF WellPlacedAt, Modifiers
  <2>2. \A i \in 1..(pos' - 1) : i = pos \/ i \in 1..(pos - 1)
    BY <1>1, <1>2
  <2>3. \A i \in 1..(pos' - 1) : WellPlacedAt(query, i)
    BY <1>1, <2>1, <2>2 DEF Behind, PlacedSoFar
  <2> QED BY <1>1, <2>3 DEF PlacedSoFar
<1>5. AtBranch' BY <1>1, <1>2 DEF AtBranch, BeginsBranch
<1>6. NoStartAhead' /\ RemembersHead' BY <1>1 DEF NoStartAhead, RemembersHead
<1>7. AcceptsWellPlaced' /\ RejectsMisplaced' /\ BlamesTheFirst'
  BY <1>1 DEF Running, AcceptsWellPlaced, RejectsMisplaced, BlamesTheFirst, Messages
<1> QED BY <1>3, <1>4, <1>5, <1>6, <1>7 DEF Behind

LEMMA StepOfFinish == Behind /\ Finish => Behind'
<1> SUFFICES ASSUME Behind, Finish PROVE Behind' OBVIOUS
<1>1. /\ Running /\ pos > Len(query) /\ verdict' = "accepted"
      /\ UNCHANGED <<query, pos, matchWhere, owner, seen, entered>>
  BY DEF Finish, Running
<1>2. TypeOK /\ pos \in Nat /\ Len(query) \in Nat BY DEF Behind, TypeOK
<1>3. TypeOK' BY <1>1, <1>2 DEF TypeOK
<1>4. WellPlaced(query)
  <2>1. \A i \in 1..Len(query) : i \in 1..(pos - 1) BY <1>1, <1>2
  <2> QED BY <1>1, <2>1 DEF Behind, PlacedSoFar, WellPlaced
<1>5. PlacedSoFar' /\ NoStartAhead' /\ AtBranch' /\ RemembersHead'
  BY <1>1 DEF PlacedSoFar, NoStartAhead, AtBranch, RemembersHead, Running
<1>6. AcceptsWellPlaced' BY <1>1, <1>4 DEF AcceptsWellPlaced
<1>7. RejectsMisplaced' /\ BlamesTheFirst'
  BY <1>1 DEF RejectsMisplaced, BlamesTheFirst, Messages
<1> QED BY <1>3, <1>4, <1>5, <1>6, <1>7 DEF Behind

LEMMA NoStep == Behind /\ UNCHANGED vars => Behind'
<1> SUFFICES ASSUME Behind, UNCHANGED vars PROVE Behind' OBVIOUS
<1>1. TypeOK' BY DEF Behind, TypeOK, vars
<1>2. PlacedSoFar' /\ NoStartAhead' /\ AtBranch'
  BY DEF Behind, PlacedSoFar, NoStartAhead, AtBranch, InBranch, Running, vars
<1>3. RemembersHead'
  BY DEF Behind, RemembersHead, RemembersNothing, Remembers, Since, Running, vars
<1>4. AcceptsWellPlaced' /\ RejectsMisplaced' /\ BlamesTheFirst'
  BY DEF Behind, AcceptsWellPlaced, RejectsMisplaced, BlamesTheFirst, vars
<1> QED BY <1>1, <1>2, <1>3, <1>4 DEF Behind

-----------------------------------------------------------------------------
LEMMA Invariance == Spec => []Behind
<1>1. Behind /\ [Next]_vars => Behind'
  <2> SUFFICES ASSUME Behind, [Next]_vars PROVE Behind' OBVIOUS
  <2>1. CASE EnterBranch BY <2>1, StepOfEnterBranch
  <2>2. CASE Where      BY <2>2, StepOfWhere
  <2>3. CASE OrderBy    BY <2>3, StepOfOrderBy
  <2>4. CASE Skip       BY <2>4, StepOfSkip
  <2>5. CASE Limit      BY <2>5, StepOfLimit
  <2>6. CASE Clause     BY <2>6, StepOfClause
  <2>7. CASE NextBranch BY <2>7, StepOfNextBranch
  <2>8. CASE Finish     BY <2>8, StepOfFinish
  <2>9. CASE Returned \/ UNCHANGED vars BY <2>9, NoStep DEF Returned
  <2> QED BY <2>1, <2>2, <2>3, <2>4, <2>5, <2>6, <2>7, <2>8, <2>9
      DEF Next, Work, Walk
<1> QED BY <1>1, Starts, PTL DEF Spec

(* The variables of the walk keep their types.                             *)
THEOREM WalkTypeCorrect == Spec => []TypeOK
<1>1. Behind => TypeOK BY DEF Behind
<1> QED BY <1>1, Invariance, PTL

(* validate_clause_placement accepts no statement in which a modifier      *)
(* stands where it modifies nothing, or after one it must precede.         *)
THEOREM AcceptsOnlyWellPlaced == Spec => []AcceptsWellPlaced
<1>1. Behind => AcceptsWellPlaced BY DEF Behind
<1> QED BY <1>1, Invariance, PTL

(* It refuses no statement whose clauses are in their places.              *)
THEOREM RejectsOnlyMisplaced == Spec => []RejectsMisplaced
<1>1. Behind => RejectsMisplaced BY DEF Behind
<1> QED BY <1>1, Invariance, PTL

(* The message is about the first clause out of place.                     *)
THEOREM MessageFitsTheClause == Spec => []BlamesTheFirst
<1>1. Behind => BlamesTheFirst BY DEF Behind
<1> QED BY <1>1, Invariance, PTL
=============================================================================
