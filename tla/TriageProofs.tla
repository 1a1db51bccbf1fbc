---------------------------- MODULE TriageProofs ----------------------------
(***************************************************************************)
(* Unsolicited answers, for any handlers, messages, hours and evictions:   *)
(* a message is acted on at most once, what is deleted keeps no text, the  *)
(* holder of a claim gives the verdict, budgets hold, and claims and       *)
(* places come back.                                                       *)
(*                                                                         *)
(* The events are the hard part, because a pruned row forgets that its     *)
(* message was acted on or deleted.  The invariant remembers why it cannot *)
(* come back: a message that was pruned is sunk, below as many newer rows  *)
(* as the table may have, and stays so.                                    *)
(***************************************************************************)
EXTENDS Triage, FiniteSetTheorems, WellFoundedInduction, TLAPS

-----------------------------------------------------------------------------
(* The invariant *)

Verdicts == {None, "judging", "filtered", "historical", "pass", "ack", "answer",
             "investigate"}
Final == {"filtered", "pass", "ack", "answer", "investigate"}
RowType == [stored : SUBSET Messages, text : SUBSET Messages, gone : SUBSET Messages,
            verdict : [Messages -> Verdicts], claim : [Messages -> Handlers \cup {None}],
            stale : SUBSET Messages]

Newer(m, s) == {n \in s : n > m}
Sunk(m, s) == Cardinality(Newer(m, s)) >= Ring

\* What the rows r remember of the messages that were acted on and deleted.
Recalls(r, acts, dels) ==
    /\ acts \in [Messages -> 0..1] /\ dels \subseteq Messages
    /\ \A m \in Messages : acts[m] = 1 => r.verdict[m] \in Final \/ Sunk(m, r.stored)
    /\ \A m \in dels : m \in r.gone \/ Sunk(m, r.stored)

Tidy(r) ==
    /\ r \in RowType /\ IsFiniteSet(r.stored)
    /\ r.text \subseteq r.stored /\ r.gone \subseteq r.stored /\ r.stale \subseteq r.stored
    /\ r.text \cap r.gone = {}
    /\ \A m \in Messages :
          /\ r.verdict[m] # None => m \in r.stored
          /\ r.claim[m] # None <=> r.verdict[m] = "judging"
          /\ m \in Noise => r.verdict[m] # "judging"

\* The rows are the newest ones.
Top(s) == \A m \in s : ~Sunk(m, s)
EventsOK(r, acts, dels) == Tidy(r) /\ Recalls(r, acts, dels) /\ Top(r.stored)

HandlersOK ==
    /\ at \in [Handlers -> [pc : {"new", "judging", "investigating", "closing", "done"},
                           m : Messages \cup {0}]]
    /\ \A h \in Handlers : at[h].pc = "judging" => at[h].m \in Messages
    /\ crashes \in 0..MaxCrashes

EventsInv == EventsOK(Rows, acted, deleted) /\ HandlersOK /\ ClaimHasHandler

Sum(s) == s["summons"] + s["urgent"] + s["normal"] + s["low"]
Within(s) == /\ Sum(s) <= Ceiling /\ s["summons"] <= Allowance["summons"]
             /\ s["normal"] <= Allowance["general"] /\ s["low"] <= Allowance["low"]

\* A budget b that covers what was said, s.
Budgets == [bucket : 1..hour, total : 0..Ceiling, used : [Pools -> Nat]]
Covers(b, s) ==
    /\ \A p \in Pools : b.used[p] <= Allowance[p]
    /\ Sum(s) <= b.total /\ s["summons"] <= b.used["summons"]
    /\ s["normal"] <= b.used["general"] /\ s["low"] <= b.used["low"]

\* What was said in the hour of the budget is in the budget, and nothing was
\* said after that hour.
BudgetOK ==
    /\ hour \in 1..MaxHours /\ recent \in BOOLEAN /\ budget \in Budgets
    /\ spoke \in [1..MaxHours -> [Priorities -> Nat]]
    /\ \A t \in 1..MaxHours : t > budget.bucket => \A p \in Priorities : spoke[t][p] = 0
    /\ Covers(budget, spoke[budget.bucket])
    /\ \A t \in 1..MaxHours : Within(spoke[t])

\* A row is there for its handler, runs for as long as that investigates, and
\* is late only once it ran.
PlacesOK ==
    /\ inv \in [Handlers -> [status : {None, "running", "expired", "ended"},
                             bucket : 0..hour]]
    /\ late \subseteq Handlers
    /\ \A h \in Handlers : at[h].pc \in {"new", "judging"} =>
                              inv[h].status = None /\ h \notin late
    /\ Investigating \ late \subseteq Running
    /\ IsFiniteSet(Running) /\ Cardinality(Running \ late) <= MaxConcurrent
    /\ PlaceComesBack

Inv == EventsInv /\ BudgetOK /\ PlacesOK

-----------------------------------------------------------------------------
(* Newest rows *)

LEMMA Numbers ==
    /\ Messages \subseteq Nat /\ 0 \notin Messages
    /\ Noise \subseteq Messages /\ Revised \subseteq Messages
    /\ Ring \in Nat /\ Ceiling \in Nat /\ MaxConcurrent \in Nat
    /\ MaxHourly \in Nat /\ MaxHours \in Nat \ {0} /\ MaxCrashes \in Nat
    /\ \A p \in Pools : Allowance[p] \in Nat
    /\ None \notin Handlers
  BY TriageAssumption

\* How many rows are newer is a number.
LEMMA NewerFinite ==
  ASSUME NEW s, IsFiniteSet(s), NEW m
  PROVE  IsFiniteSet(Newer(m, s)) /\ Cardinality(Newer(m, s)) \in Nat
  <1>1. IsFiniteSet(Newer(m, s)) BY FS_Subset DEF Newer
  <1> QED BY <1>1, FS_CardinalityType

\* A message that is sunk stays so when rows are added.
LEMMA SunkGrows ==
  ASSUME NEW s, NEW t, IsFiniteSet(t), s \subseteq t, NEW m, Sunk(m, s)
  PROVE  Sunk(m, t)
  <1>1. Newer(m, s) \subseteq Newer(m, t) BY DEF Newer
  <1>2. IsFiniteSet(s) BY FS_Subset
  <1>3. IsFiniteSet(Newer(m, t)) BY NewerFinite
  <1>4. Cardinality(Newer(m, s)) <= Cardinality(Newer(m, t)) BY <1>1, <1>3, FS_Subset
  <1>5. /\ Cardinality(Newer(m, s)) \in Nat /\ Cardinality(Newer(m, t)) \in Nat
    BY <1>2, NewerFinite
  <1> HIDE DEF Newer
  <1> QED BY <1>4, <1>5, Numbers DEF Sunk

\* The rows that are kept are those that are not sunk.
LEMMA KeptTop ==
  ASSUME NEW s, IsFiniteSet(s)
  PROVE  Kept(s) = {m \in s : ~Sunk(m, s)}
  <1>1. ASSUME NEW m
        PROVE  (Cardinality(Newer(m, s)) < Ring) <=> ~Sunk(m, s)
    BY NewerFinite, Numbers DEF Sunk
  <1>2. \A m : (Cardinality({n \in s : n > m}) < Ring) <=> ~Sunk(m, s)
    BY <1>1 DEF Newer
  <1> QED BY <1>2 DEF Kept

\* Of the rows that are not kept one has only kept rows above it.
LEMMA LastSunk ==
  ASSUME NEW s \in SUBSET Nat, IsFiniteSet(s), NEW D \in SUBSET s, D # {}
  PROVE  \E n \in D : Newer(n, s) \cap D = {}
  <1> DEFINE Size(n) == Cardinality(Newer(n, s))
             Sizes == {Size(n) : n \in D}
  <1>1. \A n : IsFiniteSet(Newer(n, s)) /\ Size(n) \in Nat BY NewerFinite
  <1>2. Sizes \in SUBSET Nat /\ Sizes # {} BY <1>1
  <1>3. PICK k \in Sizes : \A j \in Sizes : <<j, k>> \notin OpToRel(<, Nat)
    BY <1>2, WFMin, NatLessThanWellFounded, Zenon
  <1>4. PICK n \in D : k = Size(n) OBVIOUS
  <1>5. ASSUME NEW j \in Newer(n, s) \cap D PROVE FALSE
    <2>1. j \in Nat /\ n \in Nat /\ j > n /\ j \in s BY <1>5 DEF Newer
    <2>2. /\ \A i \in Newer(j, s) : i \in Newer(n, s)
          /\ j \in Newer(n, s) /\ j \notin Newer(j, s)
      BY <2>1 DEF Newer
    <2> HIDE DEF Newer
    <2>3. Size(j) <= Size(n) /\ Size(j) # Size(n) BY <1>1, <2>2, FS_Subset
    <2>4. Size(j) \in Sizes /\ Size(j) \in Nat /\ Size(n) \in Nat BY <1>1, <1>5
    <2> HIDE DEF Size, Sizes
    <2>5. ~(Size(j) < Size(n)) BY <1>3, <1>4, <2>4 DEF OpToRel
    <2> QED BY <2>3, <2>4, <2>5
  <1> QED BY <1>4, <1>5

\* What is sunk stays so when the table is pruned.
LEMMA KeptSunk ==
  ASSUME NEW s \in SUBSET Nat, IsFiniteSet(s), NEW m \in Nat, Sunk(m, s)
  PROVE  Sunk(m, Kept(s))
  <1> DEFINE D == {n \in Newer(m, s) : n \notin Kept(s)}
  <1>1. Kept(s) = {n \in s : ~Sunk(n, s)} /\ Kept(s) \subseteq s BY KeptTop
  <1>2. IsFiniteSet(Kept(s)) BY <1>1, FS_Subset
  <1>3. CASE D = {}
    <2>1. Newer(m, s) = Newer(m, Kept(s)) BY <1>1, <1>3 DEF Newer
    <2> QED BY <2>1 DEF Sunk
  <1>4. CASE D # {}
    <2>1. D \in SUBSET s BY DEF Newer
    <2> HIDE DEF D
    <2>2. PICK n \in D : Newer(n, s) \cap D = {} BY <1>4, <2>1, LastSunk
    <2>3. n \in s /\ n > m /\ Sunk(n, s) BY <1>1 DEF D, Newer
    <2>4. \A j \in Newer(n, s) : j \in Newer(m, Kept(s))
      BY <2>2, <2>3 DEF D, Newer
    <2>5. Newer(n, s) \subseteq Newer(m, Kept(s)) BY <2>4
    <2>6. IsFiniteSet(Newer(m, Kept(s))) /\ Cardinality(Newer(m, Kept(s))) \in Nat
      BY <1>2, NewerFinite
    <2>7. Cardinality(Newer(n, s)) \in Nat BY NewerFinite
    <2>8. Cardinality(Newer(n, s)) <= Cardinality(Newer(m, Kept(s))) BY <2>5, <2>6, FS_Subset
    <2> HIDE DEF Newer
    <2> QED BY <2>3, <2>6, <2>7, <2>8, Numbers DEF Sunk
  <1> QED BY <1>3, <1>4

\* The rows that are kept are the newest of themselves.
LEMMA KeptIsTop ==
  ASSUME NEW s, IsFiniteSet(s)
  PROVE  Top(Kept(s)) /\ IsFiniteSet(Kept(s)) /\ Kept(s) \subseteq s
  <1>1. Kept(s) = {n \in s : ~Sunk(n, s)} /\ Kept(s) \subseteq s BY KeptTop
  <1>2. IsFiniteSet(Kept(s)) BY <1>1, FS_Subset
  <1> QED BY <1>1, <1>2, SunkGrows DEF Top

-----------------------------------------------------------------------------
(* What the operations leave of the rows *)

LEMMA RowsFields ==
    /\ Rows.stored = stored /\ Rows.text = text /\ Rows.gone = gone
    /\ Rows.verdict = verdict /\ Rows.claim = claim /\ Rows.stale = stale
    /\ Rows' = [stored |-> stored', text |-> text', gone |-> gone', verdict |-> verdict',
                claim |-> claim', stale |-> stale']
  BY DEF Rows

LEMMA BecomeRows ==
  ASSUME NEW r \in RowType, Become(r)
  PROVE  Rows' = r
  BY DEF Become, Rows, RowType

LEMMA PrunedFields ==
  ASSUME NEW r \in RowType
  PROVE  /\ Pruned(r) = [stored |-> Kept(r.stored), text |-> r.text \cap Kept(r.stored),
                gone |-> r.gone \cap Kept(r.stored),
                verdict |-> [m \in Messages |-> IF m \in Kept(r.stored) THEN r.verdict[m] ELSE None],
                claim |-> [m \in Messages |-> IF m \in Kept(r.stored) THEN r.claim[m] ELSE None],
                stale |-> r.stale \cap Kept(r.stored)]
  BY DEF Pruned

\* Pruning forgets rows, and nothing that could come back.
LEMMA PrunedOK ==
  ASSUME NEW r, NEW acts, NEW dels, Tidy(r), Recalls(r, acts, dels)
  PROVE  EventsOK(Pruned(r), acts, dels)
  <1> DEFINE k == Kept(r.stored)
             p == Pruned(r)
  <1>1. r \in RowType /\ IsFiniteSet(r.stored) /\ r.stored \in SUBSET Nat
    BY Numbers DEF Tidy, RowType
  <1>2. Top(k) /\ IsFiniteSet(k) /\ k \subseteq r.stored BY <1>1, KeptIsTop
  <1>3. /\ p.stored = k /\ p.text = r.text \cap k /\ p.gone = r.gone \cap k
        /\ p.stale = r.stale \cap k
        /\ p.verdict = [m \in Messages |-> IF m \in k THEN r.verdict[m] ELSE None]
        /\ p.claim = [m \in Messages |-> IF m \in k THEN r.claim[m] ELSE None]
    BY <1>1, PrunedFields
  <1>4. k = {m \in r.stored : ~Sunk(m, r.stored)} BY <1>1, KeptTop
  <1>5. \A m \in Messages : Sunk(m, r.stored) => Sunk(m, k)
    BY <1>1, KeptSunk, Numbers
  <1>6. p \in RowType
    <2>1. p = [stored |-> p.stored, text |-> p.text, gone |-> p.gone,
               verdict |-> p.verdict, claim |-> p.claim, stale |-> p.stale]
      BY <1>1, PrunedFields
    <2> HIDE DEF p, k
    <2>2. \A m \in Messages : /\ r.verdict[m] \in Verdicts /\ None \in Verdicts
                              /\ r.claim[m] \in Handlers \cup {None}
      BY <1>1 DEF RowType, Verdicts
    <2>3. p.verdict \in [Messages -> Verdicts] /\ p.claim \in [Messages -> Handlers \cup {None}]
      BY <1>3, <2>2
    <2>4. p.stored \subseteq Messages /\ p.text \subseteq Messages /\ p.gone \subseteq Messages
          /\ p.stale \subseteq Messages
      BY <1>1, <1>2, <1>3 DEF RowType
    <2>5. [stored |-> p.stored, text |-> p.text, gone |-> p.gone,
           verdict |-> p.verdict, claim |-> p.claim, stale |-> p.stale] \in RowType
      BY <2>3, <2>4 DEF RowType
    <2> QED BY <2>1, <2>5
  <1> HIDE DEF p, k
  <1>7. Tidy(p)
    <2>1. p.text \cap p.gone = {} BY <1>3 DEF Tidy
    <2>2. p.text \subseteq p.stored /\ p.gone \subseteq p.stored /\ p.stale \subseteq p.stored
      BY <1>3
    <2>3. ASSUME NEW m \in Messages
          PROVE  /\ p.verdict[m] # None => m \in p.stored
                 /\ p.claim[m] # None <=> p.verdict[m] = "judging"
                 /\ m \in Noise => p.verdict[m] # "judging"
      BY <1>3 DEF Tidy, None
    <2> QED BY <1>2, <1>3, <1>6, <2>1, <2>2, <2>3 DEF Tidy
  <1>8. Recalls(p, acts, dels)
    <2>1. ASSUME NEW m \in Messages, acts[m] = 1
          PROVE  p.verdict[m] \in Final \/ Sunk(m, p.stored)
      <3>1. r.verdict[m] \in Final \/ Sunk(m, r.stored) BY <2>1 DEF Recalls
      <3>2. CASE Sunk(m, r.stored) BY <1>3, <1>5, <3>2
      <3>3. CASE r.verdict[m] \in Final /\ ~Sunk(m, r.stored)
        <4>1. m \in r.stored BY <3>3 DEF Tidy, Final, None
        <4> QED BY <1>3, <1>4, <3>3, <4>1
      <3> QED BY <3>1, <3>2, <3>3
    <2>2. ASSUME NEW m \in dels
          PROVE  m \in p.gone \/ Sunk(m, p.stored)
      <3>1. m \in Messages /\ (m \in r.gone \/ Sunk(m, r.stored)) BY DEF Recalls
      <3>2. CASE Sunk(m, r.stored) BY <1>3, <1>5, <3>1, <3>2
      <3>3. CASE m \in r.gone /\ ~Sunk(m, r.stored)
        BY <1>3, <1>4, <3>3 DEF Tidy
      <3> QED BY <3>1, <3>2, <3>3
    <2> QED BY <2>1, <2>2 DEF Recalls
  <1> QED BY <1>2, <1>3, <1>7, <1>8 DEF EventsOK, p

\* An event is stored: no verdict but that of the history is forgotten, and no
\* deletion.
LEMMA StoredOK ==
  ASSUME EventsOK(Rows, acted, deleted), NEW m \in Messages, NEW v,
         v # verdict[m] => {v, verdict[m]} \subseteq {None, "historical"},
         NEW s \in RowType, s.stored = stored \cup {m}, s.claim = claim, s.stale = stale,
         s.verdict = [verdict EXCEPT ![m] = v],
         gone \subseteq s.gone, s.gone \subseteq gone \cup {m},
         s.text \subseteq text \cup {m}, s.text \cap s.gone = {},
         NEW dels, dels \subseteq Messages, dels \subseteq deleted \cup {m},
         m \in dels => m \in deleted \/ m \in s.gone
  PROVE  Tidy(s) /\ Recalls(s, acted, dels)
  <1>1. /\ Tidy(Rows) /\ Recalls(Rows, acted, deleted) /\ Rows \in RowType
        /\ IsFiniteSet(stored) /\ verdict \in [Messages -> Verdicts]
    BY RowsFields DEF EventsOK, Tidy, RowType
  <1>2. IsFiniteSet(s.stored) BY <1>1, FS_AddElement
  <1>3. \A n \in Messages : Sunk(n, stored) => Sunk(n, s.stored)
    BY <1>2, SunkGrows
  <1>4. \A n \in Messages : s.verdict[n] = IF n = m THEN v ELSE verdict[n] BY <1>1
  <1>5. Tidy(s)
    <2>1. /\ s.text \subseteq s.stored /\ s.gone \subseteq s.stored /\ s.stale \subseteq s.stored
      BY <1>1, RowsFields DEF Tidy
    <2>2. ASSUME NEW n \in Messages
          PROVE  /\ s.verdict[n] # None => n \in s.stored
                 /\ s.claim[n] # None <=> s.verdict[n] = "judging"
                 /\ n \in Noise => s.verdict[n] # "judging"
      BY <1>1, <1>4, RowsFields DEF Tidy, None
    <2> QED BY <1>2, <2>1, <2>2 DEF Tidy
  <1>6. Recalls(s, acted, dels)
    <2>1. ASSUME NEW n \in Messages, acted[n] = 1
          PROVE  s.verdict[n] \in Final \/ Sunk(n, s.stored)
      BY <1>1, <1>3, <1>4, <2>1, RowsFields DEF Recalls, Final, None
    <2>2. ASSUME NEW n \in dels
          PROVE  n \in s.gone \/ Sunk(n, s.stored)
      BY <1>1, <1>3, RowsFields DEF Recalls
    <2> QED BY <1>1, <2>1, <2>2 DEF Recalls
  <1> QED BY <1>5, <1>6

\* What the rows r say of claims is what the table says, where they have a row.
ClaimsKept(r) ==
    \A m \in Messages :
       /\ m \in r.stored =>
             /\ r.claim[m] = claim[m]
             /\ r.verdict[m] = "judging" <=> verdict[m] = "judging"
       /\ r.verdict[m] = "judging" => m \in r.stored

LEMMA PrunedClaims ==
  ASSUME NEW s \in RowType, s.claim = claim, Tidy(s),
         \A m \in Messages : s.verdict[m] = "judging" <=> verdict[m] = "judging"
  PROVE  ClaimsKept(Pruned(s))
  <1> DEFINE k == Kept(s.stored)
             p == Pruned(s)
  <1>1. /\ p.stored = k
        /\ p.verdict = [m \in Messages |-> IF m \in k THEN s.verdict[m] ELSE None]
        /\ p.claim = [m \in Messages |-> IF m \in k THEN s.claim[m] ELSE None]
    BY PrunedFields
  <1> HIDE DEF p, k
  <1>2. ClaimsKept(p) BY <1>1 DEF ClaimsKept, None
  <1> QED BY <1>2 DEF p

\* recordSlackEvent leaves good rows, and every claim.
LEMMA RecordedOK ==
  ASSUME EventsOK(Rows, acted, deleted), NEW m \in Messages, NEW deletes \in BOOLEAN
  PROVE  /\ EventsOK(Recorded(m, deletes), acted,
                     IF deletes THEN deleted \cup {m} ELSE deleted)
         /\ ClaimsKept(Recorded(m, deletes))
  <1> DEFINE v == IF verdict[m] = "historical" THEN None ELSE verdict[m]
             txt == IF deletes \/ m \in gone THEN text \ {m} ELSE text \cup {m}
             gn == IF deletes THEN gone \cup {m} ELSE gone
             s == [Rows EXCEPT !.stored = stored \cup {m}, !.text = txt, !.gone = gn,
                               !.verdict[m] = v]
             dels == IF deletes THEN deleted \cup {m} ELSE deleted
  <1>1. /\ Tidy(Rows) /\ Recalls(Rows, acted, deleted) /\ Rows \in RowType
        /\ verdict \in [Messages -> Verdicts] /\ text \subseteq Messages /\ gone \subseteq Messages
        /\ stored \subseteq Messages /\ text \cap gone = {}
    BY RowsFields DEF EventsOK, Tidy, RowType
  <1>2. Recorded(m, deletes) = Pruned(s) BY RowsFields DEF Recorded
  <1>3. /\ txt \subseteq text \cup {m} /\ txt \cap gn = {} /\ txt \subseteq Messages
        /\ gone \subseteq gn /\ gn \subseteq gone \cup {m} /\ gn \subseteq Messages
        /\ deletes => m \in gn
    BY <1>1
  <1>4. /\ v \in Verdicts /\ (v # verdict[m] => {v, verdict[m]} \subseteq {None, "historical"})
        /\ v = "judging" <=> verdict[m] = "judging"
    BY <1>1 DEF Verdicts, None
  <1> HIDE DEF v, txt, gn
  <1>5. /\ s.stored = stored \cup {m} /\ s.text = txt /\ s.gone = gn /\ s.claim = claim
        /\ s.stale = stale /\ s.verdict = [verdict EXCEPT ![m] = v]
    BY RowsFields DEF Rows
  <1>6. s \in RowType
    <2>1. [verdict EXCEPT ![m] = v] \in [Messages -> Verdicts] BY <1>1, <1>4
    <2>2. stored \cup {m} \subseteq Messages BY <1>1
    <2> QED BY <1>1, <1>3, <2>1, <2>2, RowsFields DEF RowType
  <1>7. /\ dels \subseteq Messages /\ dels \subseteq deleted \cup {m}
        /\ m \in dels => m \in deleted \/ m \in gn
    BY <1>1, <1>3 DEF Recalls
  <1> HIDE DEF s, dels
  <1>8. Tidy(s) /\ Recalls(s, acted, dels) BY <1>3, <1>4, <1>5, <1>6, <1>7, StoredOK
  <1>9. \A n \in Messages : s.verdict[n] = "judging" <=> verdict[n] = "judging"
    BY <1>1, <1>4, <1>5
  <1>10. ClaimsKept(Pruned(s)) BY <1>5, <1>6, <1>8, <1>9, PrunedClaims
  <1> QED BY <1>2, <1>8, <1>10, PrunedOK DEF dels

\* So does a message of the history that is merged.
Merged(m) == Pruned([Rows EXCEPT !.stored = @ \cup {m},
                                 !.text = IF m \in gone THEN @ ELSE @ \cup {m},
                                 !.verdict[m] = IF m \in stored THEN @ ELSE "historical"])
LEMMA MergedOK ==
  ASSUME EventsOK(Rows, acted, deleted), NEW m \in Messages
  PROVE  EventsOK(Merged(m), acted, deleted) /\ ClaimsKept(Merged(m))
  <1> DEFINE v == IF m \in stored THEN verdict[m] ELSE "historical"
             txt == IF m \in gone THEN text ELSE text \cup {m}
             s == [Rows EXCEPT !.stored = stored \cup {m}, !.text = txt, !.verdict[m] = v]
  <1>1. /\ Tidy(Rows) /\ Recalls(Rows, acted, deleted) /\ Rows \in RowType
        /\ verdict \in [Messages -> Verdicts] /\ text \subseteq Messages /\ gone \subseteq Messages
        /\ stored \subseteq Messages /\ text \cap gone = {} /\ deleted \subseteq Messages
        /\ verdict[m] # None => m \in stored
    BY RowsFields DEF EventsOK, Tidy, RowType, Recalls
  <1>2. Merged(m) = Pruned(s) BY RowsFields DEF Merged
  <1>3. txt \subseteq text \cup {m} /\ txt \cap gone = {} /\ txt \subseteq Messages
    BY <1>1
  <1>4. /\ v \in Verdicts /\ (v # verdict[m] => {v, verdict[m]} \subseteq {None, "historical"})
        /\ v = "judging" <=> verdict[m] = "judging"
    BY <1>1 DEF Verdicts, None
  <1> HIDE DEF v, txt
  <1>5. /\ s.stored = stored \cup {m} /\ s.text = txt /\ s.gone = gone /\ s.claim = claim
        /\ s.stale = stale /\ s.verdict = [verdict EXCEPT ![m] = v]
    BY RowsFields DEF Rows
  <1>6. s \in RowType
    <2>1. [verdict EXCEPT ![m] = v] \in [Messages -> Verdicts] BY <1>1, <1>4
    <2>2. stored \cup {m} \subseteq Messages BY <1>1
    <2> QED BY <1>1, <1>3, <2>1, <2>2, RowsFields DEF RowType
  <1> HIDE DEF s
  <1>7. Tidy(s) /\ Recalls(s, acted, deleted) BY <1>1, <1>3, <1>4, <1>5, <1>6, StoredOK
  <1>8. \A n \in Messages : s.verdict[n] = "judging" <=> verdict[n] = "judging"
    BY <1>1, <1>4, <1>5
  <1>9. ClaimsKept(Pruned(s)) BY <1>5, <1>6, <1>7, <1>8, PrunedClaims
  <1> QED BY <1>2, <1>7, <1>9, PrunedOK

\* A verdict where there is a row; the message may be acted on with it if it was
\* being judged.
Decision(r, m, v) ==
    [r EXCEPT !.verdict[m] = v, !.claim[m] = None, !.stale = r.stale \ {m}]
LEMMA DecidedFields ==
  ASSUME NEW r \in RowType, NEW m \in Messages, NEW v \in Final
  PROVE  /\ Decided(r, m, v) \in RowType
         /\ m \notin r.stored => Decided(r, m, v) = r
         /\ m \in r.stored =>
              /\ Decided(r, m, v).stored = r.stored /\ Decided(r, m, v).text = r.text
              /\ Decided(r, m, v).gone = r.gone /\ Decided(r, m, v).stale = r.stale \ {m}
              /\ Decided(r, m, v).verdict = [r.verdict EXCEPT ![m] = v]
              /\ Decided(r, m, v).claim = [r.claim EXCEPT ![m] = None]
  <1> DEFINE d == Decision(r, m, v)
  <1>1. /\ d.stored = r.stored /\ d.text = r.text /\ d.gone = r.gone
        /\ d.stale = r.stale \ {m} /\ d.verdict = [r.verdict EXCEPT ![m] = v]
        /\ d.claim = [r.claim EXCEPT ![m] = None]
    BY DEF RowType, Decision
  <1>2. v \in Verdicts BY DEF Verdicts, Final
  <1>3. [r.verdict EXCEPT ![m] = v] \in [Messages -> Verdicts] BY <1>2 DEF RowType
  <1>4. [r.claim EXCEPT ![m] = None] \in [Messages -> Handlers \cup {None}] BY DEF RowType
  <1>5. r.stale \ {m} \subseteq Messages BY DEF RowType
  <1>6. d \in RowType BY <1>3, <1>4, <1>5 DEF RowType, Decision
  <1>7. Decided(r, m, v) = IF m \in r.stored THEN d ELSE r BY DEF Decided, Decision
  <1> HIDE DEF d
  <1> QED BY <1>1, <1>6, <1>7

LEMMA DecidedOK ==
  ASSUME NEW r, NEW dels, EventsOK(r, acted, dels), NEW m \in Messages, NEW v \in Final,
         NEW acts,
         \/ acts = acted
         \/ acts = [acted EXCEPT ![m] = @ + 1] /\ r.verdict[m] = "judging"
  PROVE  EventsOK(Decided(r, m, v), acts, dels)
  <1> DEFINE d == Decided(r, m, v)
  <1>1. /\ Tidy(r) /\ Recalls(r, acted, dels) /\ Top(r.stored) /\ r \in RowType
        /\ r.verdict \in [Messages -> Verdicts] /\ r.claim \in [Messages -> Handlers \cup {None}]
        /\ acted \in [Messages -> 0..1] /\ v # None /\ v # "judging"
    BY DEF EventsOK, Tidy, RowType, Recalls, Final, None
  <1>2. CASE m \notin r.stored
    <2>1. r.verdict[m] # "judging" BY <1>1, <1>2 DEF Tidy, None
    <2>2. acts = acted BY <2>1
    <2>3. Decided(r, m, v) = r BY <1>2 DEF Decided
    <2> QED BY <2>2, <2>3
  <1>3. CASE m \in r.stored
    <2>1. /\ d \in RowType
          /\ d.stored = r.stored /\ d.text = r.text /\ d.gone = r.gone
          /\ d.stale = r.stale \ {m} /\ d.verdict = [r.verdict EXCEPT ![m] = v]
          /\ d.claim = [r.claim EXCEPT ![m] = None]
      BY <1>1, <1>3, DecidedFields
    <2> HIDE DEF d
    <2>2. \A n \in Messages : /\ d.verdict[n] = IF n = m THEN v ELSE r.verdict[n]
                              /\ d.claim[n] = IF n = m THEN None ELSE r.claim[n]
      BY <1>1, <2>1
    <2>3. Tidy(d)
      <3>1. ASSUME NEW n \in Messages
            PROVE  /\ d.verdict[n] # None => n \in d.stored
                   /\ d.claim[n] # None <=> d.verdict[n] = "judging"
                   /\ n \in Noise => d.verdict[n] # "judging"
        BY <1>1, <1>3, <2>1, <2>2 DEF Tidy
      <3> QED BY <1>1, <2>1, <3>1 DEF Tidy
    <2>4. acts \in [Messages -> 0..1] /\ \A n \in Messages : n # m => acts[n] = acted[n]
      <3>1. CASE acts = acted BY <1>1, <3>1
      <3>2. CASE acts = [acted EXCEPT ![m] = acted[m] + 1] /\ r.verdict[m] = "judging"
        <4>1. acted[m] # 1 BY <1>1, <1>3, <3>2 DEF Recalls, Top, Final
        <4>2. acted[m] + 1 \in 0..1 BY <1>1, <4>1
        <4> QED BY <1>1, <3>2, <4>2
      <3> QED BY <3>1, <3>2
    <2>5. ASSUME NEW n \in Messages, acts[n] = 1
          PROVE  d.verdict[n] \in Final \/ Sunk(n, d.stored)
      BY <1>1, <2>1, <2>2, <2>4, <2>5 DEF Recalls
    <2>6. Recalls(d, acts, dels) BY <1>1, <2>1, <2>4, <2>5 DEF Recalls
    <2>7. EventsOK(d, acts, dels) BY <1>1, <2>1, <2>3, <2>6 DEF EventsOK
    <2> QED BY <2>7 DEF d
  <1> QED BY <1>2, <1>3

\* A claim on a message that is free or whose claim is old.
LEMMA ClaimedOK ==
  ASSUME NEW r, EventsOK(r, acted, deleted), NEW m \in Messages \ Noise, NEW h \in Handlers,
         Claimable(r, m)
  PROVE  /\ EventsOK(Claimed(r, m, h), acted, deleted)
         /\ Claimed(r, m, h).stored = r.stored
         /\ Claimed(r, m, h).verdict = [r.verdict EXCEPT ![m] = "judging"]
         /\ Claimed(r, m, h).claim = [r.claim EXCEPT ![m] = h]
  <1> DEFINE c == Claimed(r, m, h)
  <1>1. /\ Tidy(r) /\ Recalls(r, acted, deleted) /\ Top(r.stored) /\ r \in RowType
        /\ r.verdict \in [Messages -> Verdicts] /\ r.claim \in [Messages -> Handlers \cup {None}]
        /\ h # None
    BY Numbers DEF EventsOK, Tidy, RowType
  <1>2. m \in r.stored /\ r.verdict[m] \notin Final BY DEF Claimable, Final, None
  <1>3. /\ c.stored = r.stored /\ c.text = r.text /\ c.gone = r.gone /\ c.stale = r.stale \ {m}
        /\ c.verdict = [r.verdict EXCEPT ![m] = "judging"]
        /\ c.claim = [r.claim EXCEPT ![m] = h]
    BY <1>1 DEF Claimed, RowType
  <1>4. c \in RowType
    <2>1. [r.verdict EXCEPT ![m] = "judging"] \in [Messages -> Verdicts] BY <1>1 DEF Verdicts
    <2>2. [r.claim EXCEPT ![m] = h] \in [Messages -> Handlers \cup {None}] BY <1>1
    <2>3. r.stale \ {m} \subseteq Messages BY <1>1 DEF RowType
    <2> QED BY <1>1, <2>1, <2>2, <2>3 DEF RowType, Claimed
  <1> HIDE DEF c
  <1>5. \A n \in Messages : /\ c.verdict[n] = IF n = m THEN "judging" ELSE r.verdict[n]
                            /\ c.claim[n] = IF n = m THEN h ELSE r.claim[n]
    BY <1>1, <1>3
  <1>6. Tidy(c)
    <2>1. ASSUME NEW n \in Messages
          PROVE  /\ c.verdict[n] # None => n \in c.stored
                 /\ c.claim[n] # None <=> c.verdict[n] = "judging"
                 /\ n \in Noise => c.verdict[n] # "judging"
      BY <1>1, <1>2, <1>3, <1>5 DEF Tidy
    <2> QED BY <1>1, <1>3, <1>4, <2>1 DEF Tidy
  <1>7. acted[m] # 1 BY <1>1, <1>2 DEF Recalls, Top
  <1>8. Recalls(c, acted, deleted) BY <1>1, <1>3, <1>5, <1>7 DEF Recalls
  <1>9. EventsOK(c, acted, deleted) BY <1>1, <1>3, <1>6, <1>8 DEF EventsOK
  <1> QED BY <1>3, <1>9 DEF c

-----------------------------------------------------------------------------
(* Claims *)

\* The step of VerdictOfHolder.
Handed ==
    \A m \in Messages :
       claim[m] # None /\ m \in stored' /\ claim'[m] = None =>
          /\ at[claim[m]] = Judging(m)
          /\ at'[claim[m]].pc # "judging"

\* The next state has good rows.
LEMMA NextRows ==
  ASSUME NEW r, EventsOK(r, acted', deleted'), Become(r)
  PROVE  Rows' = r /\ EventsOK(Rows, acted, deleted)'
  <1>1. Rows' = r BY BecomeRows DEF EventsOK, Tidy
  <1>2. EventsOK(Rows', acted', deleted') BY <1>1
  <1> QED BY <1>1, <1>2

\* A step that leaves every claim, and the handlers that hold one.
LEMMA ClaimsStay ==
  ASSUME EventsInv, crashes' >= crashes, crashes' \in Nat, ClaimsKept(Rows'),
         \A h \in Handlers :
            \/ at'[h] = at[h]
            \/ \A m \in Messages : verdict'[m] = "judging" /\ claim'[m] = h => crashes' # 0
  PROVE  ClaimHasHandler' /\ Handed
  <1>1. /\ claim \in [Messages -> Handlers \cup {None}]
        /\ \A m \in Messages : verdict[m] = "judging" => claim[m] \in Handlers
        /\ crashes \in Nat
    BY RowsFields, Numbers DEF EventsInv, HandlersOK, EventsOK, Tidy, RowType
  <1>2. \A m \in Messages :
           /\ m \in stored' => /\ claim'[m] = claim[m]
                               /\ verdict'[m] = "judging" <=> verdict[m] = "judging"
           /\ verdict'[m] = "judging" => m \in stored'
    BY RowsFields DEF ClaimsKept
  <1>3. Handed BY <1>2 DEF Handed
  <1>4. ASSUME crashes' = 0, NEW m \in Messages, verdict'[m] = "judging"
        PROVE  at'[claim'[m]] = Judging(m)
    <2>1. crashes = 0 BY <1>1, <1>4
    <2>2. claim'[m] = claim[m] /\ verdict[m] = "judging" /\ claim[m] \in Handlers
      BY <1>1, <1>2, <1>4
    <2>3. at[claim[m]] = Judging(m) BY <2>1, <2>2 DEF EventsInv, ClaimHasHandler
    <2> QED BY <1>4, <2>2, <2>3
  <1>5. ClaimHasHandler' BY <1>4 DEF ClaimHasHandler, Judging
  <1> QED BY <1>3, <1>5

\* A handler that does not hold a claim has none, but for the claims of before
\* an eviction.
LEMMA NoClaim ==
  ASSUME EventsInv, NEW r, ClaimsKept(r), NEW h \in Handlers,
         at[h].pc # "judging" \/ ~Holds(r, h)
  PROVE  \A m \in Messages : r.verdict[m] = "judging" /\ r.claim[m] = h => crashes # 0
  <1> SUFFICES ASSUME NEW m \in Messages, r.verdict[m] = "judging", r.claim[m] = h, crashes = 0
               PROVE  FALSE
    OBVIOUS
  <1>1. verdict[m] = "judging" /\ claim[m] = h BY DEF ClaimsKept
  <1>2. at[h] = Judging(m) BY <1>1 DEF EventsInv, ClaimHasHandler
  <1> QED BY <1>2 DEF Judging, Holds

\* The holder of a claim decides and is done judging.
LEMMA ClaimDecided ==
  ASSUME EventsInv, UNCHANGED crashes, NEW h \in Handlers, at[h].pc = "judging",
         NEW r, NEW dels, EventsOK(r, acted, dels), ClaimsKept(r), Holds(r, h),
         NEW v \in Final, Rows' = Decided(r, at[h].m, v),
         NEW x, x.pc # "judging", at' = [at EXCEPT ![h] = x]
  PROVE  ClaimHasHandler' /\ Handed
  <1> DEFINE m0 == at[h].m
  <1>1. /\ m0 \in Messages /\ r \in RowType /\ at[h] = Judging(m0)
        /\ r.verdict[m0] = "judging" /\ r.claim[m0] = h /\ m0 \in r.stored
        /\ claim[m0] = h /\ at'[h] = x /\ \A g \in Handlers : g # h => at'[g] = at[g]
    <2>1. at[h] = Judging(at[h].m) /\ m0 \in Messages
      BY DEF EventsInv, HandlersOK, Judging
    <2>2. r \in RowType /\ r.verdict[m0] = "judging" /\ r.claim[m0] = h
      BY DEF Holds, EventsOK, Tidy
    <2>3. m0 \in r.stored BY <2>1, <2>2 DEF ClaimsKept
    <2>4. claim[m0] = h BY <2>1, <2>2, <2>3 DEF ClaimsKept
    <2>5. at'[h] = x /\ \A g \in Handlers : g # h => at'[g] = at[g]
      BY DEF EventsInv, HandlersOK
    <2> QED BY <2>1, <2>2, <2>3, <2>4, <2>5
  <1> HIDE DEF m0
  <1>2. /\ stored' = r.stored /\ verdict' = [r.verdict EXCEPT ![m0] = v]
        /\ claim' = [r.claim EXCEPT ![m0] = None]
    <2>1. /\ Rows' = Decided(r, m0, v)
          /\ Decided(r, m0, v).stored = r.stored
          /\ Decided(r, m0, v).verdict = [r.verdict EXCEPT ![m0] = v]
          /\ Decided(r, m0, v).claim = [r.claim EXCEPT ![m0] = None]
      BY <1>1, DecidedFields DEF m0
    <2>2. /\ stored' = Rows'.stored /\ verdict' = Rows'.verdict /\ claim' = Rows'.claim
      BY DEF Rows
    <2> QED BY <2>1, <2>2
  <1>3. \A n \in Messages : n # m0 => verdict'[n] = r.verdict[n] /\ claim'[n] = r.claim[n]
    BY <1>1, <1>2 DEF RowType
  <1>4. verdict'[m0] # "judging" BY <1>1, <1>2 DEF RowType, Final
  <1>5. Handed BY <1>1, <1>2, <1>3 DEF Handed, ClaimsKept
  <1>6. ASSUME crashes' = 0, NEW n \in Messages, verdict'[n] = "judging"
        PROVE  at'[claim'[n]] = Judging(n)
    <2>1. n # m0 /\ r.verdict[n] = "judging" /\ claim'[n] = r.claim[n] BY <1>3, <1>4, <1>6
    <2>2. n \in r.stored /\ verdict[n] = "judging" /\ r.claim[n] = claim[n]
      BY <2>1 DEF ClaimsKept
    <2>3. at[claim[n]] = Judging(n) BY <1>6, <2>2 DEF EventsInv, ClaimHasHandler
    <2>4. claim[n] # h BY <1>1, <2>1, <2>3 DEF Judging
    <2>5. claim[n] \in Handlers
      BY <2>2, RowsFields DEF EventsInv, EventsOK, Tidy, RowType
    <2> QED BY <1>1, <2>1, <2>2, <2>3, <2>4, <2>5
  <1>7. ClaimHasHandler' BY <1>6 DEF ClaimHasHandler, Judging
  <1> QED BY <1>5, <1>7

\* A handler that is new claims a message.
LEMMA ClaimTaken ==
  ASSUME EventsInv, UNCHANGED crashes, NEW h \in Handlers, at[h].pc = "new",
         NEW r, EventsOK(r, acted, deleted), ClaimsKept(r), NEW m \in Messages,
         m \notin Noise, Claimable(r, m), Rows' = Claimed(r, m, h), Judges(h, m)
  PROVE  ClaimHasHandler' /\ Handed
  <1>1. /\ stored' = r.stored /\ verdict' = [r.verdict EXCEPT ![m] = "judging"]
        /\ claim' = [r.claim EXCEPT ![m] = h]
    <2>1. /\ Claimed(r, m, h).stored = r.stored
          /\ Claimed(r, m, h).verdict = [r.verdict EXCEPT ![m] = "judging"]
          /\ Claimed(r, m, h).claim = [r.claim EXCEPT ![m] = h]
      BY ClaimedOK
    <2>2. /\ stored' = Rows'.stored /\ verdict' = Rows'.verdict /\ claim' = Rows'.claim
      BY DEF Rows
    <2> QED BY <2>1, <2>2
  <1>2. /\ r \in RowType /\ at'[h] = Judging(m) /\ h # None
        /\ \A g \in Handlers : g # h => at'[g] = at[g]
    BY Numbers DEF EventsInv, HandlersOK, Judges, EventsOK, Tidy
  <1>3. \A n \in Messages :
           /\ n # m => verdict'[n] = r.verdict[n] /\ claim'[n] = r.claim[n]
           /\ verdict'[m] = "judging" /\ claim'[m] = h
    BY <1>1, <1>2 DEF RowType
  <1>4. Handed BY <1>1, <1>2, <1>3 DEF Handed, ClaimsKept
  <1>5. ASSUME crashes' = 0, NEW n \in Messages, verdict'[n] = "judging"
        PROVE  at'[claim'[n]] = Judging(n)
    <2>1. CASE n = m BY <1>2, <1>3, <2>1
    <2>2. CASE n # m
      <3>1. n \in r.stored /\ verdict[n] = "judging" /\ claim'[n] = claim[n]
        BY <1>3, <1>5, <2>2 DEF ClaimsKept
      <3>2. at[claim[n]] = Judging(n) BY <1>5, <3>1 DEF EventsInv, ClaimHasHandler
      <3>3. claim[n] # h BY <3>2 DEF Judging
      <3>4. claim[n] \in Handlers
        BY <3>1, RowsFields DEF EventsInv, EventsOK, Tidy, RowType
      <3> QED BY <1>2, <3>1, <3>2, <3>3, <3>4
    <2> QED BY <2>1, <2>2
  <1>6. ClaimHasHandler' BY <1>5 DEF ClaimHasHandler, Judging
  <1> QED BY <1>4, <1>6

\* A verdict on what is not being judged leaves every claim.
LEMMA DecidedClaims ==
  ASSUME NEW r, Tidy(r), ClaimsKept(r), NEW m \in Messages, r.verdict[m] # "judging",
         NEW v \in Final
  PROVE  ClaimsKept(Decided(r, m, v))
  <1>1. CASE m \notin r.stored
    <2>1. Decided(r, m, v) = r BY <1>1 DEF Decided
    <2> QED BY <2>1
  <1>2. CASE m \in r.stored
    <2> DEFINE d == Decided(r, m, v)
    <2>1. r \in RowType /\ v # "judging" BY DEF Tidy, Final
    <2>2. /\ d.stored = r.stored /\ d.verdict = [r.verdict EXCEPT ![m] = v]
          /\ d.claim = [r.claim EXCEPT ![m] = None]
      BY <1>2, <2>1, DecidedFields
    <2> HIDE DEF d
    <2>3. \A n \in Messages : /\ d.verdict[n] = IF n = m THEN v ELSE r.verdict[n]
                              /\ d.claim[n] = IF n = m THEN None ELSE r.claim[n]
      BY <2>1, <2>2 DEF RowType
    <2>4. r.claim[m] = None BY DEF Tidy
    <2>5. ClaimsKept(d) BY <2>1, <2>2, <2>3, <2>4 DEF ClaimsKept
    <2> QED BY <2>5 DEF d
  <1> QED BY <1>1, <1>2

-----------------------------------------------------------------------------
(* The steps of a handler and of Slack *)

LEMMA EventsFacts ==
  ASSUME EventsInv
  PROVE  /\ EventsOK(Rows, acted, deleted) /\ HandlersOK /\ ClaimHasHandler
         /\ Tidy(Rows) /\ Rows \in RowType /\ ClaimsKept(Rows)
         /\ acted \in [Messages -> 0..1] /\ crashes \in Nat
         /\ \A h \in Handlers : at[h].pc = "judging" => at[h].m \in Messages
  <1>1. EventsOK(Rows, acted, deleted) /\ HandlersOK /\ ClaimHasHandler BY DEF EventsInv
  <1>2. Tidy(Rows) /\ Rows \in RowType /\ acted \in [Messages -> 0..1]
    BY <1>1 DEF EventsOK, Tidy, Recalls
  <1>3. ClaimsKept(Rows) BY <1>2, RowsFields DEF ClaimsKept, Tidy, None
  <1>4. crashes \in Nat BY <1>1, Numbers DEF HandlersOK
  <1> QED BY <1>1, <1>2, <1>3, <1>4 DEF HandlersOK

\* The handlers after one of them went on.
LEMMA HandlersGo ==
  ASSUME HandlersOK, NEW h \in Handlers, UNCHANGED crashes,
         NEW pc \in {"new", "judging", "investigating", "closing", "done"},
         NEW m \in Messages \cup {0}, pc = "judging" => m \in Messages,
         at' = [at EXCEPT ![h] = [pc |-> pc, m |-> m]]
  PROVE  /\ HandlersOK' /\ at'[h] = [pc |-> pc, m |-> m]
         /\ \A g \in Handlers : g # h => at'[g] = at[g]
  BY DEF HandlersOK

LEMMA HandlersEnd ==
  ASSUME HandlersOK, NEW h \in Handlers, UNCHANGED crashes, Ends(h)
  PROVE  /\ HandlersOK' /\ at'[h] = Done /\ Done.pc # "judging"
         /\ \A g \in Handlers : g # h => at'[g] = at[g]
  BY HandlersGo DEF Ends, Done

LEMMA HandlersMove ==
  ASSUME HandlersOK, NEW h \in Handlers, UNCHANGED crashes,
         NEW pc \in {"investigating", "closing"}, Goes(h, pc)
  PROVE  /\ HandlersOK' /\ at' = [at EXCEPT ![h] = [pc |-> pc, m |-> at[h].m]]
         /\ at'[h].pc = pc
         /\ \A g \in Handlers : g # h => at'[g] = at[g]
  <1> DEFINE m == at[h].m
  <1>1. m \in Messages \cup {0} /\ [at[h] EXCEPT !.pc = pc] = [pc |-> pc, m |-> m]
    BY DEF HandlersOK
  <1>2. at' = [at EXCEPT ![h] = [pc |-> pc, m |-> m]] BY <1>1 DEF Goes
  <1>3. pc \in {"new", "judging", "investigating", "closing", "done"} /\ pc # "judging"
    OBVIOUS
  <1> HIDE DEF m
  <1>4. HandlersOK' /\ at'[h] = [pc |-> pc, m |-> m]
        /\ \A g \in Handlers : g # h => at'[g] = at[g]
    BY <1>1, <1>2, <1>3 DEF HandlersOK
  <1> QED BY <1>2, <1>4 DEF m

\* A handler ends that holds no claim.
LEMMA Leaves ==
  ASSUME EventsInv, NEW h \in Handlers, UNCHANGED crashes, Ends(h), ClaimsKept(Rows'),
         at[h].pc # "judging" \/ ~Holds(Rows', h)
  PROVE  HandlersOK' /\ ClaimHasHandler' /\ Handed
  <1>1. /\ HandlersOK' /\ \A g \in Handlers : g # h => at'[g] = at[g]
        /\ crashes' = crashes /\ crashes' \in Nat
    BY EventsFacts, HandlersEnd
  <1>2. \A m \in Messages : Rows'.verdict[m] = "judging" /\ Rows'.claim[m] = h => crashes # 0
    BY NoClaim
  <1>3. verdict' = Rows'.verdict /\ claim' = Rows'.claim BY DEF Rows
  <1>4. crashes' >= crashes BY <1>1
  <1>5. \A g \in Handlers :
            \/ at'[g] = at[g]
            \/ \A m \in Messages : verdict'[m] = "judging" /\ claim'[m] = g => crashes' # 0
    BY <1>1, <1>2, <1>3
  <1>6. ClaimHasHandler' /\ Handed BY <1>1, <1>4, <1>5, ClaimsStay
  <1> QED BY <1>1, <1>6

LEMMA DeliverEvents ==
  ASSUME EventsInv, NEW h \in Handlers, NEW m \in Messages, Deliver(h, m)
  PROVE  EventsInv' /\ Handed
  <1> DEFINE r == Recorded(m, FALSE)
  <1>1. EventsOK(r, acted, deleted) /\ ClaimsKept(r) /\ Tidy(r)
    BY EventsFacts, RecordedOK DEF EventsOK
  <1>2. at[h].pc = "new" /\ UNCHANGED <<crashes, acted, deleted>> BY DEF Deliver, history
  <1>3. CASE m \in Noise /\ Become(Decided(r, m, "filtered")) /\ Ends(h)
    <2> DEFINE d == Decided(r, m, "filtered")
    <2> HIDE DEF r
    <2>1. "filtered" \in Final /\ r.verdict[m] # "judging" BY <1>1, <1>3 DEF Final, Tidy
    <2>2. EventsOK(d, acted, deleted) /\ ClaimsKept(d)
      BY <1>1, <2>1, DecidedOK, DecidedClaims
    <2> HIDE DEF d
    <2>3. Rows' = d /\ EventsOK(Rows, acted, deleted)' BY <1>2, <1>3, <2>2, NextRows DEF d
    <2>4. ClaimsKept(Rows') BY <2>2, <2>3
    <2> QED BY <1>2, <1>3, <2>3, <2>4, Leaves DEF EventsInv
  <1>4. CASE m \notin Noise /\ Claimable(r, m) /\ Become(Claimed(r, m, h)) /\ Judges(h, m)
    <2> HIDE DEF r
    <2>1. EventsOK(Claimed(r, m, h), acted, deleted) BY <1>1, <1>4, ClaimedOK
    <2>2. Rows' = Claimed(r, m, h) /\ EventsOK(Rows, acted, deleted)'
      BY <1>2, <1>4, <2>1, NextRows
    <2>3. ClaimHasHandler' /\ Handed BY <1>1, <1>2, <1>4, <2>2, ClaimTaken
    <2>4. HandlersOK' BY <1>2, <1>4, EventsFacts, HandlersGo DEF Judges, Judging
    <2> QED BY <2>2, <2>3, <2>4 DEF EventsInv
  <1>5. CASE Become(r) /\ Ends(h)
    <2> HIDE DEF r
    <2>1. Rows' = r /\ EventsOK(Rows, acted, deleted)' BY <1>1, <1>2, <1>5, NextRows
    <2>2. ClaimsKept(Rows') BY <1>1, <2>1
    <2> QED BY <1>2, <1>5, <2>1, <2>2, Leaves DEF EventsInv
  <1> QED BY <1>3, <1>4, <1>5 DEF Deliver

\* The holder of a claim decides: the events go on well.
LEMMA DecideEvents ==
  ASSUME EventsInv, UNCHANGED <<crashes, deleted>>, NEW h \in Handlers, at[h].pc = "judging",
         NEW r, EventsOK(r, acted, deleted), ClaimsKept(r), Holds(r, h),
         NEW v \in Final, Become(Decided(r, at[h].m, v)),
         acted' = acted \/ Act(h),
         NEW x, x.pc # "judging", at' = [at EXCEPT ![h] = x], HandlersOK'
  PROVE  EventsInv' /\ Handed
  <1> DEFINE m == at[h].m
             d == Decided(r, m, v)
  <1>1. m \in Messages BY EventsFacts
  <1>2. /\ r.verdict[m] = "judging"
        /\ acted' = acted \/ acted' = [acted EXCEPT ![m] = @ + 1]
    BY DEF Holds, Act
  <1> HIDE DEF m
  <1>3. EventsOK(d, acted', deleted') BY <1>1, <1>2, DecidedOK
  <1> HIDE DEF d
  <1>4. Rows' = d /\ EventsOK(Rows, acted, deleted)' BY <1>3, NextRows DEF d, m
  <1>5. Rows' = Decided(r, at[h].m, v) BY <1>4 DEF d, m
  <1>6. ClaimHasHandler' /\ Handed BY <1>5, ClaimDecided
  <1> QED BY <1>4, <1>6 DEF EventsInv

LEMMA FilterEvents ==
  ASSUME EventsInv, NEW h \in Handlers, Filter(h) \/ Throw(h) \/ Discard(h)
  PROVE  EventsInv' /\ Handed
  <1>1. /\ at[h].pc = "judging" /\ Ends(h) /\ UNCHANGED <<crashes, acted, deleted>>
        /\ HandlersOK' /\ Done.pc # "judging" /\ at' = [at EXCEPT ![h] = Done]
        /\ at[h].m \in Messages
    <2>1. at[h].pc = "judging" /\ Ends(h) /\ UNCHANGED <<crashes, acted, deleted>>
      BY DEF Filter, Throw, Discard, history
    <2> QED BY <2>1, EventsFacts, HandlersEnd DEF Ends
  <1>2. {"filtered", "pass"} \subseteq Final BY DEF Final
  <1>3. ASSUME NEW r, EventsOK(r, acted, deleted), ClaimsKept(r), ~Holds(r, h), Rows' = r
        PROVE  EventsInv' /\ Handed
    <2>1. EventsOK(Rows, acted, deleted)' BY <1>1, <1>3
    <2>2. ClaimsKept(Rows') /\ ~Holds(Rows', h) BY <1>3
    <2> QED BY <1>1, <2>1, <2>2, Leaves DEF EventsInv
  <1>4. CASE Filter(h)
    <2>1. CASE Holds(Rows, h) /\ Become(Decided(Rows, at[h].m, "filtered"))
      BY <1>1, <1>2, <2>1, EventsFacts, DecideEvents
    <2>2. CASE ~Holds(Rows, h) /\ UNCHANGED events
      <3>1. Rows' = Rows BY <2>2 DEF events, Rows
      <3> QED BY <1>3, <2>2, <3>1, EventsFacts
    <2> QED BY <1>4, <2>1, <2>2 DEF Filter
  <1>5. CASE Throw(h)
    <2> DEFINE r == Recorded(at[h].m, FALSE)
    <2>1. EventsOK(r, acted, deleted) /\ ClaimsKept(r)
      BY <1>1, EventsFacts, RecordedOK
    <2>2. Become(IF Holds(r, h) THEN Decided(r, at[h].m, "pass") ELSE r)
      BY <1>5 DEF Throw
    <2> HIDE DEF r
    <2>3. CASE Holds(r, h)
      <3>1. Become(Decided(r, at[h].m, "pass")) BY <2>2, <2>3
      <3> QED BY <1>1, <1>2, <2>1, <2>3, <3>1, DecideEvents
    <2>4. CASE ~Holds(r, h)
      <3>1. Become(r) BY <2>2, <2>4
      <3>2. Rows' = r BY <1>1, <2>1, <3>1, NextRows
      <3> QED BY <1>3, <2>1, <2>4, <3>2
    <2> QED BY <2>3, <2>4
  <1>6. CASE Discard(h)
    <2>1. Rows' = Rows BY <1>6 DEF Discard, events, Rows
    <2> QED BY <1>3, <1>6, <2>1, EventsFacts DEF Discard
  <1> QED BY <1>4, <1>5, <1>6

LEMMA JudgedEvents ==
  ASSUME EventsInv, NEW h \in Handlers,
         \/ Pass(h) \/ Ack(h) \/ Investigate(h)
         \/ \E p \in Priorities, quiet \in BOOLEAN : Answer(h, p, quiet)
  PROVE  EventsInv' /\ Handed
  <1>1. PICK v \in Final : /\ Judged(h, v) /\ (acted' = acted \/ Act(h))
                           /\ Ends(h) \/ Goes(h, "investigating")
    BY DEF Pass, Ack, Answer, Investigate, Final
  <1>2. /\ at[h].pc = "judging" /\ Holds(Rows, h) /\ UNCHANGED <<crashes, deleted>>
        /\ Become(Decided(Rows, at[h].m, v))
    BY <1>1 DEF Judged
  <1>3. PICK x : x.pc # "judging" /\ at' = [at EXCEPT ![h] = x] /\ HandlersOK'
    <2>1. CASE Ends(h) BY <1>2, <2>1, EventsFacts, HandlersEnd DEF Ends
    <2>2. CASE Goes(h, "investigating")
      <3>1. HandlersOK' /\ at' = [at EXCEPT ![h] = [pc |-> "investigating", m |-> at[h].m]]
        BY <1>2, <2>2, EventsFacts, HandlersMove
      <3> QED BY <3>1
    <2> QED BY <1>1, <2>1, <2>2
  <1> QED BY <1>1, <1>2, <1>3, EventsFacts, DecideEvents

LEMMA ContextEvents ==
  ASSUME EventsInv, NEW m \in Messages, NEW deletes \in BOOLEAN, Context(m, deletes)
  PROVE  EventsInv' /\ Handed
  <1> DEFINE r == Recorded(m, deletes)
             dels == IF deletes THEN deleted \cup {m} ELSE deleted
  <1>1. EventsOK(r, acted, dels) /\ ClaimsKept(r) /\ Tidy(r) /\ "filtered" \in Final
    BY EventsFacts, RecordedOK DEF EventsOK, Final
  <1>2. /\ UNCHANGED <<at, acted, crashes>> /\ deleted' = dels
        /\ Become(IF r.verdict[m] = None THEN Decided(r, m, "filtered") ELSE r)
    BY DEF Context
  <1> HIDE DEF r, dels
  <1>3. PICK d : EventsOK(d, acted, dels) /\ ClaimsKept(d) /\ Become(d)
    <2>1. CASE r.verdict[m] = None
      <3>1. r.verdict[m] # "judging" BY <2>1 DEF None
      <3>2. EventsOK(Decided(r, m, "filtered"), acted, dels) BY <1>1, DecidedOK
      <3>3. ClaimsKept(Decided(r, m, "filtered")) BY <1>1, <3>1, DecidedClaims
      <3> QED BY <1>2, <2>1, <3>2, <3>3
    <2>2. CASE r.verdict[m] # None BY <1>1, <1>2, <2>2
    <2> QED BY <2>1, <2>2
  <1>4. Rows' = d /\ EventsOK(Rows, acted, deleted)' BY <1>2, <1>3, NextRows
  <1>5. ClaimHasHandler' /\ Handed
    <2>1. ClaimsKept(Rows') /\ crashes' \in Nat /\ crashes' >= crashes
      BY <1>2, <1>3, <1>4, EventsFacts
    <2> QED BY <1>2, <2>1, ClaimsStay
  <1>6. HandlersOK' BY <1>2 DEF EventsInv, HandlersOK
  <1> QED BY <1>4, <1>5, <1>6 DEF EventsInv

LEMMA BackfillEvents ==
  ASSUME EventsInv, NEW m \in Messages, Backfill(m)
  PROVE  EventsInv' /\ Handed
  <1>1. /\ UNCHANGED <<at, acted, deleted, crashes>> /\ Become(Merged(m))
    BY DEF Backfill, history, Merged
  <1>2. EventsOK(Merged(m), acted, deleted) /\ ClaimsKept(Merged(m)) BY EventsFacts, MergedOK
  <1>3. Rows' = Merged(m) /\ EventsOK(Rows, acted, deleted)' BY <1>1, <1>2, NextRows
  <1>4. ClaimsKept(Rows') /\ crashes' \in Nat /\ crashes' >= crashes
    BY <1>1, <1>2, <1>3, EventsFacts
  <1>5. ClaimHasHandler' /\ Handed BY <1>1, <1>4, ClaimsStay
  <1>6. HandlersOK' BY <1>1 DEF EventsInv, HandlersOK
  <1> QED BY <1>3, <1>5, <1>6 DEF EventsInv

LEMMA AgesEvents ==
  ASSUME EventsInv, NEW m \in Messages, ClaimAges(m)
  PROVE  EventsInv' /\ Handed
  <1>1. /\ UNCHANGED <<stored, text, gone, verdict, claim, at, acted, deleted, crashes>>
        /\ verdict[m] = "judging" /\ stale' = stale \cup {m}
    BY DEF ClaimAges, history
  <1>2. m \in stored BY <1>1, EventsFacts, RowsFields DEF Tidy, None
  <1>3. /\ Rows'.stored = stored /\ Rows'.text = text /\ Rows'.gone = gone
        /\ Rows'.verdict = verdict /\ Rows'.claim = claim /\ Rows'.stale = stale \cup {m}
        /\ Rows' \in RowType
    BY <1>1, EventsFacts DEF Rows, RowType
  <1>4. Tidy(Rows') BY <1>2, <1>3, EventsFacts, RowsFields DEF Tidy
  <1>5. Recalls(Rows', acted, deleted) /\ Top(Rows'.stored)
    BY <1>3, RowsFields DEF EventsInv, EventsOK, Recalls
  <1>6. EventsOK(Rows', acted, deleted) BY <1>4, <1>5 DEF EventsOK
  <1>7. EventsOK(Rows, acted, deleted)' BY <1>1, <1>6
  <1>8. ClaimsKept(Rows') BY <1>3, EventsFacts, RowsFields DEF ClaimsKept
  <1>9. crashes' \in Nat /\ crashes' >= crashes BY <1>1, EventsFacts
  <1>10. ClaimHasHandler' /\ Handed BY <1>1, <1>8, <1>9, ClaimsStay
  <1>11. HandlersOK' BY <1>1 DEF EventsInv, HandlersOK
  <1> QED BY <1>7, <1>10, <1>11 DEF EventsInv

\* The other steps touch no event; those of a handler, one that holds no claim.
LEMMA QuietEvents ==
  ASSUME EventsInv, UNCHANGED <<events, acted, deleted>>,
         \/ UNCHANGED <<at, crashes>>
         \/ Crash
         \/ \E h \in Handlers :
               \/ Closed(h)
               \/ \E p \in Priorities, quiet \in BOOLEAN : Found(h, p, quiet)
  PROVE  EventsInv' /\ Handed
  <1>1. Rows' = Rows BY DEF events, Rows
  <1>2. EventsOK(Rows, acted, deleted)' /\ ClaimsKept(Rows') BY <1>1, EventsFacts
  <1>3. CASE UNCHANGED <<at, crashes>>
    <2>1. crashes' \in Nat /\ crashes' >= crashes BY <1>3, EventsFacts
    <2>2. ClaimHasHandler' /\ Handed BY <1>2, <1>3, <2>1, ClaimsStay
    <2>3. HandlersOK' BY <1>3 DEF EventsInv, HandlersOK
    <2> QED BY <1>2, <2>2, <2>3 DEF EventsInv
  <1>4. CASE Crash
    <2>1. crashes' \in Nat /\ crashes' >= crashes /\ crashes' # 0 /\ crashes' \in 0..MaxCrashes
      BY <1>4, EventsFacts, Numbers DEF Crash
    <2>2. ClaimHasHandler' /\ Handed BY <1>2, <2>1, ClaimsStay
    <2>3. HandlersOK' BY <1>4, <2>1 DEF Crash, EventsInv, HandlersOK, Done
    <2> QED BY <1>2, <2>2, <2>3 DEF EventsInv
  <1>5. ASSUME NEW h \in Handlers, Closed(h)
        PROVE  EventsInv' /\ Handed
    <2>1. at[h].pc # "judging" /\ Ends(h) /\ UNCHANGED crashes BY <1>5 DEF Closed
    <2> QED BY <1>2, <2>1, Leaves DEF EventsInv
  <1>6. ASSUME NEW h \in Handlers, NEW p \in Priorities, NEW quiet \in BOOLEAN, Found(h, p, quiet)
        PROVE  EventsInv' /\ Handed
    <2>1. at[h].pc # "judging" /\ Goes(h, "closing") /\ UNCHANGED crashes BY <1>6 DEF Found
    <2>2. HandlersOK' /\ \A g \in Handlers : g # h => at'[g] = at[g]
      BY <2>1, EventsFacts, HandlersMove
    <2>3. \A m \in Messages : Rows'.verdict[m] = "judging" /\ Rows'.claim[m] = h => crashes' # 0
      BY <1>2, <2>1, NoClaim
    <2>4. verdict' = Rows'.verdict /\ claim' = Rows'.claim BY DEF Rows
    <2>5. crashes' \in Nat /\ crashes' >= crashes BY <2>1, EventsFacts
    <2>6. ClaimHasHandler' /\ Handed BY <1>2, <2>2, <2>3, <2>4, <2>5, ClaimsStay
    <2> QED BY <1>2, <2>2, <2>6 DEF EventsInv
  <1> QED BY <1>3, <1>4, <1>5, <1>6

-----------------------------------------------------------------------------
(* The budget of the channel *)

LEMMA SpokenIs ==
  ASSUME spoke \in [1..MaxHours -> [Priorities -> Nat]]
  PROVE  /\ \A t \in 1..MaxHours : Spoken(t, Priorities) = Sum(spoke[t])
         /\ AnswersWithin <=> \A t \in 1..MaxHours : Within(spoke[t])
  <1>1. \A t \in 1..MaxHours, p \in Priorities : spoke[t][p] \in Nat OBVIOUS
  <1>2. \A t \in 1..MaxHours :
           /\ Spoken(t, Priorities) = Sum(spoke[t])
           /\ Spoken(t, {"summons"}) = spoke[t]["summons"]
           /\ Spoken(t, {"normal"}) = spoke[t]["normal"]
           /\ Spoken(t, {"low"}) = spoke[t]["low"]
    BY <1>1 DEF Spoken, Sum, Priorities
  <1> QED BY <1>2 DEF AnswersWithin, Within

\* The budget of this hour covers what was said in it.
LEMMA CurrentCovers ==
  ASSUME BudgetOK
  PROVE  /\ Current \in Budgets /\ Current.bucket = hour
         /\ Covers(Current, spoke[hour])
         /\ hour \in 1..MaxHours /\ spoke[hour] \in [Priorities -> Nat]
  <1>1. hour \in 1..MaxHours /\ spoke[hour] \in [Priorities -> Nat] /\ budget \in Budgets
    BY DEF BudgetOK
  <1>2. CASE budget.bucket = hour BY <1>1, <1>2 DEF Current, BudgetOK
  <1>3. CASE budget.bucket # hour
    <2> DEFINE b == [bucket |-> hour, total |-> 0, used |-> [p \in Pools |-> 0]]
    <2>1. Current = b BY <1>3 DEF Current, NoBudget
    <2>2. budget.bucket < hour BY <1>1, <1>3, Numbers DEF Budgets
    <2>3. \A p \in Priorities : spoke[hour][p] = 0 BY <1>1, <2>2 DEF BudgetOK
    <2>4. Sum(spoke[hour]) = 0 BY <2>3 DEF Sum, Priorities
    <2>5. b \in Budgets BY <1>1, Numbers DEF Budgets
    <2>6. Covers(b, spoke[hour]) BY <2>3, <2>4, Numbers DEF Covers, Pools, Priorities
    <2> QED BY <1>1, <2>1, <2>5, <2>6
  <1> QED BY <1>1, <1>2, <1>3

LEMMA ReserveKeeps ==
  ASSUME BudgetOK, UNCHANGED hour, NEW p \in Priorities, NEW finding \in BOOLEAN,
         NEW quiet \in BOOLEAN, Allowed(p, finding, quiet), Reserve(p, finding)
  PROVE  BudgetOK'
  <1> DEFINE c == Current
             free == p = "urgent" /\ finding
             pool == PoolOf(p)
             u == IF free THEN c.used[pool] ELSE c.used[pool] + 1
             s == spoke[hour]
             n == [s EXCEPT ![p] = s[p] + 1]
  <1>1. /\ c \in Budgets /\ c.bucket = hour /\ Covers(c, s) /\ hour \in 1..MaxHours
        /\ s \in [Priorities -> Nat]
    BY CurrentCovers
  <1>2. /\ budget' = [c EXCEPT !.total = c.total + 1, !.used[pool] = u]
        /\ spoke' = [spoke EXCEPT ![hour] = n] /\ recent' = (recent \/ p = "normal")
    BY <1>1 DEF Reserve, Budgets
  <1>3. /\ pool \in Pools /\ c.total < Ceiling
        /\ free \/ c.used[pool] < Allowance[pool]
        /\ p \in {"summons", "low"} => pool = p
        /\ p \in {"normal", "urgent"} => pool = "general"
    BY DEF Allowed, PoolOf, Pools, Priorities
  <1>4. /\ c.total \in Nat /\ c.used \in [Pools -> Nat] /\ c.used[pool] \in Nat
        /\ u \in Nat /\ u >= c.used[pool] /\ (~free => u = c.used[pool] + 1)
        /\ u <= Allowance[pool] /\ c.total + 1 \in 0..Ceiling
    BY <1>1, <1>3, Numbers DEF Budgets, Covers
  <1>5. p # "urgent" => ~free OBVIOUS
  <1> HIDE DEF c, u, free, pool
  <1>6. /\ budget' \in Budgets /\ budget'.bucket = hour /\ budget'.total = c.total + 1
        /\ budget'.used = [c.used EXCEPT ![pool] = u]
    <2>1. [c.used EXCEPT ![pool] = u] \in [Pools -> Nat] BY <1>4
    <2> QED BY <1>1, <1>2, <1>4, <2>1 DEF Budgets
  <1>7. /\ n \in [Priorities -> Nat] /\ n[p] = s[p] + 1
        /\ \A q \in Priorities : q # p => n[q] = s[q]
    BY <1>1
  <1> HIDE DEF n, s
  <1>8. Sum(n) = Sum(s) + 1 /\ Sum(n) \in Nat /\ Sum(s) \in Nat
    BY <1>1, <1>7 DEF Sum, Priorities
  <1>9. \A q \in Pools : budget'.used[q] = IF q = pool THEN u ELSE c.used[q]
    BY <1>4, <1>6
  <1>10. Covers(budget', n)
    <2>1. \A q \in Pools : budget'.used[q] <= Allowance[q] BY <1>1, <1>4, <1>9 DEF Covers
    <2>2. Sum(n) <= budget'.total BY <1>1, <1>4, <1>6, <1>8 DEF Covers
    <2>3. n["summons"] <= budget'.used["summons"]
      BY <1>1, <1>3, <1>4, <1>5, <1>7, <1>9 DEF Covers, Pools, Priorities
    <2>4. n["normal"] <= budget'.used["general"]
      BY <1>1, <1>3, <1>4, <1>5, <1>7, <1>9 DEF Covers, Pools, Priorities
    <2>5. n["low"] <= budget'.used["low"]
      BY <1>1, <1>3, <1>4, <1>5, <1>7, <1>9 DEF Covers, Pools, Priorities
    <2> QED BY <2>1, <2>2, <2>3, <2>4, <2>5 DEF Covers
  <1>11. Within(n)
    <2>1. /\ budget'.total \in 0..Ceiling /\ \A q \in Pools : budget'.used[q] \in Nat
      BY <1>6 DEF Budgets
    <2>2. /\ n["summons"] \in Nat /\ n["normal"] \in Nat /\ n["low"] \in Nat
      BY <1>7 DEF Priorities
    <2> QED BY <1>8, <1>10, <2>1, <2>2, Numbers DEF Covers, Within, Pools
  <1>12. /\ spoke' \in [1..MaxHours -> [Priorities -> Nat]] /\ spoke'[hour] = n
         /\ \A t \in 1..MaxHours : t # hour => spoke'[t] = spoke[t]
    BY <1>1, <1>2, <1>7 DEF BudgetOK
  <1>13. \A t \in 1..MaxHours : Within(spoke'[t]) BY <1>11, <1>12 DEF BudgetOK
  <1>14. ASSUME NEW t \in 1..MaxHours, t > budget'.bucket, NEW q \in Priorities
         PROVE  spoke'[t][q] = 0
    <2>1. t > hour /\ t > budget.bucket
      BY <1>1, <1>6, <1>14, Numbers DEF Budgets, BudgetOK
    <2> QED BY <1>12, <2>1 DEF BudgetOK
  <1>15. recent' \in BOOLEAN BY <1>2 DEF BudgetOK
  <1>16. budget' \in Budgets' BY <1>6 DEF Budgets
  <1>17. hour' \in 1..MaxHours /\ Covers(budget', spoke'[budget'.bucket])
    BY <1>1, <1>6, <1>10, <1>12
  <1> QED BY <1>12, <1>13, <1>14, <1>15, <1>16, <1>17 DEF BudgetOK

LEMMA BudgetStep ==
  ASSUME BudgetOK, [Next]_vars
  PROVE  BudgetOK'
  <1>1. CASE UNCHANGED <<hour, budget, recent, spoke>>
    BY <1>1 DEF BudgetOK, Budgets
  <1>2. ASSUME NEW h \in Handlers, NEW p \in Priorities, NEW quiet \in BOOLEAN,
               Answer(h, p, quiet)
        PROVE  BudgetOK'
    <2>1. UNCHANGED hour BY <1>2 DEF Answer, Judged
    <2>2. CASE Allowed(p, FALSE, quiet) /\ Reserve(p, FALSE) BY <2>1, <2>2, ReserveKeeps
    <2>3. CASE UNCHANGED <<limits, spoke>> BY <1>1, <2>1, <2>3 DEF limits
    <2> QED BY <1>2, <2>2, <2>3 DEF Answer
  <1>3. ASSUME NEW h \in Handlers, NEW p \in Priorities, NEW quiet \in BOOLEAN,
               Found(h, p, quiet)
        PROVE  BudgetOK'
    <2>1. UNCHANGED hour BY <1>3 DEF Found
    <2>2. CASE Allowed(p, TRUE, quiet) /\ Reserve(p, TRUE) BY <2>1, <2>2, ReserveKeeps
    <2>3. CASE UNCHANGED <<budget, recent, spoke>> BY <1>1, <2>1, <2>3
    <2> QED BY <1>3, <2>2, <2>3 DEF Found
  <1>4. CASE NextHour
    <2>1. UNCHANGED <<budget, recent, spoke>> /\ hour' = hour + 1 /\ hour < MaxHours
      BY <1>4 DEF NextHour, limits, history
    <2>2. hour' \in 1..MaxHours /\ budget \in Budgets'
      BY <2>1, Numbers DEF BudgetOK, Budgets
    <2> QED BY <2>1, <2>2 DEF BudgetOK
  <1>5. CASE IntervalEnds
    <2>1. UNCHANGED <<budget, hour, spoke>> /\ recent' = FALSE
      BY <1>5 DEF IntervalEnds, history
    <2> QED BY <2>1 DEF BudgetOK, Budgets
  <1>6. ASSUME NEW h \in Handlers,
               \/ \E m \in Messages : Deliver(h, m)
               \/ Filter(h) \/ Throw(h) \/ Discard(h) \/ Pass(h) \/ Ack(h)
               \/ Investigate(h) \/ Closed(h) \/ LeaseEnds(h)
        PROVE  BudgetOK'
    <2>1. UNCHANGED <<hour, budget, recent, spoke>>
      BY <1>6 DEF Deliver, Filter, Throw, Discard, Pass, Ack, Investigate, Judged, Closed,
         LeaseEnds, limits, history
    <2> QED BY <1>1, <2>1
  <1>7. ASSUME NEW m \in Messages,
               \/ \E deletes \in BOOLEAN : Context(m, deletes)
               \/ Backfill(m) \/ ClaimAges(m)
        PROVE  BudgetOK'
    <2>1. UNCHANGED <<hour, budget, recent, spoke>>
      BY <1>7 DEF Context, Backfill, ClaimAges, limits, history
    <2> QED BY <1>1, <2>1
  <1>8. CASE Crash \/ UNCHANGED vars
    <2>1. UNCHANGED <<hour, budget, recent, spoke>>
      BY <1>8 DEF Crash, vars, limits, history
    <2> QED BY <1>1, <2>1
  <1> QED BY <1>2, <1>3, <1>4, <1>5, <1>6, <1>7, <1>8, Numbers DEF Next

-----------------------------------------------------------------------------
(* The places of investigations *)

\* A step that touches no place, of a handler that does not begin to
\* investigate or stop.
LEMMA PlacesStay ==
  ASSUME PlacesOK, UNCHANGED <<inv, late, hour, crashes>>,
         \A h \in Handlers :
            /\ at'[h].pc \in {"new", "judging"} => at[h].pc \in {"new", "judging"}
            /\ h \in Investigating' <=> h \in Investigating
  PROVE  PlacesOK'
  <1>1. Investigating' = Investigating /\ Running' = Running
    BY DEF Investigating, Running
  <1> QED BY <1>1 DEF PlacesOK, PlaceComesBack

LEMMA HandlerPlaces ==
  ASSUME PlacesOK, HandlersOK, NEW h \in Handlers,
         \/ \E m \in Messages : Deliver(h, m)
         \/ Filter(h) \/ Throw(h) \/ Discard(h) \/ Pass(h) \/ Ack(h)
         \/ \E p \in Priorities, quiet \in BOOLEAN : Answer(h, p, quiet) \/ Found(h, p, quiet)
  PROVE  PlacesOK'
  <1>1. CASE \E p \in Priorities, quiet \in BOOLEAN : Found(h, p, quiet)
    <2>1. /\ UNCHANGED <<inv, late, hour, crashes>> /\ at[h].pc = "investigating"
          /\ Goes(h, "closing")
      BY <1>1 DEF Found
    <2>2. at'[h].pc = "closing" /\ \A g \in Handlers : g # h => at'[g] = at[g]
      BY <2>1, HandlersMove
    <2>3. \A g \in Handlers :
            /\ at'[g].pc \in {"new", "judging"} => at[g].pc \in {"new", "judging"}
            /\ g \in Investigating' <=> g \in Investigating
      BY <2>1, <2>2 DEF Investigating
    <2> QED BY <2>1, <2>3, PlacesStay
  <1>2. CASE ~\E p \in Priorities, quiet \in BOOLEAN : Found(h, p, quiet)
    <2>1. /\ UNCHANGED <<inv, late, hour, crashes>> /\ at[h].pc \in {"new", "judging"}
          /\ Ends(h) \/ \E m \in Messages : Judges(h, m)
      BY <1>2 DEF Deliver, Filter, Throw, Discard, Pass, Ack, Answer, Judged, limits
    <2>2. /\ at'[h].pc \in {"judging", "done"}
          /\ \A g \in Handlers : g # h => at'[g] = at[g]
      BY <2>1 DEF HandlersOK, Ends, Judges, Judging, Done
    <2>3. \A g \in Handlers :
            /\ at'[g].pc \in {"new", "judging"} => at[g].pc \in {"new", "judging"}
            /\ g \in Investigating' <=> g \in Investigating
      BY <2>1, <2>2 DEF Investigating
    <2> QED BY <2>1, <2>3, PlacesStay
  <1> QED BY <1>1, <1>2

\* The rows after those that are late have expired.
LEMMA ExpiredRows ==
  ASSUME PlacesOK
  PROVE  /\ Expired \in [Handlers -> [status : {None, "running", "expired", "ended"},
                                      bucket : 0..hour]]
         /\ \A h \in Handlers :
              /\ Expired[h].status = "running" <=> h \in Running \ late
              /\ inv[h].status = None => Expired[h].status = None
  BY DEF PlacesOK, Expired, Running, None

LEMMA InvestigatePlaces ==
  ASSUME PlacesOK, HandlersOK, BudgetOK, NEW h \in Handlers, Investigate(h)
  PROVE  PlacesOK'
  <1>1. /\ at[h].pc = "judging" /\ UNCHANGED <<late, hour, crashes>>
        /\ inv[h].status = None /\ h \notin late /\ hour \in Nat /\ h \notin Running
    BY DEF Investigate, Judged, PlacesOK, BudgetOK, Running, None
  <1>2. IsFiniteSet(Running \ late) /\ Cardinality(Running \ late) \in Nat
    BY FS_Difference, FS_CardinalityType DEF PlacesOK
  <1>3. /\ \A g \in Investigating : g \in Handlers /\ (g \notin late => g \in Running)
        /\ Running \subseteq Handlers
    BY DEF PlacesOK, Investigating, Running
  <1>4. CASE /\ MayInvestigate /\ Goes(h, "investigating")
             /\ inv' = [Expired EXCEPT ![h] = [status |-> "running", bucket |-> hour]]
    <2>1. /\ inv' \in [Handlers -> [status : {None, "running", "expired", "ended"},
                                    bucket : 0..hour]]
          /\ inv'[h].status = "running"
          /\ \A g \in Handlers : g # h => inv'[g] = Expired[g]
      BY <1>1, <1>4, ExpiredRows
    <2>2. at'[h].pc = "investigating" /\ \A g \in Handlers : g # h => at'[g] = at[g]
      BY <1>1, <1>4, HandlersMove
    <2>3. Running' = (Running \ late) \cup {h}
      BY <1>3, <2>1, ExpiredRows DEF Running
    <2>4. Investigating' = Investigating \cup {h} BY <2>2 DEF Investigating
    <2>5. /\ IsFiniteSet(Running') /\ Running' \ late' = Running'
          /\ Cardinality(Running') = Cardinality(Running \ late) + 1
      <3>1. Running' \ late' = Running' BY <1>1, <2>3
      <3>2. h \notin Running \ late BY <1>1
      <3> QED BY <1>2, <2>3, <3>1, <3>2, FS_AddElement
    <2>6. Cardinality(Running') <= MaxConcurrent
      BY <1>2, <1>4, <2>5, Numbers DEF MayInvestigate
    <2>7. Investigating' \ late' \subseteq Running' BY <1>1, <1>3, <2>3, <2>4
    <2>8. PlaceComesBack' BY <1>1, <2>3, <2>4 DEF PlacesOK, PlaceComesBack
    <2>9. \A g \in Handlers : at'[g].pc \in {"new", "judging"} =>
                                 inv'[g].status = None /\ g \notin late'
      BY <1>1, <2>1, <2>2, ExpiredRows DEF PlacesOK
    <2> QED BY <1>1, <2>1, <2>5, <2>6, <2>7, <2>8, <2>9 DEF PlacesOK
  <1>5. CASE inv' = Expired /\ Ends(h)
    <2>1. at'[h].pc = "done" /\ \A g \in Handlers : g # h => at'[g] = at[g]
      BY <1>1, <1>5, HandlersEnd DEF Done
    <2>2. Running' = Running \ late BY <1>3, <1>5, ExpiredRows DEF Running
    <2>3. Investigating' = Investigating BY <1>1, <2>1 DEF Investigating
    <2>4. IsFiniteSet(Running') /\ Running' \ late' = Running \ late
      BY <1>1, <1>2, <2>2
    <2>5. Investigating' \ late' \subseteq Running' BY <1>1, <1>3, <2>2, <2>3
    <2>6. PlaceComesBack' BY <1>1, <2>2, <2>3 DEF PlacesOK, PlaceComesBack
    <2>7. \A g \in Handlers : at'[g].pc \in {"new", "judging"} =>
                                 inv'[g].status = None /\ g \notin late'
      BY <1>1, <1>5, <2>1, ExpiredRows DEF PlacesOK
    <2> QED BY <1>1, <1>5, <2>4, <2>5, <2>6, <2>7, ExpiredRows DEF PlacesOK
  <1> QED BY <1>4, <1>5 DEF Investigate

LEMMA ClosedPlaces ==
  ASSUME PlacesOK, HandlersOK, NEW h \in Handlers, Closed(h)
  PROVE  PlacesOK'
  <1>1. /\ at[h].pc \in {"investigating", "closing"} /\ UNCHANGED <<late, hour, crashes>>
        /\ Ends(h) /\ inv' = Released(h)
    BY DEF Closed
  <1>2. at'[h].pc = "done" /\ \A g \in Handlers : g # h => at'[g] = at[g]
    BY <1>1, HandlersEnd DEF Done
  <1>3. /\ inv' \in [Handlers -> [status : {None, "running", "expired", "ended"},
                                  bucket : 0..hour]]
        /\ inv'[h].status # "running" /\ \A g \in Handlers : g # h => inv'[g] = inv[g]
    BY <1>1 DEF PlacesOK, Released, Running, None
  <1>4. Running' = Running \ {h} BY <1>3 DEF Running
  <1>5. Investigating' = Investigating \ {h} BY <1>2 DEF Investigating
  <1>6. IsFiniteSet(Running') /\ Cardinality(Running' \ late') <= MaxConcurrent
    <2>1. IsFiniteSet(Running \ late) /\ Cardinality(Running \ late) \in Nat
      BY FS_Difference, FS_CardinalityType DEF PlacesOK
    <2>2. IsFiniteSet(Running') BY <1>4, FS_Subset DEF PlacesOK
    <2>3. Running' \ late' \subseteq Running \ late BY <1>1, <1>4
    <2>4. /\ IsFiniteSet(Running' \ late')
          /\ Cardinality(Running' \ late') <= Cardinality(Running \ late)
      BY <2>1, <2>3, FS_Subset
    <2>5. Cardinality(Running' \ late') \in Nat BY <2>4, FS_CardinalityType
    <2> QED BY <2>1, <2>2, <2>4, <2>5, Numbers DEF PlacesOK
  <1>7. Investigating' \ late' \subseteq Running' BY <1>1, <1>4, <1>5 DEF PlacesOK
  <1>8. PlaceComesBack' BY <1>1, <1>4, <1>5 DEF PlacesOK, PlaceComesBack
  <1>9. \A g \in Handlers : at'[g].pc \in {"new", "judging"} =>
                               inv'[g].status = None /\ g \notin late'
    BY <1>1, <1>2, <1>3 DEF PlacesOK
  <1> QED BY <1>1, <1>3, <1>6, <1>7, <1>8, <1>9 DEF PlacesOK

LEMMA LeasePlaces ==
  ASSUME PlacesOK, NEW h \in Handlers, LeaseEnds(h)
  PROVE  PlacesOK'
  <1>1. /\ UNCHANGED <<at, inv, hour, crashes>> /\ late' = late \cup {h} /\ h \in Running
    BY DEF LeaseEnds
  <1>2. Running' = Running /\ Investigating' = Investigating
    BY <1>1 DEF Running, Investigating
  <1>3. Cardinality(Running' \ late') <= MaxConcurrent
    <2>1. IsFiniteSet(Running \ late) /\ Cardinality(Running \ late) \in Nat
      BY FS_Difference, FS_CardinalityType DEF PlacesOK
    <2>2. Running' \ late' \subseteq Running \ late BY <1>1, <1>2
    <2>3. /\ IsFiniteSet(Running' \ late')
          /\ Cardinality(Running' \ late') <= Cardinality(Running \ late)
      BY <2>1, <2>2, FS_Subset
    <2>4. Cardinality(Running' \ late') \in Nat BY <2>3, FS_CardinalityType
    <2> QED BY <2>1, <2>3, <2>4, Numbers DEF PlacesOK
  <1>4. h \in Handlers /\ inv[h].status # None BY <1>1 DEF Running, None
  <1>5. PlaceComesBack' BY <1>1, <1>2 DEF PlacesOK, PlaceComesBack
  <1> QED BY <1>1, <1>2, <1>3, <1>4, <1>5 DEF PlacesOK

LEMMA PlacesStep ==
  ASSUME PlacesOK, HandlersOK, BudgetOK, [Next]_vars
  PROVE  PlacesOK'
  <1>1. ASSUME NEW h \in Handlers,
               \/ \E m \in Messages : Deliver(h, m)
               \/ Filter(h) \/ Throw(h) \/ Discard(h) \/ Pass(h) \/ Ack(h)
               \/ \E p \in Priorities, quiet \in BOOLEAN :
                     Answer(h, p, quiet) \/ Found(h, p, quiet)
        PROVE  PlacesOK'
    BY <1>1, HandlerPlaces
  <1>2. ASSUME NEW h \in Handlers, Investigate(h) \/ Closed(h) \/ LeaseEnds(h)
        PROVE  PlacesOK'
    BY <1>2, InvestigatePlaces, ClosedPlaces, LeasePlaces
  <1>3. CASE UNCHANGED <<at, inv, late, hour, crashes>>
    <2>1. Investigating' = Investigating BY <1>3 DEF Investigating
    <2> QED BY <1>3, <2>1, PlacesStay
  <1>4. ASSUME NEW m \in Messages,
               \/ \E deletes \in BOOLEAN : Context(m, deletes)
               \/ Backfill(m) \/ ClaimAges(m)
        PROVE  PlacesOK'
    <2>1. UNCHANGED <<at, inv, late, hour, crashes>>
      BY <1>4 DEF Context, Backfill, ClaimAges, limits
    <2> QED BY <1>3, <2>1
  <1>5. CASE IntervalEnds \/ UNCHANGED vars
    <2>1. UNCHANGED <<at, inv, late, hour, crashes>>
      BY <1>5 DEF IntervalEnds, vars, limits
    <2> QED BY <1>3, <2>1
  <1>6. CASE NextHour
    <2>1. UNCHANGED <<at, inv, late, crashes>> /\ hour' = hour + 1 /\ hour \in Nat
      BY <1>6 DEF NextHour, limits, BudgetOK
    <2>2. Running' = Running /\ Investigating' = Investigating
      BY <2>1 DEF Running, Investigating
    <2>3. inv' \in [Handlers -> [status : {None, "running", "expired", "ended"},
                                 bucket : 0..hour']]
      <3>1. 0..hour \subseteq 0..hour' BY <2>1
      <3> QED BY <2>1, <3>1 DEF PlacesOK
    <2> QED BY <2>1, <2>2, <2>3 DEF PlacesOK, PlaceComesBack
  <1>7. CASE Crash
    <2>1. /\ UNCHANGED <<inv, late, hour>> /\ crashes' # 0
          /\ \A h \in Handlers : at'[h] = IF at[h].pc = "new" THEN at[h] ELSE Done
      BY <1>7, Numbers DEF Crash, limits, HandlersOK
    <2>2. Running' = Running /\ Investigating' = {}
      BY <2>1 DEF Running, Investigating, Done
    <2>3. \A h \in Handlers : at'[h].pc \in {"new", "judging"} =>
                                 inv'[h].status = None /\ h \notin late'
      BY <2>1 DEF PlacesOK, Done
    <2> QED BY <2>1, <2>2, <2>3 DEF PlacesOK, PlaceComesBack
  <1> QED BY <1>1, <1>2, <1>4, <1>5, <1>6, <1>7, Numbers DEF Next

-----------------------------------------------------------------------------
(* The theorems *)

LEMMA InitInv == Init => Inv
  <1> SUFFICES ASSUME Init PROVE Inv OBVIOUS
  <1>1. Rows = [stored |-> {}, text |-> {}, gone |-> {}, stale |-> {},
                verdict |-> [m \in Messages |-> None], claim |-> [m \in Messages |-> None]]
    BY DEF Init, Rows
  <1>2. Rows \in RowType BY <1>1 DEF RowType, Verdicts
  <1>3. Tidy(Rows) BY <1>1, <1>2, FS_EmptySet DEF Tidy, None
  <1>4. Recalls(Rows, acted, deleted) /\ Top(Rows.stored) BY <1>1 DEF Init, Recalls, Top
  <1>5. HandlersOK BY Numbers DEF Init, HandlersOK
  <1>6. ClaimHasHandler BY DEF Init, ClaimHasHandler, None
  <1>7. EventsInv BY <1>3, <1>4, <1>5, <1>6 DEF EventsInv, EventsOK
  <1>8. BudgetOK
    <2>1. hour = 1 /\ 1 \in 1..MaxHours /\ recent = FALSE BY Numbers DEF Init
    <2>2. budget.bucket = 1 /\ budget.total = 0 /\ budget.used = [p \in Pools |-> 0]
      BY DEF Init, NoBudget
    <2>3. budget \in Budgets BY <2>1, Numbers DEF Init, NoBudget, Budgets
    <2>4. spoke = [t \in 1..MaxHours |-> [p \in Priorities |-> 0]] BY DEF Init
    <2>5. ASSUME NEW t \in 1..MaxHours
          PROVE  /\ \A p \in Priorities : spoke[t][p] = 0
                 /\ spoke[t]["summons"] = 0 /\ spoke[t]["normal"] = 0 /\ spoke[t]["low"] = 0
                 /\ Sum(spoke[t]) = 0
      BY <2>4 DEF Sum, Priorities
    <2>6. /\ \A p \in Pools : budget.used[p] = 0
          /\ budget.used["summons"] = 0 /\ budget.used["general"] = 0 /\ budget.used["low"] = 0
      BY <2>2 DEF Pools
    <2>7. Covers(budget, spoke[budget.bucket]) BY <2>1, <2>2, <2>5, <2>6, Numbers DEF Covers
    <2>8. \A t \in 1..MaxHours : Within(spoke[t]) BY <2>5, Numbers DEF Within, Pools
    <2> QED BY <2>1, <2>3, <2>4, <2>5, <2>7, <2>8 DEF BudgetOK
  <1>9. PlacesOK
    <2>1. Running = {} /\ Investigating = {} /\ late = {} /\ hour = 1
      BY DEF Init, Running, Investigating, NoInv, None
    <2>2. inv \in [Handlers -> [status : {None, "running", "expired", "ended"},
                                bucket : 0..hour]]
      BY <2>1 DEF Init, NoInv
    <2>3. \A h \in Handlers : inv[h].status = None BY DEF Init, NoInv
    <2>4. Cardinality(Running \ late) <= MaxConcurrent BY <2>1, FS_EmptySet, Numbers
    <2> QED BY <2>1, <2>2, <2>3, <2>4, FS_EmptySet DEF PlacesOK, PlaceComesBack
  <1> QED BY <1>7, <1>8, <1>9 DEF Inv

LEMMA EventsStep ==
  ASSUME EventsInv, [Next]_vars
  PROVE  EventsInv' /\ Handed
  <1>1. ASSUME NEW h \in Handlers, NEW m \in Messages, Deliver(h, m)
        PROVE  EventsInv' /\ Handed
    BY <1>1, DeliverEvents
  <1>2. ASSUME NEW h \in Handlers, Filter(h) \/ Throw(h) \/ Discard(h)
        PROVE  EventsInv' /\ Handed
    BY <1>2, FilterEvents
  <1>3. ASSUME NEW h \in Handlers,
               \/ Pass(h) \/ Ack(h) \/ Investigate(h)
               \/ \E p \in Priorities, quiet \in BOOLEAN : Answer(h, p, quiet)
        PROVE  EventsInv' /\ Handed
    BY <1>3, JudgedEvents
  <1>4. ASSUME NEW m \in Messages, NEW deletes \in BOOLEAN, Context(m, deletes)
        PROVE  EventsInv' /\ Handed
    BY <1>4, ContextEvents
  <1>5. ASSUME NEW m \in Messages, Backfill(m) \/ ClaimAges(m)
        PROVE  EventsInv' /\ Handed
    BY <1>5, BackfillEvents, AgesEvents
  <1>6. ASSUME NEW h \in Handlers,
               \/ Closed(h)
               \/ \E p \in Priorities, quiet \in BOOLEAN : Found(h, p, quiet)
        PROVE  EventsInv' /\ Handed
    <2>1. UNCHANGED <<events, acted, deleted>>
      BY <1>6 DEF Closed, Found, history
    <2> QED BY <1>6, <2>1, QuietEvents
  <1>7. ASSUME \/ IntervalEnds \/ NextHour \/ UNCHANGED vars
               \/ \E h \in Handlers : LeaseEnds(h)
        PROVE  EventsInv' /\ Handed
    <2>1. UNCHANGED <<events, acted, deleted>> /\ UNCHANGED <<at, crashes>>
      BY <1>7 DEF IntervalEnds, NextHour, LeaseEnds, vars, history
    <2> QED BY <2>1, QuietEvents
  <1>8. CASE Crash
    <2>1. UNCHANGED <<events, acted, deleted>> BY <1>8 DEF Crash, history
    <2> QED BY <1>8, <2>1, QuietEvents
  <1> QED BY <1>1, <1>2, <1>3, <1>4, <1>5, <1>6, <1>7, <1>8, Numbers DEF Next

LEMMA StepInv == Inv /\ [Next]_vars => Inv' /\ Handed
  <1> SUFFICES ASSUME Inv, [Next]_vars PROVE Inv' /\ Handed OBVIOUS
  <1>1. EventsInv /\ BudgetOK /\ PlacesOK /\ HandlersOK BY DEF Inv, EventsInv
  <1>2. EventsInv' /\ Handed BY <1>1, EventsStep
  <1>3. BudgetOK' BY <1>1, BudgetStep
  <1>4. PlacesOK' BY <1>1, PlacesStep
  <1> QED BY <1>2, <1>3, <1>4 DEF Inv

\* Every reachable state satisfies the invariant.
LEMMA Always == Spec => []Inv
  BY InitInv, StepInv, PTL DEF Spec

\* A message is acted on at most once, although it is delivered again, its
\* claim is taken over, or its row is pruned and it comes back.
THEOREM ActedOnce == Spec => []ActsOnce
  <1>1. Inv => ActsOnce
    BY DEF Inv, EventsInv, EventsOK, Recalls, ActsOnce
  <1> QED BY <1>1, Always, PTL

\* A message that was deleted keeps no text, in whatever order its events and
\* the history arrive, also when its row was pruned in between.
THEOREM DeletedStays == Spec => []DeletedHasNoText
  <1>1. Inv => DeletedHasNoText
    BY RowsFields DEF Inv, EventsInv, EventsOK, Tidy, Recalls, Top, DeletedHasNoText
  <1> QED BY <1>1, Always, PTL

\* A verdict comes from the handler whose claim is in force, and ends its
\* judging.
THEOREM HolderDecides == Spec => VerdictOfHolder
  <1>1. Inv /\ [Next]_vars =>
          [\A m \in Messages :
             claim[m] # None /\ m \in stored' /\ claim'[m] = None =>
                /\ at[claim[m]] = Judging(m)
                /\ at'[claim[m]].pc # "judging"]_vars
    BY StepInv DEF Handed
  <1> QED BY <1>1, Always, PTL DEF Spec, VerdictOfHolder

\* Neither answers nor investigations exceed their allowance, in any hour.
THEOREM WithinAllowance == Spec => []WithinBudget
  <1>1. Inv => AnswersWithin BY SpokenIs DEF Inv, BudgetOK
  <1>2. Inv => FewInvestigate
    <2> SUFFICES ASSUME Inv PROVE FewInvestigate OBVIOUS
    <2>1. IsFiniteSet(Running \ late) /\ Cardinality(Running \ late) \in Nat
      BY FS_Difference, FS_CardinalityType DEF Inv, PlacesOK
    <2>2. Investigating \ late \subseteq Running \ late BY DEF Inv, PlacesOK
    <2>3. /\ IsFiniteSet(Investigating \ late)
          /\ Cardinality(Investigating \ late) <= Cardinality(Running \ late)
      BY <2>1, <2>2, FS_Subset
    <2>4. Cardinality(Investigating \ late) \in Nat BY <2>3, FS_CardinalityType
    <2> QED BY <2>1, <2>3, <2>4, Numbers DEF Inv, PlacesOK, FewInvestigate
  <1> QED BY <1>1, <1>2, Always, PTL DEF WithinBudget

\* Types hold, and a handler leaves neither a claim nor a place behind, however
\* it ends, but for an eviction.
THEOREM AllGivenBack == Spec => []GivesBack
  <1>1. Inv => TypeOK
    <2> SUFFICES ASSUME Inv PROVE TypeOK OBVIOUS
    <2>1. /\ stored \subseteq Messages /\ deleted \subseteq Messages
          /\ text \subseteq stored /\ gone \subseteq stored /\ stale \subseteq stored
          /\ verdict \in [Messages -> Verdicts] /\ claim \in [Messages -> Handlers \cup {None}]
          /\ \A m \in Messages :
                /\ verdict[m] # None => m \in stored
                /\ claim[m] # None <=> verdict[m] = "judging"
      BY RowsFields DEF Inv, EventsInv, EventsOK, Tidy, RowType, Recalls
    <2>2. /\ at \in [Handlers -> [pc : {"new", "judging", "investigating", "closing", "done"},
                                  m : Messages \cup {0}]]
          /\ crashes \in 0..MaxCrashes
      BY DEF Inv, EventsInv, HandlersOK
    <2>3. /\ budget.bucket \in 1..hour /\ budget.total \in 0..Ceiling
          /\ \A p \in Pools : budget.used[p] \in 0..Allowance[p]
          /\ hour \in 1..MaxHours /\ recent \in BOOLEAN
      BY Numbers DEF Inv, BudgetOK, Budgets, Covers
    <2>4. /\ inv \in [Handlers -> [status : {None, "running", "expired", "ended"},
                                   bucket : 0..hour]]
          /\ late \subseteq Handlers
      BY DEF Inv, PlacesOK
    <2> QED BY <2>1, <2>2, <2>3, <2>4 DEF TypeOK, Verdicts
  <1>2. Inv => ClaimHasHandler /\ PlaceComesBack BY DEF Inv, EventsInv, PlacesOK
  <1> QED BY <1>1, <1>2, Always, PTL DEF GivesBack
=============================================================================
