-------------------------------- MODULE Triage --------------------------------
(***************************************************************************)
(* Unsolicited answers (slack/chime.ts, slack/event-store.ts,              *)
(* slack/chime-budget.ts): every message of a channel is stored; one that  *)
(* is not addressed to the bot is claimed, judged by a model and, if that  *)
(* says so, acknowledged, answered or investigated, within the budgets of  *)
(* the channel.  A thread the bot is not in yet goes the same way          *)
(* (runSlackPassiveThread).                                                *)
(*                                                                         *)
(* Slack may deliver an event twice, late or out of order, and handlers    *)
(* interleave at their awaits.  at is the await of a handler:              *)
(*   judging        the lookups and triageChimeMessage                     *)
(*   investigating  runSlackTurn for an investigation, up to its reply     *)
(*   closing        the same, while the reply is posted                    *)
(* A handler that answers is over here: its turn changes none of this.     *)
(***************************************************************************)
EXTENDS Naturals, FiniteSets

CONSTANTS
    Handlers,       \* deliveries of a message to onSlackChimeIn
    Messages,       \* messages of a channel, by their timestamps
    Noise,          \* those that are structurally filtered
    Revised,        \* those that are edited, deleted or come back with the
                    \* history (bound of the model)
    Ring,           \* SLACK_EVENT_RING_MAX_PER_CHANNEL
    Ceiling,        \* CHIME_ABSOLUTE_MAX_PER_HOUR
    Allowance,      \* the hourly maximum of summons, general and low answers
    MaxConcurrent,  \* PASSIVE_INVESTIGATION_MAX_CONCURRENT
    MaxHourly,      \* PASSIVE_INVESTIGATION_MAX_PER_HOUR
    MaxHours,       \* clock hours (bound of the model)
    MaxCrashes      \* evictions (bound of the model)

Pools == {"summons", "general", "low"}
Priorities == {"summons", "urgent", "normal", "low"}
None == "none"

ASSUME TriageAssumption ==
    /\ Messages \subseteq Nat \ {0}
    /\ Noise \subseteq Messages /\ Revised \subseteq Messages
    /\ Allowance \in [Pools -> Nat]
    /\ {Ring, Ceiling, MaxConcurrent, MaxHourly, MaxHours, MaxCrashes}
          \subseteq Nat
    /\ MaxHours > 0
    /\ None \notin Handlers

VARIABLES
    stored,   \* the messages with a row in brain_slack_event
    text,     \* those whose row has a text
    gone,     \* those whose row has is_deleted
    verdict,  \* triage_decision, or None
    claim,    \* triage_claim_id, by the handler that made it, or None
    stale,    \* claims older than TRIAGE_CLAIM_LEASE_MS
    at,       \* the await of each handler, and its message
    budget,   \* brain_chime_budget of the channel
    recent,   \* a normal answer less than CHIME_NORMAL_MIN_INTERVAL_MS ago
    inv,      \* brain_passive_investigation, by the handler of each row
    late,     \* rows past their expires_at
    hour,
    deleted,  \* messages whose deletion has arrived (history)
    acted,    \* what was done about each message (history)
    spoke,    \* the budgeted answers of each hour, by priority (history)
    crashes

events == <<stored, text, gone, verdict, claim, stale>>
limits == <<budget, recent, inv, late>>
history == <<deleted, acted, spoke>>
vars == <<events, at, limits, hour, history, crashes>>

NoBudget == [bucket |-> 1, total |-> 0, used |-> [p \in Pools |-> 0]]
NoInv == [status |-> None, bucket |-> 0]

Init ==
    /\ stored = {} /\ text = {} /\ gone = {} /\ stale = {}
    /\ verdict = [m \in Messages |-> None]
    /\ claim = [m \in Messages |-> None]
    /\ at = [h \in Handlers |-> [pc |-> "new", m |-> 0]]
    /\ budget = NoBudget /\ recent = FALSE
    /\ inv = [h \in Handlers |-> NoInv] /\ late = {}
    /\ hour = 1 /\ deleted = {} /\ crashes = 0
    /\ acted = [m \in Messages |-> 0]
    /\ spoke = [t \in 1..MaxHours |-> [p \in Priorities |-> 0]]

-----------------------------------------------------------------------------
\* The rows of the channel.  Each operation gives the rows it leaves.
Rows == [stored |-> stored, text |-> text, gone |-> gone, verdict |-> verdict,
         claim |-> claim, stale |-> stale]
Become(r) ==
    /\ stored' = r.stored /\ text' = r.text /\ gone' = r.gone
    /\ verdict' = r.verdict /\ claim' = r.claim /\ stale' = r.stale

\* maybePruneEventStore keeps the newest rows.
Kept(s) == {m \in s : Cardinality({n \in s : n > m}) < Ring}
Pruned(r) ==
    LET k == Kept(r.stored)
    IN [stored |-> k, text |-> r.text \cap k, gone |-> r.gone \cap k,
        verdict |-> [m \in Messages |-> IF m \in k THEN r.verdict[m] ELSE None],
        claim |-> [m \in Messages |-> IF m \in k THEN r.claim[m] ELSE None],
        stale |-> r.stale \cap k]

\* A bug: the text of the event that comes last wins.
RecordedLast(m, deletes) ==
    Pruned([Rows EXCEPT
        !.stored = @ \cup {m},
        !.text = IF deletes THEN @ \ {m} ELSE @ \cup {m},
        !.gone = IF deletes THEN @ \cup {m} ELSE @ \ {m},
        !.verdict[m] = IF @ = "historical" THEN None ELSE @])

\* recordSlackEvent: a deletion is kept, and so is a verdict that was given to
\* an event and not to the history of the channel.
Recorded(m, deletes) ==
    Pruned([Rows EXCEPT
        !.stored = @ \cup {m},
        !.text = IF deletes \/ m \in gone THEN @ \ {m} ELSE @ \cup {m},
        !.gone = IF deletes THEN @ \cup {m} ELSE @,
        !.verdict[m] = IF @ = "historical" THEN None ELSE @])

\* recordStoredTriageDecision, where there is a row.
Decided(r, m, v) ==
    IF m \in r.stored
    THEN [r EXCEPT !.verdict[m] = v, !.claim[m] = None, !.stale = @ \ {m}]
    ELSE r

\* claimStoredEventForTriage.
Claimable(r, m) ==
    /\ m \in r.stored
    /\ \/ r.verdict[m] = None
       \/ r.verdict[m] = "judging" /\ m \in r.stale
Claimed(r, m, h) ==
    [r EXCEPT !.verdict[m] = "judging", !.claim[m] = h, !.stale = @ \ {m}]

\* The condition on triage_claim_id; bugs: there is none, or it asks for any
\* claim that is still open.
HoldsNothing(r, h) == TRUE
HoldsAny(r, h) == r.verdict[at[h].m] = "judging"
Holds(r, h) == r.verdict[at[h].m] = "judging" /\ r.claim[at[h].m] = h

-----------------------------------------------------------------------------
\* evaluateChimeBudget.  A budget of an earlier hour starts afresh.
PoolOf(p) == IF p \in {"urgent", "normal"} THEN "general" ELSE p
Current == IF budget.bucket = hour THEN budget ELSE [NoBudget EXCEPT !.bucket = hour]

\* A bug: each kind has its allowance, and there is no ceiling.
AllowedByPool(p, finding, quiet) ==
    /\ p = "normal" => ~recent
    /\ p = "low" => quiet
    /\ \/ p = "urgent" /\ finding
       \/ Current.used[PoolOf(p)] < Allowance[PoolOf(p)]

Allowed(p, finding, quiet) ==
    /\ Current.total < Ceiling
    /\ p = "normal" => ~recent
    /\ p = "low" => quiet
    /\ \/ p = "urgent" /\ finding
       \/ Current.used[PoolOf(p)] < Allowance[PoolOf(p)]

\* reserveChimeAnswer, when it is allowed.
Reserve(p, finding) ==
    /\ budget' = [Current EXCEPT
          !.total = @ + 1,
          !.used[PoolOf(p)] = IF p = "urgent" /\ finding THEN @ ELSE @ + 1]
    /\ recent' = (recent \/ p = "normal")
    /\ spoke' = [spoke EXCEPT ![hour][p] = @ + 1]

Running == {h \in Handlers : inv[h].status = "running"}

\* reservePassiveInvestigation: the rows that are past their lease expire first.
Expired == [h \in Handlers |->
               IF h \in Running \cap late THEN [inv[h] EXCEPT !.status = "expired"]
               ELSE inv[h]]

\* A bug: only the hour is looked at.
MayInvestigateHourly ==
    Cardinality({h \in Handlers : inv[h].bucket = hour}) < MaxHourly

MayInvestigate ==
    /\ Cardinality(Running \ late) < MaxConcurrent
    /\ Cardinality({h \in Handlers : inv[h].bucket = hour}) < MaxHourly

\* releasePassiveInvestigation, where the row is still running.
Released(h) ==
    IF h \in Running THEN [inv EXCEPT ![h].status = "ended"] ELSE inv

Judging(m) == [pc |-> "judging", m |-> m]
Done == [pc |-> "done", m |-> 0]
Judges(h, m) == at' = [at EXCEPT ![h] = Judging(m)]
Goes(h, l) == at' = [at EXCEPT ![h].pc = l]
Ends(h) == at' = [at EXCEPT ![h] = Done]
Act(h) == acted' = [acted EXCEPT ![at[h].m] = @ + 1]

-----------------------------------------------------------------------------
\* runSlackChimeIn: the event is stored, and filtered or claimed.
Deliver(h, m) ==
    /\ at[h].pc = "new"
    /\ LET r == Recorded(m, FALSE)
       IN IF m \in Noise
          THEN Become(Decided(r, m, "filtered")) /\ Ends(h)
          ELSE IF Claimable(r, m)
          THEN Become(Claimed(r, m, h)) /\ Judges(h, m)
          ELSE Become(r) /\ Ends(h)
    /\ UNCHANGED <<limits, hour, history, crashes>>

\* The speaker, the channel or the text rules the message out.
Filter(h) ==
    /\ at[h].pc = "judging" /\ Ends(h)
    /\ IF Holds(Rows, h) THEN Become(Decided(Rows, at[h].m, "filtered"))
       ELSE UNCHANGED events
    /\ UNCHANGED <<limits, hour, history, crashes>>

\* A bug: the claim of a handler that failed is left as it is.
ThrowSilently(h) ==
    /\ at[h].pc = "judging" /\ Ends(h)
    /\ UNCHANGED <<events, limits, hour, history, crashes>>

\* One of them throws: markFailedTriageClaim stores the event once more.
Throw(h) ==
    /\ at[h].pc = "judging" /\ Ends(h)
    /\ LET r == Recorded(at[h].m, FALSE)
       IN Become(IF Holds(r, h) THEN Decided(r, at[h].m, "pass") ELSE r)
    /\ UNCHANGED <<limits, hour, history, crashes>>

\* The model has judged; a handler whose claim was retaken, or whose row is
\* gone, discards what it says.
Judged(h, v) ==
    /\ at[h].pc = "judging" /\ Holds(Rows, h)
    /\ Become(Decided(Rows, at[h].m, v))
    /\ UNCHANGED <<hour, deleted, crashes>>

Discard(h) ==
    /\ at[h].pc = "judging" /\ ~Holds(Rows, h) /\ Ends(h)
    /\ UNCHANGED <<events, limits, hour, history, crashes>>

Pass(h) ==
    /\ Judged(h, "pass") /\ Ends(h)
    /\ UNCHANGED <<limits, acted, spoke>>

\* enqueuePassiveReaction.
Ack(h) ==
    /\ Judged(h, "ack") /\ Ends(h) /\ Act(h)
    /\ UNCHANGED <<limits, spoke>>

\* An answer, or when the budget does not allow one the reaction that triage
\* gave for a normal one that comes too soon, or nothing.
Answer(h, p, quiet) ==
    /\ Judged(h, "answer")
    /\ IF Allowed(p, FALSE, quiet)
       THEN /\ Reserve(p, FALSE) /\ Act(h) /\ Ends(h)
            /\ UNCHANGED <<inv, late>>
       ELSE /\ Ends(h)
            /\ \/ UNCHANGED acted
               \/ p = "normal" /\ recent /\ Current.total < Ceiling /\ Act(h)
            /\ UNCHANGED <<limits, spoke>>

Investigate(h) ==
    /\ Judged(h, "investigate")
    /\ IF MayInvestigate
       THEN /\ inv' = [Expired EXCEPT ![h] = [status |-> "running", bucket |-> hour]]
            /\ Act(h) /\ Goes(h, "investigating")
       ELSE inv' = Expired /\ Ends(h) /\ UNCHANGED acted
    /\ UNCHANGED <<budget, recent, late, spoke>>

\* The investigation comes to its end: what it found is worth a reply, which has
\* to fit the budget too, or not.
Found(h, p, quiet) ==
    /\ at[h].pc = "investigating" /\ Goes(h, "closing")
    /\ IF Allowed(p, TRUE, quiet)
       THEN Reserve(p, TRUE) ELSE UNCHANGED <<budget, recent, spoke>>
    /\ UNCHANGED <<events, inv, late, hour, deleted, acted, crashes>>

\* A bug: an investigation without a reply keeps its row.
ClosedSilently(h) ==
    /\ at[h].pc \in {"investigating", "closing"} /\ Ends(h)
    /\ inv' = IF at[h].pc = "closing" THEN Released(h) ELSE inv
    /\ UNCHANGED <<events, budget, recent, late, hour, history, crashes>>

\* The turn ends, returns early or throws.
Closed(h) ==
    /\ at[h].pc \in {"investigating", "closing"} /\ Ends(h)
    /\ inv' = Released(h)
    /\ UNCHANGED <<events, budget, recent, late, hour, history, crashes>>

-----------------------------------------------------------------------------
\* onSlackContextEvent: an edit, or the deletion, of a message.
Context(m, deletes) ==
    /\ LET r == Recorded(m, deletes)
       IN Become(IF r.verdict[m] = None THEN Decided(r, m, "filtered") ELSE r)
    /\ deleted' = IF deletes THEN deleted \cup {m} ELSE deleted
    /\ UNCHANGED <<at, limits, hour, acted, spoke, crashes>>

\* mergeSlackHistoryIntoLocalContext: a message of a history that was read before,
\* when Slack may still have had what is deleted by now.
Backfill(m) ==
    /\ Become(Pruned(
          [Rows EXCEPT !.stored = @ \cup {m},
                       !.text = IF m \in gone THEN @ ELSE @ \cup {m},
                       !.verdict[m] = IF m \in stored THEN @ ELSE "historical"]))
    /\ UNCHANGED <<at, limits, hour, history, crashes>>

ClaimAges(m) ==
    /\ verdict[m] = "judging" /\ stale' = stale \cup {m}
    /\ UNCHANGED <<stored, text, gone, verdict, claim, at, limits, hour,
                   history, crashes>>

LeaseEnds(h) ==
    /\ h \in Running /\ late' = late \cup {h}
    /\ UNCHANGED <<events, at, budget, recent, inv, hour, history, crashes>>

IntervalEnds ==
    /\ recent /\ recent' = FALSE
    /\ UNCHANGED <<events, at, budget, inv, late, hour, history, crashes>>

NextHour ==
    /\ hour < MaxHours /\ hour' = hour + 1
    /\ UNCHANGED <<events, at, limits, history, crashes>>

\* The object is evicted: the tables stay, the handlers do not.
Crash ==
    /\ crashes < MaxCrashes /\ crashes' = crashes + 1
    /\ at' = [h \in Handlers |-> IF at[h].pc = "new" THEN at[h] ELSE Done]
    /\ UNCHANGED <<events, limits, hour, history>>

Next ==
    \/ \E h \in Handlers :
          \/ \E m \in Messages : Deliver(h, m)
          \/ Filter(h) \/ Throw(h) \/ Discard(h) \/ Pass(h) \/ Ack(h)
          \/ Investigate(h) \/ Closed(h) \/ LeaseEnds(h)
          \/ \E p \in Priorities, quiet \in BOOLEAN :
                Answer(h, p, quiet) \/ Found(h, p, quiet)
    \/ \E m \in Revised :
          (\E deletes \in BOOLEAN : Context(m, deletes)) \/ Backfill(m)
    \/ \E m \in Messages : ClaimAges(m)
    \/ IntervalEnds \/ NextHour \/ Crash

Spec == Init /\ [][Next]_vars

-----------------------------------------------------------------------------
\* Types; a row that is not there has no contents.
TypeOK ==
    /\ stored \subseteq Messages /\ deleted \subseteq Messages
    /\ text \subseteq stored /\ gone \subseteq stored /\ stale \subseteq stored
    /\ verdict \in [Messages -> {None, "judging", "filtered", "historical",
                                 "pass", "ack", "answer", "investigate"}]
    /\ claim \in [Messages -> Handlers \cup {None}]
    /\ \A m \in Messages :
          /\ verdict[m] # None => m \in stored
          /\ claim[m] # None <=> verdict[m] = "judging"
    /\ at \in [Handlers -> [pc : {"new", "judging", "investigating", "closing",
                                 "done"},
                           m : Messages \cup {0}]]
    /\ budget.bucket \in 1..hour /\ budget.total \in 0..Ceiling
    /\ \A p \in Pools : budget.used[p] \in 0..Allowance[p]
    /\ inv \in [Handlers -> [status : {None, "running", "expired", "ended"},
                             bucket : 0..hour]]
    /\ late \subseteq Handlers /\ recent \in BOOLEAN
    /\ hour \in 1..MaxHours /\ crashes \in 0..MaxCrashes

\* A message is acted on at most once, although it is delivered again, its claim
\* is taken over by another handler, its row is pruned and stored again, or the
\* history of the channel brings it back (event-store.ts:372-376).
ActsOnce == \A m \in Messages : acted[m] <= 1

\* The verdict on a message comes from the handler whose claim is in force, "the
\* unique id prevents the former owner from publishing a decision after ownership
\* changes" (event-store.ts:372-376), also when an eviction left a claim behind.
VerdictOfHolder ==
    [][\A m \in Messages :
          claim[m] # None /\ m \in stored' /\ claim'[m] = None =>
             /\ at[claim[m]] = Judging(m)
             /\ at'[claim[m]].pc # "judging"]_vars

\* A message that was deleted keeps no text, in whatever order its events and
\* the history arrive (event-store.ts:331-338, 757-764).
DeletedHasNoText == text \cap deleted = {}

\* A message that is being judged is with the handler that claimed it, however
\* that handler ends (agent.impl.ts:486-502); only an eviction leaves one behind.
ClaimHasHandler ==
    crashes = 0 =>
       \A m \in Messages :
          verdict[m] = "judging" => at[claim[m]] = Judging(m)

\* Unsolicited answers stay within the budget of each clock hour, whatever
\* judgments and investigations are under way when the hour changes, and an
\* eviction does not reset it: no more than the ceiling, and no more of each
\* kind than its allowance but for urgent findings (chime-budget.ts:61-159).
Spoken(t, ps) ==
    LET n(p) == IF p \in ps THEN spoke[t][p] ELSE 0
    IN n("summons") + n("urgent") + n("normal") + n("low")
AnswersWithin ==
    \A t \in 1..MaxHours :
       /\ Spoken(t, Priorities) <= Ceiling
       /\ Spoken(t, {"summons"}) <= Allowance["summons"]
       /\ Spoken(t, {"normal"}) <= Allowance["general"]
       /\ Spoken(t, {"low"}) <= Allowance["low"]

\* No more investigations run than MaxConcurrent, but for those that outlive
\* their lease (chime-budget.ts:273-329).
Investigating == {h \in Handlers : at[h].pc \in {"investigating", "closing"}}
FewInvestigate == Cardinality(Investigating \ late) <= MaxConcurrent

\* Neither what the brain says nor what it looks into exceeds its allowance,
\* however handlers, hours, failures and evictions interleave.
WithinBudget == AnswersWithin /\ FewInvestigate

\* An investigation that is over gives its place back, however it ended: a row
\* that is running has a turn, has outlived its lease, or was evicted.
PlaceComesBack == crashes = 0 => Running \subseteq Investigating

\* A handler leaves neither a claim nor a place behind, however it ends.
GivesBack == TypeOK /\ ClaimHasHandler /\ PlaceComesBack
=============================================================================
