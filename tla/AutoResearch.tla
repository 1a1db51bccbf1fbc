---------------------------- MODULE AutoResearch ----------------------------
(***************************************************************************)
(* Auto-research (auto-research/run.ts, store.ts, send.ts, watchlist.ts):  *)
(* an admin triggers a run, which plans and drafts notes under a lease     *)
(* that expires and can be stolen; a reviewer edits, dismisses or sends    *)
(* each draft; a memory reset wipes it all.                                *)
(*                                                                         *)
(* The handlers interleave at their awaits.  pc is the await of a run:     *)
(*   loading    loadOrg, loadOrgSlackContext, loadRecipientRoster          *)
(*   planning   derivePlan                                                 *)
(*   opening    openSlackConversation for the people of the plan           *)
(*   drafting   runDraft, once for each job of the batch                   *)
(* and at is that of a sendAutoResearchDraft:                              *)
(*   checking   entitlement, workspace, token and target                   *)
(*   posting    postSlackMessageIdempotent, before Slack has it            *)
(*   posted     the same, before the answer is back                        *)
(* The progress and the outcome that the lock's row also shows are left    *)
(* out.                                                                    *)
(***************************************************************************)
EXTENDS Naturals, FiniteSets

CONSTANTS
    Runs,         \* calls of runAutoResearch
    Forced,       \* those whose payload says force
    Drafts,       \* identifiers of drafts
    Reviewed,     \* those the reviewer decides on
    Targeted,     \* those that are about a watch target, each one of its own
    Sends,        \* calls of sendAutoResearchDraft
    Concurrency,  \* DRAFT_CONCURRENCY
    WatchMax,     \* the targets pruneWatchTargets keeps
    MaxEdits,     \* edits of a draft (bound of the model)
    MaxFaults     \* memory resets, evictions and leases that expire (bound of
                  \* the model)

ASSUME AutoResearchAssumption ==
    /\ Forced \subseteq Runs
    /\ Reviewed \subseteq Drafts
    /\ Targeted \subseteq Drafts
    /\ Concurrency \in Nat \ {0} /\ WatchMax \in Nat \ {0}
    /\ MaxEdits \in Nat /\ MaxFaults \in Nat

VARIABLES
    epoch,    \* reset_epoch of brain_memory_state
    wiping,   \* memory resets that have advanced it and not yet wiped
    wiped,    \* wipes of the tables below (history)
    lock,     \* the row of brain_auto_research_lock
    issued,   \* tokens of the lease (history)
    pc,       \* the await of each run
    token,    \* its lease
    seen,     \* its resetEpoch
    read,     \* the wipes before it read the tables (history)
    todo,     \* its jobs, by the draft each is for
    active,   \* those of the batch
    status,   \* of each row of brain_auto_research_draft
    origin,   \* the token and the wipes of its run (history)
    body,     \* the edit its body is from
    aged,     \* the drafts whose decided_at is past SENDING_STALE_MS
    at,       \* the await of each send
    on,       \* its draft
    text,     \* the body it has read
    shown,    \* Slack: the body under each client_msg_id, or 0
    watch,    \* brain_watch_target, by the draft that earned each target
    muddled,  \* drafts whose answer was lost or whose claim was retaken (history)
    overtaken,\* drafts that were being sent when the tables were wiped (history)
    crashes,
    lapses,
    lost      \* runs whose lease was stolen, expired or wiped (history)

resets == <<epoch, wiping, wiped>>
lease == <<lock, issued, lapses, lost>>
runs == <<pc, token, seen, read, todo, active>>
rows == <<status, origin, body, aged>>
sends == <<at, on, text>>
slack == <<shown, watch>>
history == <<muddled, overtaken>>
vars == <<resets, lease, runs, rows, sends, slack, history, crashes>>

Faults == epoch + crashes + lapses

NoLock == [owner |-> 0, live |-> FALSE]
NoDraft == "nodraft"
Unborn == [token |-> 0, wiped |-> 0]
Working == {r \in Runs : pc[r] \in {"loading", "planning", "opening", "drafting"}}

Init ==
    /\ epoch = 0 /\ wiping = 0 /\ wiped = 0
    /\ lock = NoLock
    /\ issued = 0 /\ lapses = 0 /\ lost = {}
    /\ pc = [r \in Runs |-> "queued"]
    /\ token = [r \in Runs |-> 0]
    /\ seen = [r \in Runs |-> 0]
    /\ read = [r \in Runs |-> 0]
    /\ todo = [r \in Runs |-> {}]
    /\ active = [r \in Runs |-> {}]
    /\ status = [d \in Drafts |-> "none"]
    /\ origin = [d \in Drafts |-> Unborn]
    /\ body = [d \in Drafts |-> 1]
    /\ aged = {}
    /\ at = [s \in Sends |-> "idle"]
    /\ on = [s \in Sends |-> NoDraft]
    /\ text = [s \in Sends |-> 0]
    /\ shown = [d \in Drafts |-> 0]
    /\ watch = {}
    /\ muddled = {} /\ overtaken = {}
    /\ crashes = 0

-----------------------------------------------------------------------------
(* A run *)

Owner == {r \in Working : token[r] = lock.owner}

\* acquireAutoResearchLease
Acquire(r) ==
    /\ ~lock.live \/ r \in Forced
    /\ issued' = issued + 1
    /\ lock' = [owner |-> issued + 1, live |-> TRUE]
    /\ lost' = lost \cup Owner
    /\ token' = [token EXCEPT ![r] = issued + 1]

\* runAutoResearch up to its first await.
Start(r) ==
    /\ pc[r] = "queued"
    /\ \/ /\ Acquire(r)
          /\ seen' = [seen EXCEPT ![r] = epoch]
          /\ pc' = [pc EXCEPT ![r] = "loading"]
       \/ /\ lock.live /\ r \notin Forced
          /\ pc' = [pc EXCEPT ![r] = "done"]
          /\ UNCHANGED <<lock, issued, lost, token, seen>>
    /\ UNCHANGED <<resets, lapses, read, todo, active, rows, sends, slack, history, crashes>>

\* Mutants of Release: whoever holds it now; nobody.
ReleaseAny(r) == lock' = [lock EXCEPT !.live = FALSE]
ReleaseNever(r) == UNCHANGED lock

\* releaseAutoResearchLease
Release(r) == lock' = IF lock.owner = token[r] THEN [lock EXCEPT !.live = FALSE] ELSE lock

\* The run returns or throws.
Leave(r) ==
    /\ Release(r)
    /\ pc' = [pc EXCEPT ![r] = "done"]
    /\ token' = [token EXCEPT ![r] = 0]
    /\ seen' = [seen EXCEPT ![r] = 0]
    /\ read' = [read EXCEPT ![r] = 0]
    /\ todo' = [todo EXCEPT ![r] = {}]
    /\ active' = [active EXCEPT ![r] = {}]
    /\ lost' = lost \ {r}

\* The organization is loaded, and the bodies of earlier drafts are read.
Load(r) ==
    /\ pc[r] = "loading"
    /\ \/ Leave(r)
       \/ /\ read' = [read EXCEPT ![r] = wiped]
          /\ pc' = [pc EXCEPT ![r] = "planning"]
          /\ UNCHANGED <<lock, token, seen, todo, active, lost>>
    /\ UNCHANGED <<resets, issued, lapses, rows, sends, slack, history, crashes>>

\* Drafts nobody has an identifier of.
Fresh == {d \in Drafts : status[d] = "none" /\ \A r \in Runs : d \notin todo[r] \cup active[r]}

\* There is a plan; its jobs are for people, targets and the watch list's.
Planned(r) ==
    /\ pc[r] = "planning"
    /\ \/ Leave(r)
       \/ /\ \E jobs \in SUBSET Fresh : todo' = [todo EXCEPT ![r] = jobs]
          /\ pc' = [pc EXCEPT ![r] = "opening"]
          /\ UNCHANGED <<lock, token, seen, read, active, lost>>
    /\ UNCHANGED <<resets, issued, lapses, rows, sends, slack, history, crashes>>

\* The lease is the run's, also when it has expired meanwhile.
Renew(r) ==
    /\ lock.owner = token[r]
    /\ lock' = [lock EXCEPT !.live = TRUE]

\* All jobs are done, or a reset has come during a batch.
Over(r) == todo[r] = {} \/ (pc[r] = "drafting" /\ seen[r] # epoch)

\* The next batch, or the end of the run; also if its lease is another's.
NextBatch(r) ==
    /\ pc[r] = "opening" \/ (pc[r] = "drafting" /\ active[r] = {})
    /\ \/ /\ Over(r) \/ lock.owner # token[r]
          /\ Leave(r)
       \/ /\ ~Over(r)
          /\ Renew(r)
          /\ \E batch \in SUBSET todo[r] :
               /\ batch # {}
               /\ \/ Cardinality(batch) = Concurrency
                  \/ batch = todo[r] /\ Cardinality(batch) < Concurrency
               /\ active' = [active EXCEPT ![r] = batch]
               /\ todo' = [todo EXCEPT ![r] = @ \ batch]
          /\ pc' = [pc EXCEPT ![r] = "drafting"]
          /\ UNCHANGED <<token, seen, read, lost>>
    /\ UNCHANGED <<resets, issued, lapses, rows, sends, slack, history, crashes>>

\* LEASE_HEARTBEAT_MS
Heartbeat(r) ==
    /\ pc[r] = "drafting"
    /\ Renew(r)
    /\ UNCHANGED <<resets, issued, lapses, lost, runs, rows, sends, slack, history, crashes>>

\* Mutant of Holds: the lease is not looked at.
HoldsEpoch(r) == seen[r] = epoch

\* Both guards of the insert.
Holds(r) ==
    /\ seen[r] = epoch
    /\ lock.owner = token[r] /\ lock.live

\* runDraft has returned; a draft is stored, if the run may still store it.
DraftDone(r, d) ==
    /\ pc[r] = "drafting"
    /\ d \in active[r]
    /\ active' = [active EXCEPT ![r] = @ \ {d}]
    /\ \/ UNCHANGED <<status, origin>>
       \/ /\ Holds(r)
          /\ status' = [status EXCEPT ![d] = "draft"]
          /\ origin' = [origin EXCEPT ![d] = [token |-> token[r], wiped |-> read[r]]]
    /\ UNCHANGED <<resets, lease, pc, token, seen, read, todo, body, aged, sends, slack, history, crashes>>

-----------------------------------------------------------------------------
(* The review *)

\* Mutant of Dismiss: also one that is being sent.
DismissAny(d) ==
    /\ status[d] \in {"draft", "sending"}
    /\ status' = [status EXCEPT ![d] = "dismissed"]
    /\ UNCHANGED <<resets, lease, runs, origin, body, aged, sends, slack, history, crashes>>

\* dismissAutoResearchDraft
Dismiss(d) ==
    /\ status[d] = "draft"
    /\ status' = [status EXCEPT ![d] = "dismissed"]
    /\ UNCHANGED <<resets, lease, runs, origin, body, aged, sends, slack, history, crashes>>

\* editAutoResearchDraftBody
Edit(d) ==
    /\ status[d] = "draft"
    /\ body[d] <= MaxEdits
    /\ body' = [body EXCEPT ![d] = @ + 1]
    /\ UNCHANGED <<resets, lease, runs, status, origin, aged, sends, slack, history, crashes>>

\* sendAutoResearchDraft up to its first await; any other status is refused.
Send(s, d) ==
    /\ at[s] = "idle"
    /\ status[d] = "draft"
    /\ at' = [at EXCEPT ![s] = "checking"]
    /\ on' = [on EXCEPT ![s] = d]
    /\ text' = [text EXCEPT ![s] = body[d]]
    /\ UNCHANGED <<resets, lease, runs, rows, slack, history, crashes>>

Finished(s) ==
    /\ at' = [at EXCEPT ![s] = "done"]
    /\ on' = [on EXCEPT ![s] = NoDraft]
    /\ text' = [text EXCEPT ![s] = 0]

\* Mutant of Claim: the draft as it was before the awaits.
ClaimEarlier(s, d) ==
    /\ status[d] = "draft" \/ (status[d] = "sending" /\ d \in aged)
    /\ status' = [status EXCEPT ![d] = "sending"]
    /\ aged' = aged \ {d}
    /\ UNCHANGED text

\* claimAutoResearchDraftForSend
Claim(s, d) ==
    /\ status[d] = "draft" \/ (status[d] = "sending" /\ d \in aged)
    /\ status' = [status EXCEPT ![d] = "sending"]
    /\ aged' = aged \ {d}
    /\ text' = [text EXCEPT ![s] = body[d]]

\* The awaits are over: the send gives up, or claims the draft.
Checked(s) ==
    /\ at[s] = "checking"
    /\ \/ Finished(s) /\ UNCHANGED <<status, aged, muddled>>
       \/ /\ Claim(s, on[s])
          /\ muddled' = IF status[on[s]] = "sending" THEN muddled \cup {on[s]} ELSE muddled
          /\ at' = [at EXCEPT ![s] = "posting"]
          /\ UNCHANGED on
    /\ UNCHANGED <<resets, lease, runs, origin, body, slack, overtaken, crashes>>

\* Slack takes the message, unless it has one with this client_msg_id.
Arrives(s) ==
    /\ at[s] = "posting"
    /\ at' = [at EXCEPT ![s] = "posted"]
    /\ shown' = [shown EXCEPT ![on[s]] = IF @ = 0 THEN text[s] ELSE @]
    /\ UNCHANGED <<resets, lease, runs, rows, on, text, watch, history, crashes>>

\* Mutant of Failed: the draft stays claimed.
FailedSilently(s) ==
    /\ at[s] \in {"posting", "posted"}
    /\ Finished(s)
    /\ muddled' = IF at[s] = "posted" THEN muddled \cup {on[s]} ELSE muddled
    /\ UNCHANGED <<resets, lease, runs, rows, slack, overtaken, crashes>>

\* releaseAutoResearchDraft
Unclaim(d) ==
    /\ status' = IF status[d] = "sending" THEN [status EXCEPT ![d] = "draft"] ELSE status
    /\ aged' = aged \ {d}

\* Slack refuses the message, or its answer is lost.
Failed(s) ==
    /\ at[s] \in {"posting", "posted"}
    /\ Finished(s)
    /\ Unclaim(on[s])
    /\ muddled' = IF at[s] = "posted" THEN muddled \cup {on[s]} ELSE muddled
    /\ UNCHANGED <<resets, lease, runs, origin, body, slack, overtaken, crashes>>

\* finalizeAutoResearchDraft, whatever the row says now.
Finalize(d) == status' = IF status[d] = "deleted" THEN status ELSE [status EXCEPT ![d] = "sent"]

\* pruneWatchTargets: one more than there may be, and an older one goes.
Prune(targets, d) ==
    IF Cardinality(targets) <= WatchMax
    THEN watch' = targets
    ELSE \E oldest \in targets \ {d} : watch' = targets \ {oldest}

\* upsertWatchTarget
Earn(d) == Prune(watch \cup {d}, d)

\* The message is there.
Succeeded(s) ==
    /\ at[s] = "posted"
    /\ Finished(s)
    /\ Finalize(on[s])
    /\ IF on[s] \in Targeted THEN Earn(on[s]) ELSE UNCHANGED watch
    /\ UNCHANGED <<resets, lease, runs, origin, body, aged, shown, history, crashes>>

-----------------------------------------------------------------------------
(* Time, resets and evictions *)

\* SENDING_STALE_MS after a claim.
ClaimAges(d) ==
    /\ status[d] = "sending"
    /\ d \notin aged
    /\ aged' = aged \cup {d}
    /\ UNCHANGED <<resets, lease, runs, status, origin, body, sends, slack, history, crashes>>

\* LEASE_TTL_MS without a heartbeat.
Lapse ==
    /\ lock.live
    /\ Faults < MaxFaults
    /\ lapses' = lapses + 1
    /\ lock' = [lock EXCEPT !.live = FALSE]
    /\ lost' = lost \cup Owner
    /\ UNCHANGED <<resets, issued, runs, rows, sends, slack, history, crashes>>

\* Mutant of Reset: the epoch is not advanced.
ResetQuietly ==
    /\ Faults < MaxFaults
    /\ wiping' = wiping + 1
    /\ UNCHANGED <<epoch, wiped, lease, runs, rows, sends, slack, history, crashes>>

\* resetMemoryRegistry up to the await of cancelAutoResearchSchedules.
Reset ==
    /\ Faults < MaxFaults
    /\ epoch' = epoch + 1
    /\ wiping' = wiping + 1
    /\ UNCHANGED <<wiped, lease, runs, rows, sends, slack, history, crashes>>

\* Mutants of Wipe: the lock stays; the watch list stays.
WipeKeepsLock ==
    /\ status' = [d \in Drafts |-> IF status[d] = "none" THEN "none" ELSE "deleted"]
    /\ watch' = {}
    /\ UNCHANGED lock
WipeKeepsWatch ==
    /\ status' = [d \in Drafts |-> IF status[d] = "none" THEN "none" ELSE "deleted"]
    /\ lock' = NoLock
    /\ UNCHANGED watch

\* What resetAutoResearch deletes.
Wipe ==
    /\ status' = [d \in Drafts |-> IF status[d] = "none" THEN "none" ELSE "deleted"]
    /\ watch' = {}
    /\ lock' = NoLock

ResetReturns ==
    /\ wiping > 0
    /\ wiping' = wiping - 1
    /\ wiped' = wiped + 1
    /\ Wipe
    /\ lost' = lost \cup Owner
    /\ origin' = [d \in Drafts |-> Unborn]
    /\ body' = [d \in Drafts |-> 1]
    /\ aged' = {}
    /\ overtaken' = overtaken \cup {on[s] : s \in {t \in Sends : at[t] \in {"posting", "posted"}}}
    /\ UNCHANGED <<epoch, issued, lapses, runs, sends, shown, muddled, crashes>>

\* The object is evicted with all its handlers.  The schedule of a run is
\* there until its callback has returned, and calls it again.
Crash ==
    /\ Faults < MaxFaults
    /\ crashes' = crashes + 1
    /\ wiping' = 0
    /\ pc' = [r \in Runs |-> IF r \in Working THEN "queued" ELSE pc[r]]
    /\ token' = [r \in Runs |-> 0]
    /\ seen' = [r \in Runs |-> 0]
    /\ read' = [r \in Runs |-> 0]
    /\ todo' = [r \in Runs |-> {}]
    /\ active' = [r \in Runs |-> {}]
    /\ at' = [s \in Sends |-> IF at[s] = "idle" THEN "idle" ELSE "done"]
    /\ on' = [s \in Sends |-> NoDraft]
    /\ text' = [s \in Sends |-> 0]
    /\ lost' = {}
    /\ UNCHANGED <<epoch, wiped, lock, issued, lapses, rows, slack, history>>

-----------------------------------------------------------------------------

Run(r) ==
    \/ Start(r) \/ Load(r) \/ Planned(r) \/ NextBatch(r) \/ Heartbeat(r)
    \/ \E d \in Drafts : DraftDone(r, d)
Delivery(s) == Checked(s) \/ Arrives(s) \/ Failed(s) \/ Succeeded(s)

Next ==
    \/ \E r \in Runs : Run(r)
    \/ \E d \in Reviewed : Dismiss(d) \/ Edit(d) \/ ClaimAges(d)
    \/ \E s \in Sends : Delivery(s) \/ \E d \in Reviewed : Send(s, d)
    \/ Lapse \/ Reset \/ ResetReturns \/ Crash

Spec == Init /\ [][Next]_vars

-----------------------------------------------------------------------------
(* Properties *)

\* The shape of the state.
TypeOK ==
    /\ epoch \in Nat /\ crashes \in Nat /\ lapses \in Nat /\ Faults <= MaxFaults
    /\ wiping \in Nat /\ wiped \in Nat /\ wiping + wiped <= epoch
    /\ lock \in [owner : 0..issued, live : BOOLEAN]
    /\ issued \in Nat /\ lost \in SUBSET Runs
    /\ pc \in [Runs -> {"queued", "loading", "planning", "opening", "drafting", "done"}]
    /\ token \in [Runs -> 0..issued]
    /\ seen \in [Runs -> 0..epoch]
    /\ read \in [Runs -> 0..wiped]
    /\ todo \in [Runs -> SUBSET Drafts]
    /\ active \in [Runs -> SUBSET Drafts]
    /\ status \in [Drafts -> {"none", "draft", "sending", "sent", "dismissed", "deleted"}]
    /\ origin \in [Drafts -> [token : 0..issued, wiped : 0..wiped]]
    /\ body \in [Drafts -> 1..MaxEdits + 1]
    /\ aged \in SUBSET Drafts
    /\ at \in [Sends -> {"idle", "checking", "posting", "posted", "done"}]
    /\ on \in [Sends -> Drafts \cup {NoDraft}]
    /\ text \in [Sends -> 0..MaxEdits + 1]
    /\ shown \in [Drafts -> 0..MaxEdits + 1]
    /\ watch \in SUBSET Drafts
    /\ muddled \in SUBSET Drafts /\ overtaken \in SUBSET Drafts

\* No draft in the queue comes from what was there before a wipe, also not
\* from a run that began between the reset's advance of the epoch and its
\* wipe ("nothing stale reappears", run.ts:465).
NoStaleDraft == \A d \in Drafts : status[d] \notin {"none", "deleted"} => origin[d].wiped = wiped

\* A run that has lost its lease, to a theft or to time, stores nothing once
\* another has begun (run.ts:393-395).
NoStoreAfterTakeover ==
    [][\A d \in Drafts :
         status[d] = "none" /\ status'[d] = "draft"
         => origin'[d].token = issued]_vars

\* A lease that holds has a run: every way out of one gives it back, unless
\* it was evicted.
LeaseHasRun == lock.live /\ crashes = 0 => \E r \in Working : token[r] = lock.owner

\* A run that works has its lease, unless that was stolen, expired or wiped: one
\* that ends late does not free the lease of the next (run.ts:28).
RunKeepsLease ==
    \A r \in Working : r \in lost \/ (lock.owner = token[r] /\ lock.live)

\* A sent draft reads as it was delivered: no edit slips in between the claim
\* and the answer, unless an answer was lost or a claim retaken.
SentAsShown ==
    \A d \in Drafts : status[d] = "sent" => shown[d] = body[d] \/ d \in muddled

\* A dismissed draft has not been delivered and is not about to be, with the
\* same exceptions.
DismissedStaysUnsent ==
    \A d \in Drafts :
        status[d] = "dismissed" =>
            \/ /\ shown[d] = 0
               /\ \A s \in Sends : on[s] = d => at[s] \notin {"posting", "posted"}
            \/ d \in muddled

\* A draft is in sending only while somebody sends it, unless an eviction came
\* between.
SendingHasSender ==
    \A d \in Drafts :
        status[d] = "sending" /\ crashes = 0 =>
            \E s \in Sends : on[s] = d /\ at[s] \in {"posting", "posted"}

\* The watch list knows nothing from before a wipe, but for the targets of
\* drafts that were being delivered during it.
NoStaleTarget ==
    \A d \in watch : status[d] # "deleted" \/ d \in overtaken

\* Nothing reappears after a wipe, in the queue or in the watch list.
WipedStaysWiped == NoStaleDraft /\ NoStaleTarget

\* The lease and the run that works under it come and go together, however
\* thefts, lapses, resets and forced runs overlap.
LeaseIsTheRuns == TypeOK /\ RunKeepsLease /\ LeaseHasRun

\* Slack and the row of a draft agree, whatever edits, dismissals and second
\* sends come between the claim and the answer.
DeliveredAsRecorded == SentAsShown /\ DismissedStaysUnsent /\ SendingHasSender

-----------------------------------------------------------------------------
(* What a comment says and the code does not do.                           *)

\* A claim that an eviction left behind can be retaken (store.ts:247-249): a
\* reviewer who asks again, once it is stale, is not refused.
StaleClaimIsRetaken ==
    \A s \in Sends, d \in aged : crashes > 0 /\ at[s] = "idle" => ENABLED Send(s, d)
=============================================================================
