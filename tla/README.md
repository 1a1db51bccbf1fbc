# Company Brain: a verification project

Company Brain is a Slack assistant that runs as a Cloudflare Worker. Every
organisation has one `Agent` Durable Object with its own SQLite database; the
object runs one piece of JavaScript at a time, interleaves its handlers at every
`await`, and may be evicted at any of them. This directory holds TLA+ modules of
its control, the TLC runs that check them on small instances, and theorems about
them that TLAPS has checked. Paths below are relative to the repository;
`brain/` stands for `src/brain/`.

## 1. The system

| part | state it keeps | operations | what makes it correct | modelled in |
|---|---|---|---|---|
| turn control, inbox (`brain/slack/turn-control.ts`, `turn-inbox.ts`) | one row per thread (turn id, revision, status, asker), in-memory controllers, inbox rows of follow-ups | begin, interrupt, wait, resume, claim, complete, reap, settle; reserve, classify, consume, fail open | one live run per thread; a claim seals the inbox; nothing is left running | `TurnControl` |
| message turns (`brain/slack/turn.ts`, `brain/turn/compute.ts`, `finalization/`) | a fiber snapshot per message, the stream, the draft of a reply | intake, gate, run, claim, post, write memories, recover | each accepted message ends; answers stay in order; recovery does not answer twice | `ThreadTurn` |
| approvals (`brain/turn/approval.ts`, `approval-expiry.ts`, `turn.ts:640-1010`) | `brain_pending_approval` | request, card, click, decide, resume, expire | an action runs once, only after consent, never for a dead turn | `ThreadTurn` |
| passive reactions (`brain/slack/reaction-queue.ts`, `reaction-policy.ts`) | outbox rows, a breaker per channel, one schedule row | enqueue, arm, run, recover | no pending reaction without a wake-up; a bounded number of calls | `ReactionQueue` |
| post-turn reflection (`brain/turn/post-turn-reflect.ts`, `interaction-observe.ts`) | the job's row, retry and probe rows, the memory epoch | arm, cancel, observe, retry, hand on, repair, reset | one job per thread, the newest; no row without a schedule; nothing learnt survives a reset | `Reflection` |
| access leases (`brain/lease/`) | lease and request rows, with delivery state | request, decide, activate, revoke, escalate, follow up | a lease is used only while approved, connected, unexpired; a grant never makes a second run | `AccessLease` |
| schedules, automations (`brain/tools/scheduler.ts`, `scheduling.ts`, `automations.ts`) | tasks, automation rows and the platform's schedules | create, replace, cancel, edit, delete, run | the limits; one schedule per line of reminders and per automation; a DM stays its owner's | `Schedules`, `Automations` |
| event store, chime budget, chime (`brain/slack/event-store.ts`, `chime-budget.ts`, `chime.ts`) | events, triage claims, answers of the hour, places of investigations | record, claim, decide, merge, prune, reserve, release | one reaction to an event; a deletion is final; quotas hold | `Triage` |
| auto-research (`brain/auto-research/`) | an owner lease, drafts, a watch list, the reset epoch | acquire, renew, steal, draft, edit, dismiss, send, wipe | one run stores at a time; a draft is sent as it reads; nothing reappears after a wipe | `AutoResearch` |
| public channel rollout (`brain/slack/public-channel-rollout.ts`) | one run row, a row per channel, the ledger of introductions | begin, discover, join, collect, cross-check, introduce, read out | a run goes on until it is delivered; a channel is introduced once | `Rollout` |
| team invites, channel observation | invitation cards, observation batches | invite, decide, observe | one decision per card | – |
| memory, skills, journey, MCP connections, sandbox, web, prompts, billing, settings, admin, setup, database, console | documents, tokens, tables of prices, text | calls of services and pure transformations | mostly data, not control | – |

How they meet. A Slack event passes the signature check and a key-value dedupe
(`src/routes/slack`), is stored (event store) and dispatched. An explicit message
becomes a fiber: it reads the thread's row, goes through the active-turn gate if
a turn is running, begins a turn, computes, and answers. While it computes, later
messages are put into the inbox of its turn and read by its steering loop. A run
may ask for an approval or for a colleague's connection and suspend; a click
resumes it in a handler of its own. Passive messages go to triage, the chime
budget and the reaction queue instead. Reflections, reminders, automations, the
rollout, the timers of approvals and leases and the queue of reactions run from
alarms of the object. All share the thread rows, the tables of the object and
Slack. In the models, `TurnControl` is shared by `ThreadTurn` and `AccessLease`,
which compose it with the handlers of their part, and `Automations` runs on the
schedules of `Schedules`.

What is hard here: every check of a row is followed by awaits before it is acted
upon; a handler that is replaced goes on running; a Slack post and its record in
the database are two steps; eviction happens between any two awaits, and recovery
sees only the last checkpoint; timers race with clicks; a reset wipes tables under
those who work on them. `PROJECT.json` lists these hazards at their lines, each
with the properties that would catch it going wrong or the reason why none does.

Three abstractions are common to all modules. An action is the code between two
awaits, and the start of a handler up to its first await that changes something is
one action with it. A handler ends with its last effect: what it returns or logs
afterwards is left out. A call of a platform that throws has changed nothing there,
unless the module says otherwise (an eviction may cut a call before or after its
effect; a posted message whose answer is lost is in Slack).

## 2. Plan

| step | modules | state |
|---|---|---|
| the thread, its runs, approvals, eviction | `TurnControl`, `ThreadTurn`; proofs in `ThreadTurnProofs` | done |
| the outbox of reactions and its wake-up | `ReactionQueue`; proofs in `ReactionQueueProofs` | done |
| the delayed job after a turn | `Reflection`; proofs in `ReflectionProofs` | done |
| an access request, its decision and the calls under it, on the thread's row | `AccessLease`, its promise in `AccessGrant`; proofs in `AccessLeaseProofs` | done |
| schedules and those who replace, edit and delete them | `Schedules`, `Automations`; proofs in `AutomationsProofs` | done |
| claims of events and budgets of answers | `Triage`; proofs in `TriageProofs` | done |
| runs, drafts and deliveries of auto-research | `AutoResearch`; proofs in `AutoResearchProofs` | done |
| the rollout and its ledger | `Rollout`; proofs in `RolloutProofs` | done |
| team invites, channel observation, the card of the rollout | – | next |

Every safety property of a passing run is now a theorem. An abstract specification
still worth stating, and proving implemented, is a *fence* for a thread (open, sealed,
answered, closed; one owner at a time) that `ThreadTurn` implements as long as the
object is not evicted.

## 3. The thread: `TurnControl` and `ThreadTurn`

`TurnControl` has the three stores of a thread. `turn` is the row of
`brain_thread_turn`; a turn id is drawn with every new revision and never
otherwise, so the revision stands for the pair. `active` is the entry of
`activeTurns` with the handler that owns the controller, `aborted` the handlers
whose controller has been aborted, and `inbox` the row each message may have in
`brain_thread_turn_update`. Every function of the two files is an operator there.
Every query of those files names the thread, so one thread is modelled.

`ThreadTurn` is the handlers. `pc` names the await a handler is parked at, and one
action is the code between two awaits; the module's head lists the labels.

| code | actions |
|---|---|
| accept and the first lookups (`turn.ts`) | `Accept`, `Decline`, `Arrive`, `ArriveRecovered` |
| waiting for a finalizing turn, the gate, the new row | `AwaitFinalization`, `GateAnswers`, `BeginTurn` |
| the model loop and its steering | `ModelStep`, `FinishModel`, `RunFails` |
| final claim, answer, memories | `ClaimReply`, `ClaimWaitOver`, `DeliverReply`, `PostReply`, `PostThrows`, `RecordReply`, `CompleteTurn` |
| suspension for an approval | `RequestApproval`, `ApprovalWaitOver`, `Suspend`, `PostCard`, `RecordCard`, `CardFallback`, `LeaveSuspended` |
| a click | `Click`, `ClickChecked`, `Decide`, `Resume`, `Execute` |
| clocks | `TurnAges`, `ApprovalAges`, `ExpiryTimer` |
| eviction and recovery (`agent.ts`, `turn.ts:1020-1145`) | `Crash`, `RecoverFiber`, `RecoverPost` |

Abstractions. What the gate, the model and the entitlement say is any of the
answers the code distinguishes. Texts are members of a small set, since the code
compares them only for equality and for the words that mean stop. `aged` and
`late` say that a deadline has passed instead of counting time; a waiting turn
ages no earlier than its approval, because the approval is stamped after it, and
no turn ages under a running model, which has five minutes. `posted` and `ran` are
history. `Approvals` has two names per handler because a recovered message runs a
second time and can ask a second time.

| run | instance | checks |
|---|---|---|
| `Steering` | three messages of two authors, two with one author and text | `TypeOK`, `AnswerHoldsClaim`, `LiveRunIsCurrent` |
| `Approvals` | a request, a stop, two clicks; the resumed run asks again; rejected requests | `ApprovalRunsOnce`, `RefusedNeverRan`, `DoomedApprovalNeverRuns` |
| `EvictionLive` | a request, its revision, one eviction; fairness | `ClaimSealsInbox`, `AnswersInOrder`, `EveryMessageEnds`, `NoTurnLeftOpen` |
| `WedgedThread` | a request, its revision, rejected requests; fairness | `FollowUpProceeds`, violated |

Bounds. Two messages are enough for one to overtake, replace, steer or wait for
the other; a third brings in a teammate, who may steer but not replace, beside an
asker who repeats an instruction, which the inbox treats apart. Two clicks race for
one approval, and one resumed run asks for a second. One eviction reaches every await
and recovery of every handler; a second only repeats it on the second attempt,
after which recovery gives up. `AnswerHoldsClaim` and `AnswersInOrder` are checked
without the combination of an eviction and a click: a recovered fiber settles the
revision it saved even when a click has resumed that revision and its run is
posting, and both then fail (see the hazards). `LiveRunIsCurrent` is checked
without clicks, because the reaper described in section 11 breaks it.

Deadlock is not checked: when every message and click is handled the thread is at
rest, and that is the intended end.

Fairness. `FairSpec` asks for weak fairness of each handler: an await ends, since
lookups, the model, the gate and requests have time-outs or deadlines (ten seconds
for the gate, five minutes for a run), and the platform recovers an interrupted
fiber. Users, clocks and eviction owe nothing, so no property may wait for a click.

## 4. The reaction queue: `ReactionQueue`

Handlers insert a reaction into `brain_reaction_outbox` and see to it that one
wake-up of `runPassiveReactionQueue` is scheduled; the callback takes the oldest
pending reaction to Slack and schedules the next. `outbox` and `attempts` are the
columns of a row, `ready` and `cooling` the pending rows in the order of the query
with those whose `available_at` has come first, `owner` the row of
`brain_reaction_queue_schedule`, `sched` the platform's own table, `breaker` the
count of acks of an hour.

| code (`reaction-queue.ts`) | actions and operators |
|---|---|
| `enqueuePassiveReaction`, `evaluateAckBreaker` | `Enqueue`, `Insert`, `HourPasses` |
| `armReactionQueue` | `Arm`, `CallSchedule`, `Armed` |
| `runPassiveReactionQueue` | `Fire`, `Lookup`, `Answered`, `Settle`, `Finished`, `Failed`, `Retry` |
| `recoverPassiveReactionQueue` | `Recover`, `Recovered` |
| time, `onStart`, `resetSlackWorkspaceState` | `Expire`, `CoolDown`, `Resting`, `Crash`, `Reset` |
| the platform (external) | `Found`, `Fresh`, `Scheduled`, `Due`, `Return` |

The platform is external and taken as its documentation and the code use it: a
schedule is there from the call that makes it until its callback has returned, one
callback runs at a time, an interrupted one is called again, `onStart` runs before
anything else, and a schedule (one second or more) is not due while the call that
makes it is still awaited. An idempotent call and `getScheduleById` therefore find a
schedule whose callback is running, here as in `Reflection`. The callback arms the
queue before it returns, so it is handed its own schedule (`armReactionQueue` with
`idempotent: true`, lines 150-156 and 462), the look of the finally block (line 175)
finds that schedule, and the platform deletes it. The row is left naming a schedule
that is gone; every later request returns at line 149. The queue is then `Asleep`:
the reactions behind the first wait for a restart, whose `onStart` looks again.

| run | instance | checks |
|---|---|---|
| `Reactions` | two acks against a limit of one; two attempts; an eviction that cuts something and any number of an object at rest, a rejected schedule, a disconnection; fairness | `OneWakeup`, `CallsBounded`, `RestartRearms`, `EveryReactionSettles` |

`OneWakeup` is the type invariant with `NoLostWakeup` and `SingleWakeup` (never two
schedules). `NoLostWakeup` says that falling asleep is the one way to lose the wake-up
of what is pending: without `~Asleep` it is false, and TLC finds the loss in eight
steps of one reaction whose first request fails. The other interleavings of requests, callbacks,
repairs and evictions lose none, as long as the workspace is connected and calls of
`agent.schedule` succeed; otherwise the pending rows sleep too. `RestartRearms` has no
such condition: `onStart` wakes the queue however it had lost its schedule, unless its
own call is rejected.
`EveryReactionSettles` says what is left of liveness: a reaction settles, or the queue
sleeps for good. An object at rest is evicted any number of times in the model
(`Resting`), so that a behaviour whose restarts keep coming settles every reaction,
with one callback per restart. `CallsBounded` grants one request more for each
eviction that cut something, of which there is one. Two reactions are enough for one
to be at Slack, or to cool down, while the other is queued or ready; two attempts make
a first and a last.

Fairness: schedules fire, awaits end and back-offs run out; no reaction has to
expire, nobody has to ask for one and no object has to be evicted. Deadlock is
not checked: an empty queue rests.

## 5. The job after a turn: `Reflection`

Three minutes after a turn `runPostTurnReflect` looks back at the thread. `row` is
its row of `brain_post_turn_reflect`, `retry` and `probe` the two tables beside it,
`epoch` the count of memory resets, `sched` and `job` the platform's schedules and
the epoch in their payload, `notes` what was written to the memory service.

| code (`post-turn-reflect.ts`) | actions |
|---|---|
| `cancelPostTurnReflect`, `armPostTurnReflect` and its retry | `StartTurn`, `EndTurn`, `RetryArm`, `AttemptArm`, `Arms`, `ArmReturns` |
| `runPostTurnReflect`, `claimPostTurnProbe` | `Fire`, `ClaimProbe`, `Advance`, `RetryOwned` |
| `observeInteractionStyle` (`interaction-observe.ts`) | `Observe`, `AddReturns`, `Added`, `Delete` |
| `rearmOwnedPostTurnReflect` | `Rearm`, `HandsOff`, `HandoffReturns` |
| `reconcilePostTurnReflectRow` in the background and in `onStart` | `Reconcile`, `Failed`, `RepairReturns` |
| `resetMemoryRegistry` (`agent.impl.ts`), eviction | `Reset`, `ResetReturns`, `Crash` |

`Resumed` are the turns that a click resumes: they arm a job without having
cancelled the one before (`turn.ts:1013`). The several awaits of
`observeInteractionStyle` before the note end in the same test and touch nothing,
so they are one. Whoever calls `resetMemoryRegistry` is not in the repository; it is
taken to empty the memory service with it. One background repair is modelled: a
second would need a job to come within the 21 seconds of the first.

| run | instance | checks |
|---|---|---|
| `Reflections` | two turns, the second resumed; one retry, one batch, two tries of a repair; a reset, an eviction, a rejected schedule; fairness | `RowAndJob`, `NoStaleNote`, `ProbeOnce`, `NewestArmWins`, `EveryJobEnds` |

`RowAndJob` is the type invariant with `RowHasJob` and `RowIsCurrent`. Two turns let
a slow arming meet a newer one; one retry separates a first failure from
exhaustion; one batch beyond the first makes a handoff; six identifiers are more
than the handlers can hold, so one is always free. One rejection fails an arming, a
handoff or the first try of a repair. `NoStaleNote` holds but for what its statement
excepts: an eviction, or a memory service that fails, between the write and the
delete does leave a note (see the hazards). Section "post-turn" of `docs/spec.md`
says the job makes no model call yet, which is no longer so; the module follows the
code. Fairness as in section 4, and the background delays end.

## 6. Access leases: `AccessGrant` and `AccessLease`

A run may ask to borrow a colleague's connection. The tool call finds the owners,
inserts a pending lease, arms its expiry, puts a card into the thread and suspends
the turn; an owner's click is decided over awaits of membership and connection, and
may activate the lease and resume the turn with a follow-up of its own; the timer
ends what nobody answers; every call with a borrowed connection is checked first.

`AccessGrant` is the promise, without threads, clicks or timers: a request is open
until somebody who was asked and has not said no lends, or until it is over, and it
never opens again. `AccessLease` extends `TurnControl`, so that grants, stops and
follow-up messages meet on the thread's row, and implements `AccessGrant` with
`phase` read from the status of a lease, `willing` from the deliveries still
pending, `lender` from the row.

| code | actions |
|---|---|
| messages, stop | `Arrive`, `Stop` |
| `request_access_lease` (`lease/tools.ts`, `routing.ts`) | `Ask`, `LookedUp`, `Insert`, `PostCard`, `RecordCard` |
| the decision (`decision.ts`, `store.ts`) | `Press`, `Checked`, `FollowUp`, `Close`, `Verdict` |
| the timer (`runLeaseEscalation`), revocation, time | `Escalate`, `Revoke`, `Ages` |
| a borrowed call | `UseStart`, `UseChecked` |
| ends of runs, posts, memories | `Conclude`, `FailRun`, `Abandon`, `Settle`, `Complete` |
| the world | `AskerLeaves`, `Disconnect`, `ConnectionRevoked`, `LookupFails`, `Evict`, `Recover` |

A lookup answers with what was true at some moment of its await: `seen` keeps what
it would have read when it was sent, so that what is stale when it is used stays
possible. `Press` is at any of the places where a click or the timer's run is
handled.

| run | instance | checks |
|---|---|---|
| `Leases` | a message, a request to two owners, two clicks at a time, one borrowed call, one fault (eviction, failed lookup, an asker who leaves, a deleted connection); fairness | `OneRunner`, `ImplementsGrant`, `CallsUnderLease`, `NoGrantWithoutTurn`, `RequestEnds` |

`OneRunner` (with the type invariant): a grant while its asker still runs, or two
clicks at once, never leave two models on one turn. It excepts runs in `dropped`, whose
controller the reply of another run has dropped (section 11). `CallsUnderLease`: an active,
unexpired lease at the very call, and none after the deletion of the connection was
announced. `RequestEnds` is the one that uses fairness: clicks' awaits end and the
alarm fires. Two owners are one who lends and one who declines, and two places let
two decisions, or a decision and the timer, overlap. `Text` and `StopTexts` are
constants of `TurnControl` that this module has no use for.

## 7. Schedules: `Schedules` and `Automations`

`Schedules` is the table of the platform's schedules with the tools for reminders,
`Automations` adds the rows of `brain_automation`, each naming a cron schedule. The
calls of users are open at the same time and each is parked at one await:
`counted` and `swapping` for reminders, `resolving`, `locating`, `arming`,
`clearing`, `unwinding`, `removing` for automations.

| code | actions |
|---|---|
| `schedule_task`, `cancel_task`, `replace_task` (`scheduler.ts`, `scheduling.ts:262-285`) | `Count`, `Schedule`, `CancelTask`, `Replace`, `Swap`, `Rollback` |
| a schedule's run | `Returned`, `Drop` |
| create, edit (`automations.ts`) | `Create`, `Update`, `Resolved`, `Arm`, `Armed`, `Cleared`, `Unwound` |
| delete | `Delete`, `Removed` |
| eviction | `Crash` |

| run | instance | checks |
|---|---|---|
| `Schedules` | a member and an admin, two calls at a time and three in all, three schedules, two automations, limits of one; two failures or evictions | `LimitsHold`, `OneOfEachLine`, `RowNamesItsJob`, `DmReachesOwner` |

The limits are read before an await and used after it, so they hold only up to the
number of calls open at once; `LimitsHold` says exactly that, of automations and of
*lines* of reminders (a reminder with what replaced it): `replace_task` reads no
limit, and a line may have several live ends for a while (section 11). `OneOfEachLine`
is `ReplacedOnce` and `NeverLost`: a reminder has at most one successor, none once it
was cancelled or ran, and replacing it never loses it, whichever step fails.
`RowNamesItsJob` is the type invariant with `EnabledHasJob` and `NoOrphanJob`. Limits
of one are reached by the first call, so the second is already the one to be refused;
three schedules are one, its replacement and a competitor; two faults are a failure
and the rollback's. The theorems of section 13 hold beyond these bounds. Left out:
`runAutomationNow`, which runs the callback and touches none of this; in automations,
a rollback that itself fails; times; a member without a Slack id, for whom the code
has no limit. What the properties except is real: a run that finds its workspace gone
cancels its schedule and leaves the row enabled; an eviction between arming and
writing, or a deletion that cannot cancel, leaves a cron nobody names.

## 8. Unsolicited answers: `Triage`

Every message of a channel is stored; one that is not addressed to the brain is
claimed, judged by a model and, if that says so, acknowledged, answered or
investigated, within the budgets of the channel and the hour. `stored`, `text`,
`gone`, `verdict` and `claim` are what the event store has of a message, `budget`
the row of the hour, `inv` the places of investigations, `at` the await of a
handler. Channels and the workspace are one: the pools and the ceiling are those of
one channel.

| code | actions |
|---|---|
| recording, filters, the claim (`event-store.ts`, `chime.ts`) | `Deliver`, `Filter`, with `Recorded`, `Claimed`, `Pruned` |
| the judgement and its ends | `Discard`, `Pass`, `Ack`, `Answer`, `Throw` |
| an investigation and its place (`chime-budget.ts`) | `Investigate`, `Found`, `Closed` |
| history, edits and deletions | `Context`, `Backfill` |
| clocks, eviction | `ClaimAges`, `LeaseEnds`, `IntervalEnds`, `NextHour`, `Crash` |

| run | instance | checks |
|---|---|---|
| `Triages` | three handlers, four messages of which one is noise and one is edited or deleted; a ring of one, a ceiling of two, one answer of each kind, one investigation at a time and two an hour; two hours, one eviction; symmetry of handlers | `ActsOnce`, `VerdictOfHolder`, `DeletedHasNoText`, `GivesBack`, `WithinBudget` |

`ActsOnce` and `VerdictOfHolder` are about claims that are taken over late, rows
that are pruned and stored again, and messages that history brings back.
`WithinBudget` is `AnswersWithin` (per clock hour, although a judgement may begin in
one hour and answer in the next) and `FewInvestigate`; `GivesBack` is the type
invariant with `ClaimHasHandler` and `PlaceComesBack`. Three handlers are an owner,
one that takes its claim over, and one with another message; a ring of one prunes
whenever a second message comes. Not modelled: pruning by age, the warm-up of the
context, mentions and answers in threads the brain is already in, which take no
budget, and the columns that only report. Three things a reader should know that the
code does and the properties do not forbid: a message deleted while it is judged is
still answered; an edit that comes before its original marks the message filtered, so
it is never judged; and an evicted judge leaves `judging` until the event is
delivered again. `VerdictOfHolder` is about the judge's path: what `turn.ts:1913-2004`
marks filtered before any claim (a bot's messages, empty ones, those of quiet channels
or muted threads) is written without a claim identifier and not modelled.

## 9. Auto-research: `AutoResearch`

A run takes a lease, plans, drafts notes in batches under a heartbeat and stores
them; a reviewer edits, dismisses or sends each; a memory reset wipes the queue. The
lease expires and can be stolen. `lock` is the row of the lease, `token` what a run
has of it, `status`, `body` and `origin` those of a draft, `shown` what is in Slack,
`watch` the list of targets, `epoch` the reset epoch.

| code | actions |
|---|---|
| `run.ts` | `Start`, `Load`, `Planned`, `Renew`, `NextBatch`, `DraftDone`, `Heartbeat`, `Leave` (together `Run`) |
| `store.ts`: the reviewer | `Dismiss`, `Edit` |
| `send.ts`, `watchlist.ts` | `Send`, `Checked`, `Arrives`, `Failed`, `Succeeded` (`Delivery`) |
| clocks, resets, eviction | `ClaimAges`, `Lapse`, `Reset`, `ResetReturns`, `Crash` |

| run | instance | checks |
|---|---|---|
| `Researches` | three runs, one forced; two drafts of which one is reviewed; two sends; batches of one, a watch list of one; one edit; one reset, lapse or eviction; symmetry | `WipedStaysWiped`, `LeaseIsTheRuns`, `DeliveredAsRecorded`, `NoStoreAfterTakeover` |
| `StrandedDraft` | the same | `StaleClaimIsRetaken`, violated |

Three runs are one that loses its lease, the thief, and one that begins after; two
sends race for one draft. All four properties are also theorems, for any numbers.
Left out: planning, recipients, what the model writes and the reading of outcomes.

## 10. The rollout: `Rollout`

An admin's click, or the beachhead five minutes after the install, begins a run: a
row that a chain of one-second schedules drives through `discover`, `join`,
`collect`, `crosscheck` and `introduce`; each callback does one unit of work and
schedules the next. The row and the ledger of introductions are in the database, the
memberships, introductions and read-outs in Slack.

| code (`public-channel-rollout.ts`) | actions |
|---|---|
| `startPublicChannelRollout` | `Press`, `StartRun`, `Started` |
| `runPublicChannelBeachhead` | `FireBeachhead`, `Picked`, `BeachheadStarted` |
| `runPublicChannelRollout` | `Fire`, `Scheduled`, `Return`, `Throws`, `Retried` |
| the units of the phases | `Discover`, `JoinArrives`, `Join`, `Collect` (`Read`, `Package`, `Submit`), `Crosscheck`, `IntroArrives`, `Introduce`, `ReadoutArrives`, `Finish`, `Again` |
| eviction, somebody removes the bot (external) | `Crash`, `Removed` |

A post and its record are two steps, with an eviction possible in between. The
platform runs one callback at a time, removes its schedule when it has ended and runs
it again when it was cut.

| run | instance | checks |
|---|---|---|
| `Rollouts` | two channels, one of them the beachhead's; one click at a time; two attempts per unit, two failures per run; two runs, two setbacks, one eviction; fairness | `RunGoesOn`, `LedgerRespected`, `EveryRunEnds` |

`RunGoesOn` is the type invariant, `HasNextStep` (a running run has a schedule,
wherever it is evicted) and `ReadoutFirst`. Two runs are a beachhead and an admin's,
in both orders; two failures and two attempts make a first and a last; two setbacks
are enough for a retry that succeeds and one that does not, not for both limits at
once with a later success, which the theorems of section 13 cover for `RunGoesOn` and
`LedgerRespected`.

`cut` is what `HasNextStep` excepts: a run whose begin was evicted or threw between
the row and its first schedule, or whose entitlement lookup threw, which is outside
the `try`. Such a run stays `running` with no schedule, and later clicks and the
beachhead refuse to begin another. Further observations: the beachhead may replace
the row of a run that an admin began during its awaits (line 790, among the hazards);
an introduction that was posted when its run failed, before it was recorded, is
posted again by the next run, although `docs/spec.md:294` speaks of a ledger for
exactly once across runs; a run that is done becomes `failed` if the card's redraw
throws at the last failure; an eviction after the next schedule doubles the chain,
which does no harm. Left out: the card, the home welcome, the choice of channels,
pages and the wording.

## 11. Where code and documents disagree

Two runs expect a violation; each property quotes the line it comes from.

| run | property | what happens |
|---|---|---|
| `WedgedThread` | `FollowUpProceeds` | The request that posts an answer is rejected after the claim: the row stays finalizing and the follow-ups wait until the object is evicted. |
| `StrandedDraft` | `StaleClaimIsRetaken` | A send was evicted between its claim and its answer. `sendAutoResearchDraft` refuses a draft in `sending` before it comes to the claim that would retake it, so the draft can be neither sent nor dismissed. |

Others were met while modelling and have no run of their own:

- The queue of reactions falls asleep behind its own callback (section 4), although
  every request is to arm it and `recoverPassiveReactionQueue` to "Re-arm durable
  pending work after a DO restart or a prior schedule failure"
  (`reaction-queue.ts:165`). That a running schedule is still found is how the
  `agents` package is taken here; the package is not part of the repository.
- A run that suspended is still awaiting the expiry schedule when a click resumes
  its revision; its wrapper (`turn.ts:1885`) then completes the running row and drops
  the controller of the click's run.
- A revision at the gate while a click is in its lookups supersedes the turn only
  after the approved action ran.
- An eviction between an approval's card and its checkpoint makes recovery replay a
  turn that waits for the asker.
- The model is told that after a grant "the task resumes automatically"
  (`lease/tools.ts:419`), but the click that grants is no fiber: an eviction between
  the activation and the follow-up's run loses the task, and the lease stays active
  until its ten minutes are over.
- With two requests in one turn, a run that posts its reply when one was granted and
  the other is open marks the turn as waiting and drops whatever controller the thread
  has (`turn.ts:3289-3292`, `decision.ts:803-811`, `turn-control.ts:324`), which may be
  that of the follow-up a grant has just resumed: the revision is the same. Nobody can
  abort that follow-up any more, and a second grant may start another one beside it,
  although replaced turns are to be aborted so as not to run on "as a silent zombie"
  (`turn-control.ts:82-84`).
- A reminder whose replacement is still under way can be replaced in turn, since
  `replace_task` checks neither that nor the limit (`scheduling.ts:262-285`): until the
  calls have ended, and after them when neither cancellation worked, one person has
  more live reminders than the limit and the open calls account for.
- An edit of an automation takes care not to leave "the old job firing with no
  reference to cancel it" (`automations.ts:360-361`); an eviction between arming the
  new schedule and writing the row, and a deletion whose cancellation fails, do leave
  such a job.

Three smaller differences from `docs/spec.md` are in the modules: recovery closes the
row before it posts the saved proposal, so that another turn may answer in between
(`RecoverFiber`, `RecoverPost`; line 502); a waiting turn older than fifteen minutes,
or a running one without its controller, is replaced directly although only a
terminal row is said to seed a turn (`BeginTurn`; line 492); and a job that the turn
before is still arming is not cancelled by the next turn (`StartTurn` and
`ArmReturns` of `Reflection`; line 580).

## 12. Fairness and mutants

Only the runs under `FairSpec` use fairness: `EvictionLive` and `WedgedThread`,
`Reactions`, `Reflections`, `Leases` (for `RequestEnds`) and `Rollouts` (for
`EveryRunEnds`). It is weak and asked of what the platform or a deadline guarantees:
awaits end, schedules that are due fire, interrupted fibers and callbacks run again.
People, clocks of the world, failures and evictions owe nothing. No run checks for
deadlock: in each module everything handled is the intended end.

Every property of a passing run has a mutant: an operator beside the definition
it changes, in which a guard is dropped, a reset is missing or a wait is cut
short, and under which the run's own configuration finds the property violated.
They are marked in the modules and used by nothing else.

## 13. Proofs

Thirty-seven theorems in eight modules hold for any values of the constants that meet
the named assumptions, which TLC evaluates on the runs: any messages, clicks, people,
calls, requests, drafts, channels, and any number of evictions and failures. The
assumptions (`ThreadAssumption`, `RunAssumption`, `LeaseAssumption`, `QueueAssumption`,
`ReflectionAssumption`, `SchedulesAssumption`, `AutomationsAssumption`,
`TriageAssumption`, `AutoResearchAssumption`, `RolloutAssumption`) say that bounds are
numbers, that placeholders are not members of the sets they stand beside, that the
limits the code defines are positive, that `MaxHours` leaves at least the first hour,
and that the calls that can be open at a time, and the turns whose jobs are counted, are
finitely many.

The thread:

- `TypeCorrect` (`ThreadTurnProofs`, like those that follow): `Spec => []TypeOK`.
  `TypeOK` is not inductive: an action writes `appr[target[c]]`, so the target of a
  click past its first check must be an approval (`Targeted`), and a controller must
  have an owner. `TypeInv` adds both; the proof has one step per action.
- `SealedInbox`: a turn claimed for its answer has no update being classified or
  waiting. The two places that matter are the claim, which asks for an empty inbox in
  the same synchronous step (`ClaimSeal`), and the reservation, which is made only for a
  row that is steerable and so not claimed (`ReserveSeal`); every other action leaves
  the inbox of a claimed turn alone or only moves rows out of it (`SealFrame`).
- `ApprovalOnce`, `RefusedNever`: an action runs at most once,
  and has not run while its approval is pending, denied or expired. The invariant
  `ApprovalInv` counts who holds an approval: a pending approval has not run and
  nobody holds it, a decision is made by the one click that finds it pending
  (`OneHolder`, `HolderDecided`), a click that executes holds an approved one, and it
  lets go of it by executing (`ExecutesApproved`). That an approval is asked for only
  once (`FreshApproval`, `FreshRetry`) needs the attempt of the fiber: a recovered
  message names its second approval differently.
- The other four rest on `TokenInv`: a turn is in one hand, that of one handler that
  runs it, posts its reply or puts up a card, or that of one approval somebody can
  still decide (`OneRun`, `RunOrCard`, `OneCard`, `OneFiber`). To prove it every step
  is brought into one of two forms. `Handled` says what a handler may do: the other
  handlers stay where they are (`Others`), it takes a turn in hand only by beginning
  or resuming one (`Path`), and one of six things happens to the row (`RowFate`).
  `Unhandled` covers the clock, the timer and an eviction. `Flow` says whose hand a
  turn goes to, and no later lemma looks at single actions again.
- `AnswersOrderly`: what is being answered, or has been, takes no update any more and
  is in no other hand (`AnswerInv`), so nothing is left unread behind an answer and no
  turn is answered twice; the order of answers follows from `ClaimHeld`.
- `ClaimHeld`: while an answer is posted and its memories are written the row is that
  of the answering handler and `finalizing`. The invariant `HoldInv` adds the
  controller: as long as it is there nobody takes the row for an orphan, and without
  it there was an eviction. The hypothesis `Undisturbed` (no eviction yet, or no click
  yet) is needed: a fiber recovered after an eviction settles the revision it saved
  although a click has resumed it. It holds in every state of `Steering`, which checks
  the property without it.
- `LiveIsCurrent`: a run nobody aborted is that of the current turn and owns the
  controller, and a handler that is through owns none. Needed are `Unclicked` (the
  reaper of section 11 ends the run of a click) and `~SlackDrops`: a rejected reply
  throws past `markThreadTurnCompleted` and leaves its controller behind, which is
  what `WedgedThread` shows.
- `DoomedNever`: an approval whose turn is over while it waits never runs. `Dead` is
  kept by every step: an approval keeps its revision, a row that is over stays over,
  and the only step that leads to an execution asks whether the turn is current.

The reaction queue (`ReactionQueueProofs`). `RowsOnce`: a pending reaction was queued
once, by its one request, and has an attempt left; `CallsCounted` ties its calls to
its attempts and to the evictions that cut one, which gives `BoundedCalls`.
`One`: an idempotent call adds a schedule only where none is. `Awake` says who owes the
next wake-up: the row names a schedule, or a handler holds one it is about to write
there (`CallsNamed`), or the callback still runs, under its own schedule
(`CallbackRuns`), and will look again (`PendingSeen`); it needs a connected workspace
and calls that succeeded, and so does the property. A row that names a schedule names
one that is there unless the queue is `Asleep`, which gives `OnePending` without a
hypothesis. `StartAlone` gives `RearmedAtRestart`.

The job after a turn (`ReflectionProofs`). None of the four properties is inductive.
`Kept` names who looks after a row: the waiting schedule, the callback that runs under
it, or a repair that has still to look or has read that very row. It is kept because a
schedule that a call has made is known to its handler alone until it is handed over
(`Private`) and carries the payload of the job it continues (`Payload`), because what a
reset is about to cancel is not the row's schedule, and because a callback that deletes
a note no longer owns the row (`Lost`). Each background attempt of a repair was paid
for by a rejected call (`Tried`), so that one that gives up has seen more of them than
it has tries: hence the hypothesis `failures <= RepairTries` of `RowKeepsItsJob`, which
holds in every state of `Reflections`. `Clocked` ties `armed_at` to the turns that are
over; with it a probe is that of a turn whose job has had none (`Probes`, `ProbedOnce`).
`Notes` gives `NotesAreOfTheirEpoch`: before a reset only the note that is being written
can be missed, and its callback deletes it. `NewestArm` follows from the guard of the
upsert and from handovers leaving `armed_at` alone.

Auto-research (`AutoResearchProofs`). The invariant comes in layers, each proved with
those before it. `Types` is the shape of the state (`ShapeHolds`). `Leases`: tokens
are drawn once, the lock names the newest or nobody, and what its holder has read is
not wiped; from it follows that a working run has its lease and a lease its run
(`LeaseKept`). `Jobs`: a draft is the job of one run and no row is older than the last
wipe, so nothing reappears (`NothingStale`) and a run whose lease was taken stores
nothing (`NoStoreByOthers`). `Deliveries`: a draft is with at most one send, which
posts what the row says (`Delivered`).

The rollout (`RolloutProofs`). `GoesOn`: a running run has its next step. The part of
the invariant that matters is `Chain`, which counts the schedules of the run whose
callback is under way: its own, and before it returns the one that follows, so that
neither a return nor an eviction can take the last. The other parts (`RunOK`,
`RowsOK`, `SlackOK`, `JobsOK`) bound attempts and failures, without which `Retried`
and `Throws` could leave their range; that every non-empty set of channels has a first
one uses that `<` is well-founded on the naturals. `LedgerKept`: `Known` says that in
a run of an admin the row of a channel that the ledger knows is past its introduction,
or takes part for its themes only and is not joined: from the step that discovers it,
which reads the ledger, to the end of the run.

Unsolicited answers (`TriageProofs`). The difficulty is that rows are forgotten, and a
message may come back after its verdict was. `Recalls` says that one that was acted
on, or deleted, still has its row with a final verdict, or its deletion, or else is
*sunk*: the `Ring` newer messages in the table keep it out (`Top`). Lemmas about
cardinalities show that what is sunk stays so when rows are added and pruned;
`ActedOnce` and `DeletedStays` follow, and `HolderDecides` from what the same steps do
with the claim. `BudgetOK` ties the row of an hour to what was said in it, per pool,
although a judgement may be answered an hour after it began; `PlacesOK` counts the
rows of investigations and those that outlived theirs. `WithinAllowance` and
`AllGivenBack` follow from them.

Leases (`AccessLeaseProofs`). `LeaseInv` ties the row of a request to the await its
call is at, `ControlInv` says of every run that is not aborted and whose controller
was not dropped that its controller is the thread's (`RunnerOK`), `UseInv` says what a
check has seen of a connection whose deletion was announced. `OneRunnerHolds` and
`CallsAreLent` follow. `GrantImplemented` is the refinement: each step of
`AccessLease` is, request by request, a step of `AccessGrant` or a stutter; that
nobody lends unasked, a decline is final and one owner lends rests on how `RowOK` ties
status and deliveries to the await. `GrantHasTurn` is proved with the same steps.

Schedules and automations (`AutomationsProofs`). Calls act on what they read before an
await, so the parts of the invariant say what of it still holds afterwards.

- `Base` is the shape, with `Phase`: what a call at each await has come to. From it
  `Types` and, since the target of a DM is nobody or the owner in rows, schedules and
  calls alike, `OwnerAlone`.
- `Limits` counts, beside the lines and rows of a person, their calls that have read
  the limit and have not created yet; `Counts` says how many calls there can be.
  Together `LimitsBound`.
- `LinesInv`: a call that swaps has a replacement that no other call has and that
  nobody has undone (`Pairs`); of every line some reminder is over, or is live and not
  still the affair of a call, and for one that was replaced that is a later one
  (`Headed`), without which two reminders could be each other's successor; and without
  faults each has at most one such successor, and only if it was replaced (`Once`).
  `OneEnd` follows.
- `RowsInv`: a schedule that a call has made is known to it alone and is there until
  it takes it back (`Own`); a row that names a schedule has it, or a call that has
  cancelled it is about to write the row (`Served`); and where calls on an automation
  did not overlap, the one at work has read what its row names, has cancelled that
  before it writes, and nothing else is scheduled (`Settled`). `RowsInOrder` follows.
  `Settled` is about rows outside `disturbed` only, since two edits of one automation
  do lose a schedule.

Only model-checked: liveness (`EveryReactionSettles`, `EveryJobEnds`, `RequestEnds`,
`EveryRunEnds` and the thread's). TLAPS reasons about neither fairness nor ENABLED here.

## 14. Not modelled

`PROJECT.json` says for each part what is left out and why. Within the thread: the
passive turns that share its row, the connect continuation, mutes, clicks by others
than the asker, a refusal of the fallback note itself, and a run that outlives its
deadline without noticing. `ThreadTurn` and `AccessLease` are each composed with the
thread's row but not with each other: a run that asks for both an approval and a
lease is left out. Outside it: team invites and channel observation, which come next;
parts whose state one actor changes in sequence (skills, journey, settings, setup);
third-party protocols and I/O (connections, memory, sandbox, web); prices, text and
rendering; and the web console.
