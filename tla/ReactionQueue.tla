--------------------------- MODULE ReactionQueue ---------------------------
(***************************************************************************)
(* The queue of reactions the bot adds unasked (slack/reaction-queue.ts):  *)
(* handlers put a reaction into the outbox and see to it that one wake-up  *)
(* is scheduled; the wake-up takes the oldest reaction to Slack and        *)
(* schedules the next.                                                     *)
(*                                                                         *)
(* The wake-ups themselves are kept by the platform: a schedule is there   *)
(* from the call that makes it until its callback has returned, callbacks  *)
(* run one at a time, and one that eviction interrupted is called again.   *)
(* With idempotent: true the call returns a schedule that is there already,*)
(* so that a callback which arms the queue is handed its own schedule: the *)
(* row then names what is deleted when the callback returns, and the queue *)
(* is Asleep until the object starts again.                                *)
(*                                                                         *)
(* The outbox is keyed by message and emoji, so a reaction is one of a set *)
(* and a repeated request for it changes nothing; rows are not pruned.     *)
(*                                                                         *)
(* pc names the await a handler is parked at:                              *)
(*   arming     agent.schedule, called by armReactionQueue                 *)
(*   rearming   the same, called by recoverPassiveReactionQueue            *)
(*   lookup     getWorkspaceByTeamId                                       *)
(*   slack      reactions.add                                              *)
(*   recover    the finally block, or onStart, before it looks             *)
(*   found, lost   getScheduleById, which finds the schedule or not        *)
(*   returning  the callback is over, its schedule still there             *)
(***************************************************************************)
EXTENDS Naturals, Sequences, SequencesExt

CONSTANTS
    Reactions,     \* message and emoji
    Acks,          \* those of kind "ack", which the breaker counts
    AckLimit,      \* ACK_BREAKER_MAX_PER_HOUR
    MaxAttempts,   \* REACTION_MAX_ATTEMPTS
    Ids,           \* identifiers of schedules
    NoId,
    NoReaction,
    MaxCrashes,    \* evictions that find something to cut (bound of the model)
    MaxFailures,   \* rejected calls of agent.schedule (bound of the model)
    MaxResets      \* disconnections of the workspace, before any eviction and
                   \* beside no rejected call (bound of the model)

\* The handlers: one request per reaction, the callback, and onStart.
Alarm == "alarm"
Start == "start"
Procs == Reactions \cup {Alarm, Start}

ASSUME QueueAssumption ==
    /\ Acks \subseteq Reactions
    /\ AckLimit \in Nat
    /\ MaxAttempts \in Nat \ {0}
    /\ NoId \notin Ids
    /\ NoReaction \notin Reactions
    /\ {Alarm, Start} \cap Reactions = {}
    /\ MaxCrashes \in Nat
    /\ MaxFailures \in Nat
    /\ MaxResets \in Nat

VARIABLES
    outbox,    \* the status of each row of brain_reaction_outbox
    attempts,  \* its attempts
    ready,     \* pending rows by (available_at, id), available now
    cooling,   \* the pending rows after those, available later
    stale,     \* rows whose expires_at has passed
    breaker,   \* acks queued in this hour, or open
    owner,     \* the schedule_id of brain_reaction_queue_schedule
    sched,     \* the platform's schedules
    fired,     \* the schedule whose callback runs
    current,   \* the row that callback has read
    pc,
    got,       \* the schedule id a handler holds over an await
    calls,     \* requests to Slack per reaction (history)
    crashes,
    failures,
    resets

rows == <<outbox, attempts, ready, cooling>>
clock == <<stale, breaker>>
wakeups == <<owner, sched, fired, current>>
handlers == <<pc, got>>
history == <<calls, crashes, failures, resets>>
vars == <<rows, clock, wakeups, handlers, history>>

Open == AckLimit + 1
Status == {"none", "pending", "delivered", "failed", "expired", "suppressed"}
Labels == {"idle", "arming", "rearming", "lookup", "slack", "recover",
           "found", "lost", "returning", "done"}

Init ==
    /\ outbox = [r \in Reactions |-> "none"]
    /\ attempts = [r \in Reactions |-> 0]
    /\ ready = <<>>
    /\ cooling = <<>>
    /\ stale = {}
    /\ breaker = 0
    /\ owner = NoId
    /\ sched = [i \in Ids |-> "free"]
    /\ fired = NoId
    /\ current = NoReaction
    /\ pc = [p \in Procs |-> "idle"]
    /\ got = [p \in Procs |-> NoId]
    /\ calls = [r \in Reactions |-> 0]
    /\ crashes = 0
    /\ failures = 0
    /\ resets = 0

\* onStart runs before anything else of the object.
Up == pc[Start] = "idle"

-----------------------------------------------------------------------------
(* The platform.  table is the schedules as they stand at the call. *)

Found(i, table) == table[i] # "free"

\* An identifier nobody remembers, so a new one.
Fresh(i, table) ==
    /\ table[i] = "free"
    /\ i \notin {owner, fired}
    /\ \A p \in Procs : got[p] # i

\* Mutant of Scheduled: the call is not idempotent.
ScheduledAgain(i, table) ==
    Fresh(i, table) /\ i = CHOOSE j \in Ids : Fresh(j, table)

\* The schedule that agent.schedule(..., { idempotent: true }) answers with.
Scheduled(i, table) ==
    IF \E j \in Ids : Found(j, table) THEN Found(i, table)
    ELSE Fresh(i, table) /\ i = CHOOSE j \in Ids : Fresh(j, table)

-----------------------------------------------------------------------------
(* Arming *)

\* What follows armReactionQueue (arming) and recoverPassiveReactionQueue
\* (rearming): a request is over, a callback recovers and then returns.
After(p, label) ==
    CASE p \in Reactions -> "done"
      [] p = Alarm /\ label = "arming" -> "recover"
      [] p = Alarm /\ label = "rearming" -> "returning"
      [] p = Start -> "idle"

Goto(p, label) ==
    /\ pc' = [pc EXCEPT ![p] = label]
    /\ got' = [got EXCEPT ![p] = NoId]

\* The handler parks at label until the schedule is made; when the call is
\* rejected the queue stays unarmed.
CallSchedule(p, label, table) ==
    \/ \E i \in Ids :
         /\ Scheduled(i, table)
         /\ sched' = [table EXCEPT ![i] = IF @ = "free" THEN "waiting" ELSE @]
         /\ pc' = [pc EXCEPT ![p] = label]
         /\ got' = [got EXCEPT ![p] = i]
         /\ UNCHANGED failures
    \/ /\ failures < MaxFailures
       /\ resets = 0
       /\ failures' = failures + 1
       /\ sched' = table
       /\ Goto(p, After(p, label))

\* armReactionQueue
Arm(p, label) ==
    IF owner = NoId THEN CallSchedule(p, label, sched)
    ELSE Goto(p, After(p, label)) /\ UNCHANGED <<sched, failures>>

\* The schedule is made; a row that was there first stays.
Armed(p) ==
    /\ pc[p] \in {"arming", "rearming"}
    /\ Up \/ p = Start
    /\ owner' = IF owner = NoId THEN got[p] ELSE owner
    /\ Goto(p, After(p, pc[p]))
    /\ UNCHANGED <<rows, clock, sched, fired, current, history>>

-----------------------------------------------------------------------------
(* A request: enqueuePassiveReaction *)

\* Mutant of Insert: the queue is left to arm itself.
InsertUnarmed(r) ==
    /\ outbox' = [outbox EXCEPT ![r] = "pending"]
    /\ ready' = Append(ready, r)
    /\ Goto(r, "done")
    /\ UNCHANGED <<cooling, sched, failures>>

\* The row is inserted and the queue armed.
Insert(r) ==
    /\ outbox' = [outbox EXCEPT ![r] = "pending"]
    /\ ready' = Append(ready, r)
    /\ Arm(r, "arming")
    /\ UNCHANGED cooling

\* evaluateAckBreaker decides about an ack; a closed breaker that is full
\* opens, and an open one stays open.
Enqueue(r) ==
    /\ pc[r] = "idle"
    /\ Up
    /\ \/ r \notin Acks /\ Insert(r) /\ UNCHANGED breaker
       \/ r \in Acks /\ breaker < AckLimit /\ Insert(r) /\ breaker' = breaker + 1
       \/ /\ r \in Acks
          /\ breaker >= AckLimit
          /\ breaker' = Open
          /\ outbox' = [outbox EXCEPT ![r] = "suppressed"]
          /\ Goto(r, "done")
          /\ UNCHANGED <<ready, cooling, sched, failures>>
    /\ UNCHANGED <<attempts, stale, owner, fired, current, calls, crashes, resets>>

-----------------------------------------------------------------------------
(* The callback: runPassiveReactionQueue *)

Pending == ready \o cooling
Oldest == Head(Pending)

Settle(r, status) ==
    /\ outbox' = [outbox EXCEPT ![r] = status]
    /\ ready' = RemoveFirst(ready, r)
    /\ cooling' = RemoveFirst(cooling, r)

\* A schedule is due two seconds or more after the call that makes it, and so
\* after that call has returned.
Due(i) ==
    /\ sched[i] = "waiting"
    /\ \A p \in Procs : got[p] = i => pc[p] \notin {"arming", "rearming"}

\* The callback up to its first await.  A schedule that is not the queue's
\* own does nothing; its own gives up the row first.
Fire(i) ==
    /\ Due(i)
    /\ pc[Alarm] = "idle"
    /\ Up
    /\ fired' = i
    /\ owner' = IF owner = i THEN NoId ELSE owner
    /\ LET running == [sched EXCEPT ![i] = "running"] IN
       \/ /\ owner # i \/ Pending = <<>>
          /\ sched' = running
          /\ Goto(Alarm, "recover")
          /\ UNCHANGED <<rows, failures>>
       \/ /\ owner = i
          /\ Pending # <<>>
          /\ Oldest \in stale
          /\ Settle(Oldest, "expired")
          /\ CallSchedule(Alarm, "arming", running)
          /\ UNCHANGED attempts
       \/ /\ owner = i
          /\ Pending # <<>>
          /\ Oldest \notin stale
          /\ ready = <<>>
          /\ CallSchedule(Alarm, "arming", running)
          /\ UNCHANGED rows
       \/ /\ owner = i
          /\ ready # <<>>
          /\ Oldest \notin stale
          /\ sched' = running
          /\ Goto(Alarm, "lookup")
          /\ UNCHANGED <<rows, failures>>
    /\ current' = IF pc'[Alarm] = "lookup" THEN Oldest ELSE NoReaction
    /\ UNCHANGED <<clock, calls, crashes, resets>>

Finished(status) ==
    /\ Settle(current, status)
    /\ attempts' = [attempts EXCEPT ![current] = @ + 1]

\* The row comes up again at whatever time Slack or the back-off says, which
\* may have come already when the request took longer.
Retry ==
    LET others == RemoveFirst(ready, current) IN
    \/ /\ ready' = others
       /\ \E k \in 0..Len(cooling) : cooling' = InsertAt(cooling, k + 1, current)
    \/ /\ \E k \in 0..Len(others) : ready' = InsertAt(others, k + 1, current)
       /\ UNCHANGED cooling

\* Mutants of Failed: one attempt too many; a request that failed is tried
\* again without end.
FailedLate(retryable) ==
    IF retryable /\ attempts[current] < MaxAttempts
    THEN /\ attempts' = [attempts EXCEPT ![current] = @ + 1]
         /\ Retry
         /\ UNCHANGED outbox
    ELSE Finished("failed")
FailedForever(retryable) ==
    IF retryable THEN Retry /\ UNCHANGED <<outbox, attempts>>
    ELSE Finished("failed")

\* A request that was limited or failed is tried again; after the last
\* attempt, and after any other error, the reaction has failed.
Failed(retryable) ==
    IF retryable /\ attempts[current] + 1 < MaxAttempts
    THEN /\ attempts' = [attempts EXCEPT ![current] = @ + 1]
         /\ Retry
         /\ UNCHANGED outbox
    ELSE Finished("failed")

\* The workspace is found, unknown (which counts as a failed request), or
\* has moved to another organisation.
Lookup ==
    /\ pc[Alarm] = "lookup"
    /\ Up
    /\ \/ /\ calls' = [calls EXCEPT ![current] = @ + 1]
          /\ Goto(Alarm, "slack")
          /\ UNCHANGED <<rows, sched, current, failures>>
       \/ /\ Failed(TRUE) \/ Finished("failed")
          /\ Arm(Alarm, "arming")
          /\ current' = NoReaction
          /\ UNCHANGED calls
    /\ UNCHANGED <<clock, owner, fired, crashes, resets>>

\* Slack has answered.
Answered ==
    /\ pc[Alarm] = "slack"
    /\ Up
    /\ \/ Finished("delivered")
       \/ \E retryable \in BOOLEAN : Failed(retryable)
    /\ Arm(Alarm, "arming")
    /\ current' = NoReaction
    /\ UNCHANGED <<clock, owner, fired, calls, crashes, resets>>

\* The callback has returned and the platform forgets its schedule.
Return ==
    /\ pc[Alarm] = "returning"
    /\ Up
    /\ sched' = [sched EXCEPT ![fired] = "free"]
    /\ fired' = NoId
    /\ Goto(Alarm, "idle")
    /\ UNCHANGED <<rows, clock, owner, current, history>>

-----------------------------------------------------------------------------
(* recoverPassiveReactionQueue, after every callback and in onStart *)

\* Mutant of Recovered: the row of a schedule that is gone stays.
RecoveredBlind(p, row) ==
    /\ owner' = owner
    /\ IF Pending # <<>> /\ owner = NoId
       THEN CallSchedule(p, "rearming", sched)
       ELSE Goto(p, After(p, "rearming")) /\ UNCHANGED <<sched, failures>>

\* The schedule row is known to be row: if anything is pending the queue is
\* armed.
Recovered(p, row) ==
    /\ owner' = row
    /\ IF Pending # <<>> /\ row = NoId
       THEN CallSchedule(p, "rearming", sched)
       ELSE Goto(p, After(p, "rearming")) /\ UNCHANGED <<sched, failures>>

Recover(p) ==
    /\ Up \/ p = Start
    /\ \/ pc[p] = "recover" /\ owner = NoId /\ Recovered(p, NoId)
       \/ /\ pc[p] = "recover"
          /\ owner # NoId
          /\ pc' = [pc EXCEPT ![p] = IF Found(owner, sched) THEN "found" ELSE "lost"]
          /\ got' = [got EXCEPT ![p] = owner]
          /\ UNCHANGED <<owner, sched, failures>>
       \/ pc[p] = "found" /\ Recovered(p, owner)
       \/ /\ pc[p] = "lost"
          /\ Recovered(p, IF owner = got[p] THEN NoId ELSE owner)
    /\ UNCHANGED <<rows, clock, fired, current, calls, crashes, resets>>

-----------------------------------------------------------------------------
(* Time and eviction *)

\* Ten minutes have passed over a pending reaction.
Expire(r) ==
    /\ outbox[r] = "pending"
    /\ r \notin stale
    /\ stale' = stale \cup {r}
    /\ UNCHANGED <<rows, breaker, wakeups, handlers, history>>

\* The available_at of the next row has come.
CoolDown ==
    /\ cooling # <<>>
    /\ ready' = Append(ready, Head(cooling))
    /\ cooling' = Tail(cooling)
    /\ UNCHANGED <<outbox, attempts, clock, wakeups, handlers, history>>

\* The hour of the count, or of an open breaker, is over.
HourPasses ==
    /\ breaker # 0
    /\ breaker' = 0
    /\ UNCHANGED <<rows, stale, wakeups, handlers, history>>

\* No handler is under way and nothing is going to wake the object.
Resting ==
    /\ \A p \in Procs : pc[p] \in {"idle", "done"}
    /\ \A i \in Ids : sched[i] = "free"

\* The object is evicted; it starts again with onStart.  One that rests can
\* be evicted any number of times.
Crash ==
    /\ \/ Resting /\ UNCHANGED crashes
       \/ ~Resting /\ crashes < MaxCrashes /\ crashes' = crashes + 1
    /\ sched' = [i \in Ids |-> IF sched[i] = "running" THEN "waiting" ELSE sched[i]]
    /\ fired' = NoId
    /\ current' = NoReaction
    /\ pc' = [p \in Procs |->
                 CASE p = Start -> "recover"
                   [] p = Alarm -> "idle"
                   [] p \in Reactions -> IF pc[p] = "arming" THEN "done" ELSE pc[p]]
    /\ got' = [p \in Procs |-> NoId]
    /\ UNCHANGED <<rows, clock, owner, calls, failures, resets>>

\* resetSlackWorkspaceState: the workspace is disconnected.  The schedule row
\* and its schedule go, the outbox stays.
Reset ==
    /\ resets < MaxResets
    /\ crashes = 0 /\ failures = 0
    /\ Up
    /\ resets' = resets + 1
    /\ owner' = NoId
    /\ sched' = IF owner = NoId THEN sched ELSE [sched EXCEPT ![owner] = "free"]
    /\ UNCHANGED <<rows, clock, fired, current, handlers, calls, crashes, failures>>

-----------------------------------------------------------------------------

Wakeup == (\E i \in Ids : Fire(i)) \/ Lookup \/ Answered \/ Return

Next ==
    \/ \E r \in Reactions : Enqueue(r) \/ Expire(r)
    \/ \E p \in Procs : Armed(p) \/ Recover(p)
    \/ Wakeup
    \/ CoolDown \/ HourPasses \/ Crash \/ Reset

Spec == Init /\ [][Next]_vars

\* Schedules fire, awaits end and the clock moves.  Nobody has to ask for a
\* reaction, nothing has to expire and no object has to be evicted.
Fairness ==
    /\ WF_vars(Wakeup)
    /\ WF_vars(CoolDown)
    /\ \A p \in Procs : WF_vars(Armed(p) \/ Recover(p))

FairSpec == Spec /\ Fairness

-----------------------------------------------------------------------------
(* Properties *)

\* The shape of the state.
TypeOK ==
    /\ outbox \in [Reactions -> Status]
    /\ attempts \in [Reactions -> 0..MaxAttempts]
    /\ ready \in Seq(Reactions) /\ cooling \in Seq(Reactions)
    /\ stale \subseteq Reactions
    /\ breaker \in 0..Open
    /\ owner \in Ids \cup {NoId}
    /\ sched \in [Ids -> {"free", "waiting", "running"}]
    /\ fired \in Ids \cup {NoId}
    /\ current \in Reactions \cup {NoReaction}
    /\ pc \in [Procs -> Labels]
    /\ got \in [Procs -> Ids \cup {NoId}]
    /\ calls \in [Reactions -> Nat]
    /\ crashes \in 0..MaxCrashes
    /\ failures \in 0..MaxFailures
    /\ resets \in 0..MaxResets

\* The row names a schedule that is gone: armReactionQueue has nothing to do
\* (reaction-queue.ts:149), and only recoverPassiveReactionQueue sees it.
Asleep == owner # NoId /\ sched[owner] = "free"

\* There is one way only to lose the wake-up of a pending reaction, and it is
\* falling asleep.  Otherwise a schedule is there that will look at the queue,
\* or a handler is about to make one (armReactionQueue, runPassiveReactionQueue
\* and recoverPassiveReactionQueue, whatever eviction comes between them), as
\* long as the workspace is connected and no call of agent.schedule is
\* rejected.
NoLostWakeup ==
    Pending # <<>> /\ failures = 0 /\ resets = 0 /\ ~Asleep =>
        \/ \E i \in Ids : sched[i] # "free"
        \/ pc[Start] # "idle"
        \/ \E r \in Reactions : pc[r] = "arming"

\* After a restart the queue is awake, however it had lost its schedule
\* ("Re-arm durable pending work after a DO restart", reaction-queue.ts:165),
\* unless that very call is rejected.
RestartRearms ==
    [][(/\ pc[Start] # "idle" /\ pc'[Start] = "idle"
        /\ Pending # <<>>
        /\ failures' = failures)
       => \E i \in Ids : sched'[i] # "free"]_vars

\* The pace of the queue is that of one wake-up: handlers that arm it at the
\* same time, a callback and the repair after an eviction do not schedule two.
SingleWakeup ==
    \A i, j \in Ids : sched[i] # "free" /\ sched[j] # "free" => i = j

\* What is pending has its wake-up, unless the queue is asleep, and one only.
OneWakeup == TypeOK /\ NoLostWakeup /\ SingleWakeup

\* Slack is asked for a reaction at most three times; an eviction may forget
\* one attempt.
CallsBounded == \A r \in Reactions : calls[r] <= MaxAttempts + crashes

\* Every reaction that was accepted is delivered, fails or expires, or the
\* queue sleeps for good; so restarts that keep coming settle them all, since
\* each takes the queue out of its sleep for one more callback.  It holds as
\* long as the workspace stays connected and no call of agent.schedule is
\* rejected.
EveryReactionSettles ==
    \A r \in Reactions :
        <>[](outbox[r] # "pending" \/ Asleep \/ failures > 0 \/ resets > 0)
=============================================================================
