----------------------------- MODULE Reflection -----------------------------
(***************************************************************************)
(* The delayed job that looks back at a thread after a turn                *)
(* (turn/post-turn-reflect.ts, turn/interaction-observe.ts): a turn        *)
(* cancels the job of the turn before it and arms one of its own; the job  *)
(* observes the thread batch by batch and hands its ownership from one     *)
(* schedule to the next; failures are counted, and after too many a job    *)
(* runs only as a probe of a later turn.                                   *)
(*                                                                         *)
(* Every query names the thread, so one is modelled.  The schedules are    *)
(* the platform's: one is there from the call that makes it until its      *)
(* callback has returned or it is cancelled, callbacks run one at a time,  *)
(* and one that eviction interrupted is called again.                      *)
(*                                                                         *)
(* pc names the await a handler is parked at:                              *)
(*   turn       the turn itself                                            *)
(*   arming     agent.schedule of attemptPostTurnReflectArm                *)
(*   armRetry   the delay before that is tried again                       *)
(*   observe    the reads, and the model, of observeInteractionStyle       *)
(*   adding     addMemorySingle                                            *)
(*   deleting   deleteStaleBrainMemoryDocument                             *)
(*   handoff    agent.schedule of rearmOwnedPostTurnReflect                *)
(*   returning  the callback is over, its schedule still there             *)
(*   repair     the delay of queuePostTurnReflectRepair, or onStart        *)
(*   repairing  agent.schedule of reconcilePostTurnReflectRow              *)
(*   cancelling resetMemoryRegistry before it cancels the schedules        *)
(***************************************************************************)
EXTENDS Naturals, FiniteSets

CONSTANTS
    Turns,        \* the turns of the thread that end well
    Resumed,      \* those resumed by a click, which cancel nothing
    MaxRetries,   \* POST_TURN_MAX_RETRY_ATTEMPTS
    RepairTries,  \* the length of POST_TURN_REPAIR_DELAYS_MS
    Ids, NoId,    \* identifiers of schedules
    MaxBatches,   \* batches of messages after the first (bound of the model)
    MaxResets,    \* memory resets (bound of the model)
    MaxCrashes,   \* evictions (bound of the model)
    MaxFailures   \* rejected calls of agent.schedule (bound of the model)

\* The handlers beside the turns: the callback, the background repair, onStart
\* and a memory reset.
Alarm == "alarm"
Repair == "repair"
Start == "start"
Resetter == "reset"

ASSUME ReflectionAssumption ==
    /\ IsFiniteSet(Turns)
    /\ Turns \cap {Alarm, Repair, Start, Resetter} = {}
    /\ Resumed \subseteq Turns
    /\ MaxRetries \in Nat /\ RepairTries \in Nat \ {0}
    /\ NoId \notin Ids
    /\ MaxBatches \in Nat /\ MaxResets \in Nat
    /\ MaxCrashes \in Nat /\ MaxFailures \in Nat

Procs == Turns \cup {Alarm, Repair, Start, Resetter}

VARIABLES
    row,       \* the row of brain_post_turn_reflect
    retry,     \* brain_post_turn_reflect_retry
    probe,     \* armed_at of brain_post_turn_reflect_probe, or 0
    epoch,     \* reset_epoch of brain_memory_state
    notes,     \* notes in the memory service, by the epoch of their job
    batches,   \* batches of messages not yet observed
    sched,     \* the platform's schedules
    job,       \* the resetEpoch in the payload of each
    fired,     \* the schedule whose callback runs
    pc,
    got,       \* the schedule a handler has made
    seen,      \* the schedule_id it read before that
    arm,       \* armed_at and resetEpoch of each turn's job
    tries,     \* attempts of a background repair
    clock,     \* nextArmSequence
    probed,    \* runs of each exhausted job (history)
    crashes,
    failures,
    misled     \* a request to the memory service was carried out although it
               \* failed, or its answer was lost with the object (history)

tables == <<row, retry, probe, epoch>>
work == <<notes, batches, probed>>
platform == <<sched, job>>
handlers == <<pc, got, seen, arm, tries, clock>>
vars == <<tables, work, platform, fired, handlers, crashes, failures, misled>>

NoRow == [id |-> NoId, armed |-> 0, epoch |-> 0]
NoRetry == [attempt |-> 0, exhausted |-> FALSE]
Labels == {"idle", "turn", "arming", "armRetry", "observe", "adding", "deleting",
           "handoff", "returning", "repair", "repairing", "cancelling", "done"}

Init ==
    /\ row = NoRow
    /\ retry = NoRetry
    /\ probe = 0
    /\ epoch = 0
    /\ notes = [e \in 0..MaxResets |-> 0]
    /\ batches = MaxBatches
    /\ sched = [i \in Ids |-> "free"]
    /\ job = [i \in Ids |-> 0]
    /\ fired = NoId
    /\ pc = [p \in Procs |-> "idle"]
    /\ got = [p \in Procs |-> NoId]
    /\ seen = [p \in Procs |-> NoId]
    /\ arm = [t \in Turns |-> [armed |-> 0, epoch |-> 0]]
    /\ tries = [p \in Procs |-> 0]
    /\ clock = 0
    /\ probed = [n \in 1..Cardinality(Turns) |-> 0]
    /\ crashes = 0
    /\ failures = 0
    /\ misled = FALSE

\* onStart runs before anything else of the object.
Up == pc[Start] = "idle"

-----------------------------------------------------------------------------
(* The platform *)

\* An identifier nobody remembers, so a new one.
Fresh(i) ==
    /\ sched[i] = "free"
    /\ i \notin {row.id, fired}
    /\ \A p \in Procs : i \notin {got[p], seen[p]}

\* cancelSchedule on the table of schedules.
Cancelled(table, i) == [j \in Ids |-> IF j = i THEN "free" ELSE table[j]]

\* The handler parks at label until its schedule, with payload e, is made.
CallSchedule(p, label, e) ==
    \E i \in Ids :
        /\ Fresh(i)
        /\ i = CHOOSE j \in Ids : Fresh(j)
        /\ sched' = [sched EXCEPT ![i] = "waiting"]
        /\ job' = [job EXCEPT ![i] = e]
        /\ got' = [got EXCEPT ![p] = i]
        /\ pc' = [pc EXCEPT ![p] = label]
        /\ UNCHANGED failures

\* agent.schedule is rejected.
Reject ==
    /\ failures < MaxFailures
    /\ failures' = failures + 1
    /\ UNCHANGED <<platform, got>>

\* The handler is over, or goes on elsewhere, and forgets what it held.
Goto(p, label) ==
    /\ pc' = [pc EXCEPT ![p] = label]
    /\ got' = [got EXCEPT ![p] = NoId]
    /\ seen' = [seen EXCEPT ![p] = NoId]
    /\ tries' = [tries EXCEPT ![p] = 0]

-----------------------------------------------------------------------------
(* A turn *)

\* cancelPostTurnReflect at the start of a turn; one turn runs at a time.
StartTurn(t) ==
    /\ pc[t] = "idle"
    /\ Up
    /\ \A u \in Turns : pc[u] # "turn"
    /\ pc' = [pc EXCEPT ![t] = "turn"]
    /\ IF t \in Resumed
       THEN UNCHANGED <<row, retry, probe, sched>>
       ELSE /\ row' = NoRow
            /\ retry' = NoRetry
            /\ probe' = 0
            /\ sched' = Cancelled(sched, row.id)
    /\ UNCHANGED <<epoch, work, job, fired, got, seen, arm, tries, clock, crashes, failures, misled>>

\* The synchronous part of attemptPostTurnReflectArm for the job a.
AttemptArm(t, a) ==
    \/ /\ row # NoRow
       /\ row.armed >= a.armed
       /\ Goto(t, "done")
       /\ UNCHANGED <<platform, failures>>
    \/ /\ row = NoRow \/ row.armed < a.armed
       /\ CallSchedule(t, "arming", a.epoch)
       /\ seen' = [seen EXCEPT ![t] = row.id]
       /\ UNCHANGED tries
    \/ /\ row = NoRow \/ row.armed < a.armed
       /\ Reject
       /\ pc' = [pc EXCEPT ![t] = IF tries[t] < RepairTries THEN "armRetry" ELSE "done"]
       /\ tries' = [tries EXCEPT ![t] = @ + 1]
       /\ UNCHANGED seen

\* The turn is over: armPostTurnReflect.
EndTurn(t) ==
    /\ pc[t] = "turn"
    /\ Up
    /\ clock' = clock + 1
    /\ LET a == [armed |-> clock + 1, epoch |-> epoch] IN
         /\ arm' = [arm EXCEPT ![t] = a]
         /\ AttemptArm(t, a)
    /\ UNCHANGED <<tables, work, fired, crashes, misled>>

\* queuePostTurnReflectArmRetry
RetryArm(t) ==
    /\ pc[t] = "armRetry"
    /\ Up
    /\ AttemptArm(t, arm[t])
    /\ UNCHANGED <<tables, work, fired, arm, clock, crashes, misled>>

\* Mutant of Arms: an older job may replace a newer one.
ArmsAnyway(t) == arm[t].epoch = epoch

\* The job is of this epoch, and no newer job is armed.
Arms(t) ==
    /\ arm[t].epoch = epoch
    /\ row = NoRow \/ row.armed <= arm[t].armed

\* The schedule is made.
ArmReturns(t) ==
    /\ pc[t] = "arming"
    /\ Up
    /\ IF Arms(t)
       THEN /\ row' = [id |-> got[t], armed |-> arm[t].armed, epoch |-> arm[t].epoch]
            /\ probe' = IF retry.exhausted THEN arm[t].armed ELSE probe
            /\ sched' = Cancelled(sched, seen[t])
       ELSE /\ sched' = Cancelled(sched, got[t])
            /\ UNCHANGED <<row, probe>>
    /\ Goto(t, "done")
    /\ UNCHANGED <<retry, epoch, work, job, fired, arm, clock, crashes, failures, misled>>

-----------------------------------------------------------------------------
(* The callback: runPostTurnReflect *)

\* A schedule is due a second or more after the call that makes it, and so
\* after that call has returned.
Due(i) ==
    /\ sched[i] = "waiting"
    /\ \A p \in Procs : got[p] = i => pc[p] \notin {"arming", "handoff", "repairing"}

Owns == row # NoRow /\ row.id = fired
Current == Owns /\ job[fired] = epoch

\* Mutant of ClaimProbe: the probe stays.
ClaimProbeAgain ==
    /\ probed' = [probed EXCEPT ![row.armed] = @ + 1]
    /\ UNCHANGED probe

\* claimPostTurnProbe, for the job of the row.
ClaimProbe ==
    /\ probed' = [probed EXCEPT ![row.armed] = @ + 1]
    /\ probe' = 0

\* The callback up to its first await.  Only the schedule of the row does
\* anything; with the retries exhausted, only once for each turn's job.
Fire(i) ==
    /\ Due(i)
    /\ pc[Alarm] = "idle"
    /\ Up
    /\ fired' = i
    /\ sched' = [sched EXCEPT ![i] = "running"]
    /\ LET stale == job[i] # epoch
           spent == retry.exhausted /\ probe # row.armed IN
         \/ /\ row.id # i
            /\ Goto(Alarm, "returning")
            /\ UNCHANGED <<row, probe, probed>>
         \/ /\ row.id = i
            /\ stale \/ spent
            /\ row' = NoRow
            /\ Goto(Alarm, "returning")
            /\ UNCHANGED <<probe, probed>>
         \/ /\ row.id = i
            /\ ~stale /\ ~spent
            /\ IF retry.exhausted THEN ClaimProbe ELSE UNCHANGED <<probe, probed>>
            /\ Goto(Alarm, "observe")
            /\ UNCHANGED row
    /\ UNCHANGED <<retry, epoch, notes, batches, job, arm, clock, crashes, failures, misled>>

\* Mutant of Rearm: nobody looks after a rejected call.
RearmOnce ==
    \/ CallSchedule(Alarm, "handoff", job[fired]) /\ UNCHANGED <<seen, tries>>
    \/ Reject /\ Goto(Alarm, "returning")

\* rearmOwnedPostTurnReflect: the payload goes on to a new schedule.  Of a
\* rejected call a background repair takes care; its delays add up to less
\* than any job of another turn takes to come, so one is modelled.
Rearm ==
    \/ CallSchedule(Alarm, "handoff", job[fired]) /\ UNCHANGED <<seen, tries>>
    \/ /\ Reject
       /\ pc[Repair] = "idle"
       /\ pc' = [pc EXCEPT ![Alarm] = "returning", ![Repair] = "repair"]
       /\ UNCHANGED <<seen, tries>>

\* Mutant of RetryOwned: retries without end.
RetryForever == Rearm /\ UNCHANGED <<row, retry, probe>>

\* retryOwnedPostTurnReflect, of a job that still owns the row.
RetryOwned ==
    IF retry.exhausted \/ retry.attempt >= MaxRetries
    THEN /\ retry' = [retry EXCEPT !.exhausted = TRUE]
         /\ probe' = 0
         /\ row' = NoRow
         /\ Goto(Alarm, "returning")
         /\ UNCHANGED <<platform, failures>>
    ELSE /\ retry' = [retry EXCEPT !.attempt = @ + 1]
         /\ probe' = 0
         /\ Rearm
         /\ UNCHANGED row

\* A batch is done with: there is another, or the job is over.
Advance ==
    /\ retry' = NoRetry
    /\ probe' = 0
    /\ \/ /\ batches > 0
          /\ batches' = batches - 1
          /\ Rearm
          /\ UNCHANGED row
       \/ /\ row' = NoRow
          /\ Goto(Alarm, "returning")
          /\ UNCHANGED <<batches, platform, failures>>

\* Nothing is written, and the callback goes on at label.
Abandon(label) ==
    /\ Goto(Alarm, label)
    /\ UNCHANGED <<row, retry, probe, batches, platform, failures>>

\* observeInteractionStyle up to addMemorySingle.  Each of its awaits ends
\* with the same test, and the last one decides.
Observe ==
    /\ pc[Alarm] = "observe"
    /\ Up
    /\ \/ ~Current /\ Abandon("returning")
       \/ Current /\ Advance
       \/ Owns /\ RetryOwned /\ UNCHANGED batches
       \/ Current /\ Abandon("adding")
    /\ UNCHANGED <<epoch, notes, probed, fired, arm, clock, crashes, misled>>

\* Mutant of Added: the job is not looked at again once the note is written.
AddedBlind ==
    /\ notes' = [notes EXCEPT ![job[fired]] = @ + 1]
    /\ IF Owns THEN Advance ELSE Abandon("returning")

\* The note is written.
Added ==
    /\ notes' = [notes EXCEPT ![job[fired]] = @ + 1]
    /\ IF Current THEN Advance ELSE Abandon("deleting")

\* addMemorySingle has answered: the note is written, or is not.
AddReturns ==
    /\ pc[Alarm] = "adding"
    /\ Up
    /\ \/ Added /\ UNCHANGED misled
       \/ /\ IF Current THEN RetryOwned /\ UNCHANGED batches ELSE Abandon("returning")
          /\ \/ UNCHANGED <<notes, misled>>
             \/ notes' = [notes EXCEPT ![job[fired]] = @ + 1] /\ misled' = TRUE
    /\ UNCHANGED <<epoch, probed, fired, arm, clock, crashes>>

\* deleteStaleBrainMemoryDocument; the note may have gone with the others.
Delete ==
    /\ pc[Alarm] = "deleting"
    /\ Up
    /\ \/ /\ notes' = [notes EXCEPT ![job[fired]] = IF @ > 0 THEN @ - 1 ELSE 0]
          /\ UNCHANGED misled
       \/ misled' = TRUE /\ UNCHANGED notes
    /\ Goto(Alarm, "returning")
    /\ UNCHANGED <<tables, batches, probed, platform, fired, arm, clock, crashes, failures>>

\* Mutant of HandsOff: the row is taken whoever owns it now.
HandsOffAnyway(p, i) ==
    /\ row' = IF row # NoRow THEN [row EXCEPT !.id = got[p]] ELSE row
    /\ sched' = IF row # NoRow THEN sched ELSE Cancelled(sched, got[p])

\* The new schedule of a handler takes the place of i, if the row is still i's.
HandsOff(p, i) ==
    IF row # NoRow /\ row.id = i
    THEN row' = [row EXCEPT !.id = got[p]] /\ UNCHANGED sched
    ELSE sched' = Cancelled(sched, got[p]) /\ UNCHANGED row

HandoffReturns ==
    /\ pc[Alarm] = "handoff"
    /\ Up
    /\ HandsOff(Alarm, fired)
    /\ Goto(Alarm, "returning")
    /\ UNCHANGED <<retry, probe, epoch, work, job, fired, arm, clock, crashes, failures, misled>>

\* The callback has returned and the platform forgets its schedule.
Return ==
    /\ pc[Alarm] = "returning"
    /\ Up
    /\ sched' = Cancelled(sched, fired)
    /\ fired' = NoId
    /\ Goto(Alarm, "idle")
    /\ UNCHANGED <<tables, work, job, arm, clock, crashes, failures, misled>>

-----------------------------------------------------------------------------
(* reconcilePostTurnReflectRow, in the background and in onStart *)

\* A repair that fails is tried again after the next delay, as often as there
\* are delays; one that onStart makes is left to the background.
Failed(p) ==
    IF p = Repair
    THEN /\ pc' = [pc EXCEPT ![p] = IF tries[p] + 1 < RepairTries THEN "repair" ELSE "idle"]
         /\ tries' = [tries EXCEPT ![p] = IF @ + 1 < RepairTries THEN @ + 1 ELSE 0]
    ELSE /\ pc' = [pc EXCEPT ![p] = "idle", ![Repair] = "repair"]
         /\ UNCHANGED tries

\* The callback whose rejected call asked for the repair has long returned.
Reconcile(p) ==
    /\ p \in {Repair, Start}
    /\ pc[p] = "repair"
    /\ Up \/ p = Start
    /\ pc[Alarm] # "returning"
    /\ LET spent == retry.exhausted /\ probe # row.armed IN
         \/ /\ row = NoRow
            /\ Goto(p, "idle")
            /\ UNCHANGED <<row, platform, failures>>
         \/ /\ row # NoRow
            /\ spent
            /\ row' = NoRow
            /\ sched' = Cancelled(sched, row.id)
            /\ Goto(p, "idle")
            /\ UNCHANGED <<job, failures>>
         \/ /\ row # NoRow
            /\ ~spent
            /\ sched[row.id] # "free"
            /\ Goto(p, "idle")
            /\ UNCHANGED <<row, platform, failures>>
         \/ /\ row # NoRow
            /\ ~spent
            /\ sched[row.id] = "free"
            /\ \/ /\ CallSchedule(p, "repairing", row.epoch)
                  /\ seen' = [seen EXCEPT ![p] = row.id]
                  /\ UNCHANGED tries
               \/ Reject /\ Failed(p) /\ UNCHANGED seen
            /\ UNCHANGED row
    /\ UNCHANGED <<retry, probe, epoch, work, fired, arm, clock, crashes, misled>>

RepairReturns(p) ==
    /\ pc[p] = "repairing"
    /\ Up \/ p = Start
    /\ HandsOff(p, seen[p])
    /\ Goto(p, "idle")
    /\ UNCHANGED <<retry, probe, epoch, work, job, fired, arm, clock, crashes, failures, misled>>

-----------------------------------------------------------------------------
(* Memory reset and eviction *)

\* resetMemoryRegistry up to its first await; whoever calls it empties the
\* memory service.
Reset ==
    /\ pc[Resetter] = "idle"
    /\ epoch < MaxResets
    /\ Up
    /\ epoch' = epoch + 1
    /\ row' = NoRow
    /\ retry' = NoRetry
    /\ probe' = 0
    /\ notes' = [e \in 0..MaxResets |-> 0]
    /\ pc' = [pc EXCEPT ![Resetter] = "cancelling"]
    /\ got' = [got EXCEPT ![Resetter] = row.id]
    /\ UNCHANGED <<batches, probed, platform, fired, seen, arm, tries, clock, crashes, failures, misled>>

\* It cancels the schedule it has read.
ResetReturns ==
    /\ pc[Resetter] = "cancelling"
    /\ Up
    /\ sched' = Cancelled(sched, got[Resetter])
    /\ Goto(Resetter, "idle")
    /\ UNCHANGED <<tables, work, job, fired, arm, clock, crashes, failures, misled>>

\* The object is evicted with all its handlers and starts again with onStart.
\* A request to the memory service may have arrived; a turn is not resumed.
Crash ==
    /\ crashes < MaxCrashes
    /\ crashes' = crashes + 1
    /\ sched' = [i \in Ids |-> IF sched[i] = "running" THEN "waiting" ELSE sched[i]]
    /\ fired' = NoId
    /\ \/ UNCHANGED notes
       \/ pc[Alarm] = "adding" /\ notes' = [notes EXCEPT ![job[fired]] = @ + 1]
    /\ pc' = [p \in Procs |-> IF p = Start THEN "repair"
                              ELSE IF p \in Turns /\ pc[p] # "idle" THEN "done" ELSE "idle"]
    /\ got' = [p \in Procs |-> NoId]
    /\ seen' = [p \in Procs |-> NoId]
    /\ tries' = [p \in Procs |-> 0]
    /\ misled' = (misled \/ pc[Alarm] \in {"adding", "deleting"})
    /\ UNCHANGED <<tables, batches, probed, job, arm, clock, failures>>

-----------------------------------------------------------------------------

Turn(t) == EndTurn(t) \/ RetryArm(t) \/ ArmReturns(t)
Work == (\E i \in Ids : Fire(i)) \/ Observe \/ AddReturns \/ Delete \/ HandoffReturns \/ Return

Next ==
    \/ \E t \in Turns : StartTurn(t) \/ Turn(t)
    \/ Work
    \/ \E p \in {Repair, Start} : Reconcile(p) \/ RepairReturns(p)
    \/ Reset \/ ResetReturns
    \/ Crash

Spec == Init /\ [][Next]_vars

\* Schedules fire and awaits end.  No turn has to come.
Fairness ==
    /\ WF_vars(Work)
    /\ \A t \in Turns : WF_vars(Turn(t))
    /\ \A p \in {Repair, Start} : WF_vars(Reconcile(p) \/ RepairReturns(p))
    /\ WF_vars(ResetReturns)

FairSpec == Spec /\ Fairness

-----------------------------------------------------------------------------
(* Properties *)

\* The shape of the state.
TypeOK ==
    /\ row \in [id : Ids \cup {NoId}, armed : 0..Cardinality(Turns), epoch : 0..MaxResets]
    /\ row = NoRow <=> row.id = NoId
    /\ retry \in [attempt : 0..MaxRetries, exhausted : BOOLEAN]
    /\ probe \in 0..Cardinality(Turns)
    /\ epoch \in 0..MaxResets
    /\ notes \in [0..MaxResets -> Nat]
    /\ batches \in 0..MaxBatches
    /\ sched \in [Ids -> {"free", "waiting", "running"}]
    /\ job \in [Ids -> 0..MaxResets]
    /\ fired \in Ids \cup {NoId}
    /\ pc \in [Procs -> Labels]
    /\ got \in [Procs -> Ids \cup {NoId}]
    /\ seen \in [Procs -> Ids \cup {NoId}]
    /\ arm \in [Turns -> [armed : 0..Cardinality(Turns), epoch : 0..MaxResets]]
    /\ tries \in [Procs -> 0..RepairTries + 1]
    /\ clock \in 0..Cardinality(Turns)
    /\ probed \in [1..Cardinality(Turns) -> 0..2]
    /\ crashes \in 0..MaxCrashes
    /\ failures \in 0..MaxFailures
    /\ misled \in BOOLEAN

\* A row is no orphan: its schedule is there, or the callback it names still
\* runs, or a repair or onStart is about to look at it (the handoffs of
\* rearmOwnedPostTurnReflect and reconcilePostTurnReflectRow against turns,
\* resets and evictions), unless every delay of a repair has failed.
RowHasJob ==
    row # NoRow =>
        \/ sched[row.id] = "waiting"
        \/ row.id = fired /\ pc[Alarm] \in {"observe", "adding", "handoff"}
        \/ \E p \in {Repair, Start} : pc[p] \in {"repair", "repairing"}

\* The job of the row is of this epoch, whatever resets, turns and handoffs
\* came between: a new job is not run, or lost, under the payload of an old
\* one.
RowIsCurrent ==
    row # NoRow =>
        /\ row.epoch = epoch
        /\ sched[row.id] # "free" => job[row.id] = epoch

\* The row and its job belong together.
RowAndJob == TypeOK /\ RowHasJob /\ RowIsCurrent

\* A turn's job is never replaced by that of an earlier turn, whose arming
\* was only slower ("WHERE armed_at <= excluded.armed_at",
\* post-turn-reflect.ts:427).
NewestArmWins == [][row # NoRow /\ row' # NoRow => row'.armed >= row.armed]_row

\* What a job learnt before a memory reset does not outlive the job
\* (interaction-observe.ts:256-264), unless an answer of the memory service
\* was wrong or was lost with the object.
NoStaleNote ==
    \A e \in 0..MaxResets :
        notes[e] > 0 => e = epoch \/ pc[Alarm] = "deleting" \/ misled

\* An exhausted job is given one more run for each turn, and no turn's run
\* twice (claimPostTurnProbe).
ProbeOnce == \A n \in DOMAIN probed : probed[n] <= 1

\* Every job comes to its end.
EveryJobEnds == row # NoRow ~> row = NoRow
=============================================================================
