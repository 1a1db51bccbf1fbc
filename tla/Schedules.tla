------------------------------ MODULE Schedules ------------------------------
(***************************************************************************)
(* The schedules of an organisation's agent and the reminders among them   *)
(* (tools/scheduling.ts, tools/scheduler.ts).                              *)
(*                                                                         *)
(* The platform keeps the schedules: agent.schedule adds a row as it is    *)
(* called, agent.cancelSchedule removes one and answers whether there was  *)
(* one, a schedule that is due runs its callback and a one-shot's row goes *)
(* when that returns.  Calls of the tools interleave at their awaits:      *)
(*   counted   schedule_task awaits the destination                        *)
(*   swapping  replaceBrainTask awaits the schedule of the replacement     *)
(* A call ends with the last thing it does, though its answer may take      *)
(* longer.  Automations use the same table and add awaits of their own.     *)
(***************************************************************************)
EXTENDS Naturals, FiniteSets, Sequences

CONSTANTS
    Users,        \* people, each with the Slack id the tools know them by
    Askers,       \* those who schedule reminders
    Related,      \* those who are related to every reminder
    Nobody,
    Calls,        \* calls that may be open at the same time
    Cap,          \* MAX_SCHEDULES_PER_USER
    MaxJobs,      \* schedules (bound of the model)
    MaxCalls,     \* calls (bound of the model)
    MaxFaults     \* calls of the platform or of SQL that throw, and evictions
                  \* (bound of the model)

ASSUME SchedulesAssumption ==
    /\ Nobody \notin Users /\ Askers \subseteq Users /\ Related \subseteq Users
    /\ IsFiniteSet(Calls) /\ Cap \in Nat \ {0}
    /\ {MaxJobs, MaxCalls, MaxFaults} \subseteq Nat

VARIABLES
    jobs,      \* every schedule there has been, and what became of it
    call,      \* the calls that are open
    calls,     \* those made so far
    crowd,     \* the most that were open at a time (history)
    failures,
    crashes

env == <<calls, crowd, failures, crashes>>

Idle ==
    [at |-> "idle", who |-> Nobody, old |-> 0, new |-> 0, row |-> 0,
     to |-> Nobody, on |-> FALSE, dm |-> FALSE, edit |-> FALSE]

Ids == 1..Len(jobs)
Live(j) == j \in Ids /\ jobs[j].state = "live"
Open(c) == call[c].at # "idle"

SchedulesInit ==
    /\ jobs = <<>>
    /\ call = [c \in Calls |-> Idle]
    /\ calls = 0 /\ crowd = 0 /\ failures = 0 /\ crashes = 0

\* The platform.  A call of it that throws has changed nothing.
Arms(j) == Len(jobs) < MaxJobs /\ jobs' = Append(jobs, j)
Ended(j, how) == IF Live(j) THEN [jobs EXCEPT ![j].state = how] ELSE jobs
Cancels(j, how) == jobs' = Ended(j, how)
Fails == failures + crashes < MaxFaults /\ failures' = failures + 1
FailsTwice == failures + crashes + 1 < MaxFaults /\ failures' = failures + 2

Begins(c) ==
    /\ ~Open(c) /\ calls < MaxCalls
    /\ calls' = calls + 1
    /\ LET now == Cardinality({d \in Calls : Open(d)}) + 1
       IN crowd' = IF now > crowd THEN now ELSE crowd
    /\ UNCHANGED crashes
Goes(c, k) == call' = [call EXCEPT ![c] = k]
Ends(c) == Goes(c, Idle)
Steps == UNCHANGED <<calls, crowd, crashes>>
Steady == UNCHANGED failures

-----------------------------------------------------------------------------
\* A reminder: its creator, whether it runs once; the reminder it replaces and
\* the first of that line (history).
Reminder(u, once, of) ==
    [row |-> 0, by |-> u, to |-> Nobody, once |-> once, of |-> of,
     root |-> IF of = 0 THEN Len(jobs) + 1 ELSE jobs[of].root,
     state |-> "live"]

IsReminder(j) == jobs[j].row = 0
Created(u) == {j \in Ids : Live(j) /\ IsReminder(j) /\ jobs[j].by = u}
MayCancel(u, j) == u = jobs[j].by \/ u \in Related

\* A bug: one too many.
CountOne(c, u) ==
    /\ Begins(c) /\ Steady
    /\ u \in Askers
    /\ Cardinality(Created(u)) <= Cap
    /\ Goes(c, [Idle EXCEPT !.at = "counted", !.who = u])
    /\ UNCHANGED jobs

\* schedule_task counts what its caller has, then asks Slack for the
\* destination.  At the maximum it only says so.
Count(c, u) ==
    /\ Begins(c) /\ Steady
    /\ u \in Askers
    /\ Cardinality(Created(u)) < Cap
    /\ Goes(c, [Idle EXCEPT !.at = "counted", !.who = u])
    /\ UNCHANGED jobs

\* The destination is found and the reminder scheduled, or one of them fails.
Schedule(c) ==
    /\ call[c].at = "counted"
    /\ Ends(c) /\ Steps
    /\ \/ /\ \E once \in BOOLEAN : Arms(Reminder(call[c].who, once, 0))
          /\ Steady
       \/ Fails /\ UNCHANGED jobs

\* cancelBrainTask, for the creator or a related person.
CancelTask(u, j) ==
    /\ calls < MaxCalls /\ calls' = calls + 1
    /\ Live(j) /\ IsReminder(j) /\ MayCancel(u, j)
    /\ Cancels(j, "over")
    /\ UNCHANGED <<call, crowd, failures, crashes>>

\* replaceBrainTask finds the reminder, its caller's own, and schedules the
\* replacement beside it; it runs as often (bound of the model).
Replace(c, u, j) ==
    /\ Begins(c) /\ Steady
    /\ j \in Created(u)
    /\ Arms(Reminder(u, jobs[j].once, j))
    /\ Goes(c, [Idle EXCEPT !.at = "swapping", !.who = u, !.old = j,
                            !.new = Len(jobs) + 1])

\* It cancels the old one; when there was none to cancel, or that throws, it
\* cancels the replacement, and answers cancel_failed whether that works or not.
Rollback(c) == Cancels(call[c].new, "undone") /\ Ends(c)

\* A bug: the answer of the cancellation is not looked at.
SwapAnyway(c) ==
    /\ call[c].at = "swapping" /\ Steps /\ Steady
    /\ Cancels(call[c].old, "replaced") /\ Ends(c)

\* A bug: the rollback follows a cancellation that worked.
SwapInverted(c) ==
    /\ call[c].at = "swapping" /\ Steps /\ Steady
    /\ IF Live(call[c].old)
       THEN jobs' = [Ended(call[c].old, "replaced")
                     EXCEPT ![call[c].new].state = "undone"]
       ELSE UNCHANGED jobs
    /\ Ends(c)

Swap(c) ==
    /\ call[c].at = "swapping" /\ Steps
    /\ \/ /\ Live(call[c].old) /\ Steady
          /\ Cancels(call[c].old, "replaced") /\ Ends(c)
       \/ /\ ~Live(call[c].old)
          /\ \/ Rollback(c) /\ Steady
             \/ Fails /\ Ends(c) /\ UNCHANGED jobs
       \/ /\ Live(call[c].old)
          /\ \/ Fails /\ Rollback(c)
             \/ FailsTwice /\ Ends(c) /\ UNCHANGED jobs

-----------------------------------------------------------------------------
\* runScheduledTask, up to its return: it has posted, or was blocked or failed,
\* and the row of a one-shot goes.  Nobody looks at a run in between.
Returned(j) ==
    /\ Live(j) /\ jobs[j].once
    /\ Cancels(j, "over")
    /\ UNCHANGED <<call, env>>

\* The workspace is gone, or belongs to another organisation: the callback
\* cancels its own schedule.
Drop(j) ==
    /\ Live(j)
    /\ Cancels(j, "dropped")
    /\ UNCHANGED <<call, env>>

\* The object is evicted: the calls stop, the table stays.
Crash ==
    /\ failures + crashes < MaxFaults /\ crashes' = crashes + 1
    /\ call' = [c \in Calls |-> Idle]
    /\ UNCHANGED <<jobs, calls, crowd, failures>>

SchedulesNext ==
    \/ \E c \in Calls : Schedule(c) \/ Swap(c)
    \/ \E u \in Users :
          \/ \E c \in Calls : Count(c, u) \/ \E j \in Ids : Replace(c, u, j)
          \/ \E j \in Ids : CancelTask(u, j)
    \/ \E j \in Ids : Returned(j) \/ Drop(j)
    \/ Crash

=============================================================================
