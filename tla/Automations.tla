----------------------------- MODULE Automations -----------------------------
(***************************************************************************)
(* The automations of an organisation (tools/automations.ts) beside its    *)
(* reminders: rows of brain_automation, each of which, when enabled, names *)
(* the cron schedule that runs it.  Creating, editing and deleting one     *)
(* touches the row and the schedule in turn, with awaits in between:       *)
(*   resolving  resolveSlackUser, for delivery by DM                       *)
(*   locating   getWorkspaceTeamIdByOrgId                                  *)
(*   arming     scheduleBrainTask                                          *)
(*   clearing   cancelSchedule of the previous schedule                    *)
(*   unwinding  that of the new one, after the row could not be written    *)
(*   removing   cancelSchedule of a deleted automation                     *)
(* runAutomationNow reads the row and runs the callback at once, under the *)
(* id of no schedule: it changes none of this and is left out.             *)
(***************************************************************************)
EXTENDS Schedules

CONSTANTS
    Admins,      \* the users who may manage every automation
    MemberCap,   \* MEMBER_AUTOMATION_CAP
    MaxRows      \* automations (bound of the model)

ASSUME AutomationsAssumption ==
    /\ Admins \subseteq Users
    /\ MemberCap \in Nat \ {0} /\ MaxRows \in Nat

VARIABLES
    rows,        \* every automation there has been
    disturbed   \* those with two calls open at a time (history)

vars == <<jobs, call, env, rows, disturbed>>

RowIds == 1..Len(rows)
There(r) == r \in RowIds /\ rows[r].there
Busy(r) == \E c \in Calls : Open(c) /\ call[c].row = r
MayManage(u, r) == u \in Admins \/ rows[r].by = u

Init == SchedulesInit /\ rows = <<>> /\ disturbed = {}

Keeps == UNCHANGED disturbed
Touches(r) ==
    disturbed' = IF Busy(r) THEN disturbed \cup {r} ELSE disturbed

\* The payload of an automation's schedule.
Digest(k) ==
    [row |-> k.row, by |-> rows[k.row].by, to |-> k.to, once |-> FALSE,
     of |-> 0, root |-> Len(jobs) + 1, state |-> "live"]

\* UPDATE brain_automation: no row, no effect.
Written(k) ==
    IF There(k.row)
    THEN [rows EXCEPT ![k.row].enabled = k.on, ![k.row].sid = k.new,
                      ![k.row].to = IF k.edit THEN k.to ELSE @]
    ELSE rows
Without(r) == IF There(r) THEN [rows EXCEPT ![r].there = FALSE] ELSE rows

\* A bug: the row is not touched.
Untouched(r) == rows

Unarmed(r) ==
    IF There(r)
    THEN [rows EXCEPT ![r].enabled = FALSE, ![r].sid = 0] ELSE rows

-----------------------------------------------------------------------------
\* createAutomation inserts the row disabled; one that is to be enabled goes
\* on to its schedule.
Insert(c, k) ==
    LET r == Len(rows) + 1
    IN /\ r <= MaxRows
       /\ rows' = Append(rows, [there |-> TRUE, enabled |-> FALSE, sid |-> 0,
                                to |-> k.to, by |-> k.who])
       /\ Goes(c, IF k.on THEN [k EXCEPT !.at = "locating", !.row = r]
                  ELSE Idle)
       /\ UNCHANGED jobs

\* It first counts the rows of a member, then resolves the target of a DM.
Create(c, u, on, dm) ==
    LET k == [Idle EXCEPT !.who = u, !.on = on, !.dm = dm]
    IN /\ Begins(c) /\ Steady /\ Keeps
       /\ u \in Admins
          \/ Cardinality({r \in RowIds : There(r) /\ rows[r].by = u}) < MemberCap
       /\ IF dm THEN /\ Goes(c, [k EXCEPT !.at = "resolving"])
                     /\ UNCHANGED <<jobs, rows>>
          ELSE Insert(c, k)

\* UPDATE brain_automation; when that throws, the cancellation of the new
\* schedule, awaited, or where there is none the pointer is cleared.
Save(c, k) ==
    \/ rows' = Written(k) /\ Ends(c) /\ Steady /\ UNCHANGED jobs
    \/ /\ Fails /\ k.new # 0
       /\ Cancels(k.new, "undone")
       /\ Goes(c, [k EXCEPT !.at = "unwinding"])
       /\ UNCHANGED rows
    \/ /\ Fails /\ k.new = 0
       /\ rows' = Unarmed(k.row) /\ Ends(c) /\ UNCHANGED jobs

\* A bug: the row is written although the previous schedule was not cancelled.
ClearAnyway(c, k) ==
    \/ k.old = 0 /\ Save(c, k)
    \/ /\ k.old # 0
       /\ Cancels(k.old, "replaced") /\ Steady
       /\ Goes(c, [k EXCEPT !.at = "clearing"])
       /\ UNCHANGED rows
    \/ /\ k.old # 0 /\ Fails
       /\ rows' = Written(k) /\ Ends(c) /\ UNCHANGED jobs

\* updateAutomation cancels the schedule it read, then writes the row.  When
\* the cancellation throws the row stays and the new schedule is cancelled.
Clear(c, k) ==
    \/ k.old = 0 /\ Save(c, k)
    \/ /\ k.old # 0
       /\ Cancels(k.old, "replaced") /\ Steady
       /\ Goes(c, [k EXCEPT !.at = "clearing"])
       /\ UNCHANGED rows
    \/ /\ k.old # 0 /\ Fails
       /\ Cancels(k.new, "undone") /\ Ends(c)
       /\ UNCHANGED rows

\* A bug: whoever edits an automation becomes the target of its DM.
UpdateAsEditor(c, u, r, on, dm) ==
    LET k == [Idle EXCEPT !.who = u, !.row = r, !.old = rows[r].sid,
                          !.on = on, !.dm = dm, !.edit = TRUE]
    IN /\ There(r) /\ MayManage(u, r)
       /\ Begins(c) /\ Touches(r)
       /\ IF dm \/ on
          THEN /\ Goes(c, [k EXCEPT !.at = IF dm THEN "resolving"
                                           ELSE "locating"])
               /\ Steady /\ UNCHANGED <<jobs, rows>>
          ELSE Clear(c, k)

\* It reads the row first.  The target of a DM is the one that is stored, or
\* that of the owner who asks for it; nobody else can set it.
Update(c, u, r, on, dm) ==
    LET stored == IF dm THEN rows[r].to ELSE Nobody
        fresh == dm /\ stored = Nobody
        k == [Idle EXCEPT !.who = u, !.row = r, !.old = rows[r].sid,
                          !.to = stored, !.on = on, !.dm = dm, !.edit = TRUE]
    IN /\ There(r) /\ MayManage(u, r) /\ (fresh => rows[r].by = u)
       /\ Begins(c) /\ Touches(r)
       /\ IF fresh \/ on
          THEN /\ Goes(c, [k EXCEPT !.at = IF fresh THEN "resolving"
                                           ELSE "locating"])
               /\ Steady /\ UNCHANGED <<jobs, rows>>
          ELSE Clear(c, k)

\* The Slack user of the caller, from their e-mail address.
Resolved(c) ==
    LET k == [call[c] EXCEPT !.to = call[c].who]
    IN /\ call[c].at = "resolving" /\ Steps /\ Keeps
       /\ \/ ~k.edit /\ Insert(c, k) /\ Steady
          \/ /\ k.edit /\ k.on /\ Goes(c, [k EXCEPT !.at = "locating"])
             /\ Steady /\ UNCHANGED <<jobs, rows>>
          \/ k.edit /\ ~k.on /\ Clear(c, k)
          \/ Fails /\ Ends(c) /\ UNCHANGED <<jobs, rows>>

\* armSchedule; when it fails createAutomation deletes its row.
Arm(c) ==
    LET k == call[c]
    IN /\ k.at = "locating" /\ Steps /\ Keeps
       /\ \/ /\ Arms(Digest(k)) /\ Steady
             /\ Goes(c, [k EXCEPT !.at = "arming", !.new = Len(jobs) + 1])
             /\ UNCHANGED rows
          \/ /\ Fails /\ Ends(c) /\ UNCHANGED jobs
             /\ rows' = IF k.edit THEN rows ELSE Without(k.row)

\* The schedule is answered: createAutomation writes enabled and schedule_id,
\* updateAutomation turns to the previous schedule.
Armed(c) ==
    /\ call[c].at = "arming" /\ Steps /\ Keeps
    /\ Clear(c, call[c])

Cleared(c) ==
    /\ call[c].at = "clearing" /\ Steps /\ Keeps
    /\ Save(c, call[c])

\* The new schedule is cancelled: createAutomation deletes its row,
\* updateAutomation clears the pointer, and both throw.
Unwound(c) ==
    /\ call[c].at = "unwinding" /\ Steps /\ Steady /\ Keeps
    /\ rows' = IF call[c].edit THEN Unarmed(call[c].row)
               ELSE Without(call[c].row)
    /\ Ends(c) /\ UNCHANGED jobs

\* deleteAutomation cancels the schedule it read, whether or not that works,
\* and deletes the row.
Delete(c, u, r) ==
    /\ There(r) /\ MayManage(u, r)
    /\ Begins(c)
    /\ \/ /\ rows[r].sid = 0
          /\ rows' = Without(r) /\ Touches(r)
          /\ Steady /\ UNCHANGED <<jobs, call>>
       \/ /\ rows[r].sid # 0
          /\ Goes(c, [Idle EXCEPT !.at = "removing", !.who = u, !.row = r])
          /\ \/ Cancels(rows[r].sid, "over") /\ Touches(r) /\ Steady
             \/ Fails /\ disturbed' = disturbed \cup {r} /\ UNCHANGED jobs
          /\ UNCHANGED rows

Removed(c) ==
    /\ call[c].at = "removing" /\ Steps /\ Steady /\ Keeps
    /\ rows' = Without(call[c].row)
    /\ Ends(c) /\ UNCHANGED jobs

Next ==
    \/ SchedulesNext /\ UNCHANGED <<rows, disturbed>>
    \/ \E c \in Calls :
          \/ Resolved(c) \/ Arm(c) \/ Armed(c) \/ Cleared(c)
          \/ Unwound(c) \/ Removed(c)
    \/ \E c \in Calls, u \in Users :
          \/ \E on, dm \in BOOLEAN :
                \/ Create(c, u, on, dm)
                \/ \E r \in RowIds : Update(c, u, r, on, dm)
          \/ \E r \in RowIds : Delete(c, u, r)

Spec == Init /\ [][Next]_vars

-----------------------------------------------------------------------------
\* Types: identifiers point at what exists.
TypeOK ==
    /\ \A j \in Ids :
          /\ jobs[j].row \in 0..Len(rows)
          /\ jobs[j].by \in Users /\ jobs[j].to \in Users \cup {Nobody}
          /\ jobs[j].of \in 0..(j - 1) /\ jobs[j].root \in 1..j
          /\ jobs[j].once \in BOOLEAN
          /\ jobs[j].state \in {"live", "over", "replaced", "undone", "dropped"}
    /\ \A r \in RowIds :
          /\ {rows[r].there, rows[r].enabled} \subseteq BOOLEAN
          /\ rows[r].by \in Users /\ rows[r].to \in Users \cup {Nobody}
          /\ rows[r].sid \in 0..Len(jobs)
          /\ rows[r].enabled <=> rows[r].sid # 0
    /\ \A c \in Calls :
          /\ call[c].at \in {"idle", "counted", "swapping", "resolving",
                             "locating", "arming", "clearing",
                             "unwinding", "removing"}
          /\ call[c].who \in Users \cup {Nobody}
          /\ {call[c].old, call[c].new} \subseteq 0..Len(jobs)
          /\ call[c].row \in 0..Len(rows)
    /\ disturbed \subseteq RowIds
    /\ calls \in 0..MaxCalls /\ crowd \in 0..Cardinality(Calls)
    /\ {failures, crashes} \subseteq 0..MaxFaults

\* The lines that u still has a reminder of.
Lines(u) == {jobs[j].root : j \in Created(u)}

\* The limits of scheduler.ts:31 and automations.ts:19 are read before an await
\* and used after it, so what they bound is this: a person has at most as many
\* more as calls were open at a time.  replaceBrainTask reads no limit, so what
\* the first one bounds are lines: of one line several reminders may be live,
\* when a replacement that is still under way is itself replaced, or when the
\* old one can neither be cancelled nor the new one taken back.
LimitsHold ==
    \A u \in Users :
       /\ Cardinality(Lines(u)) < Cap + crowd
       /\ u \notin Admins =>
             Cardinality({r \in RowIds : There(r) /\ rows[r].by = u})
             < MemberCap + crowd

Successors(j) ==
    {i \in Ids : jobs[i].of = j /\ Live(i) /\ \A c \in Calls : call[c].new # i}

\* A reminder is replaced by at most one other, and by none when somebody
\* cancelled it or it had its turn meanwhile, whatever replacements,
\* cancellations and runs overlap (scheduling.ts:262-285), unless the rollback
\* fails or the object is evicted halfway.
ReplacedOnce ==
    failures = 0 /\ crashes = 0 =>
       \A j \in Ids :
          /\ Cardinality(Successors(j)) <= 1
          /\ Successors(j) # {} => jobs[j].state = "replaced"

\* Replacing a reminder never loses it, not even when a step fails or the object
\* is evicted: until somebody cancels it or it runs, one of its line is
\* scheduled (scheduling.ts:262-285: the new one first, then the old one).
NeverLost ==
    \A j \in Ids :
       IsReminder(j) =>
          \E i \in Ids :
             /\ IsReminder(i) /\ jobs[i].root = jobs[j].root
             /\ jobs[i].state \in {"live", "over", "dropped"}

\* "We never leave an enabled row with no schedule" (automations.ts:290-292):
\* however edits and deletions of it overlap and whichever of their steps fails,
\* an enabled automation has its schedule, unless a run found the workspace gone
\* or a call that has cancelled it is still to write the row.
EnabledHasJob ==
    crashes = 0 =>
       \A r \in RowIds :
          There(r) /\ rows[r].enabled =>
             \/ jobs[rows[r].sid].state \in {"live", "dropped"}
             \/ \E c \in Calls :
                   /\ call[c].row = r
                   /\ call[c].at \in {"clearing", "unwinding", "removing"}

\* The live schedules of r that no call is still busy with.
Loose(r) ==
    {j \in Ids : Live(j) /\ jobs[j].row = r /\ \A c \in Calls : call[c].new # j}
Named(r) == IF There(r) THEN {rows[r].sid} ELSE {}

\* No edit leaves "the old job firing with no reference to cancel it"
\* (automations.ts:359-362), whichever of its steps throws: while calls on an
\* automation come one after another, the schedule its row names is its only
\* one.  Deletion ignores a schedule it cannot cancel, and is excepted.
NoOrphanJob ==
    crashes = 0 =>
       \A r \in RowIds \ disturbed : Loose(r) \subseteq Named(r)

\* A line of reminders has one end, whichever step of a replacement fails.
OneOfEachLine == ReplacedOnce /\ NeverLost

\* An automation and its schedule name each other, whichever step of an edit
\* throws.
RowNamesItsJob == TypeOK /\ EnabledHasJob /\ NoOrphanJob

\* A DM goes to the automation's owner: an admin who edits it, at whatever
\* moment, does not redirect it to themselves (automations.ts:345-355).
DmReachesOwner ==
    /\ \A r \in RowIds : rows[r].to \in {Nobody, rows[r].by}
    /\ \A j \in Ids : jobs[j].to \in {Nobody, jobs[j].by}
=============================================================================
