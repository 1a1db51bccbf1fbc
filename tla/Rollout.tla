------------------------------ MODULE Rollout ------------------------------
(***************************************************************************)
(* The rollout of the agent into the public channels of a Slack workspace  *)
(* (slack/public-channel-rollout.ts).                                      *)
(*                                                                         *)
(* A run is a row that a chain of one-second schedules drives: each        *)
(* callback does one unit of work of the phase and schedules the next.     *)
(* The platform runs callbacks one at a time and removes a one-shot's      *)
(* schedule when its callback has ended; one that an eviction cut runs     *)
(* again.  An admin's click begins a run unless one is running, and so,    *)
(* five minutes after the install, does the beachhead, in two channels     *)
(* only.  Callbacks and clicks interleave at their awaits:                 *)
(*   working    the workspace and the call of the unit                     *)
(*   posted     an introduction or the read-out is in Slack                *)
(*   next       the card is redrawn, the next schedule is made             *)
(*   returning  everything is done but the end of the callback             *)
(*   retrying   the unit threw and its retry is scheduled                  *)
(*   asked      a click looks up the workspace and the member              *)
(*   picking    the beachhead looks for its channels                       *)
(*   beginning  the row is there, its first schedule is not                *)
(***************************************************************************)
EXTENDS Naturals, FiniteSets

CONSTANTS
    Channels,       \* the eligible channels; numbers, in the order of names
    Picks,          \* the busiest, which the beachhead chooses
    Clicks,         \* clicks of an admin that may be open at the same time
    StageAttempts,  \* MAX_STAGE_ATTEMPTS
    RunFailures,    \* MAX_RUN_FAILURES
    MaxRuns,        \* runs (bound of the model)
    MaxSetbacks,    \* rate limits, errors, further pages and waits (bound)
    MaxCrashes      \* evictions (bound of the model)

ASSUME RolloutAssumption ==
    /\ Channels \subseteq Nat /\ IsFiniteSet(Channels) /\ Picks \subseteq Channels
    /\ {StageAttempts, RunFailures} \subseteq Nat \ {0}
    /\ {MaxRuns, MaxSetbacks, MaxCrashes} \subseteq Nat

VARIABLES
    run,       \* brain_public_channel_rollout: the one row, of the newest run
    rows,      \* brain_public_channel_rollout_channel and what hangs on it
    ledger,    \* brain_public_channel_introduction, with or without themes
    member,    \* Slack: the channels the bot is in
    shown,     \* Slack: the runs that introduced it in a channel
    readouts,  \* Slack: the runs whose read-out is in the home channel
    steps,     \* schedules of each run, the one whose callback runs included
    beach,     \* the schedule of the beachhead is there
    alarm,     \* the callback that runs
    click,     \* the clicks
    issued,    \* runs that have begun
    cut,       \* those that were left without a schedule (history)
    setbacks,
    crashes

tables == <<run, rows, ledger>>
slack == <<member, shown, readouts>>
vars == <<run, rows, ledger, member, shown, readouts, steps, beach, alarm, click,
          issued, cut, setbacks, crashes>>

RunIds == 1..MaxRuns
NoRun == [id |-> 0, status |-> "none", phase |-> "discover", fail |-> 0, filter |-> FALSE]
Idle == [pc |-> "idle", id |-> 0, fail |-> 0]

\* A channel that has no row yet.
NoRow == [stage |-> "none", join |-> "pending", tries |-> 0, introduced |-> FALSE,
          themeOnly |-> FALSE, was |-> FALSE, themes |-> FALSE, docs |-> FALSE]

Init ==
    /\ run = NoRun
    /\ rows = [c \in Channels |-> NoRow]
    /\ ledger = [c \in Channels |-> "none"]
    /\ member \in SUBSET (Channels \ Picks)
    /\ shown = [c \in Channels |-> {}]
    /\ readouts = {}
    /\ steps = [n \in RunIds |-> 0]
    /\ beach = TRUE
    /\ alarm = Idle
    /\ click = [k \in Clicks |-> Idle]
    /\ issued = 0 /\ cut = {}
    /\ setbacks = 0 /\ crashes = 0

Running(n) == run.id = n /\ run.status = "running"

\* What goes wrong, or takes another round.
Setback == setbacks < MaxSetbacks /\ setbacks' = setbacks + 1

-----------------------------------------------------------------------------
(* A run begins *)

\* beginRolloutRun up to its first await: the row of the last run and its
\* channels are replaced, whatever became of it.
Begin(filter) ==
    /\ issued < MaxRuns
    /\ issued' = issued + 1
    /\ run' = [id |-> issued + 1, status |-> "running", phase |-> "discover",
               fail |-> 0, filter |-> filter]
    /\ rows' = [c \in Channels |-> NoRow]
    /\ UNCHANGED ledger

\* An admin presses the button.
Press(k) ==
    /\ click[k].pc = "idle"
    /\ issued < MaxRuns
    /\ click' = [click EXCEPT ![k].pc = "asked"]
    /\ UNCHANGED <<tables, slack, steps, beach, alarm, issued, cut, setbacks, crashes>>

\* startPublicChannelRollout: the row is read when every lookup is over.
StartRun(k) ==
    /\ click[k].pc = "asked"
    /\ \/ /\ click' = [click EXCEPT ![k] = Idle]
          /\ UNCHANGED <<tables, issued>>
       \/ /\ run.status # "running"
          /\ Begin(FALSE)
          /\ click' = [click EXCEPT ![k] = [pc |-> "beginning", id |-> issued + 1, fail |-> 0]]
    /\ UNCHANGED <<slack, steps, beach, alarm, cut, setbacks, crashes>>

\* The profile is synchronised, the card redrawn, the first step scheduled; or
\* one of them throws.
Started(k) ==
    /\ click[k].pc = "beginning"
    /\ \/ /\ steps' = [steps EXCEPT ![click[k].id] = @ + 1]
          /\ UNCHANGED <<cut, setbacks>>
       \/ Setback /\ cut' = cut \cup {click[k].id} /\ UNCHANGED steps
    /\ click' = [click EXCEPT ![k] = Idle]
    /\ UNCHANGED <<tables, slack, beach, alarm, issued, crashes>>

\* The beachhead is due: it looks for a run before its awaits.
FireBeachhead ==
    /\ alarm.pc = "idle" /\ beach
    /\ IF run.status = "none"
       THEN alarm' = [Idle EXCEPT !.pc = "picking"] /\ UNCHANGED beach
       ELSE beach' = FALSE /\ UNCHANGED alarm
    /\ UNCHANGED <<tables, slack, steps, click, issued, cut, setbacks, crashes>>

\* Its channels and its actor are known, or it gives up.
Picked ==
    /\ alarm.pc = "picking"
    /\ \/ /\ alarm' = Idle /\ beach' = FALSE
          /\ UNCHANGED <<tables, issued>>
       \/ /\ Begin(TRUE)
          /\ alarm' = [pc |-> "beginning", id |-> issued + 1, fail |-> 0]
          /\ UNCHANGED beach
    /\ UNCHANGED <<slack, steps, click, cut, setbacks, crashes>>

BeachheadStarted ==
    /\ alarm.pc = "beginning"
    /\ \/ /\ steps' = [steps EXCEPT ![alarm.id] = @ + 1]
          /\ UNCHANGED <<cut, setbacks>>
       \/ Setback /\ cut' = cut \cup {alarm.id} /\ UNCHANGED steps
    /\ alarm' = Idle /\ beach' = FALSE
    /\ UNCHANGED <<tables, slack, click, issued, crashes>>

-----------------------------------------------------------------------------
(* A step: runPublicChannelRollout *)

Ended(n) == steps' = [steps EXCEPT ![n] = @ - 1]
Goes(pc) == alarm' = [alarm EXCEPT !.pc = pc]

\* A step of a run that is not the current one, or not running, does nothing;
\* nor where the organisation may not run the agent any more.  While that is
\* looked up nobody changes a run that is running.
Fire(n) ==
    /\ alarm.pc = "idle" /\ steps[n] > 0
    /\ \/ /\ ~Running(n)
          /\ Ended(n) /\ UNCHANGED <<run, alarm, cut, setbacks>>
       \/ /\ Running(n)
          /\ alarm' = [pc |-> "working", id |-> n, fail |-> run.fail]
          /\ UNCHANGED <<run, steps, cut, setbacks>>
       \/ /\ Running(n)
          /\ run' = [run EXCEPT !.status = "failed"]
          /\ Ended(n) /\ UNCHANGED <<alarm, cut, setbacks>>
       \/ /\ Running(n)                \* the lookup throws, outside the try
          /\ Setback /\ cut' = cut \cup {n}
          /\ Ended(n) /\ UNCHANGED <<run, alarm>>
    /\ UNCHANGED <<rows, ledger, slack, beach, click, issued, crashes>>

\* A unit that changes the rows, in its phase, and goes on.
Unit(phase) ==
    /\ alarm.pc = "working" /\ run.phase = phase
    /\ Goes("next")
    /\ UNCHANGED <<steps, beach, click, issued, cut, crashes>>
Moves(phase) == run' = [run EXCEPT !.phase = phase] /\ UNCHANGED rows
Sets(c, row) == rows' = [rows EXCEPT ![c] = row] /\ UNCHANGED run

\* The first channel, by name, of those that wait for something.
First(S) == CHOOSE c \in S : \A d \in S : c <= d

\* Slack limits the rate, or memory is not done: the same again later.
Again ==
    /\ alarm.pc = "working"
    /\ Setback /\ Goes("next")
    /\ UNCHANGED <<tables, slack, steps, beach, click, issued, cut, crashes>>

\* Bugs: the ledger is not asked; a channel is read again where the bot is not.
DiscoveredAnew(c) == [NoRow EXCEPT !.was = c \in member, !.stage = "history"]
DiscoveredAnywhere(c) ==
    LET known == ~run.filter /\ ledger[c] # "none"
        bare == known /\ ledger[c] = "bare"
    IN [NoRow EXCEPT
          !.was = c \in member, !.introduced = known, !.themeOnly = bare,
          !.join = IF known /\ ~bare THEN "joined" ELSE "pending",
          !.stage = IF known /\ ~bare THEN "done" ELSE "history"]

\* A channel that the ledger knows is read again only for its themes, and only
\* where the bot still is; the beachhead reads all of its own.
Discovered(c) ==
    LET known == ~run.filter /\ ledger[c] # "none"
        bare == known /\ c \in member /\ ledger[c] = "bare"
    IN [NoRow EXCEPT
          !.was = c \in member, !.introduced = known, !.themeOnly = bare,
          !.join = IF known /\ ~bare THEN "joined" ELSE "pending",
          !.stage = IF known /\ ~bare THEN "done" ELSE "history"]


\* discoverStep: the channels of a page get their rows, but for those that have
\* one; it is the last page or not.
Discover ==
    LET new == {c \in Channels : rows[c].stage = "none" /\ (run.filter => c \in Picks)}
        With(page) == [c \in Channels |-> IF c \in page THEN Discovered(c) ELSE rows[c]]
    IN /\ Unit("discover")
       /\ \/ /\ rows' = With(new)
             /\ run' = [run EXCEPT !.phase = "join"]
             /\ UNCHANGED setbacks
          \/ /\ \E page \in SUBSET new : rows' = With(page)
             /\ Setback /\ UNCHANGED run
       /\ UNCHANGED <<ledger, slack>>

\* An attempt at the row's stage has failed, the last one or not.
Failed(row, last) ==
    [row EXCEPT !.tries = @ + 1,
                !.stage = IF last THEN "failed" ELSE @,
                !.join = IF last /\ @ = "pending" THEN "failed" ELSE @]
FailedAt(c) ==
    /\ Sets(c, Failed(rows[c], rows[c].tries + 1 >= StageAttempts))
    /\ Setback

\* joinStep.  Slack may have let the bot in although its answer is an error or
\* never arrives.
Pending == {c \in Channels : rows[c].stage # "none" /\ rows[c].join = "pending"}
JoinArrives ==
    /\ alarm.pc = "working" /\ run.phase = "join" /\ Pending # {}
    /\ ~rows[First(Pending)].was
    /\ member' = member \cup {First(Pending)}
    /\ UNCHANGED <<tables, shown, readouts, steps, beach, alarm, click, issued, cut,
                   setbacks, crashes>>
Join ==
    LET c == First(Pending)
    IN /\ Unit("join")
       /\ \/ Pending = {} /\ Moves("collect") /\ UNCHANGED setbacks
          \/ /\ Pending # {} /\ (rows[c].was \/ c \in member)
             /\ Sets(c, [rows[c] EXCEPT !.join = "joined", !.tries = 0])
             /\ UNCHANGED setbacks
          \/ Pending # {} /\ ~rows[c].was /\ FailedAt(c)
          \/ /\ Pending # {} /\ ~rows[c].was      \* missing_scope
             /\ Sets(c, Failed(rows[c], TRUE)) /\ Setback
       /\ UNCHANGED <<ledger, slack>>

\* collectStep: the history, the threads, the packing and the documents of one
\* channel after the other.
Collecting ==
    {c \in Channels : rows[c].join = "joined"
                      /\ rows[c].stage \in {"history", "threads", "package", "enqueue"}}
Stage(c, stage) == Sets(c, [rows[c] EXCEPT !.stage = stage, !.tries = 0])
Read(c) ==
    /\ rows[c].stage \in {"history", "threads"}
    /\ \/ /\ Stage(c, IF rows[c].stage = "history" THEN "threads" ELSE "package")
          /\ UNCHANGED setbacks
       \/ Stage(c, rows[c].stage) /\ Setback
       \/ FailedAt(c)
    /\ UNCHANGED ledger

\* A bug: the channel is left at its stage.
ThemedOnly(c, found) ==
    /\ ledger' = [ledger EXCEPT ![c] = IF @ = "none" THEN @
                                       ELSE IF found THEN "themed" ELSE "bare"]
    /\ UNCHANGED <<run, rows>>

\* packageChannel: where only the themes were wanted they go to the ledger and
\* the channel is done.
Themed(c, found) ==
    /\ Sets(c, [rows[c] EXCEPT !.stage = "done", !.themes = found, !.tries = 0])
    /\ ledger' = [ledger EXCEPT ![c] = IF @ = "none" THEN @
                                       ELSE IF found THEN "themed" ELSE "bare"]

Package(c) ==
    /\ rows[c].stage = "package"
    /\ \E found \in BOOLEAN :
          IF rows[c].themeOnly
          THEN Themed(c, found)
          ELSE /\ \E docs \in BOOLEAN :
                     Sets(c, [rows[c] EXCEPT !.stage = "enqueue", !.themes = found,
                                             !.docs = docs, !.tries = 0])
               /\ UNCHANGED ledger
    /\ UNCHANGED setbacks
Submit(c) ==
    /\ rows[c].stage = "enqueue"
    /\ \/ /\ rows[c].docs
          /\ Sets(c, [rows[c] EXCEPT !.docs = FALSE, !.tries = 0])
          /\ UNCHANGED setbacks
       \/ rows[c].docs /\ FailedAt(c)
       \/ ~rows[c].docs /\ Stage(c, "crosscheck") /\ UNCHANGED setbacks
    /\ UNCHANGED ledger
Collect ==
    LET c == First(Collecting)
    IN /\ Unit("collect")
       /\ \/ Collecting = {} /\ Moves("crosscheck") /\ UNCHANGED <<ledger, setbacks>>
          \/ Collecting # {} /\ (Read(c) \/ Package(c) \/ Submit(c))
       /\ UNCHANGED slack

\* crosscheckStep, of at most eight channels.
Crosscheck ==
    LET S == {c \in Channels : rows[c].stage = "crosscheck"}
    IN /\ Unit("crosscheck")
       /\ IF S = {}
          THEN Moves("introduce")
          ELSE /\ rows' = [c \in Channels |-> IF c \in S THEN [rows[c] EXCEPT !.stage = "wait_memory"]
                                              ELSE rows[c]]
               /\ UNCHANGED run
       /\ UNCHANGED <<ledger, slack, setbacks>>

\* introduceStep.  The introduction may be in Slack although its answer is an
\* error or never arrives; Slack shows one client_msg_id once.  (A row that the
\* ledger knew never waits for its memory.)
Waiting == {c \in Channels : rows[c].stage = "wait_memory"}
IntroArrives ==
    /\ alarm.pc = "working" /\ run.phase = "introduce" /\ Waiting # {}
    /\ shown' = [shown EXCEPT ![First(Waiting)] = @ \cup {run.id}]
    /\ UNCHANGED <<tables, member, readouts, steps, beach, alarm, click, issued, cut,
                   setbacks, crashes>>
Introduce ==
    LET c == First(Waiting)
    IN /\ Unit("introduce") /\ Waiting # {}
       /\ \/ /\ run.id \in shown[c]
             /\ ledger' = [ledger EXCEPT ![c] = IF rows[c].themes THEN "themed" ELSE "bare"]
             /\ Stage(c, "done")
             /\ UNCHANGED setbacks
          \/ FailedAt(c) /\ UNCHANGED ledger
          \/ /\ Sets(c, [rows[c] EXCEPT !.stage = "failed"])  \* its memory failed
             /\ Setback /\ UNCHANGED ledger
       /\ UNCHANGED slack

\* Every channel is done: postBeachheadReadout, then the run is done.
HasReadout == run.filter /\ \E c \in Channels : rows[c].stage = "done" /\ rows[c].themes
ReadoutArrives ==
    /\ alarm.pc = "working" /\ run.phase = "introduce" /\ Waiting = {} /\ HasReadout
    /\ readouts' = readouts \cup {run.id}
    /\ UNCHANGED <<tables, member, shown, steps, beach, alarm, click, issued, cut,
                   setbacks, crashes>>
\* A bug: the read-out is posted when the run is done.
DeliveredLater == TRUE

Delivered == HasReadout => run.id \in readouts

Finish ==
    /\ alarm.pc = "working" /\ run.phase = "introduce" /\ Waiting = {} /\ Delivered
    /\ run' = [run EXCEPT !.status = "done", !.fail = 0]
    /\ Goes("last")
    /\ UNCHANGED <<rows, ledger, slack, steps, beach, click, issued, cut, setbacks, crashes>>

-----------------------------------------------------------------------------
(* The end of a step *)

\* The card is redrawn where the phase has changed, scheduleNext inserts.
Scheduled ==
    /\ alarm.pc = "next"
    /\ steps' = [steps EXCEPT ![alarm.id] = @ + 1]
    /\ Goes("returning")
    /\ UNCHANGED <<tables, slack, beach, click, issued, cut, setbacks, crashes>>

Return ==
    /\ alarm.pc \in {"returning", "over", "last"}
    /\ run' = IF alarm.pc = "returning" /\ Running(alarm.id)
              THEN [run EXCEPT !.fail = 0] ELSE run
    /\ Ended(alarm.id) /\ alarm' = Idle
    /\ UNCHANGED <<rows, ledger, slack, beach, click, issued, cut, setbacks, crashes>>

\* A call of the unit, of the card or of the platform throws: the failures are
\* those the callback read when it began.
Throws ==
    LET fail == alarm.fail + 1
    IN /\ alarm.pc \in {"working", "next", "last"}
       /\ Setback
       /\ IF fail >= RunFailures
          THEN /\ run' = IF run.id = alarm.id
                         THEN [run EXCEPT !.status = "failed", !.fail = fail] ELSE run
               /\ Goes("over")
          ELSE /\ run' = IF run.id = alarm.id THEN [run EXCEPT !.fail = fail] ELSE run
               /\ Goes("retrying")
       /\ UNCHANGED <<rows, ledger, slack, steps, beach, click, issued, cut, crashes>>

\* A bug: nothing is scheduled.
RetriedNever ==
    /\ alarm.pc = "retrying"
    /\ Goes("over")
    /\ UNCHANGED <<tables, slack, steps, beach, click, issued, cut, setbacks, crashes>>

\* The retry is scheduled, or that throws too.
Retried ==
    /\ alarm.pc = "retrying"
    /\ \/ /\ steps' = [steps EXCEPT ![alarm.id] = @ + 1]
          /\ Goes("over")
          /\ UNCHANGED <<cut, setbacks>>
       \/ /\ Setback
          /\ cut' = cut \cup {alarm.id}
          /\ Ended(alarm.id) /\ alarm' = Idle
    /\ UNCHANGED <<tables, slack, beach, click, issued, crashes>>

-----------------------------------------------------------------------------
(* The object is evicted: its callback runs again, a begun run that has no *)
(* schedule yet gets none.                                                 *)
Crash ==
    /\ crashes < MaxCrashes
    /\ crashes' = crashes + 1
    /\ cut' = cut \cup {click[k].id : k \in {j \in Clicks : click[j].pc = "beginning"}}
                  \cup {n \in {alarm.id} : alarm.pc = "beginning"}
    /\ alarm' = Idle
    /\ click' = [k \in Clicks |-> Idle]
    /\ UNCHANGED <<tables, slack, steps, beach, issued, setbacks>>

\* Somebody removes the bot from a channel.
Removed(c) ==
    /\ c \in member
    /\ Setback
    /\ member' = member \ {c}
    /\ UNCHANGED <<tables, shown, readouts, steps, beach, alarm, click, issued, cut, crashes>>

Work ==
    \/ \E n \in RunIds : Fire(n)
    \/ Discover \/ JoinArrives \/ Join \/ Collect \/ Crosscheck
    \/ IntroArrives \/ Introduce \/ ReadoutArrives \/ Finish
    \/ Scheduled \/ Return \/ Retried

Trouble == Again \/ Throws

Next ==
    \/ \E k \in Clicks : Press(k) \/ StartRun(k) \/ Started(k)
    \/ FireBeachhead \/ Picked \/ BeachheadStarted
    \/ Work \/ Trouble
    \/ Crash \/ \E c \in Channels : Removed(c)

Spec == Init /\ [][Next]_vars

\* Callbacks run when they are due and calls are answered; nobody has to press.
Fairness ==
    /\ WF_vars(Work) /\ WF_vars(Picked) /\ WF_vars(BeachheadStarted)
    /\ \A k \in Clicks : WF_vars(Started(k))

FairSpec == Spec /\ Fairness

-----------------------------------------------------------------------------
(* Properties *)

\* The shape of the state.
Phases == {"discover", "join", "collect", "crosscheck", "introduce"}
RunType == [id : 0..MaxRuns, status : {"none", "running", "done", "failed"},
            phase : Phases, fail : 0..RunFailures, filter : BOOLEAN]
RowType ==
    [stage : {"none", "history", "threads", "package", "enqueue", "crosscheck",
              "wait_memory", "done", "failed"},
     join : {"pending", "joined", "failed"}, tries : 0..StageAttempts, introduced : BOOLEAN,
     themeOnly : BOOLEAN, was : BOOLEAN, themes : BOOLEAN, docs : BOOLEAN]
AlarmType ==
    [pc : {"idle", "picking", "beginning", "working", "next", "returning", "retrying",
           "last", "over"},
     id : 0..MaxRuns, fail : 0..RunFailures - 1]
ClickType == [pc : {"idle", "asked", "beginning"}, id : 0..MaxRuns, fail : {0}]
TypeOK ==
    /\ run \in RunType
    /\ rows \in [Channels -> RowType]
    /\ ledger \in [Channels -> {"none", "bare", "themed"}]
    /\ member \in SUBSET Channels
    /\ shown \in [Channels -> SUBSET RunIds] /\ readouts \in SUBSET RunIds
    /\ steps \in [RunIds -> Nat]
    /\ beach \in BOOLEAN
    /\ alarm \in AlarmType
    /\ click \in [Clicks -> ClickType]
    /\ issued \in 0..MaxRuns /\ cut \in SUBSET RunIds

\* A running run has its next step, whatever a step meets and wherever it is
\* evicted ("resume after eviction or rate limiting", docs/spec.md:293), unless it
\* was cut before its first step or by a call outside the try.
Beginning(n) ==
    \/ alarm.pc = "beginning" /\ alarm.id = n
    \/ \E k \in Clicks : click[k].pc = "beginning" /\ click[k].id = n
HasNextStep ==
    run.status = "running" => run.id \in cut \/ steps[run.id] > 0 \/ Beginning(run.id)

\* A beachhead that is done has delivered its read-out
\* (public-channel-rollout.ts:1790-1793).
ReadoutFirst == run.status = "done" /\ HasReadout => run.id \in readouts

\* A run goes on until its work is delivered, whatever callbacks, evictions,
\* failures and clicks come in between.
RunGoesOn == TypeOK /\ HasNextStep /\ ReadoutFirst

\* What the ledger knows holds for every later run of the workspace, whatever
\* clicks, evictions and failed runs come between: a channel in it is not
\* introduced again, and where the bot was removed it is not joined again
\* (docs/spec.md:294, 327; public-channel-rollout.ts:1276-1281).
LedgerRespected ==
    [][\A c \in Channels :
         ledger[c] # "none" /\ ~run.filter =>
             shown'[c] = shown[c] /\ (c \in member' => c \in member)]_vars

\* No run goes on for ever, with the same exception as above.
EveryRunEnds == []<>(run.status # "running" \/ run.id \in cut)
=============================================================================
