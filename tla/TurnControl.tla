---------------------------- MODULE TurnControl ----------------------------
(***************************************************************************)
(* The state of one Slack thread as kept by the Durable Object, and the    *)
(* operations every handler uses to read and change it:                    *)
(*   slack/turn-control.ts   the row of brain_thread_turn and the          *)
(*                           in-memory controller of the running turn      *)
(*   slack/turn-inbox.ts     the rows of brain_thread_turn_update          *)
(* Every query and every map access of those files is keyed by the thread, *)
(* so one thread is modelled.  A turn id is drawn afresh with every new    *)
(* revision and never apart from it, so the revision alone stands for the  *)
(* pair (turn_id, revision) that the code compares.                        *)
(* The SQL calls and the map accesses are synchronous: an operator here is *)
(* a value computed from the state (no primes) or a conjunct of the        *)
(* caller's action, and the caller's action ends where the code awaits.    *)
(***************************************************************************)
EXTENDS Naturals, Sequences, FiniteSets

CONSTANTS
    Msgs,       \* explicit Slack messages of the thread (mentions, DMs)
    Clicks,     \* presses of an Approve or Deny button
    Author,     \* the user who wrote each message
    Text,       \* the normalised text of each message
    StopTexts,  \* the texts classifyTurnSteering reads as "stop"
    NoUser      \* the asker of a thread that has had no turn

\* The owner of a controller that does not exist.
NoProc == "none"

ASSUME ThreadAssumption ==
    /\ Msgs \cap Clicks = {}
    /\ NoProc \notin Msgs \cup Clicks
    /\ DOMAIN Author = Msgs
    /\ DOMAIN Text = Msgs

\* The handlers that can run a turn: one per message, one per click.
Procs == Msgs \cup Clicks
Users == {Author[m] : m \in Msgs} \cup {NoUser}

VARIABLES
    turn,     \* the row of brain_thread_turn; revision 0: no row
    active,   \* activeTurns.get(threadKey): revision and owner; 0: no entry
    aborted,  \* the handlers whose controller has been aborted
    inbox     \* per message its row of brain_thread_turn_update

controlVars == <<turn, active, aborted, inbox>>

Terminal == {"completed", "cancelled", "superseded"}
TurnStatus == {"none", "running", "waiting_approval", "finalizing"} \cup Terminal
UpdateStatus == {"none", "classifying", "pending", "applied", "ignored"}

\* aged: fifteen minutes have passed since updated_at.
Row == [rev : Nat, status : TurnStatus, asker : Users, aged : BOOLEAN]
NoRow == [rev |-> 0, status |-> "none", asker |-> NoUser, aged |-> FALSE]
NoActive == [rev |-> 0, proc |-> NoProc]
NoUpdate == [rev |-> 0, status |-> "none"]

-----------------------------------------------------------------------------
(* Reading the row *)

\* Mutant of IsSteerable: a claimed turn can still be steered.
IsSteerableFinalizing(row) ==
    \/ row.status = "waiting_approval" /\ ~row.aged
    \/ /\ row.status \in {"running", "finalizing"}
       /\ active.rev = row.rev
       /\ active.proc \notin aborted

\* isSteerableThreadTurn: a waiting turn for fifteen minutes, a running one
\* as long as its controller is in memory and has not been aborted.
IsSteerable(row) ==
    \/ row.status = "waiting_approval" /\ ~row.aged
    \/ /\ row.status = "running"
       /\ active.rev = row.rev
       /\ active.proc \notin aborted

\* threadTurnStartExpectation: what a new turn expects to replace.
StartExpectation(row) == [rev |-> row.rev, status |-> row.status]

\* turnMatchesStartExpectation
MatchesStart(expected) ==
    /\ turn.status # "finalizing"
    /\ turn.rev = expected.rev
    /\ turn.status = expected.status

\* isThreadTurnCurrent
IsCurrent(rev) == turn.rev = rev /\ turn.status \notin Terminal

-----------------------------------------------------------------------------
(* Changing the row.  Each of these says what becomes of turn; updated_at  *)
(* is written with every change, so the row is young again.                *)

Stamped(row, status) == [row EXCEPT !.status = status, !.aged = FALSE]

\* Mutant of SetActive: the controller that is replaced is not aborted.
SetActiveSilently(rev, p) ==
    /\ active' = [rev |-> rev, proc |-> p]
    /\ aborted' = aborted \ {p}

\* setActiveTurn: a controller that is replaced is aborted.
SetActive(rev, p) ==
    /\ active' = [rev |-> rev, proc |-> p]
    /\ aborted' = (IF active.rev # 0 /\ active.proc # p
                   THEN aborted \cup {active.proc} ELSE aborted) \ {p}

\* beginThreadTurn, once the expectation matches.
Begin(p, asker) ==
    /\ turn' = [rev |-> turn.rev + 1, status |-> "running",
                asker |-> asker, aged |-> FALSE]
    /\ SetActive(turn.rev + 1, p)

\* resumeThreadTurn, once the turn is known to be current.
ResumeTurn(p) ==
    /\ turn' = Stamped(turn, "running")
    /\ SetActive(turn.rev, p)

\* markThreadTurnWaitingForApproval, once the turn is known to be current:
\* the controller is dropped without being aborted.
MarkWaiting ==
    /\ active' = NoActive
    /\ turn' = IF turn.status = "waiting_approval" THEN turn
               ELSE Stamped(turn, "waiting_approval")
    /\ UNCHANGED aborted

\* Mutants of MarkCompleted: the controller stays in the map; only a running
\* row is completed.
MarkCompletedKeepsController(rev) ==
    /\ turn' = IF IsCurrent(rev) THEN Stamped(turn, "completed") ELSE turn
    /\ UNCHANGED <<active, aborted>>
MarkCompletedRunning(rev) ==
    IF turn.rev = rev /\ turn.status = "running"
    THEN /\ turn' = Stamped(turn, "completed")
         /\ active' = NoActive
         /\ UNCHANGED aborted
    ELSE UNCHANGED <<turn, active, aborted>>

\* markThreadTurnCompleted
MarkCompleted(rev) ==
    IF IsCurrent(rev)
    THEN /\ turn' = Stamped(turn, "completed")
         /\ active' = NoActive
         /\ UNCHANGED aborted
    ELSE UNCHANGED <<turn, active, aborted>>

\* reapUnfinishedThreadTurn
Reap(rev) ==
    IF turn.rev = rev /\ turn.status = "running"
    THEN MarkCompleted(rev)
    ELSE UNCHANGED <<turn, active, aborted>>

\* Mutant of AbortActive: the controller is dropped without being aborted.
AbortActiveSilently(rev) ==
    /\ active' = IF active.rev = rev /\ rev # 0 THEN NoActive ELSE active
    /\ UNCHANGED aborted

\* The revisions whose controller interruptThreadTurn and
\* settleInterruptedThreadTurn find in memory are removed and aborted.
AbortActive(rev) ==
    IF active.rev = rev /\ rev # 0
    THEN active' = NoActive /\ aborted' = aborted \cup {active.proc}
    ELSE UNCHANGED <<active, aborted>>

\* interruptThreadTurn on a steerable row
Interrupt(status) ==
    /\ turn' = Stamped(turn, status)
    /\ AbortActive(turn.rev)

\* settleInterruptedThreadTurn: completeInterruptedThreadTurn and
\* supersedeInterruptedThreadTurn, on behalf of a recovered handler.
CanSettle(rev) ==
    /\ turn.rev = rev
    /\ turn.status \in {"running", "waiting_approval", "finalizing"}
SettleInterrupted(status) ==
    /\ turn' = Stamped(turn, status)
    /\ AbortActive(turn.rev)

-----------------------------------------------------------------------------
(* The inbox *)

UpdatesOf(rev, statuses) ==
    {m \in Msgs : inbox[m].rev = rev /\ inbox[m].status \in statuses}

\* Mutant of InboxEmpty: an update at the gate does not count.
InboxEmptyPending(rev) == UpdatesOf(rev, {"pending"}) = {}

\* The NOT EXISTS clause of the two claims.
InboxEmpty(rev) == UpdatesOf(rev, {"classifying", "pending"}) = {}

\* hasClassifyingTurnUpdates
HasClassifying(rev) == UpdatesOf(rev, {"classifying"}) # {}

\* consumePendingTurnUpdates
Consumed(box, rev) ==
    [m \in Msgs |-> IF box[m].rev = rev /\ box[m].status = "pending"
                    THEN [box[m] EXCEPT !.status = "applied"] ELSE box[m]]

\* The fail-open end of waitForTurnUpdateClassification: after ten seconds
\* whatever is still being classified becomes a pending update.
FailedOpen(box, rev) ==
    [m \in Msgs |-> IF box[m].rev = rev /\ box[m].status = "classifying"
                    THEN [box[m] EXCEPT !.status = "pending"] ELSE box[m]]

\* How waitForTurnUpdateClassification can end: every row is classified, or
\* the deadline has passed.  box is the inbox it leaves.
ClassificationOver(rev, box) ==
    \/ ~HasClassifying(rev) /\ box = inbox
    \/ HasClassifying(rev) /\ box = FailedOpen(inbox, rev)

\* The rows reserveTurnUpdate compares the text with.
SameInstruction(m, rev) ==
    \E n \in UpdatesOf(rev, {"classifying", "pending", "applied"}) :
        n # m /\ Author[n] = Author[m] /\ Text[n] = Text[m]

\* Mutant of ClaimFinalization: the claim does not look at the inbox.
ClaimFinalizationBlind(rev) ==
    /\ turn.rev = rev
    /\ turn.status = "running"
    /\ turn' = Stamped(turn, "finalizing")
    /\ UNCHANGED <<active, aborted>>

\* claimThreadTurnFinalizationIfInboxEmpty
ClaimFinalization(rev) ==
    /\ turn.rev = rev
    /\ turn.status = "running"
    /\ InboxEmpty(rev)
    /\ turn' = Stamped(turn, "finalizing")
    /\ UNCHANGED <<active, aborted>>

\* claimThreadTurnApprovalIfInboxEmpty
ClaimApproval(rev) ==
    /\ turn.rev = rev
    /\ turn.status = "running"
    /\ InboxEmpty(rev)
    /\ turn' = Stamped(turn, "waiting_approval")
    /\ UNCHANGED <<active, aborted>>
=============================================================================
