----------------------------- MODULE ThreadTurn -----------------------------
(***************************************************************************)
(* One Slack thread: the fibers that handle its explicit messages, the     *)
(* runs of the model they start, the approvals those runs ask for, the     *)
(* clicks that decide them, eviction of the Durable Object and the         *)
(* recovery of its fibers.                                                 *)
(*                                                                         *)
(* The object runs one piece of JavaScript at a time and interleaves only  *)
(* at an await, so each action is the code between two awaits and pc names *)
(* the await a handler is parked at:                                       *)
(*   intake        workspace, member and entitlement lookups               *)
(*   finalWait     waitForThreadTurnFinalization                           *)
(*   gate          triageActiveTurnMessage                                 *)
(*   prep          thread history, directory, triage, before the turn row  *)
(*   compute       the model loop                                          *)
(*   settle        the model's output is being read                        *)
(*   claimWait     claimFinalReply waits for a classification              *)
(*   approvalWait  the approval claim waits for a classification           *)
(*   suspend       the approval claim is made, computeTurn not yet back    *)
(*   publish       the final claim is made, computeTurn not yet back       *)
(*   post          stream.finalize, the reply not yet in Slack             *)
(*   posted        the reply is in Slack, its ts not yet checkpointed      *)
(*   writeback     writeMemories                                           *)
(*   card          the progress card is closed before the approval card    *)
(*   cardPosted    the approval card is in Slack, its ts not yet stored    *)
(*   cardFailed    the fallback note for a card Slack refused              *)
(*   tail          schedule and reaction calls after a suspended run       *)
(*   clickWait     a click waits for a classification                      *)
(*   lookup        workspace and actor of a click                          *)
(*   decided       entitlement of a click                                  *)
(*   execute       the resumed run, its approved tool not yet called       *)
(*   lost          evicted, the fiber waits to be recovered                *)
(*   recoverPost   finalizeInterruptedSlackTurn before its message         *)
(***************************************************************************)
EXTENDS TurnControl

CONSTANTS
    Asking,       \* handlers whose run may ask for an approval
    MaxCrashes,   \* evictions of the object (bound of the model)
    SlackDrops    \* whether a request that posts to Slack may be rejected

ASSUME RunAssumption ==
    /\ Asking \subseteq Procs
    /\ MaxCrashes \in Nat
    /\ SlackDrops \in BOOLEAN

VARIABLES
    pc,       \* where each handler is parked
    saw,      \* the row a message handler read before it parked: the turn it
              \* waits for (finalWait), activeTurn (gate), startExpectation (prep)
    reply,    \* what a run has to post
    fiber,    \* the stashed SlackTurnFiberSnapshot of each message
    appr,     \* brain_pending_approval, one row per run that suspended
    target,   \* the approval a click decides
    verdict,  \* whether the click approves
    ran,      \* times the action of an approval was executed (history)
    posted,   \* answers in the thread, in order (history)
    crashes   \* evictions so far

rowVars == <<turn, active, aborted>>
handlerVars == <<pc, saw, reply, fiber>>
approvalVars == <<appr, target, verdict, ran>>
history == <<posted, crashes>>
vars == <<controlVars, handlerVars, approvalVars, history>>

RunLabels == {"execute", "compute", "settle", "claimWait", "approvalWait",
              "suspend", "publish"}
MsgLabels == {"new", "intake", "finalWait", "gate", "prep", "lost",
              "recoverPost", "done"}
ClickLabels == {"new", "clickWait", "lookup", "decided", "done"}
PostLabels == {"post", "posted", "writeback", "card", "cardPosted",
               "cardFailed", "tail"}
Labels == RunLabels \cup MsgLabels \cup ClickLabels \cup PostLabels

ApprovalStatus == {"none", "pending", "approved", "denied", "expired",
                   "executed", "cancelled", "error"}
Expectation == [rev : Nat, status : TurnStatus]
Nothing == [rev |-> 0, status |-> "none"]
NewFiber == [rev |-> 0, proposal |-> FALSE, delivered |-> FALSE, attempt |-> 0]
\* The approvals: a run asks for at most one, and a message may run twice,
\* the second time after it was recovered.
Approvals == Procs \X {0, 1}
ApprovalOf(p) == <<p, fiber[p].attempt>>
NoApprovalId == <<NoProc, 0>>
\* card: none, in Slack, or in Slack with its expiry scheduled.
NoApproval == [status |-> "none", rev |-> 0, card |-> "none", late |-> FALSE]

Init ==
    /\ turn = NoRow
    /\ active = NoActive
    /\ aborted = {}
    /\ inbox = [m \in Msgs |-> NoUpdate]
    /\ pc = [p \in Procs |-> "new"]
    /\ saw = [p \in Procs |-> Nothing]
    /\ reply = [p \in Procs |-> "none"]
    /\ fiber = [p \in Procs |-> NewFiber]
    /\ appr = [a \in Approvals |-> NoApproval]
    /\ target = [c \in Clicks |-> NoApprovalId]
    /\ verdict = [c \in Clicks |-> FALSE]
    /\ ran = [a \in Approvals |-> 0]
    /\ posted = <<>>
    /\ crashes = 0

\* The handler parks at its next await, its local state as it was.
At(p, label) == pc' = [pc EXCEPT ![p] = label]
Goto(p, label) == At(p, label) /\ UNCHANGED <<saw, reply, fiber>>
GotoWith(p, label, row) ==
    /\ At(p, label)
    /\ saw' = [saw EXCEPT ![p] = row]
    /\ UNCHANGED <<reply, fiber>>

\* The handler returns: its local state is gone and its fiber is never
\* recovered.
Finish(p) ==
    /\ At(p, "done")
    /\ saw' = [saw EXCEPT ![p] = Nothing]
    /\ reply' = [reply EXCEPT ![p] = "none"]
    /\ fiber' = [fiber EXCEPT ![p] = NewFiber]

\* turnControl of a handler that runs a turn: the revision it began, or that
\* of the approval it resumes.
Ctl(p) == IF p \in Msgs THEN fiber[p].rev ELSE appr[target[p]].rev

-----------------------------------------------------------------------------
(* A message comes in: from the fiber to beginThreadTurn *)

\* onSlackEvent: the fiber is keyed by the event id, so a redelivery of the
\* event is not accepted a second time.
Accept(m) ==
    /\ pc[m] = "new"
    /\ Goto(m, "intake")
    /\ UNCHANGED <<controlVars, approvalVars, history>>

\* Early returns of runSlackTurnInner: no workspace, not a member, not
\* entitled, no answer needed, a connection already continued.
Decline(m) ==
    /\ pc[m] \in {"intake", "prep"}
    /\ Finish(m)
    /\ UNCHANGED <<controlVars, approvalVars, history>>

StopsTurn(m) ==
    /\ IsSteerable(turn)
    /\ Author[m] = turn.asker
    /\ Text[m] \in StopTexts

\* The row is not steerable: it is what the new turn will replace.
SeedFrom(m, row) ==
    GotoWith(m, "prep", StartExpectation(row))

\* reserveTurnUpdate in a steerable turn.  A row of this message from an
\* earlier delivery, or the same text from the same author within thirty
\* seconds, ends the handler; otherwise the message waits for the gate.
Reserve(m, box) ==
    \/ /\ box[m].status # "none"
       /\ inbox' = box
       /\ Finish(m)
    \/ /\ box[m].status = "none"
       /\ SameInstruction(m, turn.rev)
       /\ inbox' = [box EXCEPT ![m] = [rev |-> turn.rev, status |-> "ignored"]]
       /\ Finish(m)
    \/ /\ box[m].status = "none"
       /\ inbox' = [box EXCEPT ![m] = [rev |-> turn.rev, status |-> "classifying"]]
       /\ GotoWith(m, "gate", StartExpectation(turn))

\* One pass of the steering loop up to its next await.  box is the inbox
\* after the reservation of an earlier pass was discarded.
Steer(m, box) ==
    /\ \/ /\ turn.status = "finalizing"
          /\ GotoWith(m, "finalWait", StartExpectation(turn))
          /\ inbox' = box
          /\ UNCHANGED rowVars
       \/ /\ turn.status # "finalizing"
          /\ ~IsSteerable(turn)
          /\ SeedFrom(m, turn)
          /\ inbox' = box
          /\ UNCHANGED rowVars
       \/ /\ StopsTurn(m)
          /\ Interrupt("cancelled")
          /\ Finish(m)
          /\ inbox' = box
       \/ /\ IsSteerable(turn)
          /\ ~StopsTurn(m)
          /\ Reserve(m, box)
          /\ UNCHANGED rowVars
    /\ UNCHANGED <<approvalVars, history>>

\* The steering loop of a first attempt, or of a recovered one whose
\* snapshot has no turn yet.
Arrive(m) ==
    /\ pc[m] = "intake"
    /\ fiber[m].rev = 0
    /\ Steer(m, inbox)

\* A recovered fiber first supersedes the exact turn it had begun; when that
\* turn is over it gives up.
ArriveRecovered(m) ==
    /\ pc[m] = "intake"
    /\ fiber[m].rev # 0
    /\ \/ /\ CanSettle(fiber[m].rev)
          /\ SettleInterrupted("superseded")
          /\ SeedFrom(m, [turn EXCEPT !.status = "superseded"])
       \/ /\ ~CanSettle(fiber[m].rev)
          /\ Finish(m)
          /\ UNCHANGED rowVars
    /\ UNCHANGED <<inbox, approvalVars, history>>

\* Mutants of AwaitFinalization: a row whose turn is alive is taken for an
\* orphan; an orphan is never recovered.
AwaitFinalizationImpatient(m) ==
    /\ pc[m] = "finalWait"
    /\ IF turn.rev = saw[m].rev /\ turn.status = "finalizing"
       THEN /\ turn' = Stamped(turn, "completed")
            /\ SeedFrom(m, Stamped(turn, "completed"))
            /\ UNCHANGED <<active, aborted, inbox, approvalVars, history>>
       ELSE Steer(m, inbox)
AwaitFinalizationForever(m) ==
    /\ pc[m] = "finalWait"
    /\ ~(turn.rev = saw[m].rev /\ turn.status = "finalizing")
    /\ Steer(m, inbox)

\* waitForThreadTurnFinalization: polls until the awaited turn is no longer
\* finalizing; without its controller in memory the row is an orphan.
AwaitFinalization(m) ==
    /\ pc[m] = "finalWait"
    /\ IF turn.rev = saw[m].rev /\ turn.status = "finalizing"
       THEN /\ active.rev # turn.rev
            /\ turn' = Stamped(turn, "completed")
            /\ SeedFrom(m, Stamped(turn, "completed"))
            /\ UNCHANGED <<active, aborted, inbox, approvalVars, history>>
       ELSE Steer(m, inbox)

\* Mutant of Resolve: the gate's outcome is written in the status column.
ResolveOutcome(m, status) ==
    inbox' = IF inbox[m].status = "classifying"
             THEN [inbox EXCEPT ![m].status = "append"] ELSE inbox

\* resolveTurnUpdate
Resolve(m, status) ==
    inbox' = IF inbox[m].status = "classifying"
             THEN [inbox EXCEPT ![m].status = status] ELSE inbox

\* applyActiveTurnPolicy, on the status of the turn before the gate.
GateAction(m, outcome) ==
    CASE outcome = "ignore" -> "ignore"
      [] outcome = "replace" /\ Author[m] = turn.asker -> "restart"
      [] /\ outcome = "append"
         /\ Author[m] = turn.asker
         /\ saw[m].status = "waiting_approval" -> "restart"
      [] OTHER -> "queue"

\* discardTurnUpdateReservation
Discarded(m) ==
    IF inbox[m] = [rev |-> saw[m].rev, status |-> "classifying"]
    THEN [inbox EXCEPT ![m] = NoUpdate] ELSE inbox

\* The gate has answered.  If the turn changed meanwhile the reservation is
\* discarded and the message is steered again.
GateAnswers(m) ==
    /\ pc[m] = "gate"
    /\ IF ~IsSteerable(turn) \/ turn.rev # saw[m].rev
       THEN Steer(m, Discarded(m))
       ELSE /\ \E outcome \in {"ignore", "append", "replace"} :
                 \/ /\ GateAction(m, outcome) = "ignore"
                    /\ Resolve(m, "ignored")
                    /\ Finish(m)
                    /\ UNCHANGED rowVars
                 \/ /\ GateAction(m, outcome) = "queue"
                    /\ Resolve(m, "pending")
                    /\ Finish(m)
                    /\ UNCHANGED rowVars
                 \/ /\ GateAction(m, outcome) = "restart"
                    /\ Resolve(m, "ignored")
                    /\ Interrupt("superseded")
                    /\ SeedFrom(m, Stamped(turn, "superseded"))
            /\ UNCHANGED <<approvalVars, history>>

\* beginThreadTurn.  When the row is not the expected one any more the
\* message is dropped ("skip stale turn start").
BeginTurn(m) ==
    /\ pc[m] = "prep"
    /\ IF MatchesStart(saw[m])
       THEN /\ Begin(m, Author[m])
            /\ fiber' = [fiber EXCEPT ![m].rev = turn.rev + 1]
            /\ saw' = [saw EXCEPT ![m] = Nothing]
            /\ At(m, "compute")
            /\ UNCHANGED reply
       ELSE Finish(m) /\ UNCHANGED rowVars
    /\ UNCHANGED <<inbox, approvalVars, history>>

-----------------------------------------------------------------------------
(* A run of the model: computeTurn for a message, resumeTurnAfterApproval  *)
(* for a click.  Both drain the inbox, ask for approvals and settle alike. *)

\* The handler returns; its wrapper reaps a turn still running.
Leave(p) ==
    /\ Reap(Ctl(p))
    /\ Finish(p)

\* Another pass of the model loop: the updates are consumed and the draft of
\* the previous pass is cleared.
Continue(p, box) ==
    /\ inbox' = Consumed(box, Ctl(p))
    /\ fiber' = IF p \in Msgs THEN [fiber EXCEPT ![p].proposal = FALSE] ELSE fiber
    /\ At(p, "compute")
    /\ UNCHANGED <<saw, reply>>

\* finish_turn may have been called in the step; its proposal is checkpointed.
MayPropose(p) ==
    IF p \in Msgs
    THEN \E b \in BOOLEAN : fiber' = [fiber EXCEPT ![p].proposal = b]
    ELSE UNCHANGED fiber

\* prepareStep consumes the pending updates before a model step.
ModelStep(p) ==
    /\ pc[p] = "compute"
    /\ p \notin aborted
    /\ UpdatesOf(Ctl(p), {"pending"}) # {}
    /\ inbox' = Consumed(inbox, Ctl(p))
    /\ UNCHANGED <<rowVars, handlerVars, approvalVars, history>>

\* The loop ends without an approval request; its output is read.
FinishModel(p) ==
    /\ pc[p] = "compute"
    /\ p \notin aborted
    /\ MayPropose(p)
    /\ At(p, "settle")
    /\ UNCHANGED <<controlVars, saw, reply, approvalVars, history>>

\* The loop ends with an approval request: the turn is claimed for it at
\* once, or after a message being classified has been waited for.
RequestApproval(p) ==
    /\ p \in Asking
    /\ pc[p] = "compute"
    /\ p \notin aborted
    /\ MayPropose(p)
    /\ \/ ClaimApproval(Ctl(p)) /\ At(p, "suspend")
       \/ /\ ~(turn.rev = Ctl(p) /\ turn.status = "running" /\ InboxEmpty(Ctl(p)))
          /\ At(p, "approvalWait")
          /\ UNCHANGED rowVars
    /\ UNCHANGED <<inbox, saw, reply, approvalVars, history>>

\* The second claim; with updates in the inbox the loop goes on instead.
ApprovalWaitOver(p) ==
    /\ pc[p] = "approvalWait"
    /\ p \notin aborted
    /\ \E box \in {inbox, FailedOpen(inbox, Ctl(p))} :
         /\ ClassificationOver(Ctl(p), box)
         /\ \/ /\ Consumed(box, Ctl(p)) # box
               /\ Continue(p, box)
               /\ UNCHANGED rowVars
            \/ /\ Consumed(box, Ctl(p)) = box
               /\ ClaimApproval(Ctl(p))
               /\ Goto(p, "suspend")
               /\ UNCHANGED inbox
    /\ UNCHANGED <<approvalVars, history>>

\* claimFinalReply: an inactive claim throws (RunFails).  A claim already made
\* would be confirmed, but no handler asks twice.
ClaimReply(p) ==
    /\ pc[p] = "settle"
    /\ \/ ClaimFinalization(Ctl(p)) /\ Goto(p, "publish")
       \/ /\ turn.rev = Ctl(p)
          /\ turn.status = "running"
          /\ ~InboxEmpty(Ctl(p))
          /\ Goto(p, "claimWait")
          /\ UNCHANGED rowVars
    /\ UNCHANGED <<inbox, approvalVars, history>>

\* claimFinalReply after the wait: updates send the loop round again; if
\* every one was ignored the claim is retried.
ClaimWaitOver(p) ==
    /\ pc[p] = "claimWait"
    /\ p \notin aborted
    /\ \E box \in {inbox, FailedOpen(inbox, Ctl(p))} :
         /\ ClassificationOver(Ctl(p), box)
         /\ \/ /\ Consumed(box, Ctl(p)) # box
               /\ Continue(p, box)
               /\ UNCHANGED rowVars
            \/ /\ Consumed(box, Ctl(p)) = box
               /\ ClaimFinalization(Ctl(p))
               /\ Goto(p, "publish")
               /\ UNCHANGED inbox
    /\ UNCHANGED <<approvalVars, history>>

\* A reply that came out of the run goes to Slack.
ToPost(p, kind) ==
    /\ At(p, "post")
    /\ reply' = [reply EXCEPT ![p] = kind]
    /\ UNCHANGED <<saw, fiber>>

\* The fiber stashes the ts of what was delivered; a click has no fiber.
Checkpoint(p) ==
    /\ fiber' = IF p \in Msgs THEN [fiber EXCEPT ![p].delivered = TRUE] ELSE fiber
    /\ UNCHANGED <<saw, reply>>

SetApproval(a, status) == [appr EXCEPT ![a].status = status]

\* The run throws, is aborted, or hits its five minutes.  An interrupted turn
\* says nothing; otherwise the error or the pause is posted, and the
\* approval of a click becomes an error.
RunFails(p) ==
    /\ pc[p] \in RunLabels
    /\ IF p \in aborted \/ ~IsCurrent(Ctl(p))
       THEN Leave(p) /\ UNCHANGED appr
       ELSE /\ ToPost(p, "error")
            /\ appr' = IF p \in Clicks THEN SetApproval(target[p], "error") ELSE appr
            /\ UNCHANGED rowVars
    /\ UNCHANGED <<inbox, target, verdict, ran, history>>

\* computeTurn is back with a reply.  The currency of the turn is read once,
\* before the reply is posted; an approved action counts as executed.
DeliverReply(p) ==
    /\ pc[p] = "publish"
    /\ p \notin aborted
    /\ appr' = IF p \in Clicks /\ verdict[p]
               THEN SetApproval(target[p], "executed") ELSE appr
    /\ IF IsCurrent(Ctl(p))
       THEN ToPost(p, "answer") /\ UNCHANGED rowVars
       ELSE Leave(p)
    /\ UNCHANGED <<inbox, target, verdict, ran, history>>

\* The reply reaches Slack.
PostReply(p) ==
    /\ pc[p] = "post"
    /\ posted' = IF reply[p] = "answer"
                 THEN Append(posted, [rev |-> Ctl(p), kind |-> "answer"]) ELSE posted
    /\ Goto(p, "posted")
    /\ UNCHANGED <<controlVars, approvalVars, crashes>>

\* The request itself is rejected.  postFallback does not catch it, so the
\* handler throws past its completion and only its wrapper runs.
PostThrows(p) ==
    /\ SlackDrops
    /\ pc[p] = "post"
    /\ Leave(p)
    /\ UNCHANGED <<inbox, approvalVars, history>>

\* Slack's answer: the ts is checkpointed, and memory is written if the turn
\* is still current.
RecordReply(p) ==
    /\ pc[p] = "posted"
    /\ IF IsCurrent(Ctl(p)) \/ p \in Clicks
       THEN At(p, "writeback") /\ Checkpoint(p) /\ UNCHANGED rowVars
       ELSE Leave(p)
    /\ UNCHANGED <<inbox, approvalVars, history>>

\* markThreadTurnCompleted, at the end of both handlers.
CompleteTurn(p) ==
    /\ pc[p] = "writeback"
    /\ MarkCompleted(Ctl(p))
    /\ Finish(p)
    /\ UNCHANGED <<inbox, approvalVars, history>>

-----------------------------------------------------------------------------
(* A run that suspended: the approval row and its card *)

\* computeTurn is back with an approval request.
Suspend(p) ==
    /\ pc[p] = "suspend"
    /\ p \notin aborted
    /\ IF IsCurrent(Ctl(p))
       THEN /\ MarkWaiting
            /\ appr' = [a \in Approvals |->
                   IF a = ApprovalOf(p)
                   THEN [NoApproval EXCEPT !.status = "pending", !.rev = Ctl(p)]
                   ELSE IF p \in Clicks /\ verdict[p] /\ a = target[p]
                   THEN [appr[a] EXCEPT !.status = "executed"]
                   ELSE appr[a]]
            /\ Goto(p, "card")
       ELSE Leave(p) /\ UNCHANGED appr
    /\ UNCHANGED <<inbox, target, verdict, ran, history>>

\* The progress card is closed.  The approval card goes up unless the turn
\* was superseded meanwhile, or Slack refuses it.  Looking up the icon and
\* posting enable nothing but clicks, so they are taken at once.
PostCard(p) ==
    /\ pc[p] = "card"
    /\ \/ ~IsCurrent(Ctl(p)) /\ Leave(p) /\ UNCHANGED appr
       \/ /\ IsCurrent(Ctl(p))
          /\ appr' = [appr EXCEPT ![ApprovalOf(p)].card = "up"]
          /\ Goto(p, "cardPosted")
          /\ UNCHANGED rowVars
       \/ /\ IsCurrent(Ctl(p))
          /\ appr' = SetApproval(ApprovalOf(p), "error")
          /\ Goto(p, "cardFailed")
          /\ UNCHANGED rowVars
    /\ UNCHANGED <<inbox, target, verdict, ran, history>>

\* The note that replaces a card Slack refused.
CardFallback(p) ==
    /\ pc[p] = "cardFailed"
    /\ MarkCompleted(Ctl(p))
    /\ Finish(p)
    /\ UNCHANGED <<inbox, approvalVars, history>>

\* The card's ts is checkpointed and the expiry is scheduled.
RecordCard(p) ==
    /\ pc[p] = "cardPosted"
    /\ Checkpoint(p)
    /\ appr' = [appr EXCEPT ![ApprovalOf(p)].card = "armed"]
    /\ At(p, "tail")
    /\ UNCHANGED <<controlVars, target, verdict, ran, history>>

\* What is left of the handler: the finally block, then the wrapper.
LeaveSuspended(p) ==
    /\ pc[p] = "tail"
    /\ Leave(p)
    /\ UNCHANGED <<inbox, approvalVars, history>>

-----------------------------------------------------------------------------
(* The asker presses a button: runSlackApprovalDecision *)

\* The checks before the first await.
Click(c, a, approved) ==
    /\ pc[c] = "new"
    /\ appr[a].card # "none"
    /\ IF appr[a].status = "pending" /\ ~appr[a].late
       THEN /\ target' = [target EXCEPT ![c] = a]
            /\ verdict' = [verdict EXCEPT ![c] = approved]
            /\ Goto(c, "clickWait")
            /\ UNCHANGED appr
       ELSE /\ appr' = IF appr[a].status = "pending" THEN SetApproval(a, "expired") ELSE appr
            /\ Finish(c)
            /\ UNCHANGED <<target, verdict>>
    /\ UNCHANGED <<controlVars, ran, history>>

\* Nothing is being classified any more.  An approval of a superseded turn
\* is cancelled, whatever became of it during the wait.
ClickChecked(c) ==
    /\ pc[c] = "clickWait"
    /\ \E box \in {inbox, FailedOpen(inbox, appr[target[c]].rev)} :
         /\ ClassificationOver(appr[target[c]].rev, box)
         /\ inbox' = box
    /\ IF IsCurrent(appr[target[c]].rev)
       THEN Goto(c, "lookup") /\ UNCHANGED appr
       ELSE Finish(c) /\ appr' = SetApproval(target[c], "cancelled")
    /\ UNCHANGED <<rowVars, target, verdict, ran, history>>

\* Mutant of Decide: the update does not ask for a pending approval.
DecideAgain(c) ==
    /\ pc[c] = "lookup"
    /\ \/ /\ appr' = SetApproval(target[c], IF verdict[c] THEN "approved" ELSE "denied")
          /\ Goto(c, "decided")
       \/ Finish(c) /\ UNCHANGED appr
    /\ UNCHANGED <<controlVars, target, verdict, ran, history>>

\* Workspace, profile and member are looked up; markApprovalDecided decides
\* a pending approval and leaves any other alone.
Decide(c) ==
    /\ pc[c] = "lookup"
    /\ \/ /\ appr[target[c]].status = "pending"
          /\ appr' = SetApproval(target[c], IF verdict[c] THEN "approved" ELSE "denied")
          /\ Goto(c, "decided")
       \/ Finish(c) /\ UNCHANGED appr
    /\ UNCHANGED <<controlVars, target, verdict, ran, history>>

\* Mutant of Resume: the turn is resumed without asking whether it is current.
ResumeUnfenced(c) ==
    /\ pc[c] = "decided"
    /\ \/ Finish(c) /\ UNCHANGED rowVars
       \/ ResumeTurn(c) /\ Goto(c, IF verdict[c] THEN "execute" ELSE "compute")
    /\ UNCHANGED <<inbox, approvalVars, history>>

\* The entitlement is known and the turn is resumed.
Resume(c) ==
    /\ pc[c] = "decided"
    /\ \/ Finish(c) /\ UNCHANGED <<rowVars, appr>>
       \/ /\ IsCurrent(appr[target[c]].rev)
          /\ ResumeTurn(c)
          /\ Goto(c, IF verdict[c] THEN "execute" ELSE "compute")
          /\ UNCHANGED appr
       \/ /\ ~IsCurrent(appr[target[c]].rev)
          /\ appr' = SetApproval(target[c], "cancelled")
          /\ Finish(c)
          /\ UNCHANGED rowVars
    /\ UNCHANGED <<inbox, target, verdict, ran, history>>

\* The resumed run calls the approved tool.
Execute(c) ==
    /\ pc[c] = "execute"
    /\ c \notin aborted
    /\ ran' = [ran EXCEPT ![target[c]] = @ + 1]
    /\ Goto(c, "compute")
    /\ UNCHANGED <<controlVars, appr, target, verdict, history>>

-----------------------------------------------------------------------------
(* Time, eviction and recovery *)

\* Fifteen minutes pass over a waiting turn; a run has five.
TurnAges ==
    /\ turn.status = "waiting_approval"
    /\ ~turn.aged
    /\ \A p \in Procs : pc[p] \in RunLabels => Ctl(p) # turn.rev
    /\ turn' = [turn EXCEPT !.aged = TRUE]
    /\ UNCHANGED <<active, aborted, inbox, handlerVars, approvalVars, history>>

\* expires_at passes.  The approval was made after its turn began to wait,
\* so a turn that still waits has aged by then.
ApprovalAges(a) ==
    /\ appr[a].status = "pending"
    /\ ~appr[a].late
    /\ turn.rev = appr[a].rev /\ turn.status = "waiting_approval" => turn.aged
    /\ appr' = [appr EXCEPT ![a].late = TRUE]
    /\ UNCHANGED <<controlVars, handlerVars, target, verdict, ran, history>>

\* Mutant of ExpiryTimer: whatever became of the approval, it expires.
ExpiryTimerBlind(a) ==
    /\ appr[a].card = "armed"
    /\ appr[a].late
    /\ appr' = SetApproval(a, "expired")
    /\ UNCHANGED <<controlVars, handlerVars, target, verdict, ran, history>>

\* runApprovalExpiry
ExpiryTimer(a) ==
    /\ appr[a].card = "armed"
    /\ appr[a].late
    /\ appr[a].status = "pending"
    /\ appr' = SetApproval(a, "expired")
    /\ UNCHANGED <<controlVars, handlerVars, target, verdict, ran, history>>

\* The object is evicted: its memory and every handler are gone, the tables
\* and the stashed snapshots remain.
Crash ==
    /\ crashes < MaxCrashes
    /\ crashes' = crashes + 1
    /\ active' = NoActive
    /\ aborted' = {}
    /\ pc' = [p \in Procs |->
                 IF pc[p] \in {"new", "done"} THEN pc[p]
                 ELSE IF p \in Msgs THEN "lost" ELSE "done"]
    /\ saw' = [p \in Procs |-> Nothing]
    /\ reply' = [p \in Procs |-> "none"]
    /\ UNCHANGED <<turn, inbox, fiber, approvalVars, posted>>

\* onFiberRecovered.  A delivered turn is left alone; one with a terminal
\* proposal, or already a second attempt, is completed under its revision
\* fence and its message posted; any other is tried once more.
RecoverFiber(m) ==
    /\ pc[m] = "lost"
    /\ \/ /\ fiber[m].delivered
          /\ Finish(m)
          /\ UNCHANGED rowVars
       \/ /\ ~fiber[m].delivered
          /\ fiber[m].proposal \/ fiber[m].attempt = 1
          /\ IF fiber[m].rev # 0 /\ CanSettle(fiber[m].rev)
             THEN SettleInterrupted("completed") /\ Goto(m, "recoverPost")
             ELSE Finish(m) /\ UNCHANGED rowVars
       \/ /\ ~fiber[m].delivered
          /\ ~fiber[m].proposal
          /\ fiber[m].attempt = 0
          /\ fiber' = [fiber EXCEPT ![m].attempt = 1]
          /\ At(m, "intake")
          /\ UNCHANGED <<saw, reply>>
          /\ UNCHANGED rowVars
    /\ UNCHANGED <<inbox, approvalVars, history>>

\* finalizeInterruptedSlackTurn posts the proposal, or that it gave up.
RecoverPost(m) ==
    /\ pc[m] = "recoverPost"
    /\ posted' = IF fiber[m].proposal
                 THEN Append(posted, [rev |-> fiber[m].rev, kind |-> "recovered"])
                 ELSE posted
    /\ Finish(m)
    /\ UNCHANGED <<controlVars, approvalVars, crashes>>

-----------------------------------------------------------------------------

Intake(m) ==
    \/ Decline(m) \/ Arrive(m) \/ ArriveRecovered(m) \/ AwaitFinalization(m)
    \/ GateAnswers(m) \/ BeginTurn(m)

Run(p) ==
    \/ ModelStep(p) \/ FinishModel(p) \/ RequestApproval(p) \/ ApprovalWaitOver(p)
    \/ ClaimReply(p) \/ ClaimWaitOver(p) \/ RunFails(p) \/ DeliverReply(p)
    \/ PostReply(p) \/ PostThrows(p) \/ RecordReply(p) \/ CompleteTurn(p)
    \/ Suspend(p) \/ PostCard(p) \/ CardFallback(p) \/ RecordCard(p)
    \/ LeaveSuspended(p)

Decision(c) == ClickChecked(c) \/ Decide(c) \/ Resume(c) \/ Execute(c)

Recovery(m) == RecoverFiber(m) \/ RecoverPost(m)

\* What users do.
UserActs ==
    \/ \E m \in Msgs : Accept(m)
    \/ \E c \in Clicks, a \in Approvals, approved \in BOOLEAN : Click(c, a, approved)

\* What the clock and the platform do.
Environment ==
    \/ TurnAges
    \/ \E a \in Approvals : ApprovalAges(a) \/ ExpiryTimer(a)
    \/ Crash

Next ==
    \/ UserActs
    \/ \E m \in Msgs : Intake(m) \/ Recovery(m)
    \/ \E c \in Clicks : Decision(c)
    \/ \E p \in Procs : Run(p)
    \/ Environment

Spec == Init /\ [][Next]_vars

\* A handler parked at an await is resumed: lookups, the model, the gate and
\* Slack answer or time out, and the platform recovers an interrupted fiber.
\* Users, the clock and eviction owe nothing.
Fairness ==
    /\ \A m \in Msgs : WF_vars(Intake(m)) /\ WF_vars(Recovery(m))
    /\ \A c \in Clicks : WF_vars(Decision(c))
    /\ \A p \in Procs : WF_vars(Run(p))

FairSpec == Spec /\ Fairness

-----------------------------------------------------------------------------
(* Properties *)

\* The shape of the state.
TypeOK ==
    /\ turn \in Row
    /\ active \in [rev : Nat, proc : Procs \cup {NoProc}]
    /\ aborted \subseteq Procs
    /\ inbox \in [Msgs -> [rev : Nat, status : UpdateStatus]]
    /\ pc \in [Procs -> Labels]
    /\ saw \in [Procs -> Expectation]
    /\ reply \in [Procs -> {"none", "answer", "error"}]
    /\ fiber \in [Procs -> [rev : Nat, proposal : BOOLEAN, delivered : BOOLEAN,
                           attempt : {0, 1}]]
    /\ appr \in [Approvals -> [status : ApprovalStatus, rev : Nat,
                              card : {"none", "up", "armed"}, late : BOOLEAN]]
    /\ target \in [Clicks -> Approvals \cup {NoApprovalId}]
    /\ verdict \in [Clicks -> BOOLEAN]
    /\ ran \in [Approvals -> Nat]
    /\ posted \in Seq([rev : Nat, kind : {"answer", "recovered"}])
    /\ crashes \in 0..MaxCrashes

\* A claimed turn has no update left to read: a message that reached the
\* thread before the claim was part of the answer, one that comes after it
\* waits (claimThreadTurnFinalizationIfInboxEmpty, the steering loop).
ClaimSealsInbox == turn.status = "finalizing" => InboxEmpty(turn.rev)

\* From the claim until its memories are written the answering handler is
\* alone on the thread: no stop, replacement, recovery or new turn touches
\* the row (waitForThreadTurnFinalization, turnMatchesStartExpectation); as
\* long as the object is not evicted.
Answering(p) ==
    \/ pc[p] = "publish"
    \/ pc[p] \in {"post", "posted", "writeback"} /\ reply[p] = "answer"
AnswerHoldsClaim ==
    \A p \in Procs :
        Answering(p) => turn.rev = Ctl(p) /\ turn.status = "finalizing"

\* No update is left behind by the answer of its turn: one that was reserved
\* in a turn whose answer is in the thread has been applied or ignored.
NoUpdateLeftBehind ==
    \A m \in Msgs, i \in 1..Len(posted) :
        posted[i].kind = "answer" /\ inbox[m].rev = posted[i].rev
        => inbox[m].status \notin {"classifying", "pending"}

\* The answers of a thread come in the order of its turns, no turn is answered
\* twice and none before its updates are read, evictions and retries included;
\* but for an eviction before a click, whose run a recovered fiber of the same
\* turn supersedes while it posts (settleInterruptedThreadTurn).
AnswersInOrder ==
    /\ NoUpdateLeftBehind
    /\ crashes = 0 \/ (\A c \in Clicks : pc[c] = "new") =>
          \A i, j \in 1..Len(posted) :
              i < j /\ posted[i].kind = "answer" /\ posted[j].kind = "answer"
              => posted[i].rev < posted[j].rev

\* A run that nobody aborted is the run of the row: a replaced or stopped
\* turn never goes on computing; without clicks, whose runs can be reaped under
\* them by the handler of the run that suspended (reapUnfinishedThreadTurn).
\* And every controller is dropped by the handler that owned it.
LiveRunIsCurrent ==
    \A p \in Procs :
        /\ pc[p] \in RunLabels /\ p \notin aborted
           => IsCurrent(Ctl(p)) /\ active = [rev |-> Ctl(p), proc |-> p]
        /\ pc[p] = "done" => active.proc # p

\* An approved action is executed at most once, however many clicks race.
ApprovalRunsOnce == \A a \in Approvals : ran[a] <= 1

\* The buttons of a dead turn do nothing: once the turn of a pending approval
\* is over, its action is never executed.  (A second attempt of a run takes an
\* eviction.)
Doomed(a) == appr[a].status = "pending" /\ ~IsCurrent(appr[a].rev)
DoomedApprovalNeverRuns ==
    \A a \in {b \in Approvals : b[1] \in Asking /\ b[2] <= MaxCrashes} :
        [](Doomed(a) => [](ran[a] = 0))

\* A denied or expired action has not been executed.
RefusedNeverRan ==
    \A a \in Approvals : appr[a].status \in {"pending", "denied", "expired"} => ran[a] = 0

\* Every accepted message comes to an end.
EveryMessageEnds == \A m \in Msgs : pc[m] # "new" ~> pc[m] = "done"

\* A turn never stays running or finalizing, unless its object was evicted:
\* then it stays until the next message comes (reconcileThreadTurnState).
NoTurnLeftOpen == []<>(turn.status \notin {"running", "finalizing"} \/ crashes > 0)

-----------------------------------------------------------------------------
(* What the documents say and the code does not do: the property of a run   *)
(* that finds it violated.                                                  *)

\* "A follow-up that arrives after this claim waits for that exact revision to
\* complete" (docs/spec.md:499): the wait ends.
FollowUpProceeds == \A m \in Msgs : pc[m] = "finalWait" ~> pc[m] # "finalWait"

=============================================================================
