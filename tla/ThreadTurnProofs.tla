-------------------------- MODULE ThreadTurnProofs --------------------------
(***************************************************************************)
(* Type correctness of a thread, for any sets of messages and clicks.      *)
(*                                                                         *)
(* TypeOK is not inductive: the target of a click is an approval only once *)
(* the click is under way, and only a controller that exists has an owner. *)
(* TypeInv adds both. One lemma per action shows that the action preserves *)
(* TypeInv; frame lemmas for the row, the inbox, the approvals and the     *)
(* history carry the parts an action leaves alone.                         *)
(*                                                                         *)
(* The claim for the final reply seals the inbox of its turn.              *)
(*                                                                         *)
(* ClaimSealsInbox is inductive relative to the type invariant. A step     *)
(* either makes no new claim and adds no unread update (SealFrame), or is  *)
(* a claim that looked at the inbox in the same step (ClaimSeal), or       *)
(* reserves an update in a turn that is still steerable and so is not      *)
(* claimed (ReserveSeal).                                                  *)
(*                                                                         *)
(* An approved action is executed at most once, and a refused one never.   *)
(*                                                                         *)
(* ApprovalRunsOnce is not inductive: a second click that had passed the   *)
(* decision of the same approval would execute it again. The invariant     *)
(* says that at most one click holds an approval between its decision and  *)
(* its execution (OneHolder), that what is held was approved and not       *)
(* executed yet, and that an approval nobody asked for, that waits or was  *)
(* refused has not been executed. FreshApproval and FreshRetry say that    *)
(* the approval a run suspends with is a new one, for a recovered message  *)
(* too.                                                                    *)
(*                                                                         *)
(* A turn is in one hand (TokenInv): that of one handler that runs it,     *)
(* posts its reply or puts up a card, or that of one approval somebody can *)
(* still decide. Every step is one of a handler, as Handled describes it,  *)
(* or of none (Unhandled), and Flow says whose hand a turn goes to. From   *)
(* this follow:                                                            *)
(*   - what is being or has been answered takes no update any more, and no *)
(*     other hand has it (AnswerInv);                                      *)
(*   - an answer holds the claim of its turn (HoldInv), so that answers    *)
(*     come in the order of the turns;                                     *)
(*   - a run is that of the current turn, as long as nobody has clicked    *)
(*     (LiveInv);                                                          *)
(*   - an approval whose turn is over is never executed (Dead).            *)
(***************************************************************************)
EXTENDS ThreadTurn, TLAPS

-----------------------------------------------------------------------------
(* Type correctness *)

\* The row, the controller and the handlers it aborted; a controller has an
\* owner.
RowType ==
    /\ turn \in Row
    /\ active \in [rev : Nat, proc : Procs \cup {NoProc}]
    /\ aborted \subseteq Procs
    /\ active.rev # 0 => active.proc \in Procs

\* The local state of the handlers and their snapshots.
HandlerType ==
    /\ pc \in [Procs -> Labels]
    /\ saw \in [Procs -> Expectation]
    /\ reply \in [Procs -> {"none", "answer", "error"}]
    /\ fiber \in [Procs -> [rev : Nat, proposal : BOOLEAN, delivered : BOOLEAN,
                           attempt : {0, 1}]]

\* The approvals, and what the clicks decide.
ApprovalType ==
    /\ appr \in [Approvals -> [status : ApprovalStatus, rev : Nat,
                              card : {"none", "up", "armed"}, late : BOOLEAN]]
    /\ target \in [Clicks -> Approvals \cup {NoApprovalId}]
    /\ verdict \in [Clicks -> BOOLEAN]
    /\ ran \in [Approvals -> Nat]

\* The inbox of follow-up messages.
InboxType == inbox \in [Msgs -> [rev : Nat, status : UpdateStatus]]
\* What is in the thread.
HistoryType ==
    /\ posted \in Seq([rev : Nat, kind : {"answer", "recovered"}])
    /\ crashes \in 0..MaxCrashes

\* A click that is under way has an approval.
Targeted == \A c \in Clicks : pc[c] \notin {"new", "done"} => target[c] \in Approvals

\* The inductive invariant behind TypeOK.
TypeInv == RowType /\ HandlerType /\ ApprovalType /\ InboxType /\ HistoryType /\ Targeted

\* The type invariant is the conjunction of its parts and the extra facts that
\* make it inductive.
LEMMA TypeInvTypeOK == TypeInv => TypeOK
  BY DEF TypeInv, RowType, HandlerType, ApprovalType, InboxType, HistoryType, TypeOK

\* Every part of the type invariant holds when nothing has happened in the
\* thread yet.
LEMMA InitType == Init => TypeInv
  <1> SUFFICES ASSUME Init PROVE TypeInv OBVIOUS
  <1> USE DEF Init
  <1>1. RowType
    BY DEF RowType, Row, NoRow, NoActive, Users, TurnStatus, NoProc
  <1>2. HandlerType
    BY DEF HandlerType, Labels, MsgLabels, Expectation, Nothing, TurnStatus, NewFiber
  <1>3. ApprovalType
    BY DEF ApprovalType, NoApproval, ApprovalStatus, NoApprovalId
  <1>4. InboxType
    BY DEF InboxType, NoUpdate, UpdateStatus
  <1>5. HistoryType
    BY RunAssumption DEF HistoryType
  <1>6. Targeted
    BY DEF Targeted, Procs
  <1> QED BY <1>1, <1>2, <1>3, <1>4, <1>5, <1>6 DEF TypeInv

\* Parking at another await changes the label only.
LEMMA GotoType ==
  ASSUME HandlerType, NEW p \in Procs, NEW label \in Labels, Goto(p, label)
  PROVE  HandlerType'
  BY DEF HandlerType, Goto, At

\* A handler that returns leaves its local state empty.
LEMMA FinishType ==
  ASSUME HandlerType, NEW p \in Procs, Finish(p)
  PROVE  HandlerType'
  BY DEF HandlerType, Finish, At, Nothing, NewFiber, Expectation, TurnStatus, Labels, MsgLabels

\* A handler that remembers a row keeps a well-formed expectation.
LEMMA GotoWithType ==
  ASSUME HandlerType, NEW p \in Procs, NEW label \in Labels,
         NEW e \in Expectation, GotoWith(p, label, e)
  PROVE  HandlerType'
  BY DEF HandlerType, GotoWith, At

\* Making a controller (activeTurns.set) keeps the controller well formed and
\* aborts only the handler that had one.
LEMMA SetActiveType ==
  ASSUME RowType, NEW p \in Procs, NEW rev \in Nat, SetActive(rev, p)
  PROVE  /\ active' \in [rev : Nat, proc : Procs \cup {NoProc}]
         /\ aborted' \subseteq Procs
         /\ active'.rev # 0 => active'.proc \in Procs
  <1>1. active' = [rev |-> rev, proc |-> p]
    BY DEF SetActive
  <1>2. aborted' \subseteq aborted \cup {active.proc} /\ (aborted' \subseteq aborted \/ active.rev # 0)
    BY DEF SetActive
  <1> QED BY <1>1, <1>2 DEF RowType

\* beginThreadTurn leaves a well-formed row with the next revision.
LEMMA BeginType ==
  ASSUME RowType, NEW p \in Procs, NEW u \in Users, Begin(p, u)
  PROVE  RowType'
  <1>1. turn' \in Row
    BY DEF RowType, Begin, Row, TurnStatus
  <1>2. turn.rev + 1 \in Nat
    BY DEF RowType, Row
  <1> QED BY <1>1, <1>2, SetActiveType DEF RowType, Begin

\* abortActiveTurn drops a controller or leaves it alone.
LEMMA AbortActiveType ==
  ASSUME RowType, NEW r, AbortActive(r)
  PROVE  /\ active' \in [rev : Nat, proc : Procs \cup {NoProc}]
         /\ aborted' \subseteq Procs
         /\ active'.rev # 0 => active'.proc \in Procs
  <1>1. CASE active.rev = r /\ r # 0
    BY <1>1 DEF RowType, AbortActive, NoActive
  <1>2. CASE ~(active.rev = r /\ r # 0)
    BY <1>2 DEF RowType, AbortActive
  <1> QED BY <1>1, <1>2

\* A status update of the row leaves a well-formed row.
LEMMA StampedType ==
  ASSUME turn \in Row, NEW s \in TurnStatus
  PROVE  Stamped(turn, s) \in Row
  BY DEF Stamped, Row

\* Ending the turn and aborting its controller keeps the row well formed.
LEMMA SettleType ==
  ASSUME RowType, NEW s \in TurnStatus, turn' = Stamped(turn, s),
         AbortActive(turn.rev)
  PROVE  RowType'
  <1>1. turn' \in Row
    BY StampedType DEF RowType
  <1>2. /\ active' \in [rev : Nat, proc : Procs \cup {NoProc}]
        /\ aborted' \subseteq Procs
        /\ active'.rev # 0 => active'.proc \in Procs
    BY AbortActiveType
  <1> QED BY <1>1, <1>2 DEF RowType

\* markThreadTurnCompleted, on a current row or on any other.
LEMMA CompletedType ==
  ASSUME RowType, NEW r, MarkCompleted(r)
  PROVE  RowType'
  <1>1. CASE IsCurrent(r)
    <2>1. turn' \in Row
      BY <1>1, StampedType DEF RowType, MarkCompleted, TurnStatus, Terminal
    <2>2. active' = NoActive /\ aborted' = aborted
      BY <1>1 DEF MarkCompleted
    <2> QED BY <2>1, <2>2 DEF RowType, NoActive
  <1>2. CASE ~IsCurrent(r)
    BY <1>2 DEF RowType, MarkCompleted
  <1> QED BY <1>1, <1>2

\* The reaping of the wrapper completes the row or leaves it alone.
LEMMA ReapType ==
  ASSUME RowType, NEW r, Reap(r)
  PROVE  RowType'
  <1>1. CASE MarkCompleted(r)
    BY <1>1, CompletedType
  <1>2. CASE UNCHANGED <<turn, active, aborted>>
    BY <1>2 DEF RowType
  <1> QED BY <1>1, <1>2 DEF Reap

\* A handler that returns through its wrapper.
LEMMA LeaveType ==
  ASSUME RowType, HandlerType, NEW p \in Procs, Leave(p)
  PROVE  RowType' /\ HandlerType'
  <1>1. Finish(p) /\ Reap(Ctl(p)) BY DEF Leave
  <1>2. HandlerType' BY <1>1, FinishType
  <1>3. RowType' BY <1>1, ReapType
  <1> QED BY <1>2, <1>3

\* A stop or a replacement ends the steerable turn.
LEMMA InterruptType ==
  ASSUME RowType, NEW s \in TurnStatus, Interrupt(s)
  PROVE  RowType'
  BY SettleType DEF Interrupt

\* A step that touches neither the row nor a controller.
LEMMA FrameRow ==
  ASSUME RowType, UNCHANGED rowVars
  PROVE  RowType'
  BY DEF RowType, rowVars

\* What a handler remembers of a well-formed row is a well-formed expectation.
LEMMA ExpectationType ==
  ASSUME NEW row \in Row
  PROVE  StartExpectation(row) \in Expectation
  BY DEF StartExpectation, Expectation, Row

\* reserveTurnUpdate writes one well-formed update and ends or parks its
\* handler.
LEMMA ReserveType ==
  ASSUME HandlerType, InboxType, turn \in Row, NEW m \in Msgs,
    NEW box \in [Msgs -> [rev : Nat, status : UpdateStatus]], Reserve(m, box)
  PROVE  HandlerType' /\ InboxType'
  <1>1. HandlerType'
    BY FinishType, GotoWithType, ExpectationType DEF Reserve, Procs, Labels, MsgLabels
  <1>2. InboxType'
    BY DEF Reserve, InboxType, UpdateStatus, Row
  <1> QED BY <1>1, <1>2

\* One pass of the steering loop keeps the row, the handlers and the inbox
\* well formed.
LEMMA SteerType ==
  ASSUME TypeInv, NEW m \in Msgs,
    NEW box \in [Msgs -> [rev : Nat, status : UpdateStatus]], Steer(m, box)
  PROVE  RowType' /\ HandlerType' /\ InboxType'
  <1> USE DEF TypeInv
  <1> turn \in Row BY DEF RowType
  <1> m \in Procs BY DEF Procs
  <1> {"finalWait", "prep", "gate"} \subseteq Labels BY DEF Labels, MsgLabels
  <1>1. CASE GotoWith(m, "finalWait", StartExpectation(turn)) /\ inbox' = box /\ UNCHANGED rowVars
    BY <1>1, GotoWithType, ExpectationType, FrameRow DEF InboxType
  <1>2. CASE SeedFrom(m, turn) /\ inbox' = box /\ UNCHANGED rowVars
    BY <1>2, GotoWithType, ExpectationType, FrameRow DEF InboxType, SeedFrom
  <1>3. CASE Interrupt("cancelled") /\ Finish(m) /\ inbox' = box
    BY <1>3, InterruptType, FinishType DEF InboxType, TurnStatus, Terminal
  <1>4. CASE Reserve(m, box) /\ UNCHANGED rowVars
    BY <1>4, ReserveType, FrameRow
  <1> QED BY <1>1, <1>2, <1>3, <1>4 DEF Steer

\* A step of one handler that is under way keeps every click targeted.
LEMMA TargetedStep ==
  ASSUME Targeted, HandlerType, NEW p \in Procs, NEW label, pc[p] \notin {"new", "done"},
         pc' = [pc EXCEPT ![p] = label], target' = target
  PROVE  Targeted'
  BY DEF Targeted, HandlerType, Procs

\* The label of a handler that parks elsewhere.
LEMMA GotoLabel ==
  ASSUME NEW p, NEW label, Goto(p, label)
  PROVE  pc' = [pc EXCEPT ![p] = label]
  BY DEF Goto, At

\* The label of a handler that parks elsewhere with a row.
LEMMA GotoWithLabel ==
  ASSUME NEW p, NEW label, NEW e, GotoWith(p, label, e)
  PROVE  pc' = [pc EXCEPT ![p] = label]
  BY DEF GotoWith, At

\* The label of a handler that returned.
LEMMA FinishLabel ==
  ASSUME NEW p, Finish(p)
  PROVE  pc' = [pc EXCEPT ![p] = "done"]
  BY DEF Finish, At

\* A step that touches no approval.
LEMMA FrameApproval ==
  ASSUME ApprovalType, UNCHANGED approvalVars
  PROVE  ApprovalType' /\ target' = target
  BY DEF ApprovalType, approvalVars

\* A step that posts nothing and evicts nothing.
LEMMA FrameHistory ==
  ASSUME HistoryType, UNCHANGED history
  PROVE  HistoryType'
  BY DEF HistoryType, history

\* A step that leaves the inbox alone.
LEMMA FrameInbox ==
  ASSUME InboxType, UNCHANGED inbox
  PROVE  InboxType'
  BY DEF InboxType

\* Accept preserves the type invariant.
LEMMA AcceptType ==
  ASSUME TypeInv, NEW m \in Msgs, Accept(m)
  PROVE  TypeInv'
  <1> USE DEF TypeInv
  <1>1. RowType' /\ InboxType' BY FrameRow, FrameInbox DEF Accept, controlVars, rowVars
  <1>2. HandlerType' BY GotoType DEF Accept, Procs, Labels, MsgLabels
  <1>3. ApprovalType' /\ HistoryType' BY FrameApproval, FrameHistory DEF Accept
  <1>4. Targeted'
    BY FrameApproval, GotoLabel, ThreadAssumption DEF Accept, Targeted, HandlerType, Procs
  <1> QED BY <1>1, <1>2, <1>3, <1>4

\* Decline (runSlackTurnInner) preserves the type invariant.
LEMMA DeclineType ==
  ASSUME TypeInv, NEW m \in Msgs, Decline(m)
  PROVE  TypeInv'
  <1> USE DEF TypeInv
  <1> m \in Procs BY DEF Procs
  <1>1. RowType' /\ InboxType' BY FrameRow, FrameInbox DEF Decline, controlVars, rowVars
  <1>2. HandlerType' BY FinishType DEF Decline
  <1>3. ApprovalType' /\ HistoryType' BY FrameApproval, FrameHistory DEF Decline
  <1>4. Targeted'
    BY FrameApproval, FinishLabel, TargetedStep DEF Decline
  <1> QED BY <1>1, <1>2, <1>3, <1>4

\* One pass of the steering loop moves its own handler only.
LEMMA SteerLabel ==
  ASSUME NEW m, NEW box, Steer(m, box)
  PROVE  \E label : pc' = [pc EXCEPT ![m] = label]
  BY FinishLabel, GotoWithLabel DEF Steer, SeedFrom, Reserve

\* One pass of the steering loop preserves the type invariant.
LEMMA SteerKeeps ==
  ASSUME TypeInv, NEW m \in Msgs, pc[m] \notin {"new", "done"},
    NEW box \in [Msgs -> [rev : Nat, status : UpdateStatus]], Steer(m, box)
  PROVE  TypeInv'
  <1> USE DEF TypeInv
  <1> m \in Procs BY DEF Procs
  <1>1. RowType' /\ HandlerType' /\ InboxType' BY SteerType
  <1>3. ApprovalType' /\ HistoryType' BY FrameApproval, FrameHistory DEF Steer
  <1>4. Targeted'
    BY FrameApproval, SteerLabel, TargetedStep DEF Steer
  <1> QED BY <1>1, <1>3, <1>4

\* Arrive (runSlackTurnInner) preserves the type invariant.
LEMMA ArriveType ==
  ASSUME TypeInv, NEW m \in Msgs, Arrive(m)
  PROVE  TypeInv'
  BY SteerKeeps DEF Arrive, TypeInv, InboxType

\* ArriveRecovered (runSlackTurnInner) preserves the type invariant.
LEMMA ArriveRecoveredType ==
  ASSUME TypeInv, NEW m \in Msgs, ArriveRecovered(m)
  PROVE  TypeInv'
  <1> USE DEF TypeInv
  <1> m \in Procs BY DEF Procs
  <1> turn \in Row BY DEF RowType
  <1> DEFINE e == StartExpectation([turn EXCEPT !.status = "superseded"])
  <1>1. e \in Expectation
    BY ExpectationType DEF Row, TurnStatus, Terminal
  <1>2. CASE SettleInterrupted("superseded") /\ GotoWith(m, "prep", e)
    <2>1. RowType' BY <1>2, SettleType DEF SettleInterrupted, TurnStatus, Terminal
    <2>2. HandlerType' BY <1>1, <1>2, GotoWithType DEF Labels, MsgLabels
    <2>3. InboxType' /\ ApprovalType' /\ HistoryType'
      BY FrameInbox, FrameApproval, FrameHistory DEF ArriveRecovered
    <2>4. Targeted'
      BY <1>2, FrameApproval, GotoWithLabel, TargetedStep DEF ArriveRecovered
    <2> QED BY <2>1, <2>2, <2>3, <2>4
  <1>3. CASE Finish(m) /\ UNCHANGED rowVars
    <2>1. RowType' /\ HandlerType' BY <1>3, FrameRow, FinishType
    <2>3. InboxType' /\ ApprovalType' /\ HistoryType'
      BY FrameInbox, FrameApproval, FrameHistory DEF ArriveRecovered
    <2>4. Targeted'
      BY <1>3, FrameApproval, FinishLabel, TargetedStep DEF ArriveRecovered
    <2> QED BY <2>1, <2>3, <2>4
  <1> QED BY <1>2, <1>3 DEF ArriveRecovered, SeedFrom

\* AwaitFinalization (waitForThreadTurnFinalization) preserves the type
\* invariant.
LEMMA AwaitFinalizationType ==
  ASSUME TypeInv, NEW m \in Msgs, AwaitFinalization(m)
  PROVE  TypeInv'
  <1> USE DEF TypeInv
  <1> m \in Procs BY DEF Procs
  <1> turn \in Row BY DEF RowType
  <1> DEFINE row == Stamped(turn, "completed")
  <1>1. row \in Row /\ StartExpectation(row) \in Expectation
    BY StampedType, ExpectationType DEF TurnStatus, Terminal
  <1>2. CASE turn.rev = saw[m].rev /\ turn.status = "finalizing"
    <2>0. /\ turn' = row
          /\ GotoWith(m, "prep", StartExpectation(row))
          /\ UNCHANGED <<active, aborted, inbox, approvalVars, history>>
          /\ pc[m] = "finalWait"
      BY <1>2 DEF AwaitFinalization, SeedFrom
    <2> HIDE DEF row
    <2>1. RowType' BY <1>1, <2>0 DEF RowType
    <2>2. HandlerType' BY <1>1, <2>0, GotoWithType DEF Labels, MsgLabels
    <2>3. InboxType' /\ ApprovalType' /\ HistoryType'
      BY <2>0, FrameInbox, FrameApproval, FrameHistory
    <2>4. Targeted'
      BY <2>0, FrameApproval, GotoWithLabel, TargetedStep
    <2> QED BY <2>1, <2>2, <2>3, <2>4
  <1>3. CASE ~(turn.rev = saw[m].rev /\ turn.status = "finalizing")
    BY <1>3, SteerKeeps DEF AwaitFinalization, InboxType
  <1> QED BY <1>2, <1>3

\* resolveTurnUpdate writes a status of an update.
LEMMA ResolveType ==
  ASSUME InboxType, NEW m \in Msgs, NEW status \in UpdateStatus,
         Resolve(m, status)
  PROVE  InboxType'
  BY DEF InboxType, Resolve

\* GateAnswers (runSlackTurnInner) preserves the type invariant.
LEMMA GateAnswersType ==
  ASSUME TypeInv, NEW m \in Msgs, GateAnswers(m)
  PROVE  TypeInv'
  <1> USE DEF TypeInv
  <1> m \in Procs BY DEF Procs
  <1> turn \in Row BY DEF RowType
  <1> pc[m] \notin {"new", "done"} BY DEF GateAnswers
  <1>1. CASE ~IsSteerable(turn) \/ turn.rev # saw[m].rev
    <2>1. Discarded(m) \in [Msgs -> [rev : Nat, status : UpdateStatus]]
      BY DEF Discarded, InboxType, NoUpdate, UpdateStatus
    <2>2. Steer(m, Discarded(m)) BY <1>1 DEF GateAnswers
    <2> QED BY <2>1, <2>2, SteerKeeps
  <1>2. CASE ~(~IsSteerable(turn) \/ turn.rev # saw[m].rev)
    <2>1. UNCHANGED <<approvalVars, history>> BY <1>2 DEF GateAnswers
    <2>2. ApprovalType' /\ HistoryType' BY <2>1, FrameApproval, FrameHistory
    <2>3. CASE /\ Resolve(m, "ignored") \/ Resolve(m, "pending")
               /\ Finish(m)
               /\ UNCHANGED rowVars
      <3>1. RowType' /\ HandlerType' BY <2>3, FrameRow, FinishType
      <3>2. InboxType' BY <2>3, ResolveType DEF UpdateStatus
      <3>3. Targeted' BY <2>3, <2>1, FrameApproval, FinishLabel, TargetedStep
      <3> QED BY <2>2, <3>1, <3>2, <3>3
    <2>4. CASE /\ Resolve(m, "ignored")
               /\ Interrupt("superseded")
               /\ SeedFrom(m, Stamped(turn, "superseded"))
      <3> DEFINE e == StartExpectation(Stamped(turn, "superseded"))
      <3>1. e \in Expectation BY StampedType, ExpectationType DEF TurnStatus, Terminal
      <3>2. GotoWith(m, "prep", e) BY <2>4 DEF SeedFrom
      <3> HIDE DEF e
      <3>3. RowType' BY <2>4, InterruptType DEF TurnStatus, Terminal
      <3>4. HandlerType' BY <3>1, <3>2, GotoWithType DEF Labels, MsgLabels
      <3>5. InboxType' BY <2>4, ResolveType DEF UpdateStatus
      <3>6. Targeted' BY <3>2, <2>1, FrameApproval, GotoWithLabel, TargetedStep
      <3> QED BY <2>2, <3>3, <3>4, <3>5, <3>6
    <2> QED BY <1>2, <2>3, <2>4 DEF GateAnswers
  <1> QED BY <1>1, <1>2

\* BeginTurn (runSlackTurnInner) preserves the type invariant.
LEMMA BeginTurnType ==
  ASSUME TypeInv, NEW m \in Msgs, BeginTurn(m)
  PROVE  TypeInv'
  <1> USE DEF TypeInv
  <1> m \in Procs BY DEF Procs
  <1>0. InboxType' /\ ApprovalType' /\ HistoryType' /\ target' = target
    BY FrameInbox, FrameApproval, FrameHistory DEF BeginTurn
  <1>1. CASE MatchesStart(saw[m])
    <2>1. RowType'
      <3>1. Begin(m, Author[m]) BY <1>1 DEF BeginTurn
      <3>2. Author[m] \in Users BY DEF Users
      <3> QED BY <3>1, <3>2, BeginType
    <2>2. HandlerType'
      <3>1. turn.rev + 1 \in Nat BY DEF RowType, Row
      <3>2. /\ fiber' = [fiber EXCEPT ![m].rev = turn.rev + 1]
            /\ saw' = [saw EXCEPT ![m] = Nothing]
            /\ pc' = [pc EXCEPT ![m] = "compute"]
            /\ reply' = reply
        BY <1>1 DEF BeginTurn, At
      <3> QED BY <3>1, <3>2 DEF HandlerType, Nothing, Expectation, TurnStatus, Labels, RunLabels
    <2>3. Targeted'
      BY <1>0, <1>1, TargetedStep DEF BeginTurn, At
    <2> QED BY <1>0, <2>1, <2>2, <2>3
  <1>2. CASE ~MatchesStart(saw[m])
    <2>1. RowType' /\ HandlerType' BY <1>2, FrameRow, FinishType DEF BeginTurn
    <2>2. Targeted' BY <1>0, <1>2, FinishLabel, TargetedStep DEF BeginTurn
    <2> QED BY <1>0, <2>1, <2>2
  <1> QED BY <1>1, <1>2

\* Consuming the pending updates of a turn keeps the inbox well formed.
LEMMA ConsumedType ==
  ASSUME NEW box \in [Msgs -> [rev : Nat, status : UpdateStatus]], NEW r
  PROVE  Consumed(box, r) \in [Msgs -> [rev : Nat, status : UpdateStatus]]
  BY DEF Consumed, UpdateStatus

\* Failing open the classifications of a turn keeps the inbox well formed.
LEMMA FailedOpenType ==
  ASSUME NEW box \in [Msgs -> [rev : Nat, status : UpdateStatus]], NEW r
  PROVE  FailedOpen(box, r) \in [Msgs -> [rev : Nat, status : UpdateStatus]]
  BY DEF FailedOpen, UpdateStatus

\* ModelStep (consumeLiveUpdateMessages) preserves the type invariant.
LEMMA ModelStepType ==
  ASSUME TypeInv, NEW p \in Procs, ModelStep(p)
  PROVE  TypeInv'
  <1> USE DEF TypeInv
  <1>1. RowType' BY FrameRow DEF ModelStep
  <1>2. HandlerType' BY DEF ModelStep, HandlerType, handlerVars
  <1>3. InboxType' BY ConsumedType DEF ModelStep, InboxType
  <1>4. ApprovalType' /\ HistoryType' BY FrameApproval, FrameHistory DEF ModelStep
  <1>5. Targeted' BY DEF ModelStep, Targeted, handlerVars, approvalVars
  <1> QED BY <1>1, <1>2, <1>3, <1>4, <1>5

\* A checkpointed proposal keeps the snapshot well formed.
LEMMA MayProposeType ==
  ASSUME HandlerType, NEW p \in Procs, NEW label \in Labels, MayPropose(p), At(p, label),
         UNCHANGED <<saw, reply>>
  PROVE  HandlerType'
  BY DEF HandlerType, MayPropose, At

\* FinishModel (settleTurn) preserves the type invariant.
LEMMA FinishModelType ==
  ASSUME TypeInv, NEW p \in Procs, FinishModel(p)
  PROVE  TypeInv'
  <1> USE DEF TypeInv
  <1>1. RowType' /\ InboxType' BY FrameRow, FrameInbox DEF FinishModel, controlVars, rowVars
  <1>2. HandlerType' BY MayProposeType DEF FinishModel, Labels, RunLabels
  <1>4. ApprovalType' /\ HistoryType' BY FrameApproval, FrameHistory DEF FinishModel
  <1>5. Targeted' BY FrameApproval, TargetedStep DEF FinishModel, At
  <1> QED BY <1>1, <1>2, <1>4, <1>5

\* Both claims only stamp the row.
LEMMA ClaimType ==
  ASSUME RowType, NEW r, ClaimApproval(r) \/ ClaimFinalization(r)
  PROVE  RowType'
  <1>1. \E s \in TurnStatus : turn' = Stamped(turn, s) /\ UNCHANGED <<active, aborted>>
    BY DEF ClaimApproval, ClaimFinalization, TurnStatus
  <1> QED BY <1>1, StampedType DEF RowType

\* RequestApproval (suspendedApprovalResult) preserves the type invariant.
LEMMA RequestApprovalType ==
  ASSUME TypeInv, NEW p \in Procs, RequestApproval(p)
  PROVE  TypeInv'
  <1> USE DEF TypeInv
  <1> {"suspend", "approvalWait"} \subseteq Labels BY DEF Labels, RunLabels
  <1>1. RowType' BY FrameRow, ClaimType DEF RequestApproval
  <1>2. HandlerType' BY MayProposeType DEF RequestApproval
  <1>3. InboxType' BY FrameInbox DEF RequestApproval
  <1>4. ApprovalType' /\ HistoryType' BY FrameApproval, FrameHistory DEF RequestApproval
  <1>5. Targeted' BY FrameApproval, TargetedStep DEF RequestApproval, At
  <1> QED BY <1>1, <1>2, <1>3, <1>4, <1>5

\* Another pass of the model loop keeps the handlers and the inbox well
\* formed.
LEMMA ContinueType ==
  ASSUME HandlerType, NEW p \in Procs, NEW box \in [Msgs -> [rev : Nat, status : UpdateStatus]],
         Continue(p, box)
  PROVE  HandlerType' /\ InboxType' /\ pc' = [pc EXCEPT ![p] = "compute"]
  <1>1. InboxType' BY ConsumedType DEF Continue, InboxType
  <1>2. HandlerType' BY DEF Continue, At, HandlerType, Labels, RunLabels
  <1> QED BY <1>1, <1>2 DEF Continue, At

\* How both waits for a classification end: the loop goes on, or the claim is made.
LEMMA WaitOverType ==
  ASSUME TypeInv, NEW p \in Procs, pc[p] \notin {"new", "done"},
         UNCHANGED <<approvalVars, history>>,
         NEW box \in {inbox, FailedOpen(inbox, Ctl(p))}, NEW label \in Labels,
         \/ Continue(p, box) /\ UNCHANGED rowVars
         \/ ClaimApproval(Ctl(p)) /\ Goto(p, label) /\ UNCHANGED inbox
         \/ ClaimFinalization(Ctl(p)) /\ Goto(p, label) /\ UNCHANGED inbox
  PROVE  TypeInv'
  <1> USE DEF TypeInv
  <1>1. box \in [Msgs -> [rev : Nat, status : UpdateStatus]] BY FailedOpenType DEF InboxType
  <1>2. ApprovalType' /\ HistoryType' /\ target' = target BY FrameApproval, FrameHistory
  <1>3. CASE Continue(p, box) /\ UNCHANGED rowVars
    <2>1. RowType' BY <1>3, FrameRow
    <2>2. HandlerType' /\ InboxType' /\ pc' = [pc EXCEPT ![p] = "compute"] BY <1>1, <1>3, ContinueType
    <2>3. Targeted' BY <1>2, <2>2, TargetedStep
    <2> QED BY <1>2, <2>1, <2>2, <2>3
  <1>4. CASE /\ ClaimApproval(Ctl(p)) \/ ClaimFinalization(Ctl(p))
             /\ Goto(p, label) /\ UNCHANGED inbox
    <2>1. RowType' BY <1>4, ClaimType
    <2>2. HandlerType' /\ InboxType' BY <1>4, GotoType, FrameInbox
    <2>3. Targeted' BY <1>2, <1>4, GotoLabel, TargetedStep
    <2> QED BY <1>2, <2>1, <2>2, <2>3
  <1> QED BY <1>3, <1>4

\* ApprovalWaitOver (resumeTurnAfterApproval) preserves the type invariant.
LEMMA ApprovalWaitOverType ==
  ASSUME TypeInv, NEW p \in Procs, ApprovalWaitOver(p)
  PROVE  TypeInv'
  <1> "suspend" \in Labels BY DEF Labels, RunLabels
  <1> QED BY WaitOverType DEF ApprovalWaitOver

\* ClaimWaitOver (claimFinalReply) preserves the type invariant.
LEMMA ClaimWaitOverType ==
  ASSUME TypeInv, NEW p \in Procs, ClaimWaitOver(p)
  PROVE  TypeInv'
  <1> "publish" \in Labels BY DEF Labels, RunLabels
  <1> QED BY WaitOverType DEF ClaimWaitOver

\* ClaimReply (claimFinalReply) preserves the type invariant.
LEMMA ClaimReplyType ==
  ASSUME TypeInv, NEW p \in Procs, ClaimReply(p)
  PROVE  TypeInv'
  <1> USE DEF TypeInv
  <1> {"publish", "claimWait"} \subseteq Labels BY DEF Labels, RunLabels
  <1>1. RowType' BY FrameRow, ClaimType DEF ClaimReply
  <1>2. HandlerType' BY GotoType DEF ClaimReply
  <1>3. InboxType' BY FrameInbox DEF ClaimReply
  <1>4. ApprovalType' /\ HistoryType' BY FrameApproval, FrameHistory DEF ClaimReply
  <1>5. Targeted' BY FrameApproval, GotoLabel, TargetedStep DEF ClaimReply
  <1> QED BY <1>1, <1>2, <1>3, <1>4, <1>5

\* The label of a handler that returned through its wrapper.
LEMMA LeaveLabel ==
  ASSUME NEW p, Leave(p)
  PROVE  pc' = [pc EXCEPT ![p] = "done"]
  BY FinishLabel DEF Leave

\* The common end of a handler: it leaves, whatever its approval became.
LEMMA LeaveKeeps ==
  ASSUME TypeInv, NEW p \in Procs, pc[p] \notin {"new", "done"}, Leave(p),
         UNCHANGED <<inbox, target>>, ApprovalType', HistoryType'
  PROVE  TypeInv'
  <1> USE DEF TypeInv
  <1>1. RowType' /\ HandlerType' BY LeaveType
  <1>2. InboxType' BY FrameInbox
  <1>3. Targeted' BY LeaveLabel, TargetedStep
  <1> QED BY <1>1, <1>2, <1>3

\* A handler parks elsewhere, whatever its approval became.
LEMMA GotoKeeps ==
  ASSUME TypeInv, NEW p \in Procs, pc[p] \notin {"new", "done"},
         NEW label \in Labels, Goto(p, label),
         UNCHANGED <<inbox, target>>, RowType', ApprovalType', HistoryType'
  PROVE  TypeInv'
  <1> USE DEF TypeInv
  <1>1. HandlerType' BY GotoType
  <1>2. InboxType' BY FrameInbox
  <1>3. Targeted' BY GotoLabel, TargetedStep
  <1> QED BY <1>1, <1>2, <1>3

\* A handler returns, whatever its approval became.
LEMMA FinishKeeps ==
  ASSUME TypeInv, NEW p \in Procs, pc[p] \notin {"new", "done"}, Finish(p),
         UNCHANGED <<inbox, target>>, RowType', ApprovalType', HistoryType'
  PROVE  TypeInv'
  <1> USE DEF TypeInv
  <1>1. HandlerType' BY FinishType
  <1>2. InboxType' BY FrameInbox
  <1>3. Targeted' BY FinishLabel, TargetedStep
  <1> QED BY <1>1, <1>2, <1>3

\* A handler has something to post, whatever its approval became.
LEMMA ToPostKeeps ==
  ASSUME TypeInv, NEW p \in Procs, pc[p] \notin {"new", "done"},
         NEW kind \in {"answer", "error"}, ToPost(p, kind),
         UNCHANGED <<inbox, target>>, UNCHANGED rowVars, ApprovalType', HistoryType'
  PROVE  TypeInv'
  <1> USE DEF TypeInv
  <1>1. HandlerType' BY DEF HandlerType, ToPost, At, Labels, PostLabels
  <1>2. InboxType' /\ RowType' BY FrameInbox, FrameRow
  <1>3. Targeted' BY TargetedStep DEF ToPost, At
  <1> QED BY <1>1, <1>2, <1>3

\* A new status keeps the approvals well formed.
LEMMA SetApprovalType ==
  ASSUME ApprovalType, NEW a, NEW s \in ApprovalStatus
  PROVE  SetApproval(a, s) \in [Approvals -> [status : ApprovalStatus, rev : Nat,
                              card : {"none", "up", "armed"}, late : BOOLEAN]]
  BY DEF ApprovalType, SetApproval

\* The approvals after one of them got a new status, or none did.
LEMMA ApprovalStep ==
  ASSUME ApprovalType, NEW a, NEW s \in ApprovalStatus, appr' = appr \/ appr' = SetApproval(a, s),
         UNCHANGED <<target, verdict, ran>>
  PROVE  ApprovalType'
  BY SetApprovalType DEF ApprovalType

\* RunFails (runSlackTurnInner) preserves the type invariant.
LEMMA RunFailsType ==
  ASSUME TypeInv, NEW p \in Procs, RunFails(p)
  PROVE  TypeInv'
  <1> USE DEF TypeInv
  <1>0. pc[p] \notin {"new", "done"} BY DEF RunFails, RunLabels
  <1>1. UNCHANGED <<inbox, target>> /\ HistoryType' BY FrameHistory DEF RunFails
  <1>2. ApprovalType' BY ApprovalStep DEF RunFails, ApprovalStatus
  <1>3. Leave(p) \/ (ToPost(p, "error") /\ UNCHANGED rowVars) BY DEF RunFails
  <1> QED BY <1>0, <1>1, <1>2, <1>3, LeaveKeeps, ToPostKeeps

\* DeliverReply (runSlackApprovalDecisionInner) preserves the type invariant.
LEMMA DeliverReplyType ==
  ASSUME TypeInv, NEW p \in Procs, DeliverReply(p)
  PROVE  TypeInv'
  <1> USE DEF TypeInv
  <1>0. pc[p] \notin {"new", "done"} BY DEF DeliverReply
  <1>1. UNCHANGED <<inbox, target>> /\ HistoryType' BY FrameHistory DEF DeliverReply
  <1>2. ApprovalType' BY ApprovalStep DEF DeliverReply, ApprovalStatus
  <1>3. Leave(p) \/ (ToPost(p, "answer") /\ UNCHANGED rowVars) BY DEF DeliverReply
  <1> QED BY <1>0, <1>1, <1>2, <1>3, LeaveKeeps, ToPostKeeps

\* The revision a handler works for is a number as long as it is under way: a
\* click has its target.
LEMMA CtlType ==
  ASSUME TypeInv, NEW p \in Procs, pc[p] \notin {"new", "done"}
  PROVE  Ctl(p) \in Nat
  <1>1. CASE p \in Msgs
    BY <1>1 DEF Ctl, TypeInv, HandlerType
  <1>2. CASE p \notin Msgs
    BY <1>2 DEF Ctl, TypeInv, Targeted, ApprovalType, Procs
  <1> QED BY <1>1, <1>2

\* An entry of the history is well formed.
LEMMA PostedType ==
  ASSUME HistoryType, NEW r \in Nat, NEW k \in {"answer", "recovered"}
  PROVE  Append(posted, [rev |-> r, kind |-> k]) \in Seq([rev : Nat, kind : {"answer", "recovered"}])
  BY DEF HistoryType

\* PostReply (finalize) preserves the type invariant.
LEMMA PostReplyType ==
  ASSUME TypeInv, NEW p \in Procs, PostReply(p)
  PROVE  TypeInv'
  <1> USE DEF TypeInv
  <1>0. pc[p] \notin {"new", "done"} BY DEF PostReply
  <1>1. Ctl(p) \in Nat BY <1>0, CtlType
  <1>2. HistoryType' BY <1>1, PostedType DEF PostReply, HistoryType
  <1>3. UNCHANGED <<inbox, target>> /\ ApprovalType' /\ RowType'
    BY FrameApproval, FrameRow DEF PostReply, controlVars, rowVars
  <1>4. Goto(p, "posted") /\ "posted" \in Labels BY DEF PostReply, Labels, PostLabels
  <1> QED BY <1>0, <1>2, <1>3, <1>4, GotoKeeps

\* PostThrows (postFallback) preserves the type invariant.
LEMMA PostThrowsType ==
  ASSUME TypeInv, NEW p \in Procs, PostThrows(p)
  PROVE  TypeInv'
  <1>1. ApprovalType' /\ HistoryType' /\ target' = target
    BY FrameApproval, FrameHistory DEF PostThrows, TypeInv
  <1> QED BY <1>1, LeaveKeeps DEF PostThrows

\* The delivery checkpoint keeps the snapshots well formed.
LEMMA CheckpointType ==
  ASSUME HandlerType, NEW p \in Procs, NEW label \in Labels, At(p, label), Checkpoint(p)
  PROVE  HandlerType'
  BY DEF HandlerType, At, Checkpoint

\* RecordReply (runSlackTurnInner) preserves the type invariant.
LEMMA RecordReplyType ==
  ASSUME TypeInv, NEW p \in Procs, RecordReply(p)
  PROVE  TypeInv'
  <1> USE DEF TypeInv
  <1>0. pc[p] \notin {"new", "done"} BY DEF RecordReply
  <1>1. InboxType' /\ ApprovalType' /\ HistoryType' /\ target' = target /\ inbox' = inbox
    BY FrameApproval, FrameHistory, FrameInbox DEF RecordReply
  <1>2. CASE At(p, "writeback") /\ Checkpoint(p) /\ UNCHANGED rowVars
    <2>1. HandlerType' BY <1>2, CheckpointType DEF Labels, PostLabels
    <2>2. RowType' /\ Targeted' BY <1>0, <1>1, <1>2, FrameRow, TargetedStep DEF At
    <2> QED BY <1>1, <2>1, <2>2
  <1>3. CASE Leave(p)
    BY <1>0, <1>1, <1>3, LeaveKeeps
  <1> QED BY <1>2, <1>3 DEF RecordReply

\* CompleteTurn (runSlackTurnInner) preserves the type invariant.
LEMMA CompleteTurnType ==
  ASSUME TypeInv, NEW p \in Procs, CompleteTurn(p)
  PROVE  TypeInv'
  <1>1. ApprovalType' /\ HistoryType' /\ target' = target
    BY FrameApproval, FrameHistory DEF CompleteTurn, TypeInv
  <1>2. RowType' BY CompletedType DEF CompleteTurn, TypeInv
  <1> QED BY <1>1, <1>2, FinishKeeps DEF CompleteTurn

\* markThreadTurnWaitingApproval stamps the row and drops the controller.
LEMMA MarkWaitingType ==
  ASSUME RowType, MarkWaiting
  PROVE  RowType'
  <1>1. turn' \in Row BY StampedType DEF RowType, MarkWaiting, TurnStatus
  <1> QED BY <1>1 DEF RowType, MarkWaiting, NoActive

\* Suspend (runSlackTurnInner) preserves the type invariant.
LEMMA SuspendType ==
  ASSUME TypeInv, NEW p \in Procs, Suspend(p)
  PROVE  TypeInv'
  <1> USE DEF TypeInv
  <1>0. pc[p] \notin {"new", "done"} BY DEF Suspend
  <1>1. HistoryType' /\ UNCHANGED <<inbox, target>> BY FrameHistory DEF Suspend
  <1>2. CASE IsCurrent(Ctl(p))
    <2>1. Ctl(p) \in Nat BY <1>0, CtlType
    <2>2. ApprovalType'
      <3> DEFINE Record == [status : ApprovalStatus, rev : Nat, card : {"none", "up", "armed"}, late : BOOLEAN]
      <3>1. [NoApproval EXCEPT !.status = "pending", !.rev = Ctl(p)] \in Record
        BY <2>1 DEF NoApproval, ApprovalStatus
      <3>2. \A a \in Approvals : appr[a] \in Record /\ [appr[a] EXCEPT !.status = "executed"] \in Record
        BY DEF ApprovalType, ApprovalStatus
      <3> HIDE DEF Record
      <3>3. appr' \in [Approvals -> Record]
        BY <1>2, <3>1, <3>2 DEF Suspend
      <3> QED BY <3>3 DEF ApprovalType, Suspend, Record
    <2>3. RowType' BY <1>2, MarkWaitingType DEF Suspend
    <2>4. Goto(p, "card") /\ "card" \in Labels BY <1>2 DEF Suspend, Labels, PostLabels
    <2> QED BY <1>0, <1>1, <2>2, <2>3, <2>4, GotoKeeps
  <1>3. CASE ~IsCurrent(Ctl(p))
    <2>1. ApprovalType' BY <1>3 DEF Suspend, ApprovalType
    <2> QED BY <1>0, <1>1, <1>3, <2>1, LeaveKeeps DEF Suspend
  <1> QED BY <1>2, <1>3

\* The card of an approval goes up.
LEMMA CardType ==
  ASSUME ApprovalType, NEW a, NEW k \in {"up", "armed"},
         appr' = [appr EXCEPT ![a].card = k],
    UNCHANGED <<target, verdict, ran>>
  PROVE  ApprovalType'
  BY DEF ApprovalType

\* PostCard (runSlackApprovalDecisionInner) preserves the type invariant.
LEMMA PostCardType ==
  ASSUME TypeInv, NEW p \in Procs, PostCard(p)
  PROVE  TypeInv'
  <1> USE DEF TypeInv
  <1>0. pc[p] \notin {"new", "done"} /\ {"cardPosted", "cardFailed"} \subseteq Labels
    BY DEF PostCard, Labels, PostLabels
  <1>1. HistoryType' /\ UNCHANGED <<inbox, target>> BY FrameHistory DEF PostCard
  <1>2. CASE Leave(p) /\ UNCHANGED appr
    <2>1. ApprovalType' BY <1>2 DEF PostCard, ApprovalType
    <2> QED BY <1>0, <1>1, <1>2, <2>1, LeaveKeeps
  <1>3. CASE appr' = [appr EXCEPT ![ApprovalOf(p)].card = "up"] /\ Goto(p, "cardPosted") /\ UNCHANGED rowVars
    <2>1. ApprovalType' BY <1>3, CardType DEF PostCard
    <2>2. RowType' BY <1>3, FrameRow
    <2> QED BY <1>0, <1>1, <1>3, <2>1, <2>2, GotoKeeps
  <1>4. CASE appr' = SetApproval(ApprovalOf(p), "error") /\ Goto(p, "cardFailed") /\ UNCHANGED rowVars
    <2>1. ApprovalType' BY <1>4, ApprovalStep DEF PostCard, ApprovalStatus
    <2>2. RowType' BY <1>4, FrameRow
    <2> QED BY <1>0, <1>1, <1>4, <2>1, <2>2, GotoKeeps
  <1> QED BY <1>2, <1>3, <1>4 DEF PostCard

\* CardFallback (runSlackTurnInner) preserves the type invariant.
LEMMA CardFallbackType ==
  ASSUME TypeInv, NEW p \in Procs, CardFallback(p)
  PROVE  TypeInv'
  <1>1. ApprovalType' /\ HistoryType' /\ target' = target
    BY FrameApproval, FrameHistory DEF CardFallback, TypeInv
  <1>2. RowType' BY CompletedType DEF CardFallback, TypeInv
  <1> QED BY <1>1, <1>2, FinishKeeps DEF CardFallback

\* RecordCard (runSlackTurnInner) preserves the type invariant.
LEMMA RecordCardType ==
  ASSUME TypeInv, NEW p \in Procs, RecordCard(p)
  PROVE  TypeInv'
  <1> USE DEF TypeInv
  <1>1. RowType' /\ InboxType' /\ HistoryType'
    BY FrameRow, FrameInbox, FrameHistory DEF RecordCard, controlVars, rowVars
  <1>2. HandlerType' BY CheckpointType DEF RecordCard, Labels, PostLabels
  <1>3. ApprovalType' BY CardType DEF RecordCard
  <1>4. Targeted' BY TargetedStep DEF RecordCard, At
  <1> QED BY <1>1, <1>2, <1>3, <1>4

\* LeaveSuspended (runSlackTurnInner) preserves the type invariant.
LEMMA LeaveSuspendedType ==
  ASSUME TypeInv, NEW p \in Procs, LeaveSuspended(p)
  PROVE  TypeInv'
  <1>1. ApprovalType' /\ HistoryType' /\ target' = target
    BY FrameApproval, FrameHistory DEF LeaveSuspended, TypeInv
  <1> QED BY <1>1, LeaveKeeps DEF LeaveSuspended

\* Click (runSlackApprovalDecisionInner) preserves the type invariant.
LEMMA ClickType ==
  ASSUME TypeInv, NEW c \in Clicks, NEW a \in Approvals,
         NEW approved \in BOOLEAN,
    Click(c, a, approved)
  PROVE  TypeInv'
  <1> USE DEF TypeInv
  <1> c \in Procs BY DEF Procs
  <1>1. RowType' /\ InboxType' /\ HistoryType'
    BY FrameRow, FrameInbox, FrameHistory DEF Click, controlVars, rowVars
  <1>2. CASE appr[a].status = "pending" /\ ~appr[a].late
    <2>1. HandlerType' BY <1>2, GotoType DEF Click, Labels, ClickLabels
    <2>2. ApprovalType' BY <1>2 DEF Click, ApprovalType
    <2>3. pc' = [pc EXCEPT ![c] = "clickWait"] /\ target' = [target EXCEPT ![c] = a]
      BY <1>2, GotoLabel DEF Click
    <2>4. Targeted' BY <2>3 DEF Targeted, ApprovalType, HandlerType
    <2> QED BY <1>1, <2>1, <2>2, <2>4
  <1>3. CASE ~(appr[a].status = "pending" /\ ~appr[a].late)
    <2>1. HandlerType' BY <1>3, FinishType DEF Click
    <2>2. ApprovalType' BY <1>3, ApprovalStep DEF Click, ApprovalStatus
    <2>3. pc' = [pc EXCEPT ![c] = "done"] /\ target' = target
      BY <1>3, FinishLabel DEF Click
    <2>4. Targeted' BY <2>3 DEF Targeted, HandlerType
    <2> QED BY <1>1, <2>1, <2>2, <2>4
  <1> QED BY <1>2, <1>3

\* ClickChecked (runSlackApprovalDecisionInner) preserves the type invariant.
LEMMA ClickCheckedType ==
  ASSUME TypeInv, NEW c \in Clicks, ClickChecked(c)
  PROVE  TypeInv'
  <1> USE DEF TypeInv
  <1> c \in Procs BY DEF Procs
  <1>0. pc[c] \notin {"new", "done"} BY DEF ClickChecked
  <1>1. RowType' /\ HistoryType' /\ target' = target BY FrameRow, FrameHistory DEF ClickChecked
  <1>2. InboxType' BY FailedOpenType DEF ClickChecked, InboxType
  <1>3. ApprovalType' BY ApprovalStep DEF ClickChecked, ApprovalStatus
  <1>4. HandlerType' BY GotoType, FinishType DEF ClickChecked, Labels, ClickLabels
  <1>5. Targeted' BY <1>0, <1>1, GotoLabel, FinishLabel, TargetedStep DEF ClickChecked
  <1> QED BY <1>1, <1>2, <1>3, <1>4, <1>5

\* Decide (runSlackApprovalDecisionInner) preserves the type invariant.
LEMMA DecideType ==
  ASSUME TypeInv, NEW c \in Clicks, Decide(c)
  PROVE  TypeInv'
  <1> USE DEF TypeInv
  <1> c \in Procs BY DEF Procs
  <1>0. pc[c] \notin {"new", "done"} BY DEF Decide
  <1>1. RowType' /\ InboxType' /\ HistoryType' /\ UNCHANGED <<inbox, target>>
    BY FrameRow, FrameInbox, FrameHistory DEF Decide, controlVars, rowVars
  <1>3. ApprovalType' BY ApprovalStep DEF Decide, ApprovalStatus
  <1>4. Goto(c, "decided") \/ Finish(c) BY DEF Decide
  <1>5. "decided" \in Labels BY DEF Labels, ClickLabels
  <1> QED BY <1>0, <1>1, <1>3, <1>4, <1>5, GotoKeeps, FinishKeeps

\* Resume (runSlackApprovalDecisionInner) preserves the type invariant.
LEMMA ResumeType ==
  ASSUME TypeInv, NEW c \in Clicks, Resume(c)
  PROVE  TypeInv'
  <1> USE DEF TypeInv
  <1> c \in Procs BY DEF Procs
  <1>0. pc[c] \notin {"new", "done"} BY DEF Resume
  <1>1. HistoryType' /\ UNCHANGED <<inbox, target>> BY FrameHistory DEF Resume
  <1>2. ApprovalType' BY ApprovalStep DEF Resume, ApprovalStatus
  <1>3. RowType'
    <2>1. CASE ResumeTurn(c)
      <3>1. turn' \in Row BY <2>1, StampedType DEF ResumeTurn, RowType, TurnStatus
      <3>2. turn.rev \in Nat BY DEF RowType, Row
      <3>3. SetActive(turn.rev, c) BY <2>1 DEF ResumeTurn
      <3>4. /\ active' \in [rev : Nat, proc : Procs \cup {NoProc}]
            /\ aborted' \subseteq Procs
            /\ active'.rev # 0 => active'.proc \in Procs
        <4>1. active' = [rev |-> turn.rev, proc |-> c] BY <3>3 DEF SetActive
        <4>2. aborted' \subseteq aborted \cup {active.proc} /\ (aborted' \subseteq aborted \/ active.rev # 0)
          BY <3>3 DEF SetActive
        <4> QED BY <4>1, <4>2, <3>2 DEF RowType
      <3> QED BY <3>1, <3>4 DEF RowType
    <2>2. CASE UNCHANGED rowVars BY <2>2, FrameRow
    <2> QED BY <2>1, <2>2 DEF Resume
  <1>4. Finish(c) \/ Goto(c, "execute") \/ Goto(c, "compute") BY DEF Resume
  <1>5. "execute" \in Labels /\ "compute" \in Labels BY DEF Labels, RunLabels
  <1> QED BY <1>0, <1>1, <1>2, <1>3, <1>4, <1>5, GotoKeeps, FinishKeeps

\* Execute (resumeTurnAfterApproval) preserves the type invariant.
LEMMA ExecuteType ==
  ASSUME TypeInv, NEW c \in Clicks, Execute(c)
  PROVE  TypeInv'
  <1> USE DEF TypeInv
  <1> c \in Procs BY DEF Procs
  <1>0. pc[c] \notin {"new", "done"} BY DEF Execute
  <1>1. RowType' /\ HistoryType' /\ UNCHANGED <<inbox, target>>
    BY FrameRow, FrameHistory DEF Execute, controlVars, rowVars
  <1>2. ApprovalType'
    <2>1. ran' = [ran EXCEPT ![target[c]] = @ + 1] /\ UNCHANGED <<appr, target, verdict>>
      BY DEF Execute
    <2>2. target[c] \in Approvals BY <1>0 DEF Targeted
    <2>3. ran[target[c]] + 1 \in Nat BY <2>2 DEF ApprovalType
    <2>4. ran' \in [Approvals -> Nat] BY <2>1, <2>3 DEF ApprovalType
    <2> QED BY <2>1, <2>4 DEF ApprovalType
  <1>5. Goto(c, "compute") /\ "compute" \in Labels BY DEF Execute, Labels, RunLabels
  <1> QED BY <1>0, <1>1, <1>2, <1>5, GotoKeeps

\* TurnAges (isSteerableThreadTurn) preserves the type invariant.
LEMMA TurnAgesType ==
  ASSUME TypeInv, TurnAges
  PROVE  TypeInv'
  <1> USE DEF TypeInv
  <1>1. RowType' BY DEF TurnAges, RowType, Row
  <1>2. HandlerType' /\ Targeted' BY DEF TurnAges, HandlerType, handlerVars, Targeted, approvalVars
  <1>3. InboxType' /\ ApprovalType' /\ HistoryType' BY FrameInbox, FrameApproval, FrameHistory DEF TurnAges
  <1> QED BY <1>1, <1>2, <1>3

\* The two steps of the clock on an approval preserve the type invariant.
LEMMA ApprovalAgesType ==
  ASSUME TypeInv, NEW a \in Approvals, ApprovalAges(a) \/ ExpiryTimer(a)
  PROVE  TypeInv'
  <1> USE DEF TypeInv
  <1> USE DEF ApprovalAges, ExpiryTimer
  <1>1. RowType' /\ InboxType' /\ HistoryType'
    BY FrameRow, FrameInbox, FrameHistory DEF controlVars, rowVars
  <1>2. HandlerType' /\ Targeted' BY DEF HandlerType, handlerVars, Targeted
  <1>3. ApprovalType'
    <2>1. CASE ApprovalAges(a) BY <2>1 DEF ApprovalType
    <2>2. CASE ExpiryTimer(a) BY <2>2, ApprovalStep DEF ApprovalStatus
    <2> QED BY <2>1, <2>2
  <1> QED BY <1>1, <1>2, <1>3

\* Crash (runSlackTurnFiber) preserves the type invariant.
LEMMA CrashType ==
  ASSUME TypeInv, Crash
  PROVE  TypeInv'
  <1> USE DEF TypeInv
  <1>1. RowType' BY DEF Crash, RowType, NoActive
  <1>2. HandlerType' BY DEF Crash, HandlerType, Nothing, Expectation, TurnStatus, Labels, MsgLabels
  <1>3. InboxType' /\ ApprovalType' BY FrameInbox, FrameApproval DEF Crash
  <1>4. HistoryType' BY RunAssumption DEF Crash, HistoryType
  <1>5. Targeted' BY ThreadAssumption DEF Crash, Targeted, approvalVars, HandlerType, Procs
  <1> QED BY <1>1, <1>2, <1>3, <1>4, <1>5

\* RecoverFiber (onFiberRecovered) preserves the type invariant.
LEMMA RecoverFiberType ==
  ASSUME TypeInv, NEW m \in Msgs, RecoverFiber(m)
  PROVE  TypeInv'
  <1> USE DEF TypeInv
  <1> m \in Procs BY DEF Procs
  <1>0. pc[m] \notin {"new", "done"} /\ {"recoverPost", "intake"} \subseteq Labels
    BY DEF RecoverFiber, Labels, MsgLabels
  <1>1. ApprovalType' /\ HistoryType' /\ InboxType' /\ UNCHANGED <<inbox, target>>
    BY FrameApproval, FrameHistory, FrameInbox DEF RecoverFiber
  <1>2. CASE Finish(m) /\ UNCHANGED rowVars
    <2>1. RowType' BY <1>2, FrameRow
    <2> QED BY <1>0, <1>1, <1>2, <2>1, FinishKeeps
  <1>3. CASE SettleInterrupted("completed") /\ Goto(m, "recoverPost")
    <2>1. RowType' BY <1>3, SettleType DEF SettleInterrupted, TurnStatus, Terminal
    <2> QED BY <1>0, <1>1, <1>3, <2>1, GotoKeeps
  <1>4. CASE /\ fiber' = [fiber EXCEPT ![m].attempt = 1]
             /\ At(m, "intake")
             /\ UNCHANGED <<saw, reply>>
             /\ UNCHANGED rowVars
    <2>1. RowType' BY <1>4, FrameRow
    <2>2. HandlerType' BY <1>0, <1>4 DEF HandlerType, At
    <2>3. Targeted' BY <1>0, <1>1, <1>4, TargetedStep DEF At
    <2> QED BY <1>1, <2>1, <2>2, <2>3
  <1> QED BY <1>2, <1>3, <1>4 DEF RecoverFiber

\* RecoverPost (finalizeInterruptedSlackTurn) preserves the type invariant.
LEMMA RecoverPostType ==
  ASSUME TypeInv, NEW m \in Msgs, RecoverPost(m)
  PROVE  TypeInv'
  <1> USE DEF TypeInv
  <1> m \in Procs BY DEF Procs
  <1>0. pc[m] \notin {"new", "done"} BY DEF RecoverPost
  <1>1. fiber[m].rev \in Nat BY DEF HandlerType
  <1>2. HistoryType' BY <1>1, PostedType DEF RecoverPost, HistoryType
  <1>3. UNCHANGED <<inbox, target>> /\ ApprovalType' /\ RowType'
    BY FrameApproval, FrameRow DEF RecoverPost, controlVars, rowVars
  <1> QED BY <1>0, <1>2, <1>3, FinishKeeps DEF RecoverPost

\* A step that changes nothing preserves the type invariant.
LEMMA StutterType ==
  ASSUME TypeInv, UNCHANGED vars
  PROVE  TypeInv'
  <1> USE DEF TypeInv
  <1>1. RowType' /\ InboxType' /\ ApprovalType' /\ HistoryType'
    BY FrameRow, FrameInbox, FrameApproval, FrameHistory DEF vars, controlVars, rowVars
  <1>2. HandlerType' /\ Targeted' BY DEF vars, handlerVars, approvalVars, HandlerType, Targeted
  <1> QED BY <1>1, <1>2

\* Every step preserves the type invariant.
LEMMA NextType ==
  ASSUME TypeInv, [Next]_vars
  PROVE  TypeInv'
  <1>1. CASE UserActs
    BY <1>1, AcceptType, ClickType DEF UserActs
  <1>2. ASSUME NEW m \in Msgs, Intake(m) \/ Recovery(m) PROVE TypeInv'
    BY <1>2, DeclineType, ArriveType, ArriveRecoveredType, AwaitFinalizationType,
       GateAnswersType, BeginTurnType, RecoverFiberType, RecoverPostType
       DEF Intake, Recovery
  <1>3. ASSUME NEW c \in Clicks, Decision(c) PROVE TypeInv'
    BY <1>3, ClickCheckedType, DecideType, ResumeType, ExecuteType DEF Decision
  <1>4. ASSUME NEW p \in Procs, Run(p) PROVE TypeInv'
    BY <1>4, ModelStepType, FinishModelType, RequestApprovalType, ApprovalWaitOverType,
       ClaimReplyType, ClaimWaitOverType, RunFailsType, DeliverReplyType, PostReplyType,
       PostThrowsType, RecordReplyType, CompleteTurnType, SuspendType, PostCardType,
       CardFallbackType, RecordCardType, LeaveSuspendedType
       DEF Run
  <1>5. CASE Environment
    BY <1>5, TurnAgesType, ApprovalAgesType, CrashType DEF Environment
  <1> QED BY <1>1, <1>2, <1>3, <1>4, <1>5, StutterType DEF Next

\* Every state of a thread has the shape TypeOK describes, for any number of
\* messages and clicks: the tables of the brain hold only the statuses the
\* code writes.
THEOREM TypeCorrect == Spec => []TypeOK
  <1>1. Spec => []TypeInv
    BY InitType, NextType, PTL DEF Spec
  <1> QED BY <1>1, TypeInvTypeOK, PTL

-----------------------------------------------------------------------------
(* The inbox of a claimed turn *)

\* The statuses of an update nobody has read.
Unread == {"classifying", "pending"}
\* The step adds no unread update and moves none to another turn.
NoNewUpdate == \A m \in Msgs : inbox'[m].status \in Unread =>
                   inbox[m].status \in Unread /\ inbox'[m].rev = inbox[m].rev
\* The step claims no turn for its final reply.
NoNewClaim == turn'.status = "finalizing" => turn.status = "finalizing" /\ turn'.rev = turn.rev

\* A claimed inbox stays empty in a step that makes no claim and adds no
\* unread update.
LEMMA SealFrame ==
  ASSUME ClaimSealsInbox, NoNewUpdate, NoNewClaim
  PROVE  ClaimSealsInbox'
  BY DEF ClaimSealsInbox, NoNewUpdate, NoNewClaim, InboxEmpty, UpdatesOf, Unread

\* Completing a turn claims nothing.
LEMMA CompletedSeal ==
  ASSUME NEW r, turn \in Row, MarkCompleted(r)
  PROVE  NoNewClaim
  BY DEF MarkCompleted, Stamped, Row, NoNewClaim

\* Reaping a turn claims nothing.
LEMMA ReapSeal ==
  ASSUME NEW r, turn \in Row, Reap(r)
  PROVE  NoNewClaim
  BY CompletedSeal DEF Reap, NoNewClaim

\* A status other than finalizing claims nothing.
LEMMA StampedSeal ==
  ASSUME NEW s, turn \in Row, s # "finalizing", turn' = Stamped(turn, s)
  PROVE  NoNewClaim
  BY DEF Stamped, Row, NoNewClaim

\* A step that leaves the row alone claims nothing.
LEMMA FrameRowSeal ==
  ASSUME UNCHANGED rowVars
  PROVE  NoNewClaim
  BY DEF rowVars, NoNewClaim

\* A step that leaves the inbox alone adds no unread update.
LEMMA FrameSeal ==
  ASSUME InboxType, UNCHANGED inbox
  PROVE  NoNewUpdate
  BY DEF NoNewUpdate

\* Failing open and consuming only take updates out of the unread ones.
LEMMA ConsumedSeal ==
  ASSUME InboxType, NEW r, NEW q,
    NEW box \in {inbox, FailedOpen(inbox, q)}, inbox' = Consumed(box, r) \/ inbox' = box
  PROVE  NoNewUpdate
  BY DEF NoNewUpdate, InboxType, Consumed, FailedOpen, Unread, UpdateStatus

\* An update is reserved while the turn is steerable, and such a turn is not
\* claimed.
LEMMA ReserveSeal ==
  ASSUME NEW m \in Msgs, UNCHANGED rowVars, IsSteerable(turn)
  PROVE  ClaimSealsInbox'
  BY DEF IsSteerable, rowVars, ClaimSealsInbox

\* One pass of the steering loop.
LEMMA SteerSeal ==
  ASSUME TypeInv, ClaimSealsInbox, NEW m \in Msgs, NEW box \in {inbox,
         Discarded(m)}, Steer(m, box)
  PROVE  ClaimSealsInbox'
  <1> turn \in Row BY DEF TypeInv, RowType
  <1>1. CASE inbox' = box
    <2>1. NoNewUpdate
      BY <1>1 DEF NoNewUpdate, Discarded, NoUpdate, TypeInv, InboxType, Unread
    <2>2. CASE UNCHANGED rowVars BY <2>1, <2>2, FrameRowSeal, SealFrame
    <2>3. CASE Interrupt("cancelled") BY <2>1, <2>3, StampedSeal, SealFrame DEF Interrupt
    <2>4. CASE IsSteerable(turn) /\ UNCHANGED rowVars BY <2>4, ReserveSeal
    <2> QED BY <2>2, <2>3, <2>4 DEF Steer
  <1>2. CASE IsSteerable(turn) /\ UNCHANGED rowVars BY <1>2, ReserveSeal
  <1> QED BY <1>1, <1>2 DEF Steer

\* The answer of the gate: every branch that changes an update has looked at
\* the row again in the same step.
LEMMA GateSeal ==
  ASSUME TypeInv, ClaimSealsInbox, NEW m \in Msgs, GateAnswers(m)
  PROVE  ClaimSealsInbox'
  <1> turn \in Row BY DEF TypeInv, RowType
  <1>1. CASE Steer(m, Discarded(m)) BY <1>1, SteerSeal
  <1>2. CASE IsSteerable(turn) /\ UNCHANGED rowVars BY <1>2, ReserveSeal
  <1>3. CASE Interrupt("superseded")
    BY <1>3 DEF Interrupt, Stamped, Row, ClaimSealsInbox
  <1> QED BY <1>1, <1>2, <1>3 DEF GateAnswers

\* The steps of a message before its turn, and those of its recovery.
LEMMA IntakeSeal ==
  ASSUME TypeInv, ClaimSealsInbox, NEW m \in Msgs,
         Intake(m) \/ Recovery(m) \/ Accept(m)
  PROVE  ClaimSealsInbox'
  <1> turn \in Row /\ InboxType BY DEF TypeInv, RowType
  <1>1. CASE Decline(m) \/ Accept(m) \/ RecoverPost(m)
    BY <1>1, FrameRowSeal, FrameSeal, SealFrame DEF Decline, Accept, RecoverPost, controlVars, rowVars
  <1>2. CASE Arrive(m) BY <1>2, SteerSeal DEF Arrive
  <1>3. CASE ArriveRecovered(m)
    BY <1>3, FrameRowSeal, StampedSeal, FrameSeal, SealFrame DEF ArriveRecovered, SettleInterrupted
  <1>4. CASE AwaitFinalization(m)
    <2>1. CASE Steer(m, inbox) BY <2>1, SteerSeal
    <2>2. CASE turn' = Stamped(turn, "completed") /\ UNCHANGED inbox
      BY <2>2, StampedSeal, FrameSeal, SealFrame
    <2> QED BY <1>4, <2>1, <2>2 DEF AwaitFinalization
  <1>5. CASE GateAnswers(m) BY <1>5, GateSeal
  <1>6. CASE BeginTurn(m)
    <2>1. NoNewClaim BY <1>6, FrameRowSeal DEF BeginTurn, Begin, NoNewClaim
    <2> QED BY <1>6, <2>1, FrameSeal, SealFrame DEF BeginTurn
  <1>7. CASE RecoverFiber(m)
    BY <1>7, FrameRowSeal, StampedSeal, FrameSeal, SealFrame DEF RecoverFiber, SettleInterrupted
  <1> QED BY <1>1, <1>2, <1>3, <1>4, <1>5, <1>6, <1>7 DEF Intake, Recovery

\* claimThreadTurnFinalizationIfInboxEmpty claims a turn whose inbox is empty.
LEMMA ClaimSeal ==
  ASSUME TypeInv, NEW r, ClaimFinalization(r), UNCHANGED inbox
  PROVE  ClaimSealsInbox'
  <1> turn \in Row /\ InboxType BY DEF TypeInv, RowType
  <1>1. turn'.rev = r /\ InboxEmpty(r) BY DEF ClaimFinalization, Stamped, Row
  <1> QED BY <1>1 DEF ClaimSealsInbox, InboxEmpty, UpdatesOf

\* The claim for an approval is not a claim for the final reply.
LEMMA ClaimApprovalSeal ==
  ASSUME NEW r, ClaimApproval(r)
  PROVE  NoNewClaim
  BY DEF ClaimApproval, Stamped, NoNewClaim

\* The steps of a run.
LEMMA RunSeal ==
  ASSUME TypeInv, ClaimSealsInbox, NEW p \in Procs, Run(p)
  PROVE  ClaimSealsInbox'
  <1> turn \in Row /\ InboxType BY DEF TypeInv, RowType
  <1>1. CASE ModelStep(p)
    <2>1. NoNewUpdate BY <1>1, ConsumedSeal DEF ModelStep
    <2> QED BY <1>1, <2>1, FrameRowSeal, SealFrame DEF ModelStep
  <1>2. CASE FinishModel(p) \/ PostReply(p) \/ RecordCard(p)
    BY <1>2, FrameRowSeal, FrameSeal, SealFrame DEF FinishModel, PostReply, RecordCard, controlVars, rowVars
  <1>3. CASE RequestApproval(p)
    BY <1>3, FrameRowSeal, ClaimApprovalSeal, FrameSeal, SealFrame DEF RequestApproval
  <1>4. CASE ApprovalWaitOver(p) \/ ClaimWaitOver(p)
    <2>1. PICK box \in {inbox, FailedOpen(inbox, Ctl(p))} :
            \/ Continue(p, box) /\ UNCHANGED rowVars
            \/ ClaimApproval(Ctl(p)) /\ UNCHANGED inbox
            \/ ClaimFinalization(Ctl(p)) /\ UNCHANGED inbox
      BY <1>4 DEF ApprovalWaitOver, ClaimWaitOver
    <2>2. CASE Continue(p, box) /\ UNCHANGED rowVars
      <3>1. NoNewUpdate BY <2>2, ConsumedSeal DEF Continue
      <3> QED BY <2>2, <3>1, FrameRowSeal, SealFrame
    <2>3. CASE ClaimApproval(Ctl(p)) /\ UNCHANGED inbox
      BY <2>3, ClaimApprovalSeal, FrameSeal, SealFrame
    <2>4. CASE ClaimFinalization(Ctl(p)) /\ UNCHANGED inbox
      BY <2>4, ClaimSeal
    <2> QED BY <2>1, <2>2, <2>3, <2>4
  <1>5. CASE ClaimReply(p)
    <2>1. CASE ClaimFinalization(Ctl(p)) /\ UNCHANGED inbox
      BY <2>1, ClaimSeal
    <2>2. CASE UNCHANGED rowVars /\ UNCHANGED inbox
      BY <2>2, FrameRowSeal, FrameSeal, SealFrame
    <2> QED BY <1>5, <2>1, <2>2 DEF ClaimReply
  <1>6. CASE RunFails(p) \/ DeliverReply(p) \/ PostThrows(p) \/ RecordReply(p) \/ LeaveSuspended(p)
    <2>1. (Leave(p) \/ UNCHANGED rowVars) /\ UNCHANGED inbox
      BY <1>6 DEF RunFails, DeliverReply, PostThrows, RecordReply, LeaveSuspended
    <2> QED BY <2>1, ReapSeal, FrameRowSeal, FrameSeal, SealFrame DEF Leave
  <1>7. CASE CompleteTurn(p) \/ CardFallback(p)
    BY <1>7, CompletedSeal, FrameSeal, SealFrame DEF CompleteTurn, CardFallback
  <1>8. CASE Suspend(p)
    <2>1. NoNewClaim
      <3>1. CASE MarkWaiting BY <3>1 DEF MarkWaiting, Stamped, NoNewClaim
      <3>2. CASE Leave(p) BY <3>2, ReapSeal DEF Leave
      <3> QED BY <1>8, <3>1, <3>2 DEF Suspend
    <2> QED BY <1>8, <2>1, FrameSeal, SealFrame DEF Suspend
  <1>9. CASE PostCard(p)
    <2>1. (Leave(p) \/ UNCHANGED rowVars) /\ UNCHANGED inbox BY <1>9 DEF PostCard
    <2> QED BY <2>1, ReapSeal, FrameRowSeal, FrameSeal, SealFrame DEF Leave
  <1> QED BY <1>1, <1>2, <1>3, <1>4, <1>5, <1>6, <1>7, <1>8, <1>9 DEF Run

\* The steps of a click.
LEMMA ClickSeal ==
  ASSUME TypeInv, ClaimSealsInbox, NEW c \in Clicks,
    Decision(c) \/ \E a \in Approvals, b \in BOOLEAN : Click(c, a, b) PROVE ClaimSealsInbox'
  <1> turn \in Row /\ InboxType BY DEF TypeInv, RowType
  <1>1. CASE \E a \in Approvals, b \in BOOLEAN : Click(c, a, b)
    BY <1>1, FrameRowSeal, FrameSeal, SealFrame DEF Click, controlVars, rowVars
  <1>2. CASE ClickChecked(c)
    <2>1. NoNewUpdate BY <1>2, ConsumedSeal DEF ClickChecked
    <2> QED BY <1>2, <2>1, FrameRowSeal, SealFrame DEF ClickChecked
  <1>3. CASE Decide(c) \/ Execute(c)
    BY <1>3, FrameRowSeal, FrameSeal, SealFrame DEF Decide, Execute, controlVars, rowVars
  <1>4. CASE Resume(c)
    BY <1>4, FrameRowSeal, StampedSeal, FrameSeal, SealFrame DEF Resume, ResumeTurn
  <1> QED BY <1>1, <1>2, <1>3, <1>4 DEF Decision

\* The clock and an eviction.
LEMMA EnvironmentSeal ==
  ASSUME TypeInv, ClaimSealsInbox, Environment
  PROVE  ClaimSealsInbox'
  <1> turn \in Row /\ InboxType BY DEF TypeInv, RowType
  <1>1. CASE TurnAges
    <2>1. NoNewClaim BY <1>1 DEF TurnAges, NoNewClaim, Row
    <2> QED BY <1>1, <2>1, FrameSeal, SealFrame DEF TurnAges
  <1>2. CASE \E a \in Approvals : ApprovalAges(a) \/ ExpiryTimer(a)
    BY <1>2, FrameRowSeal, FrameSeal, SealFrame DEF ApprovalAges, ExpiryTimer, controlVars, rowVars
  <1>3. CASE Crash
    BY <1>3, FrameSeal, SealFrame DEF Crash, NoNewClaim
  <1> QED BY <1>1, <1>2, <1>3 DEF Environment

\* Once a turn is claimed for its final reply no update of it is being
\* classified or waits to be read, however follow-ups, claims, stops and
\* evictions interleave: the claim and the check of the inbox are one
\* statement of claimThreadTurnFinalizationIfInboxEmpty, and a reservation is
\* made only in a steerable turn.
THEOREM SealedInbox == Spec => []ClaimSealsInbox
  <1>1. Init => ClaimSealsInbox
    BY DEF Init, NoRow, ClaimSealsInbox
  <1>2. ASSUME TypeInv, ClaimSealsInbox, [Next]_vars PROVE ClaimSealsInbox'
    <2>1. CASE UNCHANGED vars
      BY <1>2, <2>1, FrameRowSeal, FrameSeal, SealFrame DEF vars, controlVars, rowVars, TypeInv
    <2>2. CASE Next
      BY <1>2, <2>2, IntakeSeal, RunSeal, ClickSeal, EnvironmentSeal DEF Next, UserActs
    <2> QED BY <1>2, <2>1, <2>2
  <1>3. Spec => []TypeInv
    BY InitType, NextType, PTL DEF Spec
  <1> QED BY <1>1, <1>2, <1>3, PTL DEF Spec

-----------------------------------------------------------------------------
(* Approvals *)

\* Where a handler may be before its own approval exists.
Undecided == RunLabels \cup {"new", "intake", "finalWait", "gate", "prep",
                             "clickWait", "lookup", "decided"}
\* A click that decided its approval and has not yet executed it or let it go.
Holding == {"decided", "execute"}

\* A run that has not suspended has not asked for anything.
FreshApproval == \A p \in Procs : pc[p] \in Undecided => appr[ApprovalOf(p)].status = "none"
\* Nor has the second attempt of a message before it began.
FreshRetry == \A p \in Procs :
    pc[p] # "done" /\ fiber[p].attempt = 0 => appr[<<p, 1>>].status = "none"
\* A click decides an approval somebody asked for.
ClickedApproval == \A c \in Clicks : pc[c] \notin {"new", "done"} => appr[target[c]].status # "none"
\* Two clicks never hold the same approval: the update that decides it finds
\* it pending once.
OneHolder == \A c, d \in Clicks :
    pc[c] \in Holding /\ pc[d] \in Holding /\ target[c] = target[d] => c = d
\* A held approval is decided and its action has not been executed.
HolderDecided == \A c \in Clicks : pc[c] \in Holding =>
    appr[target[c]].status \notin {"none", "pending"} /\ ran[target[c]] = 0
\* What is held by an approving click was not refused.
HolderApproves == \A c \in Clicks : pc[c] \in Holding /\ verdict[c] =>
    appr[target[c]].status \notin {"pending", "denied", "expired"}
\* Only an approving click executes.
ExecutesApproved == \A c \in Clicks : pc[c] = "execute" => verdict[c]
\* What waits or was refused has not been executed.
RefusedIdle == \A a \in Approvals :
    appr[a].status \in {"none", "pending", "denied", "expired"} => ran[a] = 0

\* The inductive invariant behind ApprovalRunsOnce and RefusedNeverRan.
ApprovalInv ==
    /\ FreshApproval /\ FreshRetry /\ ClickedApproval /\ OneHolder /\ HolderDecided
    /\ HolderApproves /\ ExecutesApproved /\ RefusedIdle /\ ApprovalRunsOnce

\* Nothing has been asked for at first.
LEMMA InitApproval == Init => ApprovalInv
  <1> SUFFICES ASSUME Init PROVE ApprovalInv OBVIOUS
  <1> USE DEF Init
  <1>1. FreshApproval /\ FreshRetry
    BY DEF FreshApproval, FreshRetry, ApprovalOf, NoApproval, NewFiber, Approvals
  <1>2. ClickedApproval /\ OneHolder /\ HolderDecided /\ HolderApproves /\ ExecutesApproved
    BY DEF ClickedApproval, OneHolder, HolderDecided, HolderApproves, ExecutesApproved, Holding, Procs
  <1>3. RefusedIdle /\ ApprovalRunsOnce
    BY DEF RefusedIdle, ApprovalRunsOnce
  <1> QED BY <1>1, <1>2, <1>3 DEF ApprovalInv

\* The statuses a handler gives its own approval when it is through with it.
SettledStatus == {"error", "executed", "cancelled"}

\* What a step of handler p to a label may do to the other parts.
Step(p, label) ==
    /\ pc[p] # "done"
    /\ pc' = [pc EXCEPT ![p] = label]
    /\ UNCHANGED <<target, verdict, ran>>
    /\ \A q \in Procs : q # p \/ label # "done" => fiber'[q].attempt = fiber[q].attempt
    /\ label \in Undecided => pc[p] \in Undecided
    /\ label \notin Holding \/ (label = "execute" /\ pc[p] = "decided" /\ verdict[p])
    /\ p \in Clicks /\ label # "done" => pc[p] # "new"
    /\ \A a \in Approvals :
         \/ appr'[a].status = appr[a].status
         \/ /\ appr'[a].status \in SettledStatus
            /\ appr[a].status # "none" \/ (a = ApprovalOf(p) /\ label \notin Undecided)

\* A step of one handler, as Step describes it, preserves the invariant.
LEMMA StepKeeps ==
  ASSUME TypeInv, ApprovalInv, NEW p \in Procs, NEW label, Step(p, label)
  PROVE  ApprovalInv'
  <1> USE DEF TypeInv, ApprovalInv, SettledStatus
  <1> pc \in [Procs -> Labels] BY DEF HandlerType
  <1>0. \A q \in Procs : /\ q # p => pc'[q] = pc[q]
                         /\ pc'[p] = label
    BY DEF Step
  <1>a. \A q \in Procs : ApprovalOf(q) \in Approvals /\ <<q, 1>> \in Approvals
    BY DEF ApprovalOf, Approvals, HandlerType
  <1>t. \A c \in Clicks : c \in Procs /\ (pc[c] \notin {"new", "done"} => target[c] \in Approvals)
    BY DEF Targeted, Procs
  <1>1. FreshApproval'
    <2> SUFFICES ASSUME NEW q \in Procs, pc'[q] \in Undecided
                 PROVE  appr'[ApprovalOf(q)'].status = "none"
      BY DEF FreshApproval
    <2>1. pc[q] \in Undecided /\ fiber'[q].attempt = fiber[q].attempt
      BY <1>0 DEF Step, Undecided, RunLabels
    <2>2. ApprovalOf(q)' = ApprovalOf(q) BY <2>1 DEF ApprovalOf
    <2>3. appr[ApprovalOf(q)].status = "none" BY <2>1 DEF FreshApproval
    <2>4. q # p => ApprovalOf(q) # ApprovalOf(p) BY DEF ApprovalOf
    <2> QED BY <2>2, <2>3, <2>4, <1>0, <1>a DEF Step
  <1>2. FreshRetry'
    <2> SUFFICES ASSUME NEW q \in Procs, pc'[q] # "done", fiber'[q].attempt = 0
                 PROVE  appr'[<<q, 1>>].status = "none"
      BY DEF FreshRetry
    <2>1. pc[q] # "done" /\ fiber[q].attempt = 0
      BY <1>0 DEF Step
    <2>2. appr[<<q, 1>>].status = "none" BY <2>1 DEF FreshRetry
    <2>3. <<q, 1>> # ApprovalOf(p) BY <2>1 DEF ApprovalOf
    <2> QED BY <2>2, <2>3, <1>a DEF Step
  <1>3. ClickedApproval'
    BY <1>0, <1>t DEF ClickedApproval, Step
  <1>4. OneHolder'
    BY <1>0, <1>t DEF OneHolder, Step, Holding
  <1>5. HolderDecided'
    BY <1>0, <1>t DEF HolderDecided, Step, Holding
  <1>6. HolderApproves'
    BY <1>0, <1>t DEF HolderApproves, Step, Holding
  <1>7. ExecutesApproved'
    BY <1>0, <1>t DEF ExecutesApproved, Step, Holding
  <1>8. RefusedIdle' /\ ApprovalRunsOnce'
    BY DEF RefusedIdle, ApprovalRunsOnce, Step
  <1> QED BY <1>1, <1>2, <1>3, <1>4, <1>5, <1>6, <1>7, <1>8

\* Parking elsewhere without touching an approval is such a step.
LEMMA GotoStep ==
  ASSUME NEW p \in Procs, NEW label, pc[p] \notin {"done", "new"},
         Goto(p, label), UNCHANGED approvalVars,
         label \in Undecided => pc[p] \in Undecided,
         label \notin Holding \/ (label = "execute" /\ pc[p] = "decided" /\ verdict[p])
  PROVE  Step(p, label)
  BY DEF Goto, At, Step, approvalVars

\* Returning without touching an approval is such a step.
LEMMA FinishStep ==
  ASSUME HandlerType, NEW p \in Procs, pc[p] # "done", Finish(p), UNCHANGED approvalVars
  PROVE  Step(p, "done")
  BY DEF HandlerType, Finish, At, Step, approvalVars, Undecided, RunLabels, Holding

\* The steps of a message before its turn are such steps.
LEMMA IntakeStep ==
  ASSUME TypeInv, NEW m \in Msgs,
         Accept(m) \/ Decline(m) \/ Arrive(m) \/ ArriveRecovered(m) \/ AwaitFinalization(m)
           \/ GateAnswers(m) \/ BeginTurn(m)
  PROVE  \E label : Step(m, label)
  <1> USE DEF TypeInv
  <1> m \in Procs BY DEF Procs
  <1> UNCHANGED approvalVars
    BY DEF Accept, Decline, Arrive, ArriveRecovered, AwaitFinalization, GateAnswers, BeginTurn, Steer
  <1>0. pc[m] # "done" /\ pc[m] \in Undecided
    BY DEF Accept, Decline, Arrive, ArriveRecovered, AwaitFinalization, GateAnswers, BeginTurn, Undecided
  <1>1. CASE Accept(m)
    BY <1>0, <1>1, ThreadAssumption DEF Accept, Goto, At, Step, approvalVars, Undecided, Holding
  <1>2. CASE Finish(m)
    BY <1>0, <1>2, FinishStep
  <1>3. CASE pc[m] # "new" /\ \E label \in {"finalWait", "prep", "gate"} : \E e : GotoWith(m, label, e)
    <2>1. PICK label \in {"finalWait", "prep", "gate"} : \E e : GotoWith(m, label, e) BY <1>3
    <2>2. Step(m, label)
      BY <2>1, <1>3, <1>0 DEF GotoWith, At, Step, approvalVars, Undecided, Holding
    <2> QED BY <2>2
  <1>4. CASE BeginTurn(m) /\ ~Finish(m)
    <2>1. fiber' = [fiber EXCEPT ![m].rev = turn.rev + 1] /\ pc' = [pc EXCEPT ![m] = "compute"]
      BY <1>4 DEF BeginTurn, At
    <2>2. Step(m, "compute")
      BY <2>1, <1>0, <1>4 DEF BeginTurn, Step, approvalVars, Undecided, Holding, RunLabels, HandlerType
    <2> QED BY <2>2
  <1> QED BY <1>1, <1>2, <1>3, <1>4
     DEF Accept, Decline, Arrive, ArriveRecovered, AwaitFinalization, GateAnswers, Steer, SeedFrom, Reserve

\* Recovery starts the second attempt, whose approval is still fresh.
LEMMA RecoverStep ==
  ASSUME TypeInv, ApprovalInv, NEW m \in Msgs, RecoverFiber(m) \/ RecoverPost(m)
  PROVE  ApprovalInv'
  <1> USE DEF TypeInv
  <1> m \in Procs BY DEF Procs
  <1> UNCHANGED approvalVars BY DEF RecoverFiber, RecoverPost
  <1>0. pc[m] \in {"lost", "recoverPost"} BY DEF RecoverFiber, RecoverPost
  <1>1. CASE Finish(m) BY <1>0, <1>1, FinishStep, StepKeeps
  <1>2. CASE Goto(m, "recoverPost")
    BY <1>0, <1>2, GotoStep, StepKeeps DEF Undecided, RunLabels, Holding
  <1>3. CASE /\ pc[m] = "lost" /\ fiber[m].attempt = 0
             /\ fiber' = [fiber EXCEPT ![m].attempt = 1]
             /\ At(m, "intake")
    <2> \A q \in Procs : q # m => pc'[q] = pc[q] /\ fiber'[q] = fiber[q]
      BY <1>3 DEF At, HandlerType
    <2> pc'[m] = "intake" /\ fiber'[m].attempt = 1
      BY <1>3 DEF At, HandlerType
    <2>1. FreshApproval'
      <3> SUFFICES ASSUME NEW q \in Procs, pc'[q] \in Undecided
                   PROVE  appr'[ApprovalOf(q)'].status = "none"
        BY DEF FreshApproval
      <3>1. CASE q = m
        BY <3>1, <1>3 DEF ApprovalInv, FreshRetry, ApprovalOf, approvalVars
      <3>2. CASE q # m
        BY <3>2 DEF ApprovalInv, FreshApproval, ApprovalOf, approvalVars
      <3> QED BY <3>1, <3>2
    <2>2. FreshRetry'
      BY <1>3 DEF ApprovalInv, FreshRetry, approvalVars
    <2>3. \A c \in Clicks : c \in Procs /\ (pc'[c] = pc[c] \/ (pc'[c] = "intake" /\ pc[c] = "lost"))
      BY <1>3 DEF Procs
    <2>4. ClickedApproval' /\ OneHolder' /\ HolderDecided' /\ HolderApproves' /\ ExecutesApproved'
      BY <2>3 DEF ApprovalInv, ClickedApproval, OneHolder, HolderDecided, HolderApproves,
                  ExecutesApproved, Holding, approvalVars
    <2>5. RefusedIdle' /\ ApprovalRunsOnce'
      BY DEF ApprovalInv, RefusedIdle, ApprovalRunsOnce, approvalVars
    <2> QED BY <2>1, <2>2, <2>4, <2>5 DEF ApprovalInv
  <1> QED BY <1>1, <1>2, <1>3 DEF RecoverFiber, RecoverPost

\* The status of one approval is set and no other.
LEMMA SetStatus ==
  ASSUME ApprovalType, NEW a, NEW s, NEW b \in Approvals
  PROVE  SetApproval(a, s)[b].status = IF b = a THEN s ELSE appr[b].status
  BY DEF SetApproval, ApprovalType

\* The approval of a click that is under way exists and has been asked for.
LEMMA TargetOf ==
  ASSUME TypeInv, ApprovalInv, NEW c \in Clicks, pc[c] \notin {"new", "done"}
  PROVE  target[c] \in Approvals /\ appr[target[c]].status # "none"
  BY DEF TypeInv, Targeted, ApprovalInv, ClickedApproval

\* A handler that is through with its run gives its own approval a settled
\* status at most.
LEMMA LeaveStep ==
  ASSUME TypeInv, ApprovalInv, NEW p \in Procs, pc[p] \notin {"done", "new"},
         UNCHANGED <<target, verdict, ran>>, NEW s \in SettledStatus,
         appr' = appr \/ (p \in Clicks /\ appr' = SetApproval(target[p], s)),
         \/ Finish(p)
         \/ \E label : label \notin Undecided \cup Holding /\ Goto(p, label)
         \/ \E k : ToPost(p, k)
  PROVE  ApprovalInv'
  <1> USE DEF TypeInv
  <1>1. \A a \in Approvals : \/ appr'[a].status = appr[a].status
                             \/ appr'[a].status \in SettledStatus /\ appr[a].status # "none"
    BY TargetOf, SetStatus
  <1>2. \E label : label \notin Undecided \cup Holding
           /\ pc' = [pc EXCEPT ![p] = label]
           /\ (\A q \in Procs : q # p \/ label # "done" => fiber'[q].attempt = fiber[q].attempt)
    <2>1. CASE Finish(p)
      BY <2>1 DEF Finish, At, Undecided, Holding, RunLabels, HandlerType
    <2>2. CASE \E label : label \notin Undecided \cup Holding /\ Goto(p, label)
      BY <2>2 DEF Goto, At
    <2>3. CASE \E k : ToPost(p, k)
      BY <2>3 DEF ToPost, At, Undecided, Holding, RunLabels
    <2> QED BY <2>1, <2>2, <2>3
  <1>3. PICK label : Step(p, label) BY <1>1, <1>2 DEF Step
  <1> QED BY <1>3, StepKeeps

\* The steps of the model loop and its claims touch no approval.
LEMMA RunKeeps ==
  ASSUME TypeInv, ApprovalInv, NEW p \in Procs,
         ModelStep(p) \/ FinishModel(p) \/ RequestApproval(p) \/ ApprovalWaitOver(p)
           \/ ClaimReply(p) \/ ClaimWaitOver(p)
  PROVE  ApprovalInv'
  <1> USE DEF TypeInv
  <1> UNCHANGED approvalVars
    BY DEF ModelStep, FinishModel, RequestApproval, ApprovalWaitOver, ClaimReply, ClaimWaitOver
  <1> pc[p] \in RunLabels \ {"execute"}
    BY DEF ModelStep, FinishModel, RequestApproval, ApprovalWaitOver, ClaimReply, ClaimWaitOver, RunLabels
  <1>1. CASE UNCHANGED handlerVars
    BY <1>1 DEF ApprovalInv, FreshApproval, FreshRetry, ClickedApproval, OneHolder, HolderDecided,
                HolderApproves, ExecutesApproved, RefusedIdle, ApprovalRunsOnce, ApprovalOf,
                handlerVars, approvalVars
  <1>2. CASE \E label \in RunLabels \ {"execute"} :
               /\ At(p, label)
               /\ \A q \in Procs : fiber'[q].attempt = fiber[q].attempt
    <2>1. PICK label \in RunLabels \ {"execute"} :
               /\ At(p, label)
               /\ \A q \in Procs : fiber'[q].attempt = fiber[q].attempt
      BY <1>2
    <2>2. Step(p, label)
      BY <2>1 DEF Step, At, approvalVars, Undecided, Holding, RunLabels
    <2> QED BY <2>2, StepKeeps
  <1>3. ASSUME MayPropose(p) PROVE \A q \in Procs : fiber'[q].attempt = fiber[q].attempt
    BY <1>3 DEF MayPropose, HandlerType
  <1>4. ASSUME NEW box, Continue(p, box)
        PROVE At(p, "compute") /\ \A q \in Procs : fiber'[q].attempt = fiber[q].attempt
    BY <1>4 DEF Continue, HandlerType
  <1>5. CASE FinishModel(p)
    BY <1>2, <1>3, <1>5 DEF FinishModel, RunLabels
  <1>6. CASE RequestApproval(p)
    BY <1>2, <1>3, <1>6 DEF RequestApproval, RunLabels
  <1>7. CASE ApprovalWaitOver(p) \/ ClaimWaitOver(p)
    BY <1>2, <1>4, <1>7 DEF ApprovalWaitOver, ClaimWaitOver, Goto, RunLabels
  <1>8. CASE ClaimReply(p)
    BY <1>2, <1>8 DEF ClaimReply, Goto, RunLabels
  <1> QED BY <1>1, <1>5, <1>6, <1>7, <1>8 DEF ModelStep

\* How a run ends: its approval becomes executed or error, or nothing changes.
LEMMA EndKeeps ==
  ASSUME TypeInv, ApprovalInv, NEW p \in Procs,
         RunFails(p) \/ DeliverReply(p) \/ PostReply(p) \/ PostThrows(p) \/ CompleteTurn(p)
           \/ CardFallback(p) \/ LeaveSuspended(p)
  PROVE  ApprovalInv'
  <1>1. pc[p] \notin {"done", "new"} /\ UNCHANGED <<target, verdict, ran>>
    BY DEF RunFails, DeliverReply, PostReply, PostThrows, CompleteTurn, CardFallback,
           LeaveSuspended, RunLabels, approvalVars
  <1>2. \E s \in SettledStatus : appr' = appr \/ (p \in Clicks /\ appr' = SetApproval(target[p], s))
    BY DEF RunFails, DeliverReply, PostReply, PostThrows, CompleteTurn, CardFallback,
           LeaveSuspended, SettledStatus, approvalVars
  <1>3. \/ Finish(p)
        \/ \E label : label \notin Undecided \cup Holding /\ Goto(p, label)
        \/ \E k : ToPost(p, k)
    BY DEF RunFails, DeliverReply, PostReply, PostThrows, CompleteTurn, CardFallback,
           LeaveSuspended, Leave, Undecided, RunLabels, Holding
  <1> QED BY <1>1, <1>2, <1>3, LeaveStep

\* The delivery checkpoints leave every status alone.
LEMMA CheckpointKeeps ==
  ASSUME TypeInv, ApprovalInv, NEW p \in Procs, RecordReply(p) \/ RecordCard(p)
  PROVE  ApprovalInv'
  <1> USE DEF TypeInv
  <1>0. pc[p] \notin {"done", "new"} /\ UNCHANGED <<target, verdict, ran>>
    BY DEF RecordReply, RecordCard, approvalVars
  <1>1. \A a \in Approvals : appr'[a].status = appr[a].status
    BY DEF RecordReply, RecordCard, approvalVars, ApprovalType
  <1>2. CASE RecordReply(p) /\ Leave(p)
    BY <1>0, <1>2, FinishStep, StepKeeps DEF RecordReply, Leave
  <1>3. CASE \E label \in {"writeback", "tail"} : At(p, label) /\ Checkpoint(p)
    <2>1. PICK label \in {"writeback", "tail"} : At(p, label) /\ Checkpoint(p) BY <1>3
    <2>2. \A q \in Procs : fiber'[q].attempt = fiber[q].attempt
      BY <2>1 DEF Checkpoint, HandlerType
    <2>3. Step(p, label)
      BY <1>0, <1>1, <2>1, <2>2 DEF Step, At, Undecided, Holding, RunLabels
    <2> QED BY <2>3, StepKeeps
  <1> QED BY <1>2, <1>3 DEF RecordReply, RecordCard

\* The card of an approval goes up, or its approval becomes an error.
LEMMA PostCardKeeps ==
  ASSUME TypeInv, ApprovalInv, NEW p \in Procs, PostCard(p)
  PROVE  ApprovalInv'
  <1> USE DEF TypeInv
  <1>0. pc[p] = "card" /\ UNCHANGED <<target, verdict, ran>>
    BY DEF PostCard
  <1>1. CASE Leave(p) /\ UNCHANGED appr
    BY <1>0, <1>1, FinishStep, StepKeeps DEF Leave, approvalVars
  <1>2. CASE appr' = [appr EXCEPT ![ApprovalOf(p)].card = "up"] /\ Goto(p, "cardPosted")
    <2>1. \A a \in Approvals : appr'[a].status = appr[a].status
      BY <1>2 DEF ApprovalType
    <2>2. Step(p, "cardPosted")
      BY <1>0, <1>2, <2>1 DEF Step, Goto, At, Undecided, Holding, RunLabels
    <2> QED BY <2>2, StepKeeps
  <1>3. CASE appr' = SetApproval(ApprovalOf(p), "error") /\ Goto(p, "cardFailed")
    <2>1. \A a \in Approvals : \/ appr'[a].status = appr[a].status
                               \/ appr'[a].status = "error" /\ a = ApprovalOf(p)
      BY <1>3, SetStatus
    <2>2. Step(p, "cardFailed")
      BY <1>0, <1>3, <2>1 DEF Step, Goto, At, Undecided, Holding, RunLabels, SettledStatus
    <2> QED BY <2>2, StepKeeps
  <1> QED BY <1>1, <1>2, <1>3 DEF PostCard

\* A new approval is pending and nobody holds it.
LEMMA SuspendKeeps ==
  ASSUME TypeInv, ApprovalInv, NEW p \in Procs, Suspend(p)
  PROVE  ApprovalInv'
  <1> USE DEF TypeInv
  <1>0. pc[p] = "suspend" /\ UNCHANGED <<target, verdict, ran>>
    BY DEF Suspend
  <1>1. CASE Leave(p) /\ UNCHANGED appr
    BY <1>0, <1>1, FinishStep, StepKeeps DEF Leave, approvalVars
  <1>2. CASE IsCurrent(Ctl(p))
    <2> DEFINE own == ApprovalOf(p)
    <2>0. own \in Approvals BY DEF ApprovalOf, Approvals, HandlerType
    <2>1. appr[own].status = "none"
      BY <1>0 DEF ApprovalInv, FreshApproval, Undecided, RunLabels
    <2>2. Goto(p, "card") BY <1>2 DEF Suspend
    <2>3. /\ \A q \in Procs : q # p => pc'[q] = pc[q]
          /\ pc'[p] = "card"
          /\ fiber' = fiber
      BY <2>2 DEF Goto, At, HandlerType
    <2>4. appr'[own].status = "pending"
      BY <1>2, <2>0 DEF Suspend, NoApproval
    <2>5. \A a \in Approvals \ {own} :
            \/ appr'[a].status = appr[a].status
            \/ appr'[a].status = "executed" /\ p \in Clicks /\ a = target[p]
      BY <1>2 DEF Suspend, ApprovalType
    <2>6. p \in Clicks => appr[target[p]].status # "none"
      BY <1>0, TargetOf
    <2> HIDE DEF own
    <2>7. \A q \in Procs : ApprovalOf(q)' = ApprovalOf(q) /\ (q # p => ApprovalOf(q) # own)
                           /\ ApprovalOf(q) \in Approvals /\ <<q, 1>> \in Approvals
      BY <2>3 DEF own, ApprovalOf, Approvals, HandlerType
    <2>8. FreshApproval'
      <3> SUFFICES ASSUME NEW q \in Procs, pc'[q] \in Undecided
                   PROVE  appr'[ApprovalOf(q)].status = "none"
        BY <2>7 DEF FreshApproval
      <3>1. q # p BY <2>3 DEF Undecided, RunLabels
      <3>2. appr[ApprovalOf(q)].status = "none" BY <3>1, <2>3 DEF ApprovalInv, FreshApproval
      <3> QED BY <3>1, <3>2, <2>5, <2>6, <2>7
    <2>9. FreshRetry'
      <3> SUFFICES ASSUME NEW q \in Procs, pc'[q] # "done", fiber[q].attempt = 0
                   PROVE  appr'[<<q, 1>>].status = "none"
        BY <2>3 DEF FreshRetry
      <3>1. appr[<<q, 1>>].status = "none" BY <1>0, <2>3 DEF ApprovalInv, FreshRetry
      <3>2. <<q, 1>> # own BY DEF own, ApprovalOf
      <3> QED BY <3>1, <3>2, <2>5, <2>6, <2>7
    <2>10. \A c \in Clicks : /\ c \in Procs
                             /\ pc'[c] \notin {"new", "done"} => pc[c] \notin {"new", "done"}
                             /\ pc[c] \notin {"new", "done"} =>
                                   target[c] \in Approvals /\ appr[target[c]].status # "none" /\ target[c] # own
                             /\ pc'[c] \in Holding => c # p /\ pc[c] \in Holding
                             /\ pc[c] \in Holding => pc[c] \notin {"new", "done"}
      BY <1>0, <2>1, <2>3, TargetOf DEF Procs, Holding
    <2>11. ClickedApproval'
      BY <2>5, <2>10, <1>0 DEF ClickedApproval
    <2>12. OneHolder'
      BY <2>10, <1>0 DEF OneHolder, ApprovalInv
    <2>13. HolderDecided' /\ HolderApproves'
      BY <2>5, <2>10, <1>0 DEF HolderDecided, HolderApproves, ApprovalInv
    <2>14. ExecutesApproved'
      BY <2>3, <1>0 DEF ExecutesApproved, ApprovalInv, Procs
    <2>15. RefusedIdle' /\ ApprovalRunsOnce'
      BY <1>0, <2>1, <2>5 DEF RefusedIdle, ApprovalRunsOnce, ApprovalInv
    <2> QED BY <2>8, <2>9, <2>11, <2>12, <2>13, <2>14, <2>15 DEF ApprovalInv
  <1> QED BY <1>1, <1>2 DEF Suspend

\* A pending approval that expires was held by nobody.
LEMMA ExpireKeeps ==
  ASSUME TypeInv, ApprovalInv, UNCHANGED <<pc, fiber, target, verdict, ran>>,
         \A a \in Approvals : \/ appr'[a].status = appr[a].status
                              \/ appr[a].status = "pending" /\ appr'[a].status = "expired"
  PROVE  ApprovalInv'
  <1> USE DEF TypeInv, ApprovalInv
  <1>1. \A p \in Procs : ApprovalOf(p) \in Approvals /\ ApprovalOf(p)' = ApprovalOf(p)
                         /\ <<p, 1>> \in Approvals
    BY DEF ApprovalOf, Approvals, HandlerType
  <1>2. \A c \in Clicks : pc[c] \notin {"new", "done"} => target[c] \in Approvals
    BY DEF Targeted
  <1>3. FreshApproval' BY <1>1 DEF FreshApproval
  <1>4. FreshRetry' BY <1>1 DEF FreshRetry
  <1>5. ClickedApproval' BY <1>2 DEF ClickedApproval
  <1>6. OneHolder' BY DEF OneHolder
  <1>7. HolderDecided' BY <1>2 DEF HolderDecided, Holding
  <1>8. HolderApproves' BY <1>2 DEF HolderApproves, HolderDecided, Holding
  <1>9. ExecutesApproved' BY DEF ExecutesApproved
  <1>10. RefusedIdle' /\ ApprovalRunsOnce' BY DEF RefusedIdle, ApprovalRunsOnce
  <1> QED BY <1>3, <1>4, <1>5, <1>6, <1>7, <1>8, <1>9, <1>10

\* The clock, the expiry timer (runApprovalExpiry) and a step that changes
\* nothing.
LEMMA TimeKeeps ==
  ASSUME TypeInv, ApprovalInv,
         TurnAges \/ (\E a \in Approvals : ApprovalAges(a) \/ ExpiryTimer(a)) \/ UNCHANGED vars
  PROVE  ApprovalInv'
  <1> USE DEF TypeInv
  <1>1. UNCHANGED <<pc, fiber, target, verdict, ran>>
    BY DEF TurnAges, ApprovalAges, ExpiryTimer, handlerVars, approvalVars, vars
  <1>2. \A a \in Approvals : \/ appr'[a].status = appr[a].status
                             \/ appr[a].status = "pending" /\ appr'[a].status = "expired"
    <2>1. CASE TurnAges \/ UNCHANGED vars
      BY <2>1 DEF TurnAges, approvalVars, vars
    <2>2. CASE \E a \in Approvals : ApprovalAges(a)
      BY <2>2 DEF ApprovalAges, ApprovalType
    <2>3. CASE \E a \in Approvals : ExpiryTimer(a)
      BY <2>3, SetStatus DEF ExpiryTimer
    <2> QED BY <2>1, <2>2, <2>3
  <1> QED BY <1>1, <1>2, ExpireKeeps

\* The checks of a click before its first await: it starts with a pending
\* approval, or ends.
LEMMA ClickKeeps ==
  ASSUME TypeInv, ApprovalInv, NEW c \in Clicks, NEW a \in Approvals, NEW approved \in BOOLEAN,
         Click(c, a, approved)
  PROVE  ApprovalInv'
  <1> USE DEF TypeInv
  <1> c \in Procs BY DEF Procs
  <1>0. pc[c] = "new" /\ ran' = ran BY DEF Click
  <1>1. \A b \in Approvals : \/ appr'[b].status = appr[b].status
                             \/ appr[b].status = "pending" /\ appr'[b].status = "expired"
    BY SetStatus DEF Click
  <1>2. \E label \in {"clickWait", "done"} :
          /\ pc' = [pc EXCEPT ![c] = label]
          /\ label = "clickWait" => appr[a].status = "pending" /\ target' = [target EXCEPT ![c] = a]
                                    /\ verdict' = [verdict EXCEPT ![c] = approved]
          /\ label = "done" => UNCHANGED <<target, verdict>>
    BY DEF Click, Goto, Finish, At
  <1>3. \A q \in Procs : pc'[q] # "done" => fiber'[q].attempt = fiber[q].attempt
    BY <1>0 DEF Click, Goto, Finish, At, HandlerType
  <1>4. \A q \in Procs : q # c => pc'[q] = pc[q] /\ fiber'[q].attempt = fiber[q].attempt
    BY DEF Click, Goto, Finish, At, HandlerType
  <1>5. /\ pc'[c] \in {"clickWait", "done"}
        /\ pc'[c] = "clickWait" => target'[c] = a /\ appr[a].status = "pending"
        /\ \A d \in Clicks : d # c => target'[d] = target[d] /\ verdict'[d] = verdict[d]
    BY <1>2 DEF HandlerType, ApprovalType
  <1>6. \A q \in Procs : ApprovalOf(q) \in Approvals /\ <<q, 1>> \in Approvals
                        /\ (pc'[q] # "done" => ApprovalOf(q)' = ApprovalOf(q))
    BY <1>3 DEF ApprovalOf, Approvals, HandlerType
  <1>7. \A d \in Clicks : d \in Procs /\ (pc[d] \notin {"new", "done"} => target[d] \in Approvals)
    BY DEF Targeted, Procs
  <1>8. \A d \in Clicks : pc'[d] \in Holding => d # c /\ pc[d] \in Holding
    BY <1>4, <1>5, <1>7 DEF Holding
  <1>9. FreshApproval'
    <2> SUFFICES ASSUME NEW q \in Procs, pc'[q] \in Undecided
                 PROVE  appr'[ApprovalOf(q)'].status = "none"
      BY DEF FreshApproval
    <2>1. pc[q] \in Undecided
      BY <1>0, <1>4 DEF Undecided
    <2>2. pc'[q] # "done"
      BY DEF Undecided, RunLabels
    <2> QED BY <1>1, <1>6, <2>1, <2>2 DEF ApprovalInv, FreshApproval
  <1>10. FreshRetry'
    BY <1>0, <1>1, <1>3, <1>4, <1>6 DEF ApprovalInv, FreshRetry
  <1>11. ClickedApproval'
    BY <1>1, <1>4, <1>5, <1>7 DEF ApprovalInv, ClickedApproval
  <1>12. OneHolder'
    BY <1>5, <1>8 DEF ApprovalInv, OneHolder
  <1>13. HolderDecided' /\ HolderApproves'
    BY <1>0, <1>1, <1>5, <1>7, <1>8 DEF ApprovalInv, HolderDecided, HolderApproves, Holding
  <1>14. ExecutesApproved'
    BY <1>4, <1>5, <1>7 DEF ApprovalInv, ExecutesApproved
  <1>15. RefusedIdle' /\ ApprovalRunsOnce'
    BY <1>0, <1>1 DEF ApprovalInv, RefusedIdle, ApprovalRunsOnce
  <1> QED BY <1>9, <1>10, <1>11, <1>12, <1>13, <1>14, <1>15 DEF ApprovalInv

\* After the wait a click goes on or cancels its approval.
LEMMA ClickCheckedKeeps ==
  ASSUME TypeInv, ApprovalInv, NEW c \in Clicks, ClickChecked(c)
  PROVE  ApprovalInv'
  <1> c \in Procs BY DEF Procs
  <1>0. pc[c] = "clickWait" /\ UNCHANGED <<target, verdict, ran>> BY DEF ClickChecked
  <1>1. CASE Goto(c, "lookup") /\ UNCHANGED appr
    BY <1>0, <1>1, GotoStep, StepKeeps DEF approvalVars, Undecided, Holding
  <1>2. CASE Finish(c) /\ appr' = SetApproval(target[c], "cancelled")
    BY <1>0, <1>2, LeaveStep DEF SettledStatus
  <1> QED BY <1>1, <1>2 DEF ClickChecked

\* markApprovalDecided takes a pending approval, which nobody holds, and its
\* click is the only holder.
LEMMA DecideKeeps ==
  ASSUME TypeInv, ApprovalInv, NEW c \in Clicks, Decide(c)
  PROVE  ApprovalInv'
  <1> USE DEF TypeInv
  <1> c \in Procs BY DEF Procs
  <1>0. pc[c] = "lookup" /\ UNCHANGED <<target, verdict, ran>> BY DEF Decide
  <1>1. CASE Finish(c) /\ UNCHANGED appr
    BY <1>0, <1>1, LeaveStep DEF SettledStatus
  <1>2. CASE /\ appr[target[c]].status = "pending"
             /\ appr' = SetApproval(target[c], IF verdict[c] THEN "approved" ELSE "denied")
             /\ Goto(c, "decided")
    <2> DEFINE t == target[c]
    <2>0. t \in Approvals BY <1>0, TargetOf
    <2>1. /\ \A b \in Approvals : b # t => appr'[b].status = appr[b].status
          /\ appr[t].status = "pending"
          /\ appr'[t].status = IF verdict[c] THEN "approved" ELSE "denied"
      BY <1>2, <2>0, SetStatus
    <2>2. /\ pc'[c] = "decided"
          /\ \A q \in Procs : q # c => pc'[q] = pc[q]
          /\ fiber' = fiber
      BY <1>2 DEF Goto, At, HandlerType
    <2>3. \A q \in Procs : ApprovalOf(q) \in Approvals /\ <<q, 1>> \in Approvals
                          /\ ApprovalOf(q)' = ApprovalOf(q)
      BY <2>2 DEF ApprovalOf, Approvals, HandlerType
    <2>4. \A d \in Clicks : d \in Procs /\ (pc[d] \notin {"new", "done"} => target[d] \in Approvals)
      BY DEF Targeted, Procs
    <2>5. \A d \in Clicks : pc[d] \in Holding => target[d] # t
      BY <2>1 DEF ApprovalInv, HolderDecided
    <2>6. \A d \in Clicks : pc'[d] \in Holding => d = c \/ pc[d] \in Holding
      BY <2>2, <2>4
    <2> t = target[c] OBVIOUS
    <2> HIDE DEF t
    <2>7. FreshApproval'
      BY <1>0, <2>1, <2>2, <2>3 DEF ApprovalInv, FreshApproval, Undecided
    <2>8. FreshRetry'
      BY <1>0, <2>1, <2>2, <2>3 DEF ApprovalInv, FreshRetry
    <2>9. ClickedApproval'
      BY <1>0, <2>1, <2>2, <2>4 DEF ApprovalInv, ClickedApproval
    <2>10. OneHolder'
      BY <1>0, <2>5, <2>6 DEF ApprovalInv, OneHolder
    <2>11. ran[t] = 0
      BY <2>0, <2>1 DEF ApprovalInv, RefusedIdle
    <2>12. HolderDecided' /\ HolderApproves'
      BY <1>0, <2>1, <2>4, <2>5, <2>6, <2>11 DEF ApprovalInv, HolderDecided, HolderApproves, Holding
    <2>13. ExecutesApproved'
      BY <1>0, <2>2, <2>4 DEF ApprovalInv, ExecutesApproved
    <2>14. RefusedIdle' /\ ApprovalRunsOnce'
      BY <1>0, <2>0, <2>1, <2>11 DEF ApprovalInv, RefusedIdle, ApprovalRunsOnce
    <2> QED BY <2>7, <2>8, <2>9, <2>10, <2>12, <2>13, <2>14 DEF ApprovalInv
  <1> QED BY <1>1, <1>2 DEF Decide

\* A click that holds its approval resumes the turn, or cancels the approval.
LEMMA ResumeKeeps ==
  ASSUME TypeInv, ApprovalInv, NEW c \in Clicks, Resume(c)
  PROVE  ApprovalInv'
  <1> c \in Procs BY DEF Procs
  <1>0. pc[c] = "decided" /\ UNCHANGED <<target, verdict, ran>> BY DEF Resume
  <1>1. CASE Finish(c) /\ (appr' = appr \/ appr' = SetApproval(target[c], "cancelled"))
    BY <1>0, <1>1, LeaveStep DEF SettledStatus
  <1>2. CASE Goto(c, IF verdict[c] THEN "execute" ELSE "compute") /\ UNCHANGED appr
    <2>1. CASE verdict[c]
      BY <1>0, <1>2, <2>1, GotoStep, StepKeeps DEF approvalVars, Undecided, Holding
    <2>2. CASE ~verdict[c]
      BY <1>0, <1>2, <2>2, GotoStep, StepKeeps DEF approvalVars, Undecided, Holding
    <2> QED BY <2>1, <2>2
  <1> QED BY <1>1, <1>2 DEF Resume

\* The only holder executes the action of its approval, for the first time,
\* and holds it no longer.
LEMMA ExecuteKeeps ==
  ASSUME TypeInv, ApprovalInv, NEW c \in Clicks, Execute(c)
  PROVE  ApprovalInv'
  <1> USE DEF TypeInv
  <1> c \in Procs BY DEF Procs
  <1> DEFINE t == target[c]
  <1>0. /\ pc[c] = "execute" /\ UNCHANGED <<appr, target, verdict, fiber>>
        /\ pc' = [pc EXCEPT ![c] = "compute"]
        /\ ran' = [ran EXCEPT ![t] = @ + 1]
    BY DEF Execute, Goto, At
  <1>1. t \in Approvals BY <1>0, TargetOf
  <1>2. ran[t] = 0 /\ appr[t].status \notin {"none", "pending", "denied", "expired"}
    BY <1>0 DEF ApprovalInv, HolderDecided, HolderApproves, ExecutesApproved, Holding
  <1>3. ran'[t] = 1 /\ \A b \in Approvals : b # t => ran'[b] = ran[b]
    BY <1>0, <1>1, <1>2 DEF ApprovalType
  <1>4. pc'[c] = "compute" /\ \A q \in Procs : q # c => pc'[q] = pc[q]
    BY <1>0 DEF HandlerType
  <1>5. \A d \in Clicks : d \in Procs /\ (pc'[d] \in Holding =>
            d # c /\ pc[d] \in Holding /\ target[d] # t /\ target[d] \in Approvals)
    BY <1>0, <1>4 DEF Procs, Holding, ApprovalInv, OneHolder, Targeted
  <1> HIDE DEF t
  <1>6. FreshApproval' /\ FreshRetry' /\ ClickedApproval'
    BY <1>0, <1>4, <1>5
       DEF ApprovalInv, FreshApproval, FreshRetry, ClickedApproval, ApprovalOf, Undecided, RunLabels
  <1>7. OneHolder' /\ HolderDecided' /\ HolderApproves'
    BY <1>0, <1>3, <1>5 DEF ApprovalInv, OneHolder, HolderDecided, HolderApproves
  <1>8. ExecutesApproved'
    BY <1>0, <1>4, <1>5 DEF ApprovalInv, ExecutesApproved
  <1>9. RefusedIdle' /\ ApprovalRunsOnce'
    BY <1>0, <1>2, <1>3 DEF ApprovalInv, RefusedIdle, ApprovalRunsOnce
  <1> QED BY <1>6, <1>7, <1>8, <1>9 DEF ApprovalInv

\* An eviction ends every click, so nobody holds an approval any more.
LEMMA CrashKeeps ==
  ASSUME TypeInv, ApprovalInv, Crash
  PROVE  ApprovalInv'
  <1> USE DEF TypeInv
  <1>1. /\ UNCHANGED <<fiber, appr, target, verdict, ran>>
        /\ \A q \in Procs : \/ pc'[q] = pc[q] /\ pc[q] \in {"new", "done"}
                            \/ pc'[q] = "lost" /\ q \in Msgs /\ pc[q] # "done"
                            \/ pc'[q] = "done"
    BY DEF Crash, approvalVars
  <1>2. \A c \in Clicks : c \in Procs /\ pc'[c] \in {"new", "done"}
    BY <1>1, ThreadAssumption DEF Procs
  <1>3. FreshApproval' /\ FreshRetry'
    BY <1>1 DEF ApprovalInv, FreshApproval, FreshRetry, ApprovalOf, Undecided, RunLabels
  <1>4. ClickedApproval' /\ OneHolder' /\ HolderDecided' /\ HolderApproves' /\ ExecutesApproved'
    BY <1>2 DEF ClickedApproval, OneHolder, HolderDecided, HolderApproves, ExecutesApproved, Holding
  <1>5. RefusedIdle' /\ ApprovalRunsOnce'
    BY <1>1 DEF ApprovalInv, RefusedIdle, ApprovalRunsOnce
  <1> QED BY <1>3, <1>4, <1>5 DEF ApprovalInv

\* Every step preserves the invariant.
LEMMA NextApproval ==
  ASSUME TypeInv, ApprovalInv, [Next]_vars
  PROVE  ApprovalInv'
  <1>1. ASSUME NEW m \in Msgs, Accept(m) \/ Intake(m) PROVE ApprovalInv'
    <2> m \in Procs BY DEF Procs
    <2>1. PICK label : Step(m, label) BY <1>1, IntakeStep DEF Intake
    <2> QED BY <2>1, StepKeeps
  <1>2. CASE UserActs BY <1>1, <1>2, ClickKeeps DEF UserActs
  <1>3. ASSUME NEW m \in Msgs, Recovery(m) PROVE ApprovalInv'
    BY <1>3, RecoverStep DEF Recovery
  <1>4. ASSUME NEW c \in Clicks, Decision(c) PROVE ApprovalInv'
    BY <1>4, ClickCheckedKeeps, DecideKeeps, ResumeKeeps, ExecuteKeeps DEF Decision
  <1>5. ASSUME NEW p \in Procs, Run(p) PROVE ApprovalInv'
    BY <1>5, RunKeeps, EndKeeps, CheckpointKeeps, PostCardKeeps, SuspendKeeps DEF Run
  <1>6. CASE Environment \/ UNCHANGED vars
    BY <1>6, TimeKeeps, CrashKeeps DEF Environment
  <1> QED BY <1>1, <1>2, <1>3, <1>4, <1>5, <1>6 DEF Next

\* The inductive invariant holds in every state.
LEMMA ApprovalInvariant == Spec => []ApprovalInv
  <1>1. Init => TypeInv /\ ApprovalInv BY InitType, InitApproval
  <1>2. (TypeInv /\ ApprovalInv) /\ [Next]_vars => (TypeInv /\ ApprovalInv)'
    BY NextType, NextApproval
  <1> QED BY <1>1, <1>2, PTL DEF Spec

\* An approved action is executed at most once, for any number of clicks,
\* messages, recoveries and evictions: markApprovalDecided asks for a pending
\* approval in the statement that decides it.
THEOREM ApprovalOnce == Spec => []ApprovalRunsOnce
  <1>1. ApprovalInv => ApprovalRunsOnce BY DEF ApprovalInv
  <1> QED BY <1>1, ApprovalInvariant, PTL

\* The action of an approval that was denied, that expired, or that still
\* waits has not been executed, whatever the timer, the clicks and evictions
\* do.
THEOREM RefusedNever == Spec => []RefusedNeverRan
  <1>1. ApprovalInv => RefusedNeverRan BY DEF ApprovalInv, RefusedIdle, RefusedNeverRan
  <1> QED BY <1>1, ApprovalInvariant, PTL

-----------------------------------------------------------------------------
(* Runs and answers *)

\* A reply on its way to Slack, and after it.
PostingLabels == {"post", "posted", "writeback"}
\* The run of a turn, up to the end of its reply.
Live == RunLabels \cup PostingLabels
\* Where a handler has its turn in hand: it runs it, posts its reply or puts up
\* the card of its approval, or it is a click that has decided an approval.
Held == Live \cup {"card", "cardFailed", "decided"}
\* An approval somebody can still decide.
Open(a) == appr[a].status = "pending" /\ appr[a].card # "none"

\* No handler and no approval is ahead of the row.
Known ==
    /\ \A m \in Msgs : fiber[m].rev <= turn.rev
    /\ \A m \in Msgs : pc[m] \in Held => fiber[m].rev # 0
    /\ \A a \in Approvals : appr[a].rev <= turn.rev
\* Two messages never begin the same turn.
OneFiber == \A m, n \in Msgs : fiber[m].rev = fiber[n].rev /\ fiber[m].rev # 0 => m = n
\* A turn is in one hand: that of one handler, or of one open approval.
OneRun == \A p, q \in Procs :
    pc[p] \in Held /\ pc[q] \in Held /\ Ctl(p) = Ctl(q) => p = q
RunOrCard == \A p \in Procs, a \in Approvals :
    pc[p] \in Held /\ Open(a) => Ctl(p) # appr[a].rev
OneCard == \A a, b \in Approvals :
    Open(a) /\ Open(b) /\ appr[a].rev = appr[b].rev => a = b
\* The approval of a handler that is about to put up its card, or just has.
CardOf == \A p \in Procs :
    /\ pc[p] = "card" => /\ appr[ApprovalOf(p)].rev = Ctl(p)
                         /\ appr[ApprovalOf(p)].card = "none"
    /\ pc[p] = "cardPosted" => appr[ApprovalOf(p)].card # "none"
\* A click was made on a card.
ClickedCard == \A c \in Clicks :
    pc[c] \notin {"new", "done"} => appr[target[c]].card # "none"
\* One turn, one hand.
TokenInv ==
    Known /\ OneFiber /\ OneRun /\ RunOrCard /\ OneCard /\ CardOf /\ ClickedCard

\* What a step does to the row, told by the handler that takes it: nothing;
Kept == UNCHANGED rowVars
\* it ends the turn, which if a reply was being posted is the turn of that
\* handler, or of a message that is recovered, or an orphan;
Ends(p) ==
    /\ turn'.rev = turn.rev
    /\ turn.status \notin Terminal
    /\ turn'.status \in Terminal
    /\ \/ turn.status # "finalizing"
       \/ pc[p] \in Held /\ pc'[p] = "done" /\ Ctl(p) = turn.rev
       \/ p \in Msgs /\ pc[p] \in {"intake", "lost"} /\ fiber[p].rev = turn.rev /\ fiber[p].rev # 0
       \/ active.rev # turn.rev
    /\ \/ AbortActive(turn.rev)
       \/ active' = NoActive /\ aborted' = aborted /\ Ctl(p) = turn.rev /\ pc'[p] = "done"
       \/ UNCHANGED <<active, aborted>> /\ active.rev # turn.rev
\* it claims the turn for the reply or for an approval;
Claims(p) ==
    /\ pc[p] \in RunLabels
    /\ turn.rev = Ctl(p)
    /\ turn.status = "running"
    /\ turn'.rev = turn.rev
    /\ turn'.status \in {"finalizing", "waiting_approval"}
    /\ UNCHANGED <<active, aborted>>
\* it leaves the turn waiting for an approval;
Waits(p) ==
    /\ pc[p] = "suspend"
    /\ pc'[p] = "card"
    /\ turn.rev = Ctl(p)
    /\ turn.status \notin Terminal
    /\ turn'.rev = turn.rev
    /\ turn'.status = "waiting_approval"
    /\ active' = NoActive
    /\ aborted' = aborted
\* it begins the next turn;
Begins(p) ==
    /\ p \in Msgs
    /\ pc[p] = "prep"
    /\ pc'[p] = "compute"
    /\ fiber'[p].rev = turn.rev + 1
    /\ turn.status # "finalizing"
    /\ turn'.rev = turn.rev + 1
    /\ turn'.status = "running"
    /\ SetActive(turn.rev + 1, p)
\* or it resumes the turn.
Resumes(p) ==
    /\ p \in Clicks
    /\ pc[p] = "decided"
    /\ pc'[p] \in {"execute", "compute"}
    /\ turn.rev = Ctl(p)
    /\ turn.status \notin Terminal
    /\ turn'.rev = turn.rev
    /\ turn'.status = "running"
    /\ SetActive(turn.rev, p)
RowFate(p) == Kept \/ Ends(p) \/ Claims(p) \/ Waits(p) \/ Begins(p) \/ Resumes(p)

\* The other handlers stay where they are.
Others(p) == \A q \in Procs : q # p =>
    pc'[q] = pc[q] /\ fiber'[q] = fiber[q] /\ reply'[q] = reply[q]

\* Where the handler goes: it takes a turn in hand only by beginning or
\* deciding it, and a run ends in its turn, unless Slack drops its reply.
Path(p) ==
    /\ pc[p] # "done"
    /\ pc'[p] \notin {"new", "lost"}
    /\ pc'[p] \in Live => Begins(p) \/ Resumes(p)
                          \/ (pc[p] \in Live /\ fiber'[p].rev = fiber[p].rev)
    /\ pc'[p] \in RunLabels => Begins(p) \/ Resumes(p) \/ pc[p] \in RunLabels
    /\ pc'[p] = "recoverPost" => pc[p] = "lost"
    /\ pc'[p] = "intake" => pc[p] = "lost" \/ (pc[p] = "new" /\ fiber'[p].rev = fiber[p].rev)
    /\ pc[p] \in {"posted", "writeback"} /\ pc'[p] \in Held => pc'[p] \in {"posted", "writeback"}
    /\ pc[p] \in Live /\ pc'[p] \notin Live =>
         SlackDrops \/ p \in aborted \/ ~IsCurrent(Ctl(p)) \/ active' = NoActive

\* The step adds no unread update but to a turn that is not claimed.
Steered == \A m \in Msgs : inbox'[m].status \in Unread =>
    \/ inbox[m].status \in Unread /\ inbox'[m].rev = inbox[m].rev
    \/ inbox'[m].rev = turn.rev /\ turn.status \in {"running", "waiting_approval"}

\* The answers: a handler answers once it has claimed its turn with nothing
\* left to read, and only such an answer is posted.
Answers(p) ==
    /\ Answering(p)' =>
         \/ Answering(p) /\ fiber'[p].rev = fiber[p].rev
         \/ /\ Claims(p) /\ turn'.status = "finalizing" /\ pc'[p] = "publish"
            /\ InboxEmpty(Ctl(p)) /\ UNCHANGED <<inbox, fiber>>
    /\ \/ UNCHANGED posted
       \/ /\ Answering(p) /\ pc[p] = "post" /\ pc'[p] = "posted"
          /\ UNCHANGED <<rowVars, fiber>>
          /\ posted' = Append(posted, [rev |-> Ctl(p), kind |-> "answer"])
       \/ \E r \in Nat : posted' = Append(posted, [rev |-> r, kind |-> "recovered"])

\* The approvals stay what they are, but for a status that is settled.
Settled == \A a \in Approvals :
    /\ appr'[a].rev = appr[a].rev
    /\ appr'[a].card = "none" <=> appr[a].card = "none"
    /\ appr'[a].status = "pending" => appr[a].status = "pending"
    /\ appr[a].status # "none" => appr'[a].status # "none"

\* A step of a handler.
Handled(p) ==
    /\ Others(p) /\ Path(p) /\ RowFate(p) /\ Steered /\ Answers(p)
    /\ crashes' = crashes
\* One that takes nothing in hand that was not in its hand before.
Quiet(p) ==
    /\ Settled
    /\ target' = target
    /\ pc'[p] \in Held => pc[p] \in Held /\ fiber'[p].rev = fiber[p].rev
    /\ pc'[p] \notin {"card", "cardPosted"}
    /\ fiber'[p].rev \in {0, fiber[p].rev}
    /\ p \in Clicks /\ pc'[p] # "done" => pc[p] # "new"
    /\ ~Begins(p)

-----------------------------------------------------------------------------
(* The moves of handlers, and the rows they leave *)

\* Parking at another await.
LEMMA GotoMoves ==
  ASSUME HandlerType, NEW p \in Procs, NEW label,
         Goto(p, label) \/ \E e : GotoWith(p, label, e)
  PROVE  Others(p) /\ pc'[p] = label /\ fiber'[p] = fiber[p] /\ reply'[p] = reply[p] /\ fiber' = fiber
  BY DEF HandlerType, Goto, GotoWith, At, Others

\* Returning.
LEMMA FinishMoves ==
  ASSUME HandlerType, NEW p \in Procs, Finish(p)
  PROVE  /\ Others(p) /\ pc'[p] = "done" /\ fiber'[p] = NewFiber /\ fiber'[p].rev = 0
         /\ reply'[p] = "none"
  BY DEF HandlerType, Finish, At, Others, NewFiber

\* A reply that came out of the run.
LEMMA ToPostMoves ==
  ASSUME HandlerType, NEW p \in Procs, NEW k, ToPost(p, k)
  PROVE  /\ Others(p) /\ pc'[p] = "post" /\ fiber'[p] = fiber[p] /\ reply'[p] = k /\ fiber' = fiber
  BY DEF HandlerType, ToPost, At, Others

\* Another pass of the loop, a checkpoint of a proposal or of a delivery: the
\* snapshot keeps its turn.
LEMMA StashMoves ==
  ASSUME HandlerType, NEW p \in Procs, NEW label, At(p, label), UNCHANGED reply,
         \/ \E b : fiber' = [fiber EXCEPT ![p].proposal = b]
         \/ fiber' = [fiber EXCEPT ![p].delivered = TRUE]
         \/ fiber' = [fiber EXCEPT ![p].attempt = 1]
         \/ fiber' = fiber
  PROVE  /\ Others(p) /\ pc'[p] = label /\ fiber'[p].rev = fiber[p].rev
         /\ reply'[p] = reply[p]
  BY DEF HandlerType, At, Others

\* A status that is set leaves the rest of the approvals alone.
LEMMA SetSettles ==
  ASSUME ApprovalType, NEW a, NEW s \in ApprovalStatus, s \notin {"none", "pending"},
         appr' = appr \/ appr' = SetApproval(a, s)
  PROVE  Settled
  BY DEF Settled, SetApproval, ApprovalType

\* A row that is completed was current, and it was the handler's own.
LEMMA CompletedFate ==
  ASSUME RowType, NEW p \in Procs, pc'[p] = "done", MarkCompleted(Ctl(p)), pc[p] \in Held \/ turn.status # "finalizing"
  PROVE  RowFate(p)
  <1>1. CASE IsCurrent(Ctl(p))
    <2>1. turn'.rev = turn.rev /\ turn'.status = "completed" /\ active' = NoActive /\ aborted' = aborted
      BY <1>1 DEF MarkCompleted, Stamped, RowType, Row
    <2> QED BY <1>1, <2>1 DEF RowFate, Ends, IsCurrent, Terminal
  <1>2. CASE ~IsCurrent(Ctl(p))
    BY <1>2 DEF MarkCompleted, RowFate, Kept, rowVars
  <1> QED BY <1>1, <1>2

\* The wrapper reaps a turn that is still running.
LEMMA ReapFate ==
  ASSUME RowType, NEW p \in Procs, pc'[p] = "done", Reap(Ctl(p))
  PROVE  RowFate(p)
  BY CompletedFate DEF Reap, RowFate, Kept, rowVars

\* A turn that is interrupted or settled ends, and so does its controller.
LEMMA SettleFate ==
  ASSUME RowType, NEW p \in Procs, NEW s \in Terminal, turn' = Stamped(turn, s),
         AbortActive(turn.rev), turn.status \notin Terminal,
         \/ turn.status # "finalizing"
         \/ p \in Msgs /\ pc[p] \in {"intake", "lost"} /\ fiber[p].rev = turn.rev /\ fiber[p].rev # 0
  PROVE  RowFate(p)
  BY DEF RowFate, Ends, Stamped, RowType, Row

\* A step that leaves the inbox alone, consumes it or lets it fail open.
LEMMA InboxSteered ==
  ASSUME InboxType, NEW r, NEW q, NEW box \in {inbox, FailedOpen(inbox, q)},
         inbox' = inbox \/ inbox' = box \/ inbox' = Consumed(box, r)
  PROVE  Steered
  <1>1. CASE inbox' = inbox BY <1>1 DEF Steered
  <1>2. CASE inbox' = box \/ inbox' = Consumed(box, r)
    <2>1. NoNewUpdate BY <1>2, ConsumedSeal
    <2> QED BY <2>1 DEF NoNewUpdate, Steered
  <1> QED BY <1>1, <1>2

\* A handler that is not at a claim and has claimed nothing answers nothing.
LEMMA NoAnswer ==
  ASSUME NEW p \in Procs, UNCHANGED posted,
         pc'[p] \notin {"publish", "post", "posted", "writeback"}
  PROVE  Answers(p)
  BY DEF Answers, Answering

-----------------------------------------------------------------------------
(* A message before its turn *)

\* Where a message is before its turn and after it was lost.
Outside == {"new", "intake", "finalWait", "gate", "prep", "lost", "recoverPost"}

\* A handler without a turn that goes on without one.
LEMMA OutsideHandled ==
  ASSUME TypeInv, NEW m \in Msgs, pc[m] \in Outside,
         UNCHANGED <<approvalVars, crashes>>, RowFate(m), Steered,
         posted' = posted \/ \E r \in Nat : posted' = Append(posted, [rev |-> r, kind |-> "recovered"]),
         \/ Finish(m)
         \/ Goto(m, "intake") /\ pc[m] = "new"
         \/ Goto(m, "recoverPost") /\ pc[m] = "lost"
         \/ \E label \in {"finalWait", "prep", "gate"} : \E e : GotoWith(m, label, e)
         \/ fiber' = [fiber EXCEPT ![m].attempt = 1] /\ At(m, "intake") /\ UNCHANGED reply /\ pc[m] = "lost"
  PROVE  Handled(m) /\ Quiet(m)
  <1> m \in Procs /\ m \notin Clicks BY ThreadAssumption DEF Procs
  <1> HandlerType BY DEF TypeInv
  <1>1. /\ Others(m)
        /\ pc'[m] \in {"done", "intake", "recoverPost", "finalWait", "prep", "gate"}
        /\ fiber'[m].rev \in {0, fiber[m].rev}
        /\ pc'[m] = "intake" => pc[m] = "lost" \/ (pc[m] = "new" /\ fiber'[m].rev = fiber[m].rev)
        /\ pc'[m] = "recoverPost" => pc[m] = "lost"
    <2>1. CASE Finish(m) BY <2>1, FinishMoves
    <2>2. CASE Goto(m, "intake") /\ pc[m] = "new" BY <2>2, GotoMoves
    <2>3. CASE Goto(m, "recoverPost") /\ pc[m] = "lost" BY <2>3, GotoMoves
    <2>4. CASE \E label \in {"finalWait", "prep", "gate"} : \E e : GotoWith(m, label, e)
      BY <2>4, GotoMoves
    <2>5. CASE fiber' = [fiber EXCEPT ![m].attempt = 1] /\ At(m, "intake") /\ UNCHANGED reply /\ pc[m] = "lost"
      BY <2>5, StashMoves
    <2> QED BY <2>1, <2>2, <2>3, <2>4, <2>5
  <1>2. pc[m] \notin Held /\ pc[m] # "done" BY DEF Outside, Held, Live, RunLabels, PostingLabels
  <1>3. pc'[m] \notin Held /\ pc'[m] \notin {"new", "lost", "publish", "card", "cardPosted", "compute"}
    BY <1>1 DEF Held, Live, RunLabels, PostingLabels
  <1>4. Path(m) BY <1>1, <1>2, <1>3 DEF Path, Held, Live
  <1>5. Settled /\ target' = target BY DEF Settled, approvalVars
  <1>6. Answers(m) BY <1>3 DEF Answers, Answering, Held, Live, PostingLabels
  <1> QED BY <1>1, <1>2, <1>3, <1>4, <1>5, <1>6 DEF Handled, Quiet, Begins

\* One pass of the steering loop adds an update to a steerable turn only.
LEMMA SteerHandled ==
  ASSUME TypeInv, NEW m \in Msgs, pc[m] \in {"intake", "finalWait", "gate"},
         NEW box \in {inbox, Discarded(m)}, Steer(m, box)
  PROVE  Handled(m) /\ Quiet(m)
  <1> m \in Procs BY DEF Procs
  <1> RowType /\ InboxType BY DEF TypeInv
  <1>1. Steered
    <2>1. \A n \in Msgs : box[n].status \in Unread => inbox[n].status \in Unread /\ box[n].rev = inbox[n].rev
      BY DEF Discarded, NoUpdate, InboxType, Unread
    <2>2. CASE inbox' = box BY <2>1, <2>2 DEF Steered
    <2>3. CASE Reserve(m, box) /\ IsSteerable(turn)
      <3>1. turn.status \in {"running", "waiting_approval"} BY <2>3 DEF IsSteerable
      <3>2. inbox' \in {box, [box EXCEPT ![m] = [rev |-> turn.rev, status |-> "ignored"]],
                        [box EXCEPT ![m] = [rev |-> turn.rev, status |-> "classifying"]]}
        BY <2>3 DEF Reserve
      <3>3. box \in [Msgs -> [rev : Nat, status : UpdateStatus]]
        BY DEF InboxType, Discarded, NoUpdate, UpdateStatus
      <3> QED BY <2>1, <3>1, <3>2, <3>3 DEF Steered, Unread
    <2> QED BY <2>2, <2>3 DEF Steer
  <1>2. RowFate(m)
    <2>1. CASE UNCHANGED rowVars BY <2>1 DEF RowFate, Kept
    <2>2. CASE StopsTurn(m) /\ Interrupt("cancelled")
      <3>1. turn.status \notin Terminal \cup {"finalizing"} BY <2>2 DEF StopsTurn, IsSteerable, Terminal
      <3> QED BY <2>2, <3>1, SettleFate DEF Interrupt, Terminal
    <2> QED BY <2>1, <2>2 DEF Steer
  <1>3. \/ Finish(m)
        \/ \E label \in {"finalWait", "prep", "gate"} : \E e : GotoWith(m, label, e)
    BY DEF Steer, SeedFrom, Reserve
  <1>4. UNCHANGED <<approvalVars, crashes, posted>> BY DEF Steer, history
  <1> QED BY <1>1, <1>2, <1>3, <1>4, OutsideHandled DEF Outside

\* A message before its turn.
LEMMA IntakeHandled ==
  ASSUME TypeInv, NEW m \in Msgs,
         Accept(m) \/ Decline(m) \/ Arrive(m) \/ ArriveRecovered(m) \/ AwaitFinalization(m)
  PROVE  Handled(m) /\ Quiet(m)
  <1> m \in Procs BY DEF Procs
  <1> RowType /\ InboxType BY DEF TypeInv
  <1>1. CASE Accept(m) \/ Decline(m)
    BY <1>1, OutsideHandled, InboxSteered
       DEF Accept, Decline, Outside, RowFate, Kept, controlVars, rowVars, history
  <1>2. CASE Arrive(m) BY <1>2, SteerHandled DEF Arrive
  <1>3. CASE ArriveRecovered(m)
    <2>1. RowFate(m)
      <3>1. CASE CanSettle(fiber[m].rev) /\ SettleInterrupted("superseded")
        BY <1>3, <3>1, SettleFate DEF ArriveRecovered, CanSettle, SettleInterrupted, Terminal
      <3>2. CASE UNCHANGED rowVars BY <3>2 DEF RowFate, Kept
      <3> QED BY <1>3, <3>1, <3>2 DEF ArriveRecovered
    <2>2. Finish(m) \/ \E e : GotoWith(m, "prep", e)
      BY <1>3 DEF ArriveRecovered, SeedFrom
    <2>3. pc[m] \in Outside /\ UNCHANGED <<approvalVars, crashes, posted, inbox>>
      BY <1>3 DEF ArriveRecovered, history, Outside
    <2> QED BY <2>1, <2>2, <2>3, OutsideHandled, InboxSteered
  <1>4. CASE AwaitFinalization(m)
    <2>1. CASE Steer(m, inbox) BY <1>4, <2>1, SteerHandled DEF AwaitFinalization
    <2>2. CASE ~Steer(m, inbox)
      <3>1. /\ turn.status = "finalizing" /\ active.rev # turn.rev
            /\ turn' = Stamped(turn, "completed") /\ UNCHANGED <<active, aborted, inbox, approvalVars, history>>
            /\ \E e : GotoWith(m, "prep", e)
            /\ pc[m] \in Outside
        BY <1>4, <2>2 DEF AwaitFinalization, SeedFrom, Outside
      <3>2. RowFate(m) BY <3>1 DEF RowFate, Ends, Stamped, RowType, Row, Terminal
      <3> QED BY <3>1, <3>2, OutsideHandled, InboxSteered DEF history
    <2> QED BY <2>1, <2>2
  <1> QED BY <1>1, <1>2, <1>3, <1>4

\* The gate has answered.
LEMMA GateHandled ==
  ASSUME TypeInv, NEW m \in Msgs, GateAnswers(m)
  PROVE  Handled(m) /\ Quiet(m)
  <1> m \in Procs BY DEF Procs
  <1> RowType /\ InboxType BY DEF TypeInv
  <1>0. pc[m] \in {"intake", "finalWait", "gate"} /\ pc[m] \in Outside BY DEF GateAnswers, Outside
  <1>1. CASE Steer(m, Discarded(m)) BY <1>0, <1>1, SteerHandled
  <1>2. CASE ~Steer(m, Discarded(m))
    <2>1. IsSteerable(turn) /\ UNCHANGED <<approvalVars, posted, crashes>>
      BY <1>2 DEF GateAnswers, history
    <2>2. PICK s \in {"ignored", "pending"} : Resolve(m, s)
      BY <1>2 DEF GateAnswers
    <2>3. \/ Finish(m) /\ UNCHANGED rowVars
          \/ Interrupt("superseded") /\ \E e : GotoWith(m, "prep", e)
      BY <1>2 DEF GateAnswers, SeedFrom
    <2>4. Steered
      BY <2>2 DEF Resolve, Steered, InboxType, Unread
    <2>5. RowFate(m)
      <3>1. turn.status \notin Terminal \cup {"finalizing"} BY <2>1 DEF IsSteerable, Terminal
      <3>2. CASE UNCHANGED rowVars BY <3>2 DEF RowFate, Kept
      <3>3. CASE Interrupt("superseded") BY <3>1, <3>3, SettleFate DEF Interrupt, Terminal
      <3> QED BY <2>3, <3>2, <3>3
    <2> QED BY <1>0, <2>1, <2>3, <2>4, <2>5, OutsideHandled
  <1> QED BY <1>1, <1>2

\* The recovery of a fiber.
LEMMA RecoveryHandled ==
  ASSUME TypeInv, NEW m \in Msgs, Recovery(m)
  PROVE  Handled(m) /\ Quiet(m)
  <1> m \in Procs BY DEF Procs
  <1> RowType /\ InboxType /\ HandlerType BY DEF TypeInv
  <1>1. CASE RecoverFiber(m)
    <2>1. RowFate(m)
      <3>1. CASE UNCHANGED rowVars BY <3>1 DEF RowFate, Kept
      <3>2. CASE fiber[m].rev # 0 /\ CanSettle(fiber[m].rev) /\ SettleInterrupted("completed")
        BY <1>1, <3>2, SettleFate DEF RecoverFiber, CanSettle, SettleInterrupted, Terminal
      <3> QED BY <1>1, <3>1, <3>2 DEF RecoverFiber
    <2>2. \/ Finish(m)
          \/ Goto(m, "recoverPost")
          \/ fiber' = [fiber EXCEPT ![m].attempt = 1] /\ At(m, "intake") /\ UNCHANGED reply
      BY <1>1 DEF RecoverFiber
    <2>3. pc[m] = "lost" /\ UNCHANGED <<approvalVars, crashes, posted, inbox>>
      BY <1>1 DEF RecoverFiber, history
    <2> QED BY <2>1, <2>2, <2>3, OutsideHandled, InboxSteered DEF Outside
  <1>2. CASE RecoverPost(m)
    <2>1. posted' = posted \/ \E r \in Nat : posted' = Append(posted, [rev |-> r, kind |-> "recovered"])
      BY <1>2 DEF RecoverPost, HandlerType
    <2> QED BY <1>2, <2>1, OutsideHandled, InboxSteered
            DEF RecoverPost, Outside, RowFate, Kept, controlVars, rowVars
  <1> QED BY <1>1, <1>2 DEF Recovery

\* beginThreadTurn.
LEMMA BeginHandled ==
  ASSUME TypeInv, NEW m \in Msgs, BeginTurn(m)
  PROVE  Handled(m) /\ (Quiet(m) \/ (Begins(m) /\ UNCHANGED <<appr, target>>))
  <1> m \in Procs BY DEF Procs
  <1> RowType /\ InboxType /\ HandlerType BY DEF TypeInv
  <1>1. CASE ~MatchesStart(saw[m])
    BY <1>1, OutsideHandled, InboxSteered
       DEF BeginTurn, Outside, RowFate, Kept, history
  <1>2. CASE MatchesStart(saw[m])
    <2>1. /\ pc[m] = "prep" /\ turn.status # "finalizing" /\ Begin(m, Author[m])
          /\ fiber' = [fiber EXCEPT ![m].rev = turn.rev + 1]
          /\ At(m, "compute") /\ UNCHANGED <<reply, inbox, approvalVars, posted, crashes>>
      BY <1>2 DEF BeginTurn, MatchesStart, history
    <2>2. Others(m) /\ pc'[m] = "compute" /\ fiber'[m].rev = turn.rev + 1
      BY <2>1 DEF Others, At, HandlerType
    <2>3. Begins(m) BY <2>1, <2>2 DEF Begins, Begin
    <2>4. Path(m) BY <2>1, <2>2, <2>3 DEF Path, Live, RunLabels, PostingLabels
    <2>5. Answers(m) BY <2>1, <2>2, NoAnswer
    <2>6. Steered BY <2>1 DEF Steered
    <2> QED BY <2>1, <2>2, <2>3, <2>4, <2>5, <2>6 DEF Handled, RowFate, approvalVars
  <1> QED BY <1>1, <1>2

-----------------------------------------------------------------------------
(* The run of a turn *)

\* A run that goes on, at most to the claim of its turn.
LEMMA RunningHandled ==
  ASSUME TypeInv, NEW p \in Procs, pc[p] \in RunLabels, pc'[p] \in RunLabels, Others(p),
         fiber'[p].rev = fiber[p].rev, Kept \/ Claims(p), Steered,
         UNCHANGED <<approvalVars, posted, crashes>>,
         pc'[p] = "publish" => /\ Claims(p) /\ turn'.status = "finalizing"
                               /\ InboxEmpty(Ctl(p)) /\ UNCHANGED <<inbox, fiber>>
  PROVE  Handled(p) /\ Quiet(p)
  <1>1. /\ pc'[p] \notin {"new", "lost", "intake", "recoverPost", "done", "card", "cardPosted", "post", "posted", "writeback"}
        /\ pc[p] \notin {"new", "done", "prep"}
        /\ pc[p] \notin {"posted", "writeback"}
        /\ pc[p] \in Held /\ pc'[p] \in Live
    BY DEF RunLabels, Held, Live
  <1>2. Path(p) BY <1>1 DEF Path, Live
  <1>3. Answers(p) BY <1>1 DEF Answers, Answering
  <1>4. Quiet(p) BY <1>1 DEF Quiet, Settled, approvalVars, Begins
  <1> QED BY <1>2, <1>3, <1>4 DEF Handled, RowFate

\* The claims of a run.
LEMMA ClaimFate ==
  ASSUME RowType, NEW p \in Procs, pc[p] \in RunLabels,
         ClaimFinalization(Ctl(p)) \/ ClaimApproval(Ctl(p))
  PROVE  /\ Claims(p)
         /\ ClaimFinalization(Ctl(p)) => turn'.status = "finalizing" /\ InboxEmpty(Ctl(p))
  BY DEF ClaimFinalization, ClaimApproval, Claims, Stamped, RowType, Row

\* The model loop.
LEMMA LoopHandled ==
  ASSUME TypeInv, NEW p \in Procs,
         ModelStep(p) \/ FinishModel(p) \/ RequestApproval(p) \/ ApprovalWaitOver(p)
           \/ ClaimReply(p) \/ ClaimWaitOver(p)
  PROVE  Handled(p) /\ Quiet(p)
  <1> RowType /\ InboxType /\ HandlerType BY DEF TypeInv
  <1>0. pc[p] \in RunLabels /\ UNCHANGED <<approvalVars, posted, crashes>>
    BY DEF ModelStep, FinishModel, RequestApproval, ApprovalWaitOver, ClaimReply, ClaimWaitOver,
           RunLabels, history
  <1>1. CASE ModelStep(p)
    <2>1. Others(p) /\ pc'[p] = "compute" /\ fiber'[p] = fiber[p] /\ Kept
      BY <1>1 DEF ModelStep, Others, handlerVars, Kept
    <2>2. Steered BY <1>1, InboxSteered DEF ModelStep
    <2> QED BY <1>0, <2>1, <2>2, RunningHandled DEF RunLabels
  <1>2. CASE FinishModel(p) \/ RequestApproval(p)
    <2>1. PICK label \in {"settle", "suspend", "approvalWait"} : At(p, label)
      BY <1>2 DEF FinishModel, RequestApproval
    <2>2. Others(p) /\ pc'[p] = label /\ fiber'[p].rev = fiber[p].rev
      BY <1>2, <2>1, StashMoves DEF FinishModel, RequestApproval, MayPropose
    <2>3. Kept \/ Claims(p)
      BY <1>0, <1>2, ClaimFate DEF FinishModel, RequestApproval, Kept, controlVars, rowVars
    <2>4. Steered BY <1>2, InboxSteered DEF FinishModel, RequestApproval, controlVars
    <2> QED BY <1>0, <2>2, <2>3, <2>4, RunningHandled DEF RunLabels
  <1>3. CASE ApprovalWaitOver(p) \/ ClaimWaitOver(p)
    <2>1. PICK box \in {inbox, FailedOpen(inbox, Ctl(p))} :
            \/ Continue(p, box) /\ UNCHANGED rowVars
            \/ ClaimApproval(Ctl(p)) /\ Goto(p, "suspend") /\ UNCHANGED inbox
            \/ ClaimFinalization(Ctl(p)) /\ Goto(p, "publish") /\ UNCHANGED inbox
      BY <1>3 DEF ApprovalWaitOver, ClaimWaitOver
    <2>2. CASE Continue(p, box) /\ UNCHANGED rowVars
      <3>1. Others(p) /\ pc'[p] = "compute" /\ fiber'[p].rev = fiber[p].rev
        BY <2>2, StashMoves DEF Continue
      <3>2. Steered BY <2>2, InboxSteered DEF Continue
      <3> QED BY <1>0, <2>2, <3>1, <3>2, RunningHandled DEF RunLabels, Kept
    <2>3. CASE ClaimApproval(Ctl(p)) /\ Goto(p, "suspend") /\ UNCHANGED inbox
      BY <1>0, <2>3, ClaimFate, GotoMoves, InboxSteered, RunningHandled DEF RunLabels
    <2>4. CASE ClaimFinalization(Ctl(p)) /\ Goto(p, "publish") /\ UNCHANGED inbox
      BY <1>0, <2>4, ClaimFate, GotoMoves, InboxSteered, RunningHandled DEF RunLabels
    <2> QED BY <2>1, <2>2, <2>3, <2>4
  <1>4. CASE ClaimReply(p)
    <2>1. CASE ClaimFinalization(Ctl(p)) /\ Goto(p, "publish") /\ UNCHANGED inbox
      BY <1>0, <2>1, ClaimFate, GotoMoves, InboxSteered, RunningHandled DEF RunLabels
    <2>2. CASE Goto(p, "claimWait") /\ UNCHANGED rowVars /\ UNCHANGED inbox
      BY <1>0, <2>2, GotoMoves, InboxSteered, RunningHandled DEF RunLabels, Kept
    <2> QED BY <1>4, <2>1, <2>2 DEF ClaimReply
  <1> QED BY <1>1, <1>2, <1>3, <1>4

\* A handler that returns: a run only when it was aborted or its turn is not
\* current, when Slack drops its reply, or when it drops its controller.
LEMMA ReturnHandled ==
  ASSUME TypeInv, NEW p \in Procs, Finish(p), pc[p] \notin {"done", "prep"}, RowFate(p),
         Settled, UNCHANGED <<inbox, target, posted, crashes>>,
         pc[p] \in Live => SlackDrops \/ p \in aborted \/ ~IsCurrent(Ctl(p)) \/ active' = NoActive
  PROVE  Handled(p) /\ Quiet(p)
  <1> InboxType /\ HandlerType BY DEF TypeInv
  <1>1. Others(p) /\ pc'[p] = "done" /\ fiber'[p].rev = 0 BY FinishMoves
  <1>2. "done" \notin Held BY DEF Held, Live, RunLabels, PostingLabels
  <1>3. Path(p) BY <1>1, <1>2 DEF Path, Held, Live
  <1>4. Answers(p) BY <1>1, NoAnswer
  <1>5. Steered BY InboxSteered
  <1>6. Quiet(p) BY <1>1, <1>2 DEF Quiet, Begins
  <1> QED BY <1>1, <1>3, <1>4, <1>5, <1>6 DEF Handled

\* A run that ends with something to post.
LEMMA ReplyHandled ==
  ASSUME TypeInv, NEW p \in Procs, NEW k, ToPost(p, k), pc[p] \in RunLabels, UNCHANGED rowVars,
         Settled, UNCHANGED <<inbox, target, posted, crashes>>, k = "answer" => pc[p] = "publish"
  PROVE  Handled(p) /\ Quiet(p)
  <1> InboxType /\ HandlerType BY DEF TypeInv
  <1>1. Others(p) /\ pc'[p] = "post" /\ fiber'[p].rev = fiber[p].rev /\ reply'[p] = k BY ToPostMoves
  <1>2. pc[p] \in Live /\ pc[p] \in Held /\ pc[p] \notin {"new", "done", "posted", "writeback"}
        /\ "post" \in Live /\ "post" \in Held /\ "post" \notin RunLabels
    BY DEF Held, Live, RunLabels, PostingLabels
  <1>3. Path(p) BY <1>1, <1>2 DEF Path
  <1>4. Answers(p) BY <1>1 DEF Answers, Answering
  <1>5. Steered BY InboxSteered
  <1>6. Quiet(p) BY <1>1, <1>2 DEF Quiet, Begins
  <1> QED BY <1>1, <1>3, <1>4, <1>5, <1>6 DEF Handled, RowFate, Kept

\* How a run ends, and how its reply is posted and recorded.
LEMMA EndHandled ==
  ASSUME TypeInv, NEW p \in Procs,
         RunFails(p) \/ DeliverReply(p) \/ PostThrows(p) \/ CompleteTurn(p)
           \/ CardFallback(p) \/ LeaveSuspended(p)
  PROVE  Handled(p) /\ Quiet(p)
  <1> RowType /\ InboxType /\ HandlerType /\ ApprovalType BY DEF TypeInv
  <1>0. UNCHANGED <<inbox, target, posted, crashes>> /\ pc[p] \notin {"done", "prep"}
    BY DEF RunFails, DeliverReply, PostThrows, CompleteTurn, CardFallback, LeaveSuspended,
           RunLabels, history, approvalVars
  <1>1. Settled
    BY SetSettles DEF RunFails, DeliverReply, PostThrows, CompleteTurn, CardFallback,
           LeaveSuspended, approvalVars, ApprovalStatus
  <1>2. CASE Leave(p) /\ (pc[p] \in Live => SlackDrops \/ p \in aborted \/ ~IsCurrent(Ctl(p)))
    BY <1>0, <1>1, <1>2, ReapFate, FinishMoves, ReturnHandled DEF Leave
  <1>3. CASE MarkCompleted(Ctl(p)) /\ Finish(p) /\ pc[p] \in Held
    BY <1>0, <1>1, <1>3, CompletedFate, FinishMoves, ReturnHandled DEF MarkCompleted
  <1>4. CASE RunFails(p)
    BY <1>0, <1>1, <1>2, <1>4, ReplyHandled DEF RunFails
  <1>5. CASE DeliverReply(p)
    BY <1>0, <1>1, <1>2, <1>5, ReplyHandled DEF DeliverReply, RunLabels
  <1>6. CASE PostThrows(p) BY <1>2, <1>6 DEF PostThrows
  <1>7. CASE CompleteTurn(p) \/ CardFallback(p)
    BY <1>3, <1>7 DEF CompleteTurn, CardFallback, Held, Live, PostingLabels
  <1>8. CASE LeaveSuspended(p)
    BY <1>2, <1>8 DEF LeaveSuspended, Live, PostingLabels, RunLabels
  <1> QED BY <1>4, <1>5, <1>6, <1>7, <1>8

\* The reply and its record.
LEMMA PostHandled ==
  ASSUME TypeInv, NEW p \in Procs, PostReply(p) \/ RecordReply(p)
  PROVE  Handled(p) /\ Quiet(p)
  <1> RowType /\ InboxType /\ HandlerType BY DEF TypeInv
  <1>a. Settled /\ target' = target
    BY DEF PostReply, RecordReply, approvalVars, Settled
  <1>b. {"post", "posted", "writeback"} \subseteq Live \cap Held
        /\ {"post", "posted", "writeback"} \cap RunLabels = {}
    BY DEF Held, Live, PostingLabels, RunLabels
  <1>1. CASE PostReply(p)
    <2>1. Others(p) /\ pc[p] = "post" /\ pc'[p] = "posted" /\ fiber'[p] = fiber[p] /\ reply'[p] = reply[p]
          /\ fiber' = fiber
      BY <1>1, GotoMoves DEF PostReply
    <2>2. UNCHANGED rowVars /\ inbox' = inbox /\ crashes' = crashes
      BY <1>1 DEF PostReply, controlVars, rowVars
    <2>3. Path(p) BY <1>b, <2>1 DEF Path
    <2>4. Answers(p) BY <1>1, <2>1, <2>2 DEF Answers, Answering, PostReply
    <2>5. Quiet(p) BY <1>a, <1>b, <2>1 DEF Quiet, Begins
    <2> QED BY <2>1, <2>2, <2>3, <2>4, <2>5, InboxSteered DEF Handled, RowFate, Kept
  <1>2. CASE RecordReply(p)
    <2>1. CASE Leave(p) /\ ~IsCurrent(Ctl(p))
      BY <1>2, <1>a, <2>1, ReapFate, FinishMoves, ReturnHandled DEF Leave, RecordReply, history
    <2>2. CASE At(p, "writeback") /\ Checkpoint(p) /\ UNCHANGED rowVars
      <3>1. Others(p) /\ pc[p] = "posted" /\ pc'[p] = "writeback" /\ fiber'[p].rev = fiber[p].rev /\ reply'[p] = reply[p]
        BY <1>2, <2>2, StashMoves DEF RecordReply, Checkpoint
      <3>2. UNCHANGED <<inbox, posted, crashes>> BY <1>2 DEF RecordReply, history
      <3>3. Path(p) BY <1>b, <3>1 DEF Path
      <3>4. Answers(p) BY <3>1, <3>2 DEF Answers, Answering
      <3>5. Quiet(p) BY <1>a, <1>b, <3>1 DEF Quiet, Begins
      <3> QED BY <2>2, <3>1, <3>2, <3>3, <3>4, <3>5, InboxSteered DEF Handled, RowFate, Kept
    <2> QED BY <1>2, <2>1, <2>2 DEF RecordReply
  <1> QED BY <1>1, <1>2

-----------------------------------------------------------------------------
(* Approvals and clicks *)

\* The approval of a run that suspends.
Asks(p) ==
    /\ Waits(p)
    /\ target' = target
    /\ fiber' = fiber
    /\ appr'[ApprovalOf(p)].rev = Ctl(p)
    /\ appr'[ApprovalOf(p)].card = "none"
    /\ \A a \in Approvals : a # ApprovalOf(p) =>
         /\ appr'[a].rev = appr[a].rev
         /\ appr'[a].card = appr[a].card
         /\ appr'[a].status = "pending" => appr[a].status = "pending"
         /\ appr[a].status # "none" => appr'[a].status # "none"

\* computeTurn is back with an approval request.
LEMMA SuspendHandled ==
  ASSUME TypeInv, NEW p \in Procs, Suspend(p)
  PROVE  Handled(p) /\ (Quiet(p) \/ Asks(p))
  <1> RowType /\ InboxType /\ HandlerType /\ ApprovalType BY DEF TypeInv
  <1>0. pc[p] = "suspend" /\ UNCHANGED <<inbox, target, posted, crashes>>
    BY DEF Suspend, history
  <1>1. CASE ~IsCurrent(Ctl(p))
    <2>1. Settled BY <1>1 DEF Suspend, Settled
    <2> QED BY <1>0, <1>1, <2>1, ReapFate, FinishMoves, ReturnHandled DEF Suspend, Leave
  <1>2. CASE IsCurrent(Ctl(p))
    <2>1. /\ MarkWaiting /\ Goto(p, "card")
          /\ appr' = [a \in Approvals |->
                   IF a = ApprovalOf(p)
                   THEN [NoApproval EXCEPT !.status = "pending", !.rev = Ctl(p)]
                   ELSE IF p \in Clicks /\ verdict[p] /\ a = target[p]
                   THEN [appr[a] EXCEPT !.status = "executed"]
                   ELSE appr[a]]
      BY <1>2 DEF Suspend
    <2>2. Others(p) /\ pc'[p] = "card" /\ fiber' = fiber /\ fiber'[p] = fiber[p] /\ reply'[p] = reply[p]
      BY <2>1, GotoMoves
    <2>3. Waits(p)
      BY <1>0, <1>2, <2>1, <2>2 DEF Waits, MarkWaiting, IsCurrent, Stamped, RowType, Row
    <2>4. ApprovalOf(p) \in Approvals BY DEF ApprovalOf, Approvals, HandlerType
    <2>5. Asks(p)
      <3>1. appr'[ApprovalOf(p)] = [NoApproval EXCEPT !.status = "pending", !.rev = Ctl(p)]
        BY <2>1, <2>4
      <3>2. \A a \in Approvals : a # ApprovalOf(p) =>
              appr'[a] = appr[a] \/ appr'[a] = [appr[a] EXCEPT !.status = "executed"]
        BY <2>1
      <3> QED BY <1>0, <2>2, <2>3, <3>1, <3>2 DEF Asks, NoApproval, ApprovalType
    <2>6. Path(p)
      <3>1. active' = NoActive BY <2>1 DEF MarkWaiting
      <3> QED BY <1>0, <2>2, <3>1 DEF Path, Live, RunLabels, PostingLabels
    <2>7. Answers(p) BY <1>0, <2>2, NoAnswer
    <2>8. Steered BY <1>0, InboxSteered
    <2> QED BY <1>0, <2>2, <2>3, <2>5, <2>6, <2>7, <2>8 DEF Handled, RowFate
  <1> QED BY <1>1, <1>2

\* The approval whose card goes up.
CardsUp(p) ==
    /\ pc[p] = "card"
    /\ pc'[p] = "cardPosted"
    /\ UNCHANGED <<target, fiber>>
    /\ turn' = turn
    /\ appr'[ApprovalOf(p)].rev = appr[ApprovalOf(p)].rev
    /\ appr'[ApprovalOf(p)].status = appr[ApprovalOf(p)].status
    /\ appr'[ApprovalOf(p)].card # "none"
    /\ \A a \in Approvals : a # ApprovalOf(p) => appr'[a] = appr[a]

\* The approval card goes up, or Slack refuses it.
LEMMA PostCardHandled ==
  ASSUME TypeInv, NEW p \in Procs, PostCard(p)
  PROVE  Handled(p) /\ (Quiet(p) \/ CardsUp(p))
  <1> RowType /\ InboxType /\ HandlerType /\ ApprovalType BY DEF TypeInv
  <1>0. pc[p] = "card" /\ UNCHANGED <<inbox, target, posted, crashes>>
    BY DEF PostCard, history
  <1>a. "card" \notin Live \cup RunLabels /\ "card" \in Held /\ "cardFailed" \in Held
        /\ {"cardPosted", "cardFailed"} \cap Live = {} /\ "cardPosted" \notin Held
    BY DEF Live, RunLabels, PostingLabels, Held
  <1>b. ApprovalOf(p) \in Approvals BY DEF ApprovalOf, Approvals, HandlerType
  <1>1. CASE Leave(p) /\ UNCHANGED appr
    <2>1. Settled BY <1>1 DEF Settled
    <2> QED BY <1>0, <1>a, <1>1, <2>1, ReapFate, FinishMoves, ReturnHandled DEF Leave
  <1>2. CASE UNCHANGED rowVars /\ \E label \in {"cardPosted", "cardFailed"} : Goto(p, label)
    <2>1. PICK label \in {"cardPosted", "cardFailed"} : Goto(p, label) BY <1>2
    <2>2. Others(p) /\ pc'[p] = label /\ fiber' = fiber /\ fiber'[p] = fiber[p] /\ reply'[p] = reply[p]
      BY <2>1, GotoMoves
    <2>3. Path(p) BY <1>0, <1>a, <2>1, <2>2 DEF Path, Live
    <2>4. Answers(p) BY <1>0, <2>1, <2>2, NoAnswer
    <2>5. Handled(p) BY <1>0, <1>2, <2>2, <2>3, <2>4, InboxSteered DEF Handled, RowFate, Kept
    <2>6. CASE appr' = SetApproval(ApprovalOf(p), "error") /\ label = "cardFailed"
      <3>1. Settled BY <2>6, SetSettles DEF ApprovalStatus
      <3> QED BY <1>0, <1>a, <2>2, <2>5, <2>6, <3>1 DEF Quiet, Begins
    <2>7. CASE appr' = [appr EXCEPT ![ApprovalOf(p)].card = "up"] /\ label = "cardPosted"
      BY <1>0, <1>2, <1>b, <2>2, <2>5, <2>7 DEF CardsUp, rowVars, ApprovalType
    <2>8. Goto(p, "cardPosted") => label = "cardPosted"
      BY <2>2, GotoMoves
    <2>9. Goto(p, "cardFailed") => label = "cardFailed"
      BY <2>2, GotoMoves
    <2>10. ~Leave(p) BY <2>1, <2>2, FinishMoves DEF Leave
    <2> QED BY <2>6, <2>7, <2>8, <2>9, <2>10 DEF PostCard
  <1> QED BY <1>1, <1>2 DEF PostCard

\* The record of the card.
LEMMA RecordCardHandled ==
  ASSUME TypeInv, TokenInv, NEW p \in Procs, RecordCard(p)
  PROVE  Handled(p) /\ Quiet(p)
  <1> RowType /\ InboxType /\ HandlerType /\ ApprovalType BY DEF TypeInv
  <1>0. pc[p] = "cardPosted" /\ UNCHANGED <<inbox, target, posted, crashes, rowVars>>
    BY DEF RecordCard, history, controlVars, rowVars
  <1>a. ApprovalOf(p) \in Approvals BY DEF ApprovalOf, Approvals, HandlerType
  <1>1. Others(p) /\ pc'[p] = "tail" /\ fiber'[p].rev = fiber[p].rev /\ reply'[p] = reply[p]
    BY StashMoves DEF RecordCard, Checkpoint
  <1>2. Settled
    BY <1>0, <1>a DEF RecordCard, Settled, ApprovalType, TokenInv, CardOf
  <1>3. "cardPosted" \notin Live /\ "tail" \notin Held /\ Live \subseteq Held /\ RunLabels \subseteq Live
    BY DEF Live, RunLabels, PostingLabels, Held
  <1>4. Path(p) BY <1>0, <1>1, <1>3 DEF Path
  <1>5. Answers(p) BY <1>0, <1>1, NoAnswer
  <1>6. Quiet(p) BY <1>0, <1>1, <1>2, <1>3 DEF Quiet, Begins
  <1> QED BY <1>0, <1>1, <1>4, <1>5, <1>6, InboxSteered DEF Handled, RowFate, Kept

\* Where a click is before it holds its approval.
LEMMA ClickPark ==
  ASSUME TypeInv, NEW c \in Clicks, NEW label \in {"clickWait", "lookup", "decided"},
         Goto(c, label), pc[c] \in {"new", "clickWait", "lookup"}, UNCHANGED <<rowVars, posted, crashes>>, Steered
  PROVE  /\ Handled(c) /\ pc'[c] = label /\ fiber' = fiber
  <1> c \in Procs BY DEF Procs
  <1> HandlerType BY DEF TypeInv
  <1>1. Others(c) /\ pc'[c] = label /\ fiber' = fiber /\ reply'[c] = reply[c] BY GotoMoves
  <1>2. label \notin Live /\ pc[c] \notin Live /\ RunLabels \subseteq Live
    BY DEF Live, RunLabels, PostingLabels
  <1>3. Path(c) BY <1>1, <1>2 DEF Path
  <1>4. Answers(c) BY <1>1, NoAnswer
  <1> QED BY <1>1, <1>3, <1>4 DEF Handled, RowFate, Kept

\* The click that takes its approval, and the one that decides it.
Targets(c) ==
    /\ pc[c] = "new"
    /\ pc'[c] = "clickWait"
    /\ UNCHANGED <<appr, fiber, turn>>
    /\ \A d \in Clicks : d # c => target'[d] = target[d]
    /\ target'[c] \in Approvals
    /\ appr[target'[c]].card # "none"
Decides(c) ==
    /\ pc[c] = "lookup"
    /\ pc'[c] = "decided"
    /\ UNCHANGED <<target, fiber, turn>>
    /\ appr[target[c]].status = "pending"
    /\ appr'[target[c]].status # "pending"
    /\ Settled

\* The steps of a click.
LEMMA ClickHandled ==
  ASSUME TypeInv, NEW c \in Clicks,
         Decision(c) \/ \E a \in Approvals, b \in BOOLEAN : Click(c, a, b)
  PROVE  Handled(c) /\ (Quiet(c) \/ Targets(c) \/ Decides(c))
  <1> c \in Procs BY DEF Procs
  <1> RowType /\ InboxType /\ HandlerType /\ ApprovalType BY DEF TypeInv
  <1>a. {"new", "clickWait", "lookup", "decided"} \cap Live = {} /\ "decided" \in Held
        /\ {"new", "clickWait", "lookup"} \cap Held = {}
        /\ RunLabels \subseteq Live /\ Live \subseteq Held
    BY DEF Live, RunLabels, PostingLabels, Held
  <1>1. ASSUME NEW a \in Approvals, NEW b \in BOOLEAN, Click(c, a, b)
        PROVE  Handled(c) /\ (Quiet(c) \/ Targets(c))
    <2>0. pc[c] = "new" /\ UNCHANGED <<rowVars, turn, inbox, posted, crashes>> /\ appr[a].card # "none"
      BY <1>1 DEF Click, controlVars, rowVars, history
    <2>1. CASE appr[a].status = "pending" /\ ~appr[a].late
      <3>1. target' = [target EXCEPT ![c] = a] /\ Goto(c, "clickWait") /\ appr' = appr
        BY <1>1, <2>1 DEF Click
      <3>2. Handled(c) /\ pc'[c] = "clickWait" /\ fiber' = fiber
        BY <2>0, <3>1, ClickPark, InboxSteered
      <3>3. Targets(c) BY <2>0, <3>1, <3>2 DEF Targets, ApprovalType
      <3> QED BY <3>2, <3>3
    <2>2. CASE ~(appr[a].status = "pending" /\ ~appr[a].late)
      <3>1. Settled /\ target' = target /\ Finish(c)
        BY <1>1, <2>2, SetSettles DEF Click, ApprovalStatus
      <3> QED BY <1>a, <2>0, <3>1, ReturnHandled DEF RowFate, Kept
    <2> QED BY <2>1, <2>2
  <1>2. CASE ClickChecked(c)
    <2>0. pc[c] = "clickWait" /\ UNCHANGED <<rowVars, target, posted, crashes>>
      BY <1>2 DEF ClickChecked, history
    <2>1. Steered BY <1>2, InboxSteered DEF ClickChecked
    <2>2. CASE Goto(c, "lookup") /\ UNCHANGED appr
      <3>1. Handled(c) /\ pc'[c] = "lookup" /\ fiber' = fiber BY <2>0, <2>1, <2>2, ClickPark
      <3>2. Settled BY <2>2 DEF Settled
      <3> QED BY <1>a, <2>0, <3>1, <3>2 DEF Quiet, Begins
    <2>3. CASE Finish(c) /\ appr' = SetApproval(target[c], "cancelled")
      <3>1. Settled BY <2>3, SetSettles DEF ApprovalStatus
      <3>2. Others(c) /\ pc'[c] = "done" /\ fiber'[c].rev = 0 BY <2>3, FinishMoves
      <3>3. "done" \notin Held BY DEF Held, Live, RunLabels, PostingLabels
      <3>4. Path(c) BY <1>a, <2>0, <3>2, <3>3 DEF Path
      <3>5. Answers(c) BY <2>0, <3>2, NoAnswer
      <3>6. Quiet(c) BY <2>0, <3>1, <3>2, <3>3 DEF Quiet, Begins
      <3> QED BY <2>0, <2>1, <3>2, <3>4, <3>5, <3>6 DEF Handled, RowFate, Kept
    <2> QED BY <1>2, <2>2, <2>3 DEF ClickChecked
  <1>3. CASE Decide(c)
    <2>0. pc[c] = "lookup" /\ UNCHANGED <<rowVars, turn, target, inbox, posted, crashes>>
      BY <1>3 DEF Decide, controlVars, rowVars, history
    <2>1. CASE Finish(c) /\ UNCHANGED appr
      <3>1. Settled BY <2>1 DEF Settled
      <3> QED BY <1>a, <2>0, <2>1, <3>1, ReturnHandled DEF RowFate, Kept
    <2>2. CASE /\ appr[target[c]].status = "pending"
               /\ appr' = SetApproval(target[c], IF verdict[c] THEN "approved" ELSE "denied")
               /\ Goto(c, "decided")
      <3>1. Handled(c) /\ pc'[c] = "decided" /\ fiber' = fiber
        BY <2>0, <2>2, ClickPark, InboxSteered
      <3>2. Settled BY <2>2, SetSettles DEF ApprovalStatus
      <3>3. target[c] \in Approvals BY <2>0 DEF TypeInv, Targeted
      <3>4. Decides(c) BY <2>0, <2>2, <3>1, <3>2, <3>3 DEF Decides, SetApproval, ApprovalType
      <3> QED BY <3>1, <3>4
    <2> QED BY <1>3, <2>1, <2>2 DEF Decide
  <1>4. CASE Resume(c)
    <2>0. pc[c] = "decided" /\ UNCHANGED <<target, inbox, posted, crashes>>
      BY <1>4 DEF Resume, history
    <2>1. CASE Finish(c) /\ UNCHANGED rowVars
      <3>1. Settled
        BY <1>4, <2>1, SetSettles DEF Resume, Settled, ApprovalStatus
      <3> QED BY <1>a, <2>0, <2>1, <3>1, ReturnHandled DEF RowFate, Kept
    <2>2. CASE ~(Finish(c) /\ UNCHANGED rowVars)
      <3>1. IsCurrent(appr[target[c]].rev) /\ ResumeTurn(c) /\ appr' = appr
            /\ \E label \in {"execute", "compute"} : Goto(c, label)
        BY <1>4, <2>2 DEF Resume
      <3>2. Others(c) /\ pc'[c] \in {"execute", "compute"} /\ fiber' = fiber /\ reply'[c] = reply[c]
        BY <3>1, GotoMoves
      <3>3. Ctl(c) = appr[target[c]].rev BY ThreadAssumption DEF Ctl
      <3>4. Resumes(c)
        BY <2>0, <3>1, <3>2, <3>3 DEF Resumes, ResumeTurn, IsCurrent, Stamped, RowType, Row
      <3>5. Path(c) BY <1>a, <2>0, <3>2, <3>4 DEF Path
      <3>6. Answers(c) BY <2>0, <3>2, NoAnswer
      <3>7. Settled BY <3>1 DEF Settled
      <3>8. Quiet(c) BY <1>a, <2>0, <3>2, <3>7 DEF Quiet, Begins
      <3> QED BY <2>0, <3>2, <3>4, <3>5, <3>6, <3>8, InboxSteered DEF Handled, RowFate
    <2> QED BY <2>1, <2>2
  <1>5. CASE Execute(c)
    <2>0. pc[c] = "execute" /\ UNCHANGED <<rowVars, appr, target, inbox, posted, crashes>> /\ Goto(c, "compute")
      BY <1>5 DEF Execute, controlVars, rowVars, history
    <2>1. Others(c) /\ pc'[c] = "compute" /\ fiber' = fiber /\ reply'[c] = reply[c] BY <2>0, GotoMoves
    <2>2. Settled BY <2>0 DEF Settled
    <2>3. "execute" \in RunLabels /\ "compute" \in RunLabels BY DEF RunLabels
    <2>4. Path(c) BY <1>a, <2>0, <2>1, <2>3 DEF Path
    <2>5. Answers(c) BY <2>0, <2>1, NoAnswer
    <2>6. Quiet(c) BY <1>a, <2>0, <2>1, <2>2, <2>3 DEF Quiet, Begins
    <2> QED BY <2>0, <2>1, <2>4, <2>5, <2>6, InboxSteered DEF Handled, RowFate, Kept
  <1> QED BY <1>1, <1>2, <1>3, <1>4, <1>5 DEF Decision

-----------------------------------------------------------------------------
(* One turn, one hand *)

\* The revision of the row never goes back.
LEMMA RowGrows ==
  ASSUME RowType, NEW p \in Procs, RowFate(p)
  PROVE  turn'.rev \in Nat /\ turn.rev \in Nat /\ turn.rev <= turn'.rev
  BY DEF RowFate, Kept, Ends, Claims, Waits, Begins, Resumes, RowType, Row, rowVars

\* A handler that is under way is not ahead of the row.
LEMMA CtlKnown ==
  ASSUME TypeInv, Known, NEW p \in Procs, pc[p] \notin {"new", "done"}
  PROVE  /\ Ctl(p) \in Nat /\ Ctl(p) <= turn.rev
         /\ p \notin Msgs => p \in Clicks /\ target[p] \in Approvals
  <1>1. CASE p \in Msgs
    BY <1>1 DEF Ctl, Known, TypeInv, HandlerType
  <1>2. CASE p \notin Msgs
    <2>1. p \in Clicks BY <1>2 DEF Procs
    <2>2. target[p] \in Approvals BY <2>1 DEF TypeInv, Targeted
    <2> QED BY <1>2, <2>1, <2>2 DEF Ctl, Known, TypeInv, ApprovalType
  <1> QED BY <1>1, <1>2

\* Every handler with a turn in hand is under way.
LEMMA HeldUnderWay ==
  ASSUME NEW p \in Procs, pc[p] \in Held
  PROVE  pc[p] \notin {"new", "done", "prep", "intake", "lost", "clickWait", "lookup"}
  BY DEF Held, Live, RunLabels, PostingLabels

\* The turn of a handler changes with its snapshot, its target or its approval
\* only.
LEMMA CtlSame ==
  ASSUME NEW p \in Procs, p \in Msgs \/ target[p] \in Approvals,
         fiber'[p].rev = fiber[p].rev, p \in Clicks => target'[p] = target[p],
         \A a \in Approvals : p \in Clicks /\ a = target[p] => appr'[a].rev = appr[a].rev
  PROVE  Ctl(p)' = Ctl(p)
  BY DEF Ctl, Procs

\* Where a turn in hand comes from: it was in the same hand, it is a new turn,
\* or it was that of an open approval; and an approval opens with the turn of
\* the handler that puts up its card.
Flow ==
    /\ \A p \in Procs : pc'[p] \in Held =>
         \/ pc[p] \in Held /\ Ctl(p)' = Ctl(p)
         \/ Begins(p)
         \/ pc'[p] = "decided" /\ \E a \in Approvals : Open(a) /\ Ctl(p)' = appr[a].rev
    /\ \A a \in Approvals : Open(a)' =>
         \/ Open(a) /\ appr'[a].rev = appr[a].rev
         \/ \E p \in Procs : pc[p] = "card" /\ appr'[a].rev = Ctl(p)

\* A step that takes no turn in hand.
HandsOff ==
    /\ Settled
    /\ target' = target
    /\ turn'.rev \in Nat /\ turn.rev <= turn'.rev
    /\ \A p \in Procs :
         /\ pc'[p] \in Held => pc[p] \in Held /\ fiber'[p].rev = fiber[p].rev
         /\ pc'[p] \in {"card", "cardPosted"} => pc[p] = pc'[p] /\ fiber'[p] = fiber[p]
         /\ fiber'[p].rev \in {0, fiber[p].rev}
         /\ p \in Clicks /\ pc'[p] \notin {"new", "done"} => pc[p] \notin {"new", "done"}

\* A quiet step takes no turn in hand.
LEMMA QuietHandsOff ==
  ASSUME TypeInv, NEW p \in Procs, Handled(p), Quiet(p)
  PROVE  HandsOff
  <1> RowType BY DEF TypeInv
  <1>1. turn'.rev \in Nat /\ turn.rev <= turn'.rev BY RowGrows DEF Handled
  <1>2. ASSUME NEW q \in Procs, q # p PROVE pc'[q] = pc[q] /\ fiber'[q] = fiber[q]
    BY <1>2 DEF Handled, Others
  <1> QED BY <1>1, <1>2 DEF HandsOff, Quiet, Handled, Path

\* One turn stays in one hand in such a step.
LEMMA HandsOffTokens ==
  ASSUME TypeInv, TokenInv, HandsOff
  PROVE  TokenInv' /\ Flow
  <1> Known BY DEF TokenInv
  <1>1. ASSUME NEW p \in Procs, pc'[p] \in Held
        PROVE  pc[p] \in Held /\ Ctl(p)' = Ctl(p)
    <2>1. pc[p] \in Held /\ fiber'[p].rev = fiber[p].rev /\ target' = target BY <1>1 DEF HandsOff
    <2>2. p \in Msgs \/ target[p] \in Approvals BY <2>1, HeldUnderWay, CtlKnown
    <2> QED BY <2>1, <2>2, CtlSame DEF HandsOff, Settled
  <1>2. ASSUME NEW a \in Approvals, Open(a)'
        PROVE  Open(a) /\ appr'[a].rev = appr[a].rev
    BY <1>2 DEF HandsOff, Settled, Open
  <1>3. Known'
    <2>1. ASSUME NEW m \in Msgs
          PROVE  fiber'[m].rev <= turn'.rev /\ (pc'[m] \in Held => fiber'[m].rev # 0)
      <3>1. m \in Procs /\ fiber[m].rev \in Nat /\ turn.rev \in Nat
        BY DEF Procs, TypeInv, HandlerType, RowType, Row
      <3> QED BY <3>1 DEF HandsOff, Known
    <2>2. ASSUME NEW a \in Approvals PROVE appr'[a].rev <= turn'.rev
      BY DEF HandsOff, Settled, Known, TypeInv, RowType, Row, ApprovalType
    <2> QED BY <2>1, <2>2 DEF Known
  <1>4. OneFiber'
    BY DEF OneFiber, TokenInv, HandsOff, Procs
  <1>5. OneRun' BY <1>1 DEF OneRun, TokenInv
  <1>6. RunOrCard' BY <1>1, <1>2 DEF RunOrCard, TokenInv
  <1>7. OneCard' BY <1>2 DEF OneCard, TokenInv
  <1>8. CardOf'
    <2> SUFFICES ASSUME NEW p \in Procs, pc'[p] \in {"card", "cardPosted"}
                 PROVE  /\ pc'[p] = "card" => /\ appr'[ApprovalOf(p)'].rev = Ctl(p)'
                                              /\ appr'[ApprovalOf(p)'].card = "none"
                        /\ pc'[p] = "cardPosted" => appr'[ApprovalOf(p)'].card # "none"
      BY DEF CardOf
    <2>1. pc[p] = pc'[p] /\ fiber'[p] = fiber[p] BY DEF HandsOff
    <2>2. ApprovalOf(p)' = ApprovalOf(p) /\ ApprovalOf(p) \in Approvals
      BY <2>1 DEF ApprovalOf, Approvals, TypeInv, HandlerType
    <2>3. pc'[p] = "card" => Ctl(p)' = Ctl(p) BY <1>1 DEF Held
    <2> QED BY <2>1, <2>2, <2>3 DEF CardOf, TokenInv, HandsOff, Settled
  <1>9. ClickedCard'
    <2> SUFFICES ASSUME NEW c \in Clicks, pc'[c] \notin {"new", "done"}
                 PROVE  appr'[target'[c]].card # "none"
      BY DEF ClickedCard
    <2>1. c \in Procs BY DEF Procs
    <2>2. pc[c] \notin {"new", "done"} /\ target' = target BY <2>1 DEF HandsOff
    <2>3. target[c] \in Approvals BY <2>2 DEF TypeInv, Targeted
    <2> QED BY <2>2, <2>3 DEF ClickedCard, TokenInv, HandsOff, Settled
  <1>10. Flow BY <1>1, <1>2 DEF Flow
  <1> QED BY <1>3, <1>4, <1>5, <1>6, <1>7, <1>8, <1>9, <1>10 DEF TokenInv

\* A new turn is in the hand of the message that begins it.
LEMMA BeginTokens ==
  ASSUME TypeInv, TokenInv, NEW m \in Msgs, Handled(m), Begins(m), UNCHANGED <<appr, target>>
  PROVE  TokenInv' /\ Flow
  <1> Known BY DEF TokenInv
  <1> m \in Procs BY DEF Procs
  <1>0. turn.rev \in Nat /\ turn'.rev = turn.rev + 1 BY DEF TypeInv, RowType, Row, Begins
  <1>a. \A q \in Procs : q # m => pc'[q] = pc[q] /\ fiber'[q] = fiber[q] BY DEF Handled, Others
  <1>b. fiber'[m].rev = turn.rev + 1 /\ pc'[m] = "compute" /\ Ctl(m)' = turn.rev + 1
    BY DEF Begins, Ctl
  <1>1. ASSUME NEW p \in Procs, pc'[p] \in Held, p # m
        PROVE  pc[p] \in Held /\ Ctl(p)' = Ctl(p) /\ Ctl(p) \in Nat /\ Ctl(p) <= turn.rev
    <2>1. pc[p] \in Held /\ fiber'[p] = fiber[p] BY <1>1, <1>a
    <2>2. /\ Ctl(p) \in Nat /\ Ctl(p) <= turn.rev
          /\ p \in Msgs \/ target[p] \in Approvals
      BY <2>1, HeldUnderWay, CtlKnown
    <2> QED BY <2>1, <2>2, CtlSame
  <1>2. ASSUME NEW a \in Approvals
        PROVE  Open(a)' = Open(a) /\ appr'[a].rev = appr[a].rev /\ appr[a].rev \in Nat /\ appr[a].rev <= turn.rev
    BY DEF Open, Known, TypeInv, ApprovalType
  <1>3. Known'
    <2>1. ASSUME NEW n \in Msgs
          PROVE  fiber'[n].rev <= turn'.rev /\ (pc'[n] \in Held => fiber'[n].rev # 0)
      <3>1. n \in Procs /\ fiber[n].rev \in Nat BY DEF Procs, TypeInv, HandlerType
      <3>2. CASE n = m BY <1>0, <1>b, <3>2
      <3>3. CASE n # m BY <1>0, <1>a, <3>1, <3>3 DEF Known
      <3> QED BY <3>2, <3>3
    <2>2. \A a \in Approvals : appr'[a].rev <= turn'.rev BY <1>0, <1>2
    <2> QED BY <2>1, <2>2 DEF Known
  <1>4. OneFiber'
    <2>1. \A n \in Msgs : n # m => fiber'[n].rev = fiber[n].rev /\ fiber[n].rev # turn.rev + 1
      BY <1>0, <1>a DEF Procs, Known, TypeInv, HandlerType
    <2> QED BY <1>b, <2>1 DEF OneFiber, TokenInv
  <1>5. OneRun'
    <2>1. \A p \in Procs : p # m /\ pc'[p] \in Held =>
             pc[p] \in Held /\ Ctl(p)' = Ctl(p) /\ Ctl(p) # turn.rev + 1
      BY <1>0, <1>1
    <2> QED BY <1>b, <2>1 DEF OneRun, TokenInv
  <1>6. RunOrCard'
    <2> SUFFICES ASSUME NEW p \in Procs, NEW a \in Approvals, pc'[p] \in Held, Open(a)'
                 PROVE  Ctl(p)' # appr'[a].rev
      BY DEF RunOrCard
    <2>1. CASE p = m BY <1>0, <1>b, <1>2, <2>1
    <2>2. CASE p # m BY <1>1, <1>2, <2>2 DEF RunOrCard, TokenInv
    <2> QED BY <2>1, <2>2
  <1>7. OneCard' BY <1>2 DEF OneCard, TokenInv
  <1>8. CardOf'
    <2> SUFFICES ASSUME NEW p \in Procs, pc'[p] \in {"card", "cardPosted"}
                 PROVE  /\ pc'[p] = "card" => /\ appr'[ApprovalOf(p)'].rev = Ctl(p)'
                                              /\ appr'[ApprovalOf(p)'].card = "none"
                        /\ pc'[p] = "cardPosted" => appr'[ApprovalOf(p)'].card # "none"
      BY DEF CardOf
    <2>1. p # m BY <1>b
    <2>2. pc[p] = pc'[p] /\ fiber'[p] = fiber[p] /\ ApprovalOf(p)' = ApprovalOf(p) BY <1>a, <2>1 DEF ApprovalOf
    <2>3. pc'[p] = "card" => Ctl(p)' = Ctl(p) BY <1>1, <2>1 DEF Held
    <2> QED BY <2>2, <2>3 DEF CardOf, TokenInv
  <1>9. ClickedCard'
    <2> SUFFICES ASSUME NEW c \in Clicks, pc'[c] \notin {"new", "done"}
                 PROVE  appr'[target'[c]].card # "none"
      BY DEF ClickedCard
    <2>1. c \in Procs /\ c # m BY ThreadAssumption DEF Procs
    <2> QED BY <1>a, <2>1 DEF ClickedCard, TokenInv
  <1>10. Flow BY <1>1, <1>2 DEF Flow
  <1> QED BY <1>3, <1>4, <1>5, <1>6, <1>7, <1>8, <1>9, <1>10 DEF TokenInv

\* A run that suspends keeps its turn in hand until its card is up.
LEMMA AskTokens ==
  ASSUME TypeInv, ApprovalInv, TokenInv, NEW p \in Procs, Handled(p), Asks(p)
  PROVE  TokenInv' /\ Flow
  <1> Known BY DEF TokenInv
  <1> DEFINE own == ApprovalOf(p)
  <1>0. /\ turn'.rev = turn.rev /\ pc[p] = "suspend" /\ pc'[p] = "card" /\ target' = target
        /\ fiber' = fiber /\ appr'[own].rev = Ctl(p) /\ appr'[own].card = "none"
        /\ Ctl(p) = turn.rev
    BY DEF Asks, Waits
  <1>a. \A q \in Procs : q # p => pc'[q] = pc[q] BY DEF Handled, Others
  <1>b. own \in Approvals /\ \A q \in Procs : ApprovalOf(q)' = ApprovalOf(q) /\ ApprovalOf(q) \in Approvals
    BY <1>0 DEF ApprovalOf, Approvals, TypeInv, HandlerType
  <1>c. appr[own].status = "none"
    BY <1>0 DEF ApprovalInv, FreshApproval, Undecided, RunLabels
  <1>d. ASSUME NEW a \in Approvals, a # own
        PROVE  /\ appr'[a].rev = appr[a].rev
               /\ appr'[a].card = appr[a].card
               /\ appr'[a].status = "pending" => appr[a].status = "pending"
    BY <1>d DEF Asks
  <1>e. \A q \in Procs : q # p => ApprovalOf(q) # own BY DEF ApprovalOf
  <1>f. \A c \in Clicks : pc[c] \notin {"new", "done"} => target[c] \in Approvals /\ target[c] # own
    BY <1>c, TargetOf
  <1>t. turn.rev \in Nat BY DEF TypeInv, RowType, Row
  <1> own = ApprovalOf(p) OBVIOUS
  <1> HIDE DEF own
  <1>1. ASSUME NEW q \in Procs, pc'[q] \in Held
        PROVE  pc[q] \in Held /\ Ctl(q)' = Ctl(q)
    <2>1. pc[q] \in Held
      <3>1. CASE q = p BY <1>0, <3>1 DEF Held, Live, RunLabels
      <3>2. CASE q # p BY <1>1, <1>a, <3>2
      <3> QED BY <3>1, <3>2
    <2>2. q \in Msgs \/ (q \in Clicks /\ target[q] \in Approvals) BY <2>1, HeldUnderWay, CtlKnown
    <2>3. \A a \in Approvals : q \in Clicks /\ a = target[q] => appr'[a].rev = appr[a].rev
      BY <1>d, <1>f, <2>1, HeldUnderWay
    <2> QED BY <1>0, <2>1, <2>2, <2>3, CtlSame
  <1>2. ASSUME NEW a \in Approvals, Open(a)'
        PROVE  Open(a) /\ appr'[a].rev = appr[a].rev
    <2>1. a # own BY <1>0, <1>2 DEF Open
    <2> QED BY <1>2, <1>d, <2>1 DEF Open
  <1>3. Known'
    <2>1. ASSUME NEW m \in Msgs
          PROVE  fiber'[m].rev <= turn'.rev /\ (pc'[m] \in Held => fiber'[m].rev # 0)
      <3>1. m \in Procs BY DEF Procs
      <3> QED BY <1>0, <1>1, <3>1 DEF Known
    <2>2. \A a \in Approvals : appr'[a].rev <= turn'.rev
      BY <1>0, <1>d, <1>t DEF Known
    <2> QED BY <2>1, <2>2 DEF Known
  <1>4. OneFiber' BY <1>0 DEF OneFiber, TokenInv
  <1>5. OneRun' BY <1>1 DEF OneRun, TokenInv
  <1>6. RunOrCard' BY <1>1, <1>2 DEF RunOrCard, TokenInv
  <1>7. OneCard' BY <1>2 DEF OneCard, TokenInv
  <1>8. CardOf'
    <2> SUFFICES ASSUME NEW q \in Procs, pc'[q] \in {"card", "cardPosted"}
                 PROVE  /\ pc'[q] = "card" => /\ appr'[ApprovalOf(q)].rev = Ctl(q)'
                                              /\ appr'[ApprovalOf(q)].card = "none"
                        /\ pc'[q] = "cardPosted" => appr'[ApprovalOf(q)].card # "none"
      BY <1>b DEF CardOf
    <2>3. pc'[q] = "card" => Ctl(q)' = Ctl(q) BY <1>1 DEF Held
    <2>4. CASE q = p BY <1>0, <2>3, <2>4
    <2>5. CASE q # p
      <3>1. pc'[q] = pc[q] /\ ApprovalOf(q) # own /\ ApprovalOf(q) \in Approvals
        BY <1>a, <1>b, <1>e, <2>5
      <3> QED BY <1>d, <2>3, <3>1 DEF CardOf, TokenInv
    <2> QED BY <2>4, <2>5
  <1>9. ClickedCard'
    <2> SUFFICES ASSUME NEW c \in Clicks, pc'[c] \notin {"new", "done"}
                 PROVE  appr'[target'[c]].card # "none"
      BY DEF ClickedCard
    <2>1. c \in Procs BY DEF Procs
    <2>2. pc[c] \notin {"new", "done"} BY <1>0, <1>a, <2>1
    <2> QED BY <1>0, <1>d, <1>f, <2>2 DEF ClickedCard, TokenInv
  <1>10. Flow BY <1>1, <1>2 DEF Flow
  <1> QED BY <1>3, <1>4, <1>5, <1>6, <1>7, <1>8, <1>9, <1>10 DEF TokenInv

\* The card takes the turn out of the hand of the handler.
LEMMA CardTokens ==
  ASSUME TypeInv, TokenInv, NEW p \in Procs, Handled(p), CardsUp(p)
  PROVE  TokenInv' /\ Flow
  <1> Known BY DEF TokenInv
  <1> DEFINE own == ApprovalOf(p)
  <1>0. /\ turn' = turn /\ pc[p] = "card" /\ pc'[p] = "cardPosted" /\ target' = target
        /\ fiber' = fiber /\ appr'[own].rev = appr[own].rev
        /\ appr'[own].card # "none"
        /\ \A a \in Approvals : a # own => appr'[a] = appr[a]
    BY DEF CardsUp
  <1>a. \A q \in Procs : q # p => pc'[q] = pc[q] BY DEF Handled, Others
  <1>b. own \in Approvals /\ \A q \in Procs : ApprovalOf(q)' = ApprovalOf(q) /\ ApprovalOf(q) \in Approvals
    BY <1>0 DEF ApprovalOf, Approvals, TypeInv, HandlerType
  <1>c. appr[own].rev = Ctl(p) /\ pc[p] \in Held /\ "cardPosted" \notin Held
    BY <1>0 DEF TokenInv, CardOf, Held, Live, RunLabels, PostingLabels
  <1>d. \A a \in Approvals : appr'[a].rev = appr[a].rev BY <1>0
  <1> own = ApprovalOf(p) OBVIOUS
  <1> HIDE DEF own
  <1>1. ASSUME NEW q \in Procs, pc'[q] \in Held
        PROVE  q # p /\ pc[q] \in Held /\ Ctl(q)' = Ctl(q)
    <2>1. q # p /\ pc[q] \in Held BY <1>0, <1>1, <1>a, <1>c
    <2>2. q \in Msgs \/ (q \in Clicks /\ target[q] \in Approvals) BY <2>1, HeldUnderWay, CtlKnown
    <2> QED BY <1>0, <1>d, <2>1, <2>2, CtlSame
  <1>2. ASSUME NEW a \in Approvals, Open(a)'
        PROVE  (a = own \/ Open(a)) /\ appr'[a].rev = appr[a].rev
    BY <1>2, <1>0, <1>d DEF Open
  <1>3. Known'
    <2>1. ASSUME NEW m \in Msgs
          PROVE  fiber'[m].rev <= turn'.rev /\ (pc'[m] \in Held => fiber'[m].rev # 0)
      <3>1. m \in Procs BY DEF Procs
      <3> QED BY <1>0, <1>1, <3>1 DEF Known
    <2>2. \A a \in Approvals : appr'[a].rev <= turn'.rev
      BY <1>0, <1>d DEF Known
    <2> QED BY <2>1, <2>2 DEF Known
  <1>4. OneFiber' BY <1>0 DEF OneFiber, TokenInv
  <1>5. OneRun' BY <1>1 DEF OneRun, TokenInv
  <1>6. RunOrCard'
    <2> SUFFICES ASSUME NEW q \in Procs, NEW a \in Approvals, pc'[q] \in Held, Open(a)'
                 PROVE  Ctl(q)' # appr'[a].rev
      BY DEF RunOrCard
    <2>1. CASE a = own BY <1>1, <1>2, <1>c, <2>1 DEF OneRun, TokenInv
    <2>2. CASE a # own BY <1>1, <1>2, <2>2 DEF RunOrCard, TokenInv
    <2> QED BY <2>1, <2>2
  <1>7. OneCard'
    <2>1. \A a \in Approvals : Open(a) => appr[a].rev # appr[own].rev
      BY <1>c DEF RunOrCard, TokenInv
    <2> QED BY <1>2, <2>1 DEF OneCard, TokenInv
  <1>8. CardOf'
    <2> SUFFICES ASSUME NEW q \in Procs, pc'[q] \in {"card", "cardPosted"}
                 PROVE  /\ pc'[q] = "card" => /\ appr'[ApprovalOf(q)].rev = Ctl(q)'
                                              /\ appr'[ApprovalOf(q)].card = "none"
                        /\ pc'[q] = "cardPosted" => appr'[ApprovalOf(q)].card # "none"
      BY <1>b DEF CardOf
    <2>3. pc'[q] = "card" => Ctl(q)' = Ctl(q) BY <1>1 DEF Held
    <2>4. CASE q = p BY <1>0, <2>4
    <2>5. CASE q # p
      <3>1. pc'[q] = pc[q] /\ ApprovalOf(q) # own /\ ApprovalOf(q) \in Approvals
        BY <1>a, <1>b, <2>5 DEF ApprovalOf, own
      <3> QED BY <1>0, <2>3, <3>1 DEF CardOf, TokenInv
    <2> QED BY <2>4, <2>5
  <1>9. ClickedCard'
    <2> SUFFICES ASSUME NEW c \in Clicks, pc'[c] \notin {"new", "done"}
                 PROVE  appr'[target'[c]].card # "none"
      BY DEF ClickedCard
    <2>1. c \in Procs BY DEF Procs
    <2>2. pc[c] \notin {"new", "done"} BY <1>0, <1>a, <2>1
    <2>3. target[c] \in Approvals BY <2>2 DEF TypeInv, Targeted
    <2> QED BY <1>0, <2>2, <2>3 DEF ClickedCard, TokenInv
  <1>10. Flow BY <1>0, <1>1, <1>2, <1>c DEF Flow
  <1> QED BY <1>3, <1>4, <1>5, <1>6, <1>7, <1>8, <1>9, <1>10 DEF TokenInv

\* A click on a card takes nothing in hand yet.
LEMMA TargetTokens ==
  ASSUME TypeInv, TokenInv, NEW c \in Clicks, Handled(c), Targets(c)
  PROVE  TokenInv' /\ Flow
  <1> Known BY DEF TokenInv
  <1> c \in Procs BY DEF Procs
  <1>0. /\ pc'[c] = "clickWait" /\ UNCHANGED <<appr, fiber, turn>>
        /\ \A d \in Clicks : d # c => target'[d] = target[d]
        /\ target'[c] \in Approvals /\ appr[target'[c]].card # "none"
    BY DEF Targets
  <1>a. \A q \in Procs : q # c => pc'[q] = pc[q] BY DEF Handled, Others
  <1>1. ASSUME NEW q \in Procs, pc'[q] \in Held \cup {"card"}
        PROVE  q # c /\ pc[q] \in Held /\ Ctl(q)' = Ctl(q)
    <2>1. q # c /\ pc[q] \in Held BY <1>0, <1>1, <1>a DEF Held, Live, RunLabels, PostingLabels
    <2>2. q \in Msgs \/ (q \in Clicks /\ target[q] \in Approvals) BY <2>1, HeldUnderWay, CtlKnown
    <2> QED BY <1>0, <2>1, <2>2, CtlSame
  <1>2. ASSUME NEW a \in Approvals PROVE Open(a)' = Open(a) /\ appr'[a].rev = appr[a].rev
    BY <1>0 DEF Open
  <1>3. Known'
    BY <1>0, <1>1 DEF Known, Procs
  <1>4. OneFiber' BY <1>0 DEF OneFiber, TokenInv
  <1>5. OneRun' BY <1>1 DEF OneRun, TokenInv
  <1>6. RunOrCard' BY <1>1, <1>2 DEF RunOrCard, TokenInv
  <1>7. OneCard' BY <1>2 DEF OneCard, TokenInv
  <1>8. CardOf'
    <2>1. \A q \in Procs : pc'[q] \in {"card", "cardPosted"} => q # c /\ pc'[q] = pc[q]
      BY <1>0, <1>a
    <2>2. \A q \in Procs : ApprovalOf(q)' = ApprovalOf(q) BY <1>0 DEF ApprovalOf
    <2> QED BY <1>0, <1>1, <2>1, <2>2 DEF CardOf, TokenInv
  <1>9. ClickedCard'
    <2>1. \A d \in Clicks : d # c => pc'[d] = pc[d] /\ target'[d] = target[d]
      BY <1>0, <1>a DEF Procs
    <2> QED BY <1>0, <2>1 DEF ClickedCard, TokenInv
  <1>10. Flow BY <1>1, <1>2 DEF Flow
  <1> QED BY <1>3, <1>4, <1>5, <1>6, <1>7, <1>8, <1>9, <1>10 DEF TokenInv

\* markApprovalDecided takes the turn from the approval.
LEMMA DecideTokens ==
  ASSUME TypeInv, TokenInv, NEW c \in Clicks, Handled(c), Decides(c)
  PROVE  TokenInv' /\ Flow
  <1> Known BY DEF TokenInv
  <1> c \in Procs /\ c \notin Msgs BY ThreadAssumption DEF Procs
  <1> DEFINE own == target[c]
  <1>0. /\ pc[c] = "lookup" /\ pc'[c] = "decided" /\ UNCHANGED <<target, fiber, turn>>
        /\ appr[own].status = "pending" /\ appr'[own].status # "pending" /\ Settled
    BY DEF Decides
  <1>a. \A q \in Procs : q # c => pc'[q] = pc[q] BY DEF Handled, Others
  <1>b. own \in Approvals /\ Open(own) /\ Ctl(c) = appr[own].rev
    BY <1>0 DEF TypeInv, Targeted, TokenInv, ClickedCard, Open, Ctl
  <1>c. Ctl(c)' = Ctl(c) BY <1>0, <1>b, CtlSame DEF Settled
  <1> HIDE DEF own
  <1>1. ASSUME NEW q \in Procs, pc'[q] \in Held, q # c
        PROVE  pc[q] \in Held /\ Ctl(q)' = Ctl(q) /\ Ctl(q) # Ctl(c)
    <2>1. pc[q] \in Held BY <1>1, <1>a
    <2>2. q \in Msgs \/ (q \in Clicks /\ target[q] \in Approvals) BY <2>1, HeldUnderWay, CtlKnown
    <2>3. Ctl(q) # Ctl(c) BY <1>b, <2>1 DEF TokenInv, RunOrCard
    <2> QED BY <1>0, <2>1, <2>2, <2>3, CtlSame DEF Settled
  <1>2. ASSUME NEW a \in Approvals, Open(a)'
        PROVE  Open(a) /\ a # own /\ appr'[a].rev = appr[a].rev /\ appr[a].rev # Ctl(c)
    <2>1. Open(a) /\ a # own /\ appr'[a].rev = appr[a].rev BY <1>2, <1>0 DEF Settled, Open
    <2> QED BY <1>b, <2>1 DEF TokenInv, OneCard
  <1>3. Known'
    <2>1. ASSUME NEW m \in Msgs
          PROVE  fiber'[m].rev <= turn'.rev /\ (pc'[m] \in Held => fiber'[m].rev # 0)
      <3>1. m \in Procs /\ m # c BY DEF Procs
      <3> QED BY <1>0, <1>1, <3>1 DEF Known
    <2>2. \A a \in Approvals : appr'[a].rev <= turn'.rev
      BY <1>0 DEF Known, Settled
    <2> QED BY <2>1, <2>2 DEF Known
  <1>4. OneFiber' BY <1>0 DEF OneFiber, TokenInv
  <1>5. OneRun' BY <1>1, <1>c DEF OneRun, TokenInv
  <1>6. RunOrCard' BY <1>1, <1>2, <1>c DEF RunOrCard, TokenInv
  <1>7. OneCard' BY <1>2 DEF OneCard, TokenInv
  <1>8. CardOf'
    <2>1. \A q \in Procs : pc'[q] \in {"card", "cardPosted"} => q # c /\ pc'[q] = pc[q]
      BY <1>0, <1>a
    <2>2. \A q \in Procs : ApprovalOf(q)' = ApprovalOf(q) /\ ApprovalOf(q) \in Approvals
      BY <1>0 DEF ApprovalOf, Approvals, TypeInv, HandlerType
    <2>3. \A q \in Procs : pc'[q] = "card" => Ctl(q)' = Ctl(q) BY <1>1, <2>1 DEF Held
    <2> QED BY <1>0, <2>1, <2>2, <2>3 DEF CardOf, TokenInv, Settled
  <1>9. ClickedCard'
    <2>1. \A d \in Clicks : pc'[d] \notin {"new", "done"} => pc[d] \notin {"new", "done"}
      BY <1>0, <1>a DEF Procs
    <2>2. \A d \in Clicks : pc[d] \notin {"new", "done"} => target[d] \in Approvals
      BY DEF TypeInv, Targeted
    <2> QED BY <1>0, <2>1, <2>2 DEF ClickedCard, TokenInv, Settled
  <1>10. Flow BY <1>0, <1>1, <1>2, <1>b, <1>c DEF Flow
  <1> QED BY <1>3, <1>4, <1>5, <1>6, <1>7, <1>8, <1>9, <1>10 DEF TokenInv

-----------------------------------------------------------------------------
(* Every step keeps one turn in one hand *)

\* A step of no handler: the clock, the expiry timer, an eviction, or none.
Unhandled ==
    /\ UNCHANGED <<inbox, posted, fiber, target, ran>>
    /\ turn'.rev = turn.rev
    /\ turn'.status = turn.status
    /\ Settled
    /\ UNCHANGED <<pc, reply, active, aborted, crashes>> \/ Crash

\* The clock, the timer and an eviction take no turn in hand.
LEMMA UnhandledStep ==
  ASSUME TypeInv, Environment \/ UNCHANGED vars
  PROVE  Unhandled /\ HandsOff
  <1> RowType /\ ApprovalType /\ HandlerType BY DEF TypeInv
  <1>1. Unhandled
    <2>1. CASE TurnAges
      <3>1. turn'.rev = turn.rev /\ turn'.status = turn.status
        BY <2>1 DEF TurnAges, RowType, Row
      <3> QED BY <2>1, <3>1 DEF TurnAges, Unhandled, Settled, handlerVars, approvalVars, history
    <2>2. CASE \E a \in Approvals : ApprovalAges(a)
      <3>1. Settled BY <2>2 DEF ApprovalAges, Settled, ApprovalType
      <3> QED BY <2>2, <3>1 DEF ApprovalAges, Unhandled, handlerVars, controlVars, history
    <2>3. CASE \E a \in Approvals : ExpiryTimer(a)
      <3>1. Settled BY <2>3, SetSettles DEF ExpiryTimer, ApprovalStatus
      <3> QED BY <2>3, <3>1 DEF ExpiryTimer, Unhandled, handlerVars, controlVars, history
    <2>4. CASE Crash BY <2>4 DEF Crash, Unhandled, Settled, approvalVars
    <2>5. CASE UNCHANGED vars
      BY <2>5 DEF vars, Unhandled, Settled, handlerVars, controlVars, approvalVars, history
    <2> QED BY <2>1, <2>2, <2>3, <2>4, <2>5 DEF Environment
  <1>2. ASSUME NEW p \in Procs
        PROVE  pc'[p] = pc[p] \/ pc'[p] \in {"lost", "done"}
    BY <1>1 DEF Unhandled, Crash
  <1>3. ASSUME NEW p \in Procs, p \in Clicks, pc'[p] \notin {"new", "done"}
        PROVE  pc[p] \notin {"new", "done"}
    BY <1>1, <1>3, ThreadAssumption DEF Unhandled, Crash
  <1>4. {"lost", "done"} \cap Held = {} BY DEF Held, Live, RunLabels, PostingLabels
  <1> QED BY <1>1, <1>2, <1>3, <1>4 DEF HandsOff, Unhandled, RowType, Row

\* Every step keeps one turn in one hand, and is a step of a handler as Handled
\* says, or none.
LEMMA NextTokens ==
  ASSUME TypeInv, ApprovalInv, TokenInv, [Next]_vars
  PROVE  TokenInv' /\ Flow /\ (Unhandled \/ \E p \in Procs : Handled(p))
  <1>1. ASSUME NEW p \in Procs, Handled(p) /\ Quiet(p)
        PROVE  TokenInv' /\ Flow /\ Handled(p)
    BY <1>1, QuietHandsOff, HandsOffTokens
  <1>2. ASSUME NEW m \in Msgs, Accept(m) \/ Intake(m) \/ Recovery(m)
        PROVE  TokenInv' /\ Flow /\ \E p \in Procs : Handled(p)
    <2> m \in Procs BY DEF Procs
    <2>1. Handled(m) /\ (Quiet(m) \/ (Begins(m) /\ UNCHANGED <<appr, target>>))
      BY <1>2, IntakeHandled, GateHandled, BeginHandled, RecoveryHandled DEF Intake
    <2> QED BY <2>1, <1>1, BeginTokens
  <1>3. ASSUME NEW p \in Procs, Run(p)
        PROVE  TokenInv' /\ Flow /\ Handled(p)
    <2>1. CASE Suspend(p) BY <2>1, <1>1, SuspendHandled, AskTokens
    <2>2. CASE PostCard(p) BY <2>2, <1>1, PostCardHandled, CardTokens
    <2>3. CASE ~Suspend(p) /\ ~PostCard(p)
      BY <2>3, <1>3, <1>1, LoopHandled, EndHandled, PostHandled, RecordCardHandled DEF Run
    <2> QED BY <2>1, <2>2, <2>3
  <1>4. ASSUME NEW c \in Clicks, Decision(c) \/ \E a \in Approvals, b \in BOOLEAN : Click(c, a, b)
        PROVE  TokenInv' /\ Flow /\ \E p \in Procs : Handled(p)
    <2> c \in Procs BY DEF Procs
    <2>1. Handled(c) /\ (Quiet(c) \/ Targets(c) \/ Decides(c))
      BY <1>4, ClickHandled
    <2> QED BY <2>1, <1>1, TargetTokens, DecideTokens
  <1>5. CASE Environment \/ UNCHANGED vars
    BY <1>5, UnhandledStep, HandsOffTokens
  <1> QED BY <1>2, <1>3, <1>4, <1>5 DEF Next, UserActs

\* Nobody has a turn in hand at first.
LEMMA InitTokens == Init => TokenInv
  <1> SUFFICES ASSUME Init PROVE TokenInv OBVIOUS
  <1> USE DEF Init
  <1>1. \A p \in Procs : pc[p] = "new" BY DEF Procs
  <1>2. "new" \notin Held BY DEF Held, Live, RunLabels, PostingLabels
  <1>3. \A a \in Approvals : ~Open(a) /\ appr[a].rev = 0 BY DEF Open, NoApproval
  <1>4. \A m \in Msgs : m \in Procs /\ fiber[m].rev = 0 BY DEF Procs, NewFiber
  <1>5. turn.rev = 0 BY DEF NoRow
  <1>6. \A c \in Clicks : c \in Procs BY DEF Procs
  <1> QED BY <1>1, <1>2, <1>3, <1>4, <1>5, <1>6
          DEF TokenInv, Known, OneFiber, OneRun, RunOrCard, OneCard, CardOf, ClickedCard

-----------------------------------------------------------------------------
(* What is being answered is sealed *)

\* The turns whose answer is in the thread.
Answered(r) == \E i \in 1..Len(posted) : posted[i].kind = "answer" /\ posted[i].rev = r
\* A turn that takes no update any more, and has none left to read.
Sealed(r) ==
    /\ r < turn.rev \/ (r = turn.rev /\ turn.status \in {"finalizing"} \cup Terminal)
    /\ InboxEmpty(r)
\* A handler answers a sealed turn, and an answered turn stays sealed.
AnsweringSealed == \A p \in Procs : Answering(p) => Sealed(Ctl(p))
AnsweredSealed == \A r \in Nat : Answered(r) => Sealed(r)
\* An answered turn is in no hand but that of the handler that answered it,
\* which only has its memory to write.
AnsweredOver == \A r \in Nat : Answered(r) =>
    /\ \A p \in Procs : pc[p] \in Held /\ Ctl(p) = r => pc[p] \in {"posted", "writeback"}
    /\ \A a \in Approvals : Open(a) => appr[a].rev # r
\* What is answered is sealed and over.
AnswerInv == AnsweringSealed /\ AnsweredSealed /\ AnsweredOver

\* A sealed turn stays sealed, unless the handler that has it in hand lets it
\* wait or resumes it.
LEMMA SealedStays ==
  ASSUME TypeInv, NEW p \in Procs, Handled(p), NEW r \in Nat, Sealed(r),
         Waits(p) \/ Resumes(p) => Ctl(p) # r
  PROVE  Sealed(r)'
  <1> RowType /\ InboxType BY DEF TypeInv
  <1>0. RowFate(p) /\ Steered /\ turn.rev \in Nat BY DEF Handled, RowType, Row
  <1>1. turn'.rev \in Nat /\ turn.rev <= turn'.rev BY <1>0, RowGrows
  <1>2. InboxEmpty(r)'
    BY <1>0, <1>1 DEF Sealed, InboxEmpty, UpdatesOf, Steered, Unread, Terminal
  <1>3. CASE r < turn.rev BY <1>0, <1>1, <1>2, <1>3 DEF Sealed
  <1>4. CASE r = turn.rev /\ turn.status \in {"finalizing"} \cup Terminal
    <2>1. CASE Kept BY <1>2, <1>4, <2>1 DEF Kept, rowVars, Sealed
    <2>2. CASE Ends(p) BY <1>2, <1>4, <2>2 DEF Ends, Sealed
    <2>3. CASE Begins(p) BY <1>0, <1>2, <1>4, <2>3 DEF Begins, Sealed
    <2>4. ~Claims(p) BY <1>4 DEF Claims, Terminal
    <2>5. ~Waits(p) /\ ~Resumes(p) BY <1>4 DEF Waits, Resumes
    <2> QED BY <1>0, <2>1, <2>2, <2>3, <2>4, <2>5 DEF RowFate
  <1> QED BY <1>3, <1>4 DEF Sealed

\* A handler that answers has its turn in hand.
LEMMA AnsweringHeld ==
  ASSUME NEW p \in Procs, Answering(p)
  PROVE  pc[p] \in Held /\ pc[p] \notin {"suspend", "decided", "compute", "execute", "card", "prep"}
  BY DEF Answering, Held, Live, RunLabels, PostingLabels

\* What a step adds to the thread.
LEMMA AnsweredStep ==
  ASSUME HistoryType, NEW p \in Procs, Answers(p), NEW r \in Nat, Answered(r)'
  PROVE  Answered(r) \/ (r = Ctl(p) /\ Answering(p) /\ pc[p] = "post" /\ pc'[p] = "posted")
  <1>0. posted \in Seq([rev : Nat, kind : {"answer", "recovered"}]) /\ Len(posted) \in Nat
    BY DEF HistoryType
  <1>1. CASE posted' = posted BY <1>1 DEF Answered
  <1>2. ASSUME NEW e, posted' = Append(posted, e)
        PROVE  Answered(r) \/ (e.kind = "answer" /\ e.rev = r)
    <2>1. Len(posted') = Len(posted) + 1 /\ posted'[Len(posted) + 1] = e
          /\ \A i \in 1..Len(posted) : posted'[i] = posted[i]
      BY <1>0, <1>2
    <2>2. PICK i \in 1..Len(posted') : posted'[i].kind = "answer" /\ posted'[i].rev = r
      BY DEF Answered
    <2>3. i \in 1..Len(posted) \/ i = Len(posted) + 1 BY <1>0, <2>1, <2>2
    <2> QED BY <2>1, <2>2, <2>3 DEF Answered
  <1>3. CASE \E q \in Nat : posted' = Append(posted, [rev |-> q, kind |-> "recovered"])
    BY <1>2, <1>3
  <1>4. CASE /\ Answering(p) /\ pc[p] = "post" /\ pc'[p] = "posted"
             /\ posted' = Append(posted, [rev |-> Ctl(p), kind |-> "answer"])
    BY <1>2, <1>4
  <1> QED BY <1>1, <1>3, <1>4 DEF Answers

\* A step of a handler keeps what is answered sealed and over.
LEMMA HandledAnswers ==
  ASSUME TypeInv, TokenInv, AnswerInv, NEW p \in Procs, Handled(p), Flow
  PROVE  AnswerInv'
  <1> Known /\ HistoryType BY DEF TokenInv, TypeInv
  <1>0. Others(p) /\ Path(p) /\ Answers(p) BY DEF Handled
  <1>t. turn.rev \in Nat BY DEF TypeInv, RowType, Row
  <1>w. Waits(p) \/ Resumes(p) => pc[p] \in Held /\ pc[p] \in {"suspend", "decided"}
    BY DEF Waits, Resumes, Held, Live, RunLabels
  <1>1. ASSUME NEW r \in Nat, Answered(r) PROVE Sealed(r)'
    <2>1. Waits(p) \/ Resumes(p) => Ctl(p) # r
      BY <1>1, <1>w DEF AnswerInv, AnsweredOver
    <2> QED BY <1>1, <2>1, SealedStays DEF AnswerInv, AnsweredSealed
  <1>2. ASSUME NEW q \in Procs, Answering(q)
        PROVE  \E r \in Nat : r = Ctl(q) /\ r <= turn.rev /\ Sealed(r)'
    <2>0. Ctl(q) \in Nat /\ Ctl(q) <= turn.rev BY <1>2, AnsweringHeld, HeldUnderWay, CtlKnown
    <2>1. Waits(p) \/ Resumes(p) => Ctl(p) # Ctl(q)
      BY <1>2, <1>w, AnsweringHeld DEF TokenInv, OneRun
    <2>2. Sealed(Ctl(q)) BY <1>2 DEF AnswerInv, AnsweringSealed
    <2>3. \A r \in Nat : r = Ctl(q) => Sealed(r)' BY <2>1, <2>2, SealedStays
    <2>4. PICK r \in Nat : r = Ctl(q) BY <2>0
    <2> QED BY <2>0, <2>3, <2>4
  <1>3. AnsweringSealed'
    <2> SUFFICES ASSUME NEW q \in Procs, Answering(q)' PROVE Sealed(Ctl(q))'
      BY DEF AnsweringSealed
    <2>1. pc'[q] \in Held /\ pc'[q] \notin {"decided", "compute"}
      BY DEF Answering, Held, Live, RunLabels, PostingLabels
    <2>2. Ctl(q)' = Ctl(q) BY <2>1 DEF Flow, Begins
    <2>3. CASE Answering(q)
      <3>1. PICK r \in Nat : r = Ctl(q) /\ Sealed(r)' BY <1>2, <2>3
      <3>2. Ctl(q)' = r BY <2>2, <3>1
      <3> QED BY <3>1, <3>2 DEF Sealed, InboxEmpty, UpdatesOf
    <2>4. CASE ~Answering(q)
      <3>1. q = p BY <1>0, <2>4 DEF Others, Answering
      <3>2. Claims(p) /\ turn'.status = "finalizing" /\ InboxEmpty(Ctl(p)) /\ inbox' = inbox
        BY <1>0, <2>4, <3>1 DEF Answers
      <3>3. InboxEmpty(Ctl(p))' BY <2>2, <3>1, <3>2 DEF InboxEmpty, UpdatesOf
      <3> QED BY <2>2, <3>1, <3>2, <3>3 DEF Sealed, Claims
    <2> QED BY <2>3, <2>4
  <1>4. AnsweredSealed'
    <2> SUFFICES ASSUME NEW r \in Nat, Answered(r)' PROVE Sealed(r)' BY DEF AnsweredSealed
    <2>1. Answered(r) \/ (r = Ctl(p) /\ Answering(p)) BY <1>0, AnsweredStep
    <2> QED BY <1>1, <1>2, <2>1
  <1>5. AnsweredOver'
    <2> SUFFICES ASSUME NEW r \in Nat, Answered(r)'
                 PROVE  /\ \A q \in Procs : pc'[q] \in Held /\ Ctl(q)' = r => pc'[q] \in {"posted", "writeback"}
                        /\ \A a \in Approvals : Open(a)' => appr'[a].rev # r
      BY DEF AnsweredOver
    <2>0. r <= turn.rev
      BY <1>t, <1>0, <1>2, AnsweredStep DEF AnswerInv, AnsweredSealed, Sealed
    <2>b. ASSUME NEW q \in Procs, Begins(q) PROVE Ctl(q)' # r
      BY <1>t, <2>0, <2>b DEF Begins, Ctl
    <2>1. CASE Answered(r)
      <3>1. /\ \A q \in Procs : pc[q] \in Held /\ Ctl(q) = r => pc[q] \in {"posted", "writeback"}
            /\ \A a \in Approvals : Open(a) => appr[a].rev # r
        BY <2>1 DEF AnswerInv, AnsweredOver
      <3>2. ASSUME NEW q \in Procs, pc'[q] \in Held, Ctl(q)' = r
            PROVE  pc'[q] \in {"posted", "writeback"}
        <4>1. pc[q] \in Held /\ Ctl(q) = r BY <2>b, <3>1, <3>2 DEF Flow
        <4>2. pc[q] \in {"posted", "writeback"} BY <3>1, <4>1
        <4> QED BY <1>0, <3>2, <4>2 DEF Others, Path
      <3>3. ASSUME NEW a \in Approvals, Open(a)' PROVE appr'[a].rev # r
        <4>1. \A q \in Procs : pc[q] = "card" => Ctl(q) # r BY <3>1 DEF Held
        <4> QED BY <3>1, <3>3, <4>1 DEF Flow
      <3> QED BY <3>2, <3>3
    <2>2. CASE r = Ctl(p) /\ Answering(p) /\ pc[p] = "post" /\ pc'[p] = "posted"
      <3>1. pc[p] \in Held BY <2>2, AnsweringHeld
      <3>2. /\ \A q \in Procs : pc[q] \in Held /\ Ctl(q) = r => q = p
            /\ \A a \in Approvals : Open(a) => appr[a].rev # r
        BY <2>2, <3>1 DEF TokenInv, OneRun, RunOrCard
      <3>3. ASSUME NEW q \in Procs, pc'[q] \in Held, Ctl(q)' = r
            PROVE  pc'[q] \in {"posted", "writeback"}
        BY <2>2, <2>b, <3>2, <3>3 DEF Flow
      <3>4. ASSUME NEW a \in Approvals, Open(a)' PROVE appr'[a].rev # r
        <4>1. \A q \in Procs : pc[q] = "card" => Ctl(q) # r BY <2>2, <3>2 DEF Held
        <4> QED BY <3>2, <3>4, <4>1 DEF Flow
      <3> QED BY <3>3, <3>4
    <2> QED BY <1>0, <2>1, <2>2, AnsweredStep
  <1> QED BY <1>3, <1>4, <1>5 DEF AnswerInv

\* The clock, the timer and an eviction answer nothing and open nothing.
LEMMA UnhandledAnswers ==
  ASSUME TypeInv, TokenInv, AnswerInv, Unhandled, Flow
  PROVE  AnswerInv'
  <1>1. \A r : Sealed(r)' = Sealed(r)
    BY DEF Unhandled, Sealed, InboxEmpty, UpdatesOf
  <1>2. \A r : Answered(r)' = Answered(r)
    BY DEF Unhandled, Answered
  <1>3. ASSUME NEW p \in Procs
        PROVE  (pc'[p] = pc[p] /\ reply'[p] = reply[p]) \/ pc'[p] \in {"new", "done", "lost"}
    BY DEF Unhandled, Crash
  <1>4. {"new", "done", "lost"} \cap Held = {}
    BY DEF Held, Live, RunLabels, PostingLabels
  <1>5. ASSUME NEW p \in Procs, pc'[p] \in Held, pc'[p] # "decided"
        PROVE  Ctl(p)' = Ctl(p)
    BY <1>3, <1>4, <1>5 DEF Flow, Begins
  <1>6. AnsweringSealed'
    <2> SUFFICES ASSUME NEW p \in Procs, Answering(p)' PROVE Sealed(Ctl(p))'
      BY DEF AnsweringSealed
    <2>1. pc'[p] \in Held /\ pc'[p] # "decided" BY DEF Answering, Held, Live, RunLabels, PostingLabels
    <2>2. Answering(p) BY <1>3, <1>4, <2>1 DEF Answering
    <2>3. Sealed(Ctl(p)) BY <2>2 DEF AnswerInv, AnsweringSealed
    <2>4. Ctl(p)' = Ctl(p) BY <1>5, <2>1
    <2> QED BY <2>3, <2>4 DEF Unhandled, Sealed, InboxEmpty, UpdatesOf
  <1>7. AnsweredSealed' BY <1>1, <1>2 DEF AnsweredSealed, AnswerInv
  <1>8. AnsweredOver'
    <2> SUFFICES ASSUME NEW r \in Nat, Answered(r)
                 PROVE  /\ \A q \in Procs : pc'[q] \in Held /\ Ctl(q)' = r => pc'[q] \in {"posted", "writeback"}
                        /\ \A a \in Approvals : Open(a)' => appr'[a].rev # r
      BY <1>2 DEF AnsweredOver
    <2>1. /\ \A q \in Procs : pc[q] \in Held /\ Ctl(q) = r => pc[q] \in {"posted", "writeback"}
          /\ \A a \in Approvals : Open(a) => appr[a].rev # r
      BY DEF AnswerInv, AnsweredOver
    <2>2. ASSUME NEW q \in Procs, pc'[q] \in Held, Ctl(q)' = r
          PROVE  pc'[q] \in {"posted", "writeback"}
      <3>1. pc'[q] = pc[q] BY <1>3, <1>4, <2>2
      <3>2. pc[q] \in Held /\ Ctl(q) = r
        BY <2>1, <2>2, <3>1 DEF Flow, Begins
      <3> QED BY <2>1, <3>1, <3>2
    <2>3. ASSUME NEW a \in Approvals, Open(a)' PROVE appr'[a].rev # r
      <3>1. \A q \in Procs : pc[q] = "card" => Ctl(q) # r BY <2>1 DEF Held
      <3> QED BY <2>1, <2>3, <3>1 DEF Flow
    <2> QED BY <2>2, <2>3
  <1> QED BY <1>6, <1>7, <1>8 DEF AnswerInv

\* No answer at first.
LEMMA InitAnswers == Init => AnswerInv
  <1> SUFFICES ASSUME Init PROVE AnswerInv OBVIOUS
  <1>1. \A p \in Procs : ~Answering(p) BY DEF Init, Answering
  <1>2. \A r \in Nat : ~Answered(r) BY DEF Init, Answered
  <1> QED BY <1>1, <1>2 DEF AnswerInv, AnsweringSealed, AnsweredSealed, AnsweredOver

-----------------------------------------------------------------------------
(* Answers hold their claim and come in order *)

\* No eviction, or no click: a recovered fiber never meets the run of a click.
Undisturbed == crashes = 0 \/ \A c \in Clicks : pc[c] = "new"
\* The controller of a row that runs is that of the run.
RunActive == \A p \in Procs :
    pc[p] \in RunLabels /\ turn.rev = Ctl(p) /\ turn.status = "running"
    => active = [rev |-> Ctl(p), proc |-> p]
\* AnswerHoldsClaim, with the controller.
HoldsClaim(p) ==
    turn.rev = Ctl(p) /\ turn.status = "finalizing" /\ active = [rev |-> Ctl(p), proc |-> p]
AnswerActive == Undisturbed => \A p \in Procs : Answering(p) => HoldsClaim(p)
\* Without an eviction nothing is recovered, and no message that has had a turn
\* begins anew.
NoRecovery == crashes = 0 => \A m \in Msgs :
    pc[m] \notin {"lost", "recoverPost"} /\ (pc[m] \in {"new", "intake"} => fiber[m].rev = 0)
\* The answers in the thread come in the order of their turns.
InOrder == \A i, j \in 1..Len(posted) :
    i < j /\ posted[i].kind = "answer" /\ posted[j].kind = "answer"
    => posted[i].rev < posted[j].rev
AnswersOrdered == Undisturbed => InOrder
\* An answer holds the claim of its turn.
HoldInv == RunActive /\ AnswerActive /\ NoRecovery /\ AnswersOrdered

\* What was undisturbed after a step was so before.
LEMMA UndisturbedBefore ==
  ASSUME TypeInv, Undisturbed', NEW p \in Procs, Handled(p) \/ Unhandled
  PROVE  Undisturbed
  <1>1. CASE Handled(p)
    BY <1>1 DEF Undisturbed, Handled, Others, Path, Procs
  <1>2. CASE Unhandled
    <2>1. CASE UNCHANGED <<pc, crashes>> BY <2>1 DEF Undisturbed
    <2>2. CASE Crash
      <3>1. crashes' # 0 BY <2>2 DEF Crash, TypeInv, HistoryType
      <3>2. \A q \in Procs : pc'[q] = "new" => pc[q] = "new"
        BY <2>2 DEF Crash
      <3> QED BY <3>1, <3>2 DEF Undisturbed, Procs
    <2> QED BY <1>2, <2>1, <2>2 DEF Unhandled
  <1> QED BY <1>1, <1>2

\* The controller of a running row.
LEMMA HandledActive ==
  ASSUME TypeInv, TokenInv, RunActive, NEW p \in Procs, Handled(p), Flow
  PROVE  RunActive'
  <1> Known BY DEF TokenInv
  <1> SUFFICES ASSUME NEW q \in Procs, pc'[q] \in RunLabels, turn'.rev = Ctl(q)', turn'.status = "running"
               PROVE  active' = [rev |-> Ctl(q)', proc |-> q]
    BY DEF RunActive
  <1>0. Others(p) /\ Path(p) /\ RowFate(p) BY DEF Handled
  <1>t. turn.rev \in Nat BY DEF TypeInv, RowType, Row
  <1>1. pc'[q] \in Held /\ pc'[q] # "decided" BY DEF Held, Live, RunLabels
  <1>2. CASE Begins(q)
    BY <1>2 DEF Begins, SetActive
  <1>3. CASE Resumes(q)
    BY <1>3 DEF Resumes, SetActive
  <1>4. CASE ~Begins(q) /\ ~Resumes(q)
    <2>1. pc[q] \in Held /\ Ctl(q)' = Ctl(q) BY <1>1, <1>4 DEF Flow
    <2>2. pc[q] \in RunLabels BY <1>0, <1>4 DEF Others, Path
    <2>3. Ctl(q) <= turn.rev /\ Ctl(q) \in Nat BY <2>1, HeldUnderWay, CtlKnown
    <2>4. CASE Kept BY <2>1, <2>2, <2>4 DEF Kept, rowVars, RunActive
    <2>5. ~Ends(p) BY DEF Ends, Terminal
    <2>6. ~Claims(p) /\ ~Waits(p) BY DEF Claims, Waits
    <2>7. ~Begins(p) BY <1>t, <2>1, <2>3 DEF Begins
    <2>8. CASE Resumes(p)
      <3>1. pc[p] \in Held /\ Ctl(p) = Ctl(q) BY <2>1, <2>8 DEF Resumes, Held
      <3>2. p = q BY <2>1, <3>1 DEF TokenInv, OneRun
      <3> QED BY <1>4, <2>8, <3>2
    <2> QED BY <1>0, <2>4, <2>5, <2>6, <2>7, <2>8 DEF RowFate
  <1> QED BY <1>2, <1>3, <1>4

\* From the claim to the end of the answer nobody else touches the row.
LEMMA HandledClaim ==
  ASSUME TypeInv, TokenInv, HoldInv, NEW p \in Procs, Handled(p), Flow
  PROVE  AnswerActive'
  <1> SUFFICES ASSUME Undisturbed', NEW q \in Procs, Answering(q)'
               PROVE  HoldsClaim(q)'
    BY DEF AnswerActive
  <1>0. Others(p) /\ Path(p) /\ RowFate(p) /\ Answers(p) BY DEF Handled
  <1>u. Undisturbed BY UndisturbedBefore
  <1>t. turn.rev \in Nat BY DEF TypeInv, RowType, Row
  <1>1. pc'[q] \in Held /\ pc'[q] \notin {"decided", "compute", "done", "card", "execute"}
    BY DEF Answering, Held, Live, RunLabels, PostingLabels
  <1>2. Ctl(q)' = Ctl(q) BY <1>1 DEF Flow, Begins
  <1>3. CASE ~Answering(q)
    <2>1. q = p BY <1>0, <1>3 DEF Others, Answering
    <2>2. Claims(p) /\ turn'.status = "finalizing" BY <1>0, <1>3, <2>1 DEF Answers
    <2>3. active = [rev |-> Ctl(p), proc |-> p] BY <2>2 DEF Claims, HoldInv, RunActive
    <2> QED BY <1>2, <2>1, <2>2, <2>3 DEF Claims, HoldsClaim
  <1>4. CASE Answering(q)
    <2>1. turn.rev = Ctl(q) /\ turn.status = "finalizing" /\ active = [rev |-> Ctl(q), proc |-> q]
      BY <1>4, <1>u DEF HoldInv, AnswerActive, HoldsClaim
    <2>2. pc[q] \in Held /\ pc[q] \notin {"suspend", "decided", "intake", "lost"}
      BY <1>4, AnsweringHeld, HeldUnderWay
    <2>3. CASE Kept BY <1>2, <2>1, <2>3 DEF Kept, rowVars, HoldsClaim
    <2>4. ~Ends(p)
      <3>1. SUFFICES ASSUME Ends(p) PROVE FALSE OBVIOUS
      <3>2. CASE pc[p] \in Held /\ pc'[p] = "done" /\ Ctl(p) = turn.rev
        <4>1. p = q BY <2>1, <2>2, <3>2 DEF TokenInv, OneRun
        <4> QED BY <1>1, <3>2, <4>1
      <3>3. CASE p \in Msgs /\ pc[p] \in {"intake", "lost"} /\ fiber[p].rev = turn.rev /\ fiber[p].rev # 0
        <4>1. crashes # 0 BY <3>3 DEF HoldInv, NoRecovery
        <4>2. q \in Msgs
          BY <1>u, <2>2, <4>1, HeldUnderWay DEF Undisturbed, Procs
        <4>3. fiber[q].rev = fiber[p].rev BY <2>1, <3>3, <4>2 DEF Ctl
        <4>4. p = q BY <3>3, <4>2, <4>3 DEF TokenInv, OneFiber
        <4> QED BY <2>2, <3>3, <4>4
      <3> QED BY <2>1, <3>1, <3>2, <3>3 DEF Ends
    <2>5. ~Claims(p) /\ ~Begins(p) BY <2>1 DEF Claims, Begins
    <2>6. ~Waits(p) /\ ~Resumes(p)
      <3>1. Waits(p) \/ Resumes(p) => pc[p] \in Held /\ Ctl(p) = Ctl(q) /\ pc[p] \in {"suspend", "decided"}
        BY <2>1 DEF Waits, Resumes, Held, Live, RunLabels
      <3> QED BY <2>2, <3>1 DEF TokenInv, OneRun
    <2> QED BY <1>0, <2>3, <2>4, <2>5, <2>6 DEF RowFate
  <1> QED BY <1>3, <1>4

\* An element of a sequence.
LEMMA Element ==
  ASSUME NEW S, NEW s \in Seq(S), NEW i \in 1..Len(s)
  PROVE  s[i] \in S
  OBVIOUS

\* An answer is posted after those of all earlier turns.
LEMMA HandledOrder ==
  ASSUME TypeInv, TokenInv, AnswerInv, HoldInv, NEW p \in Procs, Handled(p)
  PROVE  AnswersOrdered'
  <1> SUFFICES ASSUME Undisturbed' PROVE InOrder' BY DEF AnswersOrdered
  <1>u. Undisturbed /\ InOrder BY UndisturbedBefore DEF HoldInv, AnswersOrdered
  <1>0. posted \in Seq([rev : Nat, kind : {"answer", "recovered"}]) /\ Len(posted) \in Nat
    BY DEF TypeInv, HistoryType
  <1>1. ASSUME NEW e, posted' = Append(posted, e),
               e.kind = "answer" => \A i \in 1..Len(posted) : posted[i].kind = "answer" => posted[i].rev < e.rev
        PROVE  InOrder'
    <2>1. Len(posted') = Len(posted) + 1 /\ posted'[Len(posted) + 1] = e
          /\ \A i \in 1..Len(posted) : posted'[i] = posted[i]
      BY <1>0, <1>1
    <2> SUFFICES ASSUME NEW i \in 1..Len(posted'), NEW j \in 1..Len(posted'), i < j,
                        posted'[i].kind = "answer", posted'[j].kind = "answer"
                 PROVE  posted'[i].rev < posted'[j].rev
      BY DEF InOrder
    <2>2. i \in 1..Len(posted) /\ (j \in 1..Len(posted) \/ j = Len(posted) + 1)
      BY <1>0, <2>1
    <2>3. CASE j \in 1..Len(posted) BY <1>u, <2>1, <2>2, <2>3 DEF InOrder
    <2>4. CASE j = Len(posted) + 1 BY <1>1, <2>1, <2>2, <2>4
    <2> QED BY <2>2, <2>3, <2>4
  <1>2. CASE posted' = posted BY <1>u, <1>2 DEF InOrder
  <1>3. CASE \E r \in Nat : posted' = Append(posted, [rev |-> r, kind |-> "recovered"])
    BY <1>1, <1>3
  <1>4. CASE /\ Answering(p) /\ pc[p] = "post"
             /\ posted' = Append(posted, [rev |-> Ctl(p), kind |-> "answer"])
    <2>1. turn.rev = Ctl(p) BY <1>u, <1>4 DEF HoldInv, AnswerActive, HoldsClaim
    <2>2. turn.rev \in Nat BY DEF TypeInv, RowType, Row
    <2>3. ASSUME NEW i \in 1..Len(posted), posted[i].kind = "answer"
          PROVE  posted[i].rev < Ctl(p)
      <3>1. posted[i].rev \in Nat /\ Answered(posted[i].rev)
        <4>1. posted[i] \in [rev : Nat, kind : {"answer", "recovered"}] BY <1>0, Element
        <4> QED BY <2>3, <4>1 DEF Answered
      <3>2. posted[i].rev <= turn.rev
        BY <2>2, <3>1 DEF AnswerInv, AnsweredSealed, Sealed
      <3>3. pc[p] \in Held BY <1>4, AnsweringHeld
      <3>4. Ctl(p) # posted[i].rev BY <1>4, <3>1, <3>3 DEF AnswerInv, AnsweredOver
      <3> QED BY <2>1, <2>2, <3>1, <3>2, <3>4
    <2> QED BY <1>1, <1>4, <2>3
  <1> QED BY <1>2, <1>3, <1>4 DEF Handled, Answers

\* Nothing is recovered without an eviction.
LEMMA HandledRecovery ==
  ASSUME TypeInv, NoRecovery, NEW p \in Procs, Handled(p)
  PROVE  NoRecovery'
  BY DEF NoRecovery, Handled, Others, Path, Procs

\* The clock and the timer change nothing of this, and an eviction ends every
\* run.
LEMMA UnhandledHold ==
  ASSUME TypeInv, HoldInv, Unhandled, Flow
  PROVE  HoldInv'
  <1>1. CASE UNCHANGED <<pc, reply, active, aborted, crashes>>
    <2>1. \A p \in Procs : pc'[p] \in Held /\ pc'[p] # "decided" => Ctl(p)' = Ctl(p)
      BY <1>1 DEF Flow, Begins
    <2>2. \A p \in Procs : pc[p] \in RunLabels \/ Answering(p) => pc[p] \in Held /\ pc[p] # "decided"
      BY DEF Answering, Held, Live, RunLabels, PostingLabels
    <2>3. RunActive'
      BY <1>1, <2>1, <2>2 DEF RunActive, HoldInv, Unhandled
    <2>4. AnswerActive'
      BY <1>1, <2>1, <2>2 DEF AnswerActive, HoldInv, Unhandled, Undisturbed, Answering, HoldsClaim
    <2>5. NoRecovery' /\ AnswersOrdered'
      BY <1>1 DEF NoRecovery, AnswersOrdered, InOrder, HoldInv, Unhandled, Undisturbed
    <2> QED BY <2>3, <2>4, <2>5 DEF HoldInv
  <1>2. CASE Crash
    <2>1. \A p \in Procs : pc'[p] \in {"new", "lost", "done"}
      BY <1>2 DEF Crash
    <2>2. {"new", "lost", "done"} \cap (RunLabels \cup {"post", "posted", "writeback", "publish"}) = {}
      BY DEF RunLabels
    <2>3. RunActive' BY <2>1, <2>2 DEF RunActive
    <2>4. AnswerActive' BY <2>1, <2>2 DEF AnswerActive, Answering
    <2>5. crashes' # 0 BY <1>2 DEF Crash, TypeInv, HistoryType
    <2>6. AnswersOrdered'
      <3>1. Undisturbed' => Undisturbed
        <4>1. \A q \in Procs : pc'[q] = "new" => pc[q] = "new" BY <1>2 DEF Crash
        <4> QED BY <2>5, <4>1 DEF Undisturbed, Procs
      <3> QED BY <3>1 DEF AnswersOrdered, InOrder, HoldInv, Unhandled
    <2> QED BY <2>3, <2>4, <2>5, <2>6 DEF HoldInv, NoRecovery
  <1> QED BY <1>1, <1>2 DEF Unhandled

\* Nothing runs at first.
LEMMA InitHold == Init => HoldInv
  <1> SUFFICES ASSUME Init PROVE HoldInv OBVIOUS
  <1>1. \A p \in Procs : pc[p] = "new" BY DEF Init, Procs
  <1>2. RunActive /\ AnswerActive BY <1>1 DEF RunActive, AnswerActive, Answering, RunLabels
  <1>3. NoRecovery BY <1>1 DEF Init, NoRecovery, NewFiber, Procs
  <1>4. AnswersOrdered BY DEF Init, AnswersOrdered, InOrder
  <1> QED BY <1>2, <1>3, <1>4 DEF HoldInv

\* Everything that is inductive about the runs of a thread.
RunInv == TypeInv /\ ApprovalInv /\ TokenInv /\ AnswerInv /\ HoldInv

\* Every step preserves it.
LEMMA NextRuns ==
  ASSUME RunInv, [Next]_vars
  PROVE  RunInv'
  <1> USE DEF RunInv
  <1>1. TypeInv' /\ ApprovalInv' BY NextType, NextApproval
  <1>2. TokenInv' /\ Flow /\ (Unhandled \/ \E p \in Procs : Handled(p)) BY NextTokens
  <1>3. CASE Unhandled BY <1>1, <1>2, <1>3, UnhandledAnswers, UnhandledHold
  <1>4. ASSUME NEW p \in Procs, Handled(p) PROVE AnswerInv' /\ HoldInv'
    <2>1. AnswerInv' BY <1>2, <1>4, HandledAnswers
    <2>2. HoldInv'
      BY <1>2, <1>4, HandledActive, HandledClaim, HandledRecovery, HandledOrder DEF HoldInv
    <2> QED BY <2>1, <2>2
  <1> QED BY <1>1, <1>2, <1>3, <1>4

\* The inductive invariant holds in every state.
LEMMA RunInvariant == Spec => []RunInv
  <1>1. Init => RunInv BY InitType, InitApproval, InitTokens, InitAnswers, InitHold DEF RunInv
  <1>2. RunInv /\ [Next]_vars => RunInv' BY NextRuns
  <1> QED BY <1>1, <1>2, PTL DEF Spec

\* From the claim until its memories are written the answering handler owns the
\* row, for any messages, clicks and evictions, unless a click comes after an
\* eviction: then a recovered fiber may end the turn the click has resumed
\* (settleInterruptedThreadTurn looks at the revision only).
THEOREM ClaimHeld == Spec => [](Undisturbed => AnswerHoldsClaim)
  <1>1. RunInv => (Undisturbed => AnswerHoldsClaim)
    BY DEF RunInv, HoldInv, AnswerActive, HoldsClaim, AnswerHoldsClaim
  <1> QED BY <1>1, RunInvariant, PTL

\* No answered turn has an update that nobody has read, and the answers of a
\* thread come in the order of its turns, each once, but for the eviction before
\* a click that AnswersInOrder excepts.
THEOREM AnswersOrderly == Spec => []AnswersInOrder
  <1>1. RunInv => AnswersInOrder
    <2> SUFFICES ASSUME RunInv PROVE AnswersInOrder OBVIOUS
    <2>1. NoUpdateLeftBehind
      <3> SUFFICES ASSUME NEW m \in Msgs, NEW i \in 1..Len(posted), posted[i].kind = "answer",
                          inbox[m].rev = posted[i].rev
                   PROVE  inbox[m].status \notin {"classifying", "pending"}
        BY DEF NoUpdateLeftBehind
      <3>1. posted[i].rev \in Nat /\ Answered(posted[i].rev)
        <4>1. posted[i] \in [rev : Nat, kind : {"answer", "recovered"}]
          BY Element DEF RunInv, TypeInv, HistoryType
        <4> QED BY <4>1 DEF Answered
      <3> QED BY <3>1 DEF RunInv, AnswerInv, AnsweredSealed, Sealed, InboxEmpty, UpdatesOf
    <2>2. Undisturbed => InOrder BY DEF RunInv, HoldInv, AnswersOrdered
    <2> QED BY <2>1, <2>2 DEF AnswersInOrder, Undisturbed, InOrder
  <1> QED BY <1>1, RunInvariant, PTL

-----------------------------------------------------------------------------
(* The run of a live turn *)

\* Nobody has clicked yet.
Unclicked == \A c \in Clicks : pc[c] = "new"
\* A run that nobody aborted, or its reply, is that of the row.
LiveCurrent == \A p \in Procs : pc[p] \in Live /\ p \notin aborted =>
    IsCurrent(Ctl(p)) /\ active = [rev |-> Ctl(p), proc |-> p]
\* The owner of the controller is under way and nobody aborted it.
OwnerLive == \A p \in Procs : active.proc = p => p \notin aborted /\ pc[p] \in Live
\* A controller and its run live and die together.
LiveInv == Unclicked => LiveCurrent /\ (~SlackDrops => OwnerLive)

\* Where nobody has clicked, whoever has a turn in hand is a message.
LEMMA UnclickedMsg ==
  ASSUME Unclicked, NEW p \in Procs, pc[p] # "new"
  PROVE  p \in Msgs
  BY DEF Unclicked, Procs

\* A step of a handler without clicks resumes nothing.
LEMMA UnclickedBefore ==
  ASSUME Unclicked', NEW p \in Procs, Handled(p)
  PROVE  Unclicked /\ p \in Msgs /\ \A q \in Procs : ~Resumes(q)
  BY DEF Unclicked, Handled, Others, Path, Resumes, Procs

\* A run that goes on.
LEMMA HandledLive ==
  ASSUME TypeInv, TokenInv, Unclicked, LiveCurrent, Unclicked', NEW p \in Procs, Handled(p), Flow
  PROVE  LiveCurrent'
  <1> Known BY DEF TokenInv
  <1> SUFFICES ASSUME NEW q \in Procs, pc'[q] \in Live, q \notin aborted'
               PROVE  IsCurrent(Ctl(q))' /\ active' = [rev |-> Ctl(q)', proc |-> q]
    BY DEF LiveCurrent
  <1>0. Others(p) /\ Path(p) /\ RowFate(p) /\ p \in Msgs /\ (\A r \in Procs : ~Resumes(r))
    BY UnclickedBefore DEF Handled
  <1>t. turn.rev \in Nat BY DEF TypeInv, RowType, Row
  <1>1. CASE Begins(q)
    BY <1>1 DEF Begins, SetActive, Ctl, IsCurrent, Terminal
  <1>2. CASE ~Begins(q)
    <2>1. pc[q] \in Live /\ pc[q] \in Held /\ pc'[q] \in Held /\ pc'[q] \notin {"decided", "card", "done"}
          /\ pc[q] # "prep"
      BY <1>0, <1>2 DEF Others, Path, Live, Held, RunLabels, PostingLabels
    <2>2. Ctl(q)' = Ctl(q) BY <1>2, <2>1 DEF Flow
    <2>3. q \in Msgs /\ Ctl(q) = fiber[q].rev /\ fiber[q].rev # 0
      BY <2>1, HeldUnderWay, UnclickedMsg DEF Ctl, Known
    <2>4. q \notin aborted
      <3>1. CASE Begins(p)
        BY <2>1, <3>1 DEF Begins, SetActive
      <3>2. CASE ~Begins(p)
        BY <1>0, <3>2 DEF RowFate, Kept, rowVars, Ends, AbortActive, Claims, Waits
      <3> QED BY <3>1, <3>2
    <2>5. turn.rev = Ctl(q) /\ turn.status \notin Terminal /\ active = [rev |-> Ctl(q), proc |-> q]
      BY <2>1, <2>4 DEF LiveCurrent, IsCurrent
    <2>6. CASE Kept BY <2>2, <2>5, <2>6 DEF Kept, rowVars, IsCurrent
    <2>7. ~Ends(p)
      <3>1. SUFFICES ASSUME Ends(p) PROVE FALSE OBVIOUS
      <3>2. CASE AbortActive(turn.rev)
        BY <2>3, <2>5, <3>2 DEF AbortActive
      <3>3. CASE Ctl(p) = turn.rev /\ pc'[p] = "done"
        <4>1. fiber[p].rev = fiber[q].rev BY <1>0, <2>3, <2>5, <3>3 DEF Ctl
        <4>2. p = q BY <1>0, <2>3, <4>1 DEF TokenInv, OneFiber
        <4> QED BY <2>1, <3>3, <4>2
      <3> QED BY <2>5, <3>1, <3>2, <3>3 DEF Ends
    <2>8. CASE Claims(p) BY <2>2, <2>5, <2>8 DEF Claims, IsCurrent, Terminal
    <2>9. ~Waits(p)
      <3>1. Waits(p) => pc[p] \in Held /\ Ctl(p) = Ctl(q)
        BY <2>5 DEF Waits, Held, Live, RunLabels
      <3> QED BY <2>1, <3>1 DEF Waits, TokenInv, OneRun
    <2>10. ~Begins(p)
      <3>1. Begins(p) => q # p BY <2>1 DEF Begins
      <3> QED BY <2>3, <2>5, <3>1 DEF Begins, SetActive
    <2> QED BY <1>0, <2>6, <2>7, <2>8, <2>9, <2>10 DEF RowFate
  <1> QED BY <1>1, <1>2

\* A controller is dropped with its run.
LEMMA HandledOwner ==
  ASSUME TypeInv, ~SlackDrops, LiveCurrent, OwnerLive, Unclicked', NEW p \in Procs, Handled(p)
  PROVE  OwnerLive'
  <1> SUFFICES ASSUME NEW q \in Procs, active'.proc = q
               PROVE  q \notin aborted' /\ pc'[q] \in Live
    BY DEF OwnerLive
  <1>0. Others(p) /\ Path(p) /\ RowFate(p) /\ ~Resumes(p) BY UnclickedBefore DEF Handled
  <1>1. active' # NoActive BY ThreadAssumption DEF NoActive, Procs
  <1>2. CASE UNCHANGED <<active, aborted>>
    <2>1. q \notin aborted /\ pc[q] \in Live BY <1>2 DEF OwnerLive
    <2>2. IsCurrent(Ctl(q)) BY <2>1 DEF LiveCurrent
    <2>3. pc'[q] \in Live
      <3>1. CASE q # p BY <1>0, <2>1, <3>1 DEF Others
      <3>2. CASE q = p BY <1>0, <1>1, <2>1, <2>2, <3>2 DEF Path
      <3> QED BY <3>1, <3>2
    <2> QED BY <1>2, <2>1, <2>3
  <1>3. CASE Begins(p)
    BY <1>3 DEF Begins, SetActive, Live, RunLabels
  <1>4. CASE ~Begins(p) /\ ~UNCHANGED <<active, aborted>>
    BY <1>0, <1>1, <1>4 DEF RowFate, Kept, rowVars, Ends, AbortActive, Claims, Waits
  <1> QED BY <1>2, <1>3, <1>4

\* Every step preserves it.
LEMMA NextLive ==
  ASSUME RunInv, LiveInv, [Next]_vars
  PROVE  LiveInv'
  <1> USE DEF RunInv
  <1> SUFFICES ASSUME Unclicked' PROVE LiveCurrent' /\ (~SlackDrops => OwnerLive') BY DEF LiveInv
  <1>1. Flow /\ (Unhandled \/ \E p \in Procs : Handled(p)) BY NextTokens
  <1>2. ASSUME NEW p \in Procs, Handled(p) PROVE LiveCurrent' /\ (~SlackDrops => OwnerLive')
    <2>1. Unclicked BY <1>2, UnclickedBefore
    <2> QED BY <1>1, <1>2, <2>1, HandledLive, HandledOwner DEF LiveInv
  <1>3. CASE Unhandled /\ UNCHANGED <<pc, reply, active, aborted, crashes>>
    <2>1. LiveCurrent /\ (~SlackDrops => OwnerLive) BY <1>3 DEF LiveInv, Unclicked
    <2>2. \A p \in Procs : pc'[p] \in Live => Ctl(p)' = Ctl(p)
      BY <1>1, <1>3 DEF Flow, Begins, Held, Live, RunLabels, PostingLabels
    <2>3. LiveCurrent' BY <1>3, <2>1, <2>2 DEF LiveCurrent, IsCurrent, Unhandled
    <2>4. ~SlackDrops => OwnerLive' BY <1>3, <2>1 DEF OwnerLive
    <2> QED BY <2>3, <2>4
  <1>4. CASE Crash
    <2>1. \A p \in Procs : pc'[p] \notin Live BY <1>4 DEF Crash, Live, RunLabels, PostingLabels
    <2>2. active' = NoActive BY <1>4 DEF Crash
    <2> QED BY <2>1, <2>2, ThreadAssumption DEF LiveCurrent, OwnerLive, NoActive, Procs
  <1> QED BY <1>1, <1>2, <1>3, <1>4 DEF Unhandled

\* Nothing runs at first.
LEMMA InitLive == Init => LiveInv
  BY ThreadAssumption DEF Init, LiveInv, LiveCurrent, OwnerLive, Live, RunLabels, PostingLabels, NoActive, Procs

\* Until somebody clicks, a run nobody aborted is that of the current turn and
\* owns the controller, and a handler that is through owns none, where Slack
\* rejects no reply: a rejected one throws past markThreadTurnCompleted and
\* leaves the controller behind.
THEOREM LiveIsCurrent == ~SlackDrops => (Spec => [](Unclicked => LiveRunIsCurrent))
  <1> SUFFICES ASSUME ~SlackDrops PROVE Spec => [](Unclicked => LiveRunIsCurrent) OBVIOUS
  <1>1. Init => LiveInv BY InitLive
  <1>2. RunInv /\ LiveInv /\ [Next]_vars => LiveInv' BY NextLive
  <1>3. LiveInv => (Unclicked => LiveRunIsCurrent)
    BY DEF LiveInv, LiveCurrent, OwnerLive, LiveRunIsCurrent, Live, RunLabels, PostingLabels
  <1> QED BY <1>1, <1>2, <1>3, RunInvariant, PTL DEF Spec

-----------------------------------------------------------------------------
(* The approvals of dead turns *)

\* The step moves one handler, and not to where an approved action is called.
Elsewhere == \E p \in Procs : \E label : label # "execute" /\ At(p, label)
\* What a step does about the calls of approved actions: a click that has just
\* found its turn alive is about to make one, or makes it.
Calls ==
    /\ ran' = ran \/ \E c \in Clicks : pc[c] = "execute" /\ ran' = [ran EXCEPT ![target[c]] = @ + 1]
    /\ \A c \in Clicks : pc'[c] = "execute" =>
         pc[c] = "execute" \/ (pc[c] = "decided" /\ IsCurrent(appr[target[c]].rev))

\* A step that moves a handler elsewhere and leaves the counts alone.
LEMMA ElsewhereCalls ==
  ASSUME HandlerType, Elsewhere, ran' = ran
  PROVE  Calls
  BY DEF HandlerType, Elsewhere, At, Calls, Procs

\* The moves of a handler.
LEMMA Moves ==
  ASSUME NEW p \in Procs, NEW label, label # "execute",
         At(p, label) \/ Goto(p, label) \/ (\E e : GotoWith(p, label, e))
  PROVE  Elsewhere
  BY DEF Goto, GotoWith, Elsewhere
\* The return of a handler.
LEMMA Returns ==
  ASSUME NEW p \in Procs, Finish(p)
  PROVE  Elsewhere
  BY DEF Finish, Elsewhere

\* Only a click calls an approved action.
LEMMA NextCalls ==
  ASSUME TypeInv, [Next]_vars
  PROVE  Calls
  <1> HandlerType BY DEF TypeInv
  <1>1. ASSUME NEW m \in Msgs, Accept(m) \/ Intake(m) \/ Recovery(m) PROVE Calls
    <2> m \in Procs BY DEF Procs
    <2>1. ran' = ran
      BY <1>1 DEF Accept, Intake, Recovery, Decline, Arrive, ArriveRecovered, AwaitFinalization,
                  GateAnswers, BeginTurn, RecoverFiber, RecoverPost, Steer, approvalVars
    <2>2. ASSUME NEW box, Steer(m, box) PROVE Elsewhere
      BY <2>2, Moves, Returns DEF Steer, SeedFrom, Reserve
    <2>3. CASE Accept(m) \/ Decline(m) \/ ArriveRecovered(m)
      BY <2>1, <2>3, Moves, Returns, ElsewhereCalls DEF Accept, Decline, ArriveRecovered, SeedFrom
    <2>4. CASE Arrive(m) \/ AwaitFinalization(m)
      BY <2>1, <2>2, <2>4, Moves, Returns, ElsewhereCalls DEF Arrive, AwaitFinalization, SeedFrom
    <2>5. CASE GateAnswers(m)
      BY <2>1, <2>2, <2>5, Moves, Returns, ElsewhereCalls DEF GateAnswers, SeedFrom
    <2>6. CASE BeginTurn(m)
      BY <2>1, <2>6, Moves, Returns, ElsewhereCalls DEF BeginTurn
    <2>7. CASE RecoverFiber(m) \/ RecoverPost(m)
      BY <2>1, <2>7, Moves, Returns, ElsewhereCalls DEF RecoverFiber, RecoverPost
    <2> QED BY <1>1, <2>3, <2>4, <2>5, <2>6, <2>7 DEF Intake, Recovery
  <1>2. ASSUME NEW p \in Procs, Run(p) PROVE Calls
    <2>1. ran' = ran
      BY <1>2 DEF Run, ModelStep, FinishModel, RequestApproval, ApprovalWaitOver, ClaimReply,
                  ClaimWaitOver, RunFails, DeliverReply, PostReply, PostThrows, RecordReply,
                  CompleteTurn, Suspend, PostCard, CardFallback, RecordCard, LeaveSuspended, approvalVars
    <2>2. CASE ModelStep(p)
      BY <2>1, <2>2 DEF ModelStep, handlerVars, Calls
    <2>3. CASE FinishModel(p) \/ RequestApproval(p)
      BY <2>1, <2>3, Moves, ElsewhereCalls DEF FinishModel, RequestApproval
    <2>4. CASE ApprovalWaitOver(p) \/ ClaimReply(p) \/ ClaimWaitOver(p)
      BY <2>1, <2>4, Moves, ElsewhereCalls DEF ApprovalWaitOver, ClaimReply, ClaimWaitOver, Continue
    <2>5. CASE RunFails(p) \/ DeliverReply(p) \/ PostReply(p) \/ PostThrows(p)
      BY <2>1, <2>5, Moves, Returns, ElsewhereCalls DEF RunFails, DeliverReply, PostReply, PostThrows, Leave, ToPost
    <2>6. CASE RecordReply(p) \/ CompleteTurn(p) \/ Suspend(p)
      BY <2>1, <2>6, Moves, Returns, ElsewhereCalls DEF RecordReply, CompleteTurn, Suspend, Leave
    <2>7. CASE PostCard(p) \/ CardFallback(p) \/ RecordCard(p) \/ LeaveSuspended(p)
      BY <2>1, <2>7, Moves, Returns, ElsewhereCalls DEF PostCard, CardFallback, RecordCard, LeaveSuspended, Leave
    <2> QED BY <1>2, <2>2, <2>3, <2>4, <2>5, <2>6, <2>7 DEF Run
  <1>3. ASSUME NEW c \in Clicks, Decision(c) \/ \E a \in Approvals, b \in BOOLEAN : Click(c, a, b)
        PROVE  Calls
    <2> c \in Procs BY DEF Procs
    <2>1. CASE ClickChecked(c) \/ Decide(c) \/ \E a \in Approvals, b \in BOOLEAN : Click(c, a, b)
      <3>1. ran' = ran BY <2>1 DEF ClickChecked, Decide, Click
      <3>2. Elsewhere BY <2>1, Moves, Returns DEF ClickChecked, Decide, Click
      <3> QED BY <3>1, <3>2, ElsewhereCalls
    <2>2. CASE Resume(c)
      <3>1. ran' = ran /\ pc[c] = "decided" BY <2>2 DEF Resume
      <3>2. CASE Elsewhere BY <3>1, <3>2, ElsewhereCalls
      <3>3. CASE IsCurrent(appr[target[c]].rev) /\ Goto(c, "execute")
        BY <3>1, <3>3 DEF Goto, At, Calls, HandlerType, Procs
      <3>4. CASE Finish(c) BY <3>2, <3>4, Returns
      <3>5. CASE Goto(c, "compute") BY <3>2, <3>5, Moves
      <3> QED BY <2>2, <3>3, <3>4, <3>5 DEF Resume
    <2>3. CASE Execute(c)
      <3>1. Elsewhere BY <2>3, Moves DEF Execute
      <3>2. \A d \in Clicks : pc'[d] = "execute" => pc[d] = "execute"
        BY <3>1 DEF Elsewhere, At, HandlerType, Procs
      <3> QED BY <2>3, <3>2 DEF Execute, Calls
    <2> QED BY <1>3, <2>1, <2>2, <2>3 DEF Decision
  <1>4. CASE Crash BY <1>4 DEF Crash, approvalVars, Calls, Procs
  <1>5. CASE UNCHANGED vars \/ TurnAges \/ \E a \in Approvals : ApprovalAges(a) \/ ExpiryTimer(a)
    BY <1>5 DEF vars, handlerVars, approvalVars, TurnAges, ApprovalAges, ExpiryTimer, Calls
  <1> QED BY <1>1, <1>2, <1>3, <1>4, <1>5 DEF Next, UserActs, Environment

\* An approval whose turn is over, asked for once and never called.
Dead(a) ==
    /\ appr[a].status # "none"
    /\ ~IsCurrent(appr[a].rev)
    /\ ran[a] = 0
    /\ \A c \in Clicks : pc[c] = "execute" => target[c] # a

\* What becomes of an approval and of the targets of the clicks.
LEMMA NextApprovals ==
  ASSUME TypeInv, ApprovalInv, TokenInv, [Next]_vars,
         NEW a \in Approvals, appr[a].status # "none"
  PROVE  /\ appr'[a].status # "none"
         /\ appr'[a].rev = appr[a].rev
         /\ \A c \in Clicks : pc[c] \in Holding => target'[c] = target[c]
         /\ (turn'.rev = turn.rev /\ turn'.status = turn.status) \/ \E p \in Procs : RowFate(p)
  <1> DEFINE Goal == /\ appr'[a].status # "none"
                     /\ appr'[a].rev = appr[a].rev
                     /\ \A c \in Clicks : pc[c] \in Holding => target'[c] = target[c]
                     /\ (turn'.rev = turn.rev /\ turn'.status = turn.status) \/ \E p \in Procs : RowFate(p)
  <1>1. ASSUME NEW p \in Procs, Handled(p),
               Quiet(p) \/ Asks(p) \/ CardsUp(p) \/ (Begins(p) /\ UNCHANGED <<appr, target>>)
        PROVE  Goal
    <2>1. target' = target BY <1>1 DEF Quiet, Asks, CardsUp
    <2>2. appr'[a].status # "none" /\ appr'[a].rev = appr[a].rev
      <3>1. CASE Quiet(p) BY <3>1 DEF Quiet, Settled
      <3>2. CASE Asks(p)
        <4>1. a # ApprovalOf(p)
          BY <3>2 DEF Asks, Waits, ApprovalInv, FreshApproval, Undecided, RunLabels
        <4> QED BY <3>2, <4>1 DEF Asks
      <3>3. CASE CardsUp(p) BY <3>3 DEF CardsUp
      <3>4. CASE UNCHANGED <<appr, target>> BY <3>4
      <3> QED BY <1>1, <3>1, <3>2, <3>3, <3>4
    <2> QED BY <1>1, <2>1, <2>2 DEF Handled
  <1>2. ASSUME NEW c \in Clicks, Handled(c), Targets(c) \/ Decides(c)
        PROVE  Goal
    <2> c \in Procs BY DEF Procs
    <2>1. appr'[a].status # "none" /\ appr'[a].rev = appr[a].rev
      BY <1>2 DEF Targets, Decides, Settled
    <2>2. \A d \in Clicks : pc[d] \in Holding => target'[d] = target[d]
      BY <1>2 DEF Targets, Decides, Holding
    <2> QED BY <1>2, <2>1, <2>2 DEF Handled
  <1>3. ASSUME NEW m \in Msgs, Accept(m) \/ Intake(m) \/ Recovery(m) PROVE Goal
    <2> m \in Procs BY DEF Procs
    <2>1. Handled(m) /\ (Quiet(m) \/ (Begins(m) /\ UNCHANGED <<appr, target>>))
      BY <1>3, IntakeHandled, GateHandled, BeginHandled, RecoveryHandled DEF Intake
    <2> QED BY <2>1, <1>1
  <1>4. ASSUME NEW p \in Procs, Run(p) PROVE Goal
    <2>1. CASE Suspend(p) BY <2>1, <1>1, SuspendHandled
    <2>2. CASE PostCard(p) BY <2>2, <1>1, PostCardHandled
    <2>3. CASE ~Suspend(p) /\ ~PostCard(p)
      BY <2>3, <1>4, <1>1, LoopHandled, EndHandled, PostHandled, RecordCardHandled DEF Run
    <2> QED BY <2>1, <2>2, <2>3
  <1>5. ASSUME NEW c \in Clicks, Decision(c) \/ \E b \in Approvals, v \in BOOLEAN : Click(c, b, v)
        PROVE  Goal
    <2> c \in Procs BY DEF Procs
    <2>1. Handled(c) /\ (Quiet(c) \/ Targets(c) \/ Decides(c)) BY <1>5, ClickHandled
    <2> QED BY <2>1, <1>1, <1>2
  <1>6. CASE Environment \/ UNCHANGED vars
    <2>1. Unhandled BY <1>6, UnhandledStep
    <2> QED BY <2>1 DEF Unhandled, Settled
  <1> QED BY <1>3, <1>4, <1>5, <1>6 DEF Next, UserActs

\* A turn that is over stays over.
LEMMA StaysOver ==
  ASSUME RowType, NEW r \in Nat, r <= turn.rev, ~IsCurrent(r),
         (turn'.rev = turn.rev /\ turn'.status = turn.status) \/ \E p \in Procs : RowFate(p)
  PROVE  ~(turn'.rev = r /\ turn'.status \notin Terminal)
  BY DEF RowType, Row, IsCurrent, RowFate, Kept, rowVars, Ends, Claims, Waits, Begins, Resumes, Terminal

\* Nothing revives a dead approval.
LEMMA StaysDead ==
  ASSUME RunInv, [Next]_vars, NEW a \in Approvals, Dead(a)
  PROVE  Dead(a)'
  <1> TypeInv /\ ApprovalInv /\ TokenInv BY DEF RunInv
  <1>1. /\ appr'[a].status # "none"
        /\ appr'[a].rev = appr[a].rev
        /\ \A c \in Clicks : pc[c] \in Holding => target'[c] = target[c]
        /\ (turn'.rev = turn.rev /\ turn'.status = turn.status) \/ \E p \in Procs : RowFate(p)
    BY NextApprovals DEF Dead
  <1>2. Calls BY NextCalls
  <1>3. ~IsCurrent(appr[a].rev)'
    <2>1. appr[a].rev \in Nat /\ appr[a].rev <= turn.rev /\ RowType
      BY DEF TokenInv, Known, TypeInv, ApprovalType
    <2>2. ~(turn'.rev = appr[a].rev /\ turn'.status \notin Terminal)
      BY <1>1, <2>1, StaysOver DEF Dead
    <2> QED BY <1>1, <2>2 DEF IsCurrent
  <1>4. ran'[a] = 0
    BY <1>2 DEF Calls, Dead, TypeInv, ApprovalType
  <1>5. ASSUME NEW c \in Clicks, pc'[c] = "execute" PROVE target'[c] # a
    <2>1. pc[c] \in Holding /\ target[c] # a
      BY <1>2, <1>5 DEF Calls, Dead, Holding
    <2> QED BY <1>1, <2>1
  <1> QED BY <1>1, <1>3, <1>4, <1>5 DEF Dead

\* A pending approval of a turn that is over is dead.
LEMMA DoomedIsDead ==
  ASSUME RunInv, NEW a \in Approvals, Doomed(a)
  PROVE  Dead(a)
  BY DEF RunInv, Doomed, Dead, ApprovalInv, RefusedIdle, HolderDecided, Holding

\* Once the turn of a pending approval is over, no click executes its action any
\* more, whatever turns, clicks, timers and evictions follow: markApprovalDecided
\* leaves a cancelled approval alone, and the resumption looks at the turn in the
\* step that makes it run.
THEOREM DoomedNever == Spec => DoomedApprovalNeverRuns
  <1> SUFFICES ASSUME NEW a \in {b \in Approvals : b[1] \in Asking /\ b[2] <= MaxCrashes}
               PROVE  Spec => [](Doomed(a) => [](ran[a] = 0))
    BY DEF DoomedApprovalNeverRuns
  <1>1. RunInv /\ Doomed(a) => Dead(a) BY DoomedIsDead
  <1>2. RunInv /\ Dead(a) /\ [Next]_vars => Dead(a)' BY StaysDead
  <1>3. Dead(a) => ran[a] = 0 BY DEF Dead
  <1> QED BY <1>1, <1>2, <1>3, RunInvariant, PTL DEF Spec
=============================================================================
