---------------------------- MODULE AccessLease ----------------------------
(***************************************************************************)
(* Borrowing a colleague's connection (src/src/brain/lease) from inside a  *)
(* Slack thread: the tool call that asks, the owners' card, their clicks,  *)
(* the expiry timer, the run that a grant resumes, and the check made      *)
(* before every call with a borrowed connection.  It works on the same     *)
(* turn row and controllers (TurnControl) as the thread's messages.        *)
(*                                                                         *)
(* The object interleaves at an await only.  Handlers, pc:                 *)
(*   compute   the model loop, of a message or of a granted follow-up      *)
(*   post      the final claim is made, or the run failed: the reply is    *)
(*             being posted                                                *)
(*   writeback writeMemories, of a message                                 *)
(*   checking  a click awaits isOrgMember and the owner's connection       *)
(*   granted   the lease is active and its turn resumed; the cards go and  *)
(*             the follow-up's context is looked up                        *)
(*   closing   the request is over; cards and telemetry before resuming    *)
(*   verdict   the turn is resumed to say so                               *)
(*   lost      a message's fiber after an eviction                         *)
(* A tool call request_access_lease, ask:                                  *)
(*   lookup    own connection and connect prompt                           *)
(*   owners    resolveLeaseOwners, resolveReachableLeaseOwners             *)
(*   route     expiry scheduled, the owners' eligibility is looked up      *)
(*   carded    the card is in Slack, its deliveries not yet recorded       *)
(*                                                                         *)
(* Membership and connections live in a database others write.  What a     *)
(* query returns was true at some moment of the await: seen keeps what it  *)
(* would have read when it was sent.  Neither comes back once gone.        *)
(* Clicks are the places where a press or the timer's run is handled; a    *)
(* place is free again when its handler has returned.                      *)
(***************************************************************************)
EXTENDS TurnControl

CONSTANTS
    Requests,     \* calls of request_access_lease, by whatever run
    Owners,       \* colleagues with the server connected
    Server,       \* the server each request is for
    Nobody,       \* no owner
    NoRequest,    \* no request
    MaxCalls,     \* calls with a borrowed connection (bound of the model)
    MaxFaults     \* evictions, failed lookups, an asker who leaves and
                  \* deleted connections, together (bound of the model)

ASSUME LeaseAssumption ==
    /\ DOMAIN Server = Requests
    /\ Nobody \notin Owners
    /\ NoRequest \notin Requests
    /\ MaxCalls \in Nat
    /\ MaxFaults \in Nat

VARIABLES
    pc,        \* where each handler is parked
    ctl,       \* the revision a handler runs
    want,      \* the request, owner and verdict of a click
    seen,      \* what a click's query would have read when it was sent
    dropped,   \* handlers whose controller the reply of another run dropped
    ask,       \* where each call of request_access_lease is parked
    lease,     \* brain_lease, one row per request
    deliveries,\* card_deliveries_json: per request and owner
    member,    \* whether the asker is a member of the organization
    shares,    \* whether an owner's connection exists and is active
    told,      \* owners whose deletion reached onConnectionRevoked (history)
    use,       \* the call with a borrowed connection being revalidated
    calls,     \* calls made with each lease (history)
    failures   \* evictions and failed lookups so far

rowVars == <<turn, active, aborted>>
handlerVars == <<pc, ctl, want, seen, dropped>>
leaseVars == <<ask, lease, deliveries>>
worldVars == <<member, shares, told>>
useVars == <<use, calls>>
vars == <<controlVars, handlerVars, leaseVars, worldVars, useVars, failures>>

LeaseStatus == {"none", "pending", "active", "denied", "expired", "revoked",
                "cancelled", "error"}
DeliveryStatus == {"none", "posted", "pending", "approved", "declined",
                   "invalidated"}
Labels == {"new", "compute", "post", "writeback", "checking",
           "granted", "closing", "verdict", "lost", "done"}
AskLabels == {"idle", "lookup", "owners", "route", "carded", "over"}
Lease == [status : LeaseStatus, rev : Nat, lender : Owners \cup {Nobody},
          late : BOOLEAN, armed : BOOLEAN]
NoLease == [status |-> "none", rev |-> 0, lender |-> Nobody,
            late |-> FALSE, armed |-> FALSE]
\* What the lookups would find out about the asker and owner o.
World(o) == [member |-> member, shares |-> shares[o]]
NotSeen == [member |-> FALSE, shares |-> FALSE]
NoUse == [lease |-> NoRequest, seen |-> NotSeen]
NoWant == [request |-> NoRequest, owner |-> Nobody, yes |-> FALSE]

Init ==
    /\ turn = NoRow
    /\ active = NoActive
    /\ aborted = {}
    /\ inbox = [m \in Msgs |-> NoUpdate]
    /\ pc = [p \in Procs |-> "new"]
    /\ ctl = [p \in Procs |-> 0]
    /\ want = [c \in Clicks |-> NoWant]
    /\ seen = [c \in Clicks |-> NotSeen]
    /\ dropped = {}
    /\ ask = [r \in Requests |-> [at |-> "idle", by |-> NoProc, rev |-> 0]]
    /\ lease = [r \in Requests |-> NoLease]
    /\ deliveries = [r \in Requests |-> [o \in Owners |-> "none"]]
    /\ member = TRUE
    /\ shares = [o \in Owners |-> TRUE]
    /\ told = {}
    /\ use = NoUse
    /\ calls = [r \in Requests |-> 0]
    /\ failures = 0

At(p, label) == pc' = [pc EXCEPT ![p] = label]
Goto(p, label) == At(p, label) /\ UNCHANGED <<ctl, want, seen, dropped>>
\* The handler returns and its locals are gone.
Forget(p) ==
    /\ ctl' = [ctl EXCEPT ![p] = 0]
    /\ want' = [c \in Clicks |-> IF c = p THEN NoWant ELSE want[c]]
    /\ seen' = [c \in Clicks |-> IF c = p THEN NotSeen ELSE seen[c]]
Leave(p) == At(p, IF p \in Msgs THEN "done" ELSE "new") /\ Forget(p)
Finish(p) == Leave(p) /\ dropped' = dropped \ {p}

\* A row that is over has no time left to run.
SetStatus(r, status) == [lease EXCEPT ![r].status = status, ![r].late = FALSE]

\* markLeaseRequestTerminalIfPending
TerminalIfPending(r, status) ==
    lease' = IF lease[r].status = "pending" THEN SetStatus(r, status) ELSE lease

\* hasPendingLeaseRequestForTurn
HasPending(rev) ==
    \E r \in Requests : /\ lease[r].status = "pending"
                        /\ ~lease[r].late
                        /\ lease[r].rev = rev

-----------------------------------------------------------------------------
(* The thread's messages, as far as leases see them: ThreadTurn has the    *)
(* whole of their control                                                  *)

\* A message begins a turn: beginThreadTurn, after replacing what it found.
\* Between the two it awaits; ThreadTurn has that.
Arrive(m) ==
    /\ pc[m] = "new"
    /\ turn.status # "finalizing"
    /\ Begin(m, Author[m])
    /\ At(m, "compute")
    /\ ctl' = [ctl EXCEPT ![m] = turn.rev + 1]
    /\ UNCHANGED <<inbox, want, seen, dropped, leaseVars, worldVars, useVars, failures>>

\* The asker says stop.
Stop ==
    /\ IsSteerable(turn)
    /\ Interrupt("cancelled")
    /\ UNCHANGED <<inbox, handlerVars, leaseVars, worldVars, useVars, failures>>

Working(p) == \E r \in Requests : /\ ask[r].at \notin {"idle", "over"}
                                  /\ ask[r].by = p

\* The model concludes, its tool calls answered, and the final claim is made.
Conclude(p) ==
    /\ pc[p] = "compute"
    /\ p \notin aborted
    /\ ~Working(p)
    /\ ClaimFinalization(ctl[p])
    /\ Goto(p, "post")
    /\ UNCHANGED <<inbox, leaseVars, worldVars, useVars, failures>>

\* The run fails or is out of time, a tool call possibly still running: it
\* has something to say all the same.
FailRun(p) ==
    /\ pc[p] = "compute"
    /\ p \notin aborted
    /\ IsCurrent(ctl[p])
    /\ Goto(p, "post")
    /\ UNCHANGED <<controlVars, leaseVars, worldVars, useVars, failures>>

\* An aborted run returns.  The wrapper of a message's handler reaps the
\* turn, a follow-up has no wrapper.
Abandon(p) ==
    /\ pc[p] = "compute"
    /\ p \in aborted \/ ~IsCurrent(ctl[p])
    /\ IF p \in Msgs THEN Reap(ctl[p]) ELSE UNCHANGED rowVars
    /\ Finish(p)
    /\ UNCHANGED <<inbox, leaseVars, worldVars, useVars, failures>>

\* The reply is posted.  A turn with an open request waits for it; a
\* message's handler writes memory first, a follow-up completes at once.
Settle(p) ==
    /\ pc[p] = "post"
    /\ \/ /\ ~IsCurrent(ctl[p])
          /\ Finish(p)
          /\ UNCHANGED rowVars
       \/ /\ IsCurrent(ctl[p])
          /\ HasPending(ctl[p])
          /\ MarkWaiting
          /\ Leave(p)
          /\ dropped' = (dropped \cup ({active.proc} \cap Procs)) \ {p}
       \/ /\ IsCurrent(ctl[p])
          /\ ~HasPending(ctl[p])
          /\ p \in Msgs
          /\ Goto(p, "writeback")
          /\ UNCHANGED rowVars
       \/ /\ IsCurrent(ctl[p])
          /\ ~HasPending(ctl[p])
          /\ p \in Clicks
          /\ MarkCompleted(ctl[p])
          /\ Finish(p)
    /\ UNCHANGED <<inbox, leaseVars, worldVars, useVars, failures>>

Complete(m) ==
    /\ pc[m] = "writeback"
    /\ MarkCompleted(ctl[m])
    /\ Finish(m)
    /\ UNCHANGED <<inbox, leaseVars, worldVars, useVars, failures>>

-----------------------------------------------------------------------------
(* requestAccessLease *)

AskAt(r, label) == ask' = [ask EXCEPT ![r].at = label]

\* The model calls the tool.
Ask(p, r) ==
    /\ pc[p] = "compute"
    /\ p \notin aborted
    /\ IsCurrent(ctl[p])
    /\ ask[r].at = "idle"
    /\ ask' = [ask EXCEPT ![r] = [at |-> "lookup", by |-> p, rev |-> ctl[p]]]
    /\ UNCHANGED <<controlVars, handlerVars, lease, deliveries, worldVars, useVars, failures>>

\* hasOpenLeaseForServer.  leaseModeSatisfies holds of every two modes.
HasOpen(r) ==
    \E q \in Requests : /\ Server[q] = Server[r]
                        /\ lease[q].status \in {"pending", "active"}
                        /\ ~lease[q].late

\* The asker's own connection and the connect offer are settled: the early
\* returns, or on to finding owners.
LookedUp(r) ==
    /\ ask[r].at = "lookup"
    /\ \/ AskAt(r, "over")
       \/ ~HasOpen(r) /\ AskAt(r, "owners")
    /\ UNCHANGED <<controlVars, handlerVars, lease, deliveries, worldVars, useVars, failures>>

\* Owners who can be reached were found, or none.  The row is inserted and
\* its expiry scheduled; a request that cannot be time-boxed is failed.
Insert(r) ==
    /\ ask[r].at = "owners"
    /\ \/ AskAt(r, "over") /\ UNCHANGED lease
       \/ /\ lease' = [lease EXCEPT ![r] = [NoLease EXCEPT !.status = "error",
                                                           !.rev = ask[r].rev]]
          /\ AskAt(r, "over")
       \/ /\ lease' = [lease EXCEPT ![r] = [NoLease EXCEPT !.status = "pending",
                                                           !.rev = ask[r].rev,
                                                           !.armed = TRUE]]
          /\ AskAt(r, "route")
    /\ UNCHANGED <<controlVars, handlerVars, deliveries, worldVars, useVars, failures>>

\* routeLeaseRequestToOwners up to the card: nobody eligible, Slack refused
\* the card, or it is in the thread and tags the owners asked.
PostCard(r) ==
    /\ ask[r].at = "route"
    /\ \/ /\ TerminalIfPending(r, "error")
          /\ AskAt(r, "over")
          /\ UNCHANGED deliveries
       \/ \E asked \in SUBSET {o \in Owners : shares[o]} :
            /\ asked # {}
            /\ deliveries' = [deliveries EXCEPT ![r] =
                 [o \in Owners |-> IF o \in asked THEN "posted" ELSE "none"]]
            /\ AskAt(r, "carded")
            /\ UNCHANGED lease
    /\ UNCHANGED <<controlVars, handlerVars, worldVars, useVars, failures>>

\* addLeaseRequestCardDeliveries, while the request is pending; the card of
\* one that is not is deleted again.
RecordCard(r) ==
    /\ ask[r].at = "carded"
    /\ deliveries' = [deliveries EXCEPT ![r] =
         [o \in Owners |-> IF deliveries[r][o] = "posted"
                           THEN IF lease[r].status = "pending" THEN "pending" ELSE "none"
                           ELSE deliveries[r][o]]]
    /\ AskAt(r, "over")
    /\ UNCHANGED <<controlVars, handlerVars, lease, worldVars, useVars, failures>>

-----------------------------------------------------------------------------
(* An owner presses Approve or Decline: runSlackLeaseDecision *)

\* cancelled because its turn is no longer current, on behalf of a click or
\* of the timer
Superseded(c, r) ==
    /\ lease' = SetStatus(r, "cancelled")
    /\ Finish(c)

\* The checks up to the first await.  o is tagged on a card that is in the
\* thread; without a recorded delivery the click has no effect.
Press(c, r, o, yes) ==
    /\ pc[c] = "new"
    /\ deliveries[r][o] # "none"
    /\ \/ /\ deliveries[r][o] # "pending" \/ lease[r].status # "pending"
          /\ Finish(c)
          /\ UNCHANGED lease
       \/ /\ deliveries[r][o] = "pending" /\ lease[r].status = "pending"
          /\ lease[r].late
          /\ lease' = SetStatus(r, "expired")
          /\ At(c, "closing")
          /\ want' = [want EXCEPT ![c] = [request |-> r, owner |-> o, yes |-> yes]]
          /\ UNCHANGED <<ctl, seen, dropped>>
       \/ /\ deliveries[r][o] = "pending" /\ lease[r].status = "pending"
          /\ ~lease[r].late
          /\ ~IsCurrent(lease[r].rev)
          /\ Superseded(c, r)
       \/ /\ deliveries[r][o] = "pending" /\ lease[r].status = "pending"
          /\ ~lease[r].late
          /\ IsCurrent(lease[r].rev)
          /\ At(c, "checking")
          /\ want' = [want EXCEPT ![c] = [request |-> r, owner |-> o, yes |-> yes]]
          /\ seen' = [seen EXCEPT ![c] = World(o)]
          /\ UNCHANGED <<ctl, lease, dropped>>
    /\ UNCHANGED <<controlVars, ask, deliveries, worldVars, useVars, failures>>

\* updateLeaseDeliveryState with one owner's delivery taken out.
Without(r, o, status) == [deliveries[r] EXCEPT ![o] = status]
StillAsked(state) == \E o \in Owners : state[o] = "pending"
AllDeclined(state) == \A o \in Owners : state[o] \in {"none", "declined"}

\* Mutant of Withdraw: whether the request goes on is read from the
\* deliveries before the decline.
WithdrawStale(c, r, o, status) ==
    /\ deliveries' = [deliveries EXCEPT ![r] = Without(r, o, status)]
    /\ IF StillAsked(deliveries[r])
       THEN Finish(c) /\ UNCHANGED lease
       ELSE lease' = SetStatus(r, "denied") /\ Goto(c, "closing")

\* updateLeaseOwnerDelivery of a pending delivery: the last one ends the
\* request.
Withdraw(c, r, o, status) ==
    LET state == Without(r, o, status)
    IN /\ deliveries' = [deliveries EXCEPT ![r] = state]
       /\ IF StillAsked(state)
          THEN Finish(c) /\ UNCHANGED lease
          ELSE /\ lease' = SetStatus(r, IF AllDeclined(state) THEN "denied" ELSE "error")
               /\ Goto(c, "closing")

\* A bug: a lease becomes active whatever has become of its turn.
ActivateAnyway(r, o) ==
    /\ lease' = [lease EXCEPT ![r].status = "active", ![r].lender = o, ![r].late = FALSE]
    /\ deliveries' = [deliveries EXCEPT ![r][o] = "approved"]

\* activateAccessLease of a pending delivery: the other owners are no longer
\* asked.  late now tells that the ten minutes are over.
Activate(r, o) ==
    /\ lease' = [lease EXCEPT ![r].status = IF IsCurrent(lease[r].rev)
                                            THEN "active" ELSE "revoked",
                              ![r].lender = o, ![r].late = FALSE]
    /\ deliveries' = [deliveries EXCEPT ![r] =
         [p \in Owners |-> CASE p = o -> "approved"
                             [] p # o /\ deliveries[r][p] = "pending" -> "invalidated"
                             [] OTHER -> deliveries[r][p]]]

\* isOrgMember and the owner's connection are known.  A request of somebody
\* who left is cancelled; whatever was decided meanwhile makes the click
\* stale.  A grant resumes the turn in the same step, and is revoked in it
\* when the turn is no longer current.
Checked(c) ==
    LET r == want[c].request
        o == want[c].owner
        pending == lease[r].status = "pending"
        open == pending /\ deliveries[r][o] = "pending"
    IN /\ pc[c] = "checking"
       /\ \E is \in {seen[c].member, member}, lends \in {seen[c].shares, shares[o]} :
            \/ /\ ~is /\ pending
               /\ lease' = SetStatus(r, "cancelled")
               /\ Goto(c, "closing")
               /\ UNCHANGED <<deliveries, rowVars>>
            \/ /\ IF is THEN ~open ELSE ~pending
               /\ Finish(c)
               /\ UNCHANGED <<lease, deliveries, rowVars>>
            \/ /\ is /\ open /\ ~lends
               /\ Withdraw(c, r, o, "invalidated")
               /\ UNCHANGED rowVars
            \/ /\ is /\ open /\ lends /\ ~want[c].yes
               /\ Withdraw(c, r, o, "declined")
               /\ UNCHANGED rowVars
            \/ /\ is /\ open /\ lends /\ want[c].yes
               /\ Activate(r, o)
               /\ IF IsCurrent(lease[r].rev)
                  THEN /\ ResumeTurn(c)
                       /\ At(c, "granted")
                       /\ ctl' = [ctl EXCEPT ![c] = lease[r].rev]
                       /\ UNCHANGED <<want, seen, dropped>>
                  ELSE Finish(c) /\ UNCHANGED rowVars
       /\ UNCHANGED <<inbox, ask, worldVars, useVars, failures>>

\* The approval is announced and the follow-up's context looked up:
\* runLeaseFollowUp starts the model.
FollowUp(c) ==
    /\ pc[c] = "granted"
    /\ Goto(c, "compute")
    /\ UNCHANGED <<controlVars, leaseVars, worldVars, useVars, failures>>

\* finishLeaseTurn: a request that is over resumes its turn to say so.
Close(c) ==
    LET rev == lease[want[c].request].rev
    IN /\ pc[c] = "closing"
       /\ IF IsCurrent(rev)
          THEN /\ ResumeTurn(c)
               /\ At(c, "verdict")
               /\ ctl' = [ctl EXCEPT ![c] = rev]
               /\ UNCHANGED <<want, seen, dropped>>
          ELSE Finish(c) /\ UNCHANGED rowVars
       /\ UNCHANGED <<inbox, leaseVars, worldVars, useVars, failures>>

Verdict(c) ==
    /\ pc[c] = "verdict"
    /\ MarkCompleted(ctl[c])
    /\ Finish(c)
    /\ UNCHANGED <<inbox, leaseVars, worldVars, useVars, failures>>

\* runLeaseRevoke, by the owner who lent.
Revoke(r) ==
    /\ lease[r].status = "active"
    /\ lease' = SetStatus(r, "revoked")
    /\ UNCHANGED <<controlVars, handlerVars, ask, deliveries, worldVars, useVars, failures>>

\* Mutant of Escalate: the request expires and its turn is not told.
EscalateQuietly(c, r) ==
    /\ pc[c] = "new"
    /\ lease[r].armed /\ lease[r].late /\ lease[r].status = "pending"
    /\ lease' = SetStatus(r, "expired")
    /\ Finish(c)
    /\ UNCHANGED <<controlVars, ask, deliveries, worldVars, useVars, failures>>

\* runLeaseEscalation
Escalate(c, r) ==
    /\ pc[c] = "new"
    /\ lease[r].armed
    /\ lease[r].late
    /\ lease[r].status = "pending"
    /\ IF IsCurrent(lease[r].rev)
       THEN /\ lease' = SetStatus(r, "expired")
            /\ At(c, "closing")
            /\ want' = [want EXCEPT ![c] = [NoWant EXCEPT !.request = r]]
            /\ UNCHANGED <<ctl, seen, dropped>>
       ELSE Superseded(c, r)
    /\ UNCHANGED <<controlVars, ask, deliveries, worldVars, useVars, failures>>

-----------------------------------------------------------------------------
(* A call with a borrowed connection: revalidateLease *)

\* A run of the thread calls a leased tool.  A lease past its ten minutes is
\* marked expired and not used.
UseStart(p, r) ==
    /\ pc[p] = "compute"
    /\ p \notin aborted
    /\ use = NoUse
    /\ calls[r] < MaxCalls
    /\ lease[r].status = "active"
    /\ IF lease[r].late
       THEN lease' = SetStatus(r, "expired") /\ UNCHANGED use
       ELSE use' = [lease |-> r, seen |-> World(lease[r].lender)] /\ UNCHANGED lease
    /\ UNCHANGED <<controlVars, handlerVars, ask, deliveries, worldVars, calls, failures>>

\* Mutants of UseChecked: the row is not read again after the lookups; the
\* connection is not looked at.
UseCheckedOnce ==
    /\ use # NoUse
    /\ use' = NoUse
    /\ calls' = [calls EXCEPT ![use.lease] = @ + (IF use.seen.member THEN 1 ELSE 0)]
    /\ UNCHANGED <<controlVars, handlerVars, leaseVars, worldVars, failures>>
UseCheckedTrusting ==
    LET r == use.lease
    IN /\ use # NoUse
       /\ use' = NoUse
       /\ calls' = [calls EXCEPT ![r] =
            @ + (IF lease[r].status = "active" /\ ~lease[r].late THEN 1 ELSE 0)]
       /\ UNCHANGED <<controlVars, handlerVars, leaseVars, worldVars, failures>>

\* The asker's membership and the lender's connection are known, the row is
\* read again, and the call follows at once.
UseChecked ==
    LET r == use.lease
        live == lease[r].status = "active"
    IN /\ use # NoUse
       /\ use' = NoUse
       /\ \E is \in {use.seen.member, member},
             lends \in {use.seen.shares, shares[lease[r].lender]} :
            \/ /\ ~is
               /\ lease' = IF live THEN SetStatus(r, "revoked") ELSE lease
               /\ UNCHANGED calls
            \/ /\ is /\ (~lends \/ ~live)
               /\ UNCHANGED <<lease, calls>>
            \/ /\ is /\ lends /\ live /\ lease[r].late
               /\ lease' = SetStatus(r, "expired")
               /\ UNCHANGED calls
            \/ /\ is /\ lends /\ live /\ ~lease[r].late
               /\ calls' = [calls EXCEPT ![r] = @ + 1]
               /\ UNCHANGED lease
       /\ UNCHANGED <<controlVars, handlerVars, ask, deliveries, worldVars, failures>>

-----------------------------------------------------------------------------
(* Time, other services, failures *)

\* expires_at of a pending or an active row passes.
Ages(r) ==
    /\ lease[r].status \in {"pending", "active"}
    /\ ~lease[r].late
    /\ lease' = [lease EXCEPT ![r].late = TRUE]
    /\ UNCHANGED <<controlVars, handlerVars, ask, deliveries, worldVars, useVars, failures>>

Faults == failures + (IF member THEN 0 ELSE 1)
              + Cardinality({o \in Owners : ~shares[o]})

AskerLeaves ==
    /\ member
    /\ Faults < MaxFaults
    /\ member' = FALSE
    /\ UNCHANGED <<controlVars, handlerVars, leaseVars, shares, told, useVars, failures>>

\* deleteConnection deletes the row ...
Disconnect(o) ==
    /\ shares[o]
    /\ Faults < MaxFaults
    /\ shares' = [shares EXCEPT ![o] = FALSE]
    /\ UNCHANGED <<controlVars, handlerVars, leaseVars, member, told, useVars, failures>>

\* ... and then calls onConnectionRevoked, which may fail.
ConnectionRevoked(o) ==
    /\ ~shares[o]
    /\ o \notin told
    /\ told' = told \cup {o}
    /\ lease' = [r \in Requests |->
         IF lease[r].lender = o /\ lease[r].status = "active"
         THEN [lease[r] EXCEPT !.status = "revoked", !.late = FALSE] ELSE lease[r]]
    /\ UNCHANGED <<controlVars, handlerVars, ask, deliveries, member, shares, useVars, failures>>

\* A lookup of the workspace, the token or the thread is rejected: the click
\* throws, and its caller only logs.
LookupFails(c) ==
    /\ Faults < MaxFaults
    /\ pc[c] \in {"checking", "granted", "closing", "verdict"}
    /\ failures' = failures + 1
    /\ Finish(c)
    /\ UNCHANGED <<controlVars, leaseVars, worldVars, useVars>>

\* The object is evicted.  Messages are fibers, and one whose reply is
\* delivered is left alone; clicks and the timer's run are not started again.
Evict ==
    /\ Faults < MaxFaults
    /\ failures' = failures + 1
    /\ active' = NoActive
    /\ aborted' = {}
    /\ pc' = [p \in Procs |-> CASE pc[p] \in {"new", "done"} -> pc[p]
                                [] p \in Clicks -> "new"
                                [] pc[p] = "writeback" -> "done"
                                [] OTHER -> "lost"]
    /\ ctl' = [p \in Procs |-> IF pc'[p] = "lost" THEN ctl[p] ELSE 0]
    /\ want' = [c \in Clicks |-> NoWant]
    /\ seen' = [c \in Clicks |-> NotSeen]
    /\ dropped' = {}
    /\ ask' = [r \in Requests |-> IF ask[r].at = "idle" THEN ask[r]
                                  ELSE [ask[r] EXCEPT !.at = "over"]]
    /\ use' = NoUse
    /\ UNCHANGED <<turn, inbox, lease, deliveries, worldVars, calls>>

\* A recovered message supersedes the turn it had begun, or completes it; the
\* second attempt is another message of the model.
Recover(m) ==
    /\ pc[m] = "lost"
    /\ \/ /\ CanSettle(ctl[m])
          /\ \E status \in {"superseded", "completed"} : SettleInterrupted(status)
       \/ /\ ~CanSettle(ctl[m])
          /\ UNCHANGED rowVars
    /\ Finish(m)
    /\ UNCHANGED <<inbox, leaseVars, worldVars, useVars, failures>>

-----------------------------------------------------------------------------
HandlerStep(p) ==
    \/ Conclude(p) \/ FailRun(p) \/ Abandon(p) \/ Settle(p)
    \/ p \in Msgs /\ (Complete(p) \/ Recover(p))
    \/ /\ p \in Clicks
       /\ \/ Checked(p) \/ FollowUp(p) \/ Close(p) \/ Verdict(p)
AskStep(r) == LookedUp(r) \/ Insert(r) \/ PostCard(r) \/ RecordCard(r)
Timer(r) == \E c \in Clicks : Escalate(c, r)

Next ==
    \/ \E m \in Msgs : Arrive(m)
    \/ Stop
    \/ \E p \in Procs : HandlerStep(p)
    \/ \E p \in Procs, r \in Requests : Ask(p, r) \/ UseStart(p, r)
    \/ \E r \in Requests : AskStep(r) \/ Timer(r) \/ Ages(r) \/ Revoke(r)
    \/ \E c \in Clicks, r \in Requests, o \in Owners, yes \in BOOLEAN :
         Press(c, r, o, yes)
    \/ UseChecked
    \/ AskerLeaves
    \/ \E o \in Owners : Disconnect(o) \/ ConnectionRevoked(o)
    \/ \E c \in Clicks : LookupFails(c)
    \/ Evict

Spec == Init /\ [][Next]_vars

\* Fairness of what the end of a request needs: the awaits of a click or of
\* the timer's run are answered or time out, and the object's alarm fires.
\* People click, write and leave as they like, and a model need not answer.
FairSpec ==
    /\ Spec
    /\ \A c \in Clicks : WF_vars(HandlerStep(c))
    /\ \A r \in Requests : WF_vars(Timer(r) \/ Ages(r))

-----------------------------------------------------------------------------
(* What must hold *)

TypeOK ==
    /\ turn \in Row
    /\ active \in [rev : Nat, proc : Procs \cup {NoProc}]
    /\ aborted \subseteq Procs
    /\ inbox = [m \in Msgs |-> NoUpdate]
    /\ pc \in [Procs -> Labels]
    /\ ctl \in [Procs -> Nat]
    /\ want \in [Clicks -> [request : Requests \cup {NoRequest},
                            owner : Owners \cup {Nobody}, yes : BOOLEAN]]
    /\ seen \in [Clicks -> [member : BOOLEAN, shares : BOOLEAN]]
    /\ dropped \subseteq Procs
    /\ ask \in [Requests -> [at : AskLabels, by : Procs \cup {NoProc}, rev : Nat]]
    /\ lease \in [Requests -> Lease]
    /\ deliveries \in [Requests -> [Owners -> DeliveryStatus]]
    /\ member \in BOOLEAN
    /\ shares \in [Owners -> BOOLEAN]
    /\ told \subseteq Owners
    /\ use \in [lease : Requests \cup {NoRequest},
                seen : [member : BOOLEAN, shares : BOOLEAN]]
    /\ calls \in [Requests -> 0..MaxCalls]
    /\ failures \in 0..MaxFaults

\* The rows as the abstract grant sees them.
PhaseOf(r) == CASE lease[r].status = "none" -> "none"
                [] lease[r].status = "pending" -> "open"
                [] lease[r].status = "active" -> "granted"
                [] OTHER -> "over"
WillingTo(r) == {o \in Owners : /\ lease[r].status = "pending"
                                /\ deliveries[r][o] = "pending"}
Grant == INSTANCE AccessGrant WITH
    phase <- [r \in Requests |-> PhaseOf(r)],
    willing <- [r \in Requests |-> WillingTo(r)],
    lender <- [r \in Requests |-> lease[r].lender]

\* The rows of brain_lease implement the abstract grant: nobody lends without
\* having been asked, a decline is final, one owner lends, and what is over
\* stays over.
ImplementsGrant == Grant!Spec

\* The handlers that run the model for the turn of the thread.
Running == {p \in Procs : pc[p] = "compute" /\ p \notin aborted /\ ctl[p] = turn.rev
                          /\ IsCurrent(ctl[p])}

\* Granting a request while the run that asked for it is still going never
\* leaves two models working on one turn.  With two requests it may: a run that
\* posts its reply when one was granted and the other is open drops the
\* controller of the follow-up, and nobody can abort that any more.
OneRunner == TypeOK /\ Cardinality(Running \ dropped) <= 1

\* A connection is used only under a lease that is active and in its ten
\* minutes at the moment of the call, however long its check has waited; and
\* once its deletion has been announced nobody calls with it any more, also when
\* the owner's click was being decided meanwhile and the lease became active
\* after the announcement.
CallsUnderLease ==
    [][\A r \in Requests : calls'[r] > calls[r] =>
         /\ lease[r].status = "active" /\ ~lease[r].late
         /\ lease[r].lender \notin told]_vars

\* An answer that comes after the thread has moved on leaves no usable lease
\* behind.
NoGrantWithoutTurn ==
    [][\A r \in Requests :
         lease[r].status # "active" /\ lease'[r].status = "active" =>
             IsCurrent(lease[r].rev) /\ turn'.status = "running"]_vars

\* No request stays open for ever, whatever is evicted: the timer ends what
\* nobody answers.  And unless a lookup failed or the object was evicted, its
\* end also ends the turn's wait for the owners it had asked.  (When nobody
\* was asked it may not: the run is out of time, the turn waits, and only then
\* the card cannot be posted.)
Ended(r) ==
    /\ lease[r].status # "pending"
    /\ \/ turn.status # "waiting_approval"
       \/ failures > 0
       \/ \A o \in Owners : deliveries[r][o] = "none"
RequestEnds == \A r \in Requests : lease[r].status = "pending" ~> Ended(r)
=============================================================================
