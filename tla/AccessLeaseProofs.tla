------------------------- MODULE AccessLeaseProofs -------------------------
(***************************************************************************)
(* Access leases, for any requests, owners, messages, clicks, calls and    *)
(* faults: the rows of brain_lease implement AccessGrant, a connection is  *)
(* used only under a lease in force and never after its deletion was       *)
(* announced, a grant finds its turn, and it leaves one model on it.       *)
(*                                                                         *)
(* The invariant has three parts, of the state three groups of steps work  *)
(* on.  LeaseInv: the rows, their cards and the calls that asked; no row   *)
(* and no delivery is there before the call inserted it.  ControlInv: the  *)
(* turn and the handlers; a run that is current, not aborted and not       *)
(* dropped has the controller of the turn.  UseInv: the call being checked *)
(* and the world; what it has seen of a connection whose deletion was      *)
(* announced, it saw after that.                                           *)
(***************************************************************************)
EXTENDS AccessLease, FiniteSetTheorems, TLAPS

-----------------------------------------------------------------------------
(* The invariant *)

AskType == [at : AskLabels, by : Procs \cup {NoProc}, rev : Nat]
RowOK(r) ==
    /\ ask[r].at \in {"idle", "lookup", "owners"} => lease[r] = NoLease
    /\ ask[r].at \in {"idle", "lookup", "owners", "route"} =>
          \A o \in Owners : deliveries[r][o] = "none"
    /\ ask[r].at = "carded" => \A o \in Owners : deliveries[r][o] \in {"none", "posted"}
    /\ ask[r].at \in {"lookup", "owners"} => ask[r].rev # 0
    /\ lease[r].status = "none" => lease[r] = NoLease
    /\ lease[r].status # "none" => lease[r].rev # 0
    /\ lease[r].status = "active" => lease[r].lender \in Owners
LeaseInv ==
    /\ ask \in [Requests -> AskType]
    /\ lease \in [Requests -> Lease]
    /\ deliveries \in [Requests -> [Owners -> DeliveryStatus]]
    /\ \A r \in Requests : RowOK(r)

\* A run that nobody aborted has the controller of its turn, unless the reply
\* of another run dropped it.
RunnerOK ==
    \A p \in Procs :
       /\ ctl[p] <= turn.rev
       /\ pc[p] \in {"granted", "compute"} => ctl[p] # 0
       /\ pc[p] \in {"granted", "compute"} /\ IsCurrent(ctl[p]) /\ p \notin aborted \cup dropped =>
             active = [rev |-> turn.rev, proc |-> p]

ClickOK ==
    \A c \in Clicks :
       /\ pc[c] \in {"checking", "closing"} => want[c].request \in Requests
       /\ pc[c] = "checking" => want[c].owner \in Owners

WantType == [request : Requests \cup {NoRequest}, owner : Owners \cup {Nobody}, yes : BOOLEAN]
SeenType == [member : BOOLEAN, shares : BOOLEAN]
RowType ==
    /\ turn \in Row
    /\ active \in [rev : Nat, proc : Procs \cup {NoProc}]
    /\ aborted \subseteq Procs
    /\ active.rev # 0 => active.proc \in Procs
HandlerType ==
    /\ pc \in [Procs -> Labels]
    /\ ctl \in [Procs -> Nat]
    /\ want \in [Clicks -> WantType]
    /\ seen \in [Clicks -> SeenType]
    /\ dropped \subseteq Procs
ControlType == RowType /\ HandlerType /\ inbox = [m \in Msgs |-> NoUpdate]
ControlInv == ControlType /\ RunnerOK /\ ClickOK

UseOK ==
    /\ \A o \in told : ~shares[o]
    /\ use # NoUse =>
         /\ use.lease \in Requests /\ calls[use.lease] < MaxCalls
         /\ lease[use.lease].status \notin {"none", "pending"}
         /\ lease[use.lease].status = "active" /\ lease[use.lease].lender \in told =>
               ~use.seen.shares
UseInv ==
    /\ member \in BOOLEAN /\ shares \in [Owners -> BOOLEAN] /\ told \subseteq Owners
    /\ use \in [lease : Requests \cup {NoRequest}, seen : SeenType]
    /\ calls \in [Requests -> 0..MaxCalls] /\ failures \in 0..MaxFaults
    /\ IsFiniteSet({o \in Owners : ~shares[o]})
    /\ UseOK

Inv == LeaseInv /\ ControlInv /\ UseInv

\* What each step does to the rows: one that is over stays over and is not
\* granted again, and one that is granted has its turn.
Forward ==
    \A r \in Requests :
       lease[r].status \notin {"none", "pending"} =>
          /\ lease'[r].status \notin {"none", "pending"}
          /\ lease'[r].status = "active" =>
                lease[r].status = "active" /\ lease'[r].lender = lease[r].lender
Rightly ==
    \A r \in Requests :
       lease[r].status # "active" /\ lease'[r].status = "active" =>
           IsCurrent(lease[r].rev) /\ turn'.status = "running"
Implements == [Grant!Next]_(Grant!vars)
LeaseStep == LeaseInv' /\ Forward /\ Rightly /\ Implements

-----------------------------------------------------------------------------
(* The steps of AccessGrant, request by request *)

Same(r) == PhaseOf(r)' = PhaseOf(r) /\ WillingTo(r)' = WillingTo(r)
           /\ lease'[r].lender = lease[r].lender

LEMMA GrantStutters ==
  ASSUME \A r \in Requests : Same(r)
  PROVE  Implements
  <1>1. /\ [r \in Requests |-> PhaseOf(r)]' = [r \in Requests |-> PhaseOf(r)]
        /\ [r \in Requests |-> WillingTo(r)]' = [r \in Requests |-> WillingTo(r)]
        /\ [r \in Requests |-> lease[r].lender]' = [r \in Requests |-> lease[r].lender]
    BY DEF Same
  <1> QED BY <1>1 DEF Implements, Grant!vars

LEMMA GrantOpens ==
  ASSUME NEW r \in Requests, PhaseOf(r) = "none", PhaseOf(r)' \in {"open", "over"},
         WillingTo(r)' = WillingTo(r), lease'[r].lender = lease[r].lender,
         \A q \in Requests : q # r => Same(q)
  PROVE  Implements
  <1>1. /\ [q \in Requests |-> PhaseOf(q)]' =
              [[q \in Requests |-> PhaseOf(q)] EXCEPT ![r] = PhaseOf(r)']
        /\ [q \in Requests |-> WillingTo(q)]' = [q \in Requests |-> WillingTo(q)]
        /\ [q \in Requests |-> lease[q].lender]' = [q \in Requests |-> lease[q].lender]
        /\ [q \in Requests |-> PhaseOf(q)][r] = "none"
    BY DEF Same
  <1>2. Grant!Open(r) \/ Grant!Refuse(r) BY <1>1 DEF Grant!Open, Grant!Refuse
  <1> QED BY <1>2 DEF Implements, Grant!Next

LEMMA GrantInvites ==
  ASSUME NEW r \in Requests, PhaseOf(r) = "open", PhaseOf(r)' = "open",
         WillingTo(r) = {}, lease'[r].lender = lease[r].lender,
         \A q \in Requests : q # r => Same(q)
  PROVE  Implements
  <1>1. /\ [q \in Requests |-> PhaseOf(q)]' = [q \in Requests |-> PhaseOf(q)]
        /\ [q \in Requests |-> WillingTo(q)]' =
              [[q \in Requests |-> WillingTo(q)] EXCEPT ![r] = WillingTo(r)']
        /\ [q \in Requests |-> lease[q].lender]' = [q \in Requests |-> lease[q].lender]
        /\ [q \in Requests |-> PhaseOf(q)][r] = "open"
        /\ [q \in Requests |-> WillingTo(q)][r] = {}
    BY DEF Same
  <1>2. WillingTo(r)' \in SUBSET Owners BY DEF WillingTo
  <1>3. Grant!Invite(r, WillingTo(r)') BY <1>1 DEF Grant!Invite
  <1> QED BY <1>2, <1>3 DEF Implements, Grant!Next

LEMMA GrantWithdraws ==
  ASSUME NEW r \in Requests, NEW o \in Owners, PhaseOf(r) = "open", o \in WillingTo(r),
         PhaseOf(r)' = (IF WillingTo(r) = {o} THEN "over" ELSE "open"),
         WillingTo(r)' = WillingTo(r) \ {o}, lease'[r].lender = lease[r].lender,
         \A q \in Requests : q # r => Same(q)
  PROVE  Implements
  <1>1. /\ [q \in Requests |-> PhaseOf(q)]' =
              IF WillingTo(r) = {o}
              THEN [[q \in Requests |-> PhaseOf(q)] EXCEPT ![r] = "over"]
              ELSE [q \in Requests |-> PhaseOf(q)]
        /\ [q \in Requests |-> WillingTo(q)]' =
              [[q \in Requests |-> WillingTo(q)] EXCEPT ![r] = WillingTo(r) \ {o}]
        /\ [q \in Requests |-> lease[q].lender]' = [q \in Requests |-> lease[q].lender]
        /\ [q \in Requests |-> PhaseOf(q)][r] = "open"
        /\ [q \in Requests |-> WillingTo(q)][r] = WillingTo(r)
    BY DEF Same
  <1>2. Grant!Withdraw(r, o) BY <1>1 DEF Grant!Withdraw
  <1> QED BY <1>2 DEF Implements, Grant!Next

LEMMA GrantGrants ==
  ASSUME NEW r \in Requests, NEW o \in Owners, PhaseOf(r) = "open", o \in WillingTo(r),
         PhaseOf(r)' \in {"granted", "over"}, WillingTo(r)' = {}, lease'[r].lender = o,
         \A q \in Requests : q # r => Same(q)
  PROVE  Implements
  <1>1. /\ [q \in Requests |-> PhaseOf(q)]' =
              [[q \in Requests |-> PhaseOf(q)] EXCEPT ![r] = PhaseOf(r)']
        /\ [q \in Requests |-> WillingTo(q)]' =
              [[q \in Requests |-> WillingTo(q)] EXCEPT ![r] = {}]
        /\ [q \in Requests |-> lease[q].lender]' =
              [[q \in Requests |-> lease[q].lender] EXCEPT ![r] = o]
        /\ [q \in Requests |-> PhaseOf(q)][r] = "open"
        /\ [q \in Requests |-> WillingTo(q)][r] = WillingTo(r)
    BY DEF Same
  <1>2. Grant!Grant(r, o) \/ Grant!GrantTooLate(r, o)
    BY <1>1 DEF Grant!Grant, Grant!GrantTooLate
  <1> QED BY <1>2 DEF Implements, Grant!Next

LEMMA GrantEnds ==
  ASSUME NEW S \in SUBSET Requests,
         \A r \in S : /\ PhaseOf(r) \in {"open", "granted"} /\ PhaseOf(r)' = "over"
                      /\ WillingTo(r)' = {} /\ lease'[r].lender = lease[r].lender,
         \A r \in Requests \ S : Same(r)
  PROVE  Implements
  <1>1. /\ [q \in Requests |-> PhaseOf(q)]' =
              [q \in Requests |-> IF q \in S THEN "over"
                                  ELSE [p \in Requests |-> PhaseOf(p)][q]]
        /\ [q \in Requests |-> WillingTo(q)]' =
              [q \in Requests |-> IF q \in S THEN {}
                                  ELSE [p \in Requests |-> WillingTo(p)][q]]
        /\ [q \in Requests |-> lease[q].lender]' = [q \in Requests |-> lease[q].lender]
        /\ \A q \in S : [p \in Requests |-> PhaseOf(p)][q] \in {"open", "granted"}
    BY DEF Same
  <1>2. Grant!End(S) BY <1>1 DEF Grant!End
  <1> QED BY <1>2 DEF Implements, Grant!Next

-----------------------------------------------------------------------------
(* The rows, kind of step by kind of step *)

\* A request is pending or active.
Live(r) == lease[r].status \in {"pending", "active"}

\* The calls go on without inserting a row.
MovesOn(q) ==
    \/ ask'[q] = ask[q]
    \/ ask'[q].at = "over"
    \/ /\ ask[q].at \in {"idle", "lookup"}
       /\ ask'[q].at \in {"lookup", "owners"} /\ ask'[q].rev # 0
AsksMoveOn == ask' \in [Requests -> AskType] /\ \A q \in Requests : MovesOn(q)

LEMMA RowKept ==
  ASSUME NEW q \in Requests, RowOK(q), MovesOn(q), lease'[q] = lease[q],
         deliveries'[q] = deliveries[q]
  PROVE  RowOK(q)'
  BY DEF RowOK, MovesOn

LEMMA OtherRows ==
  ASSUME LeaseInv, NEW r \in Requests,
         \A q \in Requests : q # r => lease'[q] = lease[q] /\ deliveries'[q] = deliveries[q],
         \A q \in Requests : q # r => MovesOn(q),
         RowOK(r)'
  PROVE  \A q \in Requests : RowOK(q)'
  BY RowKept DEF LeaseInv

LEMMA QuietStep ==
  ASSUME LeaseInv, AsksMoveOn, UNCHANGED deliveries, lease' \in [Requests -> Lease],
         \A q \in Requests : \/ lease'[q] = lease[q]
                             \/ Live(q) /\ lease'[q] = [lease[q] EXCEPT !.late = TRUE]
  PROVE  LeaseStep
  <1>1. \A q \in Requests : lease[q] \in Lease BY DEF LeaseInv
  <1>2. \A q \in Requests : /\ lease'[q].status = lease[q].status
                            /\ lease'[q].rev = lease[q].rev
                            /\ lease'[q].lender = lease[q].lender
    BY <1>1 DEF Lease
  <1>3. \A q \in Requests : Same(q) BY <1>2 DEF Same, PhaseOf, WillingTo
  <1>4. Implements BY <1>3, GrantStutters
  <1>5. Forward /\ Rightly BY <1>2 DEF Forward, Rightly
  <1>6. \A q \in Requests : lease[q].status \in {"none"} => lease'[q] = lease[q]
    BY DEF Live
  <1>7. \A q \in Requests : lease[q] = NoLease => lease'[q] = lease[q]
    BY <1>6 DEF NoLease
  <1>8. \A q \in Requests : RowOK(q)'
    BY <1>2, <1>6, <1>7 DEF LeaseInv, AsksMoveOn, MovesOn, RowOK
  <1>9. LeaseInv' BY <1>8 DEF LeaseInv, AsksMoveOn
  <1> QED BY <1>4, <1>5, <1>9 DEF LeaseStep

\* Nothing of the rows changes.
LEMMA RowsStay ==
  ASSUME LeaseInv, AsksMoveOn, UNCHANGED <<lease, deliveries>>
  PROVE  LeaseStep
  BY QuietStep DEF LeaseInv

LEMMA LeasesStay ==
  ASSUME LeaseInv, UNCHANGED leaseVars
  PROVE  LeaseStep
  <1>1. AsksMoveOn BY DEF AsksMoveOn, MovesOn, LeaseInv, leaseVars
  <1> QED BY <1>1, RowsStay DEF leaseVars

Over == {"denied", "expired", "revoked", "cancelled", "error"}

LEMMA EndsRow ==
  ASSUME LeaseInv, NEW r \in Requests, NEW s \in Over, Live(r), lease' = SetStatus(r, s),
         UNCHANGED deliveries, AsksMoveOn
  PROVE  LeaseStep
  <1>1. lease \in [Requests -> Lease] /\ lease[r] \in Lease BY DEF LeaseInv
  <1>2. /\ lease' \in [Requests -> Lease]
        /\ \A q \in Requests : q # r => lease'[q] = lease[q]
        /\ lease'[r].status = s /\ lease'[r].rev = lease[r].rev
        /\ lease'[r].lender = lease[r].lender
    BY <1>1 DEF SetStatus, Lease, Over, LeaseStatus
  <1>3. PhaseOf(r) \in {"open", "granted"} /\ PhaseOf(r)' = "over" /\ WillingTo(r)' = {}
    BY <1>2 DEF PhaseOf, WillingTo, Live, Over
  <1>4. \A q \in Requests \ {r} : Same(q) BY <1>2 DEF Same, PhaseOf, WillingTo
  <1>5. Implements BY <1>2, <1>3, <1>4, GrantEnds, {r} \in SUBSET Requests
  <1>6. Forward /\ Rightly BY <1>2 DEF Forward, Rightly, Over
  <1>7. ask[r].at \notin {"idle", "lookup", "owners"} BY DEF LeaseInv, RowOK, Live, NoLease
  <1>8. ask'[r].at \notin {"idle", "lookup", "owners"}
    BY <1>7 DEF AsksMoveOn, MovesOn
  <1>9. RowOK(r)'
    BY <1>2, <1>7, <1>8 DEF LeaseInv, AsksMoveOn, MovesOn, RowOK, Over, Live
  <1>10. LeaseInv' BY <1>2, <1>9, OtherRows DEF LeaseInv, AsksMoveOn
  <1> QED BY <1>5, <1>6, <1>10 DEF LeaseStep

\* A row is inserted.
LEMMA InsertStep ==
  ASSUME LeaseInv, NEW r \in Requests, Insert(r)
  PROVE  LeaseStep
  <1>1. /\ ask \in [Requests -> AskType] /\ lease \in [Requests -> Lease]
        /\ ask[r].at = "owners" /\ ask[r].rev \in Nat \ {0} /\ lease[r] = NoLease
        /\ UNCHANGED deliveries /\ \A o \in Owners : deliveries[r][o] = "none"
    BY DEF LeaseInv, RowOK, Insert, AskType
  <1>2. CASE AskAt(r, "over") /\ UNCHANGED lease
    <2>1. AsksMoveOn BY <1>1, <1>2 DEF AskAt, AsksMoveOn, MovesOn, AskType, AskLabels
    <2> QED BY <1>1, <1>2, <2>1, RowsStay
  <1>3. ASSUME NEW row \in Lease, row.status \in {"error", "pending"},
               row.rev = ask[r].rev, row.lender = Nobody, NEW label \in {"over", "route"},
               lease' = [lease EXCEPT ![r] = row], AskAt(r, label)
        PROVE  LeaseStep
    <2>1. /\ lease' \in [Requests -> Lease] /\ lease'[r] = row
          /\ \A q \in Requests : q # r => lease'[q] = lease[q]
      BY <1>1, <1>3
    <2>2. /\ ask' \in [Requests -> AskType] /\ ask'[r].at = label
          /\ \A q \in Requests : q # r => ask'[q] = ask[q]
      BY <1>1, <1>3 DEF AskAt, AskType, AskLabels
    <2>3. lease[r].status = "none" /\ lease'[r].lender = lease[r].lender
      BY <1>1, <1>3, <2>1 DEF NoLease
    <2>4. PhaseOf(r) = "none" /\ PhaseOf(r)' \in {"open", "over"} /\ WillingTo(r)' = WillingTo(r)
      BY <1>1, <1>3, <2>1, <2>3 DEF PhaseOf, WillingTo
    <2>5. \A q \in Requests : q # r => Same(q)
      BY <1>1, <2>1 DEF Same, PhaseOf, WillingTo
    <2>6. Implements BY <2>3, <2>4, <2>5, GrantOpens
    <2>7. Forward /\ Rightly BY <1>3, <2>1, <2>3 DEF Forward, Rightly
    <2>8. RowOK(r)' BY <1>1, <1>3, <2>1, <2>2 DEF RowOK
    <2>9. \A q \in Requests : q # r => MovesOn(q) BY <2>2 DEF MovesOn
    <2>10. LeaseInv' BY <1>1, <2>1, <2>2, <2>8, <2>9, OtherRows DEF LeaseInv
    <2> QED BY <2>6, <2>7, <2>10 DEF LeaseStep
  <1>4. NoLease \in [status : {"none"}, rev : {0}, lender : {Nobody}, late : {FALSE},
                     armed : {FALSE}]
    BY DEF NoLease
  <1>5. LET row == [NoLease EXCEPT !.status = "error", !.rev = ask[r].rev]
        IN  row \in Lease /\ row.status = "error" /\ row.rev = ask[r].rev /\ row.lender = Nobody
    BY <1>1, <1>4 DEF Lease, LeaseStatus
  <1>6. LET row == [NoLease EXCEPT !.status = "pending", !.rev = ask[r].rev, !.armed = TRUE]
        IN  row \in Lease /\ row.status = "pending" /\ row.rev = ask[r].rev /\ row.lender = Nobody
    BY <1>1, <1>4 DEF Lease, LeaseStatus
  <1> QED BY <1>2, <1>3, <1>5, <1>6 DEF Insert

\* The card is posted, or it cannot be.
LEMMA PostCardStep ==
  ASSUME LeaseInv, NEW r \in Requests, PostCard(r)
  PROVE  LeaseStep
  <1>1. /\ ask \in [Requests -> AskType] /\ lease \in [Requests -> Lease]
        /\ ask[r].at = "route" /\ \A o \in Owners : deliveries[r][o] = "none"
        /\ deliveries \in [Requests -> [Owners -> DeliveryStatus]]
    BY DEF LeaseInv, RowOK, PostCard
  <1>2. CASE /\ TerminalIfPending(r, "error") /\ AskAt(r, "over") /\ UNCHANGED deliveries
    <2>1. AsksMoveOn BY <1>1, <1>2 DEF AskAt, AsksMoveOn, MovesOn, AskType, AskLabels
    <2>2. CASE lease[r].status = "pending"
      <3>1. lease' = SetStatus(r, "error") BY <1>2, <2>2 DEF TerminalIfPending
      <3> QED BY <1>2, <2>1, <2>2, <3>1, EndsRow DEF Live, Over
    <2>3. CASE lease[r].status # "pending"
      BY <1>2, <2>1, <2>3, RowsStay DEF TerminalIfPending
    <2> QED BY <2>2, <2>3
  <1>3. ASSUME NEW asked \in SUBSET Owners,
               deliveries' = [deliveries EXCEPT ![r] =
                 [o \in Owners |-> IF o \in asked THEN "posted" ELSE "none"]],
               AskAt(r, "carded"), UNCHANGED lease
        PROVE  LeaseStep
    <2>1. /\ deliveries' \in [Requests -> [Owners -> DeliveryStatus]]
          /\ \A q \in Requests : q # r => deliveries'[q] = deliveries[q]
          /\ \A o \in Owners : deliveries'[r][o] \in {"none", "posted"}
      BY <1>1, <1>3 DEF DeliveryStatus
    <2>2. /\ ask' \in [Requests -> AskType] /\ ask'[r].at = "carded"
          /\ \A q \in Requests : q # r => ask'[q] = ask[q]
      BY <1>1, <1>3 DEF AskAt, AskType, AskLabels
    <2>3. Same(r)
      BY <1>1, <1>3, <2>1 DEF Same, PhaseOf, WillingTo
    <2>4. \A q \in Requests : q # r => Same(q)
      BY <1>3, <2>1 DEF Same, PhaseOf, WillingTo
    <2>5. Implements BY <2>3, <2>4, GrantStutters
    <2>6. Forward /\ Rightly BY <1>3 DEF Forward, Rightly
    <2>7. RowOK(r)' BY <1>1, <1>3, <2>1, <2>2 DEF RowOK, LeaseInv
    <2>8. \A q \in Requests : q # r => MovesOn(q) BY <2>2 DEF MovesOn
    <2>9. LeaseInv' BY <1>1, <1>3, <2>1, <2>2, <2>7, <2>8, OtherRows DEF LeaseInv
    <2> QED BY <2>5, <2>6, <2>9 DEF LeaseStep
  <1>4. {o \in Owners : shares[o]} \subseteq Owners OBVIOUS
  <1> QED BY <1>2, <1>3, <1>4 DEF PostCard

\* The owners on the card may decide, if the request is still pending.
LEMMA RecordCardStep ==
  ASSUME LeaseInv, NEW r \in Requests, RecordCard(r)
  PROVE  LeaseStep
  <1>1. /\ ask \in [Requests -> AskType] /\ lease \in [Requests -> Lease]
        /\ ask[r].at = "carded" /\ \A o \in Owners : deliveries[r][o] \in {"none", "posted"}
        /\ deliveries \in [Requests -> [Owners -> DeliveryStatus]]
        /\ UNCHANGED lease
    BY DEF LeaseInv, RowOK, RecordCard
  <1>2. /\ deliveries' \in [Requests -> [Owners -> DeliveryStatus]]
        /\ \A q \in Requests : q # r => deliveries'[q] = deliveries[q]
        /\ \A o \in Owners : deliveries'[r][o] = "pending" => lease[r].status = "pending"
    BY <1>1 DEF RecordCard, DeliveryStatus
  <1>3. /\ ask' \in [Requests -> AskType] /\ ask'[r].at = "over"
        /\ \A q \in Requests : q # r => ask'[q] = ask[q]
    BY <1>1 DEF RecordCard, AskAt, AskType, AskLabels
  <1>4. WillingTo(r) = {} BY <1>1 DEF WillingTo
  <1>5. \A q \in Requests : q # r => Same(q)
    BY <1>1, <1>2 DEF Same, PhaseOf, WillingTo
  <1>6. PhaseOf(r)' = PhaseOf(r) /\ lease'[r].lender = lease[r].lender
    BY <1>1 DEF PhaseOf
  <1>7. Implements
    <2>1. CASE lease[r].status = "pending"
      <3>1. PhaseOf(r) = "open" BY <2>1 DEF PhaseOf
      <3> QED BY <1>4, <1>5, <1>6, <3>1, GrantInvites
    <2>2. CASE lease[r].status # "pending"
      <3>1. WillingTo(r)' = {} BY <1>1, <2>2 DEF WillingTo
      <3>2. \A q \in Requests : Same(q) BY <1>4, <1>5, <1>6, <3>1 DEF Same
      <3> QED BY <3>2, GrantStutters
    <2> QED BY <2>1, <2>2
  <1>8. Forward /\ Rightly BY <1>1 DEF Forward, Rightly
  <1>9. RowOK(r)' BY <1>1, <1>2, <1>3 DEF RowOK, LeaseInv
  <1>10. \A q \in Requests : q # r => MovesOn(q) BY <1>3 DEF MovesOn
  <1>11. LeaseInv' BY <1>1, <1>2, <1>3, <1>9, <1>10, OtherRows DEF LeaseInv
  <1> QED BY <1>7, <1>8, <1>11 DEF LeaseStep

\* The delivery of owner o is pending: the calls are past the card.
LEMMA OpenRow ==
  ASSUME LeaseInv, NEW r \in Requests, NEW o \in Owners, deliveries[r][o] = "pending",
         lease[r].status = "pending"
  PROVE  /\ ask[r].at \in {"idle", "over"} => ask[r].at = "over"
         /\ ask[r].at \notin {"idle", "lookup", "owners", "route", "carded"}
         /\ lease[r] \in Lease /\ lease[r].rev # 0
         /\ o \in WillingTo(r) /\ PhaseOf(r) = "open"
  BY DEF LeaseInv, RowOK, WillingTo, PhaseOf

\* An owner's delivery is taken out; the last one ends the request.
LEMMA WithdrawStep ==
  ASSUME LeaseInv, NEW c, NEW r \in Requests, NEW o \in Owners,
         NEW status \in {"declined", "invalidated"}, lease[r].status = "pending",
         deliveries[r][o] = "pending", Withdraw(c, r, o, status), UNCHANGED ask
  PROVE  LeaseStep
  <1> DEFINE state == Without(r, o, status)
  <1>1. /\ ask[r].at \notin {"idle", "lookup", "owners", "route", "carded"}
        /\ lease[r] \in Lease /\ lease[r].rev # 0
        /\ o \in WillingTo(r) /\ PhaseOf(r) = "open"
    BY OpenRow
  <1>2. /\ lease \in [Requests -> Lease]
        /\ deliveries \in [Requests -> [Owners -> DeliveryStatus]]
    BY DEF LeaseInv
  <1>3. /\ state \in [Owners -> DeliveryStatus] /\ state[o] = status
        /\ \A p \in Owners : p # o => state[p] = deliveries[r][p]
    BY <1>2 DEF Without, DeliveryStatus
  <1> HIDE DEF state
  <1>4. /\ deliveries' \in [Requests -> [Owners -> DeliveryStatus]] /\ deliveries'[r] = state
        /\ \A q \in Requests : q # r => deliveries'[q] = deliveries[q]
    BY <1>2, <1>3 DEF Withdraw, state
  <1>5. \/ StillAsked(state) /\ UNCHANGED lease
        \/ /\ ~StillAsked(state)
           /\ \E s \in {"denied", "error"} : lease' = SetStatus(r, s)
    BY DEF Withdraw, state
  <1>6. /\ lease' \in [Requests -> Lease]
        /\ \A q \in Requests : q # r => lease'[q] = lease[q]
        /\ lease'[r].lender = lease[r].lender /\ lease'[r].rev = lease[r].rev
        /\ IF StillAsked(state) THEN lease'[r].status = "pending"
           ELSE lease'[r].status \in {"denied", "error"}
    BY <1>1, <1>2, <1>5 DEF SetStatus, Lease, LeaseStatus
  <1>7. WillingTo(r) = {p \in Owners : deliveries[r][p] = "pending"}
    BY DEF WillingTo
  <1>8. StillAsked(state) <=> WillingTo(r) # {o}
    BY <1>1, <1>3, <1>7 DEF StillAsked
  <1>9. WillingTo(r)' = WillingTo(r) \ {o}
    <2>1. CASE StillAsked(state)
      <3>1. WillingTo(r)' = {p \in Owners : state[p] = "pending"}
        BY <1>4, <1>6, <2>1 DEF WillingTo
      <3> QED BY <1>3, <1>7, <3>1
    <2>2. CASE ~StillAsked(state)
      <3>1. WillingTo(r)' = {} BY <1>6, <2>2 DEF WillingTo
      <3> QED BY <1>8, <2>2, <3>1
    <2> QED BY <2>1, <2>2
  <1>10. PhaseOf(r)' = (IF WillingTo(r) = {o} THEN "over" ELSE "open")
    BY <1>6, <1>8 DEF PhaseOf
  <1>11. \A q \in Requests : q # r => Same(q)
    BY <1>4, <1>6 DEF Same, PhaseOf, WillingTo
  <1>12. Implements BY <1>1, <1>6, <1>9, <1>10, <1>11, GrantWithdraws
  <1>13. Forward /\ Rightly BY <1>6 DEF Forward, Rightly
  <1>14. RowOK(r)' BY <1>1, <1>6 DEF RowOK
  <1>15. \A q \in Requests : q # r => MovesOn(q) BY DEF MovesOn
  <1>16. LeaseInv' BY <1>4, <1>6, <1>14, <1>15, OtherRows DEF LeaseInv
  <1> QED BY <1>12, <1>13, <1>16 DEF LeaseStep

\* An owner's yes: the lease is active when its turn is current, and that
\* turn is resumed.
LEMMA ActivateStep ==
  ASSUME LeaseInv, NEW r \in Requests, NEW o \in Owners, lease[r].status = "pending",
         deliveries[r][o] = "pending", Activate(r, o), UNCHANGED ask,
         IsCurrent(lease[r].rev) => turn'.status = "running"
  PROVE  LeaseStep
  <1>1. /\ ask[r].at \notin {"idle", "lookup", "owners", "route", "carded"}
        /\ lease[r] \in Lease /\ lease[r].rev # 0
        /\ o \in WillingTo(r) /\ PhaseOf(r) = "open"
    BY OpenRow
  <1>2. /\ lease \in [Requests -> Lease]
        /\ deliveries \in [Requests -> [Owners -> DeliveryStatus]]
    BY DEF LeaseInv
  <1>3. /\ deliveries' \in [Requests -> [Owners -> DeliveryStatus]]
        /\ \A q \in Requests : q # r => deliveries'[q] = deliveries[q]
    <2>1. [p \in Owners |-> CASE p = o -> "approved"
                             [] p # o /\ deliveries[r][p] = "pending" -> "invalidated"
                             [] OTHER -> deliveries[r][p]] \in [Owners -> DeliveryStatus]
      BY <1>2 DEF DeliveryStatus
    <2> QED BY <1>2, <2>1 DEF Activate
  <1>4. /\ lease' \in [Requests -> Lease]
        /\ \A q \in Requests : q # r => lease'[q] = lease[q]
        /\ lease'[r].lender = o /\ lease'[r].rev = lease[r].rev
        /\ lease'[r].status = IF IsCurrent(lease[r].rev) THEN "active" ELSE "revoked"
    BY <1>1, <1>2 DEF Activate, Lease, LeaseStatus
  <1>5. PhaseOf(r)' \in {"granted", "over"} /\ WillingTo(r)' = {}
    BY <1>4 DEF PhaseOf, WillingTo
  <1>6. \A q \in Requests : q # r => Same(q)
    BY <1>3, <1>4 DEF Same, PhaseOf, WillingTo
  <1>7. Implements BY <1>1, <1>4, <1>5, <1>6, GrantGrants
  <1>8. Forward /\ Rightly BY <1>4 DEF Forward, Rightly
  <1>9. RowOK(r)' BY <1>1, <1>4 DEF RowOK
  <1>10. \A q \in Requests : q # r => MovesOn(q) BY DEF MovesOn
  <1>11. LeaseInv' BY <1>3, <1>4, <1>9, <1>10, OtherRows DEF LeaseInv
  <1> QED BY <1>7, <1>8, <1>11 DEF LeaseStep

\* The connection of owner o is gone: what it lends ends.
LEMMA RevokedStep ==
  ASSUME LeaseInv, NEW o \in Owners, ConnectionRevoked(o)
  PROVE  LeaseStep /\ \A q \in Requests : lease'[q].status = "active" => lease'[q].lender # o
  <1> DEFINE S == {q \in Requests : lease[q].lender = o /\ lease[q].status = "active"}
  <1>1. /\ lease \in [Requests -> Lease] /\ UNCHANGED <<ask, deliveries>>
        /\ \A q \in Requests : lease'[q] = IF q \in S
             THEN [lease[q] EXCEPT !.status = "revoked", !.late = FALSE] ELSE lease[q]
        /\ lease' = [q \in Requests |-> lease'[q]]
    BY DEF LeaseInv, ConnectionRevoked
  <1>2. \A q \in S : /\ lease[q].status = "active" /\ lease'[q] \in Lease
                     /\ lease'[q].status = "revoked"
                     /\ lease'[q].rev = lease[q].rev /\ lease'[q].lender = lease[q].lender
    BY <1>1 DEF Lease, LeaseStatus
  <1>3. \A q \in Requests \ S :
           lease'[q] = lease[q] /\ ~(lease[q].lender = o /\ lease[q].status = "active")
    BY <1>1
  <1>4. S \in SUBSET Requests OBVIOUS
  <1> HIDE DEF S
  <1>5. lease' \in [Requests -> Lease]
    <2>1. \A q \in Requests : lease'[q] \in Lease BY <1>1, <1>2, <1>3
    <2> QED BY <1>1, <2>1
  <1>6. \A q \in S : PhaseOf(q) \in {"open", "granted"} /\ PhaseOf(q)' = "over"
                     /\ WillingTo(q)' = {}
    BY <1>2 DEF PhaseOf, WillingTo
  <1>7. \A q \in Requests \ S : Same(q) BY <1>1, <1>3 DEF Same, PhaseOf, WillingTo
  <1>8. Implements BY <1>2, <1>4, <1>6, <1>7, GrantEnds
  <1>9. Forward /\ Rightly BY <1>2, <1>3, <1>4 DEF Forward, Rightly
  <1>10. \A q \in S : RowOK(q)'
    <2> SUFFICES ASSUME NEW q \in S PROVE RowOK(q)' OBVIOUS
    <2>1. q \in Requests /\ RowOK(q) /\ lease[q].status = "active" BY <1>2, <1>4 DEF LeaseInv
    <2>2. ask[q].at \notin {"idle", "lookup", "owners"} BY <2>1 DEF RowOK, NoLease
    <2>3. lease'[q].status = "revoked" /\ lease'[q].rev # 0 BY <1>2, <2>1 DEF RowOK
    <2> QED BY <1>1, <2>1, <2>2, <2>3 DEF RowOK
  <1>11. \A q \in Requests \ S : RowOK(q)' BY <1>1, <1>3 DEF RowOK, LeaseInv
  <1>12. LeaseInv' BY <1>1, <1>5, <1>10, <1>11 DEF LeaseInv
  <1>13. \A q \in Requests : lease'[q].status = "active" => lease'[q].lender # o
    BY <1>2, <1>3
  <1> QED BY <1>8, <1>9, <1>12, <1>13 DEF LeaseStep

-----------------------------------------------------------------------------
(* The rows, action by action *)

\* A call of the thread that is not the tool's own leaves the asks alone.
LEMMA AskStays == ASSUME LeaseInv, UNCHANGED ask PROVE AsksMoveOn
  BY DEF AsksMoveOn, MovesOn, LeaseInv

LEMMA StampedRow ==
  ASSUME NEW row \in Row, NEW status \in TurnStatus
  PROVE  /\ Stamped(row, status) \in Row /\ Stamped(row, status).status = status
         /\ Stamped(row, status).rev = row.rev
  BY DEF Stamped, Row

LEMMA PressRows ==
  ASSUME LeaseInv, NEW c \in Clicks, NEW r \in Requests, NEW o \in Owners,
         NEW yes \in BOOLEAN, Press(c, r, o, yes)
  PROVE  LeaseStep
  <1>1. AsksMoveOn /\ UNCHANGED deliveries BY AskStays DEF Press
  <1>2. CASE UNCHANGED lease BY <1>1, <1>2, RowsStay
  <1>3. ASSUME NEW s \in Over, lease[r].status = "pending", lease' = SetStatus(r, s)
        PROVE  LeaseStep
    BY <1>1, <1>3, EndsRow DEF Live
  <1> QED BY <1>2, <1>3 DEF Press, Superseded, Over

LEMMA CheckedRows ==
  ASSUME LeaseInv, ControlInv, NEW c \in Clicks, Checked(c)
  PROVE  LeaseStep
  <1> DEFINE r == want[c].request
             o == want[c].owner
  <1>1. r \in Requests /\ o \in Owners BY DEF Checked, ControlInv, ClickOK
  <1>2. AsksMoveOn /\ UNCHANGED ask BY AskStays DEF Checked
  <1>3. CASE UNCHANGED <<lease, deliveries>> BY <1>2, <1>3, RowsStay
  <1>4. CASE lease[r].status = "pending" /\ lease' = SetStatus(r, "cancelled")
             /\ UNCHANGED deliveries
    BY <1>1, <1>2, <1>4, EndsRow DEF Live, Over
  <1>5. ASSUME lease[r].status = "pending", deliveries[r][o] = "pending",
               NEW status \in {"declined", "invalidated"}, Withdraw(c, r, o, status)
        PROVE  LeaseStep
    BY <1>1, <1>2, <1>5, WithdrawStep
  <1>6. ASSUME lease[r].status = "pending", deliveries[r][o] = "pending", Activate(r, o),
               IsCurrent(lease[r].rev) => ResumeTurn(c)
        PROVE  LeaseStep
    <2>1. IsCurrent(lease[r].rev) => turn'.status = "running"
      BY <1>6, StampedRow DEF ResumeTurn, ControlInv, ControlType, RowType, TurnStatus
    <2> QED BY <1>1, <1>2, <1>6, <2>1, ActivateStep
  <1> QED BY <1>3, <1>4, <1>5, <1>6 DEF Checked

LEMMA EscalateRows ==
  ASSUME LeaseInv, NEW c \in Clicks, NEW r \in Requests, Escalate(c, r)
  PROVE  LeaseStep
  <1>1. AsksMoveOn /\ UNCHANGED deliveries BY AskStays DEF Escalate
  <1>2. lease[r].status = "pending" /\ \E s \in Over : lease' = SetStatus(r, s)
    BY DEF Escalate, Superseded, Over
  <1> QED BY <1>1, <1>2, EndsRow DEF Live

LEMMA UseStartRows ==
  ASSUME LeaseInv, NEW p \in Procs, NEW r \in Requests, UseStart(p, r)
  PROVE  LeaseStep
  <1>1. AsksMoveOn /\ UNCHANGED deliveries BY AskStays DEF UseStart
  <1>2. CASE UNCHANGED lease BY <1>1, <1>2, RowsStay
  <1>3. CASE lease' = SetStatus(r, "expired")
    BY <1>1, <1>3, EndsRow DEF UseStart, Live, Over
  <1> QED BY <1>2, <1>3 DEF UseStart

LEMMA UseCheckedRows ==
  ASSUME LeaseInv, UseOK, UseChecked
  PROVE  LeaseStep
  <1>1. AsksMoveOn /\ UNCHANGED deliveries BY AskStays DEF UseChecked
  <1>2. use.lease \in Requests BY DEF UseOK, UseChecked
  <1>3. CASE UNCHANGED lease BY <1>1, <1>3, RowsStay
  <1>4. ASSUME NEW s \in Over, lease[use.lease].status = "active",
               lease' = SetStatus(use.lease, s)
        PROVE  LeaseStep
    BY <1>1, <1>2, <1>4, EndsRow DEF Live
  <1> QED BY <1>3, <1>4 DEF UseChecked, Over

LEMMA AskRows ==
  ASSUME LeaseInv, ControlInv, NEW p \in Procs, NEW r \in Requests, Ask(p, r)
  PROVE  LeaseStep
  <1>1. ctl[p] \in Nat \ {0} BY DEF Ask, ControlInv, ControlType, HandlerType, RunnerOK
  <1>2. /\ ask' \in [Requests -> AskType] /\ \A q \in Requests : q # r => ask'[q] = ask[q]
        /\ ask'[r].at = "lookup" /\ ask'[r].rev # 0
    BY <1>1 DEF Ask, LeaseInv, AskType, AskLabels
  <1>3. AsksMoveOn BY <1>2 DEF AsksMoveOn, MovesOn, Ask
  <1> QED BY <1>3, RowsStay DEF Ask

LEMMA LookedUpRows ==
  ASSUME LeaseInv, NEW r \in Requests, LookedUp(r)
  PROVE  LeaseStep
  <1>1. ask[r].rev # 0 /\ ask[r] \in AskType /\ ask \in [Requests -> AskType]
    BY DEF LookedUp, LeaseInv, RowOK
  <1>2. ASSUME NEW label \in {"over", "owners"}, AskAt(r, label)
        PROVE  /\ ask' \in [Requests -> AskType] /\ ask'[r].at = label /\ ask'[r].rev # 0
               /\ \A q \in Requests : q # r => ask'[q] = ask[q]
    BY <1>1, <1>2 DEF AskAt, AskType, AskLabels
  <1>3. AsksMoveOn BY <1>1, <1>2 DEF AsksMoveOn, MovesOn, LookedUp
  <1> QED BY <1>3, RowsStay DEF LookedUp

LEMMA AgesRows ==
  ASSUME LeaseInv, NEW r \in Requests, Ages(r)
  PROVE  LeaseStep
  <1>1. AsksMoveOn /\ UNCHANGED deliveries BY AskStays DEF Ages
  <1>2. lease \in [Requests -> Lease] /\ Live(r) BY DEF Ages, Live, LeaseInv
  <1>3. [lease[r] EXCEPT !.late = TRUE] \in Lease BY <1>2 DEF Lease
  <1>4. /\ lease' \in [Requests -> Lease] /\ lease'[r] = [lease[r] EXCEPT !.late = TRUE]
        /\ \A q \in Requests : q # r => lease'[q] = lease[q]
    BY <1>2, <1>3 DEF Ages
  <1> QED BY <1>1, <1>2, <1>4, QuietStep

LEMMA EvictRows ==
  ASSUME LeaseInv, Evict
  PROVE  LeaseStep
  <1>1. \A r \in Requests : ask'[r] \in AskType /\ MovesOn(r)
    BY DEF Evict, LeaseInv, AskType, AskLabels, MovesOn
  <1>2. AsksMoveOn BY <1>1 DEF AsksMoveOn, Evict
  <1> QED BY <1>2, RowsStay DEF Evict

LEMMA LeaseSteps ==
  ASSUME Inv, [Next]_vars
  PROVE  LeaseStep
  <1> USE DEF Inv
  <1>1. ASSUME UNCHANGED leaseVars PROVE LeaseStep BY <1>1, LeasesStay
  <1>2. CASE Stop \/ \E m \in Msgs : Arrive(m) BY <1>1, <1>2 DEF Stop, Arrive
  <1>3. ASSUME NEW p \in Procs, HandlerStep(p) PROVE LeaseStep
    <2>1. CASE Conclude(p) \/ FailRun(p) \/ Abandon(p) \/ Settle(p)
      BY <1>1, <2>1 DEF Conclude, FailRun, Abandon, Settle
    <2>2. CASE Complete(p) \/ Recover(p) BY <1>1, <2>2 DEF Complete, Recover
    <2>3. CASE p \in Clicks /\ Checked(p) BY <2>3, CheckedRows
    <2>4. CASE FollowUp(p) \/ Close(p) \/ Verdict(p)
      BY <1>1, <2>4 DEF FollowUp, Close, Verdict
    <2> QED BY <1>3, <2>1, <2>2, <2>3, <2>4 DEF HandlerStep
  <1>4. ASSUME NEW p \in Procs, NEW r \in Requests, Ask(p, r) \/ UseStart(p, r)
        PROVE  LeaseStep
    BY <1>4, AskRows, UseStartRows
  <1>5. ASSUME NEW r \in Requests, AskStep(r) \/ Timer(r) \/ Ages(r) \/ Revoke(r)
        PROVE  LeaseStep
    <2>1. CASE AskStep(r)
      BY <2>1, LookedUpRows, InsertStep, PostCardStep, RecordCardStep DEF AskStep
    <2>2. CASE Timer(r) BY <2>2, EscalateRows DEF Timer
    <2>3. CASE Ages(r) BY <2>3, AgesRows
    <2>4. CASE Revoke(r)
      <3>1. AsksMoveOn BY <2>4, AskStays DEF Revoke
      <3> QED BY <2>4, <3>1, EndsRow DEF Revoke, Live, Over
    <2> QED BY <1>5, <2>1, <2>2, <2>3, <2>4
  <1>6. ASSUME NEW c \in Clicks, NEW r \in Requests, NEW o \in Owners, NEW yes \in BOOLEAN,
               Press(c, r, o, yes)
        PROVE  LeaseStep
    BY <1>6, PressRows
  <1>7. CASE UseChecked BY <1>7, UseCheckedRows DEF UseInv
  <1>8. CASE AskerLeaves BY <1>1, <1>8 DEF AskerLeaves
  <1>9. ASSUME NEW o \in Owners, Disconnect(o) \/ ConnectionRevoked(o) PROVE LeaseStep
    BY <1>1, <1>9, RevokedStep DEF Disconnect
  <1>10. ASSUME NEW c \in Clicks, LookupFails(c) PROVE LeaseStep
    BY <1>1, <1>10 DEF LookupFails
  <1>11. CASE Evict BY <1>11, EvictRows
  <1>12. CASE UNCHANGED vars BY <1>1, <1>12 DEF vars
  <1> QED BY <1>2, <1>3, <1>4, <1>5, <1>6, <1>7, <1>8, <1>9, <1>10, <1>11, <1>12 DEF Next

-----------------------------------------------------------------------------
(* The turn and the handlers *)

AtModel == {"granted", "compute"}

\* The turn ends, or keeps its controller.
RowCalm ==
    /\ turn'.rev = turn.rev
    /\ aborted \subseteq aborted'
    /\ turn'.status \notin Terminal => active' = active /\ turn.status \notin Terminal

\* The handlers of S leave the model; nobody else enters it.
HandlersMove(S) ==
    /\ HandlerType' /\ ClickOK'
    /\ dropped \ S \subseteq dropped'
    /\ \A p \in Procs :
          IF p \in S THEN pc'[p] \notin AtModel /\ ctl'[p] \in {0, ctl[p]}
          ELSE ctl'[p] = ctl[p] /\ (pc'[p] \in AtModel => pc[p] \in AtModel)

LEMMA CalmStep ==
  ASSUME ControlInv, NEW S, RowCalm, RowType', HandlersMove(S), UNCHANGED inbox
  PROVE  ControlInv'
  <1>1. ControlType' BY DEF ControlInv, ControlType, HandlersMove
  <1>2. turn'.rev \in Nat /\ turn'.rev = turn.rev BY DEF RowType, Row, RowCalm
  <1>3. ASSUME NEW p \in Procs
        PROVE  /\ ctl'[p] <= turn'.rev
               /\ pc'[p] \in AtModel => ctl'[p] # 0
    BY <1>2, <1>3 DEF HandlersMove, ControlInv, RunnerOK, AtModel
  <1>4. ASSUME NEW p \in Procs, pc'[p] \in AtModel, IsCurrent(ctl[p])',
               p \notin (aborted \cup dropped)'
        PROVE  active' = [rev |-> turn'.rev, proc |-> p]
    <2>1. p \notin S /\ pc[p] \in AtModel /\ ctl'[p] = ctl[p] BY <1>4 DEF HandlersMove
    <2>2. p \notin aborted \cup dropped BY <1>4, <2>1 DEF HandlersMove, RowCalm
    <2>3. IsCurrent(ctl[p]) /\ active' = active BY <1>4, <2>1 DEF IsCurrent, RowCalm
    <2> QED BY <1>2, <2>1, <2>2, <2>3 DEF ControlInv, RunnerOK, AtModel
  <1>5. RunnerOK' BY <1>3, <1>4 DEF RunnerOK, AtModel
  <1> QED BY <1>1, <1>5 DEF ControlInv, HandlersMove

\* p gets the turn: it is a new one, or the former controller is aborted.
LEMMA TakesOver ==
  ASSUME ControlInv, NEW p \in Procs, turn' \in Row, SetActive(turn'.rev, p),
         pc'[p] \in AtModel => turn'.rev # 0,
         \/ turn'.rev = turn.rev + 1
         \/ turn'.rev = turn.rev /\ turn.status \notin Terminal,
         HandlerType', ClickOK', UNCHANGED <<inbox, dropped>>, ctl'[p] = turn'.rev,
         \A q \in Procs : q # p => pc'[q] = pc[q] /\ ctl'[q] = ctl[q]
  PROVE  ControlInv'
  <1>1. /\ turn.rev \in Nat /\ turn'.rev \in Nat /\ aborted \subseteq Procs
        /\ active.rev # 0 => active.proc \in Procs
    BY DEF ControlInv, ControlType, RowType, Row
  <1>2. RowType' BY <1>1 DEF SetActive, RowType
  <1>3. ControlType' BY <1>2 DEF ControlInv, ControlType
  <1>4. \A q \in Procs : ctl[q] \in Nat /\ ctl[q] <= turn.rev
    BY DEF ControlInv, ControlType, HandlerType, RunnerOK
  <1>5. ASSUME NEW q \in Procs
        PROVE  /\ ctl'[q] <= turn'.rev
               /\ pc'[q] \in AtModel => ctl'[q] # 0
    BY <1>1, <1>4, <1>5 DEF ControlInv, RunnerOK, AtModel
  <1>6. ASSUME NEW q \in Procs, pc'[q] \in AtModel, IsCurrent(ctl[q])',
               q \notin (aborted \cup dropped)', q # p
        PROVE  FALSE
    <2>1. pc[q] \in AtModel /\ ctl[q] = turn'.rev /\ ctl[q] # 0
      BY <1>6 DEF IsCurrent, ControlInv, RunnerOK, AtModel
    <2>2. turn'.rev = turn.rev /\ IsCurrent(ctl[q]) BY <1>1, <1>4, <2>1 DEF IsCurrent
    <2>3. q \notin aborted \cup dropped BY <1>6 DEF SetActive
    <2>4. active = [rev |-> turn.rev, proc |-> q]
      BY <2>1, <2>2, <2>3 DEF ControlInv, RunnerOK, AtModel
    <2> QED BY <1>6, <2>1, <2>2, <2>4 DEF SetActive
  <1>7. active' = [rev |-> turn'.rev, proc |-> p] BY DEF SetActive
  <1>8. RunnerOK' BY <1>5, <1>6, <1>7 DEF RunnerOK, AtModel
  <1> QED BY <1>3, <1>8 DEF ControlInv

LEMMA RowStays ==
  ASSUME RowType, UNCHANGED rowVars
  PROVE  RowCalm /\ RowType'
  BY DEF RowType, RowCalm, rowVars

\* interruptThreadTurn, settleInterruptedThreadTurn
LEMMA EndedCalm ==
  ASSUME RowType, NEW s \in Terminal, turn' = Stamped(turn, s), AbortActive(turn.rev)
  PROVE  RowCalm /\ RowType'
  <1>1. turn' \in Row /\ turn'.status = s /\ turn'.rev = turn.rev
    BY StampedRow DEF RowType, TurnStatus
  <1>2. /\ active' \in [rev : Nat, proc : Procs \cup {NoProc}]
        /\ active'.rev # 0 => active'.proc \in Procs
        /\ aborted \subseteq aborted' /\ aborted' \subseteq Procs
    BY DEF RowType, AbortActive, NoActive
  <1> QED BY <1>1, <1>2 DEF RowType, RowCalm

LEMMA CompletedCalm ==
  ASSUME RowType, NEW rev, MarkCompleted(rev)
  PROVE  RowCalm /\ RowType'
  <1>1. CASE UNCHANGED rowVars BY <1>1, RowStays
  <1>2. CASE turn' = Stamped(turn, "completed") /\ active' = NoActive /\ UNCHANGED aborted
    <2>1. turn' \in Row /\ turn'.status \in Terminal /\ turn'.rev = turn.rev
      BY <1>2, StampedRow DEF RowType, TurnStatus, Terminal
    <2> QED BY <1>2, <2>1 DEF RowType, RowCalm, NoActive
  <1> QED BY <1>1, <1>2 DEF MarkCompleted, rowVars

LEMMA ReapedCalm ==
  ASSUME RowType, NEW rev, Reap(rev)
  PROVE  RowCalm /\ RowType'
  BY CompletedCalm, RowStays DEF Reap, rowVars

LEMMA ClaimedCalm ==
  ASSUME RowType, NEW rev, ClaimFinalization(rev)
  PROVE  RowCalm /\ RowType'
  <1>1. turn' \in Row /\ turn'.status = "finalizing" /\ turn'.rev = turn.rev
    BY StampedRow DEF ClaimFinalization, RowType, TurnStatus
  <1> QED BY <1>1 DEF RowType, RowCalm, ClaimFinalization, Terminal

LEMMA HandlersStay ==
  ASSUME HandlerType, ClickOK, UNCHANGED handlerVars
  PROVE  HandlersMove({})
  BY DEF HandlerType, ClickOK, handlerVars, HandlersMove

LEMMA LeaveMoves ==
  ASSUME HandlerType, ClickOK, NEW p \in Procs, Leave(p),
         dropped' \subseteq Procs, dropped \ {p} \subseteq dropped'
  PROVE  HandlersMove({p})
  <1>1. /\ pc' \in [Procs -> Labels] /\ pc'[p] \in {"new", "done"}
        /\ \A q \in Procs : q # p => pc'[q] = pc[q]
    BY DEF HandlerType, Leave, At, Labels
  <1>2. /\ ctl' \in [Procs -> Nat] /\ ctl'[p] = 0
        /\ \A q \in Procs : q # p => ctl'[q] = ctl[q]
    BY DEF HandlerType, Leave, Forget
  <1>3. NoWant \in WantType /\ NotSeen \in SeenType
    BY DEF NoWant, NotSeen, WantType, SeenType
  <1>4. /\ want' \in [Clicks -> WantType] /\ seen' \in [Clicks -> SeenType]
        /\ \A c \in Clicks : c # p => want'[c] = want[c]
    BY <1>3 DEF HandlerType, Leave, Forget
  <1>5. \A c \in Clicks : c \in Procs BY DEF Procs
  <1>6. ClickOK' BY <1>1, <1>4, <1>5 DEF ClickOK
  <1> QED BY <1>1, <1>2, <1>4, <1>6 DEF HandlerType, HandlersMove, AtModel

LEMMA FinishMoves ==
  ASSUME HandlerType, ClickOK, NEW p \in Procs, Finish(p)
  PROVE  HandlersMove({p})
  <1>1. dropped' \subseteq Procs /\ dropped \ {p} \subseteq dropped'
    BY DEF HandlerType, Finish
  <1> QED BY <1>1, LeaveMoves DEF Finish

LEMMA GotoMoves ==
  ASSUME HandlerType, ClickOK, NEW p \in Procs, NEW label \in Labels \ AtModel,
         Goto(p, label),
         label = "closing" => pc[p] = "checking", label # "checking"
  PROVE  HandlersMove({p})
  <1>1. /\ pc' \in [Procs -> Labels] /\ pc'[p] = label
        /\ \A q \in Procs : q # p => pc'[q] = pc[q]
    BY DEF HandlerType, Goto, At
  <1>2. \A c \in Clicks : c \in Procs BY DEF Procs
  <1>3. ClickOK' BY <1>1, <1>2 DEF ClickOK, Goto
  <1> QED BY <1>1, <1>3 DEF HandlerType, HandlersMove, Goto

\* A click or the timer's run takes up a request.
LEMMA TakesUp ==
  ASSUME HandlerType, ClickOK, NEW c \in Clicks, NEW label \in {"closing", "checking"},
         NEW w \in WantType, w.request \in Requests, label = "checking" => w.owner \in Owners,
         At(c, label), want' = [want EXCEPT ![c] = w], seen' \in [Clicks -> SeenType],
         UNCHANGED <<ctl, dropped>>
  PROVE  HandlersMove({c})
  <1>1. \A d \in Clicks : d \in Procs BY DEF Procs
  <1>2. /\ pc' \in [Procs -> Labels] /\ pc'[c] = label
        /\ \A q \in Procs : q # c => pc'[q] = pc[q]
    BY <1>1 DEF HandlerType, At, Labels
  <1>3. /\ want' \in [Clicks -> WantType] /\ want'[c] = w
        /\ \A d \in Clicks : d # c => want'[d] = want[d]
    BY DEF HandlerType
  <1>4. ClickOK' BY <1>1, <1>2, <1>3 DEF ClickOK
  <1> QED BY <1>2, <1>3, <1>4 DEF HandlerType, HandlersMove, AtModel

-----------------------------------------------------------------------------
(* The turn and the handlers, action by action *)

LEMMA ControlParts ==
  ASSUME ControlInv
  PROVE  RowType /\ HandlerType /\ ClickOK
  BY DEF ControlInv, ControlType

\* A handler returns and the turn is left alone, or ends.
LEMMA Returns ==
  ASSUME ControlInv, NEW p \in Procs, Finish(p), RowCalm, RowType', UNCHANGED inbox
  PROVE  ControlInv'
  BY CalmStep, FinishMoves, ControlParts

LEMMA ReturnsQuietly ==
  ASSUME ControlInv, NEW p \in Procs, Finish(p), UNCHANGED <<rowVars, inbox>>
  PROVE  ControlInv'
  BY Returns, RowStays, ControlParts

LEMMA ControlStays ==
  ASSUME ControlInv, UNCHANGED <<controlVars, handlerVars>>
  PROVE  ControlInv'
  <1>1. HandlersMove({}) BY HandlersStay, ControlParts
  <1>2. RowCalm /\ RowType' BY RowStays, ControlParts DEF controlVars, rowVars
  <1> QED BY <1>1, <1>2, CalmStep DEF controlVars

\* A message begins a new turn.
LEMMA ArriveControl ==
  ASSUME ControlInv, NEW m \in Msgs, Arrive(m)
  PROVE  ControlInv'
  <1>1. m \in Procs /\ \A c \in Clicks : c \in Procs /\ c # m
    BY ThreadAssumption DEF Procs
  <1>2. turn.rev \in Nat /\ Author[m] \in Users
    BY DEF Users, ControlInv, ControlType, RowType, Row
  <1>3. turn' \in Row /\ turn'.rev = turn.rev + 1 /\ turn'.rev # 0
    <2>1. turn' = [rev |-> turn.rev + 1, status |-> "running", asker |-> Author[m],
                   aged |-> FALSE]
      BY DEF Arrive, Begin
    <2> QED BY <1>2, <2>1 DEF Row, TurnStatus
  <1>4. /\ pc' \in [Procs -> Labels] /\ pc'[m] = "compute"
        /\ \A q \in Procs : q # m => pc'[q] = pc[q]
    BY <1>1 DEF Arrive, At, Labels, ControlInv, ControlType, HandlerType
  <1>5. /\ ctl' \in [Procs -> Nat] /\ ctl'[m] = turn.rev + 1
        /\ \A q \in Procs : q # m => ctl'[q] = ctl[q]
    BY <1>1, <1>2 DEF Arrive, ControlInv, ControlType, HandlerType
  <1>6. HandlerType' BY <1>4, <1>5 DEF Arrive, ControlInv, ControlType, HandlerType
  <1>7. ClickOK' BY <1>1, <1>4 DEF Arrive, ControlInv, ClickOK
  <1>8. SetActive(turn'.rev, m) BY <1>3 DEF Arrive, Begin
  <1> QED BY <1>1, <1>2, <1>3, <1>4, <1>5, <1>6, <1>7, <1>8, TakesOver DEF Arrive

\* A click resumes its turn, to run a follow-up or to say how it ended.
LEMMA ResumeControl ==
  ASSUME ControlInv, NEW c \in Clicks, NEW rev \in Nat, IsCurrent(rev), ResumeTurn(c),
         NEW label \in {"granted", "verdict"}, label = "granted" => rev # 0, At(c, label), ctl' = [ctl EXCEPT ![c] = rev],
         UNCHANGED <<want, seen, dropped, inbox>>
  PROVE  ControlInv'
  <1>1. c \in Procs /\ \A d \in Clicks : d \in Procs BY DEF Procs
  <1>2. turn' \in Row /\ turn'.rev = turn.rev
    BY StampedRow DEF ResumeTurn, ControlInv, ControlType, RowType, TurnStatus
  <1>3. turn.rev = rev /\ turn.status \notin Terminal BY DEF IsCurrent
  <1>4. /\ pc' \in [Procs -> Labels] /\ pc'[c] = label
        /\ \A q \in Procs : q # c => pc'[q] = pc[q]
    BY <1>1 DEF At, Labels, ControlInv, ControlType, HandlerType
  <1>5. /\ ctl' \in [Procs -> Nat] /\ ctl'[c] = rev
        /\ \A q \in Procs : q # c => ctl'[q] = ctl[q]
    BY <1>1 DEF ControlInv, ControlType, HandlerType
  <1>6. HandlerType' BY <1>4, <1>5 DEF ControlInv, ControlType, HandlerType
  <1>7. ClickOK' BY <1>1, <1>4 DEF ControlInv, ClickOK
  <1>8. SetActive(turn'.rev, c) BY <1>2 DEF ResumeTurn
  <1> QED BY <1>1, <1>2, <1>3, <1>4, <1>5, <1>6, <1>7, <1>8, TakesOver DEF AtModel

\* The reply is posted while a request is open: whoever has the controller
\* loses it.
LEMMA WaitingControl ==
  ASSUME ControlInv, NEW p \in Procs, MarkWaiting, IsCurrent(ctl[p]), Leave(p),
         dropped' = (dropped \cup ({active.proc} \cap Procs)) \ {p}, UNCHANGED inbox
  PROVE  ControlInv'
  <1>1. RowType /\ HandlerType /\ ClickOK /\ RunnerOK BY ControlParts DEF ControlInv
  <1>2. turn' \in Row /\ turn'.rev = turn.rev
    BY <1>1, StampedRow DEF MarkWaiting, RowType, TurnStatus
  <1>3. RowType' BY <1>1, <1>2 DEF MarkWaiting, RowType, NoActive
  <1>4. dropped' \subseteq Procs /\ dropped \ {p} \subseteq dropped'
    BY <1>1 DEF HandlerType
  <1>5. HandlersMove({p}) BY <1>1, <1>4, LeaveMoves
  <1>6. turn.rev \in Nat BY <1>1 DEF RowType, Row
  <1>7. ASSUME NEW q \in Procs
        PROVE  /\ ctl'[q] <= turn'.rev
               /\ pc'[q] \in AtModel => ctl'[q] # 0
    BY <1>1, <1>2, <1>5, <1>6, <1>7 DEF HandlersMove, RunnerOK, AtModel
  <1>8. ASSUME NEW q \in Procs, pc'[q] \in AtModel, IsCurrent(ctl[q])',
               q \notin (aborted \cup dropped)'
        PROVE  FALSE
    <2>1. q # p /\ pc[q] \in AtModel /\ ctl[q] = turn.rev
      BY <1>2, <1>5, <1>8 DEF HandlersMove, IsCurrent
    <2>2. IsCurrent(ctl[q]) BY <2>1 DEF IsCurrent
    <2>3. q \notin aborted \cup dropped BY <1>4, <1>8, <2>1 DEF MarkWaiting
    <2>4. active = [rev |-> turn.rev, proc |-> q]
      BY <1>1, <2>1, <2>2, <2>3 DEF RunnerOK, AtModel
    <2> QED BY <1>8, <2>1, <2>4
  <1>9. RunnerOK' BY <1>7, <1>8 DEF RunnerOK, AtModel
  <1> QED BY <1>3, <1>5, <1>9 DEF ControlInv, ControlType, HandlersMove

LEMMA HandlerControl ==
  ASSUME ControlInv, NEW p \in Procs,
         Conclude(p) \/ FailRun(p) \/ Abandon(p) \/ Settle(p) \/ Complete(p) \/ Recover(p)
  PROVE  ControlInv'
  <1>0. RowType /\ HandlerType /\ ClickOK BY ControlParts
  <1>1. CASE Conclude(p)
    <2>1. HandlersMove({p}) BY <1>0, <1>1, GotoMoves DEF Conclude, Labels, AtModel
    <2> QED BY <1>0, <1>1, <2>1, ClaimedCalm, CalmStep DEF Conclude
  <1>2. CASE FailRun(p)
    <2>1. HandlersMove({p}) BY <1>0, <1>2, GotoMoves DEF FailRun, Labels, AtModel
    <2> QED BY <1>0, <1>2, <2>1, RowStays, CalmStep DEF FailRun, controlVars, rowVars
  <1>3. CASE Abandon(p)
    BY <1>0, <1>3, ReapedCalm, RowStays, Returns DEF Abandon
  <1>4. CASE Settle(p)
    <2>1. CASE Finish(p) /\ UNCHANGED rowVars
      BY <1>4, <2>1, ReturnsQuietly DEF Settle
    <2>2. CASE /\ IsCurrent(ctl[p]) /\ MarkWaiting /\ Leave(p)
               /\ dropped' = (dropped \cup ({active.proc} \cap Procs)) \ {p}
      BY <1>4, <2>2, WaitingControl DEF Settle
    <2>3. CASE Goto(p, "writeback") /\ UNCHANGED rowVars
      <3>1. HandlersMove({p}) BY <1>0, <2>3, GotoMoves DEF Labels, AtModel
      <3> QED BY <1>0, <1>4, <2>3, <3>1, RowStays, CalmStep DEF Settle
    <2>4. CASE Finish(p) /\ MarkCompleted(ctl[p])
      BY <1>0, <1>4, <2>4, CompletedCalm, Returns DEF Settle
    <2> QED BY <1>4, <2>1, <2>2, <2>3, <2>4 DEF Settle
  <1>5. CASE Complete(p)
    BY <1>0, <1>5, CompletedCalm, Returns DEF Complete
  <1>6. CASE Recover(p)
    <2>1. CASE UNCHANGED rowVars BY <1>6, <2>1, ReturnsQuietly DEF Recover
    <2>2. ASSUME NEW s \in {"superseded", "completed"}, SettleInterrupted(s)
          PROVE  ControlInv'
      BY <1>0, <1>6, <2>2, EndedCalm, Returns DEF Recover, SettleInterrupted, Terminal
    <2> QED BY <1>6, <2>1, <2>2 DEF Recover
  <1> QED BY <1>1, <1>2, <1>3, <1>4, <1>5, <1>6

LEMMA PressControl ==
  ASSUME ControlInv, NEW c \in Clicks, NEW r \in Requests, NEW o \in Owners,
         NEW yes \in BOOLEAN, Press(c, r, o, yes), World(o) \in SeenType
  PROVE  ControlInv'
  <1>0. RowType /\ HandlerType /\ ClickOK /\ c \in Procs BY ControlParts DEF Procs
  <1>1. UNCHANGED <<rowVars, inbox>> BY DEF Press, controlVars, rowVars
  <1> DEFINE w == [request |-> r, owner |-> o, yes |-> yes]
  <1>2. w \in WantType /\ w.request \in Requests /\ w.owner \in Owners BY DEF WantType
  <1> HIDE DEF w
  <1>3. CASE Finish(c) BY <1>0, <1>1, <1>3, ReturnsQuietly
  <1>4. ASSUME NEW label \in {"closing", "checking"}, At(c, label),
               want' = [want EXCEPT ![c] = w], seen' \in [Clicks -> SeenType],
               UNCHANGED <<ctl, dropped>>
        PROVE  ControlInv'
    <2>1. HandlersMove({c}) BY <1>0, <1>2, <1>4, TakesUp
    <2> QED BY <1>0, <1>1, <2>1, RowStays, CalmStep
  <1>5. seen \in [Clicks -> SeenType] /\ [seen EXCEPT ![c] = World(o)] \in [Clicks -> SeenType]
    BY <1>0 DEF HandlerType
  <1> QED BY <1>3, <1>4, <1>5 DEF Press, Superseded, w

LEMMA EscalateControl ==
  ASSUME ControlInv, NEW c \in Clicks, NEW r \in Requests, Escalate(c, r)
  PROVE  ControlInv'
  <1>0. RowType /\ HandlerType /\ ClickOK /\ c \in Procs BY ControlParts DEF Procs
  <1>1. UNCHANGED <<rowVars, inbox>> BY DEF Escalate, controlVars, rowVars
  <1>2. CASE Finish(c) BY <1>0, <1>1, <1>2, ReturnsQuietly
  <1>3. CASE /\ At(c, "closing")
             /\ want' = [want EXCEPT ![c] = [NoWant EXCEPT !.request = r]]
             /\ UNCHANGED <<ctl, seen, dropped>>
    <2>1. NoWant \in WantType BY DEF NoWant, WantType
    <2>2. /\ [NoWant EXCEPT !.request = r] \in WantType
          /\ [NoWant EXCEPT !.request = r].request = r
      BY <2>1 DEF WantType
    <2>3. HandlersMove({c}) BY <1>0, <1>3, <2>2, TakesUp DEF HandlerType
    <2> QED BY <1>0, <1>1, <2>3, RowStays, CalmStep
  <1> QED BY <1>2, <1>3 DEF Escalate, Superseded

LEMMA CheckedControl ==
  ASSUME LeaseInv, ControlInv, NEW c \in Clicks, Checked(c)
  PROVE  ControlInv'
  <1>0. RowType /\ HandlerType /\ ClickOK /\ c \in Procs BY ControlParts DEF Procs
  <1> DEFINE r == want[c].request
             o == want[c].owner
  <1>1. r \in Requests /\ o \in Owners /\ pc[c] = "checking" /\ UNCHANGED inbox
    BY <1>0 DEF Checked, ClickOK
  <1>2. CASE Finish(c) /\ UNCHANGED rowVars BY <1>0, <1>1, <1>2, ReturnsQuietly
  <1>3. CASE Goto(c, "closing") /\ UNCHANGED rowVars
    <2>1. HandlersMove({c}) BY <1>0, <1>1, <1>3, GotoMoves DEF Labels, AtModel
    <2> QED BY <1>0, <1>1, <1>3, <2>1, RowStays, CalmStep
  <1>4. CASE /\ lease[r].status = "pending" /\ IsCurrent(lease[r].rev) /\ ResumeTurn(c)
             /\ At(c, "granted") /\ ctl' = [ctl EXCEPT ![c] = lease[r].rev]
             /\ UNCHANGED <<want, seen, dropped>>
    <2>1. lease[r].rev \in Nat \ {0} BY <1>1, <1>4 DEF LeaseInv, RowOK, Lease
    <2> QED BY <1>1, <1>4, <2>1, ResumeControl
  <1> QED BY <1>2, <1>3, <1>4 DEF Checked, Withdraw

LEMMA CloseControl ==
  ASSUME LeaseInv, ControlInv, NEW c \in Clicks, Close(c)
  PROVE  ControlInv'
  <1>0. RowType /\ HandlerType /\ ClickOK /\ c \in Procs BY ControlParts DEF Procs
  <1> DEFINE rev == lease[want[c].request].rev
  <1>1. CASE Finish(c) /\ UNCHANGED rowVars BY <1>0, <1>1, ReturnsQuietly DEF Close
  <1>2. CASE /\ IsCurrent(rev) /\ ResumeTurn(c) /\ At(c, "verdict")
             /\ ctl' = [ctl EXCEPT ![c] = rev] /\ UNCHANGED <<want, seen, dropped>>
    <2>1. rev \in Nat BY <1>0, <1>2 DEF IsCurrent, RowType, Row
    <2> QED BY <1>2, <2>1, ResumeControl DEF Close
  <1> QED BY <1>1, <1>2 DEF Close

LEMMA EvictControl ==
  ASSUME ControlInv, Evict
  PROVE  ControlInv'
  <1>0. RowType /\ HandlerType /\ ClickOK BY ControlParts
  <1>1. RowType' /\ UNCHANGED inbox BY <1>0 DEF RowType, Evict, NoActive
  <1>2. /\ pc' \in [Procs -> Labels]
        /\ \A p \in Procs : pc'[p] \in {"new", "done", "lost"}
    BY <1>0 DEF HandlerType, Evict, Labels
  <1>3. /\ ctl' \in [Procs -> Nat]
        /\ \A p \in Procs : ctl'[p] \in {0, ctl[p]}
    BY <1>0, <1>2 DEF HandlerType, Evict
  <1>4. want' \in [Clicks -> WantType] /\ seen' \in [Clicks -> SeenType]
    BY DEF Evict, NoWant, NotSeen, WantType, SeenType
  <1>5. HandlerType' BY <1>2, <1>3, <1>4 DEF HandlerType, Evict
  <1>6. ClickOK' BY <1>2 DEF ClickOK, Procs
  <1>7. turn.rev \in Nat /\ turn' = turn BY <1>0 DEF RowType, Row, Evict
  <1>8. RunnerOK' BY <1>2, <1>3, <1>7 DEF RunnerOK, ControlInv
  <1> QED BY <1>1, <1>5, <1>6, <1>8 DEF ControlInv, ControlType

LEMMA ControlSteps ==
  ASSUME Inv, [Next]_vars
  PROVE  ControlInv'
  <1> USE DEF Inv
  <1>0. RowType /\ HandlerType /\ ClickOK BY ControlParts
  <1>1. ASSUME UNCHANGED <<controlVars, handlerVars>> PROVE ControlInv'
    BY <1>1, ControlStays
  <1>2. CASE Stop
    <2>1. RowCalm /\ RowType' BY <1>0, <1>2, EndedCalm DEF Stop, Interrupt, Terminal
    <2>2. HandlersMove({}) BY <1>0, <1>2, HandlersStay DEF Stop
    <2> QED BY <1>2, <2>1, <2>2, CalmStep DEF Stop
  <1>3. ASSUME NEW m \in Msgs, Arrive(m) PROVE ControlInv' BY <1>3, ArriveControl
  <1>4. ASSUME NEW p \in Procs, HandlerStep(p) PROVE ControlInv'
    <2>1. CASE \/ Conclude(p) \/ FailRun(p) \/ Abandon(p) \/ Settle(p)
               \/ Complete(p) \/ Recover(p)
      BY <2>1, HandlerControl
    <2>2. CASE p \in Clicks /\ Checked(p) BY <2>2, CheckedControl
    <2>3. CASE p \in Clicks /\ FollowUp(p)
      <3>1. /\ pc' \in [Procs -> Labels] /\ pc[p] = "granted" /\ pc'[p] = "compute"
            /\ \A q \in Procs : q # p => pc'[q] = pc[q]
        BY <1>0, <2>3 DEF FollowUp, Goto, At, HandlerType, Labels
      <3>2. ClickOK' BY <1>0, <2>3, <3>1 DEF ClickOK, FollowUp, Goto, Procs
      <3>3. HandlersMove({})
        BY <1>0, <2>3, <3>1, <3>2 DEF HandlersMove, HandlerType, FollowUp, Goto, AtModel
      <3>4. RowCalm /\ RowType' BY <1>0, <2>3, RowStays DEF FollowUp, controlVars, rowVars
      <3> QED BY <2>3, <3>3, <3>4, CalmStep DEF FollowUp, controlVars
    <2>4. CASE p \in Clicks /\ Close(p) BY <2>4, CloseControl
    <2>5. CASE p \in Clicks /\ Verdict(p)
      BY <1>0, <2>5, CompletedCalm, Returns DEF Verdict
    <2> QED BY <1>4, <2>1, <2>2, <2>3, <2>4, <2>5 DEF HandlerStep
  <1>5. ASSUME NEW p \in Procs, NEW r \in Requests, Ask(p, r) \/ UseStart(p, r)
        PROVE  ControlInv'
    BY <1>1, <1>5 DEF Ask, UseStart
  <1>6. ASSUME NEW r \in Requests, AskStep(r) \/ Timer(r) \/ Ages(r) \/ Revoke(r)
        PROVE  ControlInv'
    <2>1. CASE AskStep(r)
      BY <1>1, <2>1 DEF AskStep, LookedUp, Insert, PostCard, RecordCard
    <2>2. CASE Timer(r) BY <2>2, EscalateControl DEF Timer
    <2>3. CASE Ages(r) \/ Revoke(r) BY <1>1, <2>3 DEF Ages, Revoke
    <2> QED BY <1>6, <2>1, <2>2, <2>3
  <1>7. ASSUME NEW c \in Clicks, NEW r \in Requests, NEW o \in Owners, NEW yes \in BOOLEAN,
               Press(c, r, o, yes)
        PROVE  ControlInv'
    <2>1. World(o) \in SeenType BY DEF World, SeenType, UseInv
    <2> QED BY <1>7, <2>1, PressControl
  <1>8. CASE UseChecked BY <1>1, <1>8 DEF UseChecked
  <1>9. CASE AskerLeaves BY <1>1, <1>9 DEF AskerLeaves
  <1>10. ASSUME NEW o \in Owners, Disconnect(o) \/ ConnectionRevoked(o) PROVE ControlInv'
    BY <1>1, <1>10 DEF Disconnect, ConnectionRevoked
  <1>11. ASSUME NEW c \in Clicks, LookupFails(c) PROVE ControlInv'
    <2>1. c \in Procs BY DEF Procs
    <2> QED BY <1>11, <2>1, ReturnsQuietly DEF LookupFails, controlVars, rowVars
  <1>12. CASE Evict BY <1>12, EvictControl
  <1>13. CASE UNCHANGED vars BY <1>1, <1>13 DEF vars
  <1> QED BY <1>2, <1>3, <1>4, <1>5, <1>6, <1>7, <1>8, <1>9, <1>10, <1>11, <1>12, <1>13
          DEF Next

-----------------------------------------------------------------------------
(* The use of a borrowed connection *)

\* A call is made, if at all, under a lease in force.
Used ==
    \A r \in Requests : calls'[r] > calls[r] =>
       /\ lease[r].status = "active" /\ ~lease[r].late
       /\ lease[r].lender \notin told

\* The steps that neither call nor change the world: the lease of the call
\* being checked stays what it was, or is over.
LEMMA UseStays ==
  ASSUME LeaseInv, UseInv, Forward, UNCHANGED <<use, calls>>,
         member' \in BOOLEAN, shares' \in [Owners -> BOOLEAN], failures' \in 0..MaxFaults,
         IsFiniteSet({o \in Owners : ~shares[o]})',
         \A o \in Owners : ~shares[o] => ~shares'[o], UNCHANGED told
  PROVE  UseInv' /\ Used
  <1>1. UseOK'
    <2>1. \A o \in told' : ~shares'[o] BY DEF UseInv, UseOK
    <2>2. ASSUME use' # NoUse
          PROVE  /\ use'.lease \in Requests /\ calls'[use'.lease] < MaxCalls
                 /\ lease'[use'.lease].status \notin {"none", "pending"}
                 /\ lease'[use'.lease].status = "active" /\ lease'[use'.lease].lender \in told' =>
                       ~use'.seen.shares
      BY <2>2 DEF UseInv, UseOK, Forward
    <2> QED BY <2>1, <2>2 DEF UseOK
  <1>2. \A r \in Requests : calls[r] \in Nat BY LeaseAssumption DEF UseInv
  <1>3. Used BY <1>2 DEF Used
  <1> QED BY <1>1, <1>3 DEF UseInv

LEMMA UseQuiet ==
  ASSUME LeaseInv, UseInv, Forward, UNCHANGED <<useVars, worldVars, failures>>
  PROVE  UseInv' /\ Used
  BY UseStays DEF UseInv, useVars, worldVars

\* A check begins: what is read of a connection that is gone says so.
LEMMA UseStartUse ==
  ASSUME LeaseInv, UseInv, Forward, NEW p \in Procs, NEW r \in Requests, UseStart(p, r)
  PROVE  UseInv' /\ Used
  <1>1. CASE UNCHANGED use
    BY <1>1, UseQuiet DEF UseStart, useVars
  <1>2. CASE /\ ~lease[r].late /\ UNCHANGED lease
             /\ use' = [lease |-> r, seen |-> World(lease[r].lender)]
    <2>1. lease[r].status = "active" /\ lease[r].lender \in Owners /\ calls[r] < MaxCalls
          /\ UNCHANGED <<worldVars, calls, failures>>
      BY DEF UseStart, LeaseInv, RowOK
    <2>2. World(lease[r].lender) \in SeenType
          /\ World(lease[r].lender).shares = shares[lease[r].lender]
      BY <2>1 DEF World, SeenType, UseInv
    <2>3. use'.lease = r /\ use'.seen = World(lease[r].lender)
          /\ use' \in [lease : Requests \cup {NoRequest}, seen : SeenType]
      BY <1>2, <2>2
    <2>4. lease[r].lender \in told => ~use'.seen.shares
      BY <2>1, <2>2, <2>3 DEF UseInv, UseOK
    <2>5. UseOK' BY <1>2, <2>1, <2>3, <2>4 DEF UseOK, UseInv, worldVars
    <2>6. \A q \in Requests : calls[q] \in Nat BY LeaseAssumption DEF UseInv
    <2>7. Used BY <2>1, <2>6 DEF Used
    <2> QED BY <2>1, <2>3, <2>5, <2>7 DEF UseInv, worldVars
  <1> QED BY <1>1, <1>2 DEF UseStart

NoUseType == NoUse \in [lease : Requests \cup {NoRequest}, seen : SeenType]
LEMMA NoUseTyped == NoUseType BY DEF NoUseType, NoUse, NotSeen, SeenType

\* The check ends: with both lookups answered and the row read again.
LEMMA UseCheckedUse ==
  ASSUME LeaseInv, UseInv, UseChecked
  PROVE  UseInv' /\ Used
  <1> DEFINE r == use.lease
  <1>1. /\ r \in Requests /\ calls[r] < MaxCalls /\ lease[r].status \notin {"none", "pending"}
        /\ lease[r].status = "active" => lease[r].lender \in Owners
        /\ lease[r].status = "active" /\ lease[r].lender \in told =>
              ~use.seen.shares /\ ~shares[lease[r].lender]
    BY DEF UseInv, UseOK, UseChecked, LeaseInv, RowOK
  <1>2. /\ use' = NoUse /\ UNCHANGED <<worldVars, failures>>
        /\ \/ UNCHANGED calls
           \/ /\ calls' = [calls EXCEPT ![r] = @ + 1]
              /\ lease[r].status = "active" /\ ~lease[r].late
              /\ use.seen.shares \/ shares[lease[r].lender]
    BY DEF UseChecked
  <1>3. calls \in [Requests -> 0..MaxCalls] /\ MaxCalls \in Nat
    BY LeaseAssumption DEF UseInv
  <1>4. calls' \in [Requests -> 0..MaxCalls] BY <1>1, <1>2, <1>3
  <1>5. Used
    <2>1. CASE UNCHANGED calls BY <1>3, <2>1 DEF Used
    <2>2. CASE calls' = [calls EXCEPT ![r] = @ + 1]
      <3>1. \A q \in Requests : q # r => calls'[q] = calls[q] BY <1>3, <2>2
      <3>2. \A q \in Requests : calls'[q] > calls[q] => q = r BY <1>3, <3>1
      <3>3. CASE UNCHANGED calls BY <2>1, <3>3
      <3>4. CASE /\ lease[r].status = "active" /\ ~lease[r].late
                 /\ use.seen.shares \/ shares[lease[r].lender]
        BY <1>1, <3>2, <3>4 DEF Used
      <3> QED BY <1>2, <3>3, <3>4
    <2> QED BY <1>2, <2>1, <2>2
  <1>6. use' \in [lease : Requests \cup {NoRequest}, seen : SeenType] /\ UseOK'
    BY <1>2, NoUseTyped DEF NoUseType, UseOK, UseInv, worldVars
  <1> QED BY <1>2, <1>4, <1>5, <1>6 DEF UseInv, worldVars

\* A fault leaves room for itself.
LEMMA RoomForOne ==
  ASSUME UseInv, Faults < MaxFaults
  PROVE  failures + 1 \in 0..MaxFaults
  <1>1. Cardinality({o \in Owners : ~shares[o]}) \in Nat BY FS_CardinalityType DEF UseInv
  <1> QED BY <1>1, LeaseAssumption DEF UseInv, Faults

LEMMA DisconnectUse ==
  ASSUME LeaseInv, UseInv, Forward, NEW o \in Owners, Disconnect(o)
  PROVE  UseInv' /\ Used
  <1>1. /\ shares' \in [Owners -> BOOLEAN] /\ \A p \in Owners : ~shares[p] => ~shares'[p]
        /\ \A p \in Owners : p # o => shares'[p] = shares[p]
        /\ ~shares'[o]
    BY DEF Disconnect, UseInv
  <1>2. {p \in Owners : ~shares'[p]} = {p \in Owners : ~shares[p]} \cup {o} BY <1>1
  <1>3. IsFiniteSet({p \in Owners : ~shares'[p]})
    <2>1. IsFiniteSet({p \in Owners : ~shares[p]}) BY DEF UseInv
    <2>2. IsFiniteSet({p \in Owners : ~shares[p]} \cup {o}) BY <2>1, FS_AddElement
    <2> QED BY <1>2, <2>2
  <1> QED BY <1>1, <1>3, UseStays DEF Disconnect, UseInv, useVars

LEMMA RevokedUse ==
  ASSUME LeaseInv, UseInv, NEW o \in Owners, ConnectionRevoked(o)
  PROVE  UseInv' /\ Used
  <1>1. /\ Forward /\ \A q \in Requests : lease'[q].status = "active" => lease'[q].lender # o
        /\ UNCHANGED <<use, calls, member, shares, failures>>
        /\ told' = told \cup {o} /\ ~shares[o]
    BY RevokedStep DEF ConnectionRevoked, LeaseStep, useVars
  <1>2. UseOK'
    <2>1. \A p \in told' : ~shares'[p] BY <1>1 DEF UseInv, UseOK
    <2>2. ASSUME use' # NoUse
          PROVE  /\ use'.lease \in Requests /\ calls'[use'.lease] < MaxCalls
                 /\ lease'[use'.lease].status \notin {"none", "pending"}
                 /\ lease'[use'.lease].status = "active" /\ lease'[use'.lease].lender \in told' =>
                       ~use'.seen.shares
      BY <1>1, <2>2 DEF UseInv, UseOK, Forward
    <2> QED BY <2>1, <2>2 DEF UseOK
  <1>3. \A r \in Requests : calls[r] \in Nat BY LeaseAssumption DEF UseInv
  <1>4. Used BY <1>1, <1>3 DEF Used
  <1> QED BY <1>1, <1>2, <1>4 DEF UseInv

LEMMA EvictUse ==
  ASSUME LeaseInv, UseInv, Evict
  PROVE  UseInv' /\ Used
  <1>1. failures' \in 0..MaxFaults BY RoomForOne DEF Evict
  <1>2. use' = NoUse /\ UNCHANGED <<worldVars, calls>> BY DEF Evict
  <1>3. \A r \in Requests : calls[r] \in Nat BY LeaseAssumption DEF UseInv
  <1>4. Used BY <1>2, <1>3 DEF Used
  <1> QED BY <1>1, <1>2, <1>4, NoUseTyped DEF NoUseType, UseInv, UseOK, worldVars

LEMMA UseSteps ==
  ASSUME Inv, [Next]_vars, Forward
  PROVE  UseInv' /\ Used
  <1> USE DEF Inv
  <1>1. ASSUME UNCHANGED <<useVars, worldVars, failures>> PROVE UseInv' /\ Used
    BY <1>1, UseQuiet
  <1>2. CASE Stop \/ \E m \in Msgs : Arrive(m) BY <1>1, <1>2 DEF Stop, Arrive
  <1>3. ASSUME NEW p \in Procs, HandlerStep(p) PROVE UseInv' /\ Used
    BY <1>1, <1>3 DEF HandlerStep, Conclude, FailRun, Abandon, Settle, Complete, Recover,
                      Checked, FollowUp, Close, Verdict
  <1>4. ASSUME NEW p \in Procs, NEW r \in Requests, Ask(p, r) \/ UseStart(p, r)
        PROVE  UseInv' /\ Used
    BY <1>1, <1>4, UseStartUse DEF Ask
  <1>5. ASSUME NEW r \in Requests, AskStep(r) \/ Timer(r) \/ Ages(r) \/ Revoke(r)
        PROVE  UseInv' /\ Used
    BY <1>1, <1>5 DEF AskStep, LookedUp, Insert, PostCard, RecordCard, Timer, Escalate,
                      Ages, Revoke
  <1>6. ASSUME NEW c \in Clicks, NEW r \in Requests, NEW o \in Owners, NEW yes \in BOOLEAN,
               Press(c, r, o, yes)
        PROVE  UseInv' /\ Used
    BY <1>1, <1>6 DEF Press
  <1>7. CASE UseChecked BY <1>7, UseCheckedUse
  <1>8. CASE AskerLeaves
    BY <1>8, UseStays DEF AskerLeaves, UseInv, useVars
  <1>9. ASSUME NEW o \in Owners, Disconnect(o) \/ ConnectionRevoked(o)
        PROVE  UseInv' /\ Used
    BY <1>9, DisconnectUse, RevokedUse
  <1>10. ASSUME NEW c \in Clicks, LookupFails(c) PROVE UseInv' /\ Used
    <2>1. failures' \in 0..MaxFaults BY <1>10, RoomForOne DEF LookupFails
    <2> QED BY <1>10, <2>1, UseStays DEF LookupFails, UseInv, useVars, worldVars
  <1>11. CASE Evict BY <1>11, EvictUse
  <1>12. CASE UNCHANGED vars BY <1>1, <1>12 DEF vars
  <1> QED BY <1>2, <1>3, <1>4, <1>5, <1>6, <1>7, <1>8, <1>9, <1>10, <1>11, <1>12 DEF Next

-----------------------------------------------------------------------------
(* The theorems *)

LEMMA InitInv == Init => Inv
  <1> SUFFICES ASSUME Init PROVE Inv OBVIOUS
  <1>1. NoLease \in Lease /\ NoLease.status = "none" /\ NoLease.rev = 0
    BY DEF NoLease, Lease, LeaseStatus
  <1>2. LeaseInv
    <2>1. \A r \in Requests : /\ ask[r] \in AskType /\ ask[r].at = "idle"
                              /\ lease[r] = NoLease
                              /\ deliveries[r] \in [Owners -> DeliveryStatus]
                              /\ \A o \in Owners : deliveries[r][o] = "none"
      BY DEF Init, AskType, AskLabels, DeliveryStatus
    <2>2. \A r \in Requests : RowOK(r) BY <1>1, <2>1 DEF RowOK
    <2> QED BY <1>1, <2>1, <2>2 DEF Init, LeaseInv
  <1>3. ControlInv
    <2>1. RowType
      BY DEF Init, RowType, Row, NoRow, NoActive, TurnStatus, Users
    <2>2. NoWant \in WantType /\ NotSeen \in SeenType
      BY DEF NoWant, NotSeen, WantType, SeenType
    <2>3. HandlerType BY <2>2 DEF Init, HandlerType, Labels
    <2>4. turn.rev = 0 /\ \A p \in Procs : pc[p] = "new" /\ ctl[p] = 0
      BY DEF Init, NoRow
    <2>5. RunnerOK BY <2>4 DEF RunnerOK
    <2>6. ClickOK BY <2>4 DEF ClickOK, Procs
    <2> QED BY <2>1, <2>3, <2>5, <2>6 DEF ControlInv, ControlType, Init
  <1>4. UseInv
    <2>1. {o \in Owners : ~shares[o]} = {} BY DEF Init
    <2>2. IsFiniteSet({o \in Owners : ~shares[o]}) BY <2>1, FS_EmptySet
    <2>3. 0 \in 0..MaxCalls /\ 0 \in 0..MaxFaults BY LeaseAssumption
    <2> QED BY <2>2, <2>3, NoUseTyped DEF Init, UseInv, UseOK, NoUseType
  <1> QED BY <1>2, <1>3, <1>4 DEF Inv

LEMMA StepInv ==
  ASSUME Inv, [Next]_vars
  PROVE  Inv' /\ Implements /\ Rightly /\ Used
  BY LeaseSteps, ControlSteps, UseSteps DEF Inv, LeaseStep

\* There is at most one handler that runs the model for the turn of the
\* thread, unless the reply of another run has dropped its controller.
LEMMA InvOneRunner == Inv => OneRunner
  <1> SUFFICES ASSUME Inv PROVE OneRunner OBVIOUS
  <1> DEFINE R == Running \ dropped
  <1>1. TypeOK
    BY DEF Inv, LeaseInv, AskType, ControlInv, ControlType, RowType, HandlerType, WantType,
           UseInv, SeenType, TypeOK
  <1>2. \A p \in R : p = active.proc
    BY DEF Inv, ControlInv, RunnerOK, Running
  <1>3. R \subseteq {active.proc} BY <1>2
  <1> HIDE DEF R
  <1>4. IsFiniteSet({active.proc}) /\ Cardinality({active.proc}) = 1 BY FS_Singleton
  <1>5. IsFiniteSet(R) /\ Cardinality(R) <= Cardinality({active.proc})
    BY <1>3, <1>4, FS_Subset
  <1>6. Cardinality(R) <= 1 BY <1>4, <1>5
  <1> QED BY <1>1, <1>6 DEF OneRunner, R

\* The types hold, and a grant that resumes the turn while the run that asked
\* is still going leaves one model on it, that of the resumed turn.
THEOREM OneRunnerHolds == Spec => []OneRunner
  <1>1. Spec => []Inv BY InitInv, StepInv, PTL DEF Spec
  <1> QED BY <1>1, InvOneRunner, PTL

LEMMA InitGrant == Init => Grant!Init
  BY DEF Init, Grant!Init, PhaseOf, WillingTo, NoLease

\* Whatever the clicks, the timer, the awaits and the evictions do, the rows
\* of brain_lease are steps of AccessGrant: only an owner who was asked and has
\* not declined lends, one lends, and what is over stays over.
THEOREM GrantImplemented == Spec => ImplementsGrant
  <1>1. Inv /\ [Next]_vars => [Grant!Next]_(Grant!vars) BY StepInv DEF Implements
  <1>2. Spec => []Inv BY InitInv, StepInv, PTL DEF Spec
  <1> QED BY <1>1, <1>2, InitGrant, PTL DEF Spec, ImplementsGrant, Grant!Spec

\* A call with a borrowed connection is made under a lease in force at that
\* moment, and never after the connection's deletion was announced.
THEOREM CallsAreLent == Spec => CallsUnderLease
  <1>1. Inv /\ [Next]_vars =>
          [\A r \in Requests : calls'[r] > calls[r] =>
             /\ lease[r].status = "active" /\ ~lease[r].late
             /\ lease[r].lender \notin told]_vars
    BY StepInv DEF Used
  <1>2. Spec => []Inv BY InitInv, StepInv, PTL DEF Spec
  <1> QED BY <1>1, <1>2, PTL DEF Spec, CallsUnderLease

\* A lease becomes active only in the step that resumes its turn.
THEOREM GrantHasTurn == Spec => NoGrantWithoutTurn
  <1>1. Inv /\ [Next]_vars =>
          [\A r \in Requests :
             lease[r].status # "active" /\ lease'[r].status = "active" =>
                 IsCurrent(lease[r].rev) /\ turn'.status = "running"]_vars
    BY StepInv DEF Rightly
  <1>2. Spec => []Inv BY InitInv, StepInv, PTL DEF Spec
  <1> QED BY <1>1, <1>2, PTL DEF Spec, NoGrantWithoutTurn
=============================================================================
