------------------------- MODULE AutoResearchProofs -------------------------
(***************************************************************************)
(* The lease and the review of auto-research, for any number of runs,      *)
(* drafts and sends, and of resets, evictions and lapses.                  *)
(*                                                                         *)
(* The invariant comes in layers, each proved with those before it:        *)
(*   Types    the shape of the state; a send under way has a draft         *)
(*   Leases   no two runs share a token, and the lock names the newest one *)
(*            or nobody; what a run that holds it has read is not wiped    *)
(*   Jobs     a draft is the job of one run, and has no row before that    *)
(*            is done; no row is older than the last wipe                  *)
(*   Deliveries   a draft is with one send, which posts what its row says  *)
(***************************************************************************)
EXTENDS AutoResearch, TLAPS

USE DEF resets, lease, runs, rows, sends, slack, history

-----------------------------------------------------------------------------
(* Types *)

\* A send is under way, and its message on the way.
Busy(s) == at[s] \in {"checking", "posting", "posted"}
Posting(s) == at[s] \in {"posting", "posted"}

\* The parts of TypeOK; a send under way has a draft.
ResetType ==
    /\ epoch \in Nat /\ crashes \in Nat /\ lapses \in Nat /\ Faults <= MaxFaults
    /\ wiping \in Nat /\ wiped \in Nat /\ wiping + wiped <= epoch
LeaseType ==
    /\ issued \in Nat /\ lost \in SUBSET Runs
    /\ lock \in [owner : Nat, live : BOOLEAN] /\ lock.owner <= issued
RunType ==
    /\ pc \in [Runs -> {"queued", "loading", "planning", "opening", "drafting", "done"}]
    /\ token \in [Runs -> Nat] /\ \A r \in Runs : token[r] <= issued
    /\ seen \in [Runs -> Nat] /\ \A r \in Runs : seen[r] <= epoch
    /\ read \in [Runs -> Nat] /\ \A r \in Runs : read[r] <= wiped
    /\ todo \in [Runs -> SUBSET Drafts]
    /\ active \in [Runs -> SUBSET Drafts]
RowType ==
    /\ status \in [Drafts -> {"none", "draft", "sending", "sent", "dismissed", "deleted"}]
    /\ origin \in [Drafts -> [token : Nat, wiped : Nat]]
    /\ \A d \in Drafts : origin[d].token <= issued /\ origin[d].wiped <= wiped
    /\ body \in [Drafts -> 1..MaxEdits + 1]
    /\ aged \in SUBSET Drafts
SendType ==
    /\ at \in [Sends -> {"idle", "checking", "posting", "posted", "done"}]
    /\ on \in [Sends -> Drafts \cup {NoDraft}]
    /\ text \in [Sends -> 0..MaxEdits + 1]
    /\ \A s \in Sends : Busy(s) => on[s] \in Drafts
SlackType ==
    /\ shown \in [Drafts -> 0..MaxEdits + 1]
    /\ watch \in SUBSET Drafts
    /\ muddled \in SUBSET Drafts /\ overtaken \in SUBSET Drafts

Types == ResetType /\ LeaseType /\ RunType /\ RowType /\ SendType /\ SlackType

\* The parts together are the type invariant.
LEMMA TypesTypeOK == Types => TypeOK
  <1> SUFFICES ASSUME Types PROVE TypeOK OBVIOUS
  <1> USE DEF Types
  <1>1. lock \in [owner : 0..issued, live : BOOLEAN] BY DEF LeaseType
  <1>2. token \in [Runs -> 0..issued] BY DEF LeaseType, RunType
  <1>3. seen \in [Runs -> 0..epoch] BY DEF ResetType, RunType
  <1>4. read \in [Runs -> 0..wiped] BY DEF ResetType, RunType
  <1>5. origin \in [Drafts -> [token : 0..issued, wiped : 0..wiped]]
    <2>1. \A d \in Drafts : origin[d] \in [token : 0..issued, wiped : 0..wiped]
      BY DEF RowType, LeaseType, ResetType
    <2> QED BY <2>1 DEF RowType
  <1> QED
    BY <1>1, <1>2, <1>3, <1>4, <1>5
    DEF TypeOK, ResetType, LeaseType, RunType, RowType, SendType, SlackType

\* They hold before the first run.
LEMMA InitTypes == Init => Types
  BY AutoResearchAssumption
  DEF Init, Types, ResetType, LeaseType, RunType, RowType, SendType, SlackType,
      Faults, NoLock, Unborn, Busy

\* A run that ends keeps the types of the lease and of the runs.
LEMMA LeaveTypes ==
  ASSUME LeaseType, ResetType, RunType, NEW r \in Runs, Leave(r), UNCHANGED <<issued, resets>>
  PROVE  LeaseType' /\ RunType'
  <1>1. lock' \in [owner : Nat, live : BOOLEAN] /\ lock'.owner = lock.owner
    BY DEF Leave, Release, LeaseType
  <1>2. lost' \subseteq Runs BY DEF Leave, LeaseType
  <1>3. pc' \in [Runs -> {"queued", "loading", "planning", "opening", "drafting", "done"}]
    BY DEF Leave, RunType
  <1>4. token' \in [Runs -> Nat] /\ \A q \in Runs : token'[q] <= issued
    BY DEF Leave, RunType, LeaseType
  <1>5. seen' \in [Runs -> Nat] /\ \A q \in Runs : seen'[q] <= epoch
    BY DEF Leave, RunType, ResetType
  <1>6. read' \in [Runs -> Nat] /\ \A q \in Runs : read'[q] <= wiped
    BY DEF Leave, RunType, ResetType
  <1>7. todo' \in [Runs -> SUBSET Drafts] /\ active' \in [Runs -> SUBSET Drafts]
    BY DEF Leave, RunType
  <1> QED BY <1>1, <1>2, <1>3, <1>4, <1>5, <1>6, <1>7 DEF LeaseType, RunType

\* So does one that begins, with the token it is given.
LEMMA StartTypes ==
  ASSUME LeaseType, ResetType, RunType, RowType, NEW r \in Runs, Start(r)
  PROVE  LeaseType' /\ ResetType' /\ RunType' /\ RowType'
  <1>1. /\ issued' \in Nat /\ issued <= issued'
        /\ UNCHANGED <<resets, rows, read, todo, active, lapses, crashes>>
    BY DEF Start, Acquire, LeaseType
  <1>2. RowType' BY <1>1 DEF RowType, LeaseType
  <1>3. ResetType' BY <1>1 DEF ResetType, Faults
  <1>4. CASE Acquire(r) /\ seen' = [seen EXCEPT ![r] = epoch] /\ pc' = [pc EXCEPT ![r] = "loading"]
    <2>1. LeaseType' BY <1>4 DEF Acquire, LeaseType, Owner, Working
    <2>2. token' \in [Runs -> Nat] /\ \A q \in Runs : token'[q] <= issued'
      BY <1>1, <1>4 DEF Acquire, RunType, LeaseType
    <2>3. seen' \in [Runs -> Nat] /\ \A q \in Runs : seen'[q] <= epoch
      BY <1>4 DEF RunType, ResetType
    <2> QED BY <1>1, <1>2, <1>3, <1>4, <2>1, <2>2, <2>3 DEF RunType
  <1>5. CASE pc' = [pc EXCEPT ![r] = "done"] /\ UNCHANGED <<lock, issued, lost, token, seen>>
    BY <1>1, <1>2, <1>3, <1>5 DEF RunType, LeaseType
  <1> QED BY <1>4, <1>5 DEF Start

\* Every step keeps them.
LEMMA StepTypes == Types /\ [Next]_vars => Types'
  <1> SUFFICES ASSUME Types, [Next]_vars PROVE Types' OBVIOUS
  <1> USE AutoResearchAssumption
  <1>0. ResetType /\ LeaseType /\ RunType /\ RowType /\ SendType /\ SlackType BY DEF Types
  <1> USE <1>0
  <1>1. ASSUME NEW r \in Runs, Start(r) PROVE Types'
    <2>1. SendType' /\ SlackType' BY <1>1 DEF Start, SendType, SlackType, Busy
    <2> QED BY <1>1, <2>1, StartTypes DEF Types
  <1>2. ASSUME NEW r \in Runs, Load(r) PROVE Types'
    <2>1. ResetType' /\ RowType' /\ SendType' /\ SlackType'
      BY <1>2 DEF Load, ResetType, LeaseType, RowType, SendType, SlackType, Faults, Busy
    <2>2. LeaseType' /\ RunType'
      <3>1. CASE Leave(r) BY <1>2, <3>1, LeaveTypes DEF Load
      <3>2. CASE ~Leave(r) BY <1>2, <3>2 DEF Load, LeaseType, ResetType, RunType
      <3> QED BY <3>1, <3>2
    <2> QED BY <2>1, <2>2 DEF Types
  <1>3. ASSUME NEW r \in Runs, Planned(r) PROVE Types'
    <2>1. ResetType' /\ RowType' /\ SendType' /\ SlackType'
      BY <1>3 DEF Planned, ResetType, LeaseType, RowType, SendType, SlackType, Faults, Busy
    <2>2. LeaseType' /\ RunType'
      <3>1. CASE Leave(r) BY <1>3, <3>1, LeaveTypes DEF Planned
      <3>2. CASE ~Leave(r)
        BY <1>3, <3>2 DEF Planned, Fresh, LeaseType, ResetType, RunType
      <3> QED BY <3>1, <3>2
    <2> QED BY <2>1, <2>2 DEF Types
  <1>4. ASSUME NEW r \in Runs, NextBatch(r) PROVE Types'
    <2>1. ResetType' /\ RowType' /\ SendType' /\ SlackType'
      BY <1>4 DEF NextBatch, ResetType, LeaseType, RowType, SendType, SlackType, Faults, Busy
    <2>2. LeaseType' /\ RunType'
      <3>1. CASE Leave(r) BY <1>4, <3>1, LeaveTypes DEF NextBatch
      <3>2. CASE ~Leave(r)
        <4>1. Renew(r) /\ UNCHANGED <<token, seen, read, lost, issued, epoch, wiped>>
          BY <1>4, <3>2 DEF NextBatch
        <4>2. LeaseType' BY <4>1 DEF Renew, LeaseType
        <4>3. todo' \in [Runs -> SUBSET Drafts] /\ active' \in [Runs -> SUBSET Drafts]
          BY <1>4, <3>2 DEF NextBatch, RunType
        <4>4. pc' \in [Runs -> {"queued", "loading", "planning", "opening", "drafting", "done"}]
          BY <1>4, <3>2 DEF NextBatch, RunType
        <4> QED BY <4>1, <4>2, <4>3, <4>4 DEF RunType
      <3> QED BY <3>1, <3>2
    <2> QED BY <2>1, <2>2 DEF Types
  <1>5. ASSUME NEW r \in Runs, Heartbeat(r) PROVE Types'
    <2>1. LeaseType' BY <1>5 DEF Heartbeat, Renew, LeaseType
    <2>2. ResetType' /\ RunType' /\ RowType' /\ SendType' /\ SlackType'
      BY <1>5 DEF Heartbeat, LeaseType, ResetType, RunType, RowType, SendType, SlackType, Faults, Busy
    <2> QED BY <2>1, <2>2 DEF Types
  <1>6. ASSUME NEW r \in Runs, NEW d \in Drafts, DraftDone(r, d) PROVE Types'
    <2>1. RunType' BY <1>6 DEF DraftDone, LeaseType, ResetType, RunType
    <2>2. RowType'
      <3>1. CASE UNCHANGED <<status, origin>>
        BY <1>6, <3>1 DEF DraftDone, LeaseType, ResetType, RowType
      <3>2. CASE /\ status' = [status EXCEPT ![d] = "draft"]
                 /\ origin' = [origin EXCEPT ![d] = [token |-> token[r], wiped |-> read[r]]]
        BY <1>6, <3>2 DEF DraftDone, RunType, LeaseType, ResetType, RowType
      <3> QED BY <1>6, <3>1, <3>2 DEF DraftDone
    <2>3. ResetType' /\ LeaseType' /\ SendType' /\ SlackType'
      BY <1>6 DEF DraftDone, ResetType, LeaseType, SendType, SlackType, Faults, Busy
    <2> QED BY <2>1, <2>2, <2>3 DEF Types
  <1>7. ASSUME NEW d \in Drafts, Dismiss(d) \/ Edit(d) \/ ClaimAges(d) PROVE Types'
    <2>1. RowType' BY <1>7 DEF Dismiss, Edit, ClaimAges, LeaseType, ResetType, RowType
    <2>2. ResetType' /\ LeaseType' /\ RunType' /\ SendType' /\ SlackType'
      BY <1>7 DEF Dismiss, Edit, ClaimAges, ResetType, LeaseType, RunType, SendType, SlackType, Faults, Busy
    <2> QED BY <2>1, <2>2 DEF Types
  <1>8. ASSUME NEW s \in Sends, NEW d \in Drafts, Send(s, d) PROVE Types'
    <2>1. SendType' BY <1>8 DEF Send, Busy, RowType, SendType
    <2>2. ResetType' /\ LeaseType' /\ RunType' /\ RowType' /\ SlackType'
      BY <1>8 DEF Send, ResetType, LeaseType, RunType, RowType, SlackType, Faults
    <2> QED BY <2>1, <2>2 DEF Types
  <1>9. ASSUME NEW s \in Sends, Checked(s) PROVE Types'
    <2>1. RowType' BY <1>9 DEF Checked, Claim, SendType, Busy, LeaseType, ResetType, RowType
    <2>2. SendType'
      <3>1. CASE Finished(s) BY <1>9, <3>1 DEF Finished, Busy, SendType
      <3>2. CASE /\ text' = [text EXCEPT ![s] = body[on[s]]]
                 /\ at' = [at EXCEPT ![s] = "posting"] /\ UNCHANGED on
        <4>1. on[s] \in Drafts BY <1>9 DEF Checked, Busy, SendType
        <4>2. body[on[s]] \in 0..MaxEdits + 1 BY <4>1 DEF RowType
        <4> QED BY <3>2, <4>1, <4>2 DEF Busy, SendType
      <3> QED BY <1>9, <3>1, <3>2 DEF Checked, Claim
    <2>3. SlackType' BY <1>9 DEF Checked, SendType, Busy, SlackType
    <2>4. ResetType' /\ LeaseType' /\ RunType'
      BY <1>9 DEF Checked, ResetType, LeaseType, RunType, Faults
    <2> QED BY <2>1, <2>2, <2>3, <2>4 DEF Types
  <1>10. ASSUME NEW s \in Sends, Arrives(s) PROVE Types'
    <2>1. SendType' BY <1>10 DEF Arrives, Busy, SendType
    <2>2. SlackType' BY <1>10 DEF Arrives, SendType, Busy, SlackType
    <2>3. ResetType' /\ LeaseType' /\ RunType' /\ RowType'
      BY <1>10 DEF Arrives, ResetType, LeaseType, RunType, RowType, Faults
    <2> QED BY <2>1, <2>2, <2>3 DEF Types
  <1>11. ASSUME NEW s \in Sends, Failed(s) PROVE Types'
    <2>1. RowType' BY <1>11 DEF Failed, Unclaim, SendType, Busy, LeaseType, ResetType, RowType
    <2>2. SendType' BY <1>11 DEF Failed, Finished, Busy, SendType
    <2>3. SlackType' BY <1>11 DEF Failed, SendType, Busy, SlackType
    <2>4. ResetType' /\ LeaseType' /\ RunType'
      BY <1>11 DEF Failed, ResetType, LeaseType, RunType, Faults
    <2> QED BY <2>1, <2>2, <2>3, <2>4 DEF Types
  <1>12. ASSUME NEW s \in Sends, Succeeded(s) PROVE Types'
    <2>1. RowType' BY <1>12 DEF Succeeded, Finalize, SendType, Busy, LeaseType, ResetType, RowType
    <2>2. SendType' BY <1>12 DEF Succeeded, Finished, Busy, SendType
    <2>3. SlackType' BY <1>12 DEF Succeeded, SendType, Busy, Earn, Prune, SlackType
    <2>4. ResetType' /\ LeaseType' /\ RunType'
      BY <1>12 DEF Succeeded, ResetType, LeaseType, RunType, Faults
    <2> QED BY <2>1, <2>2, <2>3, <2>4 DEF Types
  <1>13. ASSUME Lapse PROVE Types'
    <2>1. ResetType' BY <1>13 DEF Lapse, Faults, ResetType
    <2>2. LeaseType' BY <1>13 DEF Lapse, Owner, Working, LeaseType
    <2>3. RunType' /\ RowType' /\ SendType' /\ SlackType'
      BY <1>13 DEF Lapse, LeaseType, ResetType, RunType, RowType, SendType, SlackType, Busy
    <2> QED BY <2>1, <2>2, <2>3 DEF Types
  <1>14. ASSUME Reset PROVE Types'
    <2>1. ResetType' BY <1>14 DEF Reset, Faults, ResetType
    <2>2. RunType' BY <1>14 DEF Reset, LeaseType, ResetType, RunType
    <2>3. LeaseType' /\ RowType' /\ SendType' /\ SlackType'
      BY <1>14 DEF Reset, ResetType, LeaseType, RowType, SendType, SlackType, Busy
    <2> QED BY <2>1, <2>2, <2>3 DEF Types
  <1>15. ASSUME ResetReturns PROVE Types'
    <2>1. ResetType' BY <1>15 DEF ResetReturns, Faults, ResetType
    <2>2. LeaseType' BY <1>15 DEF ResetReturns, Wipe, NoLock, Owner, Working, LeaseType
    <2>3. RunType' BY <1>15 DEF ResetReturns, LeaseType, ResetType, RunType
    <2>4. RowType' BY <1>15 DEF ResetReturns, Wipe, Unborn, LeaseType, ResetType, RowType
    <2>5. SlackType' BY <1>15 DEF ResetReturns, Wipe, SendType, Busy, SlackType
    <2>6. SendType'
      BY <1>15 DEF ResetReturns, SendType, Busy
    <2> QED BY <2>1, <2>2, <2>3, <2>4, <2>5, <2>6 DEF Types
  <1>16. ASSUME Crash PROVE Types'
    <2>1. ResetType' BY <1>16 DEF Crash, Faults, ResetType
    <2>2. LeaseType' BY <1>16 DEF Crash, LeaseType
    <2>3. RunType' BY <1>16 DEF Crash, Working, LeaseType, ResetType, RunType
    <2>4. SendType' BY <1>16 DEF Crash, Busy, SendType
    <2>5. RowType' /\ SlackType'
      BY <1>16 DEF Crash, LeaseType, ResetType, RowType, SlackType
    <2> QED BY <2>1, <2>2, <2>3, <2>4, <2>5 DEF Types
  <1>17. ASSUME UNCHANGED vars PROVE Types'
    <2>1. ResetType' /\ LeaseType' /\ RunType' /\ RowType' /\ SendType' /\ SlackType'
      BY <1>17 DEF vars, ResetType, LeaseType, RunType, RowType, SendType, SlackType, Faults, Busy
    <2> QED BY <2>1 DEF Types
  <1> QED
    BY <1>1, <1>2, <1>3, <1>4, <1>5, <1>6, <1>7, <1>8, <1>9, <1>10, <1>11,
       <1>12, <1>13, <1>14, <1>15, <1>16, <1>17, AutoResearchAssumption
    DEF Next, Run, Delivery

\* Every reachable state has the shape TypeOK describes, whatever the bounds.
THEOREM ShapeHolds == Spec => []TypeOK
  <1>1. Spec => []Types BY InitTypes, StepTypes, PTL DEF Spec
  <1> QED BY <1>1, TypesTypeOK, PTL

-----------------------------------------------------------------------------
(* Leases *)

Leases ==
    /\ \A r \in Working : token[r] # 0
    /\ \A r, q \in Working : token[r] = token[q] => r = q
    /\ lock.owner \in {0, issued}
    /\ lock.live => lock.owner # 0
    /\ \A r \in Working :
          lock.owner = token[r] /\ pc[r] # "loading" => read[r] = wiped
    /\ RunKeepsLease
    /\ LeaseHasRun

\* Before the first run nobody has one.
LEMMA InitLeases == Init => Leases
  BY DEF Init, Leases, Working, NoLock, RunKeepsLease, LeaseHasRun

\* A run that ends gives back a lease that is still its own, and no other.
LEMMA LeaveLeases ==
  ASSUME Types, Leases, NEW r \in Working, Leave(r), UNCHANGED <<issued, wiped, crashes>>
  PROVE  Leases'
  <1> USE DEF Types, LeaseType, RunType
  <1>1. Working' = Working \ {r} /\ Working \subseteq Runs BY DEF Working, Leave
  <1>2. \A q \in Working' : /\ token'[q] = token[q] /\ pc'[q] = pc[q] /\ read'[q] = read[q]
                            /\ token[q] # token[r]
    BY <1>1 DEF Leave, Leases
  <1>3. lock'.owner = lock.owner /\ lock'.live = (lock.live /\ lock.owner # token[r])
    BY DEF Leave, Release
  <1>4. RunKeepsLease'
    BY <1>1, <1>2, <1>3 DEF Leases, RunKeepsLease, Leave
  <1>5. LeaseHasRun' BY <1>1, <1>2, <1>3 DEF Leases, LeaseHasRun
  <1> QED BY <1>1, <1>2, <1>3, <1>4, <1>5 DEF Leases

\* A run that renews its lease goes on with it.
LEMMA RenewLeases ==
  ASSUME Types, Leases, NEW r \in Working, Renew(r),
         UNCHANGED <<issued, lost, token, read, wiped, crashes>>,
         Working' = Working, \A q \in Working : pc'[q] = "loading" <=> pc[q] = "loading"
  PROVE  Leases'
  <1>1. lock' = [lock EXCEPT !.live = TRUE] /\ lock.owner = token[r] BY DEF Renew
  <1>2. lock'.owner = lock.owner /\ lock'.live BY <1>1 DEF Types, LeaseType
  <1>3. RunKeepsLease' BY <1>2 DEF Leases, RunKeepsLease
  <1>4. LeaseHasRun' BY <1>1, <1>2 DEF LeaseHasRun
  <1> QED BY <1>1, <1>2, <1>3, <1>4 DEF Leases

\* What the leases do not depend on.
LEMMA KeepLeases ==
  ASSUME Leases, UNCHANGED <<lock, issued, lost, pc, token, read, wiped, crashes>>
  PROVE  Leases'
  BY DEF Leases, Working, RunKeepsLease, LeaseHasRun

\* Every step keeps the leases.
LEMMA StepLeases == Types /\ Leases /\ [Next]_vars => Leases'
  <1> SUFFICES ASSUME Types, Leases, [Next]_vars PROVE Leases' OBVIOUS
  <1>0. Working \subseteq Runs BY DEF Working
  <1>1. ASSUME NEW r \in Runs, Start(r) PROVE Leases'
    <2> USE DEF Types, LeaseType, RunType
    <2>1. UNCHANGED <<read, wiped, crashes>> /\ r \notin Working BY <1>1 DEF Start, Working
    <2>2. CASE Acquire(r) /\ pc' = [pc EXCEPT ![r] = "loading"]
      <3>1. /\ issued' = issued + 1 /\ lock'.owner = issued + 1 /\ lock'.live
            /\ token'[r] = issued + 1 /\ r \in Working'
            /\ lost' = lost \cup Owner
        BY <2>2 DEF Acquire, Working
      <3>2. Working' = Working \cup {r} BY <2>2 DEF Working
      <3>3. \A q \in Working : token'[q] = token[q] /\ pc'[q] = pc[q] /\ token[q] <= issued
        BY <1>0, <2>1, <2>2 DEF Acquire
      <3>4. RunKeepsLease'
        BY <3>1, <3>2, <3>3 DEF Leases, RunKeepsLease, Owner
      <3>5. LeaseHasRun' BY <3>1 DEF LeaseHasRun
      <3>6. \A q \in Working : token'[q] # token'[r] BY <3>1, <3>3, <1>0
      <3>7. pc'[r] = "loading" BY <2>2
      <3> QED BY <1>0, <2>1, <3>1, <3>2, <3>3, <3>4, <3>5, <3>6, <3>7 DEF Leases
    <2>3. CASE pc' = [pc EXCEPT ![r] = "done"] /\ UNCHANGED <<lock, issued, lost, token, seen>>
      <3>1. Working' = Working /\ \A q \in Working : pc'[q] = pc[q] BY <2>1, <2>3 DEF Working
      <3> QED BY <2>1, <2>3, <3>1 DEF Leases, RunKeepsLease, LeaseHasRun
    <2> QED BY <1>1, <2>2, <2>3 DEF Start
  <1>2. ASSUME NEW r \in Runs, Load(r) PROVE Leases'
    <2>1. r \in Working /\ UNCHANGED <<issued, wiped, crashes>> BY <1>2 DEF Load, Working
    <2>2. CASE Leave(r) BY <2>1, <2>2, LeaveLeases
    <2>3. CASE ~Leave(r)
      <3>1. /\ read' = [read EXCEPT ![r] = wiped] /\ pc' = [pc EXCEPT ![r] = "planning"]
            /\ UNCHANGED <<lock, token, lost>>
        BY <1>2, <2>3 DEF Load
      <3>2. Working' = Working BY <2>1, <3>1 DEF Working, Types, RunType
      <3>3. \A q \in Working : read'[q] = wiped \/ (read'[q] = read[q] /\ pc'[q] = pc[q])
        BY <1>0, <3>1 DEF Types, RunType
      <3> QED BY <2>1, <3>1, <3>2, <3>3 DEF Leases, RunKeepsLease, LeaseHasRun
    <2> QED BY <2>2, <2>3
  <1>3. ASSUME NEW r \in Runs, Planned(r) PROVE Leases'
    <2>1. r \in Working /\ UNCHANGED <<issued, wiped, crashes>> BY <1>3 DEF Planned, Working
    <2>2. CASE Leave(r) BY <2>1, <2>2, LeaveLeases
    <2>3. CASE ~Leave(r)
      <3>1. pc' = [pc EXCEPT ![r] = "opening"] /\ UNCHANGED <<lock, token, read, lost>>
        BY <1>3, <2>3 DEF Planned
      <3>2. Working' = Working BY <2>1, <3>1 DEF Working, Types, RunType
      <3>3. \A q \in Working : pc'[q] # "loading" => pc[q] # "loading"
        BY <1>0, <1>3, <3>1 DEF Planned, Types, RunType
      <3> QED BY <2>1, <3>1, <3>2, <3>3 DEF Leases, RunKeepsLease, LeaseHasRun
    <2> QED BY <2>2, <2>3
  <1>4. ASSUME NEW r \in Runs, NextBatch(r) PROVE Leases'
    <2>1. r \in Working /\ UNCHANGED <<issued, wiped, crashes>> BY <1>4 DEF NextBatch, Working
    <2>2. CASE Leave(r) BY <2>1, <2>2, LeaveLeases
    <2>3. CASE ~Leave(r)
      <3>1. Renew(r) /\ pc' = [pc EXCEPT ![r] = "drafting"] /\ UNCHANGED <<token, read, lost>>
        BY <1>4, <2>3 DEF NextBatch
      <3>2. Working' = Working BY <2>1, <3>1 DEF Working, Types, RunType
      <3>3. \A q \in Working : pc'[q] = "loading" <=> pc[q] = "loading"
        BY <1>0, <1>4, <3>1 DEF NextBatch, Types, RunType
      <3> QED BY <2>1, <3>1, <3>2, <3>3, RenewLeases
    <2> QED BY <2>2, <2>3
  <1>5. ASSUME NEW r \in Runs, Heartbeat(r) PROVE Leases'
    <2>1. /\ r \in Working /\ Renew(r) /\ Working' = Working
          /\ UNCHANGED <<issued, lost, token, read, wiped, crashes, pc>>
      BY <1>5 DEF Heartbeat, Working
    <2> QED BY <2>1, RenewLeases
  <1>6. ASSUME Lapse PROVE Leases'
    <2>1. /\ lock'.owner = lock.owner /\ ~lock'.live /\ lost' = lost \cup Owner
          /\ Working' = Working /\ UNCHANGED <<issued, pc, token, read, wiped, crashes>>
      BY <1>6 DEF Lapse, Types, LeaseType, Working
    <2>2. RunKeepsLease' BY <2>1 DEF Leases, RunKeepsLease, Owner
    <2>3. LeaseHasRun' BY <2>1 DEF LeaseHasRun
    <2> QED BY <2>1, <2>2, <2>3 DEF Leases
  <1>7. ASSUME ResetReturns PROVE Leases'
    <2>1. /\ lock'.owner = 0 /\ ~lock'.live /\ lost' = lost \cup Owner
          /\ Working' = Working /\ UNCHANGED <<issued, pc, token, read, crashes>>
      BY <1>7 DEF ResetReturns, Wipe, NoLock, Working
    <2>2. RunKeepsLease' BY <2>1 DEF Leases, RunKeepsLease, Owner
    <2>3. LeaseHasRun' BY <2>1 DEF LeaseHasRun
    <2> QED BY <2>1, <2>2, <2>3 DEF Leases
  <1>8. ASSUME Crash PROVE Leases'
    <2>1. Working' = {} /\ crashes' # 0 /\ UNCHANGED <<lock, issued>>
      BY <1>8 DEF Crash, Working, Types, ResetType
    <2> QED BY <2>1 DEF Leases, RunKeepsLease, LeaseHasRun
  <1>9. CASE UNCHANGED <<lock, issued, lost, pc, token, read, wiped, crashes>>
    BY <1>9, KeepLeases
  <1> QED
    BY <1>1, <1>2, <1>3, <1>4, <1>5, <1>6, <1>7, <1>8, <1>9
    DEF Next, Run, Delivery, DraftDone, Dismiss, Edit, ClaimAges, Send, Checked,
        Arrives, Failed, Succeeded, Reset, vars

-----------------------------------------------------------------------------
(* Jobs *)

Held(r) == todo[r] \cup active[r]

Jobs ==
    /\ NoStaleDraft
    /\ \A s \in Sends : Busy(s) => status[on[s]] # "none"
    /\ \A r \in Runs : todo[r] \cap active[r] = {}
    /\ \A r \in Runs : \A d \in Held(r) : status[d] = "none"
    /\ \A r, q \in Runs : r # q => Held(r) \cap Held(q) = {}

\* There are none before the first run.
LEMMA InitJobs == Init => Jobs
  BY DEF Init, Jobs, Held, Busy, NoStaleDraft

\* What the jobs do not depend on.
LEMMA KeepJobs ==
  ASSUME Jobs, UNCHANGED <<todo, active, status, origin, wiped, at, on>>
  PROVE  Jobs'
  BY DEF Jobs, Held, Busy, NoStaleDraft

\* The end of a run frees its jobs.
LEMMA LeaveJobs ==
  ASSUME Types, Jobs, NEW r \in Runs, Leave(r), UNCHANGED <<status, origin, wiped, at, on>>
  PROVE  Jobs'
  <1>1. todo' = [todo EXCEPT ![r] = {}] /\ active' = [active EXCEPT ![r] = {}]
    BY DEF Leave
  <1>2. /\ todo'[r] = {} /\ active'[r] = {}
        /\ \A q \in Runs \ {r} : todo'[q] = todo[q] /\ active'[q] = active[q]
    BY <1>1 DEF Types, RunType
  <1>3. NoStaleDraft' BY DEF Jobs, NoStaleDraft
  <1>4. \A q \in Runs : todo'[q] \subseteq todo[q] /\ active'[q] \subseteq active[q]
    BY <1>2
  <1> QED BY <1>3, <1>4 DEF Jobs, Held, Busy

\* A change of the rows that the jobs allow: a draft there is stays one, or is
\* deleted, and sends are about drafts there are.
LEMMA RowsJobs ==
  ASSUME Types, Jobs, UNCHANGED <<todo, active, wiped, origin>>,
         \A d \in Drafts : status'[d] = "none" <=> status[d] = "none",
         \A d \in Drafts : status'[d] = "deleted" <=> status[d] = "deleted",
         \A s \in Sends : Busy(s)' => on'[s] \in Drafts /\ status[on'[s]] # "none"
  PROVE  Jobs'
  <1>1. NoStaleDraft' BY DEF Jobs, NoStaleDraft
  <1>2. \A r \in Runs : Held(r) \subseteq Drafts BY DEF Held, Types, RunType
  <1>3. \A r \in Runs : Held(r)' = Held(r) BY DEF Held
  <1> QED BY <1>1, <1>2, <1>3 DEF Jobs

\* Every step keeps the jobs.
LEMMA StepJobs == Types /\ Leases /\ Jobs /\ [Next]_vars => Jobs'
  <1> SUFFICES ASSUME Types, Leases, Jobs, [Next]_vars PROVE Jobs' OBVIOUS
  <1>1. ASSUME NEW r \in Runs, Load(r) PROVE Jobs'
    BY <1>1, LeaveJobs, KeepJobs DEF Load
  <1>2. ASSUME NEW r \in Runs, Planned(r) PROVE Jobs'
    <2>1. CASE Leave(r) BY <1>2, <2>1, LeaveJobs DEF Planned
    <2>2. CASE ~Leave(r)
      <3>1. PICK jobs \in SUBSET Fresh : todo' = [todo EXCEPT ![r] = jobs]
        BY <1>2, <2>2 DEF Planned
      <3>2. UNCHANGED <<active, status, origin, wiped, at, on>> BY <1>2, <2>2 DEF Planned
      <3>3. todo'[r] = jobs /\ \A q \in Runs \ {r} : todo'[q] = todo[q]
        BY <3>1 DEF Types, RunType
      <3>4. \A d \in jobs : status[d] = "none" /\ \A q \in Runs : d \notin Held(q)
        BY <3>1 DEF Fresh, Held
      <3>5. NoStaleDraft' BY <3>2 DEF Jobs, NoStaleDraft
      <3> QED BY <3>2, <3>3, <3>4, <3>5 DEF Jobs, Held, Busy
    <2> QED BY <2>1, <2>2
  <1>3. ASSUME NEW r \in Runs, NextBatch(r) PROVE Jobs'
    <2>1. CASE Leave(r) BY <1>3, <2>1, LeaveJobs DEF NextBatch
    <2>2. CASE ~Leave(r)
      <3>1. PICK batch \in SUBSET todo[r] : /\ active' = [active EXCEPT ![r] = batch]
                                            /\ todo' = [todo EXCEPT ![r] = @ \ batch]
        BY <1>3, <2>2 DEF NextBatch
      <3>2. UNCHANGED <<status, origin, wiped, at, on>> BY <1>3, <2>2 DEF NextBatch
      <3>3. /\ active'[r] = batch /\ todo'[r] = todo[r] \ batch
            /\ \A q \in Runs \ {r} : todo'[q] = todo[q] /\ active'[q] = active[q]
        BY <3>1 DEF Types, RunType
      <3>4. NoStaleDraft' BY <3>2 DEF Jobs, NoStaleDraft
      <3>5. \A q \in Runs : Held(q)' \subseteq Held(q) BY <3>3 DEF Held
      <3>6. \A q \in Runs : todo'[q] \cap active'[q] = {} BY <3>3 DEF Jobs
      <3> QED BY <3>2, <3>4, <3>5, <3>6 DEF Jobs, Busy
    <2> QED BY <2>1, <2>2
  <1>4. ASSUME NEW r \in Runs, NEW d \in Drafts, DraftDone(r, d) PROVE Jobs'
    <2>1. /\ active' = [active EXCEPT ![r] = @ \ {d}] /\ d \in active[r]
          /\ UNCHANGED <<todo, wiped, at, on>>
      BY <1>4 DEF DraftDone
    <2>2. /\ active'[r] = active[r] \ {d}
          /\ \A q \in Runs \ {r} : active'[q] = active[q]
      BY <2>1 DEF Types, RunType
    <2>3. \A q \in Runs : Held(q)' \subseteq Held(q) /\ d \notin Held(q)'
      BY <2>1, <2>2 DEF Held, Jobs
    <2>4. \A q \in Runs : todo'[q] \cap active'[q] = {} BY <2>1, <2>2 DEF Jobs
    <2>5. CASE UNCHANGED <<status, origin>>
      BY <2>1, <2>3, <2>4, <2>5 DEF Jobs, Busy, NoStaleDraft
    <2>6. CASE /\ Holds(r) /\ status' = [status EXCEPT ![d] = "draft"]
               /\ origin' = [origin EXCEPT ![d] = [token |-> token[r], wiped |-> read[r]]]
      <3>1. read[r] = wiped BY <1>4, <2>6 DEF DraftDone, Holds, Leases, Working
      <3>2. \A e \in Drafts : /\ status'[e] = IF e = d THEN "draft" ELSE status[e]
                              /\ origin'[e].wiped = IF e = d THEN wiped ELSE origin[e].wiped
        BY <2>6, <3>1 DEF Types, RowType
      <3>3. NoStaleDraft' BY <2>1, <3>2 DEF Jobs, NoStaleDraft
      <3>4. \A s \in Sends : Busy(s)' => status'[on'[s]] # "none"
        BY <2>1, <3>2 DEF Jobs, Busy, Types, SendType
      <3>5. \A q \in Runs : \A e \in Held(q)' : status'[e] = "none"
        BY <2>3, <3>2 DEF Jobs, Held, Types, RunType
      <3> QED BY <2>3, <2>4, <3>3, <3>4, <3>5 DEF Jobs
    <2> QED BY <1>4, <2>5, <2>6 DEF DraftDone
  <1>5. ASSUME NEW d \in Drafts, Dismiss(d) PROVE Jobs'
    <2>1. \A e \in Drafts : status'[e] = IF e = d THEN "dismissed" ELSE status[e]
      BY <1>5 DEF Dismiss, Types, RowType
    <2>2. status[d] = "draft" /\ UNCHANGED <<todo, active, wiped, origin, at, on>>
      BY <1>5 DEF Dismiss
    <2>3. \A s \in Sends : Busy(s)' => on'[s] \in Drafts /\ status[on'[s]] # "none"
      BY <2>2 DEF Jobs, Busy, Types, SendType
    <2> QED BY <2>1, <2>2, <2>3, RowsJobs
  <1>6. ASSUME NEW s \in Sends, NEW d \in Drafts, Send(s, d) PROVE Jobs'
    <2>1. \A t \in Sends : on'[t] = (IF t = s THEN d ELSE on[t]) /\ (t # s => at'[t] = at[t])
      BY <1>6 DEF Send, Types, SendType
    <2>2. status[d] = "draft" /\ UNCHANGED <<todo, active, wiped, origin, status>>
      BY <1>6 DEF Send
    <2>3. \A t \in Sends : Busy(t)' => on'[t] \in Drafts /\ status[on'[t]] # "none"
      BY <2>1, <2>2 DEF Jobs, Busy, Types, SendType
    <2> QED BY <2>2, <2>3, RowsJobs
  <1>7. ASSUME NEW s \in Sends, Checked(s) \/ Failed(s) \/ Succeeded(s) PROVE Jobs'
    <2>1. UNCHANGED <<todo, active, wiped, origin>> BY <1>7 DEF Checked, Failed, Succeeded
    <2>2. Busy(s) /\ on[s] \in Drafts BY <1>7 DEF Checked, Failed, Succeeded, Busy, Types, SendType
    <2>3. status[on[s]] # "none" BY <2>2 DEF Jobs
    <2>4. \A d \in Drafts : /\ status'[d] = "none" <=> status[d] = "none"
                            /\ status'[d] = "deleted" <=> status[d] = "deleted"
      BY <1>7, <2>2, <2>3
      DEF Checked, Failed, Succeeded, Claim, Unclaim, Finalize, Types, RowType
    <2>5. \A t \in Sends : Busy(t)' => Busy(t) /\ on'[t] = on[t]
      BY <1>7, <2>2 DEF Checked, Failed, Succeeded, Finished, Busy, Types, SendType
    <2>6. \A t \in Sends : Busy(t)' => on'[t] \in Drafts /\ status[on'[t]] # "none"
      BY <2>5 DEF Jobs, Types, SendType
    <2> QED BY <2>1, <2>4, <2>6, RowsJobs
  <1>8. ASSUME NEW s \in Sends, Arrives(s) PROVE Jobs'
    <2>1. UNCHANGED <<todo, active, wiped, origin, status, on>> BY <1>8 DEF Arrives
    <2>2. \A t \in Sends : Busy(t)' => Busy(t) BY <1>8 DEF Arrives, Busy, Types, SendType
    <2>3. \A t \in Sends : Busy(t)' => on'[t] \in Drafts /\ status[on'[t]] # "none"
      BY <2>1, <2>2 DEF Jobs, Types, SendType
    <2> QED BY <2>1, <2>3, RowsJobs
  <1>9. ASSUME ResetReturns PROVE Jobs'
    <2>1. /\ UNCHANGED <<todo, active, at, on>>
          /\ \A d \in Drafts : status'[d] = IF status[d] = "none" THEN "none" ELSE "deleted"
      BY <1>9 DEF ResetReturns, Wipe
    <2>2. NoStaleDraft' BY <2>1 DEF NoStaleDraft
    <2>3. \A s \in Sends : Busy(s)' => status'[on'[s]] # "none"
      BY <2>1 DEF Jobs, Busy, Types, SendType
    <2>4. \A r \in Runs : \A d \in Held(r)' : status'[d] = "none"
      BY <2>1 DEF Jobs, Held, Types, RunType
    <2> QED BY <2>1, <2>2, <2>3, <2>4 DEF Jobs, Held
  <1>10. ASSUME Crash PROVE Jobs'
    <2>1. \A s \in Sends : ~Busy(s)' BY <1>10 DEF Crash, Busy
    <2>2. \A r \in Runs : todo'[r] = {} /\ active'[r] = {} BY <1>10 DEF Crash
    <2>3. NoStaleDraft' BY <1>10 DEF Crash, Jobs, NoStaleDraft
    <2> QED BY <2>1, <2>2, <2>3 DEF Jobs, Held
  <1>11. CASE UNCHANGED <<todo, active, status, origin, wiped, at, on>>
    BY <1>11, KeepJobs
  <1> QED
    BY <1>1, <1>2, <1>3, <1>4, <1>5, <1>6, <1>7, <1>8, <1>9, <1>10, <1>11,
       AutoResearchAssumption
    DEF Next, Run, Delivery, Start, Heartbeat, Edit, ClaimAges, Lapse, Reset, vars

-----------------------------------------------------------------------------
(* Posts *)

\* Somebody is delivering this draft.
Posts(s, d) == on[s] = d /\ Posting(s)

\* A draft whose answers all came, and whose claim nobody retook, is delivered
\* only while it is sending, by one send, which posts what the row says.
Clean(d) ==
    /\ status[d] \in {"none", "draft", "dismissed"} => shown[d] = 0
    /\ status[d] = "sent" => shown[d] = body[d]
    /\ \A s \in Sends : Posts(s, d) =>
          /\ status[d] \in {"sending", "deleted"}
          /\ status[d] = "sending" =>
                /\ text[s] = body[d]
                /\ shown[d] = IF at[s] = "posting" THEN 0 ELSE text[s]
                /\ \A t \in Sends : Posts(t, d) => t = s

Deliveries ==
    /\ \A d \in Drafts : d \in muddled \/ Clean(d)
    /\ \A d \in Drafts, s \in Sends :
          status[d] = "deleted" /\ Posts(s, d) => d \in overtaken
    /\ SendingHasSender
    /\ NoStaleTarget

\* Nothing is delivered before the first run.
LEMMA InitDeliveries == Init => Deliveries
  BY DEF Init, Deliveries, Clean, Posts, Posting, SendingHasSender, NoStaleTarget

\* What the deliveries do not depend on.
LEMMA KeepDeliveries ==
  ASSUME Deliveries, UNCHANGED <<status, body, sends, slack, history, crashes>>
  PROVE  Deliveries'
  BY DEF Deliveries, Clean, Posts, Posting, SendingHasSender, NoStaleTarget

\* A change of one row that nobody delivers, which stays out of sending and of
\* what the reset deletes.
LEMMA RowDeliveries ==
  ASSUME Types, Deliveries, NEW d \in Drafts, UNCHANGED <<sends, slack, history, crashes>>,
         status[d] \in {"none", "draft"}, status'[d] \in {"draft", "dismissed"},
         \A e \in Drafts \ {d} : status'[e] = status[e] /\ body'[e] = body[e]
  PROVE  Deliveries'
  <1>1. \A e \in Drafts, s \in Sends : Posts(s, e)' <=> Posts(s, e) BY DEF Posts, Posting
  <1>2. \A e \in Drafts : e \in muddled' \/ Clean(e)'
    <2> TAKE e \in Drafts
    <2>1. CASE e # d BY <1>1, <2>1 DEF Deliveries, Clean
    <2>2. CASE e = d BY <1>1, <2>2 DEF Deliveries, Clean
    <2> QED BY <2>1, <2>2
  <1>3. SendingHasSender' BY DEF Deliveries, SendingHasSender
  <1>4. NoStaleTarget' BY DEF Deliveries, NoStaleTarget, Types, SlackType
  <1> QED BY <1>1, <1>2, <1>3, <1>4 DEF Deliveries

\* A send that is not on the way begins, or ends.
LEMMA IdleDeliveries ==
  ASSUME Deliveries, UNCHANGED <<status, body, slack, history, crashes>>,
         \A s \in Sends : Posting(s) <=> Posting(s)',
         \A s \in Sends : Posting(s) => UNCHANGED <<at[s], on[s], text[s]>>
  PROVE  Deliveries'
  <1>1. \A d \in Drafts, s \in Sends : Posts(s, d)' <=> Posts(s, d) BY DEF Posts
  <1>2. \A d \in Drafts : d \in muddled' \/ Clean(d)'
    BY <1>1 DEF Deliveries, Clean, Posts
  <1>3. SendingHasSender' BY DEF Deliveries, SendingHasSender, Posting
  <1>4. NoStaleTarget' BY DEF Deliveries, NoStaleTarget
  <1> QED BY <1>1, <1>2, <1>3, <1>4 DEF Deliveries

\* A send claims its draft: from the reviewer, or from another send.
LEMMA ClaimDeliveries ==
  ASSUME Types, Deliveries, NEW s \in Sends, Checked(s), Claim(s, on[s]),
         muddled' = IF status[on[s]] = "sending" THEN muddled \cup {on[s]} ELSE muddled,
         at' = [at EXCEPT ![s] = "posting"], UNCHANGED on
  PROVE  Deliveries'
  <1>0. PICK d \in Drafts : d = on[s]
    BY DEF Checked, Types, SendType, Busy
  <1>1. ~Posting(s) /\ UNCHANGED <<body, slack, overtaken, crashes>>
    BY <1>0 DEF Checked, Types, SendType, Busy, Posting
  <1>2. /\ status[d] \in {"draft", "sending"}
        /\ \A e \in Drafts : status'[e] = IF e = d THEN "sending" ELSE status[e]
    BY <1>0 DEF Claim, Types, RowType
  <1>3. /\ at'[s] = "posting" /\ text'[s] = body[d]
        /\ \A t \in Sends \ {s} : at'[t] = at[t] /\ text'[t] = text[t]
    BY <1>0 DEF Claim, Types, SendType
  <1>4. /\ \A t \in Sends \ {s}, e \in Drafts : Posts(t, e)' <=> Posts(t, e)
        /\ \A e \in Drafts : Posts(s, e)' <=> e = d
    BY <1>0, <1>3 DEF Posts, Posting
  <1>5. \A e \in Drafts : e \in muddled' \/ Clean(e)'
    <2> TAKE e \in Drafts
    <2>1. CASE e # d
      <3>1. \A t \in Sends : (Posts(t, e)' <=> Posts(t, e)) /\ (Posts(t, e) => t # s)
        BY <1>0, <1>1, <1>4, <2>1 DEF Posts
      <3> QED BY <1>0, <1>1, <1>2, <1>3, <2>1, <3>1 DEF Deliveries, Clean
    <2>2. CASE e = d /\ d \notin muddled'
      <3>1. d \notin muddled /\ status[d] = "draft" BY <1>0, <1>2, <2>2
      <3>2. shown[d] = 0 /\ \A t \in Sends : ~Posts(t, d)
        BY <1>0, <1>1, <3>1 DEF Deliveries, Clean
      <3>3. \A t \in Sends : Posts(t, d)' <=> t = s BY <1>0, <1>1, <1>4, <3>2
      <3> QED BY <1>0, <1>1, <1>2, <1>3, <2>2, <3>2, <3>3 DEF Clean
    <2> QED BY <1>0, <2>1, <2>2
  <1>6. SendingHasSender'
    BY <1>0, <1>1, <1>2, <1>3 DEF Deliveries, SendingHasSender, Posting
  <1>7. NoStaleTarget' BY <1>0, <1>1, <1>2 DEF Deliveries, NoStaleTarget, Types, SlackType
  <1>8. \A e \in Drafts, t \in Sends : status'[e] = "deleted" /\ Posts(t, e)' => e \in overtaken'
    BY <1>0, <1>1, <1>2, <1>4 DEF Deliveries
  <1> QED BY <1>0, <1>5, <1>6, <1>7, <1>8 DEF Deliveries

\* The message arrives.
LEMMA ArrivesDeliveries ==
  ASSUME Types, Deliveries, NEW s \in Sends, Arrives(s)
  PROVE  Deliveries'
  <1>0. PICK d \in Drafts : d = on[s]
    BY DEF Arrives, Types, SendType, Busy
  <1>1. /\ Posts(s, d)
        /\ UNCHANGED <<status, body, on, text, watch, history, crashes>>
    BY <1>0 DEF Arrives, Types, SendType, Busy, Posts, Posting
  <1>2. /\ at[s] = "posting" /\ at'[s] = "posted"
        /\ \A t \in Sends \ {s} : at'[t] = at[t]
    BY <1>0 DEF Arrives, Types, SendType
  <1>3. \A e \in Drafts, t \in Sends : Posts(t, e)' <=> Posts(t, e)
    BY <1>0, <1>1, <1>2 DEF Posts, Posting
  <1>4. \A e \in Drafts : shown'[e] = IF e = d /\ shown[e] = 0 THEN text[s] ELSE shown[e]
    BY <1>0 DEF Arrives, Types, SlackType
  <1>5. \A e \in Drafts : e \in muddled' \/ Clean(e)'
    <2> TAKE e \in Drafts
    <2>1. CASE e # d
      <3>1. \A t \in Sends : Posts(t, e) => t # s BY <1>0, <2>1 DEF Posts
      <3> QED BY <1>0, <1>1, <1>2, <1>3, <1>4, <2>1, <3>1 DEF Deliveries, Clean
    <2>2. CASE e = d /\ d \notin muddled
      <3>1. Clean(d) /\ status[d] \in {"sending", "deleted"}
        BY <1>0, <1>1, <2>2 DEF Deliveries, Clean
      <3>2. status[d] = "sending" => \A t \in Sends : Posts(t, d) => t = s
        BY <1>0, <1>1, <3>1 DEF Clean
      <3>3. status[d] = "sending" => text[s] = body[d] /\ shown[d] = 0
        BY <1>0, <1>1, <1>2, <3>1 DEF Clean
      <3> QED BY <1>0, <1>1, <1>2, <1>3, <1>4, <2>2, <3>1, <3>2, <3>3 DEF Clean
    <2> QED BY <1>0, <1>1, <2>1, <2>2
  <1>6. SendingHasSender'
    BY <1>0, <1>1, <1>2 DEF Deliveries, SendingHasSender
  <1>7. NoStaleTarget' BY <1>0, <1>1 DEF Deliveries, NoStaleTarget
  <1> QED BY <1>0, <1>1, <1>3, <1>5, <1>6, <1>7 DEF Deliveries

\* A send that was on its way has ended, and its row says how.
LEMMA EndDeliveries ==
  ASSUME Types, Deliveries, NEW s \in Sends, Failed(s) \/ Succeeded(s)
  PROVE  Deliveries'
  <1>0. PICK d \in Drafts : d = on[s]
    BY DEF Failed, Succeeded, Types, SendType, Busy
  <1>1. /\ Posts(s, d) /\ UNCHANGED <<body, shown, overtaken, crashes>>
    BY <1>0 DEF Failed, Succeeded, Types, SendType, Busy, Posts, Posting
  <1>2. /\ at'[s] = "done"
        /\ \A t \in Sends \ {s} : at'[t] = at[t] /\ on'[t] = on[t] /\ text'[t] = text[t]
    BY <1>0 DEF Failed, Succeeded, Finished, Types, SendType
  <1>3. \A e \in Drafts, t \in Sends : Posts(t, e)' <=> t # s /\ Posts(t, e)
    BY <1>0, <1>2 DEF Posts, Posting
  <1>4. \A e \in Drafts \ {d} : status'[e] = status[e]
    BY <1>0, <1>1 DEF Failed, Succeeded, Unclaim, Finalize, Types, RowType
  <1>5. /\ status[d] = "deleted" => status'[d] = "deleted"
        /\ status'[d] # "sending"
        /\ status[d] = "sending" =>
              \/ Failed(s) /\ status'[d] = "draft"
              \/ Succeeded(s) /\ status'[d] = "sent"
        /\ status'[d] = "deleted" => status[d] = "deleted"
    BY <1>0, <1>1 DEF Failed, Succeeded, Unclaim, Finalize, Types, RowType
  <1>6. /\ muddled \subseteq muddled'
        /\ Failed(s) /\ d \notin muddled' => at[s] = "posting"
        /\ Succeeded(s) => at[s] = "posted"
    BY <1>0 DEF Failed, Succeeded, Posts, Posting
  <1>7. \A e \in Drafts : e \in muddled' \/ Clean(e)'
    <2> TAKE e \in Drafts
    <2>1. CASE e # d
      <3>1. \A t \in Sends : (Posts(t, e)' <=> Posts(t, e)) /\ (Posts(t, e) => t # s)
        BY <1>0, <1>3, <2>1 DEF Posts
      <3> QED BY <1>0, <1>1, <1>2, <1>4, <1>6, <2>1, <3>1 DEF Deliveries, Clean
    <2>2. CASE e = d /\ d \notin muddled'
      <3>1. Clean(d) BY <1>0, <1>1, <1>6, <2>2 DEF Deliveries
      <3>2. CASE status[d] = "deleted"
        BY <1>0, <1>1, <1>3, <1>5, <2>2, <3>2 DEF Clean
      <3>3. CASE status[d] = "sending"
        <4>1. /\ text[s] = body[d] /\ shown[d] = IF at[s] = "posting" THEN 0 ELSE text[s]
              /\ \A t \in Sends : Posts(t, d) => t = s
          BY <1>0, <1>1, <3>1, <3>3 DEF Clean
        <4>2. \A t \in Sends : ~Posts(t, d)' BY <1>0, <1>1, <1>3, <4>1
        <4>3. \/ status'[d] = "draft" /\ shown'[d] = 0
              \/ status'[d] = "sent" /\ shown'[d] = body'[d]
          BY <1>0, <1>1, <1>5, <1>6, <2>2, <3>3, <4>1
        <4> QED BY <1>0, <2>2, <4>2, <4>3 DEF Clean
      <3> QED BY <1>0, <1>1, <3>1, <3>2, <3>3 DEF Clean
    <2> QED BY <1>0, <1>1, <2>1, <2>2
  <1>8. SendingHasSender'
    BY <1>0, <1>1, <1>2, <1>4, <1>5 DEF Deliveries, SendingHasSender
  <1>9. watch' \subseteq watch \cup {d}
    BY <1>0 DEF Failed, Succeeded, Earn, Prune
  <1>10. NoStaleTarget'
    <2> SUFFICES ASSUME NEW e \in watch' PROVE status'[e] # "deleted" \/ e \in overtaken
      BY <1>0, <1>1 DEF NoStaleTarget
    <2>1. CASE e = d BY <1>0, <1>1, <1>5, <2>1 DEF Deliveries
    <2>2. CASE e # d BY <1>0, <1>4, <1>9, <2>2 DEF Deliveries, NoStaleTarget, Types, SlackType
    <2> QED BY <1>0, <2>1, <2>2
  <1>11. \A e \in Drafts, t \in Sends : status'[e] = "deleted" /\ Posts(t, e)' => e \in overtaken'
    BY <1>0, <1>1, <1>3, <1>4, <1>5 DEF Deliveries
  <1> QED BY <1>0, <1>7, <1>8, <1>10, <1>11 DEF Deliveries

\* Every step keeps the deliveries.
LEMMA StepDeliveries == Types /\ Jobs /\ Deliveries /\ [Next]_vars => Deliveries'
  <1> SUFFICES ASSUME Types, Jobs, Deliveries, [Next]_vars PROVE Deliveries' OBVIOUS
  <1>1. ASSUME NEW r \in Runs, NEW d \in Drafts, DraftDone(r, d) PROVE Deliveries'
    <2>1. UNCHANGED <<body, sends, slack, history, crashes>> /\ status[d] = "none"
      BY <1>1 DEF DraftDone, Jobs, Held
    <2>2. CASE UNCHANGED status BY <2>1, <2>2, KeepDeliveries
    <2>3. CASE status' = [status EXCEPT ![d] = "draft"]
      BY <2>1, <2>3, RowDeliveries DEF Types, RowType
    <2> QED BY <1>1, <2>2, <2>3 DEF DraftDone
  <1>2. ASSUME NEW d \in Drafts, Dismiss(d) \/ Edit(d) PROVE Deliveries'
    <2>1. UNCHANGED <<sends, slack, history, crashes>> /\ status[d] = "draft"
      BY <1>2 DEF Dismiss, Edit
    <2>2. /\ status'[d] \in {"draft", "dismissed"}
          /\ \A e \in Drafts \ {d} : status'[e] = status[e] /\ body'[e] = body[e]
      BY <1>2 DEF Dismiss, Edit, Types, RowType
    <2> QED BY <2>1, <2>2, RowDeliveries
  <1>3. ASSUME NEW s \in Sends, NEW d \in Drafts, Send(s, d) PROVE Deliveries'
    <2>1. UNCHANGED <<status, body, slack, history, crashes>> BY <1>3 DEF Send
    <2>2. \A t \in Sends : /\ Posting(t) <=> Posting(t)'
                           /\ Posting(t) => UNCHANGED <<at[t], on[t], text[t]>>
      BY <1>3 DEF Send, Posting, Types, SendType
    <2> QED BY <2>1, <2>2, IdleDeliveries
  <1>4. ASSUME NEW s \in Sends, Checked(s) PROVE Deliveries'
    <2>1. CASE Finished(s) /\ UNCHANGED <<status, aged, muddled>>
      <3>1. UNCHANGED <<status, body, slack, history, crashes>> BY <1>4, <2>1 DEF Checked
      <3>2. \A t \in Sends : /\ Posting(t) <=> Posting(t)'
                             /\ Posting(t) => UNCHANGED <<at[t], on[t], text[t]>>
        BY <1>4, <2>1 DEF Checked, Finished, Posting, Types, SendType
      <3> QED BY <3>1, <3>2, IdleDeliveries
    <2>2. CASE /\ Claim(s, on[s])
               /\ muddled' = IF status[on[s]] = "sending" THEN muddled \cup {on[s]} ELSE muddled
               /\ at' = [at EXCEPT ![s] = "posting"]
               /\ UNCHANGED on
      BY <1>4, <2>2, ClaimDeliveries
    <2> QED BY <1>4, <2>1, <2>2 DEF Checked
  <1>5. ASSUME ResetReturns PROVE Deliveries'
    <2>1. /\ \A d \in Drafts : status'[d] \in {"none", "deleted"}
          /\ \A d \in Drafts : status'[d] = "none" <=> status[d] = "none"
          /\ UNCHANGED <<at, on, text, shown, muddled, crashes>> /\ watch' = {}
      BY <1>5 DEF ResetReturns, Wipe
    <2>2. \A d \in Drafts, s \in Sends : (Posts(s, d)' <=> Posts(s, d)) /\ (Posts(s, d) => d \in overtaken')
      BY <1>5, <2>1 DEF ResetReturns, Posts, Posting
    <2>3. \A d \in Drafts : d \in muddled' \/ Clean(d)'
      BY <2>1, <2>2 DEF Deliveries, Clean
    <2>4. SendingHasSender' /\ NoStaleTarget' BY <2>1 DEF SendingHasSender, NoStaleTarget
    <2> QED BY <2>2, <2>3, <2>4 DEF Deliveries
  <1>6. ASSUME Crash PROVE Deliveries'
    <2>1. /\ \A s \in Sends : ~Posting(s)'
          /\ crashes' # 0 /\ UNCHANGED <<status, body, slack, history>>
      BY <1>6 DEF Crash, Posting, Types, ResetType
    <2>2. \A d \in Drafts, s \in Sends : ~Posts(s, d)' BY <2>1 DEF Posts
    <2>3. \A d \in Drafts : d \in muddled' \/ Clean(d)'
      BY <2>1, <2>2 DEF Deliveries, Clean
    <2>4. SendingHasSender' /\ NoStaleTarget'
      BY <2>1 DEF Deliveries, SendingHasSender, NoStaleTarget
    <2> QED BY <2>2, <2>3, <2>4 DEF Deliveries
  <1>7. CASE UNCHANGED <<status, body, sends, slack, history, crashes>>
    BY <1>7, KeepDeliveries
  <1> QED
    BY <1>1, <1>2, <1>3, <1>4, <1>5, <1>6, <1>7, ArrivesDeliveries, EndDeliveries,
       AutoResearchAssumption
    DEF Next, Run, Delivery, Start, Load, Planned, NextBatch, Heartbeat, ClaimAges,
        Lapse, Reset, vars

-----------------------------------------------------------------------------
(* What follows *)

IInv == Types /\ Leases /\ Jobs /\ Deliveries

\* The layers together are inductive.
LEMMA Invariant == Spec => []IInv
  <1>1. Init => IInv BY InitTypes, InitLeases, InitJobs, InitDeliveries DEF IInv
  <1>2. IInv /\ [Next]_vars => IInv'
    BY StepTypes, StepLeases, StepJobs, StepDeliveries DEF IInv
  <1> QED BY <1>1, <1>2, PTL DEF Spec

\* Nothing in the queue of the reviewer or in the watch list comes from before
\* the last wipe, however runs, thefts of the lease, deliveries and resets
\* interleave.
THEOREM NothingStale == Spec => []WipedStaysWiped
  <1>1. IInv => WipedStaysWiped BY DEF IInv, Jobs, Deliveries, WipedStaysWiped
  <1> QED BY <1>1, Invariant, PTL

\* A working run has its lease, but for a theft, a lapse or a wipe, and a lease
\* that holds has a run, until an eviction.
THEOREM LeaseKept == Spec => []LeaseIsTheRuns
  <1>1. IInv /\ TypeOK => LeaseIsTheRuns BY DEF IInv, Leases, LeaseIsTheRuns
  <1> QED BY <1>1, Invariant, ShapeHolds, PTL

\* A run stores a draft only with the newest lease: once another has begun, it
\* stores nothing.
THEOREM NoStoreByOthers == Spec => NoStoreAfterTakeover
  <1> DEFINE Stores(d) == status[d] = "none" /\ status'[d] = "draft"
  <1>1. IInv /\ [Next]_vars => \A d \in Drafts : Stores(d) => origin'[d].token = issued
    <2> SUFFICES ASSUME IInv, [Next]_vars, NEW d \in Drafts, Stores(d)
                 PROVE  origin'[d].token = issued
      OBVIOUS
    <2> USE DEF IInv
    <2>1. ASSUME NEW r \in Runs, NEW e \in Drafts, DraftDone(r, e) PROVE origin'[d].token = issued
      <3>1. d = e /\ Holds(r) /\ origin'[d].token = token[r]
        BY <2>1 DEF DraftDone, Types, RowType
      <3> QED BY <3>1 DEF Holds, Leases
    <2>2. ASSUME NEW s \in Sends, Checked(s) \/ Failed(s) \/ Succeeded(s) PROVE FALSE
      <3>1. on[s] \in Drafts /\ status[on[s]] # "none"
        BY <2>2 DEF Checked, Failed, Succeeded, Busy, Types, SendType, Jobs
      <3> QED
        BY <2>2, <3>1
        DEF Checked, Failed, Succeeded, Claim, Unclaim, Finalize, Types, RowType
    <2>3. ASSUME NEW e \in Drafts, Dismiss(e) PROVE FALSE
      BY <2>3 DEF Dismiss, Types, RowType
    <2>4. CASE ResetReturns BY <2>4 DEF ResetReturns, Wipe
    <2>5. CASE UNCHANGED status BY <2>5
    <2> QED
      BY <2>1, <2>2, <2>3, <2>4, <2>5, AutoResearchAssumption
      DEF Next, Run, Delivery, Start, Load, Planned, NextBatch, Heartbeat, Edit,
          ClaimAges, Send, Arrives, Lapse, Reset, Crash, vars
  <1>2. IInv /\ [Next]_vars
        => [\A d \in Drafts : Stores(d) => origin'[d].token = issued]_vars
    BY <1>1
  <1> QED BY <1>2, Invariant, PTL DEF Spec, NoStoreAfterTakeover

\* A sent draft reads as it was delivered, a dismissed one is not delivered, and
\* one in sending has a sender, but for lost answers, retaken claims and evictions.
THEOREM Delivered == Spec => []DeliveredAsRecorded
  <1>1. IInv => SentAsShown BY DEF IInv, Deliveries, Clean, SentAsShown
  <1>2. IInv => DismissedStaysUnsent
    BY DEF IInv, Deliveries, Clean, Posts, Posting, DismissedStaysUnsent
  <1>3. IInv => SendingHasSender BY DEF IInv, Deliveries
  <1>4. IInv => DeliveredAsRecorded BY <1>1, <1>2, <1>3 DEF DeliveredAsRecorded
  <1> QED BY <1>4, Invariant, PTL

=============================================================================
