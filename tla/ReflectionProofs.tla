-------------------------- MODULE ReflectionProofs --------------------------
(***************************************************************************)
(* A row keeps its job, and a job its epoch, its place in the order of the *)
(* turns and its probe.                                                    *)
(*                                                                         *)
(* None of RowAndJob, NoStaleNote, ProbeOnce and NewestArmWins is          *)
(* inductive. A row is no orphan because the schedule a call has made is   *)
(* known to its handler alone until it is handed over (Private), carries   *)
(* the payload of the job it continues (Payload), and is not what a reset  *)
(* is about to cancel (Lost). A repair that gives up has had as many       *)
(* rejected calls as it has tries (Tried). A probe belongs to a turn whose *)
(* job has had none, because armed_at is the clock's and no two turns that *)
(* are over have the same (Clocked, Probes). The only note of an earlier   *)
(* epoch is the one its callback is about to delete (Notes).               *)
(*                                                                         *)
(* A step of the callback, of a repair and of a turn is first reduced to   *)
(* one of a few ways out (Leaves, Ends, Rearms, Rejected; Stops, Asks;     *)
(* HandsOff), and each way out shown to preserve the invariant.            *)
(***************************************************************************)
EXTENDS Reflection, FiniteSetTheorems, TLAPS

\* A handler that waits for agent.schedule.
Calling == {"arming", "handoff", "repairing"}
\* A turn that is over and has not armed its job yet.
Pending == {"arming", "armRetry"}
\* The turns that are over.
Past == {t \in Turns : pc[t] \notin {"idle", "turn"}}

\* Where each handler may be parked, and what keeps it there.
Where ==
    /\ \A t \in Turns : pc[t] \in {"idle", "turn", "arming", "armRetry", "done"}
    /\ pc[Alarm] \in {"idle", "observe", "adding", "deleting", "handoff", "returning"}
    /\ \A p \in {Repair, Start} : pc[p] \in {"idle", "repair", "repairing"}
    /\ pc[Resetter] \in {"idle", "cancelling"}
    /\ pc[Start] # "idle" => pc[Repair] = "idle" /\ pc[Alarm] = "idle"
\* One schedule runs, that of the callback.
OneCallback ==
    /\ fired = NoId <=> pc[Alarm] = "idle"
    /\ fired # NoId => sched[fired] # "waiting"
    /\ \A i \in Ids : sched[i] = "running" => i = fired
\* armed_at comes from the clock, which counts the turns that are over.
Clocked ==
    /\ clock <= Cardinality(Past)
    /\ row # NoRow => row.armed \in 1..clock
    /\ probe <= clock
    /\ \A t \in Turns : arm[t].armed <= clock
\* Attempts are bounded, and a repair looks after a rejected call.
Tried ==
    /\ \A t \in Turns : /\ pc[t] \in {"idle", "turn"} => tries[t] = 0
                        /\ pc[t] \in Pending => tries[t] <= RepairTries
    /\ tries[Start] = 0
    /\ tries[Repair] < RepairTries
    /\ pc[Repair] = "idle" => tries[Repair] = 0
    /\ pc[Repair] # "idle" => failures > tries[Repair]
\* The schedule a call is about to hand over is known to its handler alone.
Private == \A p \in Procs : pc[p] \in Calling =>
    /\ got[p] \in Ids
    /\ sched[got[p]] = "waiting"
    /\ got[p] \notin {row.id, fired}
    /\ \A q \in Procs : got[p] # seen[q] /\ (q # p => got[p] # got[q])
\* The payload of a new schedule is that of the job it is made for.
Payload ==
    /\ \A t \in Turns : pc[t] = "arming" => job[got[t]] = arm[t].epoch
    /\ pc[Alarm] = "handoff" => job[got[Alarm]] = job[fired]
    /\ \A p \in {Repair, Start} : pc[p] = "repairing" =>
          seen[p] \in Ids /\ job[got[p]] = job[seen[p]]
\* The row is of this epoch, and so is its job.
OfEpoch == row # NoRow => row.epoch = epoch /\ job[row.id] = epoch
\* What a reset cancels, and what a callback has lost, is not the row's.
Lost ==
    /\ pc[Resetter] = "cancelling" => row = NoRow \/ row.id # got[Resetter]
    /\ pc[Alarm] = "deleting" => ~Owns
\* A row has its schedule, its callback or somebody who will look at it.
Kept == failures <= RepairTries /\ row # NoRow =>
    \/ sched[row.id] = "waiting"
    \/ row.id = fired /\ pc[Alarm] \in {"observe", "adding", "handoff"}
    \/ \E p \in {Repair, Start} :
          pc[p] = "repair" \/ (pc[p] = "repairing" /\ seen[p] = row.id)
\* A probe is that of a turn whose job has not had one.
Probes ==
    /\ \A n \in DOMAIN probed : probed[n] <= 1 /\ (n > clock => probed[n] = 0)
    /\ probe # 0 => probed[probe] = 0
    /\ \A t \in Turns : pc[t] \in Pending =>
          /\ arm[t].armed \in 1..clock
          /\ probed[arm[t].armed] = 0
          /\ probe # arm[t].armed
          /\ row = NoRow \/ row.armed # arm[t].armed
    /\ \A t, u \in Turns : pc[t] \in Pending /\ pc[u] \in Pending /\ t # u
                           => arm[t].armed # arm[u].armed
\* A note of an earlier epoch is the one that is being deleted.
Notes == ~misled => \A e \in 0..MaxResets :
    \/ e = epoch
    \/ notes[e] = 0
    \/ pc[Alarm] = "deleting" /\ e = job[fired] /\ notes[e] = 1

\* The inductive invariant.
Inv ==
    /\ TypeOK /\ Where /\ OneCallback /\ Clocked /\ Tried /\ Private /\ Payload
    /\ OfEpoch /\ Lost /\ Kept /\ Probes /\ Notes

-----------------------------------------------------------------------------
(* What the parts of the invariant need to know of a step *)

\* The handlers are told apart.
LEMMA Handlers ==
  /\ {Alarm, Repair, Start, Resetter} \cap Turns = {}
  /\ Turns \subseteq Procs /\ {Alarm, Repair, Start, Resetter} \subseteq Procs
  /\ Alarm # Repair /\ Alarm # Start /\ Alarm # Resetter
  /\ Repair # Start /\ Repair # Resetter /\ Start # Resetter
  /\ \A p \in Procs : p \in Turns \/ p \in {Alarm, Repair, Start, Resetter}
  BY ReflectionAssumption DEF Procs, Alarm, Repair, Start, Resetter

\* The bounds are numbers.
LEMMA Bounds ==
  /\ Cardinality(Turns) \in Nat /\ RepairTries \in Nat \ {0} /\ MaxRetries \in Nat
  /\ MaxBatches \in Nat /\ MaxResets \in Nat /\ MaxCrashes \in Nat /\ MaxFailures \in Nat
  /\ NoId \notin Ids
  BY ReflectionAssumption, FS_CardinalityType

\* The turns that are over.
LEMMA PastGrows ==
  ASSUME NEW S \in SUBSET Turns, NEW T \in SUBSET Turns, S \subseteq T
  PROVE  /\ Cardinality(S) \in Nat /\ Cardinality(S) <= Cardinality(T)
         /\ Cardinality(T) <= Cardinality(Turns) /\ Cardinality(Turns) \in Nat
         /\ \A t \in T \ S : Cardinality(S) + 1 <= Cardinality(T)
  <1>1. IsFiniteSet(Turns) BY ReflectionAssumption
  <1>2. IsFiniteSet(S) /\ IsFiniteSet(T) BY <1>1, FS_Subset
  <1>3. Cardinality(S) \in Nat /\ Cardinality(T) \in Nat /\ Cardinality(Turns) \in Nat
    BY <1>1, <1>2, FS_CardinalityType
  <1>4. Cardinality(S) <= Cardinality(T) /\ Cardinality(T) <= Cardinality(Turns)
    BY <1>1, <1>2, FS_Subset
  <1>5. ASSUME NEW t \in T \ S PROVE Cardinality(S) + 1 <= Cardinality(T)
    <2>1. Cardinality(S \cup {t}) = Cardinality(S) + 1 BY <1>2, <1>5, FS_AddElement
    <2>2. Cardinality(S \cup {t}) <= Cardinality(T) BY <1>2, <1>5, FS_Subset
    <2> QED BY <2>1, <2>2
  <1> QED BY <1>3, <1>4, <1>5

\* A new schedule is nobody's yet.
LEMMA Makes ==
  ASSUME Inv, NEW p \in Procs, NEW label, NEW e \in 0..MaxResets, CallSchedule(p, label, e)
  PROVE  \E i \in Ids :
            /\ sched[i] = "free" /\ i \notin {row.id, fired, NoId}
            /\ \A q \in Procs : i \notin {got[q], seen[q]}
            /\ sched' \in [Ids -> {"free", "waiting", "running"}]
            /\ sched'[i] = "waiting" /\ \A j \in Ids : j # i => sched'[j] = sched[j]
            /\ job' \in [Ids -> 0..MaxResets]
            /\ job'[i] = e /\ \A j \in Ids : j # i => job'[j] = job[j]
            /\ got' \in [Procs -> Ids \cup {NoId}]
            /\ got'[p] = i /\ \A q \in Procs : q # p => got'[q] = got[q]
            /\ pc'[p] = label /\ \A q \in Procs : q # p => pc'[q] = pc[q]
  <1>1. PICK i \in Ids : /\ Fresh(i)
                         /\ sched' = [sched EXCEPT ![i] = "waiting"]
                         /\ job' = [job EXCEPT ![i] = e]
                         /\ got' = [got EXCEPT ![p] = i]
                         /\ pc' = [pc EXCEPT ![p] = label]
    BY DEF CallSchedule
  <1>2. i # NoId BY ReflectionAssumption
  <1> QED BY <1>1, <1>2 DEF Fresh, Inv, TypeOK

\* A handler goes on elsewhere.
Moved(p, label) ==
    /\ pc' \in [Procs -> Labels] /\ pc'[p] = label /\ \A q \in Procs : q # p => pc'[q] = pc[q]
    /\ got' \in [Procs -> Ids \cup {NoId}]
    /\ got'[p] = NoId /\ \A q \in Procs : q # p => got'[q] = got[q]
    /\ seen' \in [Procs -> Ids \cup {NoId}]
    /\ seen'[p] = NoId /\ \A q \in Procs : q # p => seen'[q] = seen[q]
    /\ tries' \in [Procs -> 0..RepairTries + 1]
    /\ tries'[p] = 0 /\ \A q \in Procs : q # p => tries'[q] = tries[q]
LEMMA Moves ==
  ASSUME Inv, NEW p \in Procs, NEW label \in Labels, Goto(p, label)
  PROVE  Moved(p, label)
  <1>1. /\ pc \in [Procs -> Labels] /\ tries \in [Procs -> 0..RepairTries + 1]
        /\ got \in [Procs -> Ids \cup {NoId}] /\ seen \in [Procs -> Ids \cup {NoId}]
    BY DEF Inv, TypeOK
  <1>2. 0 \in 0..RepairTries + 1 BY Bounds
  <1> QED BY <1>1, <1>2 DEF Goto, Moved

\* A schedule is cancelled.
LEMMA Cancels ==
  ASSUME Inv, NEW i, sched' = Cancelled(sched, i)
  PROVE  /\ sched' \in [Ids -> {"free", "waiting", "running"}]
         /\ \A j \in Ids : sched'[j] = IF j = i THEN "free" ELSE sched[j]
  BY DEF Cancelled, Inv, TypeOK

\* The types of what the parts of the invariant compare.
TypedFacts ==
    /\ row.id \in Ids \cup {NoId} /\ (row = NoRow <=> row.id = NoId)
    /\ row.armed \in Nat /\ row.epoch \in 0..MaxResets
    /\ probe \in Nat /\ clock \in Nat /\ epoch \in 0..MaxResets /\ failures \in Nat
    /\ fired \in Ids \cup {NoId}
    /\ sched \in [Ids -> {"free", "waiting", "running"}] /\ job \in [Ids -> 0..MaxResets]
    /\ got \in [Procs -> Ids \cup {NoId}] /\ seen \in [Procs -> Ids \cup {NoId}]
    /\ tries \in [Procs -> Nat]
    /\ notes \in [0..MaxResets -> Nat]
    /\ \A t \in Turns : arm[t].armed \in Nat /\ arm[t].epoch \in 0..MaxResets
    /\ DOMAIN probed = 1..Cardinality(Turns) /\ \A n \in 1..Cardinality(Turns) : probed[n] \in Nat
LEMMA Typed ==
  ASSUME Inv
  PROVE  TypedFacts
  <1>0. TypeOK BY DEF Inv
  <1>1. row.id \in Ids \cup {NoId} /\ row.armed \in Nat /\ row.epoch \in 0..MaxResets
    <2>1. row \in [id : Ids \cup {NoId}, armed : 0..Cardinality(Turns), epoch : 0..MaxResets] BY <1>0 DEF TypeOK
    <2> QED BY ONLY <2>1
  <1>2. probe \in Nat /\ clock \in Nat /\ failures \in Nat
    <2>1. probe \in 0..Cardinality(Turns) /\ clock \in 0..Cardinality(Turns) /\ failures \in 0..MaxFailures
      BY <1>0 DEF TypeOK
    <2> QED BY ONLY <2>1
  <1>3. tries \in [Procs -> Nat]
    <2>1. tries \in [Procs -> 0..RepairTries + 1] BY <1>0 DEF TypeOK
    <2> QED BY ONLY <2>1
  <1>4. \A t \in Turns : arm[t].armed \in Nat /\ arm[t].epoch \in 0..MaxResets
    <2>1. arm \in [Turns -> [armed : 0..Cardinality(Turns), epoch : 0..MaxResets]] BY <1>0 DEF TypeOK
    <2> QED BY ONLY <2>1
  <1>5. probed \in [1..Cardinality(Turns) -> 0..2] BY <1>0 DEF TypeOK
  <1>6. DOMAIN probed = 1..Cardinality(Turns) BY ONLY <1>5
  <1>7. \A n \in 1..Cardinality(Turns) : probed[n] \in Nat BY ONLY <1>5
  <1> QED BY <1>0, <1>1, <1>2, <1>3, <1>4, <1>6, <1>7 DEF TypeOK, TypedFacts

\* Those that are numbers.
LEMMA Numbers ==
  ASSUME Inv
  PROVE  /\ probe \in Nat /\ clock \in Nat /\ failures \in Nat /\ epoch \in Nat
         /\ row.armed \in Nat /\ \A t \in Turns : arm[t].armed \in Nat
  <1>1. TypedFacts BY Typed
  <1>2. epoch \in Nat
    <2>1. epoch \in 0..MaxResets BY <1>1 DEF TypedFacts
    <2> QED BY ONLY <2>1
  <1> QED BY <1>1, <1>2 DEF TypedFacts

LEMMA Shapes ==
  ASSUME Inv
  PROVE  /\ pc \in [Procs -> Labels] /\ tries \in [Procs -> 0..RepairTries + 1]
         /\ arm \in [Turns -> [armed : 0..Cardinality(Turns), epoch : 0..MaxResets]]
         /\ failures \in 0..MaxFailures
  BY DEF Inv, TypeOK

LEMMA NothingTyped ==
  /\ NoRow \in [id : Ids \cup {NoId}, armed : 0..Cardinality(Turns), epoch : 0..MaxResets]
  /\ NoRow.id = NoId
  /\ NoRetry \in [attempt : 0..MaxRetries, exhausted : BOOLEAN]
  /\ 0 \in 0..Cardinality(Turns)
  BY Bounds DEF NoRow, NoRetry

-----------------------------------------------------------------------------
(* Turns *)

\* A probe is given up, or stays.
LEMMA ProbesFall ==
  ASSUME Inv, UNCHANGED <<probed, arm, clock>>,
         row' = row \/ row' = NoRow \/ (row # NoRow /\ row'.armed = row.armed),
         probe' = probe \/ probe' = 0, \A t \in Turns : pc'[t] = pc[t] \/ (pc[t] = "idle" /\ pc'[t] = "turn")
  PROVE  Probes' /\ Clocked' /\ probe' \in 0..Cardinality(Turns)
  <1> USE DEF Inv
  <1>1. Past' = Past BY DEF Past
  <1>2. Clocked'
    <2>1. probe' <= clock BY Numbers DEF Clocked
    <2> QED BY <1>1, <2>1 DEF Clocked
  <1>3. probe' \in 0..Cardinality(Turns) BY NothingTyped DEF TypeOK
  <1>4. Probes'
    <2>1. probe' # 0 => probed'[probe'] = 0 BY DEF Probes
    <2>0. \A u \in Turns : pc'[u] \in Pending => pc[u] \in Pending BY DEF Pending
    <2>2. ASSUME NEW u \in Turns, pc'[u] \in Pending
          PROVE  /\ arm'[u].armed \in 1..clock' /\ probed'[arm'[u].armed] = 0
                 /\ probe' # arm'[u].armed /\ (row' = NoRow \/ row'.armed # arm'[u].armed)
      <3>1. /\ arm[u].armed \in 1..clock /\ probed[arm[u].armed] = 0
            /\ probe # arm[u].armed /\ (row = NoRow \/ row.armed # arm[u].armed)
        BY <2>0, <2>2 DEF Probes
      <3>2. arm[u].armed # 0 BY <3>1
      <3> QED BY <3>1, <3>2
    <2> QED BY <2>0, <2>1, <2>2 DEF Probes
  <1> QED BY <1>2, <1>3, <1>4

LEMMA StartTurnInv ==
  ASSUME Inv, NEW t \in Turns, StartTurn(t)
  PROVE  Inv'
  <1> USE Handlers DEF Inv
  <1>t. TypedFacts BY Typed
  <1>0. /\ pc' = [pc EXCEPT ![t] = "turn"] /\ pc[t] = "idle" /\ Up
        /\ UNCHANGED <<epoch, notes, batches, probed, job, fired, got, seen, arm, tries, clock, crashes, failures, misled>>
        /\ \/ UNCHANGED <<row, retry, probe, sched>>
           \/ row' = NoRow /\ retry' = NoRetry /\ probe' = 0 /\ sched' = Cancelled(sched, row.id)
    BY DEF StartTurn, work
  <1>p. pc' \in [Procs -> Labels] /\ pc'[t] = "turn" /\ \A q \in Procs : q # t => pc'[q] = pc[q]
    BY <1>0 DEF TypeOK, Labels
  <1>11. Probes' /\ Clocked' /\ probe' \in 0..Cardinality(Turns) BY <1>0, <1>p, ProbesFall
  <1>1. TypeOK'
    <2>1. /\ row' \in [id : Ids \cup {NoId}, armed : 0..Cardinality(Turns), epoch : 0..MaxResets]
          /\ row' = NoRow <=> row'.id = NoId
          /\ retry' \in [attempt : 0..MaxRetries, exhausted : BOOLEAN]
      BY <1>0, NothingTyped DEF TypeOK
    <2>2. sched' \in [Ids -> {"free", "waiting", "running"}] BY <1>0, Cancels DEF TypeOK
    <2> QED BY <1>0, <1>p, <1>11, <2>1, <2>2 DEF TypeOK
  <1>2. Where' BY <1>0, <1>p DEF Where
  <1>3. OneCallback' BY <1>0, <1>p, <1>t, Cancels DEF TypedFacts, OneCallback
  <1>5. Tried' BY <1>0, <1>p DEF Tried, Pending
  <1>6. Private'
    <2>1. \A p \in Procs : pc'[p] \in Calling => pc[p] \in Calling BY <1>p DEF Calling
    <2>2. row'.id \in {row.id, NoId} BY <1>0, NothingTyped
    <2>3. \A p \in Procs : pc[p] \in Calling => sched'[got[p]] = "waiting"
      BY <1>0, Cancels DEF Private
    <2> QED BY <1>0, <2>1, <2>2, <2>3, Bounds DEF Private
  <1>7. Payload' BY <1>0, <1>p DEF Payload
  <1>8. OfEpoch' BY <1>0 DEF OfEpoch
  <1>9. Lost' BY <1>0, <1>p DEF Lost, Owns
  <1>10. Kept' BY <1>0, <1>p DEF Kept
  <1>12. Notes' BY <1>0, <1>p DEF Notes
  <1> QED BY <1>1, <1>2, <1>3, <1>5, <1>6, <1>7, <1>8, <1>9, <1>10, <1>11, <1>12

\* A turn that is over asks for its job, at first with a new armed_at.
Asks(t) ==
    /\ pc[t] \in {"turn", "armRetry"} /\ Up
    /\ arm' = [arm EXCEPT ![t] = arm'[t]]
    /\ \A u \in Turns : u # t => arm'[u] = arm[u]
    /\ \/ pc[t] = "turn" /\ clock' = clock + 1 /\ arm'[t] = [armed |-> clock + 1, epoch |-> epoch]
       \/ pc[t] = "armRetry" /\ clock' = clock /\ arm'[t] = arm[t]
    /\ AttemptArm(t, arm'[t])
    /\ UNCHANGED <<row, retry, probe, epoch, notes, batches, probed, fired, crashes, misled>>

LEMMA AsksIs ==
  ASSUME Inv, NEW t \in Turns, EndTurn(t) \/ RetryArm(t)
  PROVE  Asks(t)
  <1> arm \in [Turns -> [armed : 0..Cardinality(Turns), epoch : 0..MaxResets]] BY DEF Inv, TypeOK
  <1>1. CASE EndTurn(t)
    <2>1. arm' = [arm EXCEPT ![t] = [armed |-> clock + 1, epoch |-> epoch]] /\ clock' = clock + 1
          /\ AttemptArm(t, [armed |-> clock + 1, epoch |-> epoch])
      BY <1>1 DEF EndTurn
    <2> QED BY <1>1, <2>1 DEF EndTurn, Asks, tables, work
  <1>2. CASE RetryArm(t)
    BY <1>2 DEF RetryArm, Asks, tables, work
  <1> QED BY <1>1, <1>2

\* What this does to the times of jobs and to probes.
LEMMA AsksClocked ==
  ASSUME Inv, NEW t \in Turns, Asks(t),
         pc'[t] \in {"arming", "armRetry", "done"}, \A q \in Procs : q # t => pc'[q] = pc[q]
  PROVE  Clocked' /\ Probes' /\ clock' \in 0..Cardinality(Turns)
         /\ arm'[t] \in [armed : 0..Cardinality(Turns), epoch : 0..MaxResets]
  <1> USE Handlers DEF Inv
  <1>t. TypedFacts BY Typed
  <1>p. Past \in SUBSET Turns /\ Past' \in SUBSET Turns /\ Past \subseteq Past'
        /\ (pc[t] = "turn" => t \in Past' \ Past)
    BY DEF Past, Asks
  <1>1. clock' <= Cardinality(Past') /\ Cardinality(Past') <= Cardinality(Turns)
        /\ Cardinality(Past') \in Nat /\ Cardinality(Turns) \in Nat
    <2>1. clock <= Cardinality(Past) /\ clock \in Nat BY Numbers DEF Clocked
    <2>2. /\ Cardinality(Past) \in Nat /\ Cardinality(Past) <= Cardinality(Past')
          /\ Cardinality(Past') <= Cardinality(Turns) /\ Cardinality(Turns) \in Nat /\ Cardinality(Past') \in Nat
          /\ pc[t] = "turn" => Cardinality(Past) + 1 <= Cardinality(Past')
      BY <1>p, PastGrows
    <2>3. clock' = clock \/ (pc[t] = "turn" /\ clock' = clock + 1) BY DEF Asks
    <2> QED BY ONLY <2>1, <2>2, <2>3
  <1>2. clock' \in Nat /\ clock <= clock'
    <2>1. clock' = clock \/ clock' = clock + 1 BY DEF Asks
    <2> QED BY <2>1, Numbers
  <1>3. clock' \in 0..Cardinality(Turns) BY <1>1, <1>2
  <1>4. Clocked'
    <2>1. row' # NoRow => row'.armed \in 1..clock' BY <1>t, <1>2 DEF Clocked, Asks, TypedFacts
    <2>2. probe' <= clock' BY <1>t, <1>2 DEF Clocked, Asks, TypedFacts
    <2>3. ASSUME NEW u \in Turns PROVE arm'[u].armed <= clock'
      <3>1. arm[u].armed \in Nat /\ arm[u].armed <= clock /\ clock \in Nat
        BY <1>t DEF Clocked, TypedFacts
      <3>2. arm'[u] = arm[u] \/ arm'[u].armed = clock'
        BY DEF Asks
      <3> QED BY <1>2, <3>1, <3>2
    <2> QED BY <1>1, <2>1, <2>2, <2>3 DEF Clocked
  <1>5. arm'[t] \in [armed : 0..Cardinality(Turns), epoch : 0..MaxResets]
    <2>1. arm'[t] = [armed |-> clock', epoch |-> epoch] \/ arm'[t] = arm[t] BY DEF Asks
    <2>2. epoch \in 0..MaxResets BY <1>t DEF TypedFacts
    <2> QED BY <1>3, <2>1, <2>2, Shapes
  <1>6. Probes'
    <2>0. /\ probed' = probed /\ probe' = probe /\ row' = row
          /\ \A u \in Turns : pc'[u] \in Pending => u = t \/ pc[u] \in Pending
      BY DEF Asks
    <2>1. CASE pc[t] = "armRetry"
      <3>1. \A u \in Turns : (pc'[u] \in Pending => pc[u] \in Pending) /\ arm'[u] = arm[u]
        BY <2>0, <2>1 DEF Asks, Pending
      <3>2. clock' = clock BY <2>1 DEF Asks
      <3> QED BY <2>0, <3>1, <3>2 DEF Probes
    <2>2. CASE pc[t] = "turn"
      <3>1. clock' = clock + 1 /\ arm'[t].armed = clock + 1 /\ \A u \in Turns : u # t => arm'[u] = arm[u]
        BY <2>2 DEF Asks
      <3>2. clock + 1 \in 1..Cardinality(Turns) BY <1>3, <1>t, <3>1 DEF TypedFacts
      <3>3. \A n \in DOMAIN probed : probed[n] <= 1 /\ (n > clock + 1 => probed[n] = 0)
        BY <1>t DEF Probes, TypedFacts
      <3>4. probed[clock + 1] = 0
        <4>1. clock + 1 \in DOMAIN probed /\ clock + 1 > clock BY <1>t, <3>2 DEF TypedFacts
        <4> QED BY <4>1 DEF Probes
      <3>5. probe # clock + 1 /\ (row = NoRow \/ row.armed # clock + 1)
        <4>1. probe <= clock /\ (row = NoRow \/ row.armed <= clock) BY DEF Clocked
        <4> QED BY <4>1, Numbers
      <3>6. \A u \in Turns : u # t => arm[u].armed # clock + 1
        <4>1. \A u \in Turns : arm[u].armed <= clock BY DEF Clocked
        <4> QED BY <4>1, Numbers
      <3>7. \A u \in Turns : u # t /\ pc'[u] \in Pending => pc[u] \in Pending
        BY <2>0
      <3>8. clock + 1 \in 1..(clock + 1) /\ \A n \in 1..clock : n \in 1..(clock + 1)
        <4>1. clock \in Nat BY <1>t DEF TypedFacts
        <4> QED BY ONLY <4>1
      <3>9. ASSUME NEW u \in Turns, pc'[u] \in Pending
            PROVE  /\ arm'[u].armed \in 1..clock' /\ probed'[arm'[u].armed] = 0
                   /\ probe' # arm'[u].armed /\ (row' = NoRow \/ row'.armed # arm'[u].armed)
        <4>1. CASE u = t BY <2>0, <3>1, <3>4, <3>5, <3>8, <4>1
        <4>2. CASE u # t BY <2>0, <3>1, <3>7, <3>8, <3>9, <4>2 DEF Probes
        <4> QED BY <4>1, <4>2
      <3>10. ASSUME NEW u \in Turns, NEW v \in Turns, pc'[u] \in Pending, pc'[v] \in Pending, u # v
             PROVE  arm'[u].armed # arm'[v].armed
        <4>1. CASE u = t BY <3>1, <3>6, <3>10, <4>1
        <4>2. CASE v = t BY <3>1, <3>6, <3>10, <4>2
        <4>3. CASE u # t /\ v # t BY <3>1, <3>7, <3>10, <4>3 DEF Probes
        <4> QED BY <4>1, <4>2, <4>3
      <3>11. probe' # 0 => probed'[probe'] = 0 BY <2>0 DEF Probes
      <3> QED BY <2>0, <3>1, <3>3, <3>9, <3>10, <3>11 DEF Probes
    <2> QED BY <2>1, <2>2 DEF Asks
  <1> QED BY <1>3, <1>4, <1>5, <1>6

\* A call for a new schedule disturbs no other.
Alone(p, label, e) ==
    /\ Private'
    /\ sched' \in [Ids -> {"free", "waiting", "running"}] /\ job' \in [Ids -> 0..MaxResets]
    /\ got' \in [Procs -> Ids \cup {NoId}] /\ seen' \in [Procs -> Ids \cup {NoId}]
    /\ pc' \in [Procs -> Labels]
    /\ pc'[p] = label /\ \A q \in Procs : q # p => pc'[q] = pc[q] /\ got'[q] = got[q] /\ seen'[q] = seen[q]
    /\ job'[got'[p]] = e /\ failures' = failures
    /\ \A i \in Ids : sched'[i] = "running" => sched[i] = "running"
    /\ row # NoRow => sched'[row.id] = sched[row.id] /\ job'[row.id] = job[row.id]
    /\ fired # NoId => sched'[fired] = sched[fired] /\ job'[fired] = job[fired]
    /\ \A q \in Procs : pc[q] \in Calling /\ q # p => job'[got[q]] = job[got[q]]
    /\ \A q \in Procs : seen[q] \in Ids => job'[seen[q]] = job[seen[q]]
LEMMA CallsAlone ==
  ASSUME Inv, NEW p \in Procs, NEW label \in Calling, NEW e \in 0..MaxResets,
         CallSchedule(p, label, e), UNCHANGED <<row, fired>>,
         seen' = seen \/ seen' = [seen EXCEPT ![p] = row.id]
  PROVE  Alone(p, label, e)
  <1>t. TypedFacts BY Typed
  <1>1. PICK i \in Ids :
            /\ sched[i] = "free" /\ i \notin {row.id, fired, NoId}
            /\ \A q \in Procs : i \notin {got[q], seen[q]}
            /\ sched' \in [Ids -> {"free", "waiting", "running"}]
            /\ sched'[i] = "waiting" /\ \A j \in Ids : j # i => sched'[j] = sched[j]
            /\ job' \in [Ids -> 0..MaxResets]
            /\ job'[i] = e /\ \A j \in Ids : j # i => job'[j] = job[j]
            /\ got' \in [Procs -> Ids \cup {NoId}]
            /\ got'[p] = i /\ \A q \in Procs : q # p => got'[q] = got[q]
            /\ pc'[p] = label /\ \A q \in Procs : q # p => pc'[q] = pc[q]
    BY Makes
  <1>2. seen' \in [Procs -> Ids \cup {NoId}] /\ seen'[p] \in {seen[p], row.id}
        /\ \A q \in Procs : q # p => seen'[q] = seen[q]
    BY <1>t DEF TypedFacts
  <1>3. pc' \in [Procs -> Labels] /\ failures' = failures
    <2>1. pc' = [pc EXCEPT ![p] = label] /\ failures' = failures BY DEF CallSchedule
    <2>2. label \in Labels BY DEF Calling, Labels
    <2> QED BY <2>1, <2>2, Shapes
  <1>4. Private'
    <2> SUFFICES ASSUME NEW q \in Procs, pc'[q] \in Calling
                 PROVE  /\ got'[q] \in Ids /\ sched'[got'[q]] = "waiting"
                        /\ got'[q] \notin {row.id, fired}
                        /\ \A r \in Procs : got'[q] # seen'[r] /\ (r # q => got'[q] # got'[r])
      BY DEF Private
    <2>1. CASE q = p BY <1>1, <1>2, <2>1
    <2>2. CASE q # p
      <3>1. pc[q] \in Calling /\ got'[q] = got[q] BY <1>1, <2>2
      <3>2. /\ got[q] \in Ids /\ sched[got[q]] = "waiting" /\ got[q] \notin {row.id, fired}
            /\ \A r \in Procs : got[q] # seen[r] /\ (r # q => got[q] # got[r])
        BY <3>1 DEF Inv, Private
      <3>3. got[q] # i BY <1>1, <3>2
      <3> QED BY <1>1, <1>2, <3>1, <3>2, <3>3
    <2> QED BY <2>1, <2>2
  <1>5. row # NoRow => sched'[row.id] = sched[row.id] /\ job'[row.id] = job[row.id]
    BY <1>1, <1>t DEF TypedFacts
  <1>6. fired # NoId => sched'[fired] = sched[fired] /\ job'[fired] = job[fired]
    BY <1>1, <1>t DEF TypedFacts
  <1>7. \A q \in Procs : pc[q] \in Calling /\ q # p => job'[got[q]] = job[got[q]]
    BY <1>1 DEF Inv, Private
  <1> QED BY <1>1, <1>2, <1>3, <1>4, <1>5, <1>6, <1>7 DEF Alone

\* A turn arms nothing, or not yet.
Stops(t) ==
    /\ pc'[t] \in {"armRetry", "done"} /\ \A q \in Procs : q # t => pc'[q] = pc[q]
    /\ UNCHANGED <<sched, job>>
    /\ failures' \in {failures, failures + 1} /\ failures' <= MaxFailures
    /\ pc' \in [Procs -> Labels]
    /\ got' \in [Procs -> Ids \cup {NoId}] /\ seen' \in [Procs -> Ids \cup {NoId}]
    /\ got'[t] \in {got[t], NoId} /\ seen'[t] \in {seen[t], NoId}
    /\ \A q \in Procs : q # t => got'[q] = got[q] /\ seen'[q] = seen[q] /\ tries'[q] = tries[q]
    /\ tries' \in [Procs -> 0..RepairTries + 1]
    /\ pc'[t] = "armRetry" => tries'[t] <= RepairTries

\* The turn is given up, calls, or tries again later.
LEMMA AttemptIs ==
  ASSUME Inv, NEW t \in Turns, Asks(t)
  PROVE  \/ Stops(t)
         \/ /\ CallSchedule(t, "arming", arm'[t].epoch)
            /\ seen' = [seen EXCEPT ![t] = row.id] /\ tries' = tries
  <1> USE Handlers, Bounds
  <1>t. TypedFacts BY Typed
  <1>1. tries[t] <= RepairTries /\ tries[t] \in Nat
    <2>1. tries[t] \in Nat BY <1>t DEF TypedFacts
    <2>2. tries[t] = 0 \/ tries[t] <= RepairTries BY DEF Inv, Tried, Asks, Pending
    <2> QED BY <2>1, <2>2
  <1>2. CASE Goto(t, "done") /\ UNCHANGED <<platform, failures>>
    <2>1. Moved(t, "done") BY <1>2, Moves DEF Labels
    <2>2. failures' <= MaxFailures BY <1>2 DEF Inv, TypeOK
    <2> QED BY <1>2, <2>1, <2>2 DEF Stops, Moved, platform
  <1>3. CASE /\ Reject /\ UNCHANGED seen
             /\ pc' = [pc EXCEPT ![t] = IF tries[t] < RepairTries THEN "armRetry" ELSE "done"]
             /\ tries' = [tries EXCEPT ![t] = @ + 1]
    <2>1. /\ pc' \in [Procs -> Labels] /\ \A q \in Procs : q # t => pc'[q] = pc[q]
          /\ pc'[t] = IF tries[t] < RepairTries THEN "armRetry" ELSE "done"
      BY <1>3 DEF Inv, TypeOK, Labels
    <2>2. tries' \in [Procs -> 0..RepairTries + 1] /\ tries'[t] = tries[t] + 1
          /\ \A q \in Procs : q # t => tries'[q] = tries[q]
      <3>1. tries[t] + 1 \in 0..RepairTries + 1 BY <1>1
      <3> QED BY <1>3, <3>1, Shapes
    <2>3. failures' = failures + 1 /\ failures' <= MaxFailures /\ UNCHANGED <<sched, job, got>>
      BY <1>3, <1>t DEF Reject, platform, TypedFacts
    <2>4. pc'[t] \in {"armRetry", "done"} /\ (pc'[t] = "armRetry" => tries'[t] <= RepairTries)
      BY <1>1, <2>1, <2>2
    <2>5. got \in [Procs -> Ids \cup {NoId}] /\ seen \in [Procs -> Ids \cup {NoId}]
      BY <1>t DEF TypedFacts
    <2> QED BY <1>3, <2>1, <2>2, <2>3, <2>4, <2>5 DEF Stops
  <1> QED BY <1>2, <1>3 DEF Asks, AttemptArm

LEMMA StopsInv ==
  ASSUME Inv, NEW t \in Turns, Asks(t), Stops(t)
  PROVE  Inv'
  <1> USE Handlers DEF Inv
  <1>t. TypedFacts BY Typed
  <1>0. Clocked' /\ Probes' /\ clock' \in 0..Cardinality(Turns)
         /\ arm'[t] \in [armed : 0..Cardinality(Turns), epoch : 0..MaxResets]
    BY AsksClocked DEF Stops
  <1>s. UNCHANGED <<row, retry, probe, epoch, notes, batches, probed, fired, crashes, misled, sched, job>>
        /\ failures' \in {failures, failures + 1} /\ Up
    BY DEF Asks, Stops
  <1>p. pc'[t] \in {"armRetry", "done"} /\ \A q \in Procs : q # t => pc'[q] = pc[q]
    BY DEF Stops
  <1>1. TypeOK'
    <2>1. arm' \in [Turns -> [armed : 0..Cardinality(Turns), epoch : 0..MaxResets]]
      <3>1. arm' = [arm EXCEPT ![t] = arm'[t]] BY DEF Asks
      <3> QED BY <1>0, <3>1, Shapes
    <2>2. failures' \in 0..MaxFailures
      <3>1. failures \in Nat /\ failures' \in {failures, failures + 1} /\ failures' <= MaxFailures
        BY <1>t DEF Stops, TypedFacts
      <3> QED BY <3>1, Bounds
    <2> QED BY <1>0, <1>s, <2>1, <2>2 DEF TypeOK, Stops
  <1>2. Where' BY <1>s, <1>p DEF Where
  <1>3. OneCallback' BY <1>s, <1>p DEF OneCallback
  <1>5. Tried'
    <2>1. \A u \in Procs : u # t => tries'[u] = tries[u] /\ pc'[u] = pc[u] BY DEF Stops
    <2>2. pc'[t] \notin {"idle", "turn"} /\ (pc'[t] \in Pending => tries'[t] <= RepairTries)
      BY <1>p DEF Stops, Pending
    <2>3. \A u \in Turns : /\ pc'[u] \in {"idle", "turn"} => tries'[u] = 0
                           /\ pc'[u] \in Pending => tries'[u] <= RepairTries
      BY <2>1, <2>2 DEF Tried
    <2>4. tries[Repair] \in Nat /\ failures \in Nat /\ failures' \in {failures, failures + 1}
      BY <1>t, <1>s DEF TypedFacts
    <2>5. pc'[Repair] # "idle" => failures' > tries[Repair]
      <3>1. pc'[Repair] = pc[Repair] BY <2>1
      <3>2. pc[Repair] # "idle" => failures > tries[Repair] BY DEF Tried
      <3> QED BY <2>4, <3>1, <3>2
    <2>6. /\ tries'[Start] = 0 /\ tries'[Repair] = tries[Repair] /\ tries[Repair] < RepairTries
          /\ pc'[Repair] = pc[Repair] /\ (pc[Repair] = "idle" => tries[Repair] = 0)
      BY <2>1 DEF Tried
    <2> QED BY <2>3, <2>5, <2>6 DEF Tried
  <1>6. Private'
    <2>1. \A p \in Procs : pc'[p] \in Calling => pc[p] \in Calling /\ p # t BY <1>p DEF Calling
    <2>2. \A p \in Procs : got'[p] \in {got[p], NoId} /\ seen'[p] \in {seen[p], NoId}
                           /\ (p # t => got'[p] = got[p])
      BY DEF Stops
    <2> QED BY <1>s, <2>1, <2>2, Bounds DEF Private
  <1>7. Payload'
    <2>1. \A u \in Turns : u # t => arm'[u] = arm[u] BY DEF Asks
    <2> QED BY <1>s, <1>p, <2>1 DEF Payload, Stops
  <1>8. OfEpoch' BY <1>s DEF OfEpoch
  <1>9. Lost' BY <1>s, <1>p DEF Lost, Owns, Stops
  <1>10. Kept'
    <2>0. failures \in Nat /\ RepairTries \in Nat /\ failures' \in {failures, failures + 1}
      BY <1>s, Numbers, Bounds
    <2>1. failures' <= RepairTries => failures <= RepairTries BY ONLY <2>0
    <2>2. \A p \in {Alarm, Repair, Start} : pc'[p] = pc[p] /\ seen'[p] = seen[p] BY DEF Stops
    <2> QED BY <1>s, <2>1, <2>2 DEF Kept
  <1>12. Notes' BY <1>s, <1>p DEF Notes
  <1> QED BY <1>0, <1>1, <1>2, <1>3, <1>5, <1>6, <1>7, <1>8, <1>9, <1>10, <1>12

LEMMA TurnCallsInv ==
  ASSUME Inv, NEW t \in Turns, Asks(t), CallSchedule(t, "arming", arm'[t].epoch),
         seen' = [seen EXCEPT ![t] = row.id], tries' = tries
  PROVE  Inv'
  <1> USE Handlers DEF Inv
  <1>t. TypedFacts BY Typed
  <1>s. /\ UNCHANGED <<row, retry, probe, epoch, notes, batches, probed, fired, crashes, misled, tries>>
        /\ pc[t] \in {"turn", "armRetry"} /\ Up
        /\ arm' = [arm EXCEPT ![t] = arm'[t]] /\ \A u \in Turns : u # t => arm'[u] = arm[u]
    BY DEF Asks
  <1>e. arm'[t].epoch \in 0..MaxResets
    <2>1. arm'[t] = [armed |-> clock + 1, epoch |-> epoch] \/ arm'[t] = arm[t] BY DEF Asks
    <2>2. epoch \in 0..MaxResets /\ arm[t].epoch \in 0..MaxResets BY <1>t DEF TypedFacts
    <2> QED BY <2>1, <2>2
  <1>a. Alone(t, "arming", arm'[t].epoch)
    BY <1>s, <1>e, CallsAlone DEF Calling
  <1>0. Clocked' /\ Probes' /\ clock' \in 0..Cardinality(Turns)
         /\ arm'[t] \in [armed : 0..Cardinality(Turns), epoch : 0..MaxResets]
    BY <1>a, AsksClocked DEF Alone
  <1>1. TypeOK'
    <2>1. arm' \in [Turns -> [armed : 0..Cardinality(Turns), epoch : 0..MaxResets]]
      BY <1>0, <1>s, Shapes
    <2>2. /\ sched' \in [Ids -> {"free", "waiting", "running"}] /\ job' \in [Ids -> 0..MaxResets]
          /\ got' \in [Procs -> Ids \cup {NoId}] /\ seen' \in [Procs -> Ids \cup {NoId}]
          /\ pc' \in [Procs -> Labels] /\ failures' = failures
      BY <1>a DEF Alone
    <2> QED BY <1>0, <1>s, <2>1, <2>2 DEF TypeOK
  <1>2. Where' BY <1>s, <1>a DEF Alone, Where
  <1>3. OneCallback' BY <1>s, <1>a DEF Alone, OneCallback
  <1>5. Tried'
    <2>1. tries[t] = 0 \/ tries[t] <= RepairTries BY <1>s DEF Tried, Pending
    <2> QED BY <1>s, <1>a, <2>1, Bounds DEF Alone, Tried, Pending
  <1>7. Payload'
    <2>1. ASSUME NEW u \in Turns, pc'[u] = "arming" PROVE job'[got'[u]] = arm'[u].epoch
      <3>1. CASE u = t BY <1>a, <3>1 DEF Alone
      <3>2. CASE u # t BY <1>s, <1>a, <2>1, <3>2 DEF Alone, Payload, Calling
      <3> QED BY <3>1, <3>2
    <2>2. ASSUME pc'[Alarm] = "handoff" PROVE job'[got'[Alarm]] = job'[fired]
      <3>1. pc[Alarm] = "handoff" /\ got'[Alarm] = got[Alarm] /\ Alarm # t /\ fired # NoId
        BY <1>a, <2>2 DEF Alone, OneCallback
      <3> QED BY <1>a, <3>1 DEF Alone, Payload, Calling
    <2>3. ASSUME NEW p \in {Repair, Start}, pc'[p] = "repairing"
          PROVE  seen'[p] \in Ids /\ job'[got'[p]] = job'[seen'[p]]
      <3>1. pc[p] = "repairing" /\ got'[p] = got[p] /\ seen'[p] = seen[p] /\ p # t /\ p \in Procs
        BY <1>a, <2>3 DEF Alone
      <3>2. seen[p] \in Ids /\ job[got[p]] = job[seen[p]] BY <3>1 DEF Payload
      <3> QED BY <1>a, <3>1, <3>2 DEF Alone, Calling
    <2> QED BY <1>s, <2>1, <2>2, <2>3 DEF Payload
  <1>8. OfEpoch' BY <1>s, <1>a DEF Alone, OfEpoch
  <1>9. Lost' BY <1>s, <1>a DEF Alone, Lost, Owns
  <1>10. Kept'
    <2>1. \A p \in {Alarm, Repair, Start} : pc'[p] = pc[p] /\ seen'[p] = seen[p] BY <1>a DEF Alone
    <2> QED BY <1>s, <1>a, <2>1 DEF Alone, Kept
  <1>12. Notes'
    <2>1. pc'[Alarm] = pc[Alarm] BY <1>a DEF Alone
    <2>2. pc[Alarm] = "deleting" => job'[fired] = job[fired] BY <1>a DEF Alone, OneCallback
    <2> QED BY <1>s, <2>1, <2>2 DEF Notes
  <1> QED BY <1>0, <1>1, <1>2, <1>3, <1>5, <1>a, <1>7, <1>8, <1>9, <1>10, <1>12 DEF Alone

LEMMA ArmReturnsInv ==
  ASSUME Inv, NEW t \in Turns, ArmReturns(t)
  PROVE  Inv'
  <1> USE Handlers DEF Inv
  <1>t. TypedFacts BY Typed
  <1>0. /\ pc[t] = "arming" /\ Up /\ Goto(t, "done")
        /\ UNCHANGED <<retry, epoch, notes, batches, probed, job, fired, arm, clock, crashes, failures, misled>>
        /\ \/ /\ Arms(t)
              /\ row' = [id |-> got[t], armed |-> arm[t].armed, epoch |-> arm[t].epoch]
              /\ probe' \in {arm[t].armed, probe}
              /\ sched' = Cancelled(sched, seen[t])
           \/ /\ sched' = Cancelled(sched, got[t])
              /\ UNCHANGED <<row, probe>>
    BY DEF ArmReturns, work
  <1>p. Moved(t, "done")
    BY <1>0, Moves DEF Labels
  <1>g. /\ got[t] \in Ids /\ got[t] # NoId /\ sched[got[t]] = "waiting" /\ got[t] \notin {row.id, fired}
        /\ got[t] # seen[t] /\ \A q \in Procs : q # t => got[t] # got[q]
        /\ job[got[t]] = arm[t].epoch
    BY <1>0, Bounds DEF Private, Payload, Calling
  <1>a. /\ arm[t].armed \in 1..clock /\ probed[arm[t].armed] = 0 /\ probe # arm[t].armed
        /\ row = NoRow \/ row.armed # arm[t].armed
        /\ \A u \in Turns : pc[u] \in Pending /\ u # t => arm[t].armed # arm[u].armed
    BY <1>0 DEF Probes, Pending
  <1>c. /\ sched' \in [Ids -> {"free", "waiting", "running"}]
        /\ \A j \in Ids : sched'[j] \in {sched[j], "free"}
        /\ \A q \in Procs : pc[q] \in Calling /\ q # t => sched'[got[q]] = sched[got[q]]
    <2>1. CASE sched' = Cancelled(sched, seen[t])
      BY <1>t, <2>1, Cancels DEF Private, TypedFacts
    <2>2. CASE sched' = Cancelled(sched, got[t])
      BY <1>t, <2>2, Cancels DEF Private, TypedFacts
    <2> QED BY <1>0, <2>1, <2>2
  <1>r. /\ row' # NoRow => \/ /\ row'.id = got[t] /\ row'.epoch = epoch /\ row'.armed = arm[t].armed
                              /\ sched'[row'.id] = "waiting"
                           \/ UNCHANGED <<row, probe>> /\ (row # NoRow => sched'[row.id] = sched[row.id])
        /\ row' = row \/ row'.id = got[t]
        /\ row' \in [id : Ids \cup {NoId}, armed : 0..Cardinality(Turns), epoch : 0..MaxResets]
        /\ row' = NoRow <=> row'.id = NoId
    <2>1. CASE Arms(t) /\ row' = [id |-> got[t], armed |-> arm[t].armed, epoch |-> arm[t].epoch]
               /\ sched' = Cancelled(sched, seen[t])
      <3>1. row'.id = got[t] /\ row'.epoch = epoch /\ row'.armed = arm[t].armed BY <2>1 DEF Arms
      <3>2. sched'[got[t]] = "waiting" BY <1>g, <2>1, Cancels
      <3>3. row' \in [id : Ids \cup {NoId}, armed : 0..Cardinality(Turns), epoch : 0..MaxResets]
        BY <1>g, <2>1, Shapes
      <3>4. row' # NoRow BY <1>g, <3>1, NothingTyped
      <3> QED BY <1>g, <3>1, <3>2, <3>3, <3>4
    <2>2. CASE sched' = Cancelled(sched, got[t]) /\ UNCHANGED <<row, probe>>
      <3>1. row # NoRow => sched'[row.id] = sched[row.id]
        BY <1>g, <1>t, <2>2, Cancels DEF TypedFacts
      <3> QED BY <2>2, <3>1 DEF TypeOK
    <2> QED BY <1>0, <2>1, <2>2
  <1>1. TypeOK'
    <2>1. probe' \in 0..Cardinality(Turns)
      <3>1. arm[t].armed \in 0..Cardinality(Turns) BY Shapes
      <3> QED BY <1>0, <3>1 DEF TypeOK
    <2> QED BY <1>0, <1>p, <1>c, <1>r, <2>1 DEF Moved, TypeOK
  <1>2. Where' BY <1>0, <1>p DEF Moved, Where
  <1>3. OneCallback' BY <1>0, <1>p, <1>c, <1>t DEF Moved, OneCallback, TypedFacts
  <1>4. Clocked'
    <2>1. Past' = Past BY <1>0, <1>p DEF Moved, Past
    <2>2. row' # NoRow => row'.armed \in 1..clock BY <1>a, <1>r DEF Clocked
    <2>3. probe' <= clock BY <1>0, <1>a, <1>t DEF Clocked, TypedFacts
    <2> QED BY <1>0, <2>1, <2>2, <2>3 DEF Clocked
  <1>5. Tried' BY <1>0, <1>p DEF Moved, Tried, Pending
  <1>6. Private'
    <2> SUFFICES ASSUME NEW q \in Procs, pc'[q] \in Calling
                 PROVE  /\ got'[q] \in Ids /\ sched'[got'[q]] = "waiting"
                        /\ got'[q] \notin {row'.id, fired'}
                        /\ \A r \in Procs : got'[q] # seen'[r] /\ (r # q => got'[q] # got'[r])
      BY DEF Private
    <2>1. q # t /\ pc[q] \in Calling /\ got'[q] = got[q] BY <1>p DEF Moved, Calling
    <2>2. /\ got[q] \in Ids /\ sched[got[q]] = "waiting" /\ got[q] \notin {row.id, fired}
          /\ \A r \in Procs : got[q] # seen[r] /\ (r # q => got[q] # got[r])
      BY <2>1 DEF Private
    <2>3. got[q] # NoId BY <2>2, Bounds
    <2>4. got'[q] \notin {row'.id, fired'} BY <1>0, <1>g, <1>r, <2>1, <2>2
    <2>5. sched'[got'[q]] = "waiting" BY <1>c, <2>1, <2>2
    <2>6. \A r \in Procs : got'[q] # seen'[r] /\ (r # q => got'[q] # got'[r])
      BY <1>p, <2>1, <2>2, <2>3 DEF Moved
    <2> QED BY <2>1, <2>2, <2>4, <2>5, <2>6
  <1>7. Payload' BY <1>0, <1>p DEF Moved, Payload
  <1>8. OfEpoch'
    BY <1>0, <1>g, <1>r DEF OfEpoch, Arms
  <1>9. Lost'
    <2>1. row'.id # got[Resetter] \/ row' = row BY <1>g, <1>r
    <2>2. row'.id # fired \/ row' = row BY <1>g, <1>r
    <2> QED BY <1>0, <1>p, <2>1, <2>2 DEF Moved, Lost, Owns
  <1>10. Kept' BY <1>0, <1>p, <1>r DEF Moved, Kept
  <1>11. Probes'
    <2>1. probe' # 0 => probed'[probe'] = 0 BY <1>0, <1>a DEF Probes
    <2>2. ASSUME NEW u \in Turns, pc'[u] \in Pending
          PROVE  /\ pc[u] \in Pending
                 /\ probe' # arm[u].armed /\ (row' = NoRow \/ row'.armed # arm[u].armed)
      <3>1. u # t /\ pc[u] \in Pending BY <1>p, <2>2 DEF Moved, Pending
      <3>2. arm[t].armed # arm[u].armed /\ probe # arm[u].armed /\ (row = NoRow \/ row.armed # arm[u].armed)
        BY <1>a, <3>1 DEF Probes
      <3> QED BY <1>0, <1>r, <3>1, <3>2
    <2> QED BY <1>0, <2>1, <2>2 DEF Probes
  <1>12. Notes' BY <1>0, <1>p DEF Moved, Notes
  <1> QED BY <1>1, <1>2, <1>3, <1>4, <1>5, <1>6, <1>7, <1>8, <1>9, <1>10, <1>11, <1>12

-----------------------------------------------------------------------------
(* The callback *)

LEMMA FireInv ==
  ASSUME Inv, NEW i \in Ids, Fire(i)
  PROVE  Inv'
  <1> USE Handlers DEF Inv
  <1>t. TypedFacts BY Typed
  <1>0. /\ Due(i) /\ pc[Alarm] = "idle" /\ Up /\ fired' = i /\ fired = NoId
        /\ sched' = [sched EXCEPT ![i] = "running"]
        /\ UNCHANGED <<retry, epoch, notes, batches, job, arm, clock, crashes, failures, misled>>
    BY DEF Fire, OneCallback
  <1>1. PICK label \in {"returning", "observe"} :
          /\ Goto(Alarm, label)
          /\ \/ label = "returning" /\ row.id # i /\ UNCHANGED <<row, probe, probed>>
             \/ label = "returning" /\ row' = NoRow /\ UNCHANGED <<probe, probed>>
             \/ /\ label = "observe" /\ row.id = i /\ row' = row
                /\ \/ UNCHANGED <<probe, probed>>
                   \/ probe = row.armed /\ ClaimProbe
    BY DEF Fire
  <1>p. Moved(Alarm, label)
    BY <1>1, Moves DEF Labels
  <1>s. /\ sched' \in [Ids -> {"free", "waiting", "running"}] /\ sched'[i] = "running"
        /\ \A j \in Ids : j # i => sched'[j] = sched[j]
    BY <1>0, <1>t DEF TypedFacts
  <1>r. row' = row \/ row' = NoRow BY <1>1
  <1>n. i # NoId BY Bounds
  <1>b. \/ UNCHANGED <<probe, probed>>
        \/ /\ row # NoRow /\ row' = row /\ probe = row.armed /\ probe' = 0
           /\ row.armed \in 1..clock /\ probed[row.armed] = 0
           /\ probed' = [probed EXCEPT ![row.armed] = @ + 1]
    <2>1. ASSUME row.id = i, probe = row.armed PROVE row # NoRow /\ row.armed \in 1..clock /\ probed[row.armed] = 0
      <3>1. row # NoRow BY <1>n, <2>1, NothingTyped
      <3>2. row.armed \in 1..clock BY <3>1 DEF Clocked
      <3>3. probe # 0 BY <2>1, <3>2, <1>t DEF TypedFacts
      <3> QED BY <2>1, <3>1, <3>2, <3>3 DEF Probes
    <2> QED BY <1>1, <2>1 DEF ClaimProbe
  <1>11. Probes' /\ probed' \in [1..Cardinality(Turns) -> 0..2] /\ probe' \in 0..Cardinality(Turns)
    <2>0. \A u \in Turns : pc'[u] = pc[u] BY <1>p DEF Moved
    <2>t. probed \in [1..Cardinality(Turns) -> 0..2] /\ probe \in 0..Cardinality(Turns)
      BY DEF TypeOK
    <2>1. CASE UNCHANGED <<probe, probed>> BY <1>0, <1>r, <2>0, <2>1, <2>t DEF Probes
    <2>2. CASE /\ row # NoRow /\ row' = row /\ probe = row.armed /\ probe' = 0
               /\ row.armed \in 1..clock /\ probed[row.armed] = 0
               /\ probed' = [probed EXCEPT ![row.armed] = @ + 1]
      <3>1. row.armed \in 1..Cardinality(Turns) BY <1>t, <2>2, <2>t, Bounds DEF TypedFacts
      <3>2. /\ probed' \in [1..Cardinality(Turns) -> 0..2] /\ probed'[row.armed] = 1
            /\ \A n \in 1..Cardinality(Turns) : n # row.armed => probed'[n] = probed[n]
        BY <2>2, <2>t, <3>1
      <3>3. \A n \in DOMAIN probed' : probed'[n] <= 1 /\ (n > clock => probed'[n] = 0)
        <4> SUFFICES ASSUME NEW n \in 1..Cardinality(Turns)
                     PROVE  probed'[n] <= 1 /\ (n > clock => probed'[n] = 0)
          BY <3>2
        <4>1. CASE n = row.armed BY <1>t, <2>2, <3>2, <4>1 DEF TypedFacts
        <4>2. CASE n # row.armed
          <5>1. n \in DOMAIN probed BY <2>t
          <5> QED BY <3>2, <4>2, <5>1 DEF Probes
        <4> QED BY <4>1, <4>2
      <3>4. ASSUME NEW u \in Turns, pc'[u] \in Pending
            PROVE  /\ arm'[u].armed \in 1..clock' /\ probed'[arm'[u].armed] = 0
                   /\ probe' # arm'[u].armed /\ (row' = NoRow \/ row'.armed # arm'[u].armed)
        <4>1. /\ arm[u].armed \in 1..clock /\ probed[arm[u].armed] = 0 /\ row.armed # arm[u].armed
          BY <2>0, <2>2, <3>4 DEF Probes
        <4>2. arm[u].armed \in 1..Cardinality(Turns)
          <5>1. clock \in 0..Cardinality(Turns) BY DEF TypeOK
          <5> QED BY <4>1, <5>1, Bounds
        <4>3. arm[u].armed # 0 BY <4>1
        <4> QED BY <1>0, <2>2, <3>2, <4>1, <4>2, <4>3
      <3>5. probe' \in 0..Cardinality(Turns) BY <2>2, NothingTyped
      <3>6. \A u, v \in Turns : pc'[u] \in Pending /\ pc'[v] \in Pending /\ u # v => arm'[u].armed # arm'[v].armed
        BY <1>0, <2>0 DEF Probes
      <3> QED BY <1>0, <2>2, <3>2, <3>3, <3>4, <3>5, <3>6 DEF Probes
    <2> QED BY <1>b, <2>1, <2>2
  <1>1a. TypeOK' BY <1>0, <1>p, <1>s, <1>r, <1>11, NothingTyped DEF Moved, TypeOK
  <1>2. Where' BY <1>0, <1>p DEF Moved, Where, Up
  <1>3. OneCallback' BY <1>0, <1>n, <1>p, <1>s, Bounds DEF Moved, OneCallback
  <1>4. Clocked'
    <2>1. Past' = Past BY <1>p DEF Moved, Past
    <2>2. probe' \in {probe, 0} /\ clock \in Nat BY <1>b, <1>t DEF TypedFacts
    <2> QED BY <1>0, <1>r, <2>1, <2>2 DEF Clocked
  <1>5. Tried' BY <1>0, <1>p DEF Moved, Tried
  <1>6. Private'
    <2> SUFFICES ASSUME NEW q \in Procs, pc'[q] \in Calling
                 PROVE  /\ got'[q] \in Ids /\ sched'[got'[q]] = "waiting"
                        /\ got'[q] \notin {row'.id, fired'}
                        /\ \A r \in Procs : got'[q] # seen'[r] /\ (r # q => got'[q] # got'[r])
      BY DEF Private
    <2>1. q # Alarm /\ pc[q] \in Calling /\ got'[q] = got[q] BY <1>p DEF Moved, Calling
    <2>2. /\ got[q] \in Ids /\ sched[got[q]] = "waiting" /\ got[q] \notin {row.id, fired}
          /\ \A r \in Procs : got[q] # seen[r] /\ (r # q => got[q] # got[r])
      BY <2>1 DEF Private
    <2>3. got[q] # NoId BY <2>2, Bounds
    <2>4. got[q] # i BY <1>0, <2>1 DEF Due, Calling
    <2>5. got'[q] \notin {row'.id, fired'} BY <1>0, <1>r, <2>1, <2>2, <2>3, <2>4, NothingTyped
    <2>6. \A r \in Procs : got'[q] # seen'[r] /\ (r # q => got'[q] # got'[r])
      BY <1>p, <2>1, <2>2, <2>3 DEF Moved
    <2> QED BY <1>s, <2>1, <2>2, <2>4, <2>5, <2>6
  <1>7. Payload' BY <1>0, <1>p DEF Moved, Payload
  <1>8. OfEpoch' BY <1>0, <1>r DEF OfEpoch
  <1>9. Lost' BY <1>0, <1>p, <1>r DEF Moved, Lost
  <1>10. Kept'
    <2>1. CASE row' = NoRow BY <2>1 DEF Kept
    <2>2. CASE row' = row /\ row.id # i BY <1>0, <1>s, <1>t, <1>p, <2>2 DEF Moved, Kept, TypedFacts
    <2>3. CASE row' = row /\ row.id = i /\ label = "observe" BY <1>0, <1>p, <2>3 DEF Moved, Kept
    <2> QED BY <1>1, <2>1, <2>2, <2>3
  <1>12. Notes' BY <1>0, <1>p DEF Moved, Notes
  <1> QED BY <1>1a, <1>2, <1>3, <1>4, <1>5, <1>6, <1>7, <1>8, <1>9, <1>10, <1>11, <1>12

\* What each way out of an await of the callback leaves alone, and the notes.
Works ==
    /\ pc[Alarm] \in {"observe", "adding"} /\ Up
    /\ UNCHANGED <<epoch, probed, fired, arm, clock, crashes>>
    /\ retry' \in [attempt : 0..MaxRetries, exhausted : BOOLEAN] /\ batches' \in 0..MaxBatches
    /\ notes' \in [0..MaxResets -> Nat] /\ misled' \in BOOLEAN /\ Notes'

\* The callback goes on, or is over, with the row as it was.
Leaves(label) ==
    /\ label \in {"adding", "deleting", "returning"}
    /\ label = "adding" \/ ~Owns
    /\ Goto(Alarm, label) /\ UNCHANGED <<row, probe, platform, failures>>
\* The job is over.
Ends == row' = NoRow /\ probe' = 0 /\ Goto(Alarm, "returning") /\ UNCHANGED <<platform, failures>>
\* The job goes on with another schedule, or a repair is asked to see to that.
Rearms ==
    /\ Owns /\ CallSchedule(Alarm, "handoff", job[fired])
    /\ probe' = 0 /\ UNCHANGED <<row, seen, tries>>
Rejected ==
    /\ Owns /\ Reject /\ pc[Repair] = "idle"
    /\ pc' = [pc EXCEPT ![Alarm] = "returning", ![Repair] = "repair"]
    /\ probe' = 0 /\ UNCHANGED <<row, seen, tries>>

LEMMA LeavesInv ==
  ASSUME Inv, Works, NEW label \in {"adding", "deleting", "returning"}, Leaves(label)
  PROVE  Inv'
  <1> USE Handlers DEF Inv
  <1>t. TypedFacts BY Typed
  <1>0. /\ UNCHANGED <<row, probe, epoch, probed, fired, arm, clock, crashes, sched, job, failures>>
        /\ pc[Alarm] \in {"observe", "adding"} /\ (label = "adding" \/ ~Owns) /\ Up
    BY DEF Leaves, Works, platform
  <1>p. Moved(Alarm, label)
    BY Moves DEF Labels, Leaves
  <1>4. Probes' /\ Clocked' /\ probe' \in 0..Cardinality(Turns) BY <1>0, <1>p, ProbesFall DEF Moved
  <1>1. TypeOK' BY <1>0, <1>p DEF Moved, TypeOK, Works
  <1>2. Where' BY <1>0, <1>p DEF Moved, Where, Up
  <1>3. OneCallback' BY <1>0, <1>p DEF Moved, OneCallback
  <1>5. Tried' BY <1>0, <1>p DEF Moved, Tried
  <1>6. Private'
    <2>1. \A p \in Procs : pc'[p] \in Calling => pc[p] \in Calling /\ p # Alarm BY <1>p DEF Moved, Calling
    <2>2. \A p \in Procs : got'[p] \in {got[p], NoId} /\ seen'[p] \in {seen[p], NoId}
                           /\ (p # Alarm => got'[p] = got[p])
      BY <1>p DEF Moved
    <2> QED BY <1>0, <2>1, <2>2, Bounds DEF Private
  <1>7. Payload' BY <1>0, <1>p DEF Moved, Payload
  <1>8. OfEpoch' BY <1>0 DEF OfEpoch
  <1>9. Lost' BY <1>0, <1>p DEF Moved, Lost, Owns
  <1>10. Kept' BY <1>0, <1>p DEF Moved, Kept, Owns
  <1>12. Notes' BY DEF Works
  <1> QED BY <1>1, <1>2, <1>3, <1>4, <1>5, <1>6, <1>7, <1>8, <1>9, <1>10, <1>12

LEMMA EndsInv ==
  ASSUME Inv, Works, Ends
  PROVE  Inv'
  <1> USE Handlers DEF Inv
  <1>t. TypedFacts BY Typed
  <1>0. /\ UNCHANGED <<epoch, probed, fired, arm, clock, crashes, sched, job, failures>>
        /\ pc[Alarm] \in {"observe", "adding"} /\ Up /\ row' = NoRow /\ probe' = 0
    BY DEF Ends, Works, platform
  <1>p. Moved(Alarm, "returning")
    BY Moves DEF Labels, Ends
  <1>4. Probes' /\ Clocked' /\ probe' \in 0..Cardinality(Turns) BY <1>0, <1>p, ProbesFall DEF Moved
  <1>1. TypeOK' BY <1>0, <1>p, <1>4, NothingTyped DEF Moved, TypeOK, Works
  <1>2. Where' BY <1>0, <1>p DEF Moved, Where, Up
  <1>3. OneCallback' BY <1>0, <1>p DEF Moved, OneCallback
  <1>5. Tried' BY <1>0, <1>p DEF Moved, Tried
  <1>6. Private'
    <2>1. \A p \in Procs : pc'[p] \in Calling => pc[p] \in Calling /\ p # Alarm BY <1>p DEF Moved, Calling
    <2>2. \A p \in Procs : got'[p] \in {got[p], NoId} /\ seen'[p] \in {seen[p], NoId}
                           /\ (p # Alarm => got'[p] = got[p])
      BY <1>p DEF Moved
    <2> QED BY <1>0, <2>1, <2>2, Bounds, NothingTyped DEF Private
  <1>7. Payload' BY <1>0, <1>p DEF Moved, Payload
  <1>8. OfEpoch' BY <1>0 DEF OfEpoch
  <1>9. Lost' BY <1>0, <1>p DEF Moved, Lost, Owns
  <1>10. Kept' BY <1>0 DEF Kept
  <1>12. Notes' BY DEF Works
  <1> QED BY <1>1, <1>2, <1>3, <1>4, <1>5, <1>6, <1>7, <1>8, <1>9, <1>10, <1>12

LEMMA RejectedInv ==
  ASSUME Inv, Works, Rejected
  PROVE  Inv'
  <1> USE Handlers DEF Inv
  <1>t. TypedFacts BY Typed
  <1>0. /\ UNCHANGED <<row, epoch, probed, fired, arm, clock, crashes, sched, job, got, seen, tries>>
        /\ pc[Alarm] \in {"observe", "adding"} /\ pc[Repair] = "idle" /\ Up /\ Owns /\ probe' = 0
        /\ failures < MaxFailures /\ failures' = failures + 1
    BY DEF Rejected, Works, platform, Reject
  <1>p. /\ pc' \in [Procs -> Labels] /\ pc'[Alarm] = "returning" /\ pc'[Repair] = "repair"
        /\ \A q \in Procs : q \notin {Alarm, Repair} => pc'[q] = pc[q]
    <2>1. pc' = [pc EXCEPT ![Alarm] = "returning", ![Repair] = "repair"] BY DEF Rejected
    <2>2. {"returning", "repair"} \subseteq Labels BY DEF Labels
    <2> QED BY <2>1, <2>2, Shapes
  <1>4. Probes' /\ Clocked' /\ probe' \in 0..Cardinality(Turns) BY <1>0, <1>p, ProbesFall
  <1>1. TypeOK'
    <2>0. failures \in Nat BY <1>t DEF TypedFacts
    <2>1. failures' \in 0..MaxFailures BY <1>0, <2>0, Bounds
    <2> QED BY <1>0, <1>p, <1>4, <2>1 DEF TypeOK, Works
  <1>2. Where' BY <1>0, <1>p DEF Where, Up
  <1>3. OneCallback' BY <1>0, <1>p DEF OneCallback
  <1>5. Tried'
    <2>1. tries[Repair] = 0 BY <1>0 DEF Tried
    <2>2. failures' > 0 BY <1>0, <1>t DEF TypedFacts
    <2> QED BY <1>0, <1>p, <2>1, <2>2 DEF Tried
  <1>6. Private'
    <2>1. \A p \in Procs : pc'[p] \in Calling => pc[p] \in Calling BY <1>p DEF Calling
    <2> QED BY <1>0, <2>1 DEF Private
  <1>7. Payload' BY <1>0, <1>p DEF Payload
  <1>8. OfEpoch' BY <1>0 DEF OfEpoch
  <1>9. Lost' BY <1>0, <1>p DEF Lost, Owns
  <1>10. Kept' BY <1>0, <1>p DEF Kept
  <1>12. Notes' BY DEF Works
  <1> QED BY <1>1, <1>2, <1>3, <1>4, <1>5, <1>6, <1>7, <1>8, <1>9, <1>10, <1>12

LEMMA RearmsInv ==
  ASSUME Inv, Works, Rearms
  PROVE  Inv'
  <1> USE Handlers DEF Inv
  <1>t. TypedFacts BY Typed
  <1>0. /\ UNCHANGED <<row, epoch, probed, fired, arm, clock, crashes, seen, tries>>
        /\ pc[Alarm] \in {"observe", "adding"} /\ Up /\ Owns /\ probe' = 0
        /\ fired \in Ids /\ row # NoRow /\ row.id = fired
    BY <1>t DEF Rearms, Works, Owns, TypedFacts
  <1>a. Alone(Alarm, "handoff", job[fired])
    <2>1. job[fired] \in 0..MaxResets /\ "handoff" \in Calling BY <1>0, <1>t DEF TypedFacts, Calling
    <2>2. CallSchedule(Alarm, "handoff", job[fired]) BY DEF Rearms
    <2>3. UNCHANGED <<row, fired>> /\ seen' = seen BY <1>0
    <2> QED BY <2>1, <2>2, <2>3, CallsAlone
  <1>4. Probes' /\ Clocked' /\ probe' \in 0..Cardinality(Turns) BY <1>0, <1>a, ProbesFall DEF Alone
  <1>1. TypeOK' BY <1>0, <1>a, <1>4 DEF Alone, TypeOK, Works
  <1>2. Where' BY <1>0, <1>a DEF Alone, Where, Up
  <1>3. OneCallback' BY <1>0, <1>a DEF Alone, OneCallback
  <1>5. Tried' BY <1>0, <1>a DEF Alone, Tried
  <1>7. Payload'
    <2>1. ASSUME NEW u \in Turns, pc'[u] = "arming" PROVE job'[got'[u]] = arm'[u].epoch
      BY <1>0, <1>a, <2>1 DEF Alone, Payload, Calling
    <2>2. job'[got'[Alarm]] = job'[fired]
      BY <1>0, <1>a, Bounds DEF Alone
    <2>3. ASSUME NEW p \in {Repair, Start}, pc'[p] = "repairing"
          PROVE  seen'[p] \in Ids /\ job'[got'[p]] = job'[seen'[p]]
      <3>1. pc[p] = "repairing" /\ got'[p] = got[p] /\ seen'[p] = seen[p] /\ p # Alarm /\ p \in Procs
        BY <1>a, <2>3 DEF Alone
      <3>2. seen[p] \in Ids /\ job[got[p]] = job[seen[p]] BY <3>1 DEF Payload
      <3> QED BY <1>a, <3>1, <3>2 DEF Alone, Calling
    <2> QED BY <1>0, <2>1, <2>2, <2>3 DEF Payload
  <1>8. OfEpoch' BY <1>0, <1>a DEF Alone, OfEpoch
  <1>9. Lost' BY <1>0, <1>a DEF Alone, Lost
  <1>10. Kept' BY <1>0, <1>a DEF Alone, Kept
  <1>12. Notes' BY DEF Works
  <1> QED BY <1>1, <1>2, <1>3, <1>4, <1>5, <1>a, <1>7, <1>8, <1>9, <1>10, <1>12 DEF Alone

\* retryOwnedPostTurnReflect, and what follows a batch.
LEMMA RetriesIs ==
  ASSUME Inv, RetryOwned, Owns
  PROVE  (Ends \/ Rearms \/ Rejected) /\ retry' \in [attempt : 0..MaxRetries, exhausted : BOOLEAN]
  <1>0. retry \in [attempt : 0..MaxRetries, exhausted : BOOLEAN] BY DEF Inv, TypeOK
  <1>1. CASE retry.exhausted \/ retry.attempt >= MaxRetries
    BY <1>0, <1>1 DEF RetryOwned, Ends
  <1>2. CASE ~(retry.exhausted \/ retry.attempt >= MaxRetries)
    <2>1. retry' = [retry EXCEPT !.attempt = @ + 1] /\ probe' = 0 /\ Rearm /\ row' = row
      BY <1>2 DEF RetryOwned
    <2>2. Rearms \/ Rejected BY <2>1 DEF Rearm, Rearms, Rejected
    <2>3. retry.attempt + 1 \in 0..MaxRetries BY <1>0, <1>2, Bounds
    <2> QED BY <1>0, <2>1, <2>2, <2>3
  <1> QED BY <1>1, <1>2

LEMMA AdvanceIs ==
  ASSUME Inv, Advance, Owns
  PROVE  /\ Ends \/ Rearms \/ Rejected
         /\ retry' \in [attempt : 0..MaxRetries, exhausted : BOOLEAN] /\ batches' \in 0..MaxBatches
  <1>0. batches \in 0..MaxBatches BY DEF Inv, TypeOK
  <1>1. retry' = NoRetry /\ probe' = 0 BY DEF Advance
  <1>2. CASE batches > 0 /\ batches' = batches - 1 /\ Rearm /\ UNCHANGED row
    <2>1. Rearms \/ Rejected BY <1>1, <1>2 DEF Rearm, Rearms, Rejected
    <2>2. batches' \in 0..MaxBatches BY <1>0, <1>2, Bounds
    <2> QED BY <1>1, <2>1, <2>2, NothingTyped
  <1>3. CASE row' = NoRow /\ Goto(Alarm, "returning") /\ UNCHANGED <<batches, platform, failures>>
    BY <1>0, <1>1, <1>3, NothingTyped DEF Ends
  <1> QED BY <1>2, <1>3 DEF Advance

\* A callback that owns the row works for this epoch.
LEMMA OwnsIsCurrent ==
  ASSUME Inv
  PROVE  (Current <=> Owns) /\ (Owns => fired \in Ids /\ job[fired] = epoch)
  <1>t. TypedFacts BY Typed
  <1> QED BY <1>t DEF Inv, Current, Owns, OfEpoch, TypedFacts

LEMMA ObserveInv ==
  ASSUME Inv, Observe
  PROVE  Inv'
  <1> USE Handlers
  <1>0. /\ pc[Alarm] = "observe" /\ Up
        /\ UNCHANGED <<epoch, notes, probed, fired, arm, clock, crashes, misled>>
    BY DEF Observe
  <1>i. /\ retry \in [attempt : 0..MaxRetries, exhausted : BOOLEAN] /\ batches \in 0..MaxBatches
        /\ notes \in [0..MaxResets -> Nat] /\ misled \in BOOLEAN
    BY DEF Inv, TypeOK
  <1>n. Notes'
    <2>1. ~misled => \A e \in 0..MaxResets : e = epoch \/ notes[e] = 0 BY <1>0 DEF Inv, Notes
    <2> QED BY <1>0, <2>1 DEF Notes
  <1>1. CASE ~Current /\ Abandon("returning")
    <2>1. Works BY <1>0, <1>i, <1>n, <1>1 DEF Works, Abandon
    <2>2. Leaves("returning") BY <1>1, OwnsIsCurrent DEF Leaves, Abandon
    <2> QED BY <2>1, <2>2, LeavesInv
  <1>2. CASE Current /\ Advance
    <2>1. /\ Ends \/ Rearms \/ Rejected
          /\ retry' \in [attempt : 0..MaxRetries, exhausted : BOOLEAN] /\ batches' \in 0..MaxBatches
      BY <1>2, OwnsIsCurrent, AdvanceIs
    <2>2. Works BY <1>0, <1>i, <1>n, <2>1 DEF Works
    <2> QED BY <2>1, <2>2, EndsInv, RearmsInv, RejectedInv
  <1>3. CASE Owns /\ RetryOwned /\ UNCHANGED batches
    <2>1. (Ends \/ Rearms \/ Rejected) /\ retry' \in [attempt : 0..MaxRetries, exhausted : BOOLEAN]
      BY <1>3, RetriesIs
    <2>2. Works BY <1>0, <1>i, <1>n, <1>3, <2>1 DEF Works
    <2> QED BY <2>1, <2>2, EndsInv, RearmsInv, RejectedInv
  <1>4. CASE Current /\ Abandon("adding")
    <2>1. Works BY <1>0, <1>i, <1>n, <1>4 DEF Works, Abandon
    <2>2. Leaves("adding") BY <1>4, OwnsIsCurrent DEF Leaves, Abandon
    <2> QED BY <2>1, <2>2, LeavesInv
  <1> QED BY <1>1, <1>2, <1>3, <1>4 DEF Observe

LEMMA AddReturnsInv ==
  ASSUME Inv, AddReturns
  PROVE  Inv'
  <1> USE Handlers
  <1>t. TypedFacts BY Typed
  <1>0. /\ pc[Alarm] = "adding" /\ Up
        /\ UNCHANGED <<epoch, probed, fired, arm, clock, crashes>>
    BY DEF AddReturns
  <1>i. /\ retry \in [attempt : 0..MaxRetries, exhausted : BOOLEAN] /\ batches \in 0..MaxBatches
        /\ notes \in [0..MaxResets -> Nat] /\ misled \in BOOLEAN
    BY DEF Inv, TypeOK
  <1>f. fired \in Ids /\ job[fired] \in 0..MaxResets
    BY <1>0, <1>t DEF Inv, OneCallback, TypedFacts
  <1>w. LET more == [notes EXCEPT ![job[fired]] = @ + 1] IN
          /\ more \in [0..MaxResets -> Nat]
          /\ more[job[fired]] = notes[job[fired]] + 1
          /\ \A e \in 0..MaxResets : e # job[fired] => more[e] = notes[e]
    BY <1>f, <1>i
  <1>z. ~misled => \A e \in 0..MaxResets : e = epoch \/ notes[e] = 0 BY <1>0 DEF Inv, Notes
  <1>1. CASE Added /\ UNCHANGED misled /\ Current
    <2>1. notes' = [notes EXCEPT ![job[fired]] = @ + 1] /\ Advance BY <1>1 DEF Added
    <2>2. /\ Ends \/ Rearms \/ Rejected
          /\ retry' \in [attempt : 0..MaxRetries, exhausted : BOOLEAN] /\ batches' \in 0..MaxBatches
      BY <1>1, <2>1, OwnsIsCurrent, AdvanceIs
    <2>3. job[fired] = epoch BY <1>1, OwnsIsCurrent
    <2>4. Notes' BY <1>0, <1>1, <1>w, <1>z, <2>1, <2>3 DEF Notes
    <2>5. Works BY <1>0, <1>1, <1>i, <1>w, <2>1, <2>2, <2>4 DEF Works
    <2> QED BY <2>2, <2>5, EndsInv, RearmsInv, RejectedInv
  <1>2. CASE Added /\ UNCHANGED misled /\ ~Current
    <2>1. notes' = [notes EXCEPT ![job[fired]] = @ + 1] /\ Abandon("deleting") BY <1>2 DEF Added
    <2>2. Leaves("deleting") BY <1>2, <2>1, OwnsIsCurrent DEF Leaves, Abandon
    <2>3. pc'[Alarm] = "deleting" /\ job' = job
      <3>1. "deleting" \in Labels BY DEF Labels
      <3>2. Goto(Alarm, "deleting") /\ job' = job BY <2>2 DEF Leaves, platform
      <3> QED BY <3>1, <3>2, Moves DEF Moved
    <2>4. Notes'
      <3> SUFFICES ASSUME ~misled, NEW e \in 0..MaxResets, e # epoch
                   PROVE  notes'[e] = 0 \/ (e = job[fired] /\ notes'[e] = 1)
        BY <1>0, <1>2, <2>3 DEF Notes
      <3>1. notes[e] = 0 BY <1>z
      <3> QED BY <1>w, <2>1, <3>1
    <2>5. Works BY <1>0, <1>2, <1>i, <1>w, <2>1, <2>4 DEF Works, Abandon
    <2> QED BY <2>2, <2>5, LeavesInv
  <1>3. CASE /\ \/ UNCHANGED <<notes, misled>>
                \/ notes' = [notes EXCEPT ![job[fired]] = @ + 1] /\ misled' = TRUE
             /\ IF Current THEN RetryOwned /\ UNCHANGED batches ELSE Abandon("returning")
    <2>1. Notes' BY <1>0, <1>3, <1>z DEF Notes
    <2>2. notes' \in [0..MaxResets -> Nat] /\ misled' \in BOOLEAN BY <1>3, <1>i, <1>w
    <2>3. CASE Current
      <3>1. RetryOwned /\ UNCHANGED batches /\ Owns BY <1>3, <2>3, OwnsIsCurrent
      <3>2. (Ends \/ Rearms \/ Rejected) /\ retry' \in [attempt : 0..MaxRetries, exhausted : BOOLEAN]
        BY <3>1, RetriesIs
      <3>3. Works BY <1>0, <1>i, <2>1, <2>2, <3>1, <3>2 DEF Works
      <3> QED BY <3>2, <3>3, EndsInv, RearmsInv, RejectedInv
    <2>4. CASE ~Current
      <3>1. Abandon("returning") BY <1>3, <2>4
      <3>2. Leaves("returning") BY <2>4, <3>1, OwnsIsCurrent DEF Leaves, Abandon
      <3>3. Works BY <1>0, <1>i, <2>1, <2>2, <3>1 DEF Works, Abandon
      <3> QED BY <3>2, <3>3, LeavesInv
    <2> QED BY <2>3, <2>4
  <1> QED BY <1>1, <1>2, <1>3 DEF AddReturns

LEMMA DeleteInv ==
  ASSUME Inv, Delete
  PROVE  Inv'
  <1> USE Handlers DEF Inv
  <1>t. TypedFacts BY Typed
  <1>0. /\ UNCHANGED <<row, retry, probe, epoch, batches, probed, fired, arm, clock, crashes, sched, job, failures>>
        /\ pc[Alarm] = "deleting" /\ ~Owns /\ Goto(Alarm, "returning")
        /\ \/ /\ notes' = [notes EXCEPT ![job[fired]] = IF @ > 0 THEN @ - 1 ELSE 0]
              /\ misled' = misled
           \/ misled' = TRUE /\ notes' = notes
    BY DEF Delete, tables, platform, Lost
  <1>p. Moved(Alarm, "returning")
    BY <1>0, Moves DEF Labels
  <1>f. fired \in Ids /\ job[fired] \in 0..MaxResets BY <1>0, <1>t DEF OneCallback, TypedFacts
  <1>n. notes' \in [0..MaxResets -> Nat]
        /\ (~misled' => /\ ~misled
                        /\ notes'[job[fired]] = IF notes[job[fired]] > 0 THEN notes[job[fired]] - 1 ELSE 0
                        /\ \A e \in 0..MaxResets : e # job[fired] => notes'[e] = notes[e])
    <2>0. notes \in [0..MaxResets -> Nat] BY DEF TypeOK
    <2>1. CASE notes' = [notes EXCEPT ![job[fired]] = IF @ > 0 THEN @ - 1 ELSE 0] /\ misled' = misled
      <3>1. (IF notes[job[fired]] > 0 THEN notes[job[fired]] - 1 ELSE 0) \in Nat BY <1>f, <2>0
      <3>2. notes' \in [0..MaxResets -> Nat] BY <1>f, <2>0, <2>1, <3>1
      <3>3. notes'[job[fired]] = IF notes[job[fired]] > 0 THEN notes[job[fired]] - 1 ELSE 0
        BY <1>f, <2>0, <2>1
      <3>4. \A e \in 0..MaxResets : e # job[fired] => notes'[e] = notes[e]
        BY <1>f, <2>0, <2>1
      <3> QED BY <2>1, <3>2, <3>3, <3>4
    <2>2. CASE misled' = TRUE /\ notes' = notes
      BY <2>0, <2>2
    <2> QED BY <1>0, <2>1, <2>2
  <1>4. Probes' /\ Clocked' /\ probe' \in 0..Cardinality(Turns) BY <1>0, <1>p, ProbesFall DEF Moved
  <1>1. TypeOK'
    <2>1. misled' \in BOOLEAN BY <1>0 DEF TypeOK
    <2> QED BY <1>0, <1>p, <1>n, <2>1 DEF Moved, TypeOK
  <1>2. Where' BY <1>0, <1>p DEF Moved, Where, Up
  <1>3. OneCallback' BY <1>0, <1>p DEF Moved, OneCallback
  <1>5. Tried' BY <1>0, <1>p DEF Moved, Tried
  <1>6. Private'
    <2>1. \A p \in Procs : pc'[p] \in Calling => pc[p] \in Calling /\ p # Alarm BY <1>p DEF Moved, Calling
    <2>2. \A p \in Procs : got'[p] \in {got[p], NoId} /\ seen'[p] \in {seen[p], NoId}
                           /\ (p # Alarm => got'[p] = got[p])
      BY <1>p DEF Moved
    <2> QED BY <1>0, <2>1, <2>2, Bounds DEF Private
  <1>7. Payload' BY <1>0, <1>p DEF Moved, Payload
  <1>8. OfEpoch' BY <1>0 DEF OfEpoch
  <1>9. Lost' BY <1>0, <1>p DEF Moved, Lost, Owns
  <1>10. Kept' BY <1>0, <1>p DEF Moved, Kept, Owns
  <1>12. Notes'
    <2> SUFFICES ASSUME ~misled', NEW e \in 0..MaxResets, e # epoch PROVE notes'[e] = 0
      BY <1>0 DEF Notes
    <2>1. notes[e] = 0 \/ (e = job[fired] /\ notes[e] = 1) BY <1>n DEF Notes
    <2> QED BY <1>n, <2>1
  <1> QED BY <1>1, <1>2, <1>3, <1>4, <1>5, <1>6, <1>7, <1>8, <1>9, <1>10, <1>12

LEMMA ReturnInv ==
  ASSUME Inv, Return
  PROVE  Inv'
  <1> USE Handlers DEF Inv
  <1>t. TypedFacts BY Typed
  <1>0. /\ UNCHANGED <<row, retry, probe, epoch, notes, batches, probed, arm, clock, crashes, job, failures, misled>>
        /\ pc[Alarm] = "returning" /\ Up /\ Goto(Alarm, "idle") /\ fired' = NoId /\ sched' = Cancelled(sched, fired)
    BY DEF Return, tables, work
  <1>p. Moved(Alarm, "idle")
    BY <1>0, Moves DEF Labels
  <1>s. /\ sched' \in [Ids -> {"free", "waiting", "running"}]
        /\ \A j \in Ids : sched'[j] = IF j = fired THEN "free" ELSE sched[j]
    BY <1>0, Cancels
  <1>4. Probes' /\ Clocked' /\ probe' \in 0..Cardinality(Turns) BY <1>0, <1>p, ProbesFall DEF Moved
  <1>1. TypeOK' BY <1>0, <1>p, <1>s DEF Moved, TypeOK
  <1>2. Where' BY <1>0, <1>p DEF Moved, Where, Up
  <1>3. OneCallback' BY <1>0, <1>p, <1>s DEF Moved, OneCallback
  <1>5. Tried' BY <1>0, <1>p DEF Moved, Tried
  <1>6. Private'
    <2>1. \A p \in Procs : pc'[p] \in Calling => pc[p] \in Calling /\ p # Alarm BY <1>p DEF Moved, Calling
    <2>2. \A p \in Procs : got'[p] \in {got[p], NoId} /\ seen'[p] \in {seen[p], NoId}
                           /\ (p # Alarm => got'[p] = got[p])
      BY <1>p DEF Moved
    <2> QED BY <1>0, <1>s, <2>1, <2>2, Bounds DEF Private
  <1>7. Payload' BY <1>0, <1>p DEF Moved, Payload
  <1>8. OfEpoch' BY <1>0 DEF OfEpoch
  <1>9. Lost' BY <1>0, <1>p DEF Moved, Lost, Owns
  <1>10. Kept'
    <2>1. row # NoRow /\ sched[row.id] = "waiting" => sched'[row.id] = "waiting"
      BY <1>0, <1>s, <1>t DEF OneCallback, TypedFacts
    <2> QED BY <1>0, <1>p, <2>1 DEF Moved, Kept
  <1>12. Notes' BY <1>0, <1>p DEF Moved, Notes
  <1> QED BY <1>1, <1>2, <1>3, <1>4, <1>5, <1>6, <1>7, <1>8, <1>9, <1>10, <1>12

LEMMA ResetInv ==
  ASSUME Inv, Reset
  PROVE  Inv'
  <1> USE Handlers DEF Inv
  <1>t. TypedFacts BY Typed
  <1>0. /\ UNCHANGED <<batches, probed, sched, job, fired, seen, arm, tries, clock, crashes, failures, misled>>
        /\ row' = NoRow /\ retry' = NoRetry /\ probe' = 0 /\ Up
        /\ notes' = [e \in 0..MaxResets |-> 0]
        /\ epoch' = epoch + 1 /\ epoch < MaxResets
        /\ pc' = [pc EXCEPT ![Resetter] = "cancelling"]
        /\ got' = [got EXCEPT ![Resetter] = row.id]
    BY DEF Reset, platform
  <1>p. /\ pc' \in [Procs -> Labels] /\ pc'[Resetter] = "cancelling" /\ \A q \in Procs : q # Resetter => pc'[q] = pc[q]
        /\ got' \in [Procs -> Ids \cup {NoId}]
        /\ got'[Resetter] = row.id /\ \A q \in Procs : q # Resetter => got'[q] = got[q]
    <2>1. "cancelling" \in Labels BY DEF Labels
    <2> QED BY <1>0, <1>t, <2>1, Shapes DEF TypedFacts
  <1>4. Probes' /\ Clocked' /\ probe' \in 0..Cardinality(Turns) BY <1>0, <1>p, ProbesFall
  <1>1. TypeOK'
    <2>0. epoch \in 0..MaxResets BY <1>t DEF TypedFacts
    <2>1. epoch' \in 0..MaxResets BY <1>0, <2>0, Bounds
    <2>2. notes' \in [0..MaxResets -> Nat] BY <1>0
    <2> QED BY <1>0, <1>p, <1>4, <2>1, <2>2, NothingTyped DEF TypeOK
  <1>2. Where' BY <1>0, <1>p DEF Where, Up
  <1>3. OneCallback' BY <1>0, <1>p DEF OneCallback
  <1>5. Tried' BY <1>0, <1>p DEF Tried
  <1>6. Private'
    <2> SUFFICES ASSUME NEW q \in Procs, pc'[q] \in Calling
                 PROVE  /\ got'[q] \in Ids /\ sched'[got'[q]] = "waiting"
                        /\ got'[q] \notin {row'.id, fired'}
                        /\ \A r \in Procs : got'[q] # seen'[r] /\ (r # q => got'[q] # got'[r])
      BY DEF Private
    <2>1. q # Resetter /\ pc[q] \in Calling /\ got'[q] = got[q] BY <1>p DEF Calling
    <2>2. /\ got[q] \in Ids /\ sched[got[q]] = "waiting" /\ got[q] \notin {row.id, fired}
          /\ \A r \in Procs : got[q] # seen[r] /\ (r # q => got[q] # got[r])
      BY <2>1 DEF Private
    <2>3. got[q] # NoId BY <2>2, Bounds
    <2>4. \A r \in Procs : r # q => got'[q] # got'[r] BY <1>p, <2>1, <2>2
    <2> QED BY <1>0, <2>1, <2>2, <2>3, <2>4, NothingTyped
  <1>7. Payload' BY <1>0, <1>p DEF Payload
  <1>8. OfEpoch' BY <1>0 DEF OfEpoch
  <1>9. Lost' BY <1>0, <1>p, <1>t, NothingTyped, Bounds DEF Lost, Owns
  <1>10. Kept' BY <1>0 DEF Kept
  <1>12. Notes' BY <1>0 DEF Notes
  <1> QED BY <1>1, <1>2, <1>3, <1>4, <1>5, <1>6, <1>7, <1>8, <1>9, <1>10, <1>12

LEMMA ResetReturnsInv ==
  ASSUME Inv, ResetReturns
  PROVE  Inv'
  <1> USE Handlers DEF Inv
  <1>t. TypedFacts BY Typed
  <1>0. /\ UNCHANGED <<row, retry, probe, epoch, notes, batches, probed, fired, arm, clock, crashes, job, failures, misled>>
        /\ pc[Resetter] = "cancelling" /\ Up /\ Goto(Resetter, "idle") /\ sched' = Cancelled(sched, got[Resetter])
    BY DEF ResetReturns, tables, work
  <1>p. Moved(Resetter, "idle")
    BY <1>0, Moves DEF Labels
  <1>s. /\ sched' \in [Ids -> {"free", "waiting", "running"}]
        /\ \A j \in Ids : sched'[j] = IF j = got[Resetter] THEN "free" ELSE sched[j]
    BY <1>0, Cancels
  <1>4. Probes' /\ Clocked' /\ probe' \in 0..Cardinality(Turns) BY <1>0, <1>p, ProbesFall DEF Moved
  <1>1. TypeOK' BY <1>0, <1>p, <1>s DEF Moved, TypeOK
  <1>2. Where' BY <1>0, <1>p DEF Moved, Where, Up
  <1>3. OneCallback' BY <1>0, <1>p, <1>s, <1>t DEF Moved, OneCallback, TypedFacts
  <1>5. Tried' BY <1>0, <1>p DEF Moved, Tried
  <1>6. Private'
    <2>1. \A p \in Procs : pc'[p] \in Calling => pc[p] \in Calling /\ p # Resetter BY <1>p DEF Moved, Calling
    <2>2. \A p \in Procs : got'[p] \in {got[p], NoId} /\ seen'[p] \in {seen[p], NoId}
                           /\ (p # Resetter => got'[p] = got[p])
      BY <1>p DEF Moved
    <2>3. \A p \in Procs : pc[p] \in Calling /\ p # Resetter => sched'[got[p]] = "waiting"
      BY <1>s DEF Private
    <2> QED BY <1>0, <2>1, <2>2, <2>3, Bounds DEF Private
  <1>7. Payload' BY <1>0, <1>p DEF Moved, Payload
  <1>8. OfEpoch' BY <1>0 DEF OfEpoch
  <1>9. Lost' BY <1>0, <1>p DEF Moved, Lost, Owns
  <1>10. Kept'
    <2>1. row # NoRow => sched'[row.id] = sched[row.id]
      BY <1>0, <1>s, <1>t DEF Lost, TypedFacts
    <2> QED BY <1>0, <1>p, <2>1 DEF Moved, Kept
  <1>12. Notes' BY <1>0, <1>p DEF Moved, Notes
  <1> QED BY <1>1, <1>2, <1>3, <1>4, <1>5, <1>6, <1>7, <1>8, <1>9, <1>10, <1>12

-----------------------------------------------------------------------------
(* Handovers and repairs *)

\* A handler hands the row of i over to the schedule it has made, and is done.
LEMMA HandsOverInv ==
  ASSUME Inv, NEW p \in {Alarm, Repair, Start}, NEW i \in Ids, NEW label \in {"returning", "idle"},
         pc[p] \in Calling, HandsOff(p, i), Goto(p, label), job[got[p]] = job[i],
         p = Alarm => i = fired /\ label = "returning",
         p # Alarm => i = seen[p] /\ label = "idle",
         UNCHANGED <<retry, probe, epoch, notes, batches, probed, job, fired, arm, clock, crashes, failures, misled>>
  PROVE  Inv'
  <1> USE Handlers DEF Inv
  <1>t. TypedFacts BY Typed
  <1>p. Moved(p, label)
    <2>1. label \in Labels /\ p \in Procs BY DEF Labels
    <2> QED BY <2>1, Moves
  <1>q. p \in Procs /\ p \notin Turns /\ p # Resetter OBVIOUS
  <1>g. /\ got[p] \in Ids /\ got[p] # NoId /\ sched[got[p]] = "waiting" /\ got[p] \notin {row.id, fired}
        /\ \A q \in Procs : q # p => got[p] # got[q]
    BY <1>q, Bounds DEF Private
  <1>r. /\ \/ row # NoRow /\ row.id = i /\ row' = [row EXCEPT !.id = got[p]] /\ sched' = sched
           \/ (row # NoRow => row.id # i) /\ row' = row /\ sched' = Cancelled(sched, got[p])
    BY DEF HandsOff
  <1>c. /\ sched' \in [Ids -> {"free", "waiting", "running"}]
        /\ \A j \in Ids : sched'[j] \in {sched[j], "free"}
        /\ \A q \in Procs : pc[q] \in Calling /\ q # p => sched'[got[q]] = "waiting"
    <2>1. CASE sched' = sched BY <1>t, <2>1 DEF Private, TypedFacts
    <2>2. CASE sched' = Cancelled(sched, got[p])
      <3>1. /\ sched' \in [Ids -> {"free", "waiting", "running"}]
            /\ \A j \in Ids : sched'[j] = IF j = got[p] THEN "free" ELSE sched[j]
        BY <2>2, Cancels
      <3>2. \A q \in Procs : pc[q] \in Calling => got[q] \in Ids /\ sched[got[q]] = "waiting"
        BY DEF Private
      <3> QED BY <1>g, <3>1, <3>2
    <2> QED BY <1>r, <2>1, <2>2
  <1>w. /\ row' \in [id : Ids \cup {NoId}, armed : 0..Cardinality(Turns), epoch : 0..MaxResets]
        /\ row' = NoRow <=> row'.id = NoId
        /\ row' = row \/ (row # NoRow /\ row'.armed = row.armed /\ row'.epoch = row.epoch /\ row'.id = got[p])
        /\ row' # NoRow => \/ row # NoRow /\ row.id = i /\ row'.id = got[p] /\ sched'[row'.id] = "waiting"
                              /\ row'.epoch = row.epoch
                           \/ row' = row /\ row.id # i /\ sched'[row.id] = sched[row.id]
    <2>0. row \in [id : Ids \cup {NoId}, armed : 0..Cardinality(Turns), epoch : 0..MaxResets]
          /\ (row = NoRow <=> row.id = NoId)
      BY DEF TypeOK
    <2>1. CASE row # NoRow /\ row.id = i /\ row' = [row EXCEPT !.id = got[p]] /\ sched' = sched
      <3>1. /\ row' \in [id : Ids \cup {NoId}, armed : 0..Cardinality(Turns), epoch : 0..MaxResets]
            /\ row'.id = got[p] /\ row'.armed = row.armed /\ row'.epoch = row.epoch
        BY <1>g, <2>0, <2>1
      <3>2. row' # NoRow BY <1>g, <3>1, NothingTyped
      <3> QED BY <1>g, <2>1, <3>1, <3>2
    <2>2. CASE (row # NoRow => row.id # i) /\ row' = row /\ sched' = Cancelled(sched, got[p])
      <3>1. row # NoRow => sched'[row.id] = sched[row.id]
        BY <1>g, <1>t, <2>2, Cancels DEF TypedFacts
      <3> QED BY <2>0, <2>2, <3>1
    <2> QED BY <1>r, <2>1, <2>2
  <1>4. Probes' /\ Clocked' /\ probe' \in 0..Cardinality(Turns)
    <2>1. \A t \in Turns : pc'[t] = pc[t] BY <1>p, <1>q DEF Moved
    <2> QED BY <1>w, <2>1, ProbesFall
  <1>1. TypeOK' BY <1>p, <1>c, <1>w DEF Moved, TypeOK
  <1>2. Where' BY <1>p DEF Moved, Where, Calling
  <1>3. OneCallback'
    <2>1. pc'[Alarm] = "idle" <=> pc[Alarm] = "idle" BY <1>p DEF Moved, Calling
    <2> QED BY <1>c, <1>t, <2>1 DEF OneCallback, TypedFacts
  <1>5. Tried'
    <2>1. \A t \in Turns : pc'[t] = pc[t] /\ tries'[t] = tries[t] BY <1>p, <1>q DEF Moved
    <2>2. tries'[Start] = 0 BY <1>p DEF Moved, Tried
    <2>3. CASE p = Repair BY <1>p, <2>1, <2>2, <2>3, Bounds DEF Moved, Tried
    <2>4. CASE p # Repair BY <1>p, <2>1, <2>2, <2>4 DEF Moved, Tried
    <2> QED BY <2>3, <2>4
  <1>6. Private'
    <2> SUFFICES ASSUME NEW q \in Procs, pc'[q] \in Calling
                 PROVE  /\ got'[q] \in Ids /\ sched'[got'[q]] = "waiting"
                        /\ got'[q] \notin {row'.id, fired'}
                        /\ \A r \in Procs : got'[q] # seen'[r] /\ (r # q => got'[q] # got'[r])
      BY DEF Private
    <2>1. q # p /\ pc[q] \in Calling /\ got'[q] = got[q] BY <1>p DEF Moved, Calling
    <2>2. /\ got[q] \in Ids /\ got[q] \notin {row.id, fired}
          /\ \A r \in Procs : got[q] # seen[r] /\ (r # q => got[q] # got[r])
      BY <2>1 DEF Private
    <2>3. got[q] # NoId BY <2>2, Bounds
    <2>4. got'[q] \notin {row'.id, fired'} BY <1>g, <1>w, <2>1, <2>2
    <2>5. sched'[got'[q]] = "waiting" BY <1>c, <2>1, <2>2
    <2>6. \A r \in Procs : got'[q] # seen'[r] /\ (r # q => got'[q] # got'[r])
      BY <1>p, <2>1, <2>2, <2>3 DEF Moved
    <2> QED BY <2>1, <2>2, <2>4, <2>5, <2>6
  <1>7. Payload' BY <1>p DEF Moved, Payload
  <1>8. OfEpoch' BY <1>w DEF OfEpoch
  <1>9. Lost'
    <2>1. pc'[Resetter] = pc[Resetter] /\ got'[Resetter] = got[Resetter] BY <1>p, <1>q DEF Moved
    <2>2. row' = row \/ (row'.id # got[Resetter] /\ row'.id # fired) BY <1>g, <1>q, <1>w
    <2>3. pc'[Alarm] = "deleting" => pc[Alarm] = "deleting" BY <1>p DEF Moved
    <2> QED BY <2>1, <2>2, <2>3 DEF Lost, Owns
  <1>10. Kept'
    <2>1. CASE row' = row /\ row # NoRow /\ row.id # i /\ sched'[row.id] = sched[row.id]
      <3>1. CASE p = Alarm BY <1>p, <2>1, <3>1 DEF Moved, Kept
      <3>2. CASE p # Alarm
        <4>1. \A q \in {Repair, Start} : q = p => ~(pc[q] = "repair" \/ (pc[q] = "repairing" /\ seen[q] = row.id))
          BY <2>1, <3>2 DEF Calling
        <4> QED BY <1>p, <2>1, <3>2, <4>1 DEF Moved, Kept
      <3> QED BY <3>1, <3>2
    <2>2. CASE row' # NoRow /\ sched'[row'.id] = "waiting" BY <2>2 DEF Kept
    <2>3. CASE row' = NoRow BY <2>3 DEF Kept
    <2> QED BY <1>w, <2>1, <2>2, <2>3
  <1>12. Notes' BY <1>p DEF Moved, Notes, Calling
  <1> QED BY <1>1, <1>2, <1>3, <1>4, <1>5, <1>6, <1>7, <1>8, <1>9, <1>10, <1>12

LEMMA HandoffReturnsInv ==
  ASSUME Inv, HandoffReturns
  PROVE  Inv'
  <1>t. TypedFacts BY Typed
  <1>1. fired \in Ids /\ job[got[Alarm]] = job[fired] /\ pc[Alarm] \in Calling
    BY <1>t DEF HandoffReturns, Inv, Payload, OneCallback, TypedFacts, Calling
  <1> QED BY <1>1, HandsOverInv DEF HandoffReturns, work

LEMMA RepairReturnsInv ==
  ASSUME Inv, NEW p \in {Repair, Start}, RepairReturns(p)
  PROVE  Inv'
  <1>1. seen[p] \in Ids /\ job[got[p]] = job[seen[p]] /\ pc[p] \in Calling /\ p # Alarm
    BY Handlers DEF RepairReturns, Inv, Payload, Calling
  <1> QED BY <1>1, HandsOverInv DEF RepairReturns, work

\* What a repair looks at.
Looks(p) ==
    /\ pc[p] = "repair" /\ (Up \/ p = Start) /\ pc[Alarm] # "returning"
    /\ UNCHANGED <<retry, probe, epoch, notes, batches, probed, fired, arm, clock, crashes, misled>>

\* The repair finds nothing to do, or removes the row with its schedule.
LEMMA RepairIdleInv ==
  ASSUME Inv, NEW p \in {Repair, Start}, Looks(p), Goto(p, "idle"), UNCHANGED <<job, failures>>,
         \/ UNCHANGED <<row, sched>> /\ (row = NoRow \/ sched[row.id] # "free")
         \/ row' = NoRow /\ row # NoRow /\ sched' = Cancelled(sched, row.id)
  PROVE  Inv'
  <1> USE Handlers DEF Inv
  <1>t. TypedFacts BY Typed
  <1>q. p \in Procs /\ p \notin Turns /\ p # Resetter /\ p # Alarm OBVIOUS
  <1>0. /\ pc[p] = "repair" /\ pc[Alarm] # "returning"
        /\ UNCHANGED <<retry, probe, epoch, notes, batches, probed, fired, arm, clock, crashes, misled>>
    BY DEF Looks
  <1>p. Moved(p, "idle")
    BY <1>q, Moves DEF Labels
  <1>r. row' = row \/ row' = NoRow OBVIOUS
  <1>c. /\ sched' \in [Ids -> {"free", "waiting", "running"}]
        /\ \A j \in Ids : sched'[j] \in {sched[j], "free"}
        /\ \A q \in Procs : pc[q] \in Calling => sched'[got[q]] = "waiting"
    <2>1. CASE sched' = sched BY <1>t, <2>1 DEF Private, TypedFacts
    <2>2. CASE sched' = Cancelled(sched, row.id)
      BY <1>t, <2>2, Cancels DEF Private, TypedFacts
    <2> QED BY <2>1, <2>2
  <1>4. Probes' /\ Clocked' /\ probe' \in 0..Cardinality(Turns)
    <2>1. \A t \in Turns : pc'[t] = pc[t] BY <1>p, <1>q DEF Moved
    <2> QED BY <1>0, <1>r, <2>1, ProbesFall
  <1>1. TypeOK'
    <2>1. /\ row' \in [id : Ids \cup {NoId}, armed : 0..Cardinality(Turns), epoch : 0..MaxResets]
          /\ row' = NoRow <=> row'.id = NoId
      BY <1>r, NothingTyped DEF TypeOK
    <2>2. sched' \in [Ids -> {"free", "waiting", "running"}] BY <1>c
    <2> QED BY <1>0, <1>p, <2>1, <2>2 DEF Moved, TypeOK
  <1>2. Where' BY <1>p DEF Moved, Where
  <1>3. OneCallback'
    <2>1. pc'[Alarm] = pc[Alarm] BY <1>p, <1>q DEF Moved
    <2> QED BY <1>0, <1>c, <1>t, <2>1 DEF OneCallback, TypedFacts
  <1>5. Tried'
    <2>1. \A t \in Turns : pc'[t] = pc[t] /\ tries'[t] = tries[t] BY <1>p, <1>q DEF Moved
    <2>2. tries'[Start] = 0 BY <1>p DEF Moved, Tried
    <2>3. CASE p = Repair BY <1>p, <2>1, <2>2, <2>3, Bounds DEF Moved, Tried
    <2>4. CASE p # Repair BY <1>p, <2>1, <2>2, <2>4 DEF Moved, Tried
    <2> QED BY <2>3, <2>4
  <1>6. Private'
    <2>1. \A q \in Procs : pc'[q] \in Calling => pc[q] \in Calling /\ q # p BY <1>p DEF Moved, Calling
    <2>2. \A q \in Procs : got'[q] \in {got[q], NoId} /\ seen'[q] \in {seen[q], NoId}
                           /\ (q # p => got'[q] = got[q])
      BY <1>p DEF Moved
    <2>3. row'.id \in {row.id, NoId} BY <1>r, NothingTyped
    <2> QED BY <1>0, <1>c, <2>1, <2>2, <2>3, Bounds DEF Private
  <1>7. Payload' BY <1>0, <1>p DEF Moved, Payload
  <1>8. OfEpoch' BY <1>0, <1>r DEF OfEpoch
  <1>9. Lost'
    <2>1. pc'[Resetter] = pc[Resetter] /\ got'[Resetter] = got[Resetter] /\ pc'[Alarm] = pc[Alarm]
      BY <1>p, <1>q DEF Moved
    <2> QED BY <1>0, <1>r, <2>1 DEF Lost, Owns
  <1>10. Kept'
    <2>1. CASE row' = NoRow BY <2>1 DEF Kept
    <2>2. CASE row # NoRow /\ row' = row /\ sched' = sched /\ sched[row.id] # "free"
      <3>1. row.id \in Ids /\ sched[row.id] \in {"waiting", "running"} BY <1>t, <2>2 DEF TypedFacts
      <3>2. CASE sched[row.id] = "waiting" BY <2>2, <3>2 DEF Kept
      <3>3. CASE sched[row.id] = "running"
        <4>1. row.id = fired /\ fired # NoId BY <3>1, <3>3, Bounds DEF OneCallback
        <4>2. pc[Alarm] \notin {"idle", "returning"} BY <1>0, <4>1 DEF OneCallback
        <4>3. pc[Alarm] # "deleting" BY <2>2, <4>1 DEF Lost, Owns
        <4>4. pc'[Alarm] \in {"observe", "adding", "handoff"} BY <1>p, <1>q, <4>2, <4>3 DEF Moved, Where
        <4> QED BY <1>0, <2>2, <4>1, <4>4 DEF Kept
      <3> QED BY <3>1, <3>2, <3>3
    <2> QED BY <2>1, <2>2
  <1>12. Notes' BY <1>0, <1>p, <1>q DEF Moved, Notes
  <1> QED BY <1>1, <1>2, <1>3, <1>4, <1>5, <1>6, <1>7, <1>8, <1>9, <1>10, <1>12

LEMMA RepairCallsInv ==
  ASSUME Inv, NEW p \in {Repair, Start}, Looks(p), row # NoRow, row' = row,
         CallSchedule(p, "repairing", row.epoch), seen' = [seen EXCEPT ![p] = row.id], tries' = tries
  PROVE  Inv'
  <1> USE Handlers DEF Inv
  <1>t. TypedFacts BY Typed
  <1>q. p \in Procs /\ p \notin Turns /\ p # Resetter /\ p # Alarm OBVIOUS
  <1>0. /\ pc[p] = "repair"
        /\ UNCHANGED <<row, retry, probe, epoch, notes, batches, probed, fired, arm, clock, crashes, misled, tries>>
    BY DEF Looks
  <1>a. Alone(p, "repairing", row.epoch)
    <2>1. row.epoch \in 0..MaxResets /\ "repairing" \in Calling BY <1>t DEF TypedFacts, Calling
    <2>2. UNCHANGED <<row, fired>> BY <1>0
    <2> QED BY <1>q, <2>1, <2>2, CallsAlone
  <1>b. seen'[p] = row.id /\ row.id \in Ids /\ job'[row.id] = row.epoch
    <2>1. row.id \in Ids BY <1>t DEF TypedFacts
    <2>2. job[row.id] = row.epoch BY DEF OfEpoch
    <2> QED BY <1>a, <1>q, <1>t, <2>1, <2>2 DEF Alone, TypedFacts
  <1>4. Probes' /\ Clocked' /\ probe' \in 0..Cardinality(Turns)
    <2>1. \A t \in Turns : pc'[t] = pc[t] BY <1>a, <1>q DEF Alone
    <2> QED BY <1>0, <2>1, ProbesFall
  <1>1. TypeOK'
    <2>1. /\ sched' \in [Ids -> {"free", "waiting", "running"}] /\ job' \in [Ids -> 0..MaxResets]
          /\ got' \in [Procs -> Ids \cup {NoId}] /\ seen' \in [Procs -> Ids \cup {NoId}]
          /\ pc' \in [Procs -> Labels] /\ failures' = failures
      BY <1>a DEF Alone
    <2> QED BY <1>0, <2>1 DEF TypeOK
  <1>2. Where' BY <1>0, <1>a DEF Alone, Where
  <1>3. OneCallback' BY <1>0, <1>a, <1>q DEF Alone, OneCallback
  <1>5. Tried' BY <1>0, <1>a DEF Alone, Tried
  <1>7. Payload'
    <2>1. ASSUME NEW u \in Turns, pc'[u] = "arming" PROVE job'[got'[u]] = arm'[u].epoch
      BY <1>0, <1>a, <1>q, <2>1 DEF Alone, Payload, Calling
    <2>2. ASSUME pc'[Alarm] = "handoff" PROVE job'[got'[Alarm]] = job'[fired]
      <3>1. pc[Alarm] = "handoff" /\ got'[Alarm] = got[Alarm] /\ Alarm # p /\ fired # NoId
        BY <1>a, <1>q, <2>2 DEF Alone, OneCallback
      <3> QED BY <1>a, <3>1 DEF Alone, Payload, Calling
    <2>3. ASSUME NEW r \in {Repair, Start}, pc'[r] = "repairing"
          PROVE  seen'[r] \in Ids /\ job'[got'[r]] = job'[seen'[r]]
      <3>1. CASE r = p BY <1>a, <1>b, <3>1 DEF Alone
      <3>2. CASE r # p
        <4>1. pc[r] = "repairing" /\ got'[r] = got[r] /\ seen'[r] = seen[r] /\ r \in Procs
          BY <1>a, <2>3, <3>2 DEF Alone
        <4>2. seen[r] \in Ids /\ job[got[r]] = job[seen[r]] BY <4>1 DEF Payload
        <4> QED BY <1>a, <3>2, <4>1, <4>2 DEF Alone, Calling
      <3> QED BY <3>1, <3>2
    <2> QED BY <1>0, <2>1, <2>2, <2>3 DEF Payload
  <1>8. OfEpoch' BY <1>0, <1>a DEF Alone, OfEpoch
  <1>9. Lost' BY <1>0, <1>a, <1>q DEF Alone, Lost, Owns
  <1>10. Kept' BY <1>0, <1>a, <1>b DEF Alone, Kept
  <1>12. Notes'
    <2>1. pc'[Alarm] = pc[Alarm] BY <1>a, <1>q DEF Alone
    <2>2. pc[Alarm] = "deleting" => job'[fired] = job[fired] BY <1>a DEF Alone, OneCallback
    <2> QED BY <1>0, <2>1, <2>2 DEF Notes
  <1> QED BY <1>0, <1>1, <1>2, <1>3, <1>4, <1>5, <1>a, <1>7, <1>8, <1>9, <1>10, <1>12 DEF Alone

LEMMA RepairFailsInv ==
  ASSUME Inv, NEW p \in {Repair, Start}, Looks(p), row' = row, Reject, Failed(p), seen' = seen
  PROVE  Inv'
  <1> USE Handlers DEF Inv
  <1>t. TypedFacts BY Typed
  <1>q. p \in Procs /\ p \notin Turns /\ p # Resetter /\ p # Alarm OBVIOUS
  <1>0. /\ UNCHANGED <<row, retry, probe, epoch, notes, batches, probed, fired, arm, clock, crashes, misled,
                       sched, job, got, seen>>
        /\ pc[p] = "repair" /\ (Up \/ p = Start) /\ failures < MaxFailures /\ failures' = failures + 1
    BY DEF Looks, Reject, platform
  <1>n. failures \in Nat /\ tries[Repair] \in Nat /\ tries \in [Procs -> 0..RepairTries + 1]
    BY <1>t, Shapes DEF TypedFacts
  <1>p. /\ pc' \in [Procs -> Labels] /\ tries' \in [Procs -> 0..RepairTries + 1]
        /\ \A q \in Procs : q \notin {Repair, Start} => pc'[q] = pc[q] /\ tries'[q] = tries[q]
        /\ pc'[Repair] \in {"idle", "repair"} /\ pc'[Start] = "idle"
        /\ tries'[Start] = 0 /\ tries'[Repair] < RepairTries
        /\ pc'[Repair] = "idle" => tries'[Repair] = 0 /\ failures' > RepairTries
        /\ pc'[Repair] # "idle" => failures' > tries'[Repair]
    <2>0. {"idle", "repair"} \subseteq Labels BY DEF Labels
    <2>1. CASE p = Repair
      <3>1. pc' = [pc EXCEPT ![Repair] = IF tries[Repair] + 1 < RepairTries THEN "repair" ELSE "idle"]
            /\ tries' = [tries EXCEPT ![Repair] = IF tries[Repair] + 1 < RepairTries THEN tries[Repair] + 1 ELSE 0]
        BY <2>1 DEF Failed
      <3>2. failures > tries[Repair] BY <1>0, <2>1 DEF Tried
      <3>3. pc[Start] = "idle" /\ tries[Start] = 0 BY <1>0, <2>1 DEF Tried, Where, Up
      <3>4. /\ pc' \in [Procs -> Labels] /\ \A q \in Procs : q # Repair => pc'[q] = pc[q]
            /\ pc'[Repair] = IF tries[Repair] + 1 < RepairTries THEN "repair" ELSE "idle"
        BY <2>0, <3>1, Shapes
      <3>5. (IF tries[Repair] + 1 < RepairTries THEN tries[Repair] + 1 ELSE 0) \in 0..RepairTries + 1
        BY <1>n, Bounds
      <3>6. /\ tries' \in [Procs -> 0..RepairTries + 1] /\ \A q \in Procs : q # Repair => tries'[q] = tries[q]
            /\ tries'[Repair] = IF tries[Repair] + 1 < RepairTries THEN tries[Repair] + 1 ELSE 0
        BY <1>n, <3>1, <3>5
      <3>7. CASE tries[Repair] + 1 < RepairTries
        <4>1. failures' > tries[Repair] + 1 BY <1>0, <1>n, <3>2
        <4> QED BY <3>3, <3>4, <3>6, <3>7, <4>1
      <3>8. CASE ~(tries[Repair] + 1 < RepairTries)
        <4>1. failures' > RepairTries BY <1>0, <1>n, <3>2, <3>8, Bounds
        <4>2. 0 < RepairTries BY Bounds
        <4> QED BY <3>3, <3>4, <3>6, <3>8, <4>1, <4>2
      <3> QED BY <3>7, <3>8
    <2>2. CASE p = Start
      <3>1. pc' = [pc EXCEPT ![Start] = "idle", ![Repair] = "repair"] /\ tries' = tries
        BY <2>2 DEF Failed
      <3>2. pc[Repair] = "idle" BY <1>0, <2>2 DEF Where
      <3>3. /\ pc' \in [Procs -> Labels] /\ \A q \in Procs : q \notin {Repair, Start} => pc'[q] = pc[q]
            /\ pc'[Repair] = "repair" /\ pc'[Start] = "idle"
        BY <2>0, <3>1, Shapes
      <3>4. tries[Start] = 0 /\ tries[Repair] = 0 /\ tries[Repair] < RepairTries BY <3>2 DEF Tried
      <3>5. failures' > 0 BY <1>0, <1>n
      <3> QED BY <1>n, <3>1, <3>3, <3>4, <3>5
    <2> QED BY <2>1, <2>2
  <1>4. Probes' /\ Clocked' /\ probe' \in 0..Cardinality(Turns)
    <2>1. \A t \in Turns : pc'[t] = pc[t] BY <1>p
    <2> QED BY <1>0, <2>1, ProbesFall
  <1>1. TypeOK'
    <2>1. failures' \in 0..MaxFailures BY <1>0, <1>n, Bounds
    <2> QED BY <1>0, <1>p, <2>1 DEF TypeOK
  <1>2. Where' BY <1>0, <1>p DEF Where
  <1>3. OneCallback' BY <1>0, <1>p DEF OneCallback
  <1>5. Tried' BY <1>p DEF Tried
  <1>6. Private'
    <2>1. \A q \in Procs : pc'[q] \in Calling => pc[q] \in Calling BY <1>p DEF Calling
    <2> QED BY <1>0, <2>1 DEF Private
  <1>7. Payload' BY <1>0, <1>p DEF Payload
  <1>8. OfEpoch' BY <1>0 DEF OfEpoch
  <1>9. Lost' BY <1>0, <1>p DEF Lost, Owns
  <1>10. Kept'
    <2>1. CASE pc'[Repair] = "idle" BY <1>0, <1>n, <1>p, <2>1, Bounds DEF Kept
    <2>2. CASE pc'[Repair] = "repair" BY <2>2 DEF Kept
    <2> QED BY <1>p, <2>1, <2>2
  <1>12. Notes' BY <1>0, <1>p DEF Notes
  <1> QED BY <1>1, <1>2, <1>3, <1>4, <1>5, <1>6, <1>7, <1>8, <1>9, <1>10, <1>12

LEMMA ReconcileInv ==
  ASSUME Inv, NEW p \in {Repair, Start}, Reconcile(p)
  PROVE  Inv'
  <1>1. Looks(p) BY DEF Reconcile, Looks, work
  <1>2. \/ /\ Goto(p, "idle") /\ UNCHANGED <<job, failures>>
           /\ \/ UNCHANGED <<row, sched>> /\ (row = NoRow \/ sched[row.id] # "free")
              \/ row' = NoRow /\ row # NoRow /\ sched' = Cancelled(sched, row.id)
        \/ /\ row # NoRow /\ row' = row
           /\ CallSchedule(p, "repairing", row.epoch) /\ seen' = [seen EXCEPT ![p] = row.id] /\ tries' = tries
        \/ row' = row /\ Reject /\ Failed(p) /\ seen' = seen
    BY DEF Reconcile, platform
  <1> QED BY <1>1, <1>2, RepairIdleInv, RepairCallsInv, RepairFailsInv

-----------------------------------------------------------------------------
(* Evictions, and the whole *)

LEMMA CrashInv ==
  ASSUME Inv, Crash
  PROVE  Inv'
  <1> USE Handlers DEF Inv
  <1>t. TypedFacts BY Typed
  <1>0. /\ UNCHANGED <<row, retry, probe, epoch, batches, probed, job, arm, clock, failures>>
        /\ crashes < MaxCrashes /\ crashes' = crashes + 1 /\ fired' = NoId
        /\ sched' = [i \in Ids |-> IF sched[i] = "running" THEN "waiting" ELSE sched[i]]
        /\ notes' = notes \/ (pc[Alarm] = "adding" /\ notes' = [notes EXCEPT ![job[fired]] = @ + 1])
        /\ misled' = (misled \/ pc[Alarm] \in {"adding", "deleting"})
    BY DEF Crash, tables
  <1>p. /\ pc' = [p \in Procs |-> IF p = Start THEN "repair"
                                  ELSE IF p \in Turns /\ pc[p] # "idle" THEN "done" ELSE "idle"]
        /\ got' = [p \in Procs |-> NoId] /\ seen' = [p \in Procs |-> NoId] /\ tries' = [p \in Procs |-> 0]
    BY DEF Crash
  <1>a. /\ pc'[Start] = "repair" /\ pc'[Alarm] = "idle" /\ pc'[Repair] = "idle" /\ pc'[Resetter] = "idle"
        /\ \A t \in Turns : pc'[t] = IF pc[t] = "idle" THEN "idle" ELSE "done"
        /\ pc' \in [Procs -> Labels]
    <2>1. {"repair", "done", "idle"} \subseteq Labels BY DEF Labels
    <2> QED BY <1>p, <2>1
  <1>b. /\ got' \in [Procs -> Ids \cup {NoId}] /\ seen' \in [Procs -> Ids \cup {NoId}]
        /\ tries' \in [Procs -> 0..RepairTries + 1] /\ \A p \in Procs : tries'[p] = 0
    BY <1>p, Bounds
  <1>c. \A p \in Procs : pc'[p] \notin Calling
    <2>1. \A p \in Procs : pc'[p] \in {"repair", "done", "idle"} BY <1>p
    <2> QED BY <2>1 DEF Calling
  <1>s. /\ sched' \in [Ids -> {"free", "waiting", "running"}]
        /\ \A i \in Ids : sched'[i] # "running"
    BY <1>0, <1>t DEF TypedFacts
  <1>4. Clocked'
    <2>1. Past \in SUBSET Turns /\ Past' \in SUBSET Turns /\ Past \subseteq Past'
      BY <1>a DEF Past
    <2>2. Cardinality(Past) <= Cardinality(Past') /\ Cardinality(Past) \in Nat /\ Cardinality(Past') \in Nat
      BY <2>1, PastGrows
    <2>3. clock <= Cardinality(Past') BY <1>t, <2>2 DEF Clocked, TypedFacts
    <2> QED BY <1>0, <2>3 DEF Clocked
  <1>1. TypeOK'
    <2>1. crashes' \in 0..MaxCrashes
      <3>1. crashes \in 0..MaxCrashes BY DEF TypeOK
      <3> QED BY <1>0, <3>1, Bounds
    <2>2. notes' \in [0..MaxResets -> Nat]
      <3>0. notes \in [0..MaxResets -> Nat] BY DEF TypeOK
      <3>1. CASE notes' = notes BY <3>0, <3>1
      <3>2. CASE pc[Alarm] = "adding" /\ notes' = [notes EXCEPT ![job[fired]] = @ + 1]
        <4>1. fired \in Ids BY <1>t, <3>2 DEF OneCallback, TypedFacts
        <4>2. job[fired] \in 0..MaxResets BY <1>t, <4>1 DEF TypedFacts
        <4> QED BY <3>0, <3>2, <4>2
      <3> QED BY <1>0, <3>1, <3>2
    <2>3. misled' \in BOOLEAN BY <1>0 DEF TypeOK
    <2> QED BY <1>0, <1>a, <1>b, <1>s, <2>1, <2>2, <2>3 DEF TypeOK
  <1>2. Where' BY <1>a DEF Where
  <1>3. OneCallback' BY <1>0, <1>a, <1>s DEF OneCallback
  <1>5. Tried' BY <1>a, <1>b, Bounds DEF Tried, Pending
  <1>6. Private' BY <1>c DEF Private
  <1>7. Payload' BY <1>a DEF Payload
  <1>8. OfEpoch' BY <1>0 DEF OfEpoch
  <1>9. Lost' BY <1>a DEF Lost
  <1>10. Kept' BY <1>a DEF Kept
  <1>11. Probes'
    <2>1. \A t \in Turns : pc'[t] \notin Pending BY <1>a DEF Pending
    <2> QED BY <1>0, <2>1 DEF Probes
  <1>12. Notes' BY <1>0 DEF Notes
  <1> QED BY <1>1, <1>2, <1>3, <1>4, <1>5, <1>6, <1>7, <1>8, <1>9, <1>10, <1>11, <1>12

LEMMA StutterInv ==
  ASSUME Inv, UNCHANGED vars
  PROVE  Inv'
  <1>1. UNCHANGED <<row, retry, probe, epoch, notes, batches, probed, sched, job, fired, pc, got, seen, arm,
                    tries, clock, crashes, failures, misled>>
    BY DEF vars, tables, work, platform, handlers
  <1>2. Past' = Past BY <1>1 DEF Past
  <1>3. TypeOK' BY <1>1 DEF TypeOK, Inv
  <1>4. Where' /\ OneCallback' /\ Tried' BY <1>1 DEF Inv, Where, OneCallback, Tried
  <1>5. Clocked' BY <1>1, <1>2 DEF Inv, Clocked
  <1>6. Private' /\ Payload' BY <1>1 DEF Inv, Private, Payload
  <1>7. OfEpoch' /\ Lost' /\ Kept' BY <1>1 DEF Inv, OfEpoch, Lost, Kept, Owns
  <1>8. Probes' /\ Notes' BY <1>1 DEF Inv, Probes, Notes
  <1> QED BY <1>3, <1>4, <1>5, <1>6, <1>7, <1>8 DEF Inv

LEMMA InitInv ==
  ASSUME Init
  PROVE  Inv
  <1> USE Handlers, NothingTyped, Bounds DEF Init
  <1>1. \A p \in Procs : pc[p] = "idle" /\ got[p] = NoId /\ seen[p] = NoId /\ tries[p] = 0 OBVIOUS
  <1>2. TypeOK
    <2>1. arm \in [Turns -> [armed : 0..Cardinality(Turns), epoch : 0..MaxResets]] OBVIOUS
    <2>2. probed \in [1..Cardinality(Turns) -> 0..2] OBVIOUS
    <2>3. pc \in [Procs -> Labels] BY DEF Labels
    <2>4. notes \in [0..MaxResets -> Nat] OBVIOUS
    <2>5. job \in [Ids -> 0..MaxResets] /\ sched \in [Ids -> {"free", "waiting", "running"}] OBVIOUS
    <2>6. /\ got \in [Procs -> Ids \cup {NoId}] /\ seen \in [Procs -> Ids \cup {NoId}]
          /\ tries \in [Procs -> 0..RepairTries + 1]
      OBVIOUS
    <2>7. /\ batches \in 0..MaxBatches /\ epoch \in 0..MaxResets /\ clock \in 0..Cardinality(Turns)
          /\ crashes \in 0..MaxCrashes /\ failures \in 0..MaxFailures
      <3>1. \A n \in Nat : 0 \in 0..n /\ n \in 0..n OBVIOUS
      <3> QED BY <3>1
    <2>8. misled \in BOOLEAN OBVIOUS
    <2> QED BY <2>1, <2>2, <2>3, <2>4, <2>5, <2>6, <2>7, <2>8 DEF TypeOK
  <1>3. Where BY <1>1 DEF Where
  <1>4. OneCallback BY <1>1 DEF OneCallback
  <1>5. Clocked
    <2>1. Past \in SUBSET Turns /\ Cardinality(Past) \in Nat BY PastGrows DEF Past
    <2> QED BY <2>1 DEF Clocked
  <1>6. Tried BY <1>1 DEF Tried, Pending
  <1>7. Private BY <1>1 DEF Private, Calling
  <1>8. Payload BY <1>1 DEF Payload
  <1>9. OfEpoch /\ Kept BY DEF OfEpoch, Kept
  <1>10. Lost BY <1>1 DEF Lost
  <1>11. Probes
    <2>1. \A t \in Turns : pc[t] \notin Pending BY <1>1 DEF Pending
    <2> QED BY <2>1 DEF Probes
  <1>12. Notes BY DEF Notes
  <1> QED BY <1>2, <1>3, <1>4, <1>5, <1>6, <1>7, <1>8, <1>9, <1>10, <1>11, <1>12 DEF Inv

\* Every step keeps the invariant.
LEMMA StepInv ==
  ASSUME Inv, [Next]_vars
  PROVE  Inv'
  <1>1. ASSUME NEW t \in Turns, StartTurn(t) PROVE Inv' BY <1>1, StartTurnInv
  <1>2. ASSUME NEW t \in Turns, EndTurn(t) \/ RetryArm(t) PROVE Inv'
    BY <1>2, AsksIs, AttemptIs, StopsInv, TurnCallsInv
  <1>3. ASSUME NEW t \in Turns, ArmReturns(t) PROVE Inv' BY <1>3, ArmReturnsInv
  <1>4. ASSUME NEW i \in Ids, Fire(i) PROVE Inv' BY <1>4, FireInv
  <1>5. CASE Observe BY <1>5, ObserveInv
  <1>6. CASE AddReturns BY <1>6, AddReturnsInv
  <1>7. CASE Delete BY <1>7, DeleteInv
  <1>8. CASE HandoffReturns BY <1>8, HandoffReturnsInv
  <1>9. CASE Return BY <1>9, ReturnInv
  <1>10. ASSUME NEW p \in {Repair, Start}, Reconcile(p) PROVE Inv' BY <1>10, ReconcileInv
  <1>11. ASSUME NEW p \in {Repair, Start}, RepairReturns(p) PROVE Inv' BY <1>11, RepairReturnsInv
  <1>12. CASE Reset BY <1>12, ResetInv
  <1>13. CASE ResetReturns BY <1>13, ResetReturnsInv
  <1>14. CASE Crash BY <1>14, CrashInv
  <1>15. CASE UNCHANGED vars BY <1>15, StutterInv
  <1> QED
    BY <1>1, <1>2, <1>3, <1>4, <1>5, <1>6, <1>7, <1>8, <1>9, <1>10, <1>11, <1>12, <1>13, <1>14, <1>15
    DEF Next, Turn, Work

LEMMA AlwaysInv == Spec => []Inv
  <1>1. Init => Inv BY InitInv
  <1>2. Inv /\ [Next]_vars => Inv' BY StepInv
  <1> QED BY <1>1, <1>2, PTL DEF Spec

-----------------------------------------------------------------------------

\* A step replaces the row by one that is at least as new.
LEMMA NewerRow ==
  ASSUME Inv, Next, row # NoRow, row' # NoRow
  PROVE  row'.armed >= row.armed
  <1> USE Handlers
  <1>t. TypedFacts BY Typed
  <1>r. row \in [id : Ids \cup {NoId}, armed : 0..Cardinality(Turns), epoch : 0..MaxResets]
    BY DEF Inv, TypeOK
  <1>0. SUFFICES row' = row \/ row'.armed = row.armed \/ row'.armed >= row.armed
    <2>1. row.armed \in Nat BY <1>t DEF TypedFacts
    <2> QED BY <2>1
  <1>1. ASSUME NEW t \in Turns, StartTurn(t) PROVE row' = row BY <1>1 DEF StartTurn
  <1>2. ASSUME NEW t \in Turns, EndTurn(t) \/ RetryArm(t) PROVE row' = row BY <1>2, AsksIs DEF Asks
  <1>3. ASSUME NEW t \in Turns, ArmReturns(t) PROVE row' = row \/ row'.armed >= row.armed
    <2>1. CASE Arms(t)
      <3>1. row'.armed = arm[t].armed BY <1>3, <2>1 DEF ArmReturns
      <3>2. row.armed <= arm[t].armed BY <2>1 DEF Arms
      <3>3. row.armed \in Nat /\ arm[t].armed \in Nat BY <1>t DEF TypedFacts
      <3> QED BY <3>1, <3>2, <3>3
    <2>2. CASE ~Arms(t) BY <1>3, <2>2 DEF ArmReturns
    <2> QED BY <2>1, <2>2
  <1>4. ASSUME NEW i \in Ids, Fire(i) PROVE row' = row BY <1>4 DEF Fire
  <1>5. CASE Observe \/ AddReturns
    BY <1>5 DEF Observe, AddReturns, Added, Abandon, Advance, RetryOwned
  <1>7. ASSUME NEW p, NEW i, HandsOff(p, i) PROVE row'.armed = row.armed
    BY <1>r, <1>7 DEF HandsOff
  <1>8. CASE HandoffReturns BY <1>7, <1>8 DEF HandoffReturns
  <1>9. CASE Delete \/ Return \/ ResetReturns BY <1>9 DEF Delete, Return, ResetReturns, tables
  <1>10. ASSUME NEW p \in {Repair, Start}, Reconcile(p) PROVE row' = row BY <1>10 DEF Reconcile
  <1>11. ASSUME NEW p \in {Repair, Start}, RepairReturns(p) PROVE row'.armed = row.armed
    BY <1>7, <1>11 DEF RepairReturns
  <1>12. CASE Reset BY <1>12 DEF Reset
  <1>14. CASE Crash BY <1>14 DEF Crash, tables
  <1> QED
    BY <1>1, <1>2, <1>3, <1>4, <1>5, <1>8, <1>9, <1>10, <1>11, <1>12, <1>14 DEF Next, Turn, Work

\* The shape of the state, whatever turns, callbacks, repairs and resets do.
THEOREM TypeCorrect == Spec => []TypeOK
  <1>1. Inv => TypeOK BY DEF Inv
  <1> QED BY <1>1, AlwaysInv, PTL

\* A row is no orphan and is of this epoch, in every interleaving of turns,
\* the callback, repairs, onStart, resets and evictions, as long as
\* agent.schedule has not failed more often than a repair tries
\* (rearmOwnedPostTurnReflect, reconcilePostTurnReflectRow).
THEOREM RowKeepsItsJob == Spec => [](failures <= RepairTries => RowAndJob)
  <1>1. Inv => (failures <= RepairTries => RowAndJob)
    <2> SUFFICES ASSUME Inv, failures <= RepairTries PROVE RowAndJob OBVIOUS
    <2>1. RowHasJob BY DEF Inv, Kept, RowHasJob
    <2>2. RowIsCurrent BY DEF Inv, OfEpoch, RowIsCurrent
    <2> QED BY <2>1, <2>2 DEF RowAndJob, Inv
  <1> QED BY <1>1, AlwaysInv, PTL

\* No note outlives the memory reset its job did not see
\* (interaction-observe.ts:256-264).
THEOREM NotesAreOfTheirEpoch == Spec => []NoStaleNote
  <1>1. Inv => NoStaleNote
    <2> SUFFICES ASSUME Inv, NEW e \in 0..MaxResets, notes[e] > 0, e # epoch, ~misled, pc[Alarm] # "deleting"
                 PROVE  FALSE
      BY DEF NoStaleNote
    <2>1. notes[e] = 0 BY DEF Inv, Notes
    <2> QED BY <2>1
  <1> QED BY <1>1, AlwaysInv, PTL

\* No exhausted job is run twice for one turn (claimPostTurnProbe).
THEOREM ProbedOnce == Spec => []ProbeOnce
  <1>1. Inv => ProbeOnce BY DEF Inv, Probes, ProbeOnce
  <1> QED BY <1>1, AlwaysInv, PTL

\* No older job replaces a newer one (attemptPostTurnReflectArm).
THEOREM NewestArm == Spec => NewestArmWins
  <1>1. Inv /\ [Next]_vars => [row # NoRow /\ row' # NoRow => row'.armed >= row.armed]_row
    BY NewerRow DEF vars, tables
  <1> QED BY <1>1, AlwaysInv, PTL DEF Spec, NewestArmWins
=============================================================================
