--------------------------- MODULE AutomationsProofs ---------------------------
(***************************************************************************)
(* Reminders and automations, for any people, calls, schedules and faults: *)
(* the limits, the lines of reminders, the schedules of the automations    *)
(* and the target of a DM.                                                 *)
(*                                                                         *)
(* Calls work on what they read before an await, so the invariant says     *)
(* what of it still holds after one: the reminder a replacement was made   *)
(* from, the schedule of an automation that only one call is working on,   *)
(* the new schedule that no one else knows of.                             *)
(***************************************************************************)
EXTENDS Automations, FiniteSetTheorems, SequenceTheorems, TLAPS

-----------------------------------------------------------------------------
(* What the parts are made of *)

States == {"live", "over", "replaced", "undone", "dropped"}
People == Users \cup {Nobody}
JobType ==
    [row : Nat, by : Users, to : People, once : BOOLEAN, of : Nat, root : Nat,
     state : States]
AutoType ==
    [there : BOOLEAN, enabled : BOOLEAN, sid : Nat, to : People, by : Users]
CallType ==
    [at : {"idle", "counted", "swapping", "resolving", "locating", "arming",
           "clearing", "unwinding", "removing"},
     who : People, old : Nat, new : Nat, row : Nat, to : People,
     on : BOOLEAN, dm : BOOLEAN, edit : BOOLEAN]

Typed ==
    /\ jobs \in Seq(JobType) /\ rows \in Seq(AutoType)
    /\ call \in [Calls -> CallType] /\ disturbed \subseteq RowIds

\* A reminder is of a line, an automation's schedule of none.
JobOK(j) ==
    /\ jobs[j].row \in 0..Len(rows)
    /\ jobs[j].of < j /\ jobs[j].root \in 1..j
    /\ jobs[j].row = 0 => jobs[j].to = Nobody
    /\ jobs[j].row # 0 =>
          ~jobs[j].once /\ jobs[j].of = 0 /\ jobs[j].to \in {Nobody, jobs[j].by}

\* An automation names a schedule of its own.
RowOK(r) ==
    /\ rows[r].to \in {Nobody, rows[r].by}
    /\ rows[r].enabled <=> rows[r].sid # 0
    /\ rows[r].sid <= Len(jobs)
    /\ rows[r].sid # 0 => jobs[rows[r].sid].row = r

\* And so does a call that works on it; one on a reminder has row 0.
Points(k) ==
    /\ k.row <= Len(rows) /\ k.old <= Len(jobs) /\ k.new <= Len(jobs)
    /\ k.old # 0 => jobs[k.old].row = k.row
    /\ k.new # 0 => jobs[k.new].row = k.row

\* What the calls have come to.
OnReminder(k) ==
    /\ k.who \in Users /\ k.row = 0
    /\ k.at = "counted" => k.old = 0 /\ k.new = 0
    /\ k.at = "swapping" => k.old # 0 /\ k.new # 0
Asks(k) ==
    /\ k.who \in Users /\ k.new = 0
    /\ k.edit => k.row # 0 /\ rows[k.row].by = k.who
    /\ ~k.edit => k.row = 0 /\ k.old = 0
Sets(k) ==
    /\ k.row # 0
    /\ k.to \in {Nobody, rows[k.row].by}
    /\ k.old # 0 => k.edit
Phase(k) ==
    /\ k.at = "idle" => k = Idle
    /\ k.at \in {"counted", "swapping"} => OnReminder(k)
    /\ k.at = "resolving" => Asks(k)
    /\ k.at = "locating" => Sets(k) /\ k.on /\ k.new = 0
    /\ k.at = "arming" => Sets(k) /\ k.on /\ k.new # 0
    /\ k.at = "clearing" => Sets(k) /\ k.old # 0 /\ (k.on <=> k.new # 0)
    /\ k.at = "unwinding" => Sets(k) /\ k.on /\ k.new # 0
    /\ k.at = "removing" => k.row # 0 /\ k.old = 0 /\ k.new = 0

Base ==
    /\ Typed
    /\ \A j \in Ids : JobOK(j)
    /\ \A r \in RowIds : RowOK(r)
    /\ \A c \in Calls : Points(call[c]) /\ Phase(call[c])

-----------------------------------------------------------------------------
(* The platform's table and the rows *)

\* What no step changes of a schedule, and of a row.
JobsKept ==
    /\ Len(jobs) <= Len(jobs')
    /\ \A j \in Ids :
          /\ jobs'[j].row = jobs[j].row /\ jobs'[j].by = jobs[j].by
          /\ jobs'[j].to = jobs[j].to /\ jobs'[j].once = jobs[j].once
          /\ jobs'[j].of = jobs[j].of /\ jobs'[j].root = jobs[j].root
RowsKept ==
    /\ Len(rows) <= Len(rows')
    /\ \A r \in RowIds : rows'[r].by = rows[r].by

\* A function over an interval from 1 is a sequence.
LEMMA Listed ==
    ASSUME NEW S, NEW n \in Nat, NEW f \in [1..n -> S]
    PROVE  f \in Seq(S) /\ Len(f) = n
  OBVIOUS

LEMMA LenIsNat == Typed => Len(jobs) \in Nat /\ Len(rows) \in Nat
  BY LenProperties DEF Typed

\* A schedule that is added.
LEMMA Added ==
    ASSUME Typed, NEW x \in JobType, Arms(x)
    PROVE  /\ jobs' \in Seq(JobType) /\ JobsKept
           /\ Len(jobs') = Len(jobs) + 1 /\ jobs'[Len(jobs) + 1] = x
           /\ \A j \in Ids : jobs'[j] = jobs[j]
<1>1. /\ jobs' \in Seq(JobType) /\ Len(jobs') = Len(jobs) + 1
      /\ jobs'[Len(jobs) + 1] = x
      /\ \A j \in 1..Len(jobs) : jobs'[j] = jobs[j]
  BY AppendProperties DEF Arms, Typed
<1> QED BY <1>1, LenIsNat DEF JobsKept, Ids

\* A schedule that is removed, if it was still there.
LEMMA Removal ==
    ASSUME Typed, NEW i \in Nat, NEW how \in States, Cancels(i, how)
    PROVE  /\ jobs' \in Seq(JobType) /\ JobsKept /\ Len(jobs') = Len(jobs)
           /\ \A j \in Ids :
                 /\ j # i => jobs'[j] = jobs[j]
                 /\ jobs'[j].state =
                       IF j = i /\ jobs[j].state = "live" THEN how
                       ELSE jobs[j].state
<1>1. CASE ~Live(i)
  <2>1. jobs' = jobs BY <1>1 DEF Cancels, Ended
  <2> QED BY <1>1, <2>1, LenIsNat DEF JobsKept, Live, Typed, Ids
<1>2. CASE Live(i)
  <2>1. jobs' = [jobs EXCEPT ![i].state = how] /\ i \in Ids
    BY <1>2 DEF Cancels, Ended, Live
  <2>2. jobs \in [Ids -> JobType] /\ Len(jobs) \in Nat
    BY LenProperties DEF Typed, Ids
  <2>3. /\ jobs' \in [Ids -> JobType]
        /\ \A j \in Ids : j # i => jobs'[j] = jobs[j]
    BY <2>1, <2>2 DEF JobType
  <2>4. /\ jobs'[i].state = how /\ jobs'[i].row = jobs[i].row
        /\ jobs'[i].by = jobs[i].by /\ jobs'[i].to = jobs[i].to
        /\ jobs'[i].once = jobs[i].once /\ jobs'[i].of = jobs[i].of
        /\ jobs'[i].root = jobs[i].root
    BY <2>1, <2>2 DEF JobType
  <2>5. jobs' \in Seq(JobType) /\ Len(jobs') = Len(jobs)
    BY <2>2, <2>3, Listed DEF Ids
  <2> HIDE DEF Ids
  <2>6. JobsKept BY <2>2, <2>3, <2>4, <2>5 DEF JobsKept
  <2> QED BY <1>2, <2>3, <2>4, <2>5, <2>6 DEF Live
<1> QED BY <1>1, <1>2

LEMMA NothingRemoved ==
    ASSUME Typed, UNCHANGED jobs
    PROVE  /\ jobs' \in Seq(JobType) /\ JobsKept
  BY LenIsNat DEF JobsKept, Typed, Ids

\* Updates of a row that is there.
Rewritten(r, en, si, pe) ==
    [rows EXCEPT ![r].enabled = en, ![r].sid = si, ![r].to = pe]

LEMMA RowWritten ==
    ASSUME Typed, NEW r \in RowIds, NEW en \in BOOLEAN,
           NEW si \in Nat, NEW pe \in People
    PROVE  LET R == Rewritten(r, en, si, pe) IN
           /\ R \in Seq(AutoType) /\ Len(R) = Len(rows)
           /\ \A q \in RowIds : q # r => R[q] = rows[q]
           /\ R[r].there = rows[r].there /\ R[r].by = rows[r].by
           /\ R[r].enabled = en /\ R[r].sid = si /\ R[r].to = pe
<1>1. rows \in [RowIds -> AutoType] /\ Len(rows) \in Nat
  BY LenProperties DEF RowIds, Typed
<1> DEFINE R == Rewritten(r, en, si, pe)
           R1 == [rows EXCEPT ![r].enabled = en]
           R2 == [R1 EXCEPT ![r].sid = si]
<1>4. R1 \in [RowIds -> AutoType] BY <1>1 DEF AutoType
<1>5. R2 \in [RowIds -> AutoType]
  <2> HIDE DEF R1
  <2> QED BY <1>4 DEF AutoType
<1>6. R = [R2 EXCEPT ![r].to = pe] BY DEF Rewritten
<1>2. \A q \in RowIds : q # r => R[q] = rows[q] BY <1>1 DEF Rewritten
<1>7. R \in Seq(AutoType) /\ Len(R) = Len(rows)
  <2> DEFINE R3 == [R2 EXCEPT ![r].to = pe]
  <2>1. R3 \in [RowIds -> AutoType]
    <3> HIDE DEF R2
    <3> QED BY <1>5 DEF AutoType
  <2>2. R = R3 BY <1>6
  <2> HIDE DEF R3
  <2> QED BY <2>1, <2>2, <1>1, Listed DEF RowIds
<1>3. /\ R[r].there = rows[r].there /\ R[r].by = rows[r].by
      /\ R[r].enabled = en /\ R[r].sid = si /\ R[r].to = pe
  BY <1>1 DEF AutoType, Rewritten
<1> QED BY <1>2, <1>3, <1>7

LEMMA WrittenIs ==
    ASSUME Typed, NEW k \in CallType
    PROVE  /\ Written(k) \in Seq(AutoType) /\ Len(Written(k)) = Len(rows)
           /\ \A q \in RowIds :
                 /\ q # k.row \/ ~There(q) => Written(k)[q] = rows[q]
                 /\ Written(k)[q].there = rows[q].there
                 /\ Written(k)[q].by = rows[q].by
           /\ There(k.row) =>
                 /\ Written(k)[k.row].enabled = k.on
                 /\ Written(k)[k.row].sid = k.new
                 /\ Written(k)[k.row].to = IF k.edit THEN k.to ELSE rows[k.row].to
<1>1. CASE ~There(k.row)
  BY <1>1 DEF Written, Typed
<1>2. CASE There(k.row)
  <2> DEFINE r == k.row
             pe == IF k.edit THEN k.to ELSE rows[r].to
  <2>1. r \in RowIds /\ Written(k) =
           [rows EXCEPT ![r].enabled = k.on, ![r].sid = k.new, ![r].to = pe]
    BY <1>2 DEF Written, There
  <2>2. rows[r] \in AutoType BY <2>1, ElementOfSeq DEF Typed, RowIds
  <2>3. k.on \in BOOLEAN /\ k.new \in Nat /\ pe \in People
    BY <2>2 DEF CallType, AutoType
  <2> HIDE DEF pe
  <2>4. /\ Written(k) \in Seq(AutoType) /\ Len(Written(k)) = Len(rows)
        /\ \A q \in RowIds : q # r => Written(k)[q] = rows[q]
        /\ Written(k)[r].there = rows[r].there /\ Written(k)[r].by = rows[r].by
        /\ Written(k)[r].enabled = k.on /\ Written(k)[r].sid = k.new
        /\ Written(k)[r].to = pe
    <3>1. Written(k) = Rewritten(r, k.on, k.new, pe) BY <2>1 DEF Rewritten
    <3> DEFINE on == k.on
               new == k.new
               S == Rewritten(r, on, new, pe)
    <3>2. Typed /\ r \in RowIds /\ on \in BOOLEAN /\ new \in Nat /\ pe \in People
      BY <2>1, <2>3
    <3>3. Written(k) = S BY <3>1
    <3> HIDE DEF r, on, new
    <3>4. /\ S \in Seq(AutoType) /\ Len(S) = Len(rows)
          /\ \A q \in RowIds : q # r => S[q] = rows[q]
          /\ S[r].there = rows[r].there /\ S[r].by = rows[r].by
          /\ S[r].enabled = on /\ S[r].sid = new /\ S[r].to = pe
      BY <3>2, RowWritten
    <3> QED BY <3>3, <3>4 DEF on, new
  <2> QED BY <2>1, <2>4, <1>2 DEF pe
<1> QED BY <1>1, <1>2

LEMMA UnarmedIs ==
    ASSUME Typed, NEW r \in Nat
    PROVE  /\ Unarmed(r) \in Seq(AutoType) /\ Len(Unarmed(r)) = Len(rows)
           /\ \A q \in RowIds :
                 /\ q # r \/ ~There(q) => Unarmed(r)[q] = rows[q]
                 /\ Unarmed(r)[q].there = rows[q].there
                 /\ Unarmed(r)[q].by = rows[q].by
                 /\ Unarmed(r)[q].to = rows[q].to
           /\ There(r) => ~Unarmed(r)[r].enabled /\ Unarmed(r)[r].sid = 0
<1>1. CASE ~There(r)
  BY <1>1 DEF Unarmed, Typed
<1>2. CASE There(r)
  <2>1. r \in RowIds /\ Unarmed(r) =
           [rows EXCEPT ![r].enabled = FALSE, ![r].sid = 0]
    BY <1>2 DEF Unarmed, There
  <2>2. rows \in [RowIds -> AutoType] /\ Len(rows) \in Nat
    BY LenProperties DEF Typed, RowIds
  <2> DEFINE R1 == [rows EXCEPT ![r].enabled = FALSE]
  <2>4. R1 \in [RowIds -> AutoType] BY <2>1, <2>2 DEF AutoType
  <2>5. Unarmed(r) = [R1 EXCEPT ![r].sid = 0] BY <2>1
  <2>6. Unarmed(r) \in Seq(AutoType) /\ Len(Unarmed(r)) = Len(rows)
    <3> DEFINE R2 == [R1 EXCEPT ![r].sid = 0]
    <3>1. R2 \in [RowIds -> AutoType]
      <4> HIDE DEF R1
      <4> QED BY <2>4 DEF AutoType
    <3>2. Unarmed(r) = R2 BY <2>5
    <3> HIDE DEF R2
    <3> QED BY <3>1, <3>2, <2>2, Listed DEF RowIds
  <2>3. /\ \A q \in RowIds : q # r => Unarmed(r)[q] = rows[q]
        /\ Unarmed(r)[r].there = rows[r].there /\ Unarmed(r)[r].by = rows[r].by
        /\ Unarmed(r)[r].to = rows[r].to
        /\ ~Unarmed(r)[r].enabled /\ Unarmed(r)[r].sid = 0
    BY <2>1, <2>2 DEF AutoType
  <2> QED BY <1>2, <2>1, <2>2, <2>3, <2>6
<1> QED BY <1>1, <1>2

LEMMA WithoutIs ==
    ASSUME Typed, NEW r \in Nat
    PROVE  /\ Without(r) \in Seq(AutoType) /\ Len(Without(r)) = Len(rows)
           /\ \A q \in RowIds :
                 /\ q # r => Without(r)[q] = rows[q]
                 /\ Without(r)[q].there = (rows[q].there /\ q # r)
                 /\ Without(r)[q].by = rows[q].by
                 /\ Without(r)[q].to = rows[q].to
                 /\ Without(r)[q].sid = rows[q].sid
                 /\ Without(r)[q].enabled = rows[q].enabled
<1>0. rows \in [RowIds -> AutoType] /\ Len(rows) \in Nat
  BY LenProperties DEF Typed, RowIds
<1>1. CASE ~There(r)
  <2>1. Without(r) = rows BY <1>1 DEF Without
  <2>2. \A q \in RowIds : q = r => rows[q].there = FALSE
    BY <1>0, <1>1 DEF There, AutoType
  <2>3. \A q \in RowIds : rows[q].there = (rows[q].there /\ q # r)
    BY <1>0, <2>2 DEF AutoType
  <2> QED BY <2>1, <2>3 DEF Typed
<1>2. CASE There(r)
  <2>1. r \in RowIds /\ Without(r) = [rows EXCEPT ![r].there = FALSE]
    BY <1>2 DEF Without, There
  <2>3. /\ Without(r) \in [RowIds -> AutoType]
        /\ \A q \in RowIds : q # r => Without(r)[q] = rows[q]
        /\ Without(r)[r].there = FALSE /\ Without(r)[r].by = rows[r].by
        /\ Without(r)[r].to = rows[r].to /\ Without(r)[r].sid = rows[r].sid
        /\ Without(r)[r].enabled = rows[r].enabled
    BY <2>1, <1>0 DEF AutoType
  <2>4. \A q \in RowIds : q # r => rows[q].there = (rows[q].there /\ q # r)
    BY <1>0 DEF AutoType
  <2> QED BY <2>1, <1>0, <2>3, <2>4, Listed DEF RowIds
<1> QED BY <1>1, <1>2

-----------------------------------------------------------------------------
(* Every step keeps what the parts are made of *)

\* What calls, schedules and rows point at stays what it was.
LEMMA Kept ==
    ASSUME Typed, JobsKept, RowsKept, Len(jobs') \in Nat, Len(rows') \in Nat
    PROVE  /\ Ids \subseteq Ids' /\ RowIds \subseteq RowIds'
           /\ \A k \in CallType : Points(k) => Points(k)'
           /\ \A k \in CallType : Points(k) /\ Phase(k) => Phase(k)'
           /\ \A j \in Ids : JobOK(j) => JobOK(j)'
<1>1. /\ Len(jobs) \in Nat /\ Len(rows) \in Nat
      /\ Len(jobs') \in Nat /\ Len(rows') \in Nat
      /\ Len(jobs) <= Len(jobs') /\ Len(rows) <= Len(rows')
  BY LenIsNat DEF JobsKept, RowsKept
<1>5. Ids \subseteq Ids' /\ RowIds \subseteq RowIds'
  BY <1>1 DEF Ids, RowIds
<1>2. ASSUME NEW k \in CallType, Points(k) PROVE Points(k)'
  <2>1. k.row \in Nat /\ k.old \in Nat /\ k.new \in Nat
    BY DEF CallType
  <2>2. k.old # 0 => k.old \in Ids /\ jobs[k.old].row = k.row
    BY <1>2, <2>1, <1>1 DEF Points, Ids
  <2>3. k.new # 0 => k.new \in Ids /\ jobs[k.new].row = k.row
    BY <1>2, <2>1, <1>1 DEF Points, Ids
  <2> QED BY <1>1, <1>2, <2>1, <2>2, <2>3 DEF Points, JobsKept
<1>3. ASSUME NEW k \in CallType, Points(k), Phase(k) PROVE Phase(k)'
  <2>1. k.row # 0 => k.row \in RowIds
    BY <1>3, <1>1 DEF Points, CallType, RowIds
  <2>2. k.row # 0 => rows'[k.row].by = rows[k.row].by
    BY <2>1 DEF RowsKept
  <2>3. Asks(k) => Asks(k)'
    BY <2>2 DEF Asks
  <2>4. Sets(k) => Sets(k)'
    BY <2>2 DEF Sets
  <2> QED BY <1>3, <2>3, <2>4 DEF Phase, OnReminder
<1>4. ASSUME NEW j \in Ids, JobOK(j) PROVE JobOK(j)'
  BY <1>1, <1>4 DEF JobOK, JobsKept
<1> QED BY <1>5, <1>2, <1>3, <1>4

LEMMA CallSet ==
    ASSUME Typed, NEW c \in Calls, NEW k \in CallType, Goes(c, k)
    PROVE  /\ call' \in [Calls -> CallType] /\ call'[c] = k
           /\ \A d \in Calls : d # c => call'[d] = call[d]
  BY DEF Typed, Goes

LEMMA IdleIs ==
    /\ Idle \in CallType /\ Idle.at = "idle" /\ Idle.row = 0 /\ Idle.old = 0
    /\ Idle.new = 0 /\ Idle.who = Nobody /\ Idle.to = Nobody
    /\ Idle.on = FALSE /\ Idle.dm = FALSE /\ Idle.edit = FALSE
  BY DEF Idle, CallType, People

LEMMA IdleOK ==
    ASSUME Typed, Len(jobs') \in Nat, Len(rows') \in Nat
    PROVE  Points(Idle) /\ Phase(Idle) /\ Points(Idle)' /\ Phase(Idle)'
<1>1. Len(rows) >= 0 /\ Len(jobs) >= 0 BY LenIsNat
<1>2. Phase(Idle) /\ Phase(Idle)' BY IdleIs DEF Phase
<1>3. Points(Idle) /\ Points(Idle)' BY <1>1, IdleIs DEF Points
<1> QED BY <1>2, <1>3

\* What a step has to keep up: a call it touches has come to something, and
\* what it adds or changes is of its kind.
Kept1 ==
    /\ jobs' \in Seq(JobType) /\ JobsKept
    /\ rows' \in Seq(AutoType) /\ RowsKept
    /\ \A j \in Ids' : j \notin Ids => JobOK(j)'
    /\ \A r \in RowIds' : RowOK(r)' \/ (r \in RowIds /\ rows'[r] = rows[r])
    /\ disturbed' \subseteq RowIds'

LEMMA Assembled ==
    ASSUME Base, Kept1, call' \in [Calls -> CallType],
           \A c \in Calls : \/ call'[c] = call[c] \/ call'[c] = Idle
                             \/ (Points(call[c]) /\ Phase(call[c]))'
    PROVE  Base'
<1>1. Typed BY DEF Base
<1>2. Len(jobs') \in Nat /\ Len(rows') \in Nat BY LenProperties DEF Kept1
<1>3. /\ Ids \subseteq Ids' /\ RowIds \subseteq RowIds'
      /\ \A k \in CallType : Points(k) => Points(k)'
      /\ \A k \in CallType : Points(k) /\ Phase(k) => Phase(k)'
      /\ \A j \in Ids : JobOK(j) => JobOK(j)'
  BY <1>1, <1>2, Kept DEF Kept1
<1>4. Typed' BY DEF Typed, Kept1
<1>5. \A j \in Ids' : JobOK(j)' BY <1>3 DEF Base, Kept1
<1>6. ASSUME NEW r \in RowIds' PROVE RowOK(r)'
  <2>1. CASE RowOK(r)' BY <2>1
  <2>2. CASE r \in RowIds /\ rows'[r] = rows[r]
    <3>1. RowOK(r) BY <2>2 DEF Base
    <3>2. rows[r] \in AutoType BY <1>1, <2>2, ElementOfSeq DEF Typed, RowIds
    <3>3. rows[r].sid \in Nat /\ Len(jobs) \in Nat
      BY <3>2, <1>1, LenIsNat DEF AutoType
    <3>4. rows[r].sid # 0 => rows[r].sid \in Ids
      BY <3>1, <3>3 DEF RowOK, Ids
    <3>5. /\ Len(jobs) <= Len(jobs')
          /\ \A j \in Ids : jobs'[j].row = jobs[j].row
      BY DEF Kept1, JobsKept
    <3> QED BY <3>1, <3>3, <3>4, <3>5, <2>2, <1>2 DEF RowOK
  <2> QED BY <2>1, <2>2 DEF Kept1
<1>7. ASSUME NEW c \in Calls PROVE (Points(call[c]) /\ Phase(call[c]))'
  <2>1. call[c] \in CallType /\ Points(call[c]) /\ Phase(call[c])
    BY <1>1 DEF Base, Typed
  <2>2. CASE call'[c] = call[c]
    <3>1. PICK q \in CallType : q = call[c] BY <2>1
    <3>2. Points(q)' /\ Phase(q)' BY <1>3, <2>1, <3>1
    <3>3. call'[c] = q BY <2>2, <3>1
    <3> QED BY <3>2, <3>3 DEF Points, Phase, OnReminder, Asks, Sets
  <2>3. CASE call'[c] = Idle
    BY <2>3, <1>1, <1>2, IdleOK
  <2> QED BY <2>2, <2>3
<1> QED BY <1>4, <1>5, <1>6, <1>7 DEF Base

\* The steps of one call, of none, of all.
LEMMA OneCall ==
    ASSUME Base, Kept1, NEW c \in Calls, NEW k \in CallType, Goes(c, k),
           k = Idle \/ (Points(k)' /\ Phase(k)')
    PROVE  Base'
<1>1. /\ call' \in [Calls -> CallType] /\ call'[c] = k
      /\ \A d \in Calls : d # c => call'[d] = call[d]
  BY CallSet DEF Base
<1>2. k = Idle \/ (Points(call[c]) /\ Phase(call[c]))'
  BY <1>1 DEF Points, Phase, OnReminder, Asks, Sets
<1> QED BY <1>1, <1>2, Assembled

LEMMA CallEnds ==
    ASSUME Base, Kept1, NEW c \in Calls, Ends(c)
    PROVE  Base'
<1>1. /\ call' \in [Calls -> CallType] /\ call'[c] = Idle
      /\ \A d \in Calls : d # c => call'[d] = call[d]
  BY CallSet, IdleIs DEF Base, Ends
<1> QED BY <1>1, Assembled

LEMMA NoCall ==
    ASSUME Base, Kept1, UNCHANGED call
    PROVE  Base'
  BY Assembled DEF Base, Typed

LEMMA NoneLeft ==
    ASSUME Base, Kept1, call' = [c \in Calls |-> Idle]
    PROVE  Base'
  BY Assembled, IdleIs

LEMMA Quiet ==
    ASSUME Base, UNCHANGED <<jobs, rows>>, disturbed' \subseteq RowIds
    PROVE  Kept1
<1>1. Typed BY DEF Base
<1> QED BY <1>1, NothingRemoved, LenIsNat DEF Kept1, Typed, RowsKept, Ids, RowIds

LEMMA Removes ==
    ASSUME Base, NEW i \in Nat, NEW how \in States, Cancels(i, how),
           UNCHANGED rows, disturbed' \subseteq RowIds
    PROVE  Kept1
<1>1. Typed BY DEF Base
<1>2. jobs' \in Seq(JobType) /\ JobsKept /\ Len(jobs') = Len(jobs)
  BY <1>1, Removal
<1> QED BY <1>1, <1>2, LenIsNat DEF Kept1, Typed, RowsKept, Ids, RowIds

LEMMA Adds ==
    ASSUME Base, NEW x \in JobType, Arms(x), x.row <= Len(rows),
           x.of <= Len(jobs), x.root \in 1..(Len(jobs) + 1),
           x.row = 0 => x.to = Nobody,
           x.row # 0 => ~x.once /\ x.of = 0 /\ x.to \in {Nobody, x.by},
           UNCHANGED rows, disturbed' \subseteq RowIds
    PROVE  Kept1
<1>1. Typed BY DEF Base
<1>2. /\ jobs' \in Seq(JobType) /\ JobsKept
      /\ Len(jobs') = Len(jobs) + 1 /\ jobs'[Len(jobs) + 1] = x
  BY <1>1, Added
<1>3. Len(jobs) \in Nat /\ Len(rows) \in Nat BY <1>1, LenIsNat
<1>4. ASSUME NEW j \in Ids', j \notin Ids PROVE JobOK(j)'
  <2>1. j = Len(jobs) + 1 BY <1>2, <1>3, <1>4 DEF Ids
  <2>2. x.row \in Nat /\ x.of \in Nat BY DEF JobType
  <2> QED BY <1>2, <1>3, <2>1, <2>2 DEF JobOK
<1> QED BY <1>1, <1>2, <1>3, <1>4 DEF Kept1, Typed, RowsKept, RowIds

\* A write of the rows that leaves each of them in order.
LEMMA Rows ==
    ASSUME Base, UNCHANGED jobs, rows' \in Seq(AutoType), Len(rows') = Len(rows),
           \A r \in RowIds : rows'[r].by = rows[r].by,
           \A r \in RowIds : RowOK(r)' \/ rows'[r] = rows[r],
           disturbed' \subseteq RowIds
    PROVE  Kept1
<1>1. Typed BY DEF Base
<1> QED BY <1>1, NothingRemoved, LenIsNat DEF Kept1, RowsKept, Ids, RowIds

\* A call about to end an edit, and what becomes of the row.
Ready(k) == Points(k) /\ Sets(k) /\ (k.on <=> k.new # 0)

LEMMA Writes ==
    ASSUME Base, NEW k \in CallType, Ready(k), UNCHANGED jobs,
           rows' = Written(k), disturbed' \subseteq RowIds
    PROVE  Kept1
<1>1. Typed BY DEF Base
<1>2. /\ rows' \in Seq(AutoType) /\ Len(rows') = Len(rows)
      /\ \A q \in RowIds :
            /\ q # k.row \/ ~There(q) => rows'[q] = rows[q]
            /\ rows'[q].by = rows[q].by
      /\ There(k.row) =>
            /\ rows'[k.row].enabled = k.on /\ rows'[k.row].sid = k.new
            /\ rows'[k.row].to = IF k.edit THEN k.to ELSE rows[k.row].to
  BY <1>1, WrittenIs
<1>3. ASSUME NEW r \in RowIds PROVE RowOK(r)' \/ rows'[r] = rows[r]
  <2>1. CASE r = k.row /\ There(r)
    <3>1. rows[r].to \in {Nobody, rows[r].by} BY DEF Base, RowOK
    <3>2. k.to \in {Nobody, rows[r].by} /\ k.new <= Len(jobs)
          /\ (k.on <=> k.new # 0) /\ (k.new # 0 => jobs[k.new].row = r)
      BY <2>1 DEF Ready, Points, Sets
    <3> QED BY <1>2, <2>1, <3>1, <3>2 DEF RowOK
  <2> QED BY <1>2, <2>1
<1> QED BY <1>2, <1>3, Rows

LEMMA Unarms ==
    ASSUME Base, NEW r \in Nat, UNCHANGED jobs, rows' = Unarmed(r),
           disturbed' \subseteq RowIds
    PROVE  Kept1
<1>1. Typed BY DEF Base
<1>2. /\ rows' \in Seq(AutoType) /\ Len(rows') = Len(rows)
      /\ \A q \in RowIds :
            /\ q # r \/ ~There(q) => rows'[q] = rows[q]
            /\ rows'[q].by = rows[q].by /\ rows'[q].to = rows[q].to
      /\ There(r) => ~rows'[r].enabled /\ rows'[r].sid = 0
  BY <1>1, UnarmedIs
<1>3. ASSUME NEW q \in RowIds PROVE RowOK(q)' \/ rows'[q] = rows[q]
  <2>1. rows[q].to \in {Nobody, rows[q].by} BY DEF Base, RowOK
  <2>2. Len(jobs') >= 0 BY <1>1, LenIsNat
  <2> QED BY <1>2, <2>1, <2>2 DEF RowOK
<1> QED BY <1>2, <1>3, Rows

LEMMA Deletes ==
    ASSUME Base, NEW r \in Nat, UNCHANGED jobs, rows' = Without(r),
           disturbed' \subseteq RowIds
    PROVE  Kept1
<1>1. Typed BY DEF Base
<1>2. /\ rows' \in Seq(AutoType) /\ Len(rows') = Len(rows)
      /\ \A q \in RowIds :
            /\ rows'[q].by = rows[q].by /\ rows'[q].to = rows[q].to
            /\ rows'[q].sid = rows[q].sid /\ rows'[q].enabled = rows[q].enabled
  BY <1>1, WithoutIs
<1>3. \A q \in RowIds : RowOK(q) /\ (RowOK(q) => RowOK(q)')
  BY <1>2 DEF RowOK, Base
<1> QED BY <1>2, <1>3, Rows

\* A record of a call after one more step of it.
LEMMA At ==
    ASSUME NEW k \in CallType,
           NEW a \in {"idle", "counted", "swapping", "resolving", "locating",
                      "arming", "clearing", "unwinding", "removing"}
    PROVE  LET q == [k EXCEPT !.at = a] IN
           /\ q \in CallType /\ q.at = a
           /\ q.who = k.who /\ q.old = k.old /\ q.new = k.new /\ q.row = k.row
           /\ q.to = k.to /\ q.on = k.on /\ q.dm = k.dm /\ q.edit = k.edit
  BY DEF CallType

LEMMA BaseSave ==
    ASSUME Base, NEW c \in Calls, NEW k \in CallType, Ready(k), Save(c, k),
           disturbed' \subseteq RowIds
    PROVE  Base'
<1>1. Typed BY DEF Base
<1>2. CASE rows' = Written(k) /\ Ends(c) /\ UNCHANGED jobs
  <2>1. Kept1 BY <1>2, Writes
  <2> QED BY <1>2, <2>1, CallEnds
<1>3. CASE /\ k.new # 0 /\ Cancels(k.new, "undone")
           /\ Goes(c, [k EXCEPT !.at = "unwinding"]) /\ UNCHANGED rows
  <2>1. Kept1 BY <1>3, Removes DEF CallType, States
  <2>6. PICK q : q = [k EXCEPT !.at = "unwinding"] OBVIOUS
  <2>2. /\ q \in CallType /\ q.at = "unwinding" /\ q.who = k.who
        /\ q.old = k.old /\ q.new = k.new /\ q.row = k.row
        /\ q.to = k.to /\ q.on = k.on /\ q.edit = k.edit
    BY <2>6, At
  <2>3. Goes(c, q) BY <1>3, <2>6
  <2>4. Points(q) /\ Phase(q)
    BY <2>2, <1>3 DEF Ready, Points, Phase, Sets
  <2>5. Points(q)' /\ Phase(q)'
    BY <2>1, <2>2, <2>4, <1>1, Kept, LenProperties DEF Kept1
  <2> QED BY <2>1, <2>2, <2>3, <2>5, OneCall
<1>4. CASE rows' = Unarmed(k.row) /\ Ends(c) /\ UNCHANGED jobs
  <2>1. Kept1 BY <1>4, Unarms DEF CallType
  <2> QED BY <1>4, <2>1, CallEnds
<1> QED BY <1>2, <1>3, <1>4 DEF Save

LEMMA BaseClear ==
    ASSUME Base, NEW c \in Calls, NEW k \in CallType, Ready(k), Clear(c, k),
           disturbed' \subseteq RowIds
    PROVE  Base'
<1>1. Typed BY DEF Base
<1>2. CASE Save(c, k) BY <1>2, BaseSave
<1>3. CASE /\ k.old # 0 /\ Cancels(k.old, "replaced")
           /\ Goes(c, [k EXCEPT !.at = "clearing"]) /\ UNCHANGED rows
  <2>1. Kept1 BY <1>3, Removes DEF CallType, States
  <2>6. PICK q : q = [k EXCEPT !.at = "clearing"] OBVIOUS
  <2>2. /\ q \in CallType /\ q.at = "clearing" /\ q.who = k.who
        /\ q.old = k.old /\ q.new = k.new /\ q.row = k.row
        /\ q.to = k.to /\ q.on = k.on /\ q.edit = k.edit
    BY <2>6, At
  <2>3. Goes(c, q) BY <1>3, <2>6
  <2>4. Points(q) /\ Phase(q)
    BY <2>2, <1>3 DEF Ready, Points, Phase, Sets
  <2>5. Points(q)' /\ Phase(q)'
    BY <2>1, <2>2, <2>4, <1>1, Kept, LenProperties DEF Kept1
  <2> QED BY <2>1, <2>2, <2>3, <2>5, OneCall
<1>4. CASE Cancels(k.new, "undone") /\ Ends(c) /\ UNCHANGED rows
  <2>1. Kept1 BY <1>4, Removes DEF CallType, States
  <2> QED BY <1>4, <2>1, CallEnds
<1> QED BY <1>2, <1>3, <1>4 DEF Clear

\* The row of a new automation.
NewRow(k) ==
    [there |-> TRUE, enabled |-> FALSE, sid |-> 0, to |-> k.to, by |-> k.who]

LEMMA Inserts ==
    ASSUME Typed, NEW k \in CallType, k.who \in Users, UNCHANGED jobs,
           rows' = Append(rows, NewRow(k))
    PROVE  /\ rows' \in Seq(AutoType) /\ Len(rows') = Len(rows) + 1
           /\ \A r \in RowIds : rows'[r] = rows[r]
           /\ rows'[Len(rows) + 1] = NewRow(k)
           /\ RowsKept
<1>1. NewRow(k) \in AutoType BY DEF NewRow, AutoType, CallType
<1>2. /\ rows' \in Seq(AutoType) /\ Len(rows') = Len(rows) + 1
      /\ \A r \in 1..Len(rows) : rows'[r] = rows[r]
      /\ rows'[Len(rows) + 1] = NewRow(k)
  BY <1>1, AppendProperties DEF Typed
<1> QED BY <1>2, LenIsNat DEF RowsKept, RowIds

LEMMA BaseInsert ==
    ASSUME Base, NEW c \in Calls, NEW k \in CallType, Insert(c, k),
           k.who \in Users, k.to \in {Nobody, k.who}, k.old = 0, k.new = 0,
           disturbed' \subseteq RowIds
    PROVE  Base'
<1>1. Typed BY DEF Base
<1>2. rows' = Append(rows, NewRow(k)) /\ UNCHANGED jobs
  BY DEF Insert, NewRow
<1>3. /\ rows' \in Seq(AutoType) /\ Len(rows') = Len(rows) + 1
      /\ \A r \in RowIds : rows'[r] = rows[r]
      /\ rows'[Len(rows) + 1] = NewRow(k)
      /\ RowsKept
  BY <1>1, <1>2, Inserts
<1>4. Len(rows) \in Nat /\ Len(jobs) \in Nat BY <1>1, LenIsNat
<1>5. Kept1
  <2>1. ASSUME NEW r \in RowIds', r \notin RowIds PROVE RowOK(r)'
    <3>1. r = Len(rows) + 1 BY <2>1, <1>3, <1>4 DEF RowIds
    <3> QED BY <3>1, <1>3, <1>2, <1>4 DEF RowOK, NewRow
  <2>2. RowIds \subseteq RowIds' BY <1>3, <1>4 DEF RowIds
  <2> QED BY <1>1, <1>2, <1>3, <2>1, <2>2, NothingRemoved DEF Kept1, Ids
<1>6. CASE ~k.on
  BY <1>5, <1>6, CallEnds DEF Insert, Ends
<1>7. CASE k.on
  <2>5. PICK q : q = [k EXCEPT !.at = "locating", !.row = Len(rows) + 1]
    OBVIOUS
  <2>1. /\ q \in CallType /\ q.at = "locating" /\ q.row = Len(rows) + 1
        /\ q.to = k.to /\ q.old = k.old /\ q.new = k.new /\ q.on = k.on
    <3>1. PICK b \in Nat : b = Len(rows) + 1 BY <1>4
    <3>2. q = [k EXCEPT !.at = "locating", !.row = b] BY <2>5, <3>1
    <3> QED BY <3>1, <3>2 DEF CallType
  <2>2. Goes(c, q) BY <1>7, <2>5 DEF Insert
  <2>3. Points(q)' BY <2>1, <1>2, <1>3, <1>4 DEF Points
  <2>4. Phase(q)'
    BY <2>1, <1>2, <1>3, <1>4, <1>7 DEF Phase, Sets, NewRow
  <2> QED BY <2>1, <2>2, <2>3, <2>4, <1>5, OneCall
<1> QED BY <1>6, <1>7 DEF CallType

LEMMA ReminderIs ==
    ASSUME Base, NEW u \in Users, NEW once \in BOOLEAN, NEW of \in Ids \cup {0}
    PROVE  LET x == Reminder(u, once, of) IN
           /\ x \in JobType /\ x.row = 0 /\ x.to = Nobody /\ x.by = u
           /\ x.of = of /\ x.of <= Len(jobs) /\ x.state = "live"
           /\ x.root = (IF of = 0 THEN Len(jobs) + 1 ELSE jobs[of].root)
           /\ x.root \in 1..(Len(jobs) + 1)
<1>1. Len(jobs) \in Nat BY LenIsNat DEF Base
<1>2. of # 0 => jobs[of].root \in 1..Len(jobs)
  BY <1>1 DEF Base, JobOK, Ids
<1>3. of \in Nat /\ of <= Len(jobs) BY <1>1 DEF Ids
<1> DEFINE rt == IF of = 0 THEN Len(jobs) + 1 ELSE jobs[of].root
<1>4. rt \in Nat /\ rt \in 1..(Len(jobs) + 1) BY <1>1, <1>2
<1> HIDE DEF rt
<1>5. Reminder(u, once, of) =
         [row |-> 0, by |-> u, to |-> Nobody, once |-> once, of |-> of,
          root |-> rt, state |-> "live"]
  BY DEF Reminder, rt
<1> QED BY <1>3, <1>4, <1>5 DEF JobType, People, States, rt

LEMMA DigestIs ==
    ASSUME Base, NEW k \in CallType, Points(k), Sets(k)
    PROVE  LET x == Digest(k) IN
           /\ x \in JobType /\ x.row = k.row /\ x.to = k.to
           /\ x.by = rows[k.row].by /\ x.once = FALSE /\ x.of = 0
           /\ x.root = Len(jobs) + 1 /\ x.state = "live"
<1>1. Len(jobs) \in Nat /\ Len(rows) \in Nat BY LenIsNat DEF Base
<1>2. k.row \in RowIds BY <1>1 DEF Points, Sets, CallType, RowIds
<1>3. rows[k.row] \in AutoType
  BY <1>2, ElementOfSeq DEF Base, Typed, RowIds
<1>4. rows[k.row].by \in Users BY <1>3 DEF AutoType
<1> DEFINE b == rows[k.row].by
<1> HIDE DEF b
<1>5. Digest(k) = [row |-> k.row, by |-> b, to |-> k.to, once |-> FALSE,
                   of |-> 0, root |-> Len(jobs) + 1, state |-> "live"]
  BY DEF Digest, b
<1>6. k.row \in Nat /\ k.to \in People /\ b \in Users
  BY <1>4 DEF CallType, b
<1> QED BY <1>1, <1>5, <1>6 DEF JobType, States, b

LEMMA CallIs ==
    ASSUME Base, NEW c \in Calls
    PROVE  call[c] \in CallType /\ Points(call[c]) /\ Phase(call[c])
  BY DEF Base, Typed

\* A call that asks, or is on the reminders, as it begins.
LEMMA BaseBegins ==
    ASSUME Base, NEW c \in Calls, NEW k \in CallType, Goes(c, k),
           Points(k), Phase(k),
           UNCHANGED <<jobs, rows>>, disturbed' \subseteq RowIds
    PROVE  Base'
<1>1. Kept1 BY Quiet
<1>2. Points(k)' /\ Phase(k)'
  BY <1>1, Kept, LenProperties DEF Kept1, Base
<1> QED BY <1>1, <1>2, OneCall

LEMMA BaseReminders ==
    ASSUME Base, SchedulesNext, UNCHANGED <<rows, disturbed>>
    PROVE  Base'
<1>0. Typed /\ disturbed' \subseteq RowIds /\ Len(jobs) \in Nat /\ Len(rows) \in Nat
  BY LenIsNat DEF Base, Typed
<1>1. ASSUME NEW c \in Calls, Schedule(c) PROVE Base'
  <2>1. call[c].who \in Users
    BY <1>1, CallIs DEF Schedule, Phase, OnReminder
  <2>2. CASE UNCHANGED jobs
    BY <1>0, <1>1, <2>2, Quiet, CallEnds DEF Schedule
  <2>3. ASSUME NEW once \in BOOLEAN, Arms(Reminder(call[c].who, once, 0))
        PROVE  Base'
    <3>1. PICK x : x = Reminder(call[c].who, once, 0) OBVIOUS
    <3>2. /\ x \in JobType /\ x.row = 0 /\ x.to = Nobody /\ x.of <= Len(jobs)
          /\ x.root \in 1..(Len(jobs) + 1) /\ Arms(x)
      BY <2>1, <2>3, <3>1, ReminderIs
    <3>3. Kept1 BY <1>0, <3>2, Adds
    <3> QED BY <1>1, <3>3, CallEnds DEF Schedule
  <2> QED BY <1>1, <2>2, <2>3 DEF Schedule
<1>2. ASSUME NEW c \in Calls, Swap(c) PROVE Base'
  <2>1. call[c].old \in Nat /\ call[c].new \in Nat /\ Ends(c)
    BY <1>2, CallIs DEF CallType, Swap, Rollback
  <2>2. \/ Cancels(call[c].old, "replaced") \/ Cancels(call[c].new, "undone")
        \/ UNCHANGED jobs
    BY <1>2 DEF Swap, Rollback
  <2>3. Kept1 BY <1>0, <2>1, <2>2, Quiet, Removes DEF States
  <2> QED BY <2>1, <2>3, CallEnds
<1>3. ASSUME NEW u \in Users, NEW c \in Calls, Count(c, u) PROVE Base'
  <2>1. PICK k : k = [Idle EXCEPT !.at = "counted", !.who = u] OBVIOUS
  <2>2. /\ k \in CallType /\ k.at = "counted" /\ k.who = u /\ k.row = 0
        /\ k.old = 0 /\ k.new = 0
    BY <2>1 DEF Idle, CallType, People
  <2>3. Points(k) /\ Phase(k)
    BY <1>0, <2>2 DEF Points, Phase, OnReminder
  <2> QED BY <1>0, <1>3, <2>1, <2>2, <2>3, BaseBegins DEF Count
<1>4. ASSUME NEW u \in Users, NEW c \in Calls, NEW j \in Ids, Replace(c, u, j)
      PROVE  Base'
  <2>1. PICK x : x = Reminder(u, jobs[j].once, j) OBVIOUS
  <2>2. jobs[j] \in JobType /\ j \in Nat /\ j <= Len(jobs) /\ j # 0
    BY <1>0, ElementOfSeq DEF Typed, Ids
  <2>3. jobs[j].row = 0 BY <1>4 DEF Replace, Created, IsReminder
  <2>4. jobs[j].once \in BOOLEAN BY <2>2 DEF JobType
  <2>5. /\ x \in JobType /\ x.row = 0 /\ x.to = Nobody /\ x.of <= Len(jobs)
        /\ x.root \in 1..(Len(jobs) + 1) /\ Arms(x)
    BY <1>4, <2>1, <2>4, ReminderIs DEF Replace
  <2>6. Kept1 BY <1>0, <2>5, Adds
  <2>7. PICK n \in Nat : n = Len(jobs) + 1 BY <1>0
  <2>8. PICK k : k = [Idle EXCEPT !.at = "swapping", !.who = u, !.old = j,
                                  !.new = n]
    OBVIOUS
  <2>9. /\ k \in CallType /\ k.at = "swapping" /\ k.who = u /\ k.row = 0
        /\ k.old = j /\ k.new = n /\ Goes(c, k)
    BY <1>4, <2>2, <2>7, <2>8 DEF Idle, CallType, People, Replace
  <2>10. /\ Len(jobs') = n /\ jobs'[n] = x
         /\ \A i \in Ids : jobs'[i] = jobs[i]
    BY <1>0, <2>5, <2>7, Added
  <2>11. Points(k)'
    BY <1>0, <2>2, <2>3, <2>5, <2>7, <2>9, <2>10 DEF Points
  <2>12. Phase(k)'
    BY <2>2, <2>7, <2>9 DEF Phase, OnReminder
  <2> QED BY <2>6, <2>9, <2>11, <2>12, OneCall
<1>5. ASSUME NEW j \in Ids, NEW how \in States, Cancels(j, how), UNCHANGED call
      PROVE  Base'
  BY <1>0, <1>5, Removes, NoCall DEF Ids
<1>6. ASSUME Crash PROVE Base'
  BY <1>0, <1>6, Quiet, NoneLeft DEF Crash
<1> QED BY <1>1, <1>2, <1>3, <1>4, <1>5, <1>6
        DEF SchedulesNext, CancelTask, Returned, Drop, States

\* What an edit starts from: the row as it is read.
Edit(u, r, s, on, dm) ==
    [Idle EXCEPT !.who = u, !.row = r, !.old = rows[r].sid,
                 !.to = s, !.on = on, !.dm = dm, !.edit = TRUE]

LEMMA EditIs ==
    ASSUME Base, NEW u \in Users, NEW r \in RowIds, NEW on \in BOOLEAN,
           NEW dm \in BOOLEAN, NEW s \in {Nobody, rows[r].to},
           NEW k, k = Edit(u, r, s, on, dm)
    PROVE  /\ k \in CallType /\ k.who = u /\ k.row = r /\ k.row # 0
           /\ k.old = rows[r].sid /\ k.new = 0 /\ k.to = s
           /\ Points(k) /\ Sets(k)
<1>0. Len(jobs) \in Nat /\ Len(rows) \in Nat BY LenIsNat DEF Base
<1>1. rows[r] \in AutoType BY ElementOfSeq DEF Base, Typed, RowIds
<1>2. s \in People BY <1>1 DEF AutoType, People
<1>3. PICK o \in Nat : o = rows[r].sid BY <1>1 DEF AutoType
<1>4. r \in Nat /\ r # 0 /\ r <= Len(rows) BY <1>0 DEF RowIds
<1>6. /\ k \in CallType /\ k.who = u /\ k.row = r /\ k.row # 0
      /\ k.old = o /\ k.new = 0 /\ k.on = on /\ k.edit = TRUE /\ k.dm = dm
      /\ k.to = s
  BY <1>2, <1>3, <1>4 DEF Idle, CallType, People, Edit
<1>7. RowOK(r) BY DEF Base
<1>8. s \in {Nobody, rows[r].by} BY <1>7 DEF RowOK
<1>9. Points(k) BY <1>0, <1>3, <1>4, <1>6, <1>7 DEF Points, RowOK
<1>10. Sets(k) BY <1>6, <1>8 DEF Sets
<1> QED BY <1>3, <1>6, <1>9, <1>10

LEMMA BaseUpdate ==
    ASSUME Base, NEW c \in Calls, NEW u \in Users, NEW r \in RowIds,
           NEW on \in BOOLEAN, NEW dm \in BOOLEAN, Update(c, u, r, on, dm)
    PROVE  Base'
<1>1. PICK s \in {Nobody, rows[r].to} : s = IF dm THEN rows[r].to ELSE Nobody
  OBVIOUS
<1>2. PICK k : k = Edit(u, r, s, on, dm) OBVIOUS
<1>3. /\ k \in CallType /\ k.who = u /\ k.row = r /\ k.row # 0
      /\ k.old = rows[r].sid /\ k.new = 0 /\ k.on = on /\ k.edit = TRUE
      /\ Points(k) /\ Sets(k)
  <2>1. k.on = on /\ k.edit = TRUE BY <1>2 DEF Edit, Idle
  <2>2. /\ k \in CallType /\ k.who = u /\ k.row = r /\ k.row # 0
        /\ k.old = rows[r].sid /\ k.new = 0 /\ Points(k) /\ Sets(k)
    BY <1>1, <1>2, EditIs
  <2> QED BY <2>1, <2>2
<1>4. PICK fresh \in BOOLEAN : fresh = (dm /\ s = Nobody) OBVIOUS
<1>5. /\ (fresh => rows[r].by = u)
      /\ Touches(r)
      /\ IF fresh \/ on
         THEN /\ Goes(c, [k EXCEPT !.at = IF fresh THEN "resolving"
                                          ELSE "locating"])
              /\ UNCHANGED <<jobs, rows>>
         ELSE Clear(c, k)
  BY <1>1, <1>2, <1>4 DEF Update, Edit
<1>6. disturbed' \subseteq RowIds BY <1>5 DEF Touches, Base, Typed
<1>7. CASE fresh
  <2>1. PICK q : q = [k EXCEPT !.at = "resolving"] OBVIOUS
  <2>2. /\ q \in CallType /\ q.at = "resolving" /\ q.who = k.who
        /\ q.old = k.old /\ q.new = k.new /\ q.row = k.row /\ q.edit = k.edit
    BY <1>3, <2>1, At
  <2>3. Points(q) /\ Phase(q)
    BY <1>3, <1>5, <1>7, <2>2 DEF Points, Phase, Asks
  <2> QED BY <1>5, <1>6, <1>7, <2>1, <2>2, <2>3, BaseBegins
<1>8. CASE ~fresh /\ on
  <2>1. PICK q : q = [k EXCEPT !.at = "locating"] OBVIOUS
  <2>2. /\ q \in CallType /\ q.at = "locating" /\ q.who = k.who /\ q.to = k.to
        /\ q.old = k.old /\ q.new = k.new /\ q.row = k.row /\ q.edit = k.edit
        /\ q.on = k.on
    BY <1>3, <2>1, At
  <2>3. Points(q) /\ Phase(q)
    BY <1>3, <1>5, <1>8, <2>2 DEF Points, Phase, Sets
  <2> QED BY <1>5, <1>6, <1>8, <2>1, <2>2, <2>3, BaseBegins
<1>9. CASE ~fresh /\ ~on
  BY <1>3, <1>5, <1>6, <1>9, BaseClear DEF Ready
<1> QED BY <1>7, <1>8, <1>9

\* The call of somebody whose Slack user was found.
LEMMA ResolvedIs ==
    ASSUME Base, NEW c \in Calls, call[c].at = "resolving"
    PROVE  LET k == [call[c] EXCEPT !.to = call[c].who] IN
           /\ k \in CallType /\ k.who = call[c].who /\ k.who \in Users
           /\ k.to = k.who /\ k.old = call[c].old /\ k.new = 0
           /\ k.row = call[c].row /\ k.on = call[c].on
           /\ k.edit = call[c].edit /\ Points(k)
           /\ k.edit => Sets(k)
           /\ ~k.edit => k.old = 0
<1>1. call[c] \in CallType /\ Points(call[c]) /\ Asks(call[c])
  BY CallIs DEF Phase
<1>2. PICK k : k = [call[c] EXCEPT !.to = call[c].who] OBVIOUS
<1>3. /\ k \in CallType /\ k.who = call[c].who /\ k.to = k.who
      /\ k.old = call[c].old /\ k.new = call[c].new /\ k.row = call[c].row
      /\ k.on = call[c].on /\ k.edit = call[c].edit
  BY <1>1, <1>2 DEF CallType
<1>4. Points(k) BY <1>1, <1>3 DEF Points
<1>5. k.edit => Sets(k) BY <1>1, <1>3 DEF Asks, Sets
<1> QED BY <1>1, <1>2, <1>3, <1>4, <1>5 DEF Asks

LEMMA BaseResolved ==
    ASSUME Base, NEW c \in Calls, Resolved(c)
    PROVE  Base'
<1>0. disturbed' \subseteq RowIds BY DEF Resolved, Keeps, Base, Typed
<1>1. PICK k : k = [call[c] EXCEPT !.to = call[c].who] OBVIOUS
<1>2. /\ k \in CallType /\ k.who \in Users /\ k.to = k.who /\ k.new = 0
      /\ Points(k) /\ (k.edit => Sets(k)) /\ (~k.edit => k.old = 0)
  BY <1>1, ResolvedIs DEF Resolved
<1>3. CASE ~k.edit /\ Insert(c, k)
  BY <1>0, <1>2, <1>3, BaseInsert
<1>4. CASE /\ k.edit /\ k.on /\ Goes(c, [k EXCEPT !.at = "locating"])
           /\ UNCHANGED <<jobs, rows>>
  <2>1. PICK q : q = [k EXCEPT !.at = "locating"] OBVIOUS
  <2>2. /\ q \in CallType /\ q.at = "locating" /\ q.who = k.who /\ q.to = k.to
        /\ q.old = k.old /\ q.new = k.new /\ q.row = k.row /\ q.edit = k.edit
        /\ q.on = k.on
    BY <1>2, <2>1, At
  <2>3. Points(q) /\ Phase(q)
    BY <1>2, <1>4, <2>2 DEF Points, Phase, Sets
  <2> QED BY <1>0, <1>4, <2>1, <2>2, <2>3, BaseBegins
<1>5. CASE k.edit /\ ~k.on /\ Clear(c, k)
  BY <1>0, <1>2, <1>5, BaseClear DEF Ready
<1>6. CASE Ends(c) /\ UNCHANGED <<jobs, rows>>
  BY <1>0, <1>6, Quiet, CallEnds
<1> QED BY <1>1, <1>3, <1>4, <1>5, <1>6 DEF Resolved

LEMMA BaseArm ==
    ASSUME Base, NEW c \in Calls, Arm(c)
    PROVE  Base'
<1>0. /\ disturbed' \subseteq RowIds /\ Typed
      /\ Len(jobs) \in Nat /\ Len(rows) \in Nat
  BY LenIsNat DEF Arm, Keeps, Base, Typed
<1>1. PICK k : k = call[c] OBVIOUS
<1>2. k \in CallType /\ Points(k) /\ Sets(k) /\ k.on /\ k.new = 0 /\ k.row \in Nat
  BY <1>1, CallIs DEF Arm, Phase, CallType
<1>3. CASE /\ Arms(Digest(k)) /\ UNCHANGED rows
           /\ Goes(c, [k EXCEPT !.at = "arming", !.new = Len(jobs) + 1])
  <2>1. PICK x : x = Digest(k) OBVIOUS
  <2>2. /\ x \in JobType /\ x.row = k.row /\ x.to = k.to
        /\ x.by = rows[k.row].by /\ x.once = FALSE /\ x.of = 0
        /\ x.root = Len(jobs) + 1 /\ Arms(x)
    BY <1>2, <1>3, <2>1, DigestIs
  <2>3. x.row <= Len(rows) /\ x.row # 0 /\ x.to \in {Nobody, x.by}
    BY <1>2, <2>2 DEF Points, Sets
  <2>4. Kept1 BY <1>0, <1>3, <2>2, <2>3, Adds
  <2>5. PICK n \in Nat : n = Len(jobs) + 1 BY <1>0
  <2>6. PICK q : q = [k EXCEPT !.at = "arming", !.new = n] OBVIOUS
  <2>7. /\ q \in CallType /\ q.at = "arming" /\ q.new = n /\ q.on = k.on
        /\ q.row = k.row /\ q.to = k.to /\ q.old = k.old /\ q.edit = k.edit
    BY <1>2, <2>6 DEF CallType
  <2>8. /\ Len(jobs') = n /\ jobs'[n] = x
        /\ \A i \in Ids : jobs'[i] = jobs[i]
    BY <1>0, <2>2, <2>5, Added
  <2>9. k.old # 0 => k.old \in Ids /\ jobs[k.old].row = k.row
    BY <1>0, <1>2 DEF Points, Ids, CallType
  <2>10. Points(q)'
    <3>1. q.row <= Len(rows') BY <1>2, <1>3, <2>7 DEF Points
    <3>2. q.old <= Len(jobs')
      BY <1>0, <1>2, <2>5, <2>7, <2>8 DEF Points, CallType
    <3>3. q.old # 0 => jobs'[q.old].row = q.row BY <2>7, <2>8, <2>9
    <3> QED BY <2>2, <2>5, <2>7, <2>8, <3>1, <3>2, <3>3 DEF Points
  <2>11. Phase(q)'
    BY <1>2, <1>3, <2>5, <2>7 DEF Phase, Sets
  <2> QED BY <1>3, <2>4, <2>5, <2>6, <2>7, <2>10, <2>11, OneCall
<1>4. CASE Ends(c) /\ UNCHANGED <<jobs, rows>>
  BY <1>0, <1>4, Quiet, CallEnds
<1>5. CASE Ends(c) /\ UNCHANGED jobs /\ rows' = Without(k.row)
  BY <1>0, <1>2, <1>5, Deletes, CallEnds
<1> QED BY <1>1, <1>3, <1>4, <1>5 DEF Arm

LEMMA BaseAutomations ==
    ASSUME Base, NEW c \in Calls
    PROVE  /\ Resolved(c) \/ Arm(c) => Base'
           /\ Armed(c) \/ Cleared(c) \/ Unwound(c) \/ Removed(c) => Base'
           /\ \A u \in Users, on, dm \in BOOLEAN :
                 /\ Create(c, u, on, dm) => Base'
                 /\ \A r \in RowIds : Update(c, u, r, on, dm) => Base'
           /\ \A u \in Users, r \in RowIds : Delete(c, u, r) => Base'
<1>0. /\ Typed /\ call[c] \in CallType /\ Points(call[c]) /\ Phase(call[c])
      /\ Len(jobs) \in Nat /\ Len(rows) \in Nat
      /\ call[c].row \in Nat
  BY CallIs, LenIsNat DEF Base, CallType
<1>1. ASSUME Armed(c) PROVE Base'
  <2>1. Ready(call[c]) BY <1>0, <1>1 DEF Armed, Ready, Phase
  <2> QED BY <1>0, <1>1, <2>1, BaseClear DEF Armed, Keeps, Typed
<1>2. ASSUME Cleared(c) PROVE Base'
  <2>1. Ready(call[c]) BY <1>0, <1>2 DEF Cleared, Ready, Phase
  <2> QED BY <1>0, <1>2, <2>1, BaseSave DEF Cleared, Keeps, Typed
<1>3. ASSUME Unwound(c) PROVE Base'
  BY <1>0, <1>3, Unarms, Deletes, CallEnds DEF Unwound, Keeps, Typed
<1>4. ASSUME Removed(c) PROVE Base'
  BY <1>0, <1>4, Deletes, CallEnds DEF Removed, Keeps, Typed
<1>5. ASSUME NEW u \in Users, NEW on \in BOOLEAN, NEW dm \in BOOLEAN,
             Create(c, u, on, dm)
      PROVE  Base'
  <2>0. disturbed' \subseteq RowIds BY <1>0, <1>5 DEF Create, Keeps, Typed
  <2>1. PICK k : k = [Idle EXCEPT !.who = u, !.on = on, !.dm = dm] OBVIOUS
  <2>2. /\ k \in CallType /\ k.who = u /\ k.to = Nobody /\ k.old = 0
        /\ k.new = 0 /\ k.row = 0 /\ k.edit = FALSE
    BY <2>1 DEF Idle, CallType, People
  <2>3. CASE Insert(c, k) BY <2>0, <2>2, <2>3, BaseInsert
  <2>4. CASE Goes(c, [k EXCEPT !.at = "resolving"]) /\ UNCHANGED <<jobs, rows>>
    <3>1. PICK q : q = [k EXCEPT !.at = "resolving"] OBVIOUS
    <3>2. /\ q \in CallType /\ q.at = "resolving" /\ q.who = k.who
          /\ q.old = k.old /\ q.new = k.new /\ q.row = k.row /\ q.edit = k.edit
      BY <2>2, <3>1, At
    <3>3. Points(q) /\ Phase(q)
      BY <1>0, <2>2, <3>2 DEF Points, Phase, Asks
    <3> QED BY <2>0, <2>4, <3>1, <3>2, <3>3, BaseBegins
  <2> QED BY <1>5, <2>1, <2>3, <2>4 DEF Create
<1>6. ASSUME NEW u \in Users, NEW r \in RowIds, Delete(c, u, r) PROVE Base'
  <2>0. /\ disturbed' \subseteq RowIds /\ r \in Nat /\ r # 0 /\ r <= Len(rows)
    BY <1>0, <1>6 DEF Delete, Touches, Typed, RowIds
  <2>1. CASE rows' = Without(r) /\ UNCHANGED <<jobs, call>>
    BY <2>0, <2>1, Deletes, NoCall
  <2>2. CASE /\ Goes(c, [Idle EXCEPT !.at = "removing", !.who = u, !.row = r])
             /\ Cancels(rows[r].sid, "over") \/ UNCHANGED jobs
             /\ UNCHANGED rows
    <3>1. rows[r].sid \in Nat
      <4>1. rows[r] \in AutoType BY <1>0, ElementOfSeq DEF Typed, RowIds
      <4> QED BY <4>1 DEF AutoType
    <3>2. Kept1 BY <2>0, <2>2, <3>1, Removes, Quiet DEF States
    <3>3. PICK q : q = [Idle EXCEPT !.at = "removing", !.who = u, !.row = r]
      OBVIOUS
    <3>4. /\ q \in CallType /\ q.at = "removing" /\ q.row = r /\ q.old = 0
          /\ q.new = 0
      BY <2>0, <3>3 DEF Idle, CallType, People
    <3>5. Points(q) /\ Phase(q)
      BY <1>0, <2>0, <3>4 DEF Points, Phase
    <3>6. Points(q)' /\ Phase(q)'
      BY <1>0, <3>2, <3>4, <3>5, Kept, LenProperties DEF Kept1
    <3> QED BY <2>2, <3>2, <3>3, <3>4, <3>6, OneCall
  <2> QED BY <1>6, <2>1, <2>2 DEF Delete
<1> QED BY <1>1, <1>2, <1>3, <1>4, <1>5, <1>6, BaseResolved, BaseArm, BaseUpdate

LEMMA BaseStep ==
    ASSUME Base, [Next]_vars
    PROVE  Base'
<1>1. CASE SchedulesNext /\ UNCHANGED <<rows, disturbed>>
  BY <1>1, BaseReminders
<1>2. CASE UNCHANGED vars
  <2>1. disturbed' \subseteq RowIds BY <1>2 DEF vars, Base, Typed
  <2> QED BY <1>2, <2>1, Quiet, NoCall DEF vars
<1> QED BY <1>1, <1>2, BaseAutomations DEF Next

LEMMA BaseInit == Init => Base
<1> SUFFICES ASSUME Init PROVE Base OBVIOUS
<1>1. jobs = <<>> /\ rows = <<>> /\ call = [c \in Calls |-> Idle] /\ disturbed = {}
  BY DEF Init, SchedulesInit
<1>2. Typed BY <1>1, IdleIs DEF Typed
<1>3. \A c \in Calls : Points(call[c]) /\ Phase(call[c])
  BY <1>1, IdleIs DEF Points, Phase
<1> QED BY <1>1, <1>2, <1>3 DEF Base, Ids, RowIds

LEMMA BaseAlways == Spec => []Base
<1>1. Base /\ [Next]_vars => Base' BY BaseStep
<1> QED BY <1>1, BaseInit, PTL DEF Spec

\* A DM goes to the automation's owner: an admin who edits it, at whatever
\* moment, does not redirect it to themselves (automations.ts:345-355).
THEOREM OwnerAlone == Spec => []DmReachesOwner
<1>1. Base => DmReachesOwner
  BY DEF Base, RowOK, JobOK, DmReachesOwner
<1> QED BY <1>1, BaseAlways, PTL

-----------------------------------------------------------------------------
(* What the automations leave alone *)

\* The reminders are what they were.
RemindersKept ==
    /\ \A j \in Ids : jobs[j].row = 0 => j \in Ids' /\ jobs'[j] = jobs[j]
    /\ \A j \in Ids' : jobs'[j].row = 0 => j \in Ids /\ jobs[j].row = 0

\* So are the automations, but for those that are deleted and what they name.
RowsLeft ==
    /\ Len(rows') = Len(rows)
    /\ \A r \in RowIds :
          rows'[r].by = rows[r].by /\ (rows'[r].there => rows[r].there)

\* c works on an automation that there is: nobody's count of anything goes up.
Tinkers(c) ==
    /\ \A d \in Calls : d # c => call'[d] = call[d]
    /\ call[c].at \notin {"counted", "swapping"}
    /\ call'[c].at \notin {"counted", "swapping"}
    /\ call'[c].at = "resolving" => call'[c].edit
    /\ RemindersKept /\ RowsLeft

\* k inserts its automation.
Adds1(c, k) ==
    /\ \A d \in Calls : d # c => call'[d] = call[d]
    /\ call'[c].at \in {"idle", "locating"}
    /\ UNCHANGED jobs /\ rows' = Append(rows, NewRow(k))

LEMMA Untouching ==
    ASSUME Base
    PROVE  /\ UNCHANGED jobs => RemindersKept
           /\ \A i \in Nat, how \in States :
                 Cancels(i, how) /\ (i \in Ids => jobs[i].row # 0) => RemindersKept
           /\ \A x \in JobType : Arms(x) /\ x.row # 0 => RemindersKept
<1>0. Typed /\ Len(jobs) \in Nat BY LenIsNat DEF Base
<1>1. UNCHANGED jobs => RemindersKept BY DEF RemindersKept, Ids
<1>2. ASSUME NEW i \in Nat, NEW how \in States, Cancels(i, how),
             i \in Ids => jobs[i].row # 0
      PROVE  RemindersKept
  <2>1. /\ Len(jobs') = Len(jobs) /\ JobsKept
        /\ \A j \in Ids : j # i => jobs'[j] = jobs[j]
    BY <1>0, <1>2, Removal
  <2> QED BY <1>2, <2>1 DEF RemindersKept, Ids, JobsKept
<1>3. ASSUME NEW x \in JobType, Arms(x), x.row # 0 PROVE RemindersKept
  <2>1. /\ Len(jobs') = Len(jobs) + 1 /\ jobs'[Len(jobs) + 1] = x
        /\ \A j \in Ids : jobs'[j] = jobs[j]
    BY <1>0, <1>3, Added
  <2> QED BY <1>0, <1>3, <2>1 DEF RemindersKept, Ids
<1> QED BY <1>1, <1>2, <1>3

LEMMA LeftAlone ==
    ASSUME Base
    PROVE  /\ UNCHANGED rows => RowsLeft
           /\ \A k \in CallType : rows' = Written(k) => RowsLeft
           /\ \A r \in Nat : rows' = Unarmed(r) \/ rows' = Without(r) => RowsLeft
<1>0. Typed BY DEF Base
<1>1. UNCHANGED rows => RowsLeft BY DEF RowsLeft
<1>2. ASSUME NEW k \in CallType, rows' = Written(k) PROVE RowsLeft
  BY <1>0, <1>2, WrittenIs DEF RowsLeft
<1>3. ASSUME NEW r \in Nat, rows' = Unarmed(r) PROVE RowsLeft
  BY <1>0, <1>3, UnarmedIs DEF RowsLeft
<1>4. ASSUME NEW r \in Nat, rows' = Without(r) PROVE RowsLeft
  BY <1>0, <1>4, WithoutIs DEF RowsLeft
<1> QED BY <1>1, <1>2, <1>3, <1>4

LEMMA SaveTinkers ==
    ASSUME Base, NEW c \in Calls, NEW k \in CallType, Ready(k), Save(c, k),
           call[c].at \notin {"counted", "swapping"}
    PROVE  Tinkers(c)
<1>1. Typed BY DEF Base
<1>2. k.row \in Nat /\ k.new \in Nat BY DEF CallType
<1>3. k.new # 0 => jobs[k.new].row # 0 BY DEF Ready, Points, Sets
<1>4. RemindersKept
  BY <1>2, <1>3, Untouching DEF Save, States
<1>5. RowsLeft BY <1>2, LeftAlone DEF Save
<1>6. CASE Ends(c)
  BY <1>1, <1>4, <1>5, <1>6, CallSet, IdleIs DEF Tinkers, Ends
<1>7. CASE Goes(c, [k EXCEPT !.at = "unwinding"])
  <2>1. PICK q : q = [k EXCEPT !.at = "unwinding"] OBVIOUS
  <2>2. q \in CallType /\ q.at = "unwinding" BY <2>1, At
  <2> QED BY <1>1, <1>4, <1>5, <1>7, <2>1, <2>2, CallSet DEF Tinkers
<1> QED BY <1>6, <1>7 DEF Save

LEMMA ClearTinkers ==
    ASSUME Base, NEW c \in Calls, NEW k \in CallType, Ready(k), Clear(c, k),
           call[c].at \notin {"counted", "swapping"}
    PROVE  Tinkers(c)
<1>1. Typed BY DEF Base
<1>2. k.old \in Nat /\ k.new \in Nat BY DEF CallType
<1>3. /\ k.new # 0 => jobs[k.new].row # 0
      /\ k.old # 0 => jobs[k.old].row # 0
  BY DEF Ready, Points, Sets
<1>4. k.new = 0 => k.new \notin Ids BY DEF Ids
<1>5. CASE Save(c, k) BY <1>5, SaveTinkers
<1>6. CASE /\ k.old # 0 /\ Cancels(k.old, "replaced")
           /\ Goes(c, [k EXCEPT !.at = "clearing"]) /\ UNCHANGED rows
  <2>1. RemindersKept BY <1>2, <1>3, <1>6, Untouching DEF States
  <2>2. RowsLeft BY <1>6, LeftAlone
  <2>3. PICK q : q = [k EXCEPT !.at = "clearing"] OBVIOUS
  <2>4. q \in CallType /\ q.at = "clearing" BY <2>3, At
  <2> QED BY <1>1, <1>6, <2>1, <2>2, <2>3, <2>4, CallSet DEF Tinkers
<1>7. CASE Cancels(k.new, "undone") /\ Ends(c) /\ UNCHANGED rows
  <2>1. RemindersKept BY <1>2, <1>3, <1>4, <1>7, Untouching DEF States
  <2>2. RowsLeft BY <1>7, LeftAlone
  <2> QED BY <1>1, <1>7, <2>1, <2>2, CallSet, IdleIs DEF Tinkers, Ends
<1> QED BY <1>5, <1>6, <1>7 DEF Clear

LEMMA InsertAdds ==
    ASSUME Base, NEW c \in Calls, NEW k \in CallType, Insert(c, k)
    PROVE  Adds1(c, k)
<1>0. Typed /\ Len(rows) \in Nat BY LenIsNat DEF Base
<1>1. rows' = Append(rows, NewRow(k)) /\ UNCHANGED jobs
  BY DEF Insert, NewRow
<1>2. CASE ~k.on
  BY <1>0, <1>1, <1>2, CallSet, IdleIs DEF Insert, Adds1
<1>3. CASE k.on
  <2>1. PICK n \in Nat : n = Len(rows) + 1 BY <1>0
  <2>2. PICK q : q = [k EXCEPT !.at = "locating", !.row = n] OBVIOUS
  <2>3. q \in CallType /\ q.at = "locating" BY <2>2 DEF CallType
  <2> QED BY <1>0, <1>1, <1>3, <2>1, <2>2, <2>3, CallSet DEF Insert, Adds1
<1> QED BY <1>2, <1>3 DEF CallType

\* What the calls on automations do, seen from the limits and the reminders.
LEMMA Effects ==
    ASSUME Base, NEW c \in Calls
    PROVE  /\ \/ Arm(c) \/ Armed(c) \/ Cleared(c) \/ Unwound(c) \/ Removed(c)
              => Tinkers(c)
           /\ Resolved(c) =>
                 \/ Tinkers(c)
                 \/ \E k \in CallType :
                       Adds1(c, k) /\ k.who = call[c].who /\ ~call[c].edit
                 \/ Ends(c) /\ UNCHANGED <<jobs, rows>>
           /\ \A u \in Users, on, dm \in BOOLEAN :
                 /\ Create(c, u, on, dm) =>
                       \/ \E k \in CallType : Adds1(c, k) /\ k.who = u
                       \/ \E q \in CallType :
                             /\ Goes(c, q) /\ q.at = "resolving" /\ q.who = u
                             /\ UNCHANGED <<jobs, rows>>
                 /\ \A r \in RowIds : Update(c, u, r, on, dm) => Tinkers(c)
           /\ \A u \in Users, r \in RowIds : Delete(c, u, r) => Tinkers(c)
<1>0. /\ Typed /\ call[c] \in CallType /\ Points(call[c]) /\ Phase(call[c])
      /\ Len(jobs) \in Nat /\ Len(rows) \in Nat
      /\ call[c].row \in Nat
  BY CallIs, LenIsNat DEF Base, CallType
<1>1. ASSUME Arm(c) PROVE Tinkers(c)
  <2>1. PICK k : k = call[c] OBVIOUS
  <2>2. k \in CallType /\ Points(k) /\ Sets(k) /\ k.at = "locating"
    BY <1>0, <1>1, <2>1 DEF Arm, Phase
  <2>3. CASE /\ Arms(Digest(k)) /\ UNCHANGED rows
             /\ Goes(c, [k EXCEPT !.at = "arming", !.new = Len(jobs) + 1])
    <3>1. PICK x : x = Digest(k) OBVIOUS
    <3>2. x \in JobType /\ x.row # 0 /\ Arms(x)
      BY <2>2, <2>3, <3>1, DigestIs DEF Sets
    <3>3. RemindersKept BY <3>2, Untouching
    <3>4. PICK n \in Nat : n = Len(jobs) + 1 BY <1>0
    <3>5. PICK q : q = [k EXCEPT !.at = "arming", !.new = n] OBVIOUS
    <3>6. q \in CallType /\ q.at = "arming" BY <2>2, <3>5 DEF CallType
    <3> QED BY <1>0, <2>1, <2>2, <2>3, <3>3, <3>4, <3>5, <3>6, CallSet, LeftAlone
            DEF Tinkers
  <2>4. CASE Ends(c) /\ UNCHANGED jobs /\ (UNCHANGED rows \/ rows' = Without(k.row))
    BY <1>0, <2>1, <2>2, <2>4, CallSet, IdleIs, LeftAlone, Untouching
       DEF Tinkers, Ends, CallType
  <2> QED BY <1>1, <2>1, <2>3, <2>4 DEF Arm
<1>2. ASSUME Armed(c) PROVE Tinkers(c)
  BY <1>0, <1>2, ClearTinkers DEF Armed, Ready, Phase
<1>3. ASSUME Cleared(c) PROVE Tinkers(c)
  BY <1>0, <1>3, SaveTinkers DEF Cleared, Ready, Phase
<1>4. ASSUME Unwound(c) \/ Removed(c) PROVE Tinkers(c)
  <2>1. RowsLeft BY <1>0, <1>4, LeftAlone DEF Unwound, Removed
  <2>2. RemindersKept BY <1>4, Untouching DEF Unwound, Removed
  <2>3. Ends(c) /\ call[c].at \in {"unwinding", "removing"}
    BY <1>4 DEF Unwound, Removed
  <2> QED BY <1>0, <2>1, <2>2, <2>3, CallSet, IdleIs DEF Tinkers, Ends
<1>5. ASSUME Resolved(c)
      PROVE  \/ Tinkers(c)
             \/ \E k \in CallType :
                   Adds1(c, k) /\ k.who = call[c].who /\ ~call[c].edit
             \/ Ends(c) /\ UNCHANGED <<jobs, rows>>
  <2>1. PICK k : k = [call[c] EXCEPT !.to = call[c].who] OBVIOUS
  <2>2. /\ k \in CallType /\ k.who = call[c].who /\ k.new = 0
        /\ k.edit = call[c].edit
        /\ Points(k) /\ (k.edit => Sets(k)) /\ call[c].at = "resolving"
    BY <1>5, <2>1, ResolvedIs DEF Resolved
  <2>3. CASE ~k.edit /\ Insert(c, k)
    BY <1>0, <2>2, <2>3, InsertAdds
  <2>4. CASE /\ k.edit /\ k.on /\ Goes(c, [k EXCEPT !.at = "locating"])
             /\ UNCHANGED <<jobs, rows>>
    <3>1. PICK q : q = [k EXCEPT !.at = "locating"] OBVIOUS
    <3>2. q \in CallType /\ q.at = "locating" BY <2>2, <3>1, At
    <3> QED BY <1>0, <2>2, <2>4, <3>1, <3>2, CallSet, LeftAlone, Untouching
            DEF Tinkers
  <2>5. CASE k.edit /\ ~k.on /\ Clear(c, k)
    BY <2>2, <2>5, ClearTinkers DEF Ready
  <2> QED BY <1>5, <2>1, <2>3, <2>4, <2>5 DEF Resolved
<1>6. ASSUME NEW u \in Users, NEW on \in BOOLEAN, NEW dm \in BOOLEAN,
             Create(c, u, on, dm)
      PROVE  \/ \E k \in CallType : Adds1(c, k) /\ k.who = u
             \/ \E q \in CallType :
                   /\ Goes(c, q) /\ q.at = "resolving" /\ q.who = u
                   /\ UNCHANGED <<jobs, rows>>
  <2>1. PICK k : k = [Idle EXCEPT !.who = u, !.on = on, !.dm = dm] OBVIOUS
  <2>2. k \in CallType /\ k.who = u BY <2>1 DEF Idle, CallType, People
  <2>3. CASE Insert(c, k) BY <2>2, <2>3, InsertAdds
  <2>4. CASE Goes(c, [k EXCEPT !.at = "resolving"]) /\ UNCHANGED <<jobs, rows>>
    <3>1. PICK q : q = [k EXCEPT !.at = "resolving"] OBVIOUS
    <3>2. q \in CallType /\ q.at = "resolving" /\ q.who = u BY <2>2, <3>1, At
    <3> QED BY <2>4, <3>1, <3>2
  <2> QED BY <1>6, <2>1, <2>3, <2>4 DEF Create
<1>7. ASSUME NEW u \in Users, NEW on \in BOOLEAN, NEW dm \in BOOLEAN,
             NEW r \in RowIds, Update(c, u, r, on, dm)
      PROVE  Tinkers(c)
  <2>1. PICK s \in {Nobody, rows[r].to} : s = IF dm THEN rows[r].to ELSE Nobody
    OBVIOUS
  <2>2. PICK k : k = Edit(u, r, s, on, dm) OBVIOUS
  <2>3. k.on = on /\ k.edit = TRUE BY <2>2 DEF Edit, Idle
  <2>4. k \in CallType /\ k.new = 0 /\ Points(k) /\ Sets(k)
    BY <2>1, <2>2, EditIs
  <2>5. call[c].at = "idle" BY <1>7 DEF Update, Begins, Open
  <2>6. \/ Goes(c, [k EXCEPT !.at = "resolving"]) /\ UNCHANGED <<jobs, rows>>
        \/ Goes(c, [k EXCEPT !.at = "locating"]) /\ UNCHANGED <<jobs, rows>>
        \/ ~on /\ Clear(c, k)
    BY <1>7, <2>1, <2>2 DEF Update, Edit
  <2>7. ASSUME NEW a \in {"resolving", "locating"}, UNCHANGED <<jobs, rows>>,
               Goes(c, [k EXCEPT !.at = a])
        PROVE  Tinkers(c)
    <3>1. PICK q : q = [k EXCEPT !.at = a] OBVIOUS
    <3>2. q \in CallType /\ q.at = a /\ q.edit = TRUE
      BY <2>3, <2>4, <2>7, <3>1 DEF CallType
    <3> QED BY <1>0, <2>5, <2>7, <3>1, <3>2, CallSet, LeftAlone, Untouching
            DEF Tinkers
  <2>8. ASSUME ~on, Clear(c, k) PROVE Tinkers(c)
    BY <2>3, <2>4, <2>5, <2>8, ClearTinkers DEF Ready
  <2> QED BY <2>6, <2>7, <2>8
<1>8. ASSUME NEW u \in Users, NEW r \in RowIds, Delete(c, u, r) PROVE Tinkers(c)
  <2>0. /\ r \in Nat /\ r # 0 /\ call[c].at = "idle"
        /\ rows[r].sid \in Nat /\ RowOK(r)
    <3>1. rows[r] \in AutoType BY <1>0, ElementOfSeq DEF Typed, RowIds
    <3> QED BY <1>0, <1>8, <3>1 DEF Delete, Begins, Open, RowIds, Base, AutoType
  <2>1. CASE rows' = Without(r) /\ UNCHANGED <<jobs, call>>
    BY <2>0, <2>1, LeftAlone, Untouching DEF Tinkers
  <2>2. CASE /\ rows[r].sid # 0
             /\ Goes(c, [Idle EXCEPT !.at = "removing", !.who = u, !.row = r])
             /\ Cancels(rows[r].sid, "over") \/ UNCHANGED jobs
             /\ UNCHANGED rows
    <3>1. RemindersKept BY <2>0, <2>2, Untouching DEF RowOK, States
    <3>2. PICK q : q = [Idle EXCEPT !.at = "removing", !.who = u, !.row = r]
      OBVIOUS
    <3>3. q \in CallType /\ q.at = "removing"
      BY <2>0, <3>2 DEF Idle, CallType, People
    <3> QED BY <1>0, <2>0, <2>2, <3>1, <3>2, <3>3, CallSet, LeftAlone DEF Tinkers
  <2> QED BY <1>8, <2>1, <2>2 DEF Delete
<1> QED BY <1>1, <1>2, <1>3, <1>4, <1>5, <1>6, <1>7, <1>8

-----------------------------------------------------------------------------
(* The counters *)

Opens == {c \in Calls : Open(c)}
Counts ==
    /\ calls \in 0..MaxCalls /\ crowd \in 0..Cardinality(Calls)
    /\ failures \in Nat /\ crashes \in Nat /\ failures + crashes <= MaxFaults
    /\ Cardinality(Opens) <= crowd

\* What a step may do to the faults.
Faults ==
    \/ UNCHANGED <<failures, crashes>>
    \/ (Fails \/ FailsTwice) /\ UNCHANGED crashes
    \/ failures + crashes < MaxFaults /\ crashes' = crashes + 1 /\ UNCHANGED failures

LEMMA OpensFinite ==
    ASSUME NEW S, S \subseteq Calls
    PROVE  IsFiniteSet(S) /\ Cardinality(S) \in 0..Cardinality(Calls)
<1>1. IsFiniteSet(S) /\ Cardinality(S) <= Cardinality(Calls)
  BY SchedulesAssumption, FS_Subset
<1> QED BY <1>1, SchedulesAssumption, FS_CardinalityType

\* A call begins, alone or beside others.
LEMMA CountsBegin ==
    ASSUME Base, Counts, NEW c \in Calls, Begins(c), Faults,
           \A d \in Calls : d # c => call'[d] = call[d]
    PROVE  Counts' /\ crowd <= crowd' /\ Cardinality(Opens) < crowd'
<1>1. Opens' \subseteq Opens \cup {c} BY DEF Opens, Open
<1>2. c \notin Opens /\ c \in Calls BY DEF Begins, Opens
<1>3. /\ IsFiniteSet(Opens) /\ Cardinality(Opens) \in Nat
      /\ IsFiniteSet(Opens \cup {c})
      /\ Cardinality(Opens \cup {c}) = Cardinality(Opens) + 1
      /\ Cardinality(Opens \cup {c}) <= Cardinality(Calls)
  <2>1. Opens \subseteq Calls /\ Opens \cup {c} \subseteq Calls BY DEF Opens
  <2>2. /\ IsFiniteSet(Opens) /\ IsFiniteSet(Opens \cup {c})
        /\ Cardinality(Opens) \in 0..Cardinality(Calls)
        /\ Cardinality(Opens \cup {c}) \in 0..Cardinality(Calls)
    BY <2>1, OpensFinite
  <2>3. Cardinality(Calls) \in Nat BY SchedulesAssumption, FS_CardinalityType
  <2> QED BY <1>2, <2>2, <2>3, FS_AddElement
<1>4. Cardinality(Opens') <= Cardinality(Opens) + 1 /\ Cardinality(Opens') \in Nat
  BY <1>1, <1>3, FS_Subset, FS_CardinalityType
<1>5. /\ crowd' = IF Cardinality(Opens) + 1 > crowd THEN Cardinality(Opens) + 1
                  ELSE crowd
      /\ calls < MaxCalls /\ calls' = calls + 1
  BY DEF Begins, Opens
<1>6. MaxCalls \in Nat /\ Cardinality(Calls) \in Nat
  BY SchedulesAssumption, FS_CardinalityType
<1>7. /\ failures' \in Nat /\ crashes' \in Nat /\ failures' + crashes' <= MaxFaults
  BY SchedulesAssumption DEF Faults, Fails, FailsTwice, Counts
<1> QED BY <1>3, <1>4, <1>5, <1>6, <1>7 DEF Counts

\* No call begins; one without an await is only counted.
LEMMA CountsOn ==
    ASSUME Base, Counts, Faults, UNCHANGED crowd,
           calls' = calls \/ (calls < MaxCalls /\ calls' = calls + 1),
           \A c \in Calls : call'[c] = call[c] \/ Open(c) \/ call'[c] = Idle
    PROVE  Counts' /\ Opens' \subseteq Opens
<1>1. Opens' \subseteq Opens BY IdleIs DEF Opens, Open
<1>2. /\ IsFiniteSet(Opens) /\ Cardinality(Opens) \in Nat
      /\ Cardinality(Opens') <= Cardinality(Opens)
      /\ Cardinality(Opens') \in Nat
  BY <1>1, OpensFinite, FS_Subset, FS_CardinalityType DEF Opens
<1>3. MaxCalls \in Nat /\ Cardinality(Calls) \in Nat
  BY SchedulesAssumption, FS_CardinalityType
<1>4. /\ failures' \in Nat /\ crashes' \in Nat /\ failures' + crashes' <= MaxFaults
  BY SchedulesAssumption DEF Faults, Fails, FailsTwice, Counts
<1> QED BY <1>1, <1>2, <1>3, <1>4 DEF Counts

\* Every step is one of these.
Beginning(c) ==
    Begins(c) /\ Faults /\ \A d \in Calls : d # c => call'[d] = call[d]
GoingOn ==
    /\ Faults /\ UNCHANGED crowd
    /\ calls' = calls \/ (calls < MaxCalls /\ calls' = calls + 1)
    /\ \A c \in Calls : call'[c] = call[c] \/ Open(c) \/ call'[c] = Idle

LEMMA OnItsOwn ==
    ASSUME Base, NEW c \in Calls, NEW k \in CallType, Goes(c, k)
    PROVE  \A d \in Calls : d # c => call'[d] = call[d]
  BY CallSet DEF Base

LEMMA FaultsIs ==
    ASSUME Steady \/ Fails \/ FailsTwice, UNCHANGED crashes
    PROVE  Faults
  BY DEF Steady, Faults

LEMMA ReminderCounts ==
    ASSUME Base, SchedulesNext
    PROVE  GoingOn \/ \E c \in Calls : Beginning(c)
<1>0. Typed BY DEF Base
<1>1. ASSUME NEW c \in Calls, Schedule(c) \/ Swap(c) PROVE GoingOn
  <2>1. Ends(c) /\ Open(c) /\ Steps /\ (Steady \/ Fails \/ FailsTwice)
    BY <1>1 DEF Schedule, Swap, Rollback, Open
  <2>2. \A d \in Calls : d # c => call'[d] = call[d]
    BY <2>1, IdleIs, OnItsOwn DEF Ends
  <2> QED BY <2>1, <2>2, FaultsIs DEF GoingOn, Steps
<1>2. ASSUME NEW u \in Users, NEW c \in Calls, Count(c, u) PROVE Beginning(c)
  <2>1. PICK k : k = [Idle EXCEPT !.at = "counted", !.who = u] OBVIOUS
  <2>2. k \in CallType BY <2>1 DEF Idle, CallType, People
  <2>3. Goes(c, k) /\ Begins(c) /\ Steady BY <1>2, <2>1 DEF Count
  <2> QED BY <2>2, <2>3, OnItsOwn, FaultsIs DEF Beginning, Begins
<1>3. ASSUME NEW u \in Users, NEW c \in Calls, NEW j \in Ids, Replace(c, u, j)
      PROVE  Beginning(c)
  <2>0. Len(jobs) \in Nat /\ j \in Nat BY <1>0, LenIsNat DEF Ids
  <2>1. PICK n \in Nat : n = Len(jobs) + 1 BY <2>0
  <2>2. PICK k : k = [Idle EXCEPT !.at = "swapping", !.who = u, !.old = j,
                                  !.new = n]
    OBVIOUS
  <2>3. k \in CallType BY <2>0, <2>2 DEF Idle, CallType, People
  <2>4. Goes(c, k) /\ Begins(c) /\ Steady BY <1>3, <2>1, <2>2 DEF Replace
  <2> QED BY <2>3, <2>4, OnItsOwn, FaultsIs DEF Beginning, Begins
<1>4. ASSUME NEW u \in Users, NEW j \in Ids, CancelTask(u, j) PROVE GoingOn
  BY <1>4 DEF CancelTask, GoingOn, Faults
<1>5. ASSUME NEW j \in Ids, Returned(j) \/ Drop(j) PROVE GoingOn
  BY <1>5 DEF Returned, Drop, GoingOn, Faults, env
<1>6. ASSUME Crash PROVE GoingOn
  BY <1>6 DEF Crash, GoingOn, Faults
<1> QED BY <1>1, <1>2, <1>3, <1>4, <1>5, <1>6 DEF SchedulesNext

LEMMA AutomationCounts ==
    ASSUME Base, NEW c \in Calls
    PROVE  /\ \/ Resolved(c) \/ Arm(c) \/ Armed(c) \/ Cleared(c)
              \/ Unwound(c) \/ Removed(c)
              => GoingOn
           /\ \A u \in Users, on, dm \in BOOLEAN :
                 /\ Create(c, u, on, dm) => Beginning(c)
                 /\ \A r \in RowIds : Update(c, u, r, on, dm) => Beginning(c)
           /\ \A u \in Users, r \in RowIds : Delete(c, u, r) => Beginning(c)
<1>0. Typed BY DEF Base
<1>1. ASSUME \/ Resolved(c) \/ Arm(c) \/ Armed(c) \/ Cleared(c)
             \/ Unwound(c) \/ Removed(c)
      PROVE  GoingOn
  <2>1. Open(c) /\ Steps /\ (Steady \/ Fails)
    BY <1>1 DEF Resolved, Arm, Armed, Cleared, Unwound, Removed, Open,
                Insert, Clear, Save
  <2>2. \A d \in Calls : d # c => call'[d] = call[d]
    BY <1>1, Effects, IdleIs, OnItsOwn DEF Tinkers, Adds1, Ends
  <2> QED BY <2>1, <2>2, FaultsIs DEF GoingOn, Steps
<1>2. ASSUME NEW u \in Users, NEW on \in BOOLEAN, NEW dm \in BOOLEAN,
             Create(c, u, on, dm)
      PROVE  Beginning(c)
  <2>1. \A d \in Calls : d # c => call'[d] = call[d]
    BY <1>2, Effects, OnItsOwn DEF Adds1
  <2> QED BY <1>2, <2>1, FaultsIs DEF Create, Beginning, Begins
<1>3. ASSUME NEW u \in Users, NEW on \in BOOLEAN, NEW dm \in BOOLEAN,
             NEW r \in RowIds, Update(c, u, r, on, dm)
      PROVE  Beginning(c)
  <2>1. \A d \in Calls : d # c => call'[d] = call[d]
    BY <1>3, Effects DEF Tinkers
  <2>2. Begins(c) /\ (Steady \/ Fails) BY <1>3 DEF Update, Clear, Save
  <2> QED BY <2>1, <2>2, FaultsIs DEF Beginning, Begins
<1>4. ASSUME NEW u \in Users, NEW r \in RowIds, Delete(c, u, r)
      PROVE  Beginning(c)
  <2>1. \A d \in Calls : d # c => call'[d] = call[d]
    BY <1>4, Effects DEF Tinkers
  <2>2. Begins(c) /\ (Steady \/ Fails) BY <1>4 DEF Delete
  <2> QED BY <2>1, <2>2, FaultsIs DEF Beginning, Begins
<1> QED BY <1>1, <1>2, <1>3, <1>4

LEMMA CountsStep ==
    ASSUME Base, Counts, [Next]_vars
    PROVE  Counts'
<1>1. GoingOn \/ \E c \in Calls : Beginning(c)
  BY ReminderCounts, AutomationCounts
     DEF Next, vars, env, GoingOn, Faults
<1> QED BY <1>1, CountsBegin, CountsOn DEF Beginning, GoingOn

LEMMA CountsInit == Init => Counts
<1> SUFFICES ASSUME Init PROVE Counts OBVIOUS
<1>1. Opens = {} BY IdleIs DEF Init, SchedulesInit, Opens, Open
<1>2. Cardinality(Calls) \in Nat BY SchedulesAssumption, FS_CardinalityType
<1> QED BY <1>1, <1>2, FS_EmptySet, SchedulesAssumption
        DEF Init, SchedulesInit, Counts

LEMMA TypesFollow == Base /\ Counts => TypeOK
<1> SUFFICES ASSUME Base, Counts PROVE TypeOK OBVIOUS
<1>0. Typed /\ Len(jobs) \in Nat /\ Len(rows) \in Nat BY LenIsNat DEF Base
<1>1. ASSUME NEW j \in Ids
      PROVE  /\ jobs[j].row \in 0..Len(rows)
             /\ jobs[j].by \in Users /\ jobs[j].to \in Users \cup {Nobody}
             /\ jobs[j].of \in 0..(j - 1) /\ jobs[j].root \in 1..j
             /\ jobs[j].once \in BOOLEAN /\ jobs[j].state \in States
  <2>1. jobs[j] \in JobType /\ j \in Nat
    BY <1>0, ElementOfSeq DEF Typed, Ids
  <2> QED BY <2>1 DEF Base, JobOK, JobType, People
<1>2. ASSUME NEW r \in RowIds
      PROVE  /\ {rows[r].there, rows[r].enabled} \subseteq BOOLEAN
             /\ rows[r].by \in Users /\ rows[r].to \in Users \cup {Nobody}
             /\ rows[r].sid \in 0..Len(jobs)
             /\ rows[r].enabled <=> rows[r].sid # 0
  <2>1. rows[r] \in AutoType BY <1>0, ElementOfSeq DEF Typed, RowIds
  <2> QED BY <1>0, <2>1 DEF Base, RowOK, AutoType, People
<1>3. ASSUME NEW c \in Calls
      PROVE  /\ call[c].at \in {"idle", "counted", "swapping", "resolving",
                                "locating", "arming", "clearing",
                                "unwinding", "removing"}
             /\ call[c].who \in Users \cup {Nobody}
             /\ {call[c].old, call[c].new} \subseteq 0..Len(jobs)
             /\ call[c].row \in 0..Len(rows)
  BY <1>0, CallIs DEF CallType, People, Points
<1>4. /\ calls \in 0..MaxCalls /\ crowd \in 0..Cardinality(Calls)
      /\ {failures, crashes} \subseteq 0..MaxFaults
  BY SchedulesAssumption DEF Counts
<1> QED BY <1>0, <1>1, <1>2, <1>3, <1>4 DEF TypeOK, Typed, States

\* Identifiers point at what exists, an automation is enabled when it names a
\* schedule, and the counters keep their bounds.
THEOREM Types == Spec => []TypeOK
<1>1. Base /\ Counts /\ [Next]_vars => Base' /\ Counts'
  BY BaseStep, CountsStep
<1> QED BY TypesFollow, <1>1, BaseInit, CountsInit, PTL DEF Spec

-----------------------------------------------------------------------------
(* The limits *)

\* Calls that have read the limit of u and are still to use what they read.
Counting(u) == {c \in Calls : call[c].at = "counted" /\ call[c].who = u}
Asking(u) ==
    {c \in Calls : call[c].at = "resolving" /\ ~call[c].edit /\ call[c].who = u}
Mine(u) == {r \in RowIds : There(r) /\ rows[r].by = u}

\* The limit is kept counting those calls as if they had been answered.
Limits ==
    \A u \in Users :
       /\ Cardinality(Lines(u)) + Cardinality(Counting(u)) < Cap + crowd
       /\ u \notin Admins =>
             Cardinality(Mine(u)) + Cardinality(Asking(u)) < MemberCap + crowd

LEMMA Finite ==
    ASSUME Base, NEW u \in Users
    PROVE  /\ IsFiniteSet(Lines(u)) /\ Cardinality(Lines(u)) \in Nat
           /\ IsFiniteSet(Mine(u)) /\ Cardinality(Mine(u)) \in Nat
           /\ IsFiniteSet(Counting(u)) /\ Cardinality(Counting(u)) \in Nat
           /\ IsFiniteSet(Asking(u)) /\ Cardinality(Asking(u)) \in Nat
           /\ IsFiniteSet(Opens) /\ Cardinality(Opens) \in Nat
           /\ Cardinality(Counting(u)) <= Cardinality(Opens)
           /\ Cardinality(Asking(u)) <= Cardinality(Opens)
<1>1. Len(jobs) \in Nat /\ Len(rows) \in Nat BY LenIsNat DEF Base
<1>2. IsFiniteSet(1..Len(jobs)) /\ IsFiniteSet(1..Len(rows))
  BY <1>1, FS_Interval
<1>3. Lines(u) \subseteq 1..Len(jobs)
  BY <1>1 DEF Lines, Created, Ids, Base, JobOK
<1>4. IsFiniteSet(Lines(u)) BY <1>2, <1>3, FS_Subset
<1>5. IsFiniteSet(Mine(u)) BY <1>2, FS_Subset DEF Mine, RowIds
<1>6. /\ Opens \subseteq Calls
      /\ Counting(u) \subseteq Opens /\ Asking(u) \subseteq Opens
  BY DEF Opens, Open, Counting, Asking
<1>7. IsFiniteSet(Opens) BY <1>6, OpensFinite
<1>8. /\ IsFiniteSet(Counting(u)) /\ IsFiniteSet(Asking(u))
      /\ Cardinality(Counting(u)) <= Cardinality(Opens)
      /\ Cardinality(Asking(u)) <= Cardinality(Opens)
  BY <1>6, <1>7, FS_Subset
<1> QED BY <1>4, <1>5, <1>7, <1>8, FS_CardinalityType

\* A line for every reminder, at most.
LEMMA LinesOfReminders ==
    ASSUME Base, NEW u \in Users
    PROVE  Cardinality(Lines(u)) <= Cardinality(Created(u))
<1> DEFINE f == [j \in Created(u) |-> jobs[j].root]
<1>1. IsFiniteSet(Created(u))
  <2>1. Len(jobs) \in Nat BY LenIsNat DEF Base
  <2>2. IsFiniteSet(1..Len(jobs)) BY <2>1, FS_Interval
  <2> QED BY <2>2, FS_Subset DEF Created, Ids
<1>2. f \in Surjection(Created(u), Lines(u)) BY DEF Surjection, Lines
<1> QED BY <1>1, <1>2, FS_Surjection

\* Counting a finite set that may have gained one.
LEMMA OneMore ==
    ASSUME NEW S, NEW T, NEW x, IsFiniteSet(S), T \subseteq S \cup {x}
    PROVE  Cardinality(T) <= Cardinality(S) + 1 /\ Cardinality(S) \in Nat
           /\ Cardinality(T) \in Nat
<1>1. /\ IsFiniteSet(S \cup {x}) /\ Cardinality(S) \in Nat
      /\ Cardinality(S \cup {x}) <= Cardinality(S) + 1
  <2>1. Cardinality(S) \in Nat BY FS_CardinalityType
  <2>2. /\ IsFiniteSet(S \cup {x})
        /\ Cardinality(S \cup {x}) =
              IF x \in S THEN Cardinality(S) ELSE Cardinality(S) + 1
    BY FS_AddElement
  <2> QED BY <2>1, <2>2
<1>2. Cardinality(T) <= Cardinality(S \cup {x}) /\ IsFiniteSet(T)
  BY <1>1, FS_Subset
<1>3. Cardinality(T) \in Nat /\ Cardinality(S \cup {x}) \in Nat
  BY <1>1, <1>2, FS_CardinalityType
<1> QED BY <1>1, <1>2, <1>3

LEMMA OneLess ==
    ASSUME NEW S, NEW T, NEW x \in S, IsFiniteSet(S), T \subseteq S \ {x}
    PROVE  Cardinality(T) <= Cardinality(S) - 1 /\ Cardinality(T) \in Nat
           /\ Cardinality(S) \in Nat
<1>1. IsFiniteSet(S \ {x}) /\ Cardinality(S \ {x}) = Cardinality(S) - 1
  BY FS_RemoveElement
<1>2. Cardinality(T) <= Cardinality(S \ {x}) /\ IsFiniteSet(T)
  BY <1>1, FS_Subset
<1> QED BY <1>1, <1>2, FS_CardinalityType

LEMMA Fewer ==
    ASSUME NEW S, NEW T, IsFiniteSet(S), T \subseteq S
    PROVE  Cardinality(T) <= Cardinality(S) /\ Cardinality(T) \in Nat
           /\ Cardinality(S) \in Nat
  BY FS_Subset, FS_CardinalityType

\* What a step does to the reminders of u, and to the calls about one.
LinesStep(u) ==
    \/ Lines(u)' \subseteq Lines(u) /\ Counting(u)' \subseteq Counting(u)
    \/ Cardinality(Lines(u)) < Cap /\ Lines(u)' \subseteq Lines(u)
    \/ \E x, c : /\ c \in Counting(u)
                 /\ Lines(u)' \subseteq Lines(u) \cup {x}
                 /\ Counting(u)' \subseteq Counting(u) \ {c}

\* And to the automations of u.
MineStep(u) ==
    \/ Mine(u)' \subseteq Mine(u) /\ Asking(u)' \subseteq Asking(u)
    \/ Cardinality(Mine(u)) < MemberCap /\ Mine(u)' \subseteq Mine(u)
    \/ /\ Cardinality(Mine(u)) < MemberCap /\ Cardinality(Opens) < crowd'
       /\ Asking(u)' \subseteq Asking(u)
       /\ \E x : Mine(u)' \subseteq Mine(u) \cup {x}
    \/ \E x, c : /\ c \in Asking(u)
                 /\ Mine(u)' \subseteq Mine(u) \cup {x}
                 /\ Asking(u)' \subseteq Asking(u) \ {c}

LEMMA LimitsKept ==
    ASSUME Base, Base', Counts, Counts', Limits, crowd <= crowd',
           \A u \in Users : LinesStep(u) /\ (u \notin Admins => MineStep(u))
    PROVE  Limits'
<1>1. SUFFICES ASSUME NEW u \in Users
      PROVE  /\ Cardinality(Lines(u)') + Cardinality(Counting(u)') < Cap + crowd'
             /\ u \notin Admins => Cardinality(Mine(u)') + Cardinality(Asking(u)')
                                   < MemberCap + crowd'
  BY DEF Limits
<1>2. /\ IsFiniteSet(Lines(u)) /\ Cardinality(Lines(u)) \in Nat
      /\ IsFiniteSet(Mine(u)) /\ Cardinality(Mine(u)) \in Nat
      /\ IsFiniteSet(Counting(u)) /\ Cardinality(Counting(u)) \in Nat
      /\ IsFiniteSet(Asking(u)) /\ Cardinality(Asking(u)) \in Nat
      /\ Cardinality(Asking(u)) <= Cardinality(Opens)
      /\ Cardinality(Opens) \in Nat
  BY Finite
<1>3. /\ Cardinality(Lines(u)') \in Nat /\ Cardinality(Mine(u)') \in Nat
      /\ Cardinality(Counting(u)') \in Nat /\ Cardinality(Asking(u)') \in Nat
      /\ Cardinality(Counting(u)') <= Cardinality(Opens')
      /\ Cardinality(Asking(u)') <= Cardinality(Opens')
      /\ Cardinality(Opens') <= crowd'
      /\ Cardinality(Opens') \in Nat
  <2>1. (/\ Cardinality(Lines(u)) \in Nat /\ Cardinality(Mine(u)) \in Nat
         /\ Cardinality(Counting(u)) \in Nat /\ Cardinality(Asking(u)) \in Nat
         /\ Cardinality(Counting(u)) <= Cardinality(Opens)
         /\ Cardinality(Asking(u)) <= Cardinality(Opens)
         /\ Cardinality(Opens) \in Nat)'
    BY Finite, PTL
  <2> QED BY <2>1 DEF Counts
<1>4. crowd \in Nat /\ crowd' \in Nat /\ Cap \in Nat /\ MemberCap \in Nat
  BY SchedulesAssumption, AutomationsAssumption, FS_CardinalityType DEF Counts
<1>5. Cardinality(Lines(u)') + Cardinality(Counting(u)') < Cap + crowd'
  <2>0. Cardinality(Lines(u)) + Cardinality(Counting(u)) < Cap + crowd
    BY DEF Limits
  <2>1. CASE Lines(u)' \subseteq Lines(u) /\ Counting(u)' \subseteq Counting(u)
    <3>1. /\ Cardinality(Lines(u)') <= Cardinality(Lines(u))
          /\ Cardinality(Counting(u)') <= Cardinality(Counting(u))
      BY <1>2, <2>1, Fewer
    <3> QED BY <1>2, <1>3, <1>4, <2>0, <3>1
  <2>2. CASE Cardinality(Lines(u)) < Cap /\ Lines(u)' \subseteq Lines(u)
    <3>1. Cardinality(Lines(u)') <= Cardinality(Lines(u))
      BY <1>2, <2>2, Fewer
    <3> QED BY <1>2, <1>3, <1>4, <2>2, <3>1
  <2>3. CASE \E x, c : /\ c \in Counting(u)
                       /\ Lines(u)' \subseteq Lines(u) \cup {x}
                       /\ Counting(u)' \subseteq Counting(u) \ {c}
    <3>1. /\ Cardinality(Lines(u)') <= Cardinality(Lines(u)) + 1
          /\ Cardinality(Counting(u)') <= Cardinality(Counting(u)) - 1
      BY <1>2, <2>3, OneMore, OneLess
    <3> QED BY <1>2, <1>3, <1>4, <2>0, <3>1
  <2> QED BY <2>1, <2>2, <2>3 DEF LinesStep
<1>6. ASSUME u \notin Admins
      PROVE  Cardinality(Mine(u)') + Cardinality(Asking(u)') < MemberCap + crowd'
  <2>0. Cardinality(Mine(u)) + Cardinality(Asking(u)) < MemberCap + crowd
    BY <1>6 DEF Limits
  <2>1. CASE Mine(u)' \subseteq Mine(u) /\ Asking(u)' \subseteq Asking(u)
    <3>1. /\ Cardinality(Mine(u)') <= Cardinality(Mine(u))
          /\ Cardinality(Asking(u)') <= Cardinality(Asking(u))
      BY <1>2, <2>1, Fewer
    <3> QED BY <1>2, <1>3, <1>4, <2>0, <3>1
  <2>2. CASE Cardinality(Mine(u)) < MemberCap /\ Mine(u)' \subseteq Mine(u)
    <3>1. Cardinality(Mine(u)') <= Cardinality(Mine(u))
      BY <1>2, <2>2, Fewer
    <3> QED BY <1>2, <1>3, <1>4, <2>2, <3>1
  <2>3. CASE /\ Cardinality(Mine(u)) < MemberCap /\ Cardinality(Opens) < crowd'
             /\ Asking(u)' \subseteq Asking(u)
             /\ \E x : Mine(u)' \subseteq Mine(u) \cup {x}
    <3>1. /\ Cardinality(Mine(u)') <= Cardinality(Mine(u)) + 1
          /\ Cardinality(Asking(u)') <= Cardinality(Asking(u))
      BY <1>2, <2>3, OneMore, Fewer
    <3> QED BY <1>2, <1>3, <1>4, <2>3, <3>1
  <2>4. CASE \E x, c : /\ c \in Asking(u)
                       /\ Mine(u)' \subseteq Mine(u) \cup {x}
                       /\ Asking(u)' \subseteq Asking(u) \ {c}
    <3>1. /\ Cardinality(Mine(u)') <= Cardinality(Mine(u)) + 1
          /\ Cardinality(Asking(u)') <= Cardinality(Asking(u)) - 1
      BY <1>2, <2>4, OneMore, OneLess
    <3> QED BY <1>2, <1>3, <1>4, <2>0, <3>1
  <2> QED BY <1>6, <2>1, <2>2, <2>3, <2>4 DEF MineStep
<1> QED BY <1>5, <1>6

\* Reminders that were only cancelled, if anything, and calls about one that
\* only ended, leave a person's lines and calls a part of what they were.
LEMMA LinesFewer ==
    ASSUME Base, NEW u \in Users,
           \A j \in Ids' : /\ jobs'[j].state = "live" /\ jobs'[j].row = 0
                           => /\ j \in Ids /\ jobs[j].state = "live"
                              /\ jobs[j].row = 0 /\ jobs'[j].by = jobs[j].by
                              /\ jobs'[j].root = jobs[j].root
    PROVE  Lines(u)' \subseteq Lines(u)
<1>1. SUFFICES ASSUME NEW x \in Lines(u)' PROVE x \in Lines(u) OBVIOUS
<1>2. PICK j \in Ids' : /\ jobs'[j].state = "live" /\ jobs'[j].row = 0
                        /\ jobs'[j].by = u /\ x = jobs'[j].root
  BY DEF Lines, Created, Live, IsReminder
<1>3. /\ j \in Ids /\ jobs[j].state = "live" /\ jobs[j].row = 0
      /\ jobs[j].by = u /\ x = jobs[j].root
  BY <1>2
<1> QED BY <1>3 DEF Lines, Created, Live, IsReminder

LEMMA LinesAfterRemoval ==
    ASSUME Base, NEW i \in Nat, NEW how \in States, Cancels(i, how),
           NEW u \in Users, how # "live"
    PROVE  Lines(u)' \subseteq Lines(u)
<1>0. Typed BY DEF Base
<1>1. /\ JobsKept /\ Len(jobs') = Len(jobs)
      /\ \A j \in Ids :
            jobs'[j].state = IF j = i /\ jobs[j].state = "live" THEN how
                             ELSE jobs[j].state
  BY <1>0, Removal
<1>2. Ids' = Ids BY <1>1 DEF Ids
<1> QED BY <1>1, <1>2, LinesFewer DEF JobsKept

LEMMA LinesAfterArms ==
    ASSUME Base, NEW x \in JobType, Arms(x), NEW u \in Users
    PROVE  /\ Lines(u)' \subseteq Lines(u) \cup {x.root}
           /\ x.by # u => Lines(u)' \subseteq Lines(u)
<1>0. Typed /\ Len(jobs) \in Nat BY LenIsNat DEF Base
<1>1. /\ Len(jobs') = Len(jobs) + 1 /\ jobs'[Len(jobs) + 1] = x
      /\ \A j \in Ids : jobs'[j] = jobs[j]
  BY <1>0, Added
<1>2. ASSUME NEW e \in Lines(u)' PROVE e \in Lines(u) \/ (e = x.root /\ x.by = u)
  <2>1. PICK j \in Ids' : /\ jobs'[j].state = "live" /\ jobs'[j].row = 0
                          /\ jobs'[j].by = u /\ e = jobs'[j].root
    BY <1>2 DEF Lines, Created, Live, IsReminder
  <2>2. CASE j \in Ids
    BY <1>1, <2>1, <2>2 DEF Lines, Created, Live, IsReminder
  <2>3. CASE j = Len(jobs) + 1
    BY <1>1, <2>1, <2>3
  <2> QED BY <1>0, <1>1, <2>1, <2>2, <2>3 DEF Ids
<1> QED BY <1>2

LEMMA LinesAlone ==
    ASSUME Base, NEW u \in Users, RemindersKept
    PROVE  Lines(u)' \subseteq Lines(u)
<1>1. \A j \in Ids' : jobs'[j].row = 0 =>
         j \in Ids /\ jobs[j].row = 0 /\ jobs'[j] = jobs[j]
  BY DEF RemindersKept
<1> QED BY <1>1, LinesFewer

LEMMA MineLeft ==
    ASSUME Base, NEW u \in Users, RowsLeft
    PROVE  Mine(u)' \subseteq Mine(u)
<1>1. RowIds' = RowIds BY DEF RowsLeft, RowIds
<1> QED BY <1>1 DEF RowsLeft, Mine, There

LEMMA MineInserted ==
    ASSUME Base, NEW u \in Users, NEW k \in CallType, k.who \in Users,
           UNCHANGED jobs, rows' = Append(rows, NewRow(k))
    PROVE  /\ Mine(u)' \subseteq Mine(u) \cup {Len(rows) + 1}
           /\ k.who # u => Mine(u)' \subseteq Mine(u)
<1>0. Typed /\ Len(rows) \in Nat BY LenIsNat DEF Base
<1>1. /\ Len(rows') = Len(rows) + 1
      /\ \A r \in RowIds : rows'[r] = rows[r]
      /\ rows'[Len(rows) + 1].by = k.who
  <2>1. /\ Len(rows') = Len(rows) + 1
        /\ \A r \in RowIds : rows'[r] = rows[r]
        /\ rows'[Len(rows) + 1] = NewRow(k)
    BY <1>0, Inserts
  <2>2. NewRow(k).by = k.who BY DEF NewRow
  <2> QED BY <2>1, <2>2
<1>2. ASSUME NEW r \in Mine(u)'
      PROVE  r \in Mine(u) \/ (r = Len(rows) + 1 /\ k.who = u)
  <2>1. r \in RowIds' /\ rows'[r].there /\ rows'[r].by = u
    BY <1>2 DEF Mine, There
  <2>2. CASE r \in RowIds
    BY <1>1, <2>1, <2>2 DEF Mine, There
  <2>3. CASE r = Len(rows) + 1
    BY <1>1, <2>1, <2>3
  <2> QED BY <1>0, <1>1, <2>1, <2>2, <2>3 DEF RowIds
<1> QED BY <1>2

LEMMA FewerCalls ==
    ASSUME NEW u \in Users
    PROVE  /\ (\A c \in Calls : call'[c] = call[c] \/ call'[c].at # "counted")
              => Counting(u)' \subseteq Counting(u)
           /\ (\A c \in Calls : \/ call'[c] = call[c] \/ call'[c].at # "resolving"
                                 \/ call'[c].edit)
              => Asking(u)' \subseteq Asking(u)
<1>1. ASSUME \A c \in Calls : call'[c] = call[c] \/ call'[c].at # "counted",
             NEW d \in Counting(u)'
      PROVE  d \in Counting(u)
  <2>1. d \in Calls /\ call'[d].at = "counted" /\ call'[d].who = u
    BY <1>1 DEF Counting
  <2> QED BY <1>1, <2>1 DEF Counting
<1>2. ASSUME \A c \in Calls : \/ call'[c] = call[c] \/ call'[c].at # "resolving"
                               \/ call'[c].edit,
             NEW d \in Asking(u)'
      PROVE  d \in Asking(u)
  <2>1. /\ d \in Calls /\ call'[d].at = "resolving" /\ call'[d].who = u
        /\ ~call'[d].edit
    BY <1>2 DEF Asking
  <2> QED BY <1>2, <2>1 DEF Asking
<1> QED BY <1>1, <1>2

\* A step that ends one call, or none, and only cancels reminders.
LEMMA Less ==
    ASSUME Base, NEW u \in Users, Lines(u)' \subseteq Lines(u), UNCHANGED rows,
           \A c \in Calls : call'[c] = call[c] \/ call'[c] = Idle
    PROVE  LinesStep(u) /\ MineStep(u)
<1>1. Counting(u)' \subseteq Counting(u) /\ Asking(u)' \subseteq Asking(u)
  BY FewerCalls, IdleIs
<1>2. Mine(u)' \subseteq Mine(u) BY MineLeft, LeftAlone
<1> QED BY <1>1, <1>2 DEF LinesStep, MineStep

LEMMA ReminderLimits ==
    ASSUME Base, NEW u \in Users, SchedulesNext, UNCHANGED rows
    PROVE  LinesStep(u) /\ MineStep(u)
<1>0. Typed /\ Len(jobs) \in Nat BY LenIsNat DEF Base
<1>1. ASSUME NEW c \in Calls, Schedule(c) PROVE LinesStep(u) /\ MineStep(u)
  <2>1. call[c].who \in Users /\ call[c].at = "counted"
    BY <1>1, CallIs DEF Schedule, Phase, OnReminder
  <2>2. /\ \A d \in Calls : d # c => call'[d] = call[d]
        /\ call'[c] = Idle
    BY <1>0, <1>1, IdleIs, CallSet DEF Schedule, Ends
  <2>3. CASE UNCHANGED jobs
    <3>1. Lines(u)' \subseteq Lines(u) BY <2>3, LinesAlone, Untouching
    <3> QED BY <2>2, <3>1, Less
  <2>4. ASSUME NEW once \in BOOLEAN, Arms(Reminder(call[c].who, once, 0))
        PROVE  LinesStep(u) /\ MineStep(u)
    <3>1. PICK x : x = Reminder(call[c].who, once, 0) OBVIOUS
    <3>2. x \in JobType /\ x.by = call[c].who /\ Arms(x)
      BY <2>1, <2>4, <3>1, ReminderIs
    <3>3. CASE call[c].who # u
      <4>1. Lines(u)' \subseteq Lines(u) BY <3>2, <3>3, LinesAfterArms
      <4> QED BY <2>2, <4>1, Less
    <3>4. CASE call[c].who = u
      <4>1. Lines(u)' \subseteq Lines(u) \cup {x.root} BY <3>2, LinesAfterArms
      <4>2. c \in Counting(u) BY <2>1, <3>4 DEF Counting
      <4>3. Counting(u)' \subseteq Counting(u) \ {c}
        <5>1. Counting(u)' \subseteq Counting(u)
          BY <2>2, FewerCalls, IdleIs
        <5>2. c \notin Counting(u)' BY <2>2, IdleIs DEF Counting
        <5> QED BY <5>1, <5>2
      <4>4. LinesStep(u) BY <4>1, <4>2, <4>3 DEF LinesStep
      <4>5. MineStep(u)
        BY <2>2, FewerCalls, IdleIs, MineLeft, LeftAlone DEF MineStep
      <4> QED BY <4>4, <4>5
    <3> QED BY <3>3, <3>4
  <2> QED BY <1>1, <2>3, <2>4 DEF Schedule
<1>2. ASSUME NEW c \in Calls, Swap(c) PROVE LinesStep(u) /\ MineStep(u)
  <2>1. call[c].old \in Nat /\ call[c].new \in Nat /\ Ends(c)
    BY <1>2, CallIs DEF CallType, Swap, Rollback
  <2>2. \/ Cancels(call[c].old, "replaced") \/ Cancels(call[c].new, "undone")
        \/ UNCHANGED jobs
    BY <1>2 DEF Swap, Rollback
  <2>3. Lines(u)' \subseteq Lines(u)
    BY <2>1, <2>2, LinesAfterRemoval, LinesAlone, Untouching DEF States
  <2>4. \A d \in Calls : call'[d] = call[d] \/ call'[d] = Idle
    BY <1>0, <2>1, IdleIs, CallSet DEF Ends
  <2> QED BY <2>3, <2>4, Less
<1>3. ASSUME NEW v \in Users, NEW c \in Calls, Count(c, v)
      PROVE  LinesStep(u) /\ MineStep(u)
  <2>1. PICK k : k = [Idle EXCEPT !.at = "counted", !.who = v] OBVIOUS
  <2>2. k \in CallType /\ k.at = "counted" /\ k.who = v /\ Goes(c, k)
    BY <1>3, <2>1 DEF Idle, CallType, People, Count
  <2>3. /\ call'[c] = k
        /\ \A d \in Calls : d # c => call'[d] = call[d]
    BY <1>0, <2>2, CallSet
  <2>4. Lines(u)' \subseteq Lines(u)
    BY <1>3, LinesAlone, Untouching DEF Count
  <2>7. MineStep(u)
    <3>1. Asking(u)' \subseteq Asking(u) BY <2>2, <2>3, FewerCalls
    <3>2. Mine(u)' \subseteq Mine(u) BY MineLeft, LeftAlone
    <3> QED BY <3>1, <3>2 DEF MineStep
  <2>5. CASE v = u
    <3>1. Cardinality(Created(u)) < Cap BY <1>3, <2>5 DEF Count
    <3>2. /\ Cardinality(Lines(u)) <= Cardinality(Created(u))
          /\ Cardinality(Lines(u)) \in Nat /\ Cap \in Nat
      BY Finite, LinesOfReminders, SchedulesAssumption
    <3>3. Cardinality(Created(u)) \in Nat
      <4>1. IsFiniteSet(1..Len(jobs)) BY <1>0, FS_Interval
      <4> QED BY <4>1, FS_Subset, FS_CardinalityType DEF Created, Ids
    <3>4. Cardinality(Lines(u)) < Cap BY <3>1, <3>2, <3>3
    <3> QED BY <2>4, <2>7, <3>4 DEF LinesStep
  <2>6. CASE v # u
    <3>1. Counting(u)' \subseteq Counting(u)
      BY <2>2, <2>3, <2>6 DEF Counting
    <3> QED BY <2>4, <2>7, <3>1 DEF LinesStep
  <2> QED BY <2>5, <2>6
<1>4. ASSUME NEW v \in Users, NEW c \in Calls, NEW j \in Ids, Replace(c, v, j)
      PROVE  LinesStep(u) /\ MineStep(u)
  <2>0. jobs[j] \in JobType /\ j \in Nat /\ j # 0
    BY <1>0, ElementOfSeq DEF Typed, Ids
  <2>1. PICK x : x = Reminder(v, jobs[j].once, j) OBVIOUS
  <2>2. jobs[j].once \in BOOLEAN /\ j \in Created(v)
    BY <1>4, <2>0 DEF JobType, Replace
  <2>3. x \in JobType /\ x.by = v /\ x.root = jobs[j].root /\ Arms(x)
    BY <1>4, <2>0, <2>1, <2>2, ReminderIs DEF Replace
  <2>4. Lines(u)' \subseteq Lines(u)
    <3>1. v = u => x.root \in Lines(u) BY <2>2, <2>3 DEF Lines
    <3> QED BY <2>3, <3>1, LinesAfterArms
  <2>5. PICK n \in Nat : n = Len(jobs) + 1 BY <1>0
  <2>6. PICK k : k = [Idle EXCEPT !.at = "swapping", !.who = v, !.old = j,
                                  !.new = n]
    OBVIOUS
  <2>7. k \in CallType /\ k.at = "swapping"
    BY <2>0, <2>6 DEF Idle, CallType, People
  <2>8. Goes(c, k) BY <1>4, <2>5, <2>6 DEF Replace
  <2>9. /\ call'[c] = k
        /\ \A d \in Calls : d # c => call'[d] = call[d]
    BY <1>0, <2>7, <2>8, CallSet
  <2>10. Counting(u)' \subseteq Counting(u) /\ Asking(u)' \subseteq Asking(u)
    BY <2>7, <2>9, FewerCalls
  <2>11. Mine(u)' \subseteq Mine(u) BY MineLeft, LeftAlone
  <2> QED BY <2>4, <2>10, <2>11 DEF LinesStep, MineStep
<1>5. ASSUME NEW j \in Ids, NEW how \in {"over", "dropped"}, Cancels(j, how),
             UNCHANGED call
      PROVE  LinesStep(u) /\ MineStep(u)
  <2>1. Lines(u)' \subseteq Lines(u)
    BY <1>5, LinesAfterRemoval DEF States, Ids
  <2> QED BY <1>5, <2>1, Less
<1>6. ASSUME Crash PROVE LinesStep(u) /\ MineStep(u)
  <2>1. Lines(u)' \subseteq Lines(u)
    BY <1>6, LinesAlone, Untouching DEF Crash
  <2> QED BY <1>6, <2>1, Less DEF Crash
<1> QED BY <1>1, <1>2, <1>3, <1>4, <1>5, <1>6
        DEF SchedulesNext, CancelTask, Returned, Drop

LEMMA AutomationLimits ==
    ASSUME Base, Counts, NEW u \in Users, NEW c \in Calls
    PROVE  LET OK == LinesStep(u) /\ (u \notin Admins => MineStep(u)) IN
           /\ \/ Resolved(c) \/ Arm(c) \/ Armed(c) \/ Cleared(c)
              \/ Unwound(c) \/ Removed(c)
              => OK
           /\ \A v \in Users, on, dm \in BOOLEAN :
                 /\ Create(c, v, on, dm) => OK
                 /\ \A r \in RowIds : Update(c, v, r, on, dm) => OK
           /\ \A v \in Users, r \in RowIds : Delete(c, v, r) => OK
<1> DEFINE OK == LinesStep(u) /\ (u \notin Admins => MineStep(u))
<1>0. Typed /\ call[c] \in CallType /\ Phase(call[c]) BY CallIs DEF Base
<1>1. ASSUME Tinkers(c) PROVE OK
  <2>1. Lines(u)' \subseteq Lines(u) BY <1>1, LinesAlone DEF Tinkers
  <2>2. Mine(u)' \subseteq Mine(u) BY <1>1, MineLeft DEF Tinkers
  <2>3. Counting(u)' \subseteq Counting(u) /\ Asking(u)' \subseteq Asking(u)
    BY <1>1, FewerCalls DEF Tinkers
  <2> QED BY <2>1, <2>2, <2>3 DEF LinesStep, MineStep
<1>2. ASSUME NEW k \in CallType, Adds1(c, k), k.who \in Users
      PROVE  /\ LinesStep(u)
             /\ \E x : Mine(u)' \subseteq Mine(u) \cup {x}
             /\ k.who # u => MineStep(u)
             /\ Asking(u)' \subseteq Asking(u) \ {c}
  <2>1. Lines(u)' \subseteq Lines(u)
    BY <1>2, LinesAlone, Untouching DEF Adds1
  <2>2. /\ Mine(u)' \subseteq Mine(u) \cup {Len(rows) + 1}
        /\ k.who # u => Mine(u)' \subseteq Mine(u)
    BY <1>2, MineInserted DEF Adds1
  <2>3. Counting(u)' \subseteq Counting(u) /\ Asking(u)' \subseteq Asking(u)
    BY <1>2, FewerCalls DEF Adds1
  <2>4. c \notin Asking(u)' BY <1>2 DEF Adds1, Asking
  <2> QED BY <2>1, <2>2, <2>3, <2>4 DEF LinesStep, MineStep
<1>3. ASSUME \/ Arm(c) \/ Armed(c) \/ Cleared(c) \/ Unwound(c) \/ Removed(c)
      PROVE  OK
  BY <1>1, <1>3, Effects
<1>4. ASSUME Resolved(c) PROVE OK
  <2>1. call[c].at = "resolving" /\ call[c].who \in Users
    BY <1>0, <1>4 DEF Resolved, Phase, Asks
  <2>2. CASE Tinkers(c) BY <1>1, <2>2
  <2>3. ASSUME NEW k \in CallType, Adds1(c, k), k.who = call[c].who,
               ~call[c].edit
        PROVE  OK
    <3>1. CASE k.who # u BY <1>2, <2>1, <2>3, <3>1
    <3>2. CASE k.who = u
      <4>1. c \in Asking(u) BY <2>1, <2>3, <3>2 DEF Asking
      <4> QED BY <1>2, <2>1, <2>3, <4>1 DEF MineStep
    <3> QED BY <3>1, <3>2
  <2>4. CASE Ends(c) /\ UNCHANGED <<jobs, rows>>
    <3>1. \A d \in Calls : call'[d] = call[d] \/ call'[d] = Idle
      BY <1>0, <2>4, IdleIs, CallSet DEF Ends
    <3>2. Lines(u)' \subseteq Lines(u) BY <2>4, LinesAlone, Untouching
    <3> QED BY <2>4, <3>1, <3>2, Less
  <2> QED BY <1>4, <2>2, <2>3, <2>4, Effects
<1>5. ASSUME NEW v \in Users, NEW on \in BOOLEAN, NEW dm \in BOOLEAN,
             Create(c, v, on, dm)
      PROVE  OK
  <2>1. v \in Admins \/ Cardinality(Mine(v)) < MemberCap
    BY <1>5 DEF Create, Mine
  <2>2. Cardinality(Opens) < crowd'
    BY <1>5, AutomationCounts, CountsBegin DEF Beginning
  <2>3. ASSUME NEW k \in CallType, Adds1(c, k), k.who = v PROVE OK
    <3>1. CASE v # u BY <1>2, <2>3, <3>1
    <3>2. CASE v = u
      BY <1>2, <2>1, <2>2, <2>3, <3>2 DEF MineStep
    <3> QED BY <3>1, <3>2
  <2>4. ASSUME NEW q \in CallType, Goes(c, q), q.at = "resolving", q.who = v,
               UNCHANGED <<jobs, rows>>
        PROVE  OK
    <3>1. /\ call'[c] = q
          /\ \A d \in Calls : d # c => call'[d] = call[d]
      BY <1>0, <2>4, CallSet
    <3>2. Lines(u)' \subseteq Lines(u) /\ Mine(u)' \subseteq Mine(u)
      BY <2>4, LinesAlone, Untouching, MineLeft, LeftAlone
    <3>3. Counting(u)' \subseteq Counting(u) BY <2>4, <3>1, FewerCalls
    <3>4. CASE v # u
      <4>1. Asking(u)' \subseteq Asking(u)
        BY <2>4, <3>1, <3>4 DEF Asking
      <4> QED BY <3>2, <3>3, <4>1 DEF LinesStep, MineStep
    <3>5. CASE v = u
      BY <2>1, <3>2, <3>3, <3>5 DEF LinesStep, MineStep
    <3> QED BY <3>4, <3>5
  <2> QED BY <1>5, <2>3, <2>4, Effects
<1>6. ASSUME NEW v \in Users, NEW on \in BOOLEAN, NEW dm \in BOOLEAN,
             NEW r \in RowIds, Update(c, v, r, on, dm)
      PROVE  OK
  BY <1>1, <1>6, Effects
<1>7. ASSUME NEW v \in Users, NEW r \in RowIds, Delete(c, v, r) PROVE OK
  BY <1>1, <1>7, Effects
<1> QED BY <1>3, <1>4, <1>5, <1>6, <1>7

LEMMA LimitsStep ==
    ASSUME Base, Counts, Limits, [Next]_vars
    PROVE  Limits'
<1>1. Base' /\ Counts' BY BaseStep, CountsStep
<1>2. crowd <= crowd'
  <2>1. crowd \in Nat
    BY SchedulesAssumption, FS_CardinalityType DEF Counts
  <2>2. GoingOn \/ \E c \in Calls : Beginning(c)
    BY ReminderCounts, AutomationCounts DEF Next, vars, env, GoingOn, Faults
  <2> QED BY <2>1, <2>2, CountsBegin DEF Beginning, GoingOn
<1>3. ASSUME NEW u \in Users
      PROVE  LinesStep(u) /\ (u \notin Admins => MineStep(u))
  <2>1. CASE SchedulesNext /\ UNCHANGED rows BY <2>1, ReminderLimits
  <2>2. CASE UNCHANGED vars
    <3>1. Lines(u)' \subseteq Lines(u)
      BY <2>2, LinesAlone, Untouching DEF vars
    <3> QED BY <2>2, <3>1, Less DEF vars
  <2> QED BY <2>1, <2>2, AutomationLimits DEF Next
<1> QED BY <1>1, <1>2, <1>3, LimitsKept

LEMMA LimitsInit == Init => Limits
<1> SUFFICES ASSUME Init, NEW u \in Users
    PROVE  /\ Cardinality(Lines(u)) + Cardinality(Counting(u)) < Cap + crowd
           /\ Cardinality(Mine(u)) + Cardinality(Asking(u)) < MemberCap + crowd
  BY DEF Limits
<1>1. /\ Lines(u) = {} /\ Mine(u) = {} /\ Counting(u) = {} /\ Asking(u) = {}
      /\ crowd = 0
  BY IdleIs DEF Init, SchedulesInit, Lines, Created, Ids, Live, Mine, RowIds,
                There, Counting, Asking
<1> QED BY <1>1, FS_EmptySet, SchedulesAssumption, AutomationsAssumption

\* The limits of scheduler.ts:31 and automations.ts:19 are read before an await
\* and used after it: a person has at most as many lines of reminders, and as
\* many automations, more as calls were open at a time.
THEOREM LimitsBound == Spec => []LimitsHold
<1>1. Base /\ Counts /\ Limits => LimitsHold
  <2> SUFFICES ASSUME Base, Counts, Limits, NEW u \in Users
      PROVE  /\ Cardinality(Lines(u)) < Cap + crowd
             /\ u \notin Admins => Cardinality(Mine(u)) < MemberCap + crowd
    BY DEF LimitsHold, Mine
  <2>1. crowd \in Nat
    BY SchedulesAssumption, FS_CardinalityType DEF Counts
  <2> QED BY <2>1, Finite, SchedulesAssumption, AutomationsAssumption DEF Limits
<1>2. Base /\ Counts /\ Limits /\ [Next]_vars => Base' /\ Counts' /\ Limits'
  BY BaseStep, CountsStep, LimitsStep
<1> QED BY <1>1, <1>2, BaseInit, CountsInit, LimitsInit, PTL DEF Spec

-----------------------------------------------------------------------------
(* The lines of reminders *)

\* What became of a schedule is final.
Final == \A j \in Ids : jobs[j].state # "live" => jobs'[j].state = jobs[j].state

LEMMA Finally ==
    ASSUME Typed, \/ UNCHANGED jobs
                  \/ \E i \in Nat, how \in States : Cancels(i, how)
                  \/ \E x \in JobType : Arms(x)
    PROVE  Final /\ JobsKept
  BY Removal, Added, NothingRemoved DEF Final

LEMMA Platform ==
    ASSUME Base, [Next]_vars
    PROVE  Final /\ JobsKept
<1>0. Typed BY DEF Base
<1>1. CASE UNCHANGED jobs BY <1>0, <1>1, Finally
<1>2. ASSUME NEW i \in Nat, NEW how \in States, Cancels(i, how)
      PROVE  Final /\ JobsKept
  BY <1>0, <1>2, Finally
<1>3. ASSUME NEW x \in JobType, Arms(x) PROVE Final /\ JobsKept
  BY <1>0, <1>3, Finally
<1>4. ASSUME SchedulesNext PROVE Final /\ JobsKept
  <2>1. ASSUME NEW c \in Calls, Schedule(c) PROVE Final /\ JobsKept
    BY <1>1, <1>3, <2>1, CallIs, ReminderIs DEF Schedule, Phase, OnReminder
  <2>2. ASSUME NEW c \in Calls, Swap(c) PROVE Final /\ JobsKept
    BY <1>1, <1>2, <2>2, CallIs DEF Swap, Rollback, CallType, States
  <2>3. ASSUME NEW u \in Users, NEW c \in Calls, NEW j \in Ids, Replace(c, u, j)
        PROVE  Final /\ JobsKept
    <3>1. jobs[j] \in JobType BY <1>0, ElementOfSeq DEF Typed, Ids
    <3>2. jobs[j].once \in BOOLEAN BY <3>1 DEF JobType
    <3> QED BY <1>3, <2>3, <3>2, ReminderIs DEF Replace
  <2>4. ASSUME NEW j \in Ids, NEW how \in {"over", "dropped"}, Cancels(j, how)
        PROVE  Final /\ JobsKept
    BY <1>2, <2>4 DEF Ids, States
  <2>5. ASSUME NEW u \in Users, NEW j \in Ids, CancelTask(u, j)
        PROVE  Final /\ JobsKept
    BY <2>4, <2>5 DEF CancelTask
  <2>6. ASSUME NEW j \in Ids, Returned(j) \/ Drop(j)
        PROVE  Final /\ JobsKept
    BY <2>4, <2>6 DEF Returned, Drop
  <2>7. ASSUME NEW u \in Users, NEW c \in Calls, Count(c, u)
        PROVE  Final /\ JobsKept
    BY <1>1, <2>7 DEF Count
  <2>8. ASSUME Crash PROVE Final /\ JobsKept
    BY <1>1, <2>8 DEF Crash
  <2> QED BY <1>4, <2>1, <2>2, <2>3, <2>5, <2>6, <2>7, <2>8 DEF SchedulesNext
<1>5. ASSUME NEW c \in Calls, NEW k \in CallType, Clear(c, k) \/ Save(c, k)
      PROVE  Final /\ JobsKept
  BY <1>1, <1>2, <1>5 DEF Clear, Save, CallType, States
<1>6. ASSUME NEW c \in Calls, Resolved(c) PROVE Final /\ JobsKept
  BY <1>1, <1>5, <1>6, ResolvedIs DEF Resolved, Insert
<1>7. ASSUME NEW c \in Calls, Arm(c) PROVE Final /\ JobsKept
  BY <1>1, <1>3, <1>7, CallIs, DigestIs DEF Arm, Phase
<1>8. ASSUME NEW c \in Calls, Armed(c) \/ Cleared(c) PROVE Final /\ JobsKept
  BY <1>5, <1>8, CallIs DEF Armed, Cleared
<1>9. ASSUME NEW c \in Calls, Unwound(c) \/ Removed(c) PROVE Final /\ JobsKept
  BY <1>1, <1>9 DEF Unwound, Removed
<1>10. ASSUME NEW c \in Calls, NEW u \in Users, NEW on \in BOOLEAN,
              NEW dm \in BOOLEAN, Create(c, u, on, dm)
       PROVE  Final /\ JobsKept
  BY <1>1, <1>10 DEF Create, Insert
<1>11. ASSUME NEW c \in Calls, NEW u \in Users, NEW on \in BOOLEAN,
              NEW dm \in BOOLEAN, NEW r \in RowIds, Update(c, u, r, on, dm)
       PROVE  Final /\ JobsKept
  <2>1. PICK s \in {Nobody, rows[r].to} : s = IF dm THEN rows[r].to ELSE Nobody
    OBVIOUS
  <2>2. PICK k : k = Edit(u, r, s, on, dm) OBVIOUS
  <2>3. k \in CallType BY <2>1, <2>2, EditIs
  <2>4. UNCHANGED jobs \/ Clear(c, k)
    BY <1>11, <2>1, <2>2 DEF Update, Edit
  <2> QED BY <1>1, <1>5, <2>3, <2>4
<1>12. ASSUME NEW c \in Calls, NEW u \in Users, NEW r \in RowIds, Delete(c, u, r)
       PROVE  Final /\ JobsKept
  <2>1. rows[r] \in AutoType BY <1>0, ElementOfSeq DEF Typed, RowIds
  <2> QED BY <1>1, <1>2, <1>12, <2>1 DEF Delete, AutoType, States
<1> QED BY <1>1, <1>4, <1>6, <1>7, <1>8, <1>9, <1>10, <1>11, <1>12 DEF Next, vars

Swapping(c) == call[c].at = "swapping"
FreshIn(i) == \E c \in Calls : Swapping(c) /\ call[c].new = i

\* What a replacement was made from.  Only the call that made it takes it back.
Pairs ==
    /\ \A c \in Calls : Swapping(c) =>
          /\ call[c].old < call[c].new
          /\ jobs[call[c].new].of = call[c].old
          /\ jobs[call[c].new].root = jobs[call[c].old].root
          /\ jobs[call[c].new].state # "undone"
    /\ \A c, d \in Calls :
          Swapping(c) /\ Swapping(d) /\ call[c].new = call[d].new => c = d

\* An end of a line: it is scheduled for good, has run, was cancelled.
Tip(i) ==
    /\ i \in Ids /\ jobs[i].row = 0
    /\ jobs[i].state \in {"over", "dropped"} \/ (jobs[i].state = "live" /\ ~FreshIn(i))

\* Every line has one, and for one that was replaced it is a later one.
Headed ==
    \A j \in Ids : jobs[j].row = 0 =>
       \E i \in Ids : /\ Tip(i) /\ jobs[i].root = jobs[j].root
                      /\ jobs[j].state = "replaced" => i > j

Follows(i, j) ==
    i \in Ids /\ jobs[i].of = j /\ jobs[i].state = "live" /\ ~FreshIn(i)
Once ==
    failures = 0 /\ crashes = 0 =>
       /\ \A j \in Ids : \A h, i \in Ids : Follows(h, j) /\ Follows(i, j) => h = i
       /\ \A j \in Ids : \A i \in Ids : Follows(i, j) => jobs[j].state = "replaced"

LinesInv == Pairs /\ Headed /\ Once

\* Every reminder of a call is the new half of one that is being swapped.
LEMMA FreshIsNew ==
    ASSUME Base, NEW i \in Ids, jobs[i].row = 0
    PROVE  FreshIn(i) <=> \E c \in Calls : call[c].new = i
<1>1. ASSUME NEW c \in Calls, call[c].new = i PROVE Swapping(c)
  <2>0. Len(jobs) \in Nat /\ i # 0 BY LenIsNat DEF Base, Ids
  <2>1. call[c] \in CallType /\ Points(call[c]) /\ Phase(call[c]) BY CallIs
  <2>2. call[c].row = 0 /\ call[c].new # 0
    BY <1>1, <2>0, <2>1 DEF Points
  <2>3. call[c].at # "idle" BY <2>1, <2>2, IdleIs DEF Phase
  <2> QED BY <2>1, <2>2, <2>3 DEF Phase, OnReminder, Asks, Sets, CallType, Swapping
<1> QED BY <1>1 DEF FreshIn

LEMMA SwapIs ==
    ASSUME Base, NEW c \in Calls, Swapping(c)
    PROVE  /\ call[c].old \in Ids /\ call[c].new \in Ids
           /\ jobs[call[c].old].row = 0 /\ jobs[call[c].new].row = 0
<1>0. Len(jobs) \in Nat /\ Len(rows) \in Nat BY LenIsNat DEF Base
<1>1. call[c] \in CallType /\ Points(call[c]) /\ OnReminder(call[c])
  BY CallIs DEF Swapping, Phase
<1>2. call[c].old # 0 /\ call[c].new # 0 /\ call[c].row = 0
  BY <1>1 DEF OnReminder, Swapping
<1>3. call[c].old \in Nat /\ call[c].new \in Nat BY <1>1 DEF CallType
<1> QED BY <1>0, <1>1, <1>2, <1>3 DEF Points, Ids

LEMMA FaultsGrow ==
    ASSUME Counts, Faults, failures' = 0, crashes' = 0
    PROVE  failures = 0 /\ crashes = 0
  BY DEF Counts, Faults, Fails, FailsTwice

\* Steps of which no reminder loses its head and none is replaced.
HeadsKept ==
    /\ \A i \in Ids : Tip(i) => Tip(i)'
    /\ \A j \in Ids : jobs'[j].row = 0 /\ jobs'[j].state = "replaced" =>
          jobs[j].state = "replaced"

LEMMA HeadedKept ==
    ASSUME Base, JobsKept, Headed, HeadsKept, Ids \subseteq Ids',
           \A j \in Ids' : j \notin Ids /\ jobs'[j].row = 0 =>
              /\ jobs'[j].state # "replaced"
              /\ \E i \in Ids' : Tip(i)' /\ jobs'[i].root = jobs'[j].root
    PROVE  Headed'
<1> SUFFICES ASSUME NEW j \in Ids', jobs'[j].row = 0
    PROVE  \E i \in Ids' : /\ Tip(i)' /\ jobs'[i].root = jobs'[j].root
                           /\ jobs'[j].state = "replaced" => i > j
  BY DEF Headed
<1>1. CASE j \in Ids
  <2>1. jobs[j].row = 0 BY <1>1 DEF JobsKept
  <2>2. PICK i \in Ids : /\ Tip(i) /\ jobs[i].root = jobs[j].root
                         /\ jobs[j].state = "replaced" => i > j
    BY <1>1, <2>1 DEF Headed
  <2>3. Tip(i)' /\ jobs'[i].root = jobs'[j].root
    BY <1>1, <2>2 DEF HeadsKept, JobsKept
  <2>4. jobs'[j].state = "replaced" => i > j
    BY <1>1, <2>2 DEF HeadsKept
  <2> QED BY <2>2, <2>3, <2>4
<1>2. CASE j \notin Ids BY <1>2
<1> QED BY <1>1, <1>2

\* The calls that swap are those that did, less some.
FewerSwaps == \A c \in Calls : call'[c] = call[c] \/ call'[c].at # "swapping"

LEMMA FreshLess ==
    ASSUME FewerSwaps, NEW i
    PROVE  FreshIn(i)' => FreshIn(i)
  BY DEF FreshIn, Swapping, FewerSwaps

LEMMA PairsLess ==
    ASSUME Base, Pairs, FewerSwaps, JobsKept,
           \A c \in Calls : Swapping(c) /\ Swapping(c)' =>
              (jobs'[call[c].new].state = "undone" =>
                  jobs[call[c].new].state = "undone")
    PROVE  Pairs'
<1>1. ASSUME NEW c \in Calls, Swapping(c)'
      PROVE  /\ Swapping(c) /\ call'[c] = call[c]
             /\ call[c].old < call[c].new
             /\ jobs'[call[c].new].of = call[c].old
             /\ jobs'[call[c].new].root = jobs'[call[c].old].root
             /\ jobs'[call[c].new].state # "undone"
  <2>1. Swapping(c) /\ call'[c] = call[c]
    BY <1>1 DEF FewerSwaps, Swapping
  <2>2. call[c].old \in Ids /\ call[c].new \in Ids BY <2>1, SwapIs
  <2> QED BY <1>1, <2>1, <2>2 DEF Pairs, JobsKept
<1> QED BY <1>1 DEF Pairs

\* A step that leaves the reminders and their replacements alone.
LEMMA LinesUntouched ==
    ASSUME Base, Base', JobsKept, Final, LinesInv, Counts, Faults,
           RemindersKept,
           \A c \in Calls : \/ call'[c] = call[c]
                            \/ ~Swapping(c) /\ ~Swapping(c)'
    PROVE  LinesInv'
<1>0. /\ FewerSwaps
      /\ \A i : FreshIn(i)' <=> FreshIn(i)
  BY DEF FewerSwaps, Swapping, FreshIn
<1>1. Pairs'
  <2>1. ASSUME NEW c \in Calls, Swapping(c)
        PROVE  jobs'[call[c].new] = jobs[call[c].new]
    BY <2>1, SwapIs DEF RemindersKept
  <2> QED BY <1>0, <2>1, PairsLess DEF LinesInv
<1>2. Headed'
  <2>1. HeadsKept
    <3>1. \A i \in Ids : Tip(i) => Tip(i)'
      BY <1>0 DEF Tip, RemindersKept
    <3>2. \A j \in Ids : jobs'[j].row = 0 => jobs'[j] = jobs[j]
      BY DEF RemindersKept, JobsKept
    <3> QED BY <3>1, <3>2 DEF HeadsKept
  <2>2. Ids \subseteq Ids'
    BY LenIsNat, LenProperties DEF JobsKept, Ids, Base, Typed
  <2> QED BY <2>1, <2>2, HeadedKept DEF LinesInv, RemindersKept
<1>3. Once'
  <2> SUFFICES ASSUME failures' = 0, crashes' = 0
      PROVE  /\ \A j \in Ids' : \A h, i \in Ids' :
                   Follows(h, j)' /\ Follows(i, j)' => h = i
             /\ \A j \in Ids' : \A i \in Ids' :
                   Follows(i, j)' => jobs'[j].state = "replaced"
    BY DEF Once
  <2>1. failures = 0 /\ crashes = 0 BY FaultsGrow
  <2>2. ASSUME NEW i \in Ids', NEW j \in Ids', Follows(i, j)'
        PROVE  /\ i \in Ids /\ j \in Ids /\ Follows(i, j)
               /\ jobs[j].state = "replaced" => jobs'[j].state = "replaced"
    <3>1. j \in Nat /\ j # 0 /\ jobs'[i].of = j
      BY <2>2, LenProperties DEF Follows, Ids, Base, Typed
    <3>2. jobs'[i].row = 0 BY <3>1 DEF Base, JobOK
    <3>3. i \in Ids /\ jobs'[i] = jobs[i] /\ jobs[i].row = 0
      BY <3>2 DEF RemindersKept
    <3>4. j < i BY <3>1, <3>3 DEF Base, JobOK
    <3>5. j \in Ids BY <3>1, <3>3, <3>4, LenIsNat DEF Ids, Base
    <3>6. Follows(i, j) BY <1>0, <2>2, <3>3 DEF Follows
    <3> QED BY <3>3, <3>5, <3>6 DEF Final
  <2> QED BY <2>1, <2>2 DEF LinesInv, Once
<1> QED BY <1>1, <1>2, <1>3 DEF LinesInv

\* A reminder that is cancelled or has its turn.
LEMMA LinesEnded ==
    ASSUME Base, LinesInv, NEW i \in Ids, NEW how \in {"over", "dropped"},
           Cancels(i, how), UNCHANGED <<call, failures, crashes>>
    PROVE  LinesInv'
<1>0. Typed /\ i \in Nat /\ how \in States BY DEF Base, Ids, States
<1>1. /\ JobsKept /\ Len(jobs') = Len(jobs)
      /\ \A j \in Ids :
            /\ j # i => jobs'[j] = jobs[j]
            /\ jobs'[j].state =
                  IF j = i /\ jobs[j].state = "live" THEN how ELSE jobs[j].state
  BY <1>0, Removal
<1>2. Ids' = Ids BY <1>1 DEF Ids
<1>3. FewerSwaps /\ \A h : FreshIn(h)' <=> FreshIn(h)
  BY DEF FewerSwaps, FreshIn, Swapping
<1>4. Pairs'
  <2>1. \A c \in Calls : Swapping(c) => call[c].new \in Ids BY SwapIs
  <2> QED BY <1>1, <1>3, <2>1, PairsLess DEF LinesInv
<1>5. Headed'
  <2>1. HeadsKept BY <1>1, <1>2, <1>3 DEF HeadsKept, Tip, JobsKept
  <2> QED BY <1>1, <1>2, <2>1, HeadedKept DEF LinesInv
<1>6. Once'
  <2>1. \A h, j \in Ids : Follows(h, j)' => Follows(h, j)
    BY <1>1, <1>2, <1>3 DEF Follows, JobsKept
  <2>2. \A j \in Ids : jobs[j].state = "replaced" => jobs'[j].state = "replaced"
    BY <1>1
  <2> QED BY <1>2, <2>1, <2>2 DEF LinesInv, Once
<1> QED BY <1>4, <1>5, <1>6 DEF LinesInv

\* A reminder of its own is scheduled.
LEMMA LinesScheduled ==
    ASSUME Base, LinesInv, NEW c \in Calls, call[c].at = "counted",
           NEW x \in JobType, x.row = 0, x.of = 0, x.state = "live",
           x.root = Len(jobs) + 1, Arms(x), Ends(c), UNCHANGED <<failures, crashes>>
    PROVE  LinesInv'
<1>0. Typed /\ Len(jobs) \in Nat BY LenIsNat DEF Base
<1>9. PICK n \in Nat : n = Len(jobs) + 1 BY <1>0
<1>1. /\ JobsKept /\ Len(jobs') = n /\ jobs'[n] = x
      /\ \A j \in Ids : jobs'[j] = jobs[j]
  BY <1>0, <1>9, Added
<1>2. Ids' = Ids \cup {n} /\ n \notin Ids BY <1>0, <1>1, <1>9 DEF Ids
<1>3. /\ call'[c] = Idle
      /\ \A d \in Calls : d # c => call'[d] = call[d]
  BY <1>0, IdleIs, CallSet DEF Ends
<1>4. FewerSwaps /\ \A h : FreshIn(h)' <=> FreshIn(h)
  BY <1>3, IdleIs DEF FewerSwaps, FreshIn, Swapping
<1>5. ~FreshIn(n) BY <1>2, SwapIs DEF FreshIn
<1>6. Pairs'
  <2>1. \A d \in Calls : Swapping(d) => call[d].new \in Ids BY SwapIs
  <2> QED BY <1>1, <1>4, <2>1, PairsLess DEF LinesInv
<1>7. Headed'
  <2>1. HeadsKept BY <1>1, <1>2, <1>4 DEF HeadsKept, Tip
  <2>2. Tip(n)' BY <1>1, <1>2, <1>4, <1>5 DEF Tip
  <2> QED BY <1>1, <1>2, <2>1, <2>2, HeadedKept DEF LinesInv
<1>8. Once'
  <2>1. \A h \in Ids', j \in Ids' :
           Follows(h, j)' => h \in Ids /\ j \in Ids /\ Follows(h, j)
    <3> SUFFICES ASSUME NEW h \in Ids', NEW j \in Ids', Follows(h, j)'
        PROVE  h \in Ids /\ j \in Ids /\ Follows(h, j)
      OBVIOUS
    <3>1. j # 0 /\ j \in Nat BY <1>0, <1>1, <1>9 DEF Ids
    <3>2. h \in Ids BY <1>1, <1>2, <3>1 DEF Follows
    <3>3. Follows(h, j) BY <1>1, <1>4, <3>2 DEF Follows
    <3>4. j < h /\ h <= Len(jobs) /\ h \in Nat
      BY <1>0, <3>2, <3>3 DEF Follows, Base, JobOK, Ids
    <3> QED BY <1>0, <3>1, <3>2, <3>3, <3>4 DEF Ids
  <2> QED BY <1>1, <2>1 DEF LinesInv, Once
<1> QED BY <1>6, <1>7, <1>8 DEF LinesInv

\* Another one is scheduled beside a reminder.
LEMMA LinesReplacing ==
    ASSUME Base, LinesInv, NEW c \in Calls, ~Open(c), NEW j \in Ids,
           jobs[j].row = 0, NEW x \in JobType, x.row = 0, x.of = j,
           x.state = "live", x.root = jobs[j].root, Arms(x),
           NEW k \in CallType, Goes(c, k), k.at = "swapping", k.old = j,
           k.new = Len(jobs) + 1, UNCHANGED <<failures, crashes>>
    PROVE  LinesInv'
<1>0. Typed /\ Len(jobs) \in Nat BY LenIsNat DEF Base
<1>9. PICK n \in Nat : n = Len(jobs) + 1 BY <1>0
<1>1. /\ JobsKept /\ Len(jobs') = n /\ jobs'[n] = x
      /\ \A i \in Ids : jobs'[i] = jobs[i]
  BY <1>0, <1>9, Added
<1>2. Ids' = Ids \cup {n} /\ n \notin Ids /\ j < n /\ j \in Ids
  BY <1>0, <1>1, <1>9 DEF Ids
<1>3. /\ call'[c] = k
      /\ \A d \in Calls : d # c => call'[d] = call[d]
  BY <1>0, CallSet
<1>4. \A h : FreshIn(h)' <=> (FreshIn(h) \/ h = n)
  BY <1>3, <1>9 DEF FreshIn, Swapping, Open
<1>5. ~FreshIn(n) BY <1>2, SwapIs DEF FreshIn
<1>6. Pairs'
  <2>1. ASSUME NEW d \in Calls, Swapping(d)'
        PROVE  \/ d = c /\ call'[d] = k
               \/ /\ d # c /\ Swapping(d) /\ call'[d] = call[d]
                  /\ call[d].old \in Ids /\ call[d].new \in Ids
    BY <1>3, <2>1, SwapIs DEF Swapping
  <2>2. ASSUME NEW d \in Calls, Swapping(d)'
        PROVE  /\ call'[d].old < call'[d].new
               /\ jobs'[call'[d].new].of = call'[d].old
               /\ jobs'[call'[d].new].root = jobs'[call'[d].old].root
               /\ jobs'[call'[d].new].state # "undone"
    <3>1. CASE d = c BY <1>1, <1>2, <1>9, <2>1, <2>2, <3>1
    <3>2. CASE d # c BY <1>1, <2>1, <2>2, <3>2 DEF LinesInv, Pairs
    <3> QED BY <3>1, <3>2
  <2>3. ASSUME NEW d \in Calls, NEW e \in Calls, Swapping(d)', Swapping(e)',
               call'[d].new = call'[e].new
        PROVE  d = e
    BY <1>2, <1>9, <2>1, <2>3 DEF LinesInv, Pairs, Swapping
  <2> QED BY <2>2, <2>3 DEF Pairs
<1>7. Headed'
  <2>1. HeadsKept
    BY <1>1, <1>2, <1>4 DEF HeadsKept, Tip
  <2>2. \E i \in Ids : Tip(i) /\ jobs[i].root = jobs[j].root
    BY DEF LinesInv, Headed
  <2>3. \E i \in Ids' : Tip(i)' /\ jobs'[i].root = jobs'[n].root
    BY <1>1, <1>2, <2>1, <2>2 DEF HeadsKept
  <2> QED BY <1>1, <1>2, <2>1, <2>3, HeadedKept DEF LinesInv
<1>8. Once'
  <2>1. \A h \in Ids', i \in Ids' :
           Follows(h, i)' => h \in Ids /\ i \in Ids /\ Follows(h, i)
    <3> SUFFICES ASSUME NEW h \in Ids', NEW i \in Ids', Follows(h, i)'
        PROVE  h \in Ids /\ i \in Ids /\ Follows(h, i)
      OBVIOUS
    <3>1. h \in Ids /\ i \in Nat BY <1>0, <1>1, <1>2, <1>4 DEF Follows, Ids
    <3>3. Follows(h, i) BY <1>1, <1>4, <3>1 DEF Follows
    <3>4. i < h /\ h <= Len(jobs) /\ h \in Nat /\ i # 0
      BY <1>0, <1>1, <3>1, <3>3 DEF Follows, Base, JobOK, Ids
    <3> QED BY <1>0, <3>1, <3>3, <3>4 DEF Ids
  <2> QED BY <1>1, <2>1 DEF LinesInv, Once
<1> QED BY <1>6, <1>7, <1>8 DEF LinesInv

\* The call that swaps ends, and what it made is no longer its own.
LEMMA SwapEnds ==
    ASSUME Base, Pairs, NEW c \in Calls, Swapping(c), Ends(c)
    PROVE  /\ FewerSwaps
           /\ \A h : FreshIn(h)' <=> (FreshIn(h) /\ h # call[c].new)
           /\ \A d \in Calls : Swapping(d)' =>
                 d # c /\ Swapping(d) /\ call'[d] = call[d]
<1>0. Typed BY DEF Base
<1>1. /\ call'[c] = Idle
      /\ \A d \in Calls : d # c => call'[d] = call[d]
  BY <1>0, IdleIs, CallSet DEF Ends
<1>2. \A d \in Calls : Swapping(d)' => d # c /\ Swapping(d) /\ call'[d] = call[d]
  BY <1>1, IdleIs DEF Swapping
<1>3. \A h : FreshIn(h)' <=> (FreshIn(h) /\ h # call[c].new)
  BY <1>1, <1>2 DEF FreshIn, Swapping, Pairs
<1> QED BY <1>1, <1>2, <1>3, IdleIs DEF FewerSwaps

\* The replacement takes the place of the old one, or, when it was replaced in
\* its turn meanwhile, a later one does.
LEMMA LinesSwapped ==
    ASSUME Base, LinesInv, NEW c \in Calls, Swapping(c), Live(call[c].old),
           Cancels(call[c].old, "replaced"), Ends(c),
           UNCHANGED <<failures, crashes>>
    PROVE  LinesInv'
<1>0. Typed BY DEF Base
<1>1. PICK o, n : o = call[c].old /\ n = call[c].new OBVIOUS
<1>2. /\ o \in Ids /\ n \in Ids /\ o \in Nat /\ n \in Nat /\ o < n
      /\ jobs[o].row = 0 /\ jobs[n].row = 0 /\ jobs[o].state = "live"
      /\ jobs[n].of = o /\ jobs[n].root = jobs[o].root
      /\ jobs[n].state # "undone"
  BY <1>1, SwapIs DEF LinesInv, Pairs, Live, Ids
<1>3. /\ JobsKept /\ Len(jobs') = Len(jobs)
      /\ \A j \in Ids : j # o => jobs'[j] = jobs[j]
      /\ jobs'[o].state = "replaced"
      /\ \A j \in Ids : j # o => jobs'[j].state = jobs[j].state
  BY <1>0, <1>1, <1>2, Removal DEF States
<1>4. Ids' = Ids BY <1>3 DEF Ids
<1>5. /\ FewerSwaps
      /\ \A h : FreshIn(h)' <=> (FreshIn(h) /\ h # n)
      /\ \A d \in Calls : Swapping(d)' =>
            d # c /\ Swapping(d) /\ call'[d] = call[d]
  BY <1>1, SwapEnds DEF LinesInv
<1>6. Pairs'
  <2>1. \A d \in Calls : Swapping(d) => call[d].new \in Ids BY SwapIs
  <2> QED BY <1>3, <1>5, <2>1, PairsLess DEF LinesInv
<1>7. \A i \in Ids : Tip(i) /\ i # o => Tip(i)'
  BY <1>3, <1>4, <1>5 DEF Tip
<1>8. \E w \in Ids : Tip(w)' /\ jobs'[w].root = jobs[o].root /\ w > o
  <2>1. CASE jobs[n].state = "replaced"
    <3>1. PICK i \in Ids : Tip(i) /\ jobs[i].root = jobs[n].root /\ i > n
      BY <1>2, <2>1 DEF LinesInv, Headed
    <3>2. i > o /\ i # o BY <1>2, <3>1 DEF Ids
    <3> QED BY <1>2, <1>3, <1>7, <3>1, <3>2
  <2>2. CASE jobs[n].state # "replaced"
    <3>1. jobs[n] \in JobType BY <1>0, <1>2, ElementOfSeq DEF Typed, Ids
    <3>2. jobs[n].state \in {"live", "over", "dropped"}
      BY <1>2, <2>2, <3>1 DEF JobType, States
    <3>3. n # o /\ n > o BY <1>2
    <3>4. Tip(n)' BY <1>1, <1>2, <1>3, <1>4, <1>5, <3>2, <3>3 DEF Tip
    <3> QED BY <1>2, <1>3, <3>3, <3>4
  <2> QED BY <2>1, <2>2
<1>9. Headed'
  <2> SUFFICES ASSUME NEW j \in Ids, jobs'[j].row = 0
      PROVE  \E i \in Ids : /\ Tip(i)' /\ jobs'[i].root = jobs'[j].root
                            /\ jobs'[j].state = "replaced" => i > j
    BY <1>4 DEF Headed
  <2>0. j \in Nat /\ jobs[j].row = 0 /\ jobs'[j].root = jobs[j].root
    BY <1>3 DEF JobsKept, Ids
  <2>1. PICK i \in Ids : /\ Tip(i) /\ jobs[i].root = jobs[j].root
                         /\ jobs[j].state = "replaced" => i > j
    BY <2>0 DEF LinesInv, Headed
  <2>2. CASE j = o BY <1>8, <2>0, <2>2
  <2>3. CASE j # o /\ i # o
    BY <1>3, <1>7, <2>0, <2>1, <2>3 DEF JobsKept
  <2>4. CASE j # o /\ i = o
    <3>1. PICK w \in Ids : Tip(w)' /\ jobs'[w].root = jobs[o].root /\ w > o
      BY <1>8
    <3>2. jobs'[j].state = "replaced" => w > j
      BY <1>2, <1>3, <2>0, <2>1, <2>4, <3>1 DEF Ids
    <3> QED BY <2>0, <2>1, <2>4, <3>1, <3>2
  <2> QED BY <2>2, <2>3, <2>4
<1>10. Once'
  <2>1. \A h, j \in Ids : Follows(h, j)' => Follows(h, j) \/ (h = n /\ j = o)
    BY <1>2, <1>3, <1>4, <1>5 DEF Follows, JobsKept
  <2>2. failures = 0 /\ crashes = 0 => \A h \in Ids : ~Follows(h, o)
    BY <1>2 DEF LinesInv, Once
  <2>3. \A j \in Ids : jobs[j].state = "replaced" => jobs'[j].state = "replaced"
    BY <1>3
  <2> QED BY <1>3, <1>4, <2>1, <2>2, <2>3 DEF LinesInv, Once
<1> QED BY <1>6, <1>9, <1>10 DEF LinesInv

\* The replacement is taken back.
LEMMA LinesRolledBack ==
    ASSUME Base, LinesInv, Counts, Faults, NEW c \in Calls, Swapping(c),
           Rollback(c)
    PROVE  LinesInv'
<1>0. Typed BY DEF Base
<1>1. PICK n : n = call[c].new OBVIOUS
<1>2. n \in Ids /\ n \in Nat /\ FreshIn(n)
  BY <1>1, SwapIs DEF Ids, FreshIn
<1>3. /\ JobsKept /\ Len(jobs') = Len(jobs)
      /\ \A j \in Ids :
            /\ j # n => jobs'[j] = jobs[j]
            /\ jobs'[j].state =
                  IF j = n /\ jobs[j].state = "live" THEN "undone"
                  ELSE jobs[j].state
  BY <1>0, <1>1, <1>2, Removal DEF States, Rollback
<1>4. Ids' = Ids BY <1>3 DEF Ids
<1>5. /\ FewerSwaps
      /\ \A h : FreshIn(h)' <=> (FreshIn(h) /\ h # n)
      /\ \A d \in Calls : Swapping(d)' =>
            d # c /\ Swapping(d) /\ call'[d] = call[d]
  BY <1>1, SwapEnds DEF LinesInv, Rollback
<1>6. Pairs'
  <2>1. ASSUME NEW d \in Calls, Swapping(d), Swapping(d)'
        PROVE  call[d].new \in Ids /\ call[d].new # n
    BY <1>1, <1>5, <2>1, SwapIs DEF LinesInv, Pairs
  <2> QED BY <1>3, <1>5, <2>1, PairsLess DEF LinesInv
<1>7. Headed'
  <2>1. HeadsKept BY <1>2, <1>3, <1>4, <1>5 DEF HeadsKept, Tip, JobsKept
  <2> QED BY <1>3, <1>4, <2>1, HeadedKept DEF LinesInv
<1>8. Once'
  <2>1. \A h, j \in Ids : Follows(h, j)' => Follows(h, j)
    BY <1>3, <1>4, <1>5 DEF Follows, JobsKept
  <2>2. \A j \in Ids : jobs[j].state = "replaced" => jobs'[j].state = "replaced"
    BY <1>3
  <2> QED BY <1>4, <2>1, <2>2, FaultsGrow DEF LinesInv, Once
<1> QED BY <1>6, <1>7, <1>8 DEF LinesInv

\* A call stops halfway and leaves the replacement and the old one.
LEMMA LinesAbandoned ==
    ASSUME Base, LinesInv, UNCHANGED jobs, FewerSwaps,
           failures' # 0 \/ crashes' # 0
    PROVE  LinesInv'
<1>0. Typed BY DEF Base
<1>1. JobsKept /\ Ids' = Ids BY <1>0, NothingRemoved DEF Ids
<1>2. \A h : FreshIn(h)' => FreshIn(h) BY FreshLess
<1>3. Pairs' BY <1>1, PairsLess DEF LinesInv
<1>4. HeadsKept BY <1>1, <1>2 DEF HeadsKept, Tip
<1>5. Headed' BY <1>1, <1>4, HeadedKept DEF LinesInv
<1> QED BY <1>3, <1>5 DEF LinesInv, Once

LEMMA ReminderLines ==
    ASSUME Base, Base', Counts, LinesInv, SchedulesNext, UNCHANGED <<rows, disturbed>>,
           JobsKept, Final, Faults
    PROVE  LinesInv'
<1>0. Typed /\ Len(jobs) \in Nat BY LenIsNat DEF Base
<1>1. UNCHANGED jobs => RemindersKept BY Untouching
<1>2. ASSUME NEW c \in Calls, Schedule(c) PROVE LinesInv'
  <2>1. /\ call[c].at = "counted" /\ call[c].who \in Users
        /\ Ends(c) /\ UNCHANGED crashes
    BY <1>2, CallIs DEF Schedule, Phase, OnReminder, Steps
  <2>2. CASE UNCHANGED jobs
    <3>1. /\ call'[c] = Idle
          /\ \A d \in Calls : d # c => call'[d] = call[d]
      BY <1>0, <2>1, IdleIs, CallSet DEF Ends
    <3> QED BY <1>1, <2>1, <2>2, <3>1, IdleIs, LinesUntouched DEF Swapping
  <2>3. ASSUME NEW once \in BOOLEAN, Arms(Reminder(call[c].who, once, 0)), Steady
        PROVE  LinesInv'
    <3>1. PICK x : x = Reminder(call[c].who, once, 0) OBVIOUS
    <3>2. /\ x \in JobType /\ x.row = 0 /\ x.of = 0 /\ x.state = "live"
          /\ x.root = Len(jobs) + 1 /\ Arms(x)
      BY <2>1, <2>3, <3>1, ReminderIs
    <3> QED BY <2>1, <2>3, <3>2, LinesScheduled DEF Steady
  <2> QED BY <1>2, <2>2, <2>3 DEF Schedule
<1>3. ASSUME NEW c \in Calls, Swap(c) PROVE LinesInv'
  <2>1. Swapping(c) /\ UNCHANGED crashes BY <1>3 DEF Swap, Swapping, Steps
  <2>2. CASE /\ Live(call[c].old) /\ Steady
             /\ Cancels(call[c].old, "replaced") /\ Ends(c)
    BY <2>1, <2>2, LinesSwapped DEF Steady
  <2>3. CASE Rollback(c)
    BY <2>1, <2>3, LinesRolledBack
  <2>4. CASE (Fails \/ FailsTwice) /\ Ends(c) /\ UNCHANGED jobs
    <3>1. FewerSwaps BY <2>1, <2>4, SwapEnds DEF LinesInv
    <3>2. failures' # 0 BY <2>4 DEF Fails, FailsTwice, Counts
    <3> QED BY <2>4, <3>1, <3>2, LinesAbandoned
  <2> QED BY <1>3, <2>2, <2>3, <2>4 DEF Swap
<1>4. ASSUME NEW u \in Users, NEW c \in Calls, Count(c, u) PROVE LinesInv'
  <2>1. PICK k : k = [Idle EXCEPT !.at = "counted", !.who = u] OBVIOUS
  <2>2. k \in CallType /\ k.at = "counted" BY <2>1 DEF Idle, CallType, People
  <2>3. /\ call'[c] = k /\ ~Open(c) /\ UNCHANGED jobs
        /\ \A d \in Calls : d # c => call'[d] = call[d]
    BY <1>0, <1>4, <2>1, <2>2, CallSet DEF Count, Begins
  <2> QED BY <1>1, <2>2, <2>3, LinesUntouched DEF Swapping, Open
<1>5. ASSUME NEW u \in Users, NEW c \in Calls, NEW j \in Ids, Replace(c, u, j)
      PROVE  LinesInv'
  <2>1. PICK x : x = Reminder(u, jobs[j].once, j) OBVIOUS
  <2>2. jobs[j] \in JobType /\ j \in Nat /\ j # 0
    BY <1>0, ElementOfSeq DEF Typed, Ids
  <2>3. jobs[j].row = 0 /\ ~Open(c) /\ UNCHANGED <<failures, crashes>>
    BY <1>5 DEF Replace, Created, IsReminder, Begins, Steady
  <2>4. jobs[j].once \in BOOLEAN BY <2>2 DEF JobType
  <2>5. /\ x \in JobType /\ x.row = 0 /\ x.of = j /\ x.state = "live"
        /\ x.root = jobs[j].root /\ Arms(x)
    BY <1>5, <2>1, <2>2, <2>4, ReminderIs DEF Replace
  <2>6. PICK n \in Nat : n = Len(jobs) + 1 BY <1>0
  <2>7. PICK k : k = [Idle EXCEPT !.at = "swapping", !.who = u, !.old = j,
                                  !.new = n]
    OBVIOUS
  <2>8. /\ k \in CallType /\ k.at = "swapping" /\ k.old = j /\ k.new = n
        /\ Goes(c, k)
    BY <1>5, <2>2, <2>6, <2>7 DEF Idle, CallType, People, Replace
  <2> QED BY <2>3, <2>5, <2>6, <2>8, LinesReplacing
<1>6. ASSUME NEW j \in Ids, NEW how \in {"over", "dropped"}, Cancels(j, how),
             UNCHANGED <<call, failures, crashes>>
      PROVE  LinesInv'
  BY <1>6, LinesEnded
<1>7. ASSUME Crash PROVE LinesInv'
  <2>1. FewerSwaps BY <1>7, IdleIs DEF Crash, FewerSwaps
  <2>2. crashes' # 0 BY <1>7 DEF Crash, Counts
  <2> QED BY <1>7, <2>1, <2>2, LinesAbandoned DEF Crash
<1> QED BY <1>2, <1>3, <1>4, <1>5, <1>6, <1>7
        DEF SchedulesNext, CancelTask, Returned, Drop, env

LEMMA LinesAlways ==
    ASSUME Base, Counts, LinesInv, [Next]_vars
    PROVE  LinesInv'
<1>1. Base' /\ JobsKept /\ Final BY BaseStep, Platform
<1>2. Faults
  BY ReminderCounts, AutomationCounts
     DEF Next, vars, env, GoingOn, Beginning, Faults
<1>3. ASSUME NEW c \in Calls, Tinkers(c) PROVE LinesInv'
  <2>1. \A d \in Calls : \/ call'[d] = call[d]
                         \/ ~Swapping(d) /\ ~Swapping(d)'
    BY <1>3 DEF Tinkers, Swapping
  <2> QED BY <1>1, <1>2, <1>3, <2>1, LinesUntouched DEF Tinkers
<1>4. ASSUME NEW c \in Calls, UNCHANGED jobs, ~Swapping(c), ~Swapping(c)',
             \A d \in Calls : d # c => call'[d] = call[d]
      PROVE  LinesInv'
  BY <1>1, <1>2, <1>4, Untouching, LinesUntouched
<1>5. ASSUME NEW c \in Calls, Resolved(c) PROVE LinesInv'
  <2>1. ~Swapping(c) BY <1>5 DEF Resolved, Swapping
  <2>2. CASE Ends(c) /\ UNCHANGED <<jobs, rows>>
    <3>1. call'[c] = Idle /\ \A d \in Calls : d # c => call'[d] = call[d]
      BY <2>2, IdleIs, CallSet DEF Ends, Base
    <3> QED BY <1>4, <2>1, <2>2, <3>1, IdleIs DEF Swapping
  <2>3. ASSUME NEW k \in CallType, Adds1(c, k) PROVE LinesInv'
    BY <1>4, <2>1, <2>3 DEF Adds1, Swapping
  <2> QED BY <1>3, <1>5, <2>2, <2>3, Effects
<1>6. ASSUME NEW c \in Calls, NEW u \in Users, NEW on \in BOOLEAN,
             NEW dm \in BOOLEAN, Create(c, u, on, dm)
      PROVE  LinesInv'
  <2>1. ~Swapping(c) BY <1>6 DEF Create, Begins, Open, Swapping
  <2>2. ASSUME NEW k \in CallType, Adds1(c, k) PROVE LinesInv'
    BY <1>4, <2>1, <2>2 DEF Adds1, Swapping
  <2>3. ASSUME NEW q \in CallType, Goes(c, q), q.at = "resolving", UNCHANGED jobs
        PROVE  LinesInv'
    <3>1. call'[c] = q /\ \A d \in Calls : d # c => call'[d] = call[d]
      BY <2>3, CallSet DEF Base
    <3> QED BY <1>4, <2>1, <2>3, <3>1 DEF Swapping
  <2> QED BY <1>6, <2>2, <2>3, Effects
<1>7. CASE SchedulesNext /\ UNCHANGED <<rows, disturbed>>
  BY <1>1, <1>2, <1>7, ReminderLines
<1>8. CASE UNCHANGED vars
  BY <1>1, <1>2, <1>8, Untouching, LinesUntouched DEF vars
<1> QED BY <1>3, <1>5, <1>6, <1>7, <1>8, Effects DEF Next

LEMMA LinesInit == Init => LinesInv
<1> SUFFICES ASSUME Init PROVE LinesInv OBVIOUS
<1>1. \A c \in Calls : ~Swapping(c)
  BY IdleIs DEF Init, SchedulesInit, Swapping
<1>2. Ids = {} BY DEF Init, SchedulesInit, Ids
<1> QED BY <1>1, <1>2 DEF LinesInv, Pairs, Headed, Once

LEMMA SetOfOne ==
    ASSUME NEW S, \A x, y \in S : x = y
    PROVE  Cardinality(S) <= 1
<1>1. CASE S = {} BY <1>1, FS_EmptySet
<1>2. ASSUME NEW x \in S PROVE Cardinality(S) <= 1
  <2>1. S = {x} BY <1>2
  <2> QED BY <2>1, FS_Singleton
<1> QED BY <1>1, <1>2

\* However replacements, cancellations and runs overlap (scheduling.ts:262-285),
\* a reminder is replaced by at most one other, unless a rollback fails or the
\* object is evicted halfway; and whatever fails, of every line one is scheduled
\* until somebody cancels it or it runs.
THEOREM OneEnd == Spec => []OneOfEachLine
<1>1. Base /\ LinesInv => OneOfEachLine
  <2> SUFFICES ASSUME Base, LinesInv PROVE OneOfEachLine OBVIOUS
  <2>1. ASSUME NEW j \in Ids, NEW i \in Successors(j)
        PROVE  i \in Ids /\ Follows(i, j)
    <3>1. /\ i \in Ids /\ jobs[i].of = j /\ Live(i)
          /\ \A c \in Calls : call[c].new # i
      BY <2>1 DEF Successors
    <3>2. j # 0 BY LenIsNat DEF Base, Ids
    <3>3. jobs[i].row = 0 BY <3>1, <3>2 DEF Base, JobOK
    <3> QED BY <3>1, <3>3, FreshIsNew DEF Follows, Live
  <2>2. ReplacedOnce
    <3> SUFFICES ASSUME failures = 0, crashes = 0, NEW j \in Ids
        PROVE  /\ Cardinality(Successors(j)) <= 1
               /\ Successors(j) # {} => jobs[j].state = "replaced"
      BY DEF ReplacedOnce
    <3>1. \A h, i \in Successors(j) : h = i BY <2>1 DEF LinesInv, Once
    <3>2. Successors(j) # {} => jobs[j].state = "replaced"
      BY <2>1 DEF LinesInv, Once
    <3> QED BY <3>1, <3>2, SetOfOne
  <2>3. NeverLost BY DEF NeverLost, IsReminder, LinesInv, Headed, Tip
  <2> QED BY <2>2, <2>3 DEF OneOfEachLine
<1>2. Base /\ Counts /\ LinesInv /\ [Next]_vars => Base' /\ Counts' /\ LinesInv'
  BY BaseStep, CountsStep, LinesAlways
<1> QED BY <1>1, <1>2, BaseInit, CountsInit, LinesInit, PTL DEF Spec

-----------------------------------------------------------------------------
(* The schedules of the automations *)

Ending == {"clearing", "unwinding", "removing"}
Owns(k) == k.new # 0 /\ k.row # 0

\* A schedule that a call has made for an automation is there until that call
\* takes it back, and nobody else knows of it.
Own ==
    \A c \in Calls : Owns(call[c]) =>
       /\ \A d \in Calls : /\ call[d].old # call[c].new
                           /\ call[d].new = call[c].new => d = c
       /\ \A r \in RowIds : rows[r].sid # call[c].new
       /\ call[c].at = "unwinding" => jobs[call[c].new].state # "live"
       /\ call[c].at # "unwinding" =>
             jobs[call[c].new].state \in {"live", "dropped"}

\* What EnabledHasJob says of one automation.
Served(r) ==
    There(r) /\ rows[r].sid # 0 =>
       \/ jobs[rows[r].sid].state \in {"live", "dropped"}
       \/ \E c \in Calls : call[c].row = r /\ call[c].at \in Ending

\* What NoOrphanJob says of it, and why: the one call that works on it has read
\* what its row names, and has cancelled that before it writes the row.
On(c, r) == Open(c) /\ call[c].row = r
Settled(r) ==
    r \notin disturbed =>
       /\ \A c, d \in Calls : On(c, r) /\ On(d, r) => c = d
       /\ \A c \in Calls : On(c, r) =>
             /\ There(r)
             /\ call[c].at # "removing" => rows[r].sid = call[c].old
             /\ call[c].at \in Ending => ~Live(rows[r].sid)
       /\ Loose(r) \subseteq Named(r)

RowsInv == Own /\ (crashes = 0 => \A r \in RowIds : Served(r) /\ Settled(r))

LEMMA NamesIs ==
    ASSUME Base
    PROVE  /\ \A c \in Calls :
                 /\ call[c].new # 0 =>
                       call[c].new \in Ids /\ jobs[call[c].new].row = call[c].row
                 /\ call[c].old # 0 =>
                       call[c].old \in Ids /\ jobs[call[c].old].row = call[c].row
           /\ \A r \in RowIds : rows[r].sid # 0 =>
                 rows[r].sid \in Ids /\ jobs[rows[r].sid].row = r
           /\ 0 \notin Ids /\ 0 \notin RowIds
<1>0. Typed /\ Len(jobs) \in Nat /\ Len(rows) \in Nat BY LenIsNat DEF Base
<1>1. ASSUME NEW c \in Calls
      PROVE  /\ call[c].new # 0 =>
                   call[c].new \in Ids /\ jobs[call[c].new].row = call[c].row
             /\ call[c].old # 0 =>
                   call[c].old \in Ids /\ jobs[call[c].old].row = call[c].row
  BY <1>0, CallIs DEF Points, CallType, Ids
<1>2. ASSUME NEW r \in RowIds, rows[r].sid # 0
      PROVE  rows[r].sid \in Ids /\ jobs[rows[r].sid].row = r
  <2>1. rows[r] \in AutoType BY <1>0, ElementOfSeq DEF Typed, RowIds
  <2> QED BY <1>0, <1>2, <2>1 DEF Base, RowOK, AutoType, Ids
<1> QED BY <1>0, <1>1, <1>2 DEF Ids, RowIds

\* A step of c, on the automation r alone.
Within(c, r) ==
    /\ \A d \in Calls : d # c => call'[d] = call[d]
    /\ call[c].row \in {0, r} /\ call'[c].row \in {0, r}
    /\ RowIds \subseteq RowIds' /\ RowIds' \subseteq RowIds \cup {r}
    /\ \A q \in RowIds : q # r => rows'[q] = rows[q]
    /\ \A j \in Ids : jobs[j].row # r => jobs'[j] = jobs[j]
    /\ \A j \in Ids' : j \notin Ids => jobs'[j].row = r
    /\ disturbed \subseteq disturbed'

LEMMA OtherRows ==
    ASSUME Base, Base', JobsKept, NEW c \in Calls, NEW r, Within(c, r),
           NEW q \in RowIds, q # r
    PROVE  /\ Served(q) => Served(q)'
           /\ Settled(q) => Settled(q)'
<1>0. /\ q \in RowIds' /\ rows'[q] = rows[q] /\ q # 0
      /\ There(q)' <=> There(q)
  BY NamesIs DEF Within, There
<1>1. /\ \A d \in Calls : On(d, q)' <=> On(d, q)
      /\ \A d \in Calls : On(d, q) \/ call[d].row = q => call'[d] = call[d]
  BY <1>0 DEF On, Open, Within
<1>2. rows[q].sid # 0 =>
         /\ rows[q].sid \in Ids /\ rows[q].sid \in Ids'
         /\ jobs'[rows[q].sid] = jobs[rows[q].sid]
  <2>1. Ids \subseteq Ids'
    BY LenIsNat DEF JobsKept, Ids, Base
  <2> QED BY <2>1, NamesIs DEF Within
<1>3. Live(rows[q].sid)' <=> Live(rows[q].sid)
  <2>1. 0 \notin Ids /\ 0 \notin Ids' BY LenIsNat DEF Ids, Base
  <2> QED BY <1>0, <1>2, <2>1 DEF Live
<1>4. Served(q) => Served(q)' BY <1>0, <1>1, <1>2 DEF Served
<1>5. Loose(q)' \subseteq Loose(q)
  <2> SUFFICES ASSUME NEW j \in Loose(q)' PROVE j \in Loose(q) OBVIOUS
  <2>1. /\ j \in Ids' /\ jobs'[j].state = "live" /\ jobs'[j].row = q
        /\ \A d \in Calls : call'[d].new # j
    BY DEF Loose, Live
  <2>2. j \in Ids BY <2>1 DEF Within
  <2>3. jobs[j].row = q /\ jobs'[j] = jobs[j]
    BY <2>1, <2>2 DEF Within, JobsKept
  <2>4. ASSUME NEW d \in Calls PROVE call[d].new # j
    <3>1. CASE d # c BY <2>1, <3>1 DEF Within
    <3>2. CASE d = c
      <4>1. j # 0 /\ call[c].row # q BY <2>2, <1>0, NamesIs DEF Within
      <4> QED BY <2>3, <3>2, <4>1, NamesIs
    <3> QED BY <3>1, <3>2
  <2> QED BY <2>1, <2>2, <2>3, <2>4 DEF Loose, Live
<1>6. Named(q)' = Named(q) BY <1>0 DEF Named
<1>7. Settled(q) => Settled(q)'
  <2> SUFFICES ASSUME Settled(q), q \notin disturbed'
      PROVE  /\ \A b, d \in Calls : On(b, q)' /\ On(d, q)' => b = d
             /\ \A d \in Calls : On(d, q)' =>
                   /\ There(q)'
                   /\ call'[d].at # "removing" => rows'[q].sid = call'[d].old
                   /\ call'[d].at \in Ending => ~Live(rows[q].sid)'
             /\ Loose(q)' \subseteq Named(q)'
    BY DEF Settled
  <2>1. q \notin disturbed BY DEF Within
  <2> QED BY <1>0, <1>1, <1>3, <1>5, <1>6, <2>1 DEF Settled
<1> QED BY <1>4, <1>7

LEMMA RowsStep ==
    ASSUME Base, Base', JobsKept, RowsInv, NEW c \in Calls, NEW r, Within(c, r),
           Own', crashes' = 0 => crashes = 0,
           r \in RowIds' /\ crashes = 0 => Served(r)' /\ Settled(r)'
    PROVE  RowsInv'
<1>1. ASSUME NEW q \in RowIds', crashes' = 0 PROVE Served(q)' /\ Settled(q)'
  <2>1. CASE q = r BY <1>1, <2>1
  <2>2. CASE q # r
    <3>1. q \in RowIds BY <2>2 DEF Within
    <3> QED BY <1>1, <2>2, <3>1, OtherRows DEF RowsInv
  <2> QED BY <2>1, <2>2
<1> QED BY <1>1 DEF RowsInv

\* What c and the rows name: what they did, or what c had made.
Naming(c, j) == j = 0 \/ j = call[c].old \/ \E q \in RowIds : j = rows[q].sid
Holds(c) ==
    /\ \A d \in Calls : d # c => call'[d] = call[d]
    /\ call'[c].new \in {0, call[c].new} /\ Naming(c, call'[c].old)
    /\ \A q \in RowIds' :
          \/ Naming(c, rows'[q].sid)
          \/ rows'[q].sid = call[c].new /\ call'[c].new = 0
    /\ \A j \in Ids : \/ jobs'[j].state = jobs[j].state
                      \/ Naming(c, j) \/ j = call[c].new

LEMMA OwnKept ==
    ASSUME Base, Base', JobsKept, Own, NEW c \in Calls, Holds(c),
           Owns(call[c]) /\ call'[c].new # 0 =>
              /\ call'[c].at = "unwinding" => jobs'[call[c].new].state # "live"
              /\ call'[c].at # "unwinding" =>
                    jobs'[call[c].new].state \in {"live", "dropped"}
    PROVE  Own'
<1> SUFFICES ASSUME NEW d \in Calls, call'[d].new # 0, call'[d].row # 0
    PROVE  /\ \A e \in Calls : /\ call'[e].old # call'[d].new
                               /\ call'[e].new = call'[d].new => e = d
           /\ \A r \in RowIds' : rows'[r].sid # call'[d].new
           /\ call'[d].at = "unwinding" => jobs'[call'[d].new].state # "live"
           /\ call'[d].at # "unwinding" =>
                 jobs'[call'[d].new].state \in {"live", "dropped"}
  BY DEF Own, Owns
<1>1. /\ call[d].new = call'[d].new /\ call[d].new # 0
      /\ call[d].new \in Ids /\ jobs[call[d].new].row = call[d].row
  BY NamesIs DEF Holds
<1>2. call[d].row # 0
  <2>1. jobs'[call'[d].new].row = call'[d].row
    BY DEF Base, Points
  <2> QED BY <1>1, <2>1 DEF JobsKept
<1>3. /\ \A e \in Calls : /\ call[e].old # call[d].new
                          /\ call[e].new = call[d].new => e = d
      /\ \A r \in RowIds : rows[r].sid # call[d].new
      /\ call[d].at = "unwinding" => jobs[call[d].new].state # "live"
      /\ call[d].at # "unwinding" =>
            jobs[call[d].new].state \in {"live", "dropped"}
  BY <1>1, <1>2 DEF Own, Owns
<1>4. ~Naming(c, call[d].new) BY <1>1, <1>3 DEF Naming
<1>5. ASSUME NEW e \in Calls
      PROVE  /\ call'[e].old # call'[d].new
             /\ call'[e].new = call'[d].new => e = d
  BY <1>1, <1>3, <1>4 DEF Holds
<1>6. ASSUME NEW r \in RowIds' PROVE rows'[r].sid # call'[d].new
  <2>1. CASE Naming(c, rows'[r].sid) BY <1>1, <1>4, <2>1
  <2>2. CASE rows'[r].sid = call[c].new /\ call'[c].new = 0
    BY <1>1, <1>3, <2>2
  <2> QED BY <2>1, <2>2 DEF Holds
<1>7. /\ call'[d].at = "unwinding" => jobs'[call'[d].new].state # "live"
      /\ call'[d].at # "unwinding" =>
            jobs'[call'[d].new].state \in {"live", "dropped"}
  <2>1. CASE d = c BY <1>1, <1>2, <2>1 DEF Owns
  <2>2. CASE d # c
    <3>1. jobs'[call[d].new].state = jobs[call[d].new].state
      BY <1>1, <1>3, <1>4, <2>2 DEF Holds
    <3> QED BY <1>1, <1>3, <2>2, <3>1 DEF Holds
  <2> QED BY <2>1, <2>2
<1> QED BY <1>5, <1>6, <1>7

\* The call on a row, and that it has read what the row names.
Alone(c, k) ==
    crashes = 0 /\ k.row \notin disturbed' =>
       /\ There(k.row) /\ rows[k.row].sid = k.old
       /\ \A d \in Calls : On(d, k.row) => d = c

\* A call on r goes on to another await, or begins with one.
LEMMA RowGoes ==
    ASSUME Base, Base', RowsInv, NEW c \in Calls, NEW k \in CallType, Goes(c, k),
           k.row \in RowIds, k.new = 0, call[c].new = 0,
           call[c].at \notin Ending, k.at \notin Ending,
           call[c].row \in {0, k.row}, Naming(c, k.old), Alone(c, k),
           UNCHANGED <<jobs, rows, crashes>>, disturbed \subseteq disturbed'
    PROVE  RowsInv'
<1>0. Typed /\ JobsKept BY NothingRemoved DEF Base
<1>1. PICK r : r = k.row OBVIOUS
<1>2. /\ call'[c] = k
      /\ \A d \in Calls : d # c => call'[d] = call[d]
  BY <1>0, CallSet
<1>3. Within(c, r) BY <1>1, <1>2 DEF Within, RowIds, Ids
<1>4. Own'
  <2>1. Holds(c)
    BY <1>2 DEF Holds, Naming, RowIds
  <2> QED BY <1>0, <2>1, OwnKept DEF RowsInv, Owns
<1>5. ASSUME crashes = 0 PROVE Served(r)'
  <2>1. Served(r) BY <1>1, <1>5 DEF RowsInv
  <2> QED BY <1>2, <2>1 DEF Served, There, RowIds
<1>6. ASSUME crashes = 0 PROVE Settled(r)'
  <2> SUFFICES ASSUME r \notin disturbed'
      PROVE  /\ \A b, d \in Calls : On(b, r)' /\ On(d, r)' => b = d
             /\ \A d \in Calls : On(d, r)' =>
                   /\ There(r)'
                   /\ call'[d].at # "removing" => rows'[r].sid = call'[d].old
                   /\ call'[d].at \in Ending => ~Live(rows[r].sid)'
             /\ Loose(r)' \subseteq Named(r)'
    BY DEF Settled
  <2>1. /\ There(r) /\ rows[r].sid = k.old
        /\ \A d \in Calls : On(d, r) => d = c
    BY <1>1, <1>6 DEF Alone
  <2>2. There(r)' BY <2>1 DEF There, RowIds
  <2>3. \A d \in Calls : On(d, r)' => d = c BY <1>2, <2>1 DEF On, Open
  <2>4. Loose(r) \subseteq Named(r) BY <1>1, <1>6 DEF RowsInv, Settled
  <2>5. Loose(r)' \subseteq Loose(r)
    <3>1. \A j \in Ids : (\A d \in Calls : call'[d].new # j) =>
                          \A d \in Calls : call[d].new # j
      BY <1>2, NamesIs
    <3> QED BY <3>1 DEF Loose, Live, Ids
  <2>6. Named(r)' = Named(r) BY DEF Named, There, RowIds
  <2> QED BY <1>2, <2>1, <2>2, <2>3, <2>4, <2>5, <2>6
<1> QED BY <1>0, <1>3, <1>4, <1>5, <1>6, RowsStep

\* Where nothing is scheduled for r but what c has made and taken back, the row
\* may be cleared or deleted.
LEMMA RowCleared ==
    ASSUME Base, Base', RowsInv, NEW c \in Calls, NEW r \in Nat, r # 0,
           rows' = Without(r) \/ rows' = Unarmed(r), call'[c] = Idle,
           \A d \in Calls : d # c => call'[d] = call[d],
           call[c].row \in {0, r}, UNCHANGED <<jobs, crashes>>,
           disturbed \subseteq disturbed', ~Live(call[c].new),
           crashes = 0 /\ r \notin disturbed' =>
              /\ ~Live(rows[r].sid)
              /\ \A d \in Calls : On(d, r) => d = c
    PROVE  RowsInv'
<1>0. Typed /\ JobsKept BY NothingRemoved DEF Base
<1>1. /\ Len(rows') = Len(rows) /\ RowIds' = RowIds
      /\ \A q \in RowIds : q # r => rows'[q] = rows[q]
      /\ \A q \in RowIds : rows'[q].sid \in {0, rows[q].sid}
      /\ r \in RowIds => rows'[r].there = FALSE \/ rows'[r].sid = 0
  <2>0. rows \in [RowIds -> AutoType]
    BY <1>0, LenProperties DEF Typed, RowIds
  <2>1. CASE rows' = Without(r)
    BY <1>0, <2>0, <2>1, WithoutIs DEF RowIds, AutoType
  <2>2. CASE rows' = Unarmed(r)
    <3>1. /\ Len(rows') = Len(rows)
          /\ \A q \in RowIds : q # r \/ ~There(q) => rows'[q] = rows[q]
          /\ There(r) => rows'[r].sid = 0
      BY <1>0, <2>2, UnarmedIs
    <3>2. r \in RowIds /\ ~There(r) => rows'[r].there = FALSE
      BY <2>0, <3>1 DEF There, AutoType
    <3> QED BY <3>1, <3>2 DEF RowIds
  <2> QED BY <2>1, <2>2
<1>2. /\ call'[c].at = "idle" /\ call'[c].new = 0 /\ call'[c].old = 0
      /\ call'[c].row = 0
  BY IdleIs
<1>3. Within(c, r) BY <1>1, <1>2 DEF Within, Ids
<1>4. Own'
  <2>1. Holds(c)
    BY <1>1, <1>2 DEF Holds, Naming
  <2> QED BY <1>0, <1>2, <2>1, OwnKept DEF RowsInv
<1>5. ASSUME r \in RowIds' PROVE Served(r)'
  BY <1>1, <1>5 DEF Served, There
<1>6. ASSUME crashes = 0, r \in RowIds' PROVE Settled(r)'
  <2> SUFFICES ASSUME r \notin disturbed'
      PROVE  (\A d \in Calls : ~On(d, r)') /\ Loose(r)' = {}
    BY DEF Settled
  <2>1. ~Live(rows[r].sid) /\ \A d \in Calls : On(d, r) => d = c
    BY <1>6
  <2>2. \A d \in Calls : ~On(d, r)' BY <1>2, <2>1 DEF On, Open
  <2>3. Loose(r) \subseteq Named(r) BY <1>1, <1>6 DEF RowsInv, Settled
  <2>4. ASSUME NEW j \in Loose(r)' PROVE FALSE
    <3>1. Live(j) /\ j \in Ids /\ jobs[j].row = r BY <2>4 DEF Loose, Live, Ids
    <3>2. j # call[c].new BY <3>1
    <3>3. \A d \in Calls : call[d].new # j BY <2>4, <3>2 DEF Loose
    <3>4. j \in Loose(r) BY <3>1, <3>3 DEF Loose
    <3>5. j = rows[r].sid BY <2>3, <3>4 DEF Named
    <3> QED BY <2>1, <3>1, <3>5
  <2> QED BY <2>2, <2>4
<1> QED BY <1>0, <1>3, <1>4, <1>5, <1>6, RowsStep

\* The row names what c has made for it.
LEMMA RowNamed ==
    ASSUME Base, Base', RowsInv, NEW c \in Calls, NEW k \in CallType, Ready(k),
           rows' = Written(k), call'[c] = Idle,
           \A d \in Calls : d # c => call'[d] = call[d],
           k.new = call[c].new, call[c].row \in {0, k.row},
           call[c].at # "unwinding", UNCHANGED <<jobs, crashes>>,
           disturbed \subseteq disturbed', Alone(c, k),
           crashes = 0 /\ k.row \notin disturbed' => ~Live(k.old)
    PROVE  RowsInv'
<1>0. Typed /\ JobsKept BY NothingRemoved DEF Base
<1>1. PICK r, n : r = k.row /\ n = k.new OBVIOUS
<1>2. /\ Len(rows') = Len(rows) /\ RowIds' = RowIds
      /\ \A q \in RowIds : q # r \/ ~There(q) => rows'[q] = rows[q]
      /\ There(r) => rows'[r].sid = n
      /\ \A q \in RowIds : rows'[q].there = rows[q].there
  BY <1>0, <1>1, WrittenIs DEF RowIds
<1>3. /\ call'[c].at = "idle" /\ call'[c].new = 0 /\ call'[c].old = 0
      /\ call'[c].row = 0
  BY IdleIs
<1>4. Within(c, r) BY <1>1, <1>2, <1>3 DEF Within, Ids
<1>5. Own'
  <2>1. Holds(c)
    <3>1. \A q \in RowIds : rows'[q].sid \in {n, rows[q].sid}
      BY <1>2 DEF There
    <3> QED BY <1>1, <1>2, <1>3, <3>1 DEF Holds, Naming
  <2> QED BY <1>0, <1>3, <2>1, OwnKept DEF RowsInv
<1>6. n # 0 => jobs[n].state \in {"live", "dropped"}
  <2>1. n # 0 => Owns(call[c])
    <3>1. r # 0 BY <1>1 DEF Ready, Sets
    <3>2. n # 0 => jobs[n].row = r BY <1>1 DEF Ready, Points
    <3> QED BY <1>1, <3>1, <3>2, NamesIs DEF Owns
  <2> QED BY <1>1, <2>1 DEF RowsInv, Own
<1>7. ASSUME r \in RowIds' PROVE Served(r)'
  BY <1>2, <1>6, <1>7 DEF Served, There
<1>8. ASSUME crashes = 0, r \in RowIds' PROVE Settled(r)'
  <2> SUFFICES ASSUME r \notin disturbed'
      PROVE  (\A d \in Calls : ~On(d, r)') /\ Loose(r)' \subseteq Named(r)'
    BY DEF Settled
  <2>1. /\ There(r) /\ rows[r].sid = k.old /\ ~Live(k.old)
        /\ \A d \in Calls : On(d, r) => d = c
    BY <1>1, <1>8 DEF Alone
  <2>2. \A d \in Calls : ~On(d, r)' BY <1>3, <2>1 DEF On, Open
  <2>3. Loose(r) \subseteq Named(r) BY <1>2, <1>8 DEF RowsInv, Settled
  <2>4. Named(r)' = {n} BY <1>2, <2>1 DEF Named, There
  <2>5. ASSUME NEW j \in Loose(r)', j # n PROVE FALSE
    <3>1. Live(j) /\ j \in Ids /\ jobs[j].row = r BY <2>5 DEF Loose, Live, Ids
    <3>2. \A d \in Calls : call[d].new # j BY <1>1, <2>5 DEF Loose
    <3>3. j \in Loose(r) BY <3>1, <3>2 DEF Loose
    <3>4. j = rows[r].sid BY <2>1, <2>3, <3>3 DEF Named
    <3> QED BY <2>1, <3>1, <3>4
  <2> QED BY <2>2, <2>4, <2>5
<1> QED BY <1>0, <1>4, <1>5, <1>7, <1>8, RowsStep

\* A schedule of r is cancelled, and c awaits the answer.
LEMMA RowCancels ==
    ASSUME Base, Base', RowsInv, NEW c \in Calls, NEW k \in CallType,
           NEW i \in Nat, NEW how \in States \ {"live"}, Cancels(i, how),
           Goes(c, k), UNCHANGED <<rows, crashes>>, disturbed \subseteq disturbed',
           k.row \in RowIds, k.at \in Ending, call[c].row \in {0, k.row},
           k.new \in {0, call[c].new}, ~Live(call[c].new) \/ k.new = call[c].new,
           Naming(c, k.old), i # 0 => i \in Ids /\ jobs[i].row = k.row,
           k.at = "unwinding" => i = call[c].new,
           k.at # "unwinding" => Naming(c, i) /\ call[c].at # "unwinding",
           crashes = 0 /\ k.row \notin disturbed' =>
              /\ There(k.row)
              /\ k.at # "removing" => rows[k.row].sid = k.old
              /\ Live(rows[k.row].sid) => i = rows[k.row].sid
              /\ \A d \in Calls : On(d, k.row) => d = c
    PROVE  RowsInv'
<1>0. Typed /\ how \in States BY DEF Base
<1>1. PICK r : r = k.row OBVIOUS
<1>2. /\ call'[c] = k
      /\ \A d \in Calls : d # c => call'[d] = call[d]
  BY <1>0, CallSet
<1>3. /\ JobsKept /\ Len(jobs') = Len(jobs) /\ Ids' = Ids
      /\ \A j \in Ids :
            /\ j # i => jobs'[j] = jobs[j]
            /\ jobs'[j].state = IF j = i /\ jobs[j].state = "live" THEN how
                                ELSE jobs[j].state
  BY <1>0, Removal DEF Ids
<1>4. RowIds' = RowIds BY DEF RowIds
<1>5. Within(c, r)
  BY <1>1, <1>2, <1>3, <1>4, NamesIs DEF Within
<1>6. Own'
  <2>1. Holds(c)
    <3>1. \A j \in Ids : jobs'[j].state = jobs[j].state \/ Naming(c, j)
                         \/ j = call[c].new
      BY <1>3
    <3>2. \A q \in RowIds : Naming(c, rows[q].sid) BY DEF Naming
    <3> QED BY <1>2, <1>4, <3>1, <3>2 DEF Holds
  <2>2. ASSUME Owns(call[c]), call'[c].new # 0
        PROVE  /\ call'[c].at = "unwinding" => jobs'[call[c].new].state # "live"
               /\ call'[c].at # "unwinding" =>
                     jobs'[call[c].new].state \in {"live", "dropped"}
    <3>1. call[c].new \in Ids BY <2>2, NamesIs DEF Owns
    <3>2. CASE k.at = "unwinding" BY <1>2, <1>3, <3>1, <3>2
    <3>3. CASE k.at # "unwinding"
      <4>1. jobs[call[c].new].state \in {"live", "dropped"}
        BY <2>2, <3>3 DEF RowsInv, Own
      <4>2. i # call[c].new BY <2>2, <3>1, <3>3 DEF RowsInv, Own, Naming, Owns
      <4> QED BY <1>2, <1>3, <3>1, <3>3, <4>1, <4>2
    <3> QED BY <3>2, <3>3
  <2> QED BY <1>3, <2>1, <2>2, OwnKept DEF RowsInv
<1>7. Served(r)' BY <1>1, <1>2 DEF Served
<1>8. ASSUME crashes = 0 PROVE Settled(r)'
  <2> SUFFICES ASSUME r \notin disturbed'
      PROVE  /\ \A b, d \in Calls : On(b, r)' /\ On(d, r)' => b = d
             /\ \A d \in Calls : On(d, r)' =>
                   /\ There(r)'
                   /\ call'[d].at # "removing" => rows'[r].sid = call'[d].old
                   /\ call'[d].at \in Ending => ~Live(rows[r].sid)'
             /\ Loose(r)' \subseteq Named(r)'
    BY DEF Settled
  <2>1. /\ There(r) /\ (k.at # "removing" => rows[r].sid = k.old)
        /\ Live(rows[r].sid) => i = rows[r].sid
        /\ \A d \in Calls : On(d, r) => d = c
    BY <1>1, <1>8
  <2>2. There(r)' BY <2>1 DEF There, RowIds
  <2>3. \A d \in Calls : On(d, r)' => d = c BY <1>2, <2>1 DEF On, Open
  <2>4. ~Live(rows[r].sid)' BY <1>3, <2>1 DEF Live
  <2>5. Loose(r) \subseteq Named(r) BY <1>1, <1>8 DEF RowsInv, Settled
  <2>6. Loose(r)' \subseteq Loose(r)
    <3> SUFFICES ASSUME NEW j \in Loose(r)' PROVE j \in Loose(r) OBVIOUS
    <3>1. /\ j \in Ids /\ jobs'[j].state = "live" /\ jobs'[j].row = r
          /\ \A d \in Calls : call'[d].new # j
      BY <1>3 DEF Loose, Live
    <3>2. Live(j) /\ jobs[j].row = r BY <1>3, <3>1 DEF Live, JobsKept
    <3>3. call[c].new # j BY <1>2, <3>1, <3>2
    <3> QED BY <1>2, <3>1, <3>2, <3>3 DEF Loose
  <2>7. Named(r)' = Named(r) BY DEF Named, There, RowIds
  <2> QED BY <1>2, <2>1, <2>2, <2>3, <2>4, <2>5, <2>6, <2>7
<1> QED BY <1>3, <1>5, <1>6, <1>7, <1>8, RowsStep

\* The call gives up, and cancels what it has made, if anything.
LEMMA RowGivenUp ==
    ASSUME Base, Base', RowsInv, NEW c \in Calls, NEW r \in RowIds,
           Cancels(call[c].new, "undone"), call'[c] = Idle,
           \A d \in Calls : d # c => call'[d] = call[d],
           call[c].row = r \/ (call[c].row = 0 /\ call[c].new = 0),
           call[c].at \notin Ending,
           UNCHANGED <<rows, crashes>>, disturbed \subseteq disturbed',
           crashes = 0 /\ r \notin disturbed' =>
              \A d \in Calls : On(d, r) => d = c
    PROVE  RowsInv'
<1>0. Typed /\ "undone" \in States BY DEF Base, States
<1>1. PICK n : n = call[c].new OBVIOUS
<1>2. n \in Nat /\ (n # 0 => n \in Ids /\ jobs[n].row = call[c].row)
  BY <1>1, CallIs, NamesIs DEF CallType
<1>3. /\ JobsKept /\ Len(jobs') = Len(jobs) /\ Ids' = Ids
      /\ \A j \in Ids :
            /\ j # n => jobs'[j] = jobs[j]
            /\ jobs'[j].state = IF j = n /\ jobs[j].state = "live" THEN "undone"
                                ELSE jobs[j].state
  BY <1>0, <1>1, <1>2, Removal DEF Ids
<1>4. RowIds' = RowIds /\ 0 \notin RowIds BY NamesIs DEF RowIds
<1>5. /\ call'[c].at = "idle" /\ call'[c].new = 0 /\ call'[c].old = 0
      /\ call'[c].row = 0
  BY IdleIs
<1>11. \A j \in Ids : jobs[j].row # r => jobs'[j] = jobs[j]
  <2>1. n = 0 \/ jobs[n].row = r BY <1>1, <1>2
  <2>2. 0 \notin Ids BY NamesIs
  <2> QED BY <1>3, <2>1, <2>2
<1>6. Within(c, r) BY <1>3, <1>4, <1>5, <1>11 DEF Within
<1>7. Own'
  <2>1. Holds(c)
    <3>1. \A j \in Ids : jobs'[j].state = jobs[j].state \/ j = n BY <1>3
    <3>2. \A q \in RowIds : Naming(c, rows[q].sid) BY DEF Naming
    <3> QED BY <1>1, <1>4, <1>5, <3>1, <3>2 DEF Holds, Naming
  <2> QED BY <1>3, <1>5, <2>1, OwnKept DEF RowsInv
<1>8. ASSUME crashes = 0 PROVE Served(r)'
  <2> SUFFICES ASSUME There(r), rows[r].sid # 0
      PROVE  \/ jobs'[rows[r].sid].state \in {"live", "dropped"}
             \/ \E d \in Calls : call'[d].row = r /\ call'[d].at \in Ending
    BY DEF Served, There, RowIds
  <2>1. \/ jobs[rows[r].sid].state \in {"live", "dropped"}
        \/ \E d \in Calls : call[d].row = r /\ call[d].at \in Ending
    BY <1>8 DEF RowsInv, Served
  <2>2. rows[r].sid \in Ids /\ jobs[rows[r].sid].row = r BY NamesIs
  <2>3. rows[r].sid # n
    <3>1. rows[r].sid = n => Owns(call[c])
      BY <1>1, <1>2, <1>4, <2>2 DEF Owns
    <3> QED BY <1>1, <3>1 DEF RowsInv, Own
  <2> QED BY <1>3, <2>1, <2>2, <2>3
<1>9. ASSUME crashes = 0 PROVE Settled(r)'
  <2> SUFFICES ASSUME r \notin disturbed'
      PROVE  (\A d \in Calls : ~On(d, r)') /\ Loose(r)' \subseteq Named(r)'
    BY DEF Settled
  <2>1. \A d \in Calls : ~On(d, r)' BY <1>5, <1>9 DEF On, Open
  <2>2. Loose(r) \subseteq Named(r) BY <1>9 DEF RowsInv, Settled
  <2>3. Loose(r)' \subseteq Loose(r)
    <3> SUFFICES ASSUME NEW j \in Loose(r)' PROVE j \in Loose(r) OBVIOUS
    <3>1. /\ j \in Ids /\ jobs'[j].state = "live" /\ jobs'[j].row = r
          /\ \A d \in Calls : call'[d].new # j
      BY <1>3 DEF Loose, Live
    <3>2. Live(j) /\ jobs[j].row = r /\ j # n
      BY <1>3, <3>1 DEF Live, JobsKept
    <3> QED BY <1>1, <3>1, <3>2 DEF Loose
  <2>4. Named(r)' = Named(r) BY DEF Named, There, RowIds
  <2> QED BY <2>1, <2>2, <2>3, <2>4
<1> QED BY <1>3, <1>6, <1>7, <1>8, <1>9, RowsStep

LEMMA ReadyRow ==
    ASSUME Base, NEW k \in CallType, Points(k), Sets(k)
    PROVE  /\ k.row \in RowIds /\ k.row \in Nat /\ k.row # 0
           /\ k.old # 0 => k.old \in Ids /\ jobs[k.old].row = k.row
           /\ k.new # 0 => k.new \in Ids /\ jobs[k.new].row = k.row
  BY LenIsNat DEF Base, Points, Sets, CallType, RowIds, Ids

LEMMA CallIdles ==
    ASSUME Base, NEW c \in Calls, Ends(c)
    PROVE  call'[c] = Idle /\ \A d \in Calls : d # c => call'[d] = call[d]
  BY CallSet, IdleIs DEF Base, Ends

\* c works on the automation of k with what k says.
Works(c, k) ==
    /\ k.new = call[c].new
    /\ call[c].row = k.row \/ (call[c].row = 0 /\ call[c].new = 0)
    /\ Naming(c, k.old) /\ Alone(c, k)
    /\ UNCHANGED crashes /\ disturbed \subseteq disturbed'

LEMMA RowsSave ==
    ASSUME Base, Base', RowsInv, NEW c \in Calls, NEW k \in CallType, Ready(k),
           Works(c, k), Save(c, k), call[c].at \notin {"unwinding", "removing"},
           crashes = 0 /\ k.row \notin disturbed' => ~Live(k.old)
    PROVE  RowsInv'
<1>0. /\ k.row \in RowIds /\ k.row \in Nat /\ k.row # 0
      /\ k.new # 0 => k.new \in Ids /\ jobs[k.new].row = k.row
      /\ call[c].row \in {0, k.row}
  BY ReadyRow DEF Ready, Works
<1>1. CASE rows' = Written(k) /\ Ends(c) /\ UNCHANGED jobs
  BY <1>0, <1>1, CallIdles, RowNamed DEF Works
<1>2. CASE /\ k.new # 0 /\ Cancels(k.new, "undone")
           /\ Goes(c, [k EXCEPT !.at = "unwinding"]) /\ UNCHANGED rows
  <2>1. PICK q : q = [k EXCEPT !.at = "unwinding"] OBVIOUS
  <2>2. /\ q \in CallType /\ q.at = "unwinding" /\ q.old = k.old
        /\ q.new = k.new /\ q.row = k.row /\ Goes(c, q)
    BY <1>2, <2>1, At
  <2>3. /\ k.new \in Nat /\ "undone" \in States \ {"live"} /\ q.at \in Ending
        /\ q.at # "removing"
    BY <2>2 DEF CallType, States, Ending
  <2>4. crashes = 0 /\ q.row \notin disturbed' =>
           /\ There(q.row) /\ rows[q.row].sid = q.old
           /\ ~Live(rows[q.row].sid)
           /\ \A d \in Calls : On(d, q.row) => d = c
    BY <2>2 DEF Works, Alone
  <2> QED BY <1>0, <1>2, <2>2, <2>3, <2>4, RowCancels DEF Works
<1>3. CASE k.new = 0 /\ rows' = Unarmed(k.row) /\ Ends(c) /\ UNCHANGED jobs
  <2>1. ~Live(call[c].new) BY <1>3, NamesIs DEF Works, Live
  <2> QED BY <1>0, <1>3, <2>1, CallIdles, RowCleared DEF Works, Alone
<1> QED BY <1>1, <1>2, <1>3 DEF Save

LEMMA RowsClear ==
    ASSUME Base, Base', RowsInv, NEW c \in Calls, NEW k \in CallType, Ready(k),
           Works(c, k), Clear(c, k), call[c].at \notin Ending
    PROVE  RowsInv'
<1>0. /\ k.row \in RowIds /\ k.row \in Nat /\ k.row # 0
      /\ k.old # 0 => k.old \in Ids /\ jobs[k.old].row = k.row
      /\ call[c].row \in {0, k.row}
      /\ call[c].at \notin {"unwinding", "removing"}
  BY ReadyRow DEF Ready, Works, Ending
<1>1. CASE k.old = 0 /\ Save(c, k)
  <2>1. ~Live(k.old) BY <1>1, NamesIs DEF Live
  <2> QED BY <1>0, <1>1, <2>1, RowsSave
<1>2. CASE /\ k.old # 0 /\ Cancels(k.old, "replaced")
           /\ Goes(c, [k EXCEPT !.at = "clearing"]) /\ UNCHANGED rows
  <2>1. PICK q : q = [k EXCEPT !.at = "clearing"] OBVIOUS
  <2>2. /\ q \in CallType /\ q.at = "clearing" /\ q.old = k.old
        /\ q.new = k.new /\ q.row = k.row /\ Goes(c, q)
    BY <1>2, <2>1, At
  <2>3. /\ k.old \in Nat /\ "replaced" \in States \ {"live"} /\ q.at \in Ending
        /\ q.at # "removing" /\ q.at # "unwinding"
    BY <2>2 DEF CallType, States, Ending
  <2>4. crashes = 0 /\ q.row \notin disturbed' =>
           /\ There(q.row) /\ rows[q.row].sid = q.old
           /\ rows[q.row].sid = k.old
           /\ \A d \in Calls : On(d, q.row) => d = c
    BY <2>2 DEF Works, Alone
  <2> QED BY <1>0, <1>2, <2>2, <2>3, <2>4, RowCancels DEF Works
<1>3. CASE Cancels(k.new, "undone") /\ Ends(c) /\ UNCHANGED rows
  <2>1. Cancels(call[c].new, "undone") BY <1>3 DEF Works
  <2> QED BY <1>0, <1>3, <2>1, CallIdles, RowGivenUp DEF Works, Alone
<1> QED BY <1>1, <1>2, <1>3 DEF Clear

\* What was settled when c began to work on r is still so.
LEMMA StillAlone ==
    ASSUME Base, RowsInv, NEW c \in Calls, Open(c), call[c].row \in RowIds,
           call[c].at # "removing", NEW k, k.row = call[c].row,
           k.old = call[c].old, disturbed \subseteq disturbed'
    PROVE  /\ Alone(c, k) /\ Naming(c, k.old)
           /\ call[c].at \in Ending =>
                 (crashes = 0 /\ k.row \notin disturbed' => ~Live(k.old))
<1>1. On(c, k.row) BY DEF On
<1>2. ASSUME crashes = 0, k.row \notin disturbed'
      PROVE  /\ There(k.row) /\ rows[k.row].sid = k.old
             /\ \A d \in Calls : On(d, k.row) => d = c
             /\ call[c].at \in Ending => ~Live(k.old)
  BY <1>1, <1>2 DEF RowsInv, Settled
<1> QED BY <1>2 DEF Alone, Naming

\* The schedule is made, beside what the row names.
LEMMA RowArms ==
    ASSUME Base, Base', RowsInv, NEW c \in Calls, NEW k \in CallType,
           NEW x \in JobType, Arms(x), Goes(c, k), call[c].row = k.row,
           call[c].at = "locating", call[c].new = 0, k.row \in RowIds,
           k.at = "arming", k.old = call[c].old, k.new = Len(jobs) + 1,
           x.row = k.row, x.state = "live",
           UNCHANGED <<rows, crashes, disturbed>>
    PROVE  RowsInv'
<1>0. Typed /\ Len(jobs) \in Nat BY LenIsNat DEF Base
<1>1. PICK r : r = k.row OBVIOUS
<1>2. PICK n \in Nat : n = Len(jobs) + 1 BY <1>0
<1>3. /\ call'[c] = k
      /\ \A d \in Calls : d # c => call'[d] = call[d]
  BY <1>0, CallSet
<1>4. /\ JobsKept /\ Ids' = Ids \cup {n} /\ n \notin Ids /\ n # 0
      /\ jobs'[n] = x /\ \A j \in Ids : jobs'[j] = jobs[j]
  <2>1. /\ JobsKept /\ Len(jobs') = n /\ jobs'[n] = x
        /\ \A j \in Ids : jobs'[j] = jobs[j]
    BY <1>0, <1>2, Added
  <2> QED BY <1>0, <1>2, <2>1 DEF Ids
<1>5. RowIds' = RowIds BY DEF RowIds
<1>6. Within(c, r) BY <1>1, <1>3, <1>4, <1>5 DEF Within
<1>7. \A d \in Calls : call[d].new # n /\ call[d].old # n
  BY <1>4, NamesIs
<1>8. \A q \in RowIds : rows[q].sid # n BY <1>4, NamesIs
<1>9. Own'
  <2> SUFFICES ASSUME NEW d \in Calls, call'[d].new # 0, call'[d].row # 0
      PROVE  /\ \A e \in Calls : /\ call'[e].old # call'[d].new
                                 /\ call'[e].new = call'[d].new => e = d
             /\ \A q \in RowIds : rows[q].sid # call'[d].new
             /\ call'[d].at = "unwinding" => jobs'[call'[d].new].state # "live"
             /\ call'[d].at # "unwinding" =>
                   jobs'[call'[d].new].state \in {"live", "dropped"}
    BY <1>5 DEF Own, Owns
  <2>0. \A e \in Calls : call'[e].old = call[e].old BY <1>3
  <2>1. CASE d = c
    BY <1>2, <1>3, <1>4, <1>7, <1>8, <2>0, <2>1
  <2>2. CASE d # c
    <3>1. call'[d] = call[d] /\ call[d].new \in Ids
      BY <1>3, <2>2, NamesIs
    <3>2. /\ \A e \in Calls : /\ call[e].old # call[d].new
                              /\ call[e].new = call[d].new => e = d
          /\ \A q \in RowIds : rows[q].sid # call[d].new
          /\ call[d].at = "unwinding" => jobs[call[d].new].state # "live"
          /\ call[d].at # "unwinding" =>
                jobs[call[d].new].state \in {"live", "dropped"}
      BY <3>1 DEF RowsInv, Own, Owns
    <3>3. ASSUME NEW e \in Calls, call'[e].new = call'[d].new PROVE e = d
      BY <1>2, <1>3, <1>4, <3>1, <3>2, <3>3
    <3>4. jobs'[call'[d].new] = jobs[call[d].new] BY <1>4, <3>1
    <3> QED BY <2>0, <3>1, <3>2, <3>3, <3>4
  <2> QED BY <2>1, <2>2
<1>10. ASSUME crashes = 0 PROVE Served(r)'
  <2>1. Served(r) /\ (There(r)' <=> There(r))
    BY <1>1, <1>10 DEF RowsInv, There, RowIds
  <2>2. rows[r].sid # 0 => jobs'[rows[r].sid] = jobs[rows[r].sid]
    BY <1>1, <1>4, NamesIs
  <2>3. call[c].at \notin Ending BY DEF Ending
  <2> QED BY <1>3, <2>1, <2>2, <2>3 DEF Served
<1>11. ASSUME crashes = 0 PROVE Settled(r)'
  <2> SUFFICES ASSUME r \notin disturbed
      PROVE  /\ \A b, d \in Calls : On(b, r)' /\ On(d, r)' => b = d
             /\ \A d \in Calls : On(d, r)' =>
                   /\ There(r)'
                   /\ call'[d].at # "removing" => rows'[r].sid = call'[d].old
                   /\ call'[d].at \in Ending => ~Live(rows[r].sid)'
             /\ Loose(r)' \subseteq Named(r)'
    BY DEF Settled
  <2>1. On(c, r) BY <1>1 DEF On, Open
  <2>2. /\ There(r) /\ rows[r].sid = k.old
        /\ \A d \in Calls : On(d, r) => d = c
        /\ Loose(r) \subseteq Named(r)
    BY <1>1, <1>11, <2>1 DEF RowsInv, Settled
  <2>3. \A d \in Calls : On(d, r)' => d = c BY <1>3, <2>2 DEF On, Open
  <2>4. There(r)' /\ Named(r)' = Named(r) BY <2>2 DEF There, RowIds, Named
  <2>5. Loose(r)' \subseteq Loose(r)
    <3> SUFFICES ASSUME NEW j \in Loose(r)' PROVE j \in Loose(r) OBVIOUS
    <3>1. /\ j \in Ids' /\ jobs'[j].state = "live" /\ jobs'[j].row = r
          /\ \A d \in Calls : call'[d].new # j
      BY DEF Loose, Live
    <3>2. j # n /\ j \in Ids BY <1>2, <1>3, <1>4, <3>1
    <3>3. Live(j) /\ jobs[j].row = r BY <1>4, <3>1, <3>2 DEF Live
    <3>4. call[c].new # j BY <1>0, <3>2 DEF Ids
    <3> QED BY <1>3, <3>1, <3>2, <3>3, <3>4 DEF Loose
  <2>6. k.at \notin Ending BY DEF Ending
  <2> QED BY <1>3, <2>2, <2>3, <2>4, <2>5, <2>6
<1> QED BY <1>4, <1>6, <1>9, <1>10, <1>11, RowsStep

\* An automation is inserted, disabled.
LEMMA RowInserted ==
    ASSUME Base, Base', RowsInv, NEW c \in Calls, NEW k \in CallType,
           k.who \in Users, k.old = 0, k.new = 0, call[c].row = 0,
           call[c].new = 0, Insert(c, k), UNCHANGED <<crashes, disturbed>>
    PROVE  RowsInv'
<1>0. Typed /\ JobsKept /\ Len(rows) \in Nat
  BY NothingRemoved, LenIsNat DEF Base, Insert
<1>1. PICK r \in Nat : r = Len(rows) + 1 BY <1>0
<1>2. rows' = Append(rows, NewRow(k)) /\ UNCHANGED jobs
  BY DEF Insert, NewRow
<1>3. /\ RowIds' = RowIds \cup {r} /\ r \notin RowIds /\ r # 0
      /\ \A q \in RowIds : rows'[q] = rows[q]
      /\ rows'[r].there /\ rows'[r].sid = 0
  <2>1. /\ Len(rows') = r /\ rows'[r] = NewRow(k)
        /\ \A q \in RowIds : rows'[q] = rows[q]
    BY <1>0, <1>1, <1>2, Inserts
  <2> QED BY <1>0, <1>1, <2>1 DEF RowIds, NewRow
<1>4. PICK q \in CallType :
         /\ Goes(c, q) /\ q.old = 0 /\ q.new = 0 /\ q.row \in {0, r}
         /\ q.at \in {"idle", "locating"} /\ (q.at = "idle" => q.row = 0)
  <2>1. CASE k.on
    <3>1. PICK q : q = [k EXCEPT !.at = "locating", !.row = r] OBVIOUS
    <3>2. /\ q \in CallType /\ q.at = "locating" /\ q.row = r /\ q.old = k.old
          /\ q.new = k.new
      BY <1>1, <3>1 DEF CallType
    <3>3. Goes(c, q) BY <1>1, <2>1, <3>1 DEF Insert
    <3> QED BY <3>2, <3>3
  <2>2. CASE ~k.on BY <2>2, IdleIs DEF Insert
  <2> QED BY <2>1, <2>2
<1>5. /\ call'[c] = q
      /\ \A d \in Calls : d # c => call'[d] = call[d]
  BY <1>0, <1>4, CallSet
<1>6. Within(c, r)
  BY <1>2, <1>3, <1>4, <1>5 DEF Within, Ids
<1>7. Own'
  <2>1. Holds(c)
    BY <1>2, <1>3, <1>4, <1>5 DEF Holds, Naming
  <2> QED BY <1>0, <1>4, <1>5, <2>1, OwnKept DEF RowsInv
<1>8. Served(r)' BY <1>3 DEF Served
<1>9. Settled(r)'
  <2>1. \A d \in Calls : On(d, r)' => d = c
    <3>1. ASSUME NEW d \in Calls, d # c PROVE call[d].row # r
      BY <1>0, <1>1, CallIs DEF Points, CallType
    <3> QED BY <1>5, <3>1 DEF On, Open
  <2>2. There(r)' BY <1>3 DEF There
  <2>3. ASSUME NEW j \in Loose(r)' PROVE FALSE
    <3>1. j \in Ids /\ jobs[j].row = r BY <1>2, <2>3 DEF Loose, Live, Ids
    <3> QED BY <1>0, <1>1, <3>1 DEF Base, JobOK
  <2>4. call'[c].at \notin Ending BY <1>4, <1>5 DEF Ending
  <2> QED BY <1>3, <1>4, <1>5, <2>1, <2>2, <2>3, <2>4 DEF Settled
<1> QED BY <1>0, <1>6, <1>7, <1>8, <1>9, RowsStep

\* Calls on the reminders, and those that only ask.
LEMMA RowsUntouched ==
    ASSUME Base, Base', JobsKept, RowsInv, UNCHANGED <<rows, disturbed>>,
           crashes' = 0 => crashes = 0,
           \A j \in Ids : jobs[j].row # 0 =>
              jobs'[j] = jobs[j] \/ jobs'[j].state = "dropped",
           \A j \in Ids' : j \notin Ids => jobs'[j].row = 0,
           \A c \in Calls : \/ call'[c] = call[c]
                            \/ call[c].row = 0 /\ call'[c].row = 0
    PROVE  RowsInv'
<1>1. RowIds' = RowIds /\ 0 \notin RowIds /\ Ids \subseteq Ids'
  BY NamesIs, LenIsNat, LenProperties DEF RowIds, JobsKept, Ids, Base, Typed
<1>2. Own'
  <2> SUFFICES ASSUME NEW d \in Calls, call'[d].new # 0, call'[d].row # 0
      PROVE  /\ \A e \in Calls : /\ call'[e].old # call'[d].new
                                 /\ call'[e].new = call'[d].new => e = d
             /\ \A q \in RowIds : rows[q].sid # call'[d].new
             /\ call'[d].at = "unwinding" => jobs'[call'[d].new].state # "live"
             /\ call'[d].at # "unwinding" =>
                   jobs'[call'[d].new].state \in {"live", "dropped"}
    BY <1>1 DEF Own, Owns
  <2>1. /\ call'[d] = call[d] /\ call[d].new \in Ids
        /\ jobs[call[d].new].row # 0 /\ jobs'[call[d].new].row # 0
    BY NamesIs DEF JobsKept
  <2>2. /\ \A e \in Calls : /\ call[e].old # call[d].new
                            /\ call[e].new = call[d].new => e = d
        /\ \A q \in RowIds : rows[q].sid # call[d].new
        /\ call[d].at = "unwinding" => jobs[call[d].new].state # "live"
        /\ call[d].at # "unwinding" =>
              jobs[call[d].new].state \in {"live", "dropped"}
    BY <2>1 DEF RowsInv, Own, Owns
  <2>3. ASSUME NEW e \in Calls
        PROVE  /\ call'[e].old # call'[d].new
               /\ call'[e].new = call'[d].new => e = d
    <3>1. CASE call'[e] = call[e] BY <2>1, <2>2, <3>1
    <3>2. CASE call'[e].row = 0
      <4>1. /\ call'[e].old # 0 => jobs'[call'[e].old].row = 0
            /\ call'[e].new # 0 => jobs'[call'[e].new].row = 0
        BY <3>2 DEF Base, Points
      <4> QED BY <2>1, <4>1, NamesIs
    <3> QED BY <3>1, <3>2
  <2> QED BY <2>1, <2>2, <2>3
<1>3. ASSUME NEW r \in RowIds, crashes = 0 PROVE Served(r)' /\ Settled(r)'
  <2>0. Served(r) /\ Settled(r) /\ r # 0 BY <1>1, <1>3 DEF RowsInv
  <2>1. /\ There(r)' <=> There(r)
        /\ Named(r)' = Named(r)
        /\ \A d \in Calls : On(d, r)' <=> On(d, r)
        /\ \A d \in Calls : call[d].row = r => call'[d] = call[d]
    BY <2>0 DEF There, RowIds, Named, On, Open
  <2>2. rows[r].sid # 0 =>
           /\ rows[r].sid \in Ids /\ jobs[rows[r].sid].row # 0
           /\ \/ jobs'[rows[r].sid] = jobs[rows[r].sid]
              \/ jobs'[rows[r].sid].state = "dropped"
    BY <2>0, NamesIs
  <2>3. Live(rows[r].sid)' => Live(rows[r].sid)
    <3>1. 0 \notin Ids' BY LenIsNat DEF Base, Ids
    <3> QED BY <2>2, <3>1 DEF Live
  <2>4. Loose(r)' \subseteq Loose(r)
    <3> SUFFICES ASSUME NEW j \in Loose(r)' PROVE j \in Loose(r) OBVIOUS
    <3>1. /\ j \in Ids' /\ jobs'[j].state = "live" /\ jobs'[j].row = r
          /\ \A d \in Calls : call'[d].new # j
      BY DEF Loose, Live
    <3>2. j \in Ids /\ jobs[j].row = r BY <2>0, <3>1 DEF JobsKept
    <3>3. Live(j) BY <2>0, <3>1, <3>2 DEF Live
    <3>4. ASSUME NEW d \in Calls PROVE call[d].new # j
      <4>1. CASE call'[d] = call[d] BY <3>1, <4>1
      <4>2. CASE call[d].row = 0 BY <2>0, <3>2, <4>2, NamesIs
      <4> QED BY <4>1, <4>2
    <3> QED BY <3>2, <3>3, <3>4 DEF Loose
  <2>5. Served(r)' BY <2>0, <2>1, <2>2 DEF Served
  <2>6. Settled(r)'
    <3>1. ASSUME r \notin disturbed, NEW d \in Calls, On(d, r)'
          PROVE  /\ There(r)'
                 /\ call'[d].at # "removing" => rows'[r].sid = call'[d].old
                 /\ call'[d].at \in Ending => ~Live(rows[r].sid)'
      <4>1. On(d, r) /\ call'[d] = call[d] BY <2>1, <3>1 DEF On
      <4> QED BY <2>0, <2>1, <2>3, <3>1, <4>1 DEF Settled
    <3>2. r \notin disturbed => \A b, d \in Calls : On(b, r)' /\ On(d, r)' => b = d
      BY <2>0, <2>1 DEF Settled
    <3>3. r \notin disturbed => Loose(r)' \subseteq Named(r)'
      BY <2>0, <2>1, <2>4 DEF Settled
    <3> QED BY <3>1, <3>2, <3>3 DEF Settled
  <2> QED BY <2>5, <2>6
<1> QED BY <1>1, <1>2, <1>3 DEF RowsInv

LEMMA RowsResolved ==
    ASSUME Base, Base', RowsInv, NEW c \in Calls, Resolved(c)
    PROVE  RowsInv'
<1>0. /\ Typed /\ call[c].at = "resolving" /\ Open(c)
      /\ call[c].at \notin Ending /\ UNCHANGED <<crashes, disturbed>>
      /\ call[c].new = 0
  BY CallIs DEF Resolved, Steps, Keeps, Open, Ending, Base, Phase, Asks
<1>1. PICK k : k = [call[c] EXCEPT !.to = call[c].who] OBVIOUS
<1>2. /\ k \in CallType /\ k.who \in Users /\ k.who = call[c].who
      /\ k.new = 0 /\ k.row = call[c].row /\ k.old = call[c].old
      /\ k.edit = call[c].edit /\ k.on = call[c].on /\ k.at = call[c].at
      /\ Points(k) /\ (k.edit => Sets(k)) /\ (~k.edit => k.old = 0 /\ k.row = 0)
  <2>1. call[c] \in CallType /\ Phase(call[c]) BY CallIs
  <2>2. /\ call[c].who \in Users /\ call[c].who \in People
        /\ ~call[c].edit => call[c].old = 0 /\ call[c].row = 0
    BY <1>0, <2>1 DEF Phase, Asks, People
  <2>3. /\ k \in CallType /\ k.who = call[c].who
        /\ k.new = call[c].new /\ k.row = call[c].row /\ k.old = call[c].old
        /\ k.edit = call[c].edit /\ k.on = call[c].on /\ k.at = call[c].at
    BY <1>1, <2>1, <2>2 DEF CallType
  <2> QED BY <1>0, <1>1, <2>2, <2>3, ResolvedIs
<1>3. CASE ~k.edit /\ Insert(c, k)
  BY <1>0, <1>2, <1>3, RowInserted
<1>4. ASSUME k.edit
      PROVE  /\ k.row \in RowIds /\ Alone(c, k) /\ Naming(c, k.old)
    BY <1>0, <1>2, <1>4, ReadyRow, StillAlone
<1>5. CASE /\ k.edit /\ k.on /\ Goes(c, [k EXCEPT !.at = "locating"])
           /\ UNCHANGED <<jobs, rows>>
  <2>1. PICK q : q = [k EXCEPT !.at = "locating"] OBVIOUS
  <2>2. /\ q \in CallType /\ q.at = "locating" /\ q.old = k.old
        /\ q.new = k.new /\ q.row = k.row /\ Goes(c, q)
    BY <1>2, <1>5, <2>1, At
  <2>3. Alone(c, q) BY <1>4, <1>5, <2>2 DEF Alone
  <2>4. q.at \notin Ending BY <2>2 DEF Ending
  <2> QED BY <1>0, <1>2, <1>4, <1>5, <2>2, <2>3, <2>4, RowGoes
<1>6. CASE k.edit /\ ~k.on /\ Clear(c, k)
  <2>1. Ready(k) BY <1>2, <1>6 DEF Ready
  <2>2. Works(c, k) BY <1>0, <1>2, <1>4, <1>6 DEF Works
  <2> QED BY <1>0, <1>2, <1>6, <2>1, <2>2, RowsClear
<1>7. CASE Ends(c) /\ UNCHANGED <<jobs, rows>>
  <2>0. /\ call'[c] = Idle /\ \A d \in Calls : d # c => call'[d] = call[d]
        /\ JobsKept
    BY <1>0, <1>7, CallIdles, NothingRemoved
  <2>1. CASE k.edit
    <3>1. Cancels(call[c].new, "undone")
      BY <1>0, <1>7, NamesIs DEF Cancels, Ended, Live
    <3>2. crashes = 0 /\ k.row \notin disturbed' =>
             \A d \in Calls : On(d, k.row) => d = c
      BY <1>4, <2>1 DEF Alone
    <3> QED BY <1>0, <1>2, <1>4, <1>7, <2>0, <2>1, <3>1, <3>2, RowGivenUp
  <2>2. CASE ~k.edit
    <3>1. call[c].row = 0 /\ call'[c].row = 0 BY <1>2, <2>0, <2>2, IdleIs
    <3> QED BY <1>0, <1>7, <2>0, <3>1, RowsUntouched DEF Ids
  <2> QED BY <2>1, <2>2
<1> QED BY <1>1, <1>3, <1>5, <1>6, <1>7 DEF Resolved

LEMMA RowsArm ==
    ASSUME Base, Base', RowsInv, NEW c \in Calls, Arm(c)
    PROVE  RowsInv'
<1>0. /\ Typed /\ Open(c) /\ UNCHANGED <<crashes, disturbed>>
      /\ call[c].at \notin Ending /\ Len(jobs) \in Nat
  BY LenIsNat DEF Arm, Steps, Keeps, Open, Ending, Base
<1>1. PICK k : k = call[c] OBVIOUS
<1>2. /\ k \in CallType /\ k.at = "locating" /\ k.new = 0
      /\ Points(k) /\ Sets(k)
  BY <1>1, CallIs DEF Arm, Phase
<1>3. /\ k.row \in RowIds /\ k.row \in Nat /\ k.row # 0
      /\ Alone(c, k) /\ Naming(c, k.old)
  BY <1>0, <1>1, <1>2, ReadyRow, StillAlone
<1>4. CASE /\ Arms(Digest(k)) /\ UNCHANGED rows
           /\ Goes(c, [k EXCEPT !.at = "arming", !.new = Len(jobs) + 1])
  <2>1. PICK x : x = Digest(k) OBVIOUS
  <2>2. x \in JobType /\ x.row = k.row /\ x.state = "live" /\ Arms(x)
    BY <1>2, <1>4, <2>1, DigestIs
  <2>3. PICK n \in Nat : n = Len(jobs) + 1 BY <1>0
  <2>4. PICK q : q = [k EXCEPT !.at = "arming", !.new = n] OBVIOUS
  <2>5. /\ q \in CallType /\ q.at = "arming" /\ q.new = n /\ q.row = k.row
        /\ q.old = k.old /\ Goes(c, q)
    BY <1>2, <1>4, <2>3, <2>4 DEF CallType
  <2> QED BY <1>0, <1>1, <1>2, <1>3, <1>4, <2>2, <2>3, <2>5, RowArms
<1>5. CASE Ends(c) /\ UNCHANGED <<jobs, rows>>
  <2>1. Cancels(call[c].new, "undone")
    BY <1>1, <1>2, <1>5, NamesIs DEF Cancels, Ended, Live
  <2> QED BY <1>0, <1>1, <1>2, <1>3, <1>5, <2>1, CallIdles, RowGivenUp DEF Alone
<1>6. CASE ~k.edit /\ Ends(c) /\ UNCHANGED jobs /\ rows' = Without(k.row)
  <2>1. k.old = 0 BY <1>2, <1>6 DEF Sets
  <2>2. ~Live(0) BY NamesIs DEF Live
  <2> QED BY <1>0, <1>1, <1>2, <1>3, <1>6, <2>1, <2>2, CallIdles, RowCleared
          DEF Alone
<1> QED BY <1>1, <1>4, <1>5, <1>6 DEF Arm

LEMMA RowsAnswered ==
    ASSUME Base, Base', RowsInv, NEW c \in Calls,
           Armed(c) \/ Cleared(c) \/ Unwound(c) \/ Removed(c)
    PROVE  RowsInv'
<1>0. /\ Typed /\ Open(c) /\ UNCHANGED <<crashes, disturbed>>
      /\ call[c] \in CallType /\ Points(call[c]) /\ Phase(call[c])
  BY CallIs DEF Armed, Cleared, Unwound, Removed, Steps, Keeps, Open, Base
<1>1. ASSUME Armed(c) \/ Cleared(c)
      PROVE  /\ Ready(call[c]) /\ Works(c, call[c])
             /\ call[c].at \in Ending =>
                   (crashes = 0 /\ call[c].row \notin disturbed' =>
                      ~Live(call[c].old))
  <2>1. Ready(call[c]) BY <1>0, <1>1 DEF Armed, Cleared, Phase, Ready
  <2>2. call[c].row \in RowIds /\ call[c].at # "removing"
    BY <1>0, <1>1, <2>1, ReadyRow DEF Ready, Armed, Cleared
  <2> QED BY <1>0, <2>1, <2>2, StillAlone DEF Works
<1>2. CASE Armed(c)
  <2>1. call[c].at \notin Ending BY <1>2 DEF Armed, Ending
  <2> QED BY <1>0, <1>1, <1>2, <2>1, RowsClear DEF Armed
<1>3. CASE Cleared(c)
  <2>1. call[c].at \in Ending /\ call[c].at \notin {"unwinding", "removing"}
    BY <1>3 DEF Cleared, Ending
  <2> QED BY <1>0, <1>1, <1>3, <2>1, RowsSave DEF Cleared
<1>4. CASE Unwound(c)
  <2>1. /\ Sets(call[c]) /\ call[c].at = "unwinding" /\ Ends(c) /\ UNCHANGED jobs
        /\ rows' = Unarmed(call[c].row) \/ rows' = Without(call[c].row)
        /\ call[c].new # 0
    BY <1>0, <1>4 DEF Unwound, Phase
  <2>2. call[c].row \in RowIds /\ call[c].row \in Nat /\ call[c].row # 0
    BY <1>0, <2>1, ReadyRow
  <2>3. ~Live(call[c].new) BY <2>1, <2>2 DEF RowsInv, Own, Owns, Live
  <2>4. /\ Alone(c, call[c])
        /\ crashes = 0 /\ call[c].row \notin disturbed' => ~Live(call[c].old)
    BY <1>0, <2>1, <2>2, StillAlone DEF Ending
  <2> QED BY <1>0, <2>1, <2>2, <2>3, <2>4, CallIdles, RowCleared DEF Alone
<1>5. CASE Removed(c)
  <2>1. /\ call[c].at = "removing" /\ Ends(c) /\ UNCHANGED jobs
        /\ rows' = Without(call[c].row)
        /\ call[c].new = 0 /\ call[c].row # 0
    BY <1>0, <1>5 DEF Removed, Phase
  <2>2. call[c].row \in RowIds /\ call[c].row \in Nat
    BY <1>0, <2>1, LenIsNat DEF Points, CallType, RowIds
  <2>3. ~Live(call[c].new) BY <2>1, NamesIs DEF Live
  <2>4. On(c, call[c].row) BY <1>0 DEF On
  <2>5. crashes = 0 /\ call[c].row \notin disturbed' =>
           /\ ~Live(rows[call[c].row].sid)
           /\ \A d \in Calls : On(d, call[c].row) => d = c
    BY <1>0, <2>1, <2>2, <2>4 DEF RowsInv, Settled, Ending
  <2> QED BY <1>0, <2>1, <2>2, <2>3, <2>5, CallIdles, RowCleared
<1> QED BY <1>2, <1>3, <1>4, <1>5

LEMMA RowsBegun ==
    ASSUME Base, Base', RowsInv, NEW c \in Calls, NEW u \in Users
    PROVE  /\ \A on, dm \in BOOLEAN :
                 /\ Create(c, u, on, dm) => RowsInv'
                 /\ \A r \in RowIds : Update(c, u, r, on, dm) => RowsInv'
           /\ \A r \in RowIds : Delete(c, u, r) => RowsInv'
<1>0. Typed BY DEF Base
<1>1. ASSUME Begins(c)
      PROVE  /\ UNCHANGED crashes /\ call[c] = Idle /\ call[c].row = 0
             /\ call[c].new = 0 /\ call[c].at = "idle" /\ call[c].at \notin Ending
             /\ ~Live(call[c].new)
  <2>1. UNCHANGED crashes /\ call[c].at = "idle" BY <1>1 DEF Begins, Open
  <2>2. call[c] = Idle BY <2>1, CallIs DEF Phase
  <2> QED BY <2>1, <2>2, IdleIs, NamesIs DEF Ending, Live
<1>2. ASSUME NEW on \in BOOLEAN, NEW dm \in BOOLEAN, Create(c, u, on, dm)
      PROVE  RowsInv'
  <2>0. Begins(c) /\ UNCHANGED disturbed BY <1>2 DEF Create, Keeps
  <2>1. PICK k : k = [Idle EXCEPT !.who = u, !.on = on, !.dm = dm] OBVIOUS
  <2>2. k \in CallType /\ k.who = u /\ k.old = 0 /\ k.new = 0 /\ k.row = 0
    BY <2>1 DEF Idle, CallType, People
  <2>3. CASE Insert(c, k) BY <1>1, <2>0, <2>2, <2>3, RowInserted
  <2>4. CASE Goes(c, [k EXCEPT !.at = "resolving"]) /\ UNCHANGED <<jobs, rows>>
    <3>1. PICK q : q = [k EXCEPT !.at = "resolving"] OBVIOUS
    <3>2. q \in CallType /\ q.row = 0 BY <2>2, <3>1, At
    <3>3. call'[c] = q /\ \A d \in Calls : d # c => call'[d] = call[d]
      BY <1>0, <2>4, <3>1, <3>2, CallSet
    <3>4. JobsKept BY <1>0, <2>4, NothingRemoved
    <3> QED BY <1>1, <2>0, <2>4, <3>2, <3>3, <3>4, RowsUntouched DEF Ids
  <2> QED BY <1>2, <2>1, <2>3, <2>4 DEF Create
<1>3. ASSUME NEW r \in RowIds, Touches(r), r \notin disturbed'
      PROVE  \A d \in Calls : ~On(d, r)
  BY <1>3 DEF Touches, Busy, On
<1>4. ASSUME NEW on \in BOOLEAN, NEW dm \in BOOLEAN, NEW r \in RowIds,
             Update(c, u, r, on, dm)
      PROVE  RowsInv'
  <2>1. PICK s \in {Nobody, rows[r].to} : s = IF dm THEN rows[r].to ELSE Nobody
    OBVIOUS
  <2>2. PICK k : k = Edit(u, r, s, on, dm) OBVIOUS
  <2>3. k.on = on BY <2>2 DEF Edit, Idle
  <2>4. /\ k \in CallType /\ k.row = r /\ k.old = rows[r].sid /\ k.new = 0
        /\ Points(k) /\ Sets(k)
    BY <2>1, <2>2, EditIs
  <2>5. Begins(c) /\ Touches(r) /\ There(r) BY <1>4 DEF Update
  <2>6. /\ disturbed \subseteq disturbed' /\ Alone(c, k) /\ Naming(c, k.old)
        /\ UNCHANGED crashes
    BY <1>1, <1>3, <2>4, <2>5 DEF Touches, Alone, Naming
  <2>7. \/ Goes(c, [k EXCEPT !.at = "resolving"]) /\ UNCHANGED <<jobs, rows>>
        \/ Goes(c, [k EXCEPT !.at = "locating"]) /\ UNCHANGED <<jobs, rows>>
        \/ ~on /\ Clear(c, k)
    BY <1>4, <2>1, <2>2 DEF Update, Edit
  <2>8. ASSUME NEW a \in {"resolving", "locating"}, UNCHANGED <<jobs, rows>>,
               Goes(c, [k EXCEPT !.at = a])
        PROVE  RowsInv'
    <3>1. PICK q : q = [k EXCEPT !.at = a] OBVIOUS
    <3>0. /\ q \in CallType /\ q.at = a /\ q.old = k.old
          /\ q.new = k.new /\ q.row = k.row
      BY <2>4, <3>1 DEF CallType
    <3>5. Goes(c, q) BY <2>8, <3>1
    <3>2. /\ q \in CallType /\ q.at = a /\ q.old = k.old
          /\ q.new = k.new /\ q.row = k.row /\ Goes(c, q)
      BY <3>0, <3>5
    <3>3. Alone(c, q) BY <2>6, <3>2 DEF Alone
    <3>4. q.at \notin Ending BY <3>2 DEF Ending
    <3> QED BY <1>1, <2>4, <2>5, <2>6, <2>8, <3>2, <3>3, <3>4, RowGoes
  <2>9. ASSUME ~on, Clear(c, k) PROVE RowsInv'
    <3>1. Ready(k) BY <2>3, <2>4, <2>9 DEF Ready
    <3>2. Works(c, k) BY <1>1, <2>4, <2>5, <2>6 DEF Works
    <3> QED BY <1>1, <2>4, <2>5, <2>9, <3>1, <3>2, RowsClear
  <2> QED BY <2>7, <2>8, <2>9
<1>5. ASSUME NEW r \in RowIds, Delete(c, u, r) PROVE RowsInv'
  <2>0. /\ Begins(c) /\ There(r) /\ r \in Nat /\ r # 0
        /\ disturbed \subseteq disturbed' /\ UNCHANGED crashes
    BY <1>0, <1>1, <1>5, NamesIs, LenIsNat DEF Delete, Touches, RowIds
  <2>1. CASE /\ rows[r].sid = 0 /\ rows' = Without(r) /\ Touches(r)
             /\ UNCHANGED <<jobs, call>>
    <3>1. ~Live(0) BY NamesIs DEF Live
    <3> QED BY <1>1, <1>3, <2>0, <2>1, <3>1, RowCleared
  <2>2. CASE /\ rows[r].sid # 0 /\ UNCHANGED rows
             /\ Goes(c, [Idle EXCEPT !.at = "removing", !.who = u, !.row = r])
             /\ \/ Cancels(rows[r].sid, "over") /\ Touches(r)
                \/ disturbed' = disturbed \cup {r} /\ UNCHANGED jobs
    <3>1. PICK q : q = [Idle EXCEPT !.at = "removing", !.who = u, !.row = r]
      OBVIOUS
    <3>2. /\ q \in CallType /\ q.at = "removing" /\ q.row = r /\ q.old = 0
          /\ q.new = 0 /\ Goes(c, q)
      BY <2>0, <2>2, <3>1 DEF Idle, CallType, People
    <3>3. q.at \in Ending /\ "over" \in States \ {"live"} /\ Naming(c, 0)
      BY <3>2 DEF Ending, States, Naming
    <3>4. rows[r].sid \in Ids /\ jobs[rows[r].sid].row = r /\ rows[r].sid \in Nat
      BY <2>2, NamesIs DEF Ids
    <3>5. CASE Cancels(rows[r].sid, "over") /\ Touches(r)
      <4>1. Naming(c, rows[r].sid) BY DEF Naming
      <4>2. crashes = 0 /\ r \notin disturbed' =>
               \A d \in Calls : On(d, r) => d = c
        BY <1>3, <3>5
      <4> QED BY <1>1, <2>0, <2>2, <3>2, <3>3, <3>4, <3>5, <4>1, <4>2, RowCancels
    <3>6. CASE disturbed' = disturbed \cup {r} /\ UNCHANGED jobs
      <4>1. Cancels(0, "over") BY <3>6, NamesIs DEF Cancels, Ended, Live
      <4>2. r \in disturbed' BY <3>6
      <4> QED BY <1>1, <2>0, <2>2, <3>2, <3>3, <4>1, <4>2, RowCancels
    <3> QED BY <2>2, <3>5, <3>6
  <2> QED BY <1>5, <2>1, <2>2 DEF Delete
<1> QED BY <1>2, <1>4, <1>5

\* The schedules of automations are left, but for those whose run finds its
\* workspace gone.
RemindersOnly ==
    /\ \A j \in Ids : jobs[j].row # 0 =>
          jobs'[j] = jobs[j] \/ jobs'[j].state = "dropped"
    /\ \A j \in Ids' : j \notin Ids => jobs'[j].row = 0

LEMMA RowsReminders ==
    ASSUME Base, Base', Counts, JobsKept, RowsInv, SchedulesNext,
           UNCHANGED <<rows, disturbed>>
    PROVE  RowsInv'
<1>0. Typed /\ Len(jobs) \in Nat BY LenIsNat DEF Base
<1>1. ASSUME NEW c \in Calls, \A d \in Calls : d # c => call'[d] = call[d],
             call[c].row = 0, call'[c].row = 0, UNCHANGED crashes,
             RemindersOnly
      PROVE  RowsInv'
  BY <1>1, RowsUntouched DEF RemindersOnly
<1>2. UNCHANGED jobs => RemindersOnly BY DEF RemindersOnly, Ids
<1>3. ASSUME NEW i \in Nat, NEW how \in States, Cancels(i, how),
             i = 0 \/ jobs[i].row = 0 \/ how = "dropped"
      PROVE  RemindersOnly
  <2>1. /\ Len(jobs') = Len(jobs)
        /\ \A j \in Ids :
              /\ j # i => jobs'[j] = jobs[j]
              /\ jobs'[j].state = IF j = i /\ jobs[j].state = "live" THEN how
                                  ELSE jobs[j].state
    BY <1>0, <1>3, Removal
  <2>2. ~Live(i) => UNCHANGED jobs BY <1>3 DEF Cancels, Ended
  <2>3. CASE Live(i)
    BY <1>3, <2>1, <2>3, NamesIs DEF RemindersOnly, Ids, Live
  <2> QED BY <1>2, <2>2, <2>3
<1>4. ASSUME NEW x \in JobType, Arms(x), x.row = 0 PROVE RemindersOnly
  <2>1. /\ Len(jobs') = Len(jobs) + 1 /\ jobs'[Len(jobs) + 1] = x
        /\ \A j \in Ids : jobs'[j] = jobs[j]
    BY <1>0, <1>4, Added
  <2> QED BY <1>0, <1>4, <2>1 DEF RemindersOnly, Ids
<1>5. ASSUME NEW c \in Calls, Schedule(c) PROVE RowsInv'
  <2>1. call[c].row = 0 /\ call[c].who \in Users /\ Ends(c) /\ UNCHANGED crashes
    BY <1>5, CallIs DEF Schedule, Phase, OnReminder, Steps
  <2>2. call'[c].row = 0 /\ \A d \in Calls : d # c => call'[d] = call[d]
    BY <2>1, CallIdles, IdleIs
  <2>3. RemindersOnly BY <1>2, <1>4, <1>5, <2>1, ReminderIs DEF Schedule
  <2> QED BY <1>1, <2>1, <2>2, <2>3
<1>6. ASSUME NEW c \in Calls, Swap(c) PROVE RowsInv'
  <2>1. /\ Swapping(c) /\ Ends(c) /\ UNCHANGED crashes
        /\ call[c].at = "swapping"
    BY <1>6 DEF Swap, Swapping, Steps, Rollback
  <2>2. /\ call[c].row = 0 /\ call'[c].row = 0
        /\ \A d \in Calls : d # c => call'[d] = call[d]
    BY <2>1, CallIs, CallIdles, IdleIs DEF Phase, OnReminder
  <2>3. /\ jobs[call[c].old].row = 0 /\ jobs[call[c].new].row = 0
        /\ call[c].old \in Nat /\ call[c].new \in Nat
    BY <2>1, SwapIs DEF Ids
  <2>4. \/ Cancels(call[c].old, "replaced") \/ Cancels(call[c].new, "undone")
        \/ UNCHANGED jobs
    BY <1>6 DEF Swap, Rollback
  <2>5. RemindersOnly BY <1>2, <1>3, <2>3, <2>4 DEF States
  <2> QED BY <1>1, <2>1, <2>2, <2>5
<1>7. ASSUME NEW u \in Users, NEW c \in Calls, Count(c, u) PROVE RowsInv'
  <2>1. PICK k : k = [Idle EXCEPT !.at = "counted", !.who = u] OBVIOUS
  <2>2. k \in CallType /\ k.row = 0 BY <2>1 DEF Idle, CallType, People
  <2>3. /\ call'[c] = k /\ ~Open(c) /\ UNCHANGED <<jobs, crashes>>
        /\ \A d \in Calls : d # c => call'[d] = call[d]
    BY <1>0, <1>7, <2>1, <2>2, CallSet DEF Count, Begins
  <2>4. call[c].row = 0 BY <2>3, CallIs, IdleIs DEF Phase, Open
  <2> QED BY <1>1, <1>2, <2>2, <2>3, <2>4
<1>8. ASSUME NEW u \in Users, NEW c \in Calls, NEW j \in Ids, Replace(c, u, j)
      PROVE  RowsInv'
  <2>1. PICK x : x = Reminder(u, jobs[j].once, j) OBVIOUS
  <2>2. jobs[j] \in JobType /\ j \in Nat
    BY <1>0, ElementOfSeq DEF Typed, Ids
  <2>3. jobs[j].once \in BOOLEAN BY <2>2 DEF JobType
  <2>4. x \in JobType /\ x.row = 0 /\ Arms(x)
    BY <1>8, <2>1, <2>3, ReminderIs DEF Replace
  <2>5. PICK n \in Nat : n = Len(jobs) + 1 BY <1>0
  <2>6. PICK k : k = [Idle EXCEPT !.at = "swapping", !.who = u, !.old = j,
                                  !.new = n]
    OBVIOUS
  <2>7. k \in CallType /\ k.row = 0 BY <2>2, <2>6 DEF Idle, CallType, People
  <2>8. /\ call'[c] = k /\ ~Open(c) /\ UNCHANGED crashes
        /\ \A d \in Calls : d # c => call'[d] = call[d]
    BY <1>0, <1>8, <2>5, <2>6, <2>7, CallSet DEF Replace, Begins
  <2>9. call[c].row = 0 BY <2>8, CallIs, IdleIs DEF Phase, Open
  <2> QED BY <1>1, <1>4, <2>4, <2>7, <2>8, <2>9
<1>9. ASSUME NEW j \in Ids, NEW how \in States, Cancels(j, how),
             jobs[j].row = 0 \/ how = "dropped", UNCHANGED <<call, crashes>>
      PROVE  RowsInv'
  <2>1. RemindersOnly BY <1>3, <1>9 DEF Ids
  <2> QED BY <1>9, <2>1, RowsUntouched DEF RemindersOnly
<1>10. ASSUME Crash PROVE RowsInv'
  <2>1. crashes' # 0 BY <1>10 DEF Crash, Counts
  <2>2. \A c \in Calls : call'[c].new = 0 BY <1>10, IdleIs DEF Crash
  <2> QED BY <2>1, <2>2 DEF RowsInv, Own, Owns
<1>11. ASSUME NEW j \in Ids, jobs[j].once PROVE jobs[j].row = 0
  BY <1>11 DEF Base, JobOK
<1> QED BY <1>5, <1>6, <1>7, <1>8, <1>9, <1>10, <1>11
        DEF SchedulesNext, CancelTask, IsReminder, Returned, Drop, env, States

LEMMA RowsAlways ==
    ASSUME Base, Counts, RowsInv, [Next]_vars
    PROVE  RowsInv'
<1>1. Base' /\ JobsKept BY BaseStep, Platform
<1>2. CASE SchedulesNext /\ UNCHANGED <<rows, disturbed>>
  BY <1>1, <1>2, RowsReminders
<1>3. ASSUME NEW c \in Calls,
             \/ Resolved(c) \/ Arm(c) \/ Armed(c) \/ Cleared(c)
             \/ Unwound(c) \/ Removed(c)
      PROVE  RowsInv'
  BY <1>1, <1>3, RowsResolved, RowsArm, RowsAnswered
<1>4. ASSUME NEW c \in Calls, NEW u \in Users,
             \/ \E on, dm \in BOOLEAN :
                   \/ Create(c, u, on, dm)
                   \/ \E r \in RowIds : Update(c, u, r, on, dm)
             \/ \E r \in RowIds : Delete(c, u, r)
      PROVE  RowsInv'
  BY <1>1, <1>4, RowsBegun
<1>5. CASE UNCHANGED vars
  BY <1>1, <1>5, RowsUntouched DEF vars, env, Ids
<1> QED BY <1>2, <1>3, <1>4, <1>5 DEF Next

LEMMA RowsInit == Init => RowsInv
<1> SUFFICES ASSUME Init PROVE RowsInv OBVIOUS
<1>1. \A c \in Calls : call[c].new = 0 BY IdleIs DEF Init, SchedulesInit
<1>2. RowIds = {} BY DEF Init, RowIds
<1> QED BY <1>1, <1>2 DEF RowsInv, Own, Owns

\* An enabled row always has its schedule (automations.ts:290-292), and no edit
\* leaves a job firing with no reference to cancel it (automations.ts:359-362),
\* whichever step of which call throws.
THEOREM RowsInOrder == Spec => []RowNamesItsJob
<1>1. Base /\ Counts /\ RowsInv => RowNamesItsJob
  <2> SUFFICES ASSUME Base, Counts, RowsInv PROVE RowNamesItsJob OBVIOUS
  <2>1. EnabledHasJob
    <3> SUFFICES ASSUME crashes = 0, NEW r \in RowIds, There(r), rows[r].enabled
        PROVE  \/ jobs[rows[r].sid].state \in {"live", "dropped"}
               \/ \E c \in Calls : call[c].row = r /\ call[c].at \in Ending
      BY DEF EnabledHasJob, Ending
    <3>1. rows[r].sid # 0 BY DEF Base, RowOK
    <3> QED BY <3>1 DEF RowsInv, Served
  <2>2. NoOrphanJob BY DEF NoOrphanJob, RowsInv, Settled
  <2> QED BY <2>1, <2>2, TypesFollow DEF RowNamesItsJob
<1>2. Base /\ Counts /\ RowsInv /\ [Next]_vars => Base' /\ Counts' /\ RowsInv'
  BY BaseStep, CountsStep, RowsAlways
<1> QED BY <1>1, <1>2, BaseInit, CountsInit, RowsInit, PTL DEF Spec
=============================================================================
