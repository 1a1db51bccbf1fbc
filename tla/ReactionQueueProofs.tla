-------------------------- MODULE ReactionQueueProofs --------------------------
(***************************************************************************)
(* The queue of reactions, for any reactions, schedules, evictions,        *)
(* rejected calls and disconnections.                                      *)
(*                                                                         *)
(* Rows, wake-ups and the count of requests have an invariant each, beside *)
(* the types; who looks after what is pending (Awake) is the one that      *)
(* needs to know where every handler is parked.                            *)
(***************************************************************************)
EXTENDS ReactionQueue, SequenceTheorems, TLAPS

-----------------------------------------------------------------------------
(* Sequences without repetition *)

Distinct(s) == \A i, j \in 1..Len(s) : s[i] = s[j] => i = j
In(s) == {s[i] : i \in 1..Len(s)}

LEMMA Appended ==
    ASSUME NEW S, NEW s \in Seq(S), NEW e \in S
    PROVE  /\ Append(s, e) \in Seq(S) /\ In(Append(s, e)) = In(s) \cup {e}
           /\ Distinct(s) /\ e \notin In(s) => Distinct(Append(s, e))
<1>1. /\ Append(s, e) \in Seq(S) /\ Len(Append(s, e)) = Len(s) + 1
      /\ Append(s, e)[Len(s) + 1] = e /\ Len(s) \in Nat
      /\ \A i \in 1..Len(s) : Append(s, e)[i] = s[i]
  BY AppendProperties, LenProperties
<1>2. In(Append(s, e)) = In(s) \cup {e}
  <2>1. ASSUME NEW x \in In(s) \cup {e} PROVE x \in In(Append(s, e))
    BY <1>1, <2>1 DEF In
  <2>2. ASSUME NEW x \in In(Append(s, e)) PROVE x \in In(s) \cup {e}
    BY <1>1, <2>2 DEF In
  <2> QED BY <2>1, <2>2
<1>3. ASSUME Distinct(s), e \notin In(s) PROVE Distinct(Append(s, e))
  BY <1>1, <1>3 DEF Distinct, In
<1> QED BY <1>1, <1>2, <1>3

LEMMA Inserted ==
    ASSUME NEW S, NEW s \in Seq(S), NEW e \in S, NEW k \in 0..Len(s)
    PROVE  LET t == InsertAt(s, k + 1, e) IN
           /\ t \in Seq(S) /\ In(t) = In(s) \cup {e}
           /\ Distinct(s) /\ e \notin In(s) => Distinct(t)
<1> DEFINE t == InsertAt(s, k + 1, e)
<1>1. /\ t \in Seq(S) /\ Len(t) = Len(s) + 1 /\ Len(s) \in Nat
      /\ \A j \in 1..Len(t) :
            t[j] = IF j <= k THEN s[j] ELSE IF j = k + 1 THEN e ELSE s[j - 1]
  <2> DEFINE a == SubSeq(s, 1, k)
  <2> DEFINE b == SubSeq(s, k + 1, Len(s))
  <2>1. Len(s) \in Nat /\ k \in Nat /\ k <= Len(s) BY LenProperties
  <2>2. \A i \in 1..Len(s) : s[i] \in S BY ElementOfSeq
  <2>3. a \in Seq(S) /\ Len(a) = k /\ \A i \in 1..k : a[i] = s[i]
    BY <2>1, <2>2, SubSeqProperties
  <2>4. b \in Seq(S) /\ Len(b) = Len(s) - k /\ \A i \in 1..(Len(s) - k) : b[i] = s[k + i]
    <3>1. \A i \in (k + 1)..Len(s) : s[i] \in S BY <2>1, <2>2
    <3>2. /\ b \in Seq(S)
          /\ Len(b) = IF k + 1 <= Len(s) THEN Len(s) - (k + 1) + 1 ELSE 0
          /\ \A i \in 1..(Len(s) - (k + 1) + 1) : b[i] = s[(k + 1) + i - 1]
      BY <2>1, <3>1, SubSeqProperties
    <3> QED BY <2>1, <3>2
  <2>5. <<e>> \in Seq(S) /\ Len(<<e>>) = 1 /\ <<e>>[1] = e OBVIOUS
  <2> HIDE DEF a, b
  <2> DEFINE c == a \o <<e>>
  <2>6. c \in Seq(S) /\ Len(c) = k + 1 /\ \A i \in 1..(k + 1) : c[i] = IF i <= k THEN a[i] ELSE e
    <3>1. /\ c \in Seq(S) /\ Len(c) = Len(a) + Len(<<e>>)
          /\ \A i \in 1..(Len(a) + Len(<<e>>)) :
                c[i] = IF i <= Len(a) THEN a[i] ELSE <<e>>[i - Len(a)]
      BY <2>3, <2>5, ConcatProperties
    <3> QED BY <2>1, <2>3, <2>5, <3>1
  <2> HIDE DEF c
  <2>7. /\ c \o b \in Seq(S) /\ Len(c \o b) = Len(c) + Len(b)
        /\ \A i \in 1..(Len(c) + Len(b)) :
              (c \o b)[i] = IF i <= Len(c) THEN c[i] ELSE b[i - Len(c)]
    BY <2>4, <2>6, ConcatProperties
  <2>8. t = c \o b
    <3>1. (k + 1) - 1 = k BY <2>1
    <3> QED BY <3>1 DEF InsertAt, a, b, c
  <2> HIDE DEF t
  <2>9. t \in Seq(S) /\ Len(t) = Len(s) + 1
    <3>1. Len(c) + Len(b) = Len(s) + 1 BY <2>1, <2>4, <2>6
    <3> QED BY <2>7, <2>8, <3>1
  <2>10. ASSUME NEW j \in 1..Len(t)
         PROVE  t[j] = IF j <= k THEN s[j] ELSE IF j = k + 1 THEN e ELSE s[j - 1]
    <3>1. CASE j <= k BY <2>1, <2>3, <2>4, <2>6, <2>7, <2>8, <2>9, <3>1
    <3>2. CASE j = k + 1 BY <2>1, <2>4, <2>6, <2>7, <2>8, <2>9, <3>2
    <3>3. CASE j > k + 1
      <4>1. t[j] = b[j - (k + 1)] BY <2>1, <2>4, <2>6, <2>7, <2>8, <2>9, <3>3
      <4>2. j - (k + 1) \in 1..(Len(s) - k) /\ k + (j - (k + 1)) = j - 1
        BY <2>1, <2>9, <3>3
      <4> QED BY <2>1, <2>4, <3>3, <4>1, <4>2
    <3> QED BY <2>1, <2>9, <3>1, <3>2, <3>3
  <2> QED BY <2>1, <2>9, <2>10
<1>k. k \in Nat /\ k <= Len(s) /\ Len(s) \in Nat BY LenProperties
<1> HIDE DEF t
<1>2. ASSUME NEW x \in In(s) \cup {e} PROVE x \in In(t)
  <2>1. CASE x = e
    <3>1. k + 1 \in 1..Len(t) /\ t[k + 1] = e BY <1>1, <1>k
    <3> QED BY <2>1, <3>1 DEF In
  <2>2. ASSUME NEW i \in 1..Len(s), x = s[i] PROVE x \in In(t)
    <3>1. CASE i <= k BY <1>1, <1>k, <2>2, <3>1 DEF In
    <3>2. CASE i > k
      <4>1. i + 1 \in 1..Len(t) /\ t[i + 1] = s[i] BY <1>1, <1>k, <3>2
      <4> QED BY <2>2, <4>1 DEF In
    <3> QED BY <1>k, <3>1, <3>2
  <2> QED BY <2>1, <2>2 DEF In
<1>3. ASSUME NEW x \in In(t) PROVE x \in In(s) \cup {e}
  <2>1. PICK j \in 1..Len(t) : x = t[j] BY <1>3 DEF In
  <2>2. CASE j <= k BY <1>1, <1>k, <2>1, <2>2 DEF In
  <2>3. CASE j = k + 1 BY <1>1, <1>k, <2>1, <2>3
  <2>4. CASE j > k + 1
    <3>1. j - 1 \in 1..Len(s) /\ x = s[j - 1] BY <1>1, <1>k, <2>1, <2>4
    <3> QED BY <3>1 DEF In
  <2> QED BY <1>1, <1>k, <2>2, <2>3, <2>4
<1>4. ASSUME Distinct(s), e \notin In(s) PROVE Distinct(t)
  <2> SUFFICES ASSUME NEW i \in 1..Len(t), NEW j \in 1..Len(t), t[i] = t[j]
      PROVE  i = j
    BY DEF Distinct
  <2>1. \A n \in 1..Len(s) : s[n] # e BY <1>4 DEF In
  <2> DEFINE p(n) == IF n <= k THEN n ELSE n - 1
  <2>2. \A n \in 1..Len(t) : n # k + 1 => p(n) \in 1..Len(s) /\ t[n] = s[p(n)]
    BY <1>1, <1>k
  <2>3. t[k + 1] = e BY <1>1, <1>k
  <2>4. CASE i # k + 1 /\ j # k + 1
    <3>1. p(i) = p(j)
      <4> HIDE DEF p
      <4> QED BY <1>4, <2>2, <2>4 DEF Distinct
    <3> QED BY <1>1, <1>k, <2>4, <3>1
  <2>5. CASE i = k + 1 \/ j = k + 1
    <3> HIDE DEF p
    <3> QED BY <2>1, <2>2, <2>3, <2>5
  <2> QED BY <2>4, <2>5
<1> QED BY <1>1, <1>2, <1>3, <1>4 DEF t

LEMMA Taken ==
    ASSUME NEW S, NEW s \in Seq(S), NEW r, Distinct(s)
    PROVE  LET t == RemoveFirst(s, r) IN
           /\ t \in Seq(S) /\ In(t) = In(s) \ {r} /\ Distinct(t)
<1>1. CASE r \notin In(s)
  <2>1. RemoveFirst(s, r) = s BY <1>1 DEF RemoveFirst, In
  <2> QED BY <1>1, <2>1
<1>2. CASE r \in In(s)
  <2>1. PICK i \in 1..Len(s) : s[i] = r BY <1>2 DEF In
  <2>2. {j \in 1..Len(s) : s[j] = r} = {i} BY <2>1 DEF Distinct
  <2>3. SelectInSeq(s, LAMBDA v : v = r) = Min({i})
    BY <2>2 DEF SelectInSeq
  <2>4. i \in Nat /\ Len(s) \in Nat BY LenProperties
  <2>5. Min({i}) = i BY <2>4 DEF Min
  <2> DEFINE t == RemoveFirst(s, r)
  <2>6. t = RemoveAt(s, i) BY <2>1, <2>3, <2>5 DEF RemoveFirst
  <2>7. /\ t \in Seq(S) /\ Len(t) = Len(s) - 1
        /\ \A j \in 1..Len(t) : t[j] = IF j < i THEN s[j] ELSE s[j + 1]
    <3> DEFINE a == SubSeq(s, 1, i - 1)
    <3> DEFINE b == SubSeq(s, i + 1, Len(s))
    <3>1. \A n \in 1..Len(s) : s[n] \in S BY ElementOfSeq
    <3>2. a \in Seq(S) /\ Len(a) = i - 1 /\ \A n \in 1..(i - 1) : a[n] = s[n]
      <4>1. \A n \in 1..(i - 1) : s[n] \in S BY <2>4, <3>1
      <4>2. /\ a \in Seq(S) /\ Len(a) = IF 1 <= i - 1 THEN (i - 1) - 1 + 1 ELSE 0
            /\ \A n \in 1..((i - 1) - 1 + 1) : a[n] = s[1 + n - 1]
        BY <2>4, <4>1, SubSeqProperties
      <4> QED BY <2>4, <4>2
    <3>3. b \in Seq(S) /\ Len(b) = Len(s) - i /\ \A n \in 1..(Len(s) - i) : b[n] = s[i + n]
      <4>1. \A n \in (i + 1)..Len(s) : s[n] \in S BY <2>4, <3>1
      <4>2. /\ b \in Seq(S) /\ Len(b) = IF i + 1 <= Len(s) THEN Len(s) - (i + 1) + 1 ELSE 0
            /\ \A n \in 1..(Len(s) - (i + 1) + 1) : b[n] = s[(i + 1) + n - 1]
        BY <2>4, <4>1, SubSeqProperties
      <4> QED BY <2>4, <4>2
    <3>4. t = a \o b BY <2>6 DEF RemoveAt
    <3> HIDE DEF t, a, b
    <3>5. /\ a \o b \in Seq(S) /\ Len(a \o b) = Len(a) + Len(b)
          /\ \A n \in 1..(Len(a) + Len(b)) :
                (a \o b)[n] = IF n <= Len(a) THEN a[n] ELSE b[n - Len(a)]
      BY <3>2, <3>3, ConcatProperties
    <3>6. t \in Seq(S) /\ Len(t) = Len(s) - 1 BY <2>4, <3>2, <3>3, <3>4, <3>5
    <3>7. ASSUME NEW j \in 1..Len(t)
          PROVE  t[j] = IF j < i THEN s[j] ELSE s[j + 1]
      <4>1. CASE j < i BY <2>4, <3>2, <3>3, <3>4, <3>5, <3>6, <4>1
      <4>2. CASE j >= i
        <5>1. t[j] = b[j - (i - 1)] BY <2>4, <3>2, <3>3, <3>4, <3>5, <3>6, <4>2
        <5>2. j - (i - 1) \in 1..(Len(s) - i) /\ i + (j - (i - 1)) = j + 1
          BY <2>4, <3>6, <4>2
        <5> QED BY <2>4, <3>3, <4>2, <5>1, <5>2
      <4> QED BY <2>4, <3>6, <4>1, <4>2
    <3> QED BY <3>6, <3>7
  <2> HIDE DEF t
  <2>8. ASSUME NEW x \in In(t) PROVE x \in In(s) \ {r}
    <3>1. PICK j \in 1..Len(t) : x = t[j] BY DEF In
    <3>2. PICK n \in 1..Len(s) : x = s[n] /\ n # i BY <2>4, <2>7, <3>1
    <3> QED BY <2>2, <3>2 DEF In
  <2>9. ASSUME NEW x \in In(s), x # r PROVE x \in In(t)
    <3>1. PICK j \in 1..Len(s) : x = s[j] BY DEF In
    <3>2. j # i BY <2>1, <2>9, <3>1
    <3>3. CASE j < i BY <2>4, <2>7, <3>1, <3>3 DEF In
    <3>4. CASE j > i
      <4>1. j - 1 \in 1..Len(t) /\ t[j - 1] = s[j] BY <2>4, <2>7, <3>4
      <4> QED BY <3>1, <4>1 DEF In
    <3> QED BY <2>4, <3>2, <3>3, <3>4
  <2>10. Distinct(t) BY <2>4, <2>7 DEF Distinct
  <2> QED BY <2>7, <2>8, <2>9, <2>10 DEF t
<1> QED BY <1>1, <1>2

LEMMA HeadTaken ==
    ASSUME NEW S, NEW s \in Seq(S), s # <<>>, Distinct(s)
    PROVE  /\ Head(s) \in In(s) /\ Head(s) \in S
           /\ Tail(s) \in Seq(S) /\ Distinct(Tail(s))
           /\ In(Tail(s)) = In(s) \ {Head(s)}
<1>1. /\ Len(s) \in Nat \ {0} /\ Head(s) = s[1] /\ s[1] \in S
      /\ Tail(s) \in Seq(S) /\ Len(Tail(s)) = Len(s) - 1
      /\ \A i \in 1..Len(Tail(s)) : Tail(s)[i] = s[i + 1]
  BY EmptySeq, HeadTailProperties, ElementOfSeq
<1>2. ASSUME NEW x \in In(Tail(s)) PROVE x \in In(s) \ {Head(s)}
  <2>1. PICK i \in 1..Len(Tail(s)) : x = s[i + 1] BY <1>1 DEF In
  <2>2. i + 1 \in 1..Len(s) /\ i + 1 # 1 BY <1>1
  <2> QED BY <1>1, <2>1, <2>2 DEF In, Distinct
<1>3. ASSUME NEW x \in In(s), x # Head(s) PROVE x \in In(Tail(s))
  <2>1. PICK i \in 1..Len(s) : x = s[i] BY DEF In
  <2>2. i # 1 BY <1>1, <1>3, <2>1
  <2>3. i - 1 \in 1..Len(Tail(s)) /\ Tail(s)[i - 1] = s[i] BY <1>1, <2>2
  <2> QED BY <2>1, <2>3 DEF In
<1>4. Distinct(Tail(s)) BY <1>1 DEF Distinct
<1>5. Head(s) \in In(s) BY <1>1 DEF In
<1> QED BY <1>1, <1>2, <1>3, <1>4, <1>5

LEMMA NoneIn ==
    ASSUME NEW S, NEW s \in Seq(S)
    PROVE  (s = <<>>) <=> (In(s) = {})
  BY EmptySeq DEF In

LEMMA InSet ==
    ASSUME NEW S, NEW s \in Seq(S)
    PROVE  In(s) \subseteq S
  BY ElementOfSeq DEF In

-----------------------------------------------------------------------------
(* The invariants *)

RequestLabels == {"idle", "arming", "done"}
AlarmLabels == Labels \ {"done"}
StartLabels == {"idle", "recover", "found", "lost", "rearming"}

\* The types, and the awaits each kind of handler has.
Types ==
    /\ TypeOK
    /\ \A r \in Reactions : pc[r] \in RequestLabels
    /\ pc[Alarm] \in AlarmLabels
    /\ pc[Start] \in StartLabels

\* A reaction is queued once at most, by its one request, and has an attempt
\* left; the row the callback works on is still queued.
RowsOnce ==
    /\ Distinct(ready) /\ Distinct(cooling)
    /\ \A r \in In(ready) : r \notin In(cooling)
    /\ \A r \in In(ready) \cup In(cooling) : pc[r] # "idle" /\ attempts[r] < MaxAttempts
    /\ \A r \in Reactions : pc[r] = "idle" => attempts[r] = 0
    /\ pc[Alarm] \in {"lookup", "slack"} => current \in In(ready)

\* Every request to Slack but the one under way is an attempt of its row, or
\* was forgotten by an eviction.
CallsCounted ==
    \A r \in Reactions :
        \/ calls[r] <= attempts[r] + crashes
        \/ /\ pc[Alarm] = "slack" /\ current = r
           /\ calls[r] <= attempts[r] + crashes + 1

\* One schedule is there at a time: SingleWakeup.
Free(table) == \A i \in Ids : table[i] = "free"
One(table) == \A i, j \in Ids : table[i] # "free" /\ table[j] # "free" => i = j

\* Nothing else moves while onStart does.
StartAlone ==
    /\ pc[Start] \in {"found", "lost"} => got[Start] = owner
    /\ pc[Start] \in {"found", "rearming"} =>
          got[Start] \in Ids /\ sched[got[Start]] # "free"

\* The handlers that have asked for a schedule hold one,
CallsNamed ==
    \A p \in Procs : pc[p] \in {"arming", "rearming"} => got[p] \in Ids

\* the callback under way runs under its own,
CallbackRuns == pc[Alarm] # "idle" => fired \in Ids /\ sched[fired] = "running"

\* and what is pending has a schedule in the row, or a handler that is going
\* to see to it:
PendingSeen ==
    Pending # <<>> =>
        \/ owner # NoId
        \/ pc[Start] # "idle"
        \/ \E p \in Procs : pc[p] \in {"arming", "rearming"}
        \/ pc[Alarm] \in {"lookup", "slack", "recover", "found", "lost"}

\* so it is while the workspace is connected and no call was rejected.
Awake ==
    /\ CallsNamed
    /\ failures = 0 /\ resets = 0 => CallbackRuns /\ PendingSeen

-----------------------------------------------------------------------------
(* What the operators of the model leave *)

States == {"free", "waiting", "running"}

LEMMA Parties ==
    /\ Alarm \in Procs /\ Start \in Procs /\ Reactions \subseteq Procs
    /\ Alarm # Start /\ Alarm \notin Reactions /\ Start \notin Reactions
    /\ \A p \in Procs : p \in Reactions \/ p = Alarm \/ p = Start
  BY QueueAssumption DEF Procs, Alarm, Start

LEMMA Afterwards ==
    /\ \A r \in Reactions : After(r, "arming") = "done" /\ After(r, "rearming") = "done"
    /\ After(Alarm, "arming") = "recover" /\ After(Alarm, "rearming") = "returning"
    /\ After(Start, "arming") = "idle" /\ After(Start, "rearming") = "idle"
  BY Parties DEF After

\* The other handlers stay where they are.
Alone(p) == \A q \in Procs \ {p} : pc'[q] = pc[q] /\ got'[q] = got[q]

\* A schedule is added to table only when none is there.
Added(table) ==
    \/ sched' = table
    \/ Free(table) /\ \E i \in Ids : sched' = [table EXCEPT ![i] = "waiting"]

\* The handler awaits the call, which has a schedule for it ...
Asked(p, label) ==
    /\ pc'[p] = label
    /\ got'[p] \in Ids /\ sched'[got'[p]] # "free"
    /\ failures' = failures

\* ... or goes on without one.
Passed(p, label, table) ==
    pc'[p] = After(p, label) /\ got'[p] = NoId /\ sched' = table

HandlerTypes ==
    /\ sched \in [Ids -> States]
    /\ pc \in [Procs -> Labels]
    /\ got \in [Procs -> Ids \cup {NoId}]
    /\ failures \in 0..MaxFailures

LEMMA Going ==
    ASSUME TypeOK, NEW p \in Procs, NEW label \in Labels, Goto(p, label)
    PROVE  /\ Alone(p) /\ pc'[p] = label /\ got'[p] = NoId
           /\ pc' \in [Procs -> Labels] /\ got' \in [Procs -> Ids \cup {NoId}]
  BY DEF TypeOK, Goto, Alone

LEMMA Calling ==
    ASSUME TypeOK, NEW p \in Procs, NEW label \in {"arming", "rearming"},
           NEW table \in [Ids -> States], CallSchedule(p, label, table)
    PROVE  /\ HandlerTypes' /\ Alone(p) /\ Added(table)
           /\ \/ Asked(p, label)
              \/ Passed(p, label, table) /\ failures' = failures + 1
<1>1. CASE /\ failures < MaxFailures /\ failures' = failures + 1
           /\ sched' = table /\ Goto(p, After(p, label))
  <2>1. After(p, label) \in Labels BY Afterwards, Parties DEF Labels
  <2>2. failures' \in 0..MaxFailures BY <1>1, QueueAssumption DEF TypeOK
  <2> QED BY <1>1, <2>1, <2>2, Going DEF HandlerTypes, Added, Passed
<1>2. ASSUME NEW i \in Ids, Scheduled(i, table),
             sched' = [table EXCEPT ![i] = IF @ = "free" THEN "waiting" ELSE @],
             pc' = [pc EXCEPT ![p] = label], got' = [got EXCEPT ![p] = i],
             UNCHANGED failures
      PROVE  HandlerTypes' /\ Alone(p) /\ Added(table) /\ Asked(p, label)
  <2>1. label \in Labels BY DEF Labels
  <2>2. HandlerTypes' /\ Alone(p)
    <3>1. sched' \in [Ids -> States] BY <1>2 DEF States
    <3>2. pc' \in [Procs -> Labels] /\ got' \in [Procs -> Ids \cup {NoId}]
      BY <1>2, <2>1 DEF TypeOK
    <3>3. failures' \in 0..MaxFailures BY <1>2 DEF TypeOK
    <3>4. Alone(p) BY <1>2 DEF TypeOK, Alone
    <3> QED BY <3>1, <3>2, <3>3, <3>4 DEF HandlerTypes
  <2>3. pc'[p] = label /\ got'[p] = i BY <1>2 DEF TypeOK
  <2>4. CASE \E j \in Ids : Found(j, table)
    <3>1. table[i] # "free" BY <1>2, <2>4 DEF Scheduled, Found
    <3>2. sched' = table BY <1>2, <3>1
    <3> QED BY <1>2, <2>2, <2>3, <3>1, <3>2 DEF Added, Asked
  <2>5. CASE ~\E j \in Ids : Found(j, table)
    <3>1. Free(table) BY <2>5 DEF Found, Free
    <3>2. sched' = [table EXCEPT ![i] = "waiting"] /\ sched'[i] = "waiting"
      BY <1>2, <3>1 DEF Free
    <3> QED BY <1>2, <2>2, <2>3, <3>1, <3>2 DEF Added, Asked
  <2> QED BY <2>4, <2>5
<1> QED BY <1>1, <1>2 DEF CallSchedule

LEMMA Arming ==
    ASSUME TypeOK, NEW p \in Procs, Arm(p, "arming")
    PROVE  /\ HandlerTypes' /\ Alone(p) /\ Added(sched)
           /\ \/ Asked(p, "arming")
              \/ /\ Passed(p, "arming", sched)
                 /\ (owner # NoId /\ failures' = failures) \/ failures' = failures + 1
<1>1. sched \in [Ids -> States] BY DEF TypeOK, States
<1>2. CASE owner = NoId
  <2>1. CallSchedule(p, "arming", sched) BY <1>2 DEF Arm
  <2> QED BY <1>1, <2>1, Calling
<1>3. CASE owner # NoId
  <2>1. Goto(p, After(p, "arming")) /\ sched' = sched /\ failures' = failures
    BY <1>3 DEF Arm
  <2>2. After(p, "arming") \in Labels BY Afterwards, Parties DEF Labels
  <2>3. failures' \in 0..MaxFailures BY <2>1 DEF TypeOK
  <2> QED BY <1>1, <1>3, <2>1, <2>2, <2>3, Going DEF HandlerTypes, Added, Passed
<1> QED BY <1>2, <1>3

LEMMA Recovering ==
    ASSUME TypeOK, NEW p \in Procs, NEW row, Recovered(p, row)
    PROVE  /\ HandlerTypes' /\ Alone(p) /\ Added(sched) /\ owner' = row
           /\ \/ Asked(p, "rearming")
              \/ /\ Passed(p, "rearming", sched)
                 /\ \/ (row # NoId \/ Pending = <<>>) /\ failures' = failures
                    \/ failures' = failures + 1
<1>1. sched \in [Ids -> States] BY DEF TypeOK, States
<1>2. CASE Pending # <<>> /\ row = NoId
  <2>1. CallSchedule(p, "rearming", sched) BY <1>2 DEF Recovered
  <2> QED BY <1>1, <2>1, Calling DEF Recovered
<1>3. CASE ~(Pending # <<>> /\ row = NoId)
  <2>1. /\ Goto(p, After(p, "rearming")) /\ sched' = sched /\ failures' = failures
        /\ owner' = row
    BY <1>3 DEF Recovered
  <2>2. After(p, "rearming") \in Labels BY Afterwards, Parties DEF Labels
  <2>3. failures' \in 0..MaxFailures BY <2>1 DEF TypeOK
  <2> QED BY <1>1, <1>3, <2>1, <2>2, <2>3, Going DEF HandlerTypes, Added, Passed
<1> QED BY <1>2, <1>3

LEMMA Queued ==
    ASSUME TypeOK
    PROVE  /\ (Pending = <<>>) <=> (ready = <<>> /\ cooling = <<>>)
           /\ ready # <<>> => Oldest = Head(ready) /\ Oldest \in In(ready)
           /\ ready = <<>> => Pending = cooling
           /\ Pending # <<>> => Oldest \in Reactions
<1>1. ready \in Seq(Reactions) /\ cooling \in Seq(Reactions) BY DEF TypeOK
<1>2. /\ Len(Pending) = Len(ready) + Len(cooling) /\ Pending \in Seq(Reactions)
      /\ \A i \in 1..(Len(ready) + Len(cooling)) :
            Pending[i] = IF i <= Len(ready) THEN ready[i] ELSE cooling[i - Len(ready)]
      /\ Len(ready) \in Nat /\ Len(cooling) \in Nat
  BY <1>1, ConcatProperties, LenProperties DEF Pending
<1>3. (Pending = <<>>) <=> (ready = <<>> /\ cooling = <<>>)
  <2>1. /\ (ready = <<>>) <=> (Len(ready) = 0)
        /\ (cooling = <<>>) <=> (Len(cooling) = 0)
        /\ (Pending = <<>>) <=> (Len(Pending) = 0)
    BY <1>1, <1>2, EmptySeq
  <2> QED BY <1>2, <2>1
<1>4. ASSUME ready # <<>> PROVE Oldest = Head(ready) /\ Oldest \in In(ready)
  <2>1. Len(ready) >= 1 BY <1>1, <1>2, <1>4, EmptySeq
  <2>2. Pending # <<>> BY <1>3, <1>4
  <2>3. Head(Pending) = Pending[1] /\ Head(ready) = ready[1]
    BY <1>1, <1>2, <1>4, <2>2, HeadTailProperties
  <2>4. Pending[1] = ready[1] BY <1>2, <2>1
  <2> QED BY <1>2, <2>1, <2>3, <2>4 DEF Oldest, In
<1>5. ready = <<>> => Pending = cooling BY <1>1, ConcatEmptySeq DEF Pending
<1>6. Pending # <<>> => Oldest \in Reactions
  BY <1>2, HeadTailProperties DEF Oldest
<1> QED BY <1>3, <1>4, <1>5, <1>6

-----------------------------------------------------------------------------
(* The rows *)

LEMMA Settled ==
    ASSUME TypeOK, RowsOnce, NEW r \in Reactions, NEW status \in Status,
           Settle(r, status)
    PROVE  /\ outbox' \in [Reactions -> Status]
           /\ ready' \in Seq(Reactions) /\ cooling' \in Seq(Reactions)
           /\ Distinct(ready') /\ Distinct(cooling')
           /\ In(ready') = In(ready) \ {r} /\ In(cooling') = In(cooling) \ {r}
<1>1. /\ ready \in Seq(Reactions) /\ cooling \in Seq(Reactions)
      /\ Distinct(ready) /\ Distinct(cooling)
  BY DEF TypeOK, RowsOnce
<1>2. ready' = RemoveFirst(ready, r) /\ cooling' = RemoveFirst(cooling, r) BY DEF Settle
<1>3. outbox' \in [Reactions -> Status] BY DEF Settle, TypeOK
<1> QED BY <1>1, <1>2, <1>3, Taken

LEMMA Retried ==
    ASSUME TypeOK, RowsOnce, current \in In(ready), Retry
    PROVE  /\ ready' \in Seq(Reactions) /\ cooling' \in Seq(Reactions)
           /\ Distinct(ready') /\ Distinct(cooling')
           /\ \A r \in In(ready') : r \notin In(cooling')
           /\ In(ready') \cup In(cooling') = In(ready) \cup In(cooling)
<1> DEFINE others == RemoveFirst(ready, current)
<1>1. /\ ready \in Seq(Reactions) /\ cooling \in Seq(Reactions)
      /\ Distinct(ready) /\ Distinct(cooling)
      /\ \A r \in In(ready) : r \notin In(cooling)
  BY DEF TypeOK, RowsOnce
<1>2. current \in Reactions BY <1>1, InSet
<1>3. others \in Seq(Reactions) /\ Distinct(others) /\ In(others) = In(ready) \ {current}
  BY <1>1, Taken
<1> HIDE DEF others
<1>4. CASE /\ ready' = others
           /\ \E k \in 0..Len(cooling) : cooling' = InsertAt(cooling, k + 1, current)
  <2>1. /\ cooling' \in Seq(Reactions) /\ In(cooling') = In(cooling) \cup {current}
        /\ Distinct(cooling')
    <3>1. PICK k \in 0..Len(cooling) : cooling' = InsertAt(cooling, k + 1, current)
      BY <1>4
    <3>2. current \notin In(cooling) BY <1>1
    <3> QED BY <1>1, <1>2, <3>1, <3>2, Inserted
  <2> QED BY <1>1, <1>3, <1>4, <2>1
<1>5. CASE /\ \E k \in 0..Len(others) : ready' = InsertAt(others, k + 1, current)
           /\ UNCHANGED cooling
  <2>1. /\ ready' \in Seq(Reactions) /\ In(ready') = In(others) \cup {current}
        /\ Distinct(ready')
    <3>1. PICK k \in 0..Len(others) : ready' = InsertAt(others, k + 1, current) BY <1>5
    <3> QED BY <1>2, <1>3, <3>1, Inserted
  <2> QED BY <1>1, <1>3, <1>5, <2>1
<1> QED BY <1>4, <1>5 DEF Retry, others

\* What the end of a request leaves of the rows.
RowsLeft ==
    /\ outbox' \in [Reactions -> Status]
    /\ ready' \in Seq(Reactions) /\ cooling' \in Seq(Reactions)
    /\ Distinct(ready') /\ Distinct(cooling')
    /\ \A r \in In(ready') : r \notin In(cooling')
    /\ In(ready') \cup In(cooling') \subseteq In(ready) \cup In(cooling)

LEMMA Ended ==
    ASSUME TypeOK, RowsOnce, pc[Alarm] \in {"lookup", "slack"},
           \/ \E retryable \in BOOLEAN : Failed(retryable)
           \/ \E status \in Status : Finished(status)
    PROVE  /\ RowsLeft
           /\ current \in Reactions /\ attempts[current] < MaxAttempts
           /\ attempts' = [attempts EXCEPT ![current] = @ + 1]
           /\ \A r \in In(ready') \cup In(cooling') : attempts'[r] < MaxAttempts
<1>1. current \in In(ready) BY DEF RowsOnce
<1>2. current \in Reactions /\ attempts[current] < MaxAttempts
  BY <1>1, InSet DEF TypeOK, RowsOnce
<1>3. /\ attempts \in [Reactions -> 0..MaxAttempts] /\ MaxAttempts \in Nat
      /\ outbox \in [Reactions -> Status]
  BY QueueAssumption DEF TypeOK
<1>4. \A r \in In(ready) \cup In(cooling) : r \in Reactions /\ attempts[r] < MaxAttempts
  BY InSet DEF TypeOK, RowsOnce
<1>5. ASSUME NEW status \in Status, Finished(status)
      PROVE  /\ RowsLeft /\ attempts' = [attempts EXCEPT ![current] = @ + 1]
             /\ \A r \in In(ready') \cup In(cooling') : attempts'[r] < MaxAttempts
  <2>1. Settle(current, status) /\ attempts' = [attempts EXCEPT ![current] = @ + 1]
    BY <1>5 DEF Finished
  <2>2. /\ outbox' \in [Reactions -> Status]
        /\ ready' \in Seq(Reactions) /\ cooling' \in Seq(Reactions)
        /\ Distinct(ready') /\ Distinct(cooling')
        /\ In(ready') = In(ready) \ {current} /\ In(cooling') = In(cooling) \ {current}
    BY <1>2, <2>1, Settled
  <2>3. \A r \in In(ready') : r \notin In(cooling') BY <2>2 DEF RowsOnce
  <2>4. ASSUME NEW r \in In(ready') \cup In(cooling') PROVE attempts'[r] < MaxAttempts
    BY <1>3, <1>4, <2>1, <2>2
  <2> QED BY <2>1, <2>2, <2>3, <2>4 DEF RowsLeft
<1>6. ASSUME NEW retryable \in BOOLEAN, Failed(retryable)
      PROVE  /\ RowsLeft /\ attempts' = [attempts EXCEPT ![current] = @ + 1]
             /\ \A r \in In(ready') \cup In(cooling') : attempts'[r] < MaxAttempts
  <2>1. CASE retryable /\ attempts[current] + 1 < MaxAttempts
    <3>1. Retry /\ outbox' = outbox /\ attempts' = [attempts EXCEPT ![current] = @ + 1]
      BY <1>6, <2>1 DEF Failed
    <3>2. RowsLeft BY <1>1, <1>3, <3>1, Retried DEF RowsLeft
    <3>3. In(ready') \cup In(cooling') = In(ready) \cup In(cooling) BY <1>1, <3>1, Retried
    <3>4. ASSUME NEW r \in In(ready') \cup In(cooling') PROVE attempts'[r] < MaxAttempts
      BY <1>2, <1>3, <1>4, <2>1, <3>1, <3>3
    <3> QED BY <3>1, <3>2, <3>4
  <2>2. CASE ~(retryable /\ attempts[current] + 1 < MaxAttempts)
    <3>1. Finished("failed") BY <1>6, <2>2 DEF Failed
    <3>2. "failed" \in Status BY DEF Status
    <3> QED BY <1>5, <3>1, <3>2
  <2> QED BY <2>1, <2>2
<1> QED BY <1>2, <1>5, <1>6

LEMMA RowsInit ==
    ASSUME Init
    PROVE  Types /\ RowsOnce
<1>1. <<>> \in Seq(Reactions) /\ In(<<>>) = {} /\ Distinct(<<>>)
  BY EmptySeq DEF In, Distinct
<1>2. TypeOK
  <2>1. 0 \in 0..MaxAttempts /\ 0 \in 0..Open /\ 0 \in 0..MaxCrashes
        /\ 0 \in 0..MaxFailures /\ 0 \in 0..MaxResets /\ 0 \in Nat
    BY QueueAssumption DEF Open
  <2>2. outbox \in [Reactions -> Status] /\ pc \in [Procs -> Labels]
    BY DEF Init, Status, Labels
  <2> QED BY <1>1, <2>1, <2>2 DEF Init, TypeOK
<1>3. Types BY <1>2, Parties DEF Init, Types, RequestLabels, AlarmLabels, StartLabels, Labels
<1>4. RowsOnce BY <1>1, Parties DEF Init, RowsOnce
<1> QED BY <1>3, <1>4

LEMMA EnqueueRows ==
    ASSUME Types, RowsOnce, NEW r \in Reactions, Enqueue(r)
    PROVE  Types' /\ RowsOnce'
<1>1. /\ pc[r] = "idle" /\ r \in Procs
      /\ UNCHANGED <<attempts, stale, owner, fired, current, calls, crashes, resets>>
  BY Parties DEF Enqueue
<1>2. /\ r \notin In(ready) /\ r \notin In(cooling) /\ attempts[r] = 0 /\ MaxAttempts \in Nat \ {0}
  BY <1>1, QueueAssumption DEF RowsOnce
<1>3. TypeOK BY DEF Types
<1>4. CASE Insert(r) /\ breaker' \in 0..Open
  <2>1. /\ HandlerTypes' /\ Alone(r) /\ pc'[r] \in {"arming", "done"}
    <3>1. Arm(r, "arming") BY <1>4 DEF Insert
    <3>2. /\ HandlerTypes' /\ Alone(r)
          /\ Asked(r, "arming") \/ Passed(r, "arming", sched)
      BY <1>1, <1>3, <3>1, Arming
    <3>3. After(r, "arming") = "done" BY Afterwards
    <3> QED BY <3>2, <3>3 DEF Asked, Passed
  <2>2. /\ ready' \in Seq(Reactions) /\ In(ready') = In(ready) \cup {r} /\ Distinct(ready')
    <3>1. ready' = Append(ready, r) BY <1>4 DEF Insert
    <3> QED BY <1>2, <1>3, <3>1, Appended DEF TypeOK, RowsOnce
  <2>3. cooling' = cooling /\ outbox' \in [Reactions -> Status]
    BY <1>3, <1>4 DEF Insert, TypeOK, Status
  <2>4. TypeOK'
    BY <1>1, <1>3, <1>4, <2>1, <2>2, <2>3 DEF TypeOK, HandlerTypes, States
  <2>5. Types' BY <1>1, <2>1, <2>4, Parties DEF Types, Alone, RequestLabels
  <2>6. RowsOnce'
    <3>1. pc'[Alarm] = pc[Alarm] BY <1>1, <2>1, Parties DEF Alone
    <3>2. \A q \in Reactions : /\ pc'[q] = "idle" => pc[q] = "idle"
                               /\ pc[q] # "idle" => pc'[q] # "idle"
      BY <1>1, <2>1, Parties DEF Alone
    <3>3. \A q \in In(ready') : q \notin In(cooling') BY <1>2, <2>2, <2>3 DEF RowsOnce
    <3>4. ASSUME NEW q \in In(ready') \cup In(cooling')
          PROVE  pc'[q] # "idle" /\ attempts'[q] < MaxAttempts
      <4>1. CASE q = r BY <1>1, <1>2, <2>1, <4>1
      <4>2. CASE q # r
        <5>1. q \in In(ready) \cup In(cooling) BY <2>2, <2>3, <4>2
        <5>2. q \in Reactions BY <1>3, <5>1, InSet DEF TypeOK
        <5> QED BY <1>1, <3>2, <5>1, <5>2 DEF RowsOnce
      <4> QED BY <4>1, <4>2
    <3> QED BY <1>1, <2>2, <2>3, <3>1, <3>2, <3>3, <3>4 DEF RowsOnce
  <2> QED BY <2>5, <2>6
<1>5. CASE /\ breaker' = Open /\ outbox' = [outbox EXCEPT ![r] = "suppressed"]
           /\ Goto(r, "done") /\ UNCHANGED <<ready, cooling, sched, failures>>
  <2>1. /\ Alone(r) /\ pc'[r] = "done"
        /\ pc' \in [Procs -> Labels] /\ got' \in [Procs -> Ids \cup {NoId}]
    BY <1>1, <1>3, <1>5, Going DEF Labels
  <2>2. outbox' \in [Reactions -> Status] /\ breaker' \in 0..Open
    BY <1>3, <1>5, QueueAssumption DEF TypeOK, Status, Open
  <2>3. TypeOK' BY <1>1, <1>3, <1>5, <2>1, <2>2 DEF TypeOK
  <2>4. Types' BY <1>1, <2>1, <2>3, Parties DEF Types, Alone, RequestLabels
  <2>5. pc'[Alarm] = pc[Alarm] BY <1>1, <2>1, Parties DEF Alone
  <2>6. \A q \in Procs : q # r => pc'[q] = pc[q] BY <2>1 DEF Alone
  <2>7. \A q \in In(ready) \cup In(cooling) : q \in Procs /\ q # r
    BY <1>2, <1>3, Parties, InSet DEF TypeOK
  <2>8. RowsOnce' BY <1>1, <1>5, <2>1, <2>5, <2>6, <2>7, Parties DEF RowsOnce
  <2> QED BY <2>4, <2>8
<1>7. CASE r \notin Acks /\ Insert(r) /\ UNCHANGED breaker
  BY <1>3, <1>4, <1>7 DEF TypeOK
<1>8. CASE r \in Acks /\ breaker < AckLimit /\ Insert(r) /\ breaker' = breaker + 1
  <2>1. breaker' \in 0..Open BY <1>3, <1>8, QueueAssumption DEF TypeOK, Open
  <2> QED BY <1>4, <1>8, <2>1
<1> QED BY <1>5, <1>7, <1>8 DEF Enqueue

LEMMA Labelled ==
    ASSUME Types, TypeOK', NEW p \in Procs, Alone(p),
           p \in Reactions => pc'[p] \in RequestLabels,
           p = Alarm => pc'[p] \in AlarmLabels,
           p = Start => pc'[p] \in StartLabels
    PROVE  Types'
  BY Parties DEF Types, Alone

LEMMA RowsKept ==
    ASSUME Types, RowsOnce, UNCHANGED <<attempts, ready, cooling>>,
           \A r \in Reactions : pc'[r] = "idle" <=> pc[r] = "idle",
           pc'[Alarm] \in {"lookup", "slack"} => current' \in In(ready)
    PROVE  RowsOnce'
<1>1. In(ready) \subseteq Reactions /\ In(cooling) \subseteq Reactions
  BY InSet DEF Types, TypeOK
<1> QED BY <1>1 DEF RowsOnce

LEMMA ArmedRows ==
    ASSUME Types, RowsOnce, NEW p \in Procs, Armed(p)
    PROVE  Types' /\ RowsOnce'
<1>1. TypeOK BY DEF Types
<1>2. /\ pc[p] \in {"arming", "rearming"} /\ Goto(p, After(p, pc[p]))
      /\ owner' \in Ids \cup {NoId}
      /\ UNCHANGED <<rows, clock, sched, fired, current, history>>
  BY <1>1 DEF Armed, TypeOK
<1>3. /\ p \in Reactions => After(p, pc[p]) = "done"
      /\ p = Alarm => After(p, pc[p]) \in {"recover", "returning"}
      /\ p = Start => After(p, pc[p]) = "idle"
  BY <1>2, Afterwards
<1>4. After(p, pc[p]) \in Labels BY <1>3, Parties DEF Labels
<1>5. /\ Alone(p) /\ pc'[p] = After(p, pc[p])
      /\ pc' \in [Procs -> Labels] /\ got' \in [Procs -> Ids \cup {NoId}]
  BY <1>1, <1>2, <1>4, Going
<1>6. TypeOK' BY <1>1, <1>2, <1>5 DEF TypeOK, rows, clock, history
<1>7. Types'
  BY <1>3, <1>5, <1>6, Labelled DEF RequestLabels, AlarmLabels, StartLabels, Labels
<1>8. RowsOnce'
  <2>1. UNCHANGED <<attempts, ready, cooling>> /\ current' = current
    BY <1>2 DEF rows
  <2>2. \A r \in Reactions : pc'[r] = "idle" <=> pc[r] = "idle"
    BY <1>2, <1>3, <1>5, Parties DEF Alone
  <2>3. pc'[Alarm] \in {"lookup", "slack"} => pc'[Alarm] = pc[Alarm]
    BY <1>3, <1>5, Parties DEF Alone
  <2>4. pc'[Alarm] \in {"lookup", "slack"} => current' \in In(ready)
    BY <2>1, <2>3 DEF RowsOnce
  <2> QED BY <2>1, <2>2, <2>4, RowsKept
<1> QED BY <1>7, <1>8

\* What a step of recoverPassiveReactionQueue can leave.
LEMMA RecoverStep ==
    ASSUME Types, NEW p \in Procs, Recover(p)
    PROVE  /\ p \in {Alarm, Start} /\ (Up \/ p = Start)
           /\ UNCHANGED <<rows, clock, fired, current, calls, crashes, resets>>
           /\ HandlerTypes' /\ Alone(p) /\ owner' \in Ids \cup {NoId}
           /\ pc[p] \in {"recover", "found", "lost"}
           /\ \/ pc[p] = "recover" /\ owner = NoId /\ Recovered(p, NoId)
              \/ /\ pc[p] = "recover" /\ owner # NoId
                 /\ pc'[p] = IF Found(owner, sched) THEN "found" ELSE "lost"
                 /\ got'[p] = owner /\ UNCHANGED <<owner, sched, failures>>
              \/ pc[p] = "found" /\ Recovered(p, owner)
              \/ pc[p] = "lost" /\ Recovered(p, IF owner = got[p] THEN NoId ELSE owner)
           /\ pc'[p] \in {"found", "lost", "rearming", After(p, "rearming")}
<1>1. TypeOK BY DEF Types
<1>2. /\ Up \/ p = Start
      /\ UNCHANGED <<rows, clock, fired, current, calls, crashes, resets>>
      /\ pc[p] \in {"recover", "found", "lost"}
  BY DEF Recover
<1>3. p \in {Alarm, Start} BY <1>2, Parties DEF Types, RequestLabels
<1>4. ASSUME NEW row \in Ids \cup {NoId}, Recovered(p, row)
      PROVE  /\ HandlerTypes' /\ Alone(p) /\ owner' \in Ids \cup {NoId}
             /\ pc'[p] \in {"rearming", After(p, "rearming")}
  <2>1. /\ HandlerTypes' /\ Alone(p) /\ owner' = row
        /\ Asked(p, "rearming") \/ Passed(p, "rearming", sched)
    BY <1>1, <1>4, Recovering
  <2> QED BY <1>4, <2>1 DEF Asked, Passed
<1>5. CASE pc[p] = "recover" /\ owner = NoId /\ Recovered(p, NoId)
  BY <1>2, <1>3, <1>4, <1>5
<1>6. CASE /\ pc[p] = "recover" /\ owner # NoId
           /\ pc' = [pc EXCEPT ![p] = IF Found(owner, sched) THEN "found" ELSE "lost"]
           /\ got' = [got EXCEPT ![p] = owner] /\ UNCHANGED <<owner, sched, failures>>
  <2>1. /\ pc'[p] = (IF Found(owner, sched) THEN "found" ELSE "lost") /\ got'[p] = owner
        /\ Alone(p)
    BY <1>1, <1>6 DEF TypeOK, Alone
  <2>2. HandlerTypes'
    BY <1>1, <1>6 DEF TypeOK, HandlerTypes, States, Labels
  <2>3. owner' \in Ids \cup {NoId} BY <1>1, <1>6 DEF TypeOK
  <2> QED BY <1>2, <1>3, <1>6, <2>1, <2>2, <2>3
<1>7. CASE pc[p] = "found" /\ Recovered(p, owner)
  <2>1. owner \in Ids \cup {NoId} BY <1>1 DEF TypeOK
  <2> QED BY <1>2, <1>3, <1>4, <1>7, <2>1
<1>8. CASE pc[p] = "lost" /\ Recovered(p, IF owner = got[p] THEN NoId ELSE owner)
  <2> DEFINE row == IF owner = got[p] THEN NoId ELSE owner
  <2>1. row \in Ids \cup {NoId} /\ Recovered(p, row) BY <1>1, <1>8 DEF TypeOK
  <2> HIDE DEF row
  <2>2. /\ HandlerTypes' /\ Alone(p) /\ owner' \in Ids \cup {NoId}
        /\ pc'[p] \in {"rearming", After(p, "rearming")}
    BY <2>1, <1>4
  <2> QED BY <1>2, <1>3, <1>8, <2>2
<1> QED BY <1>5, <1>6, <1>7, <1>8 DEF Recover

LEMMA RecoverRows ==
    ASSUME Types, RowsOnce, NEW p \in Procs, Recover(p)
    PROVE  Types' /\ RowsOnce'
<1>1. TypeOK BY DEF Types
<1>2. /\ p \in {Alarm, Start}
      /\ UNCHANGED <<rows, clock, fired, current, calls, crashes, resets>>
      /\ HandlerTypes' /\ Alone(p) /\ owner' \in Ids \cup {NoId}
      /\ pc'[p] \in {"found", "lost", "rearming", After(p, "rearming")}
  BY RecoverStep
<1>3. After(Alarm, "rearming") = "returning" /\ After(Start, "rearming") = "idle"
  BY Afterwards
<1>4. TypeOK' BY <1>1, <1>2 DEF TypeOK, HandlerTypes, States, rows, clock
<1>5. Types'
  BY <1>2, <1>3, <1>4, Parties, Labelled DEF RequestLabels, AlarmLabels, StartLabels, Labels
<1>6. RowsOnce'
  <2>1. UNCHANGED <<attempts, ready, cooling>> /\ current' = current BY <1>2 DEF rows
  <2>2. \A r \in Reactions : pc'[r] = "idle" <=> pc[r] = "idle"
    BY <1>2, Parties DEF Alone
  <2>3. pc'[Alarm] \in {"lookup", "slack"} => pc'[Alarm] = pc[Alarm]
    BY <1>2, <1>3, Parties DEF Alone
  <2>4. pc'[Alarm] \in {"lookup", "slack"} => current' \in In(ready)
    BY <2>1, <2>3 DEF RowsOnce
  <2> QED BY <2>1, <2>2, <2>4, RowsKept
<1> QED BY <1>5, <1>6

Running(i) == [sched EXCEPT ![i] = "running"]

\* What the callback can leave at its first await.
LEMMA FireStep ==
    ASSUME Types, RowsOnce, NEW i \in Ids, Fire(i)
    PROVE  /\ Due(i) /\ pc[Alarm] = "idle" /\ Up /\ fired' = i
           /\ owner' = IF owner = i THEN NoId ELSE owner
           /\ UNCHANGED <<attempts, clock, calls, crashes, resets>>
           /\ RowsLeft /\ HandlerTypes' /\ Alone(Alarm) /\ Added(Running(i))
           /\ \/ /\ pc'[Alarm] = "recover" /\ sched' = Running(i)
                 /\ current' = NoReaction
              \/ pc'[Alarm] = "arming" /\ Asked(Alarm, "arming") /\ current' = NoReaction
              \/ /\ pc'[Alarm] = "lookup" /\ sched' = Running(i)
                 /\ ready # <<>> /\ ready' = ready /\ current' = Oldest
<1>1. TypeOK BY DEF Types
<1>2. /\ Due(i) /\ pc[Alarm] = "idle" /\ Up /\ fired' = i
      /\ owner' = IF owner = i THEN NoId ELSE owner
      /\ UNCHANGED <<clock, calls, crashes, resets>>
      /\ current' = IF pc'[Alarm] = "lookup" THEN Oldest ELSE NoReaction
  BY DEF Fire
<1>3. Running(i) \in [Ids -> States] BY <1>1 DEF TypeOK, Running, States
<1>4. UNCHANGED <<outbox, ready, cooling>> => RowsLeft
  BY <1>1 DEF TypeOK, RowsOnce, RowsLeft
<1>5. Alarm \in Procs /\ After(Alarm, "arming") = "recover" BY Parties, Afterwards
<1>6. ASSUME Goto(Alarm, "recover") \/ Goto(Alarm, "lookup"), sched' = Running(i),
             failures' = failures
      PROVE  /\ HandlerTypes' /\ Alone(Alarm) /\ Added(Running(i))
             /\ \/ Goto(Alarm, "recover") /\ pc'[Alarm] = "recover"
                \/ Goto(Alarm, "lookup") /\ pc'[Alarm] = "lookup"
  <2>1. "recover" \in Labels /\ "lookup" \in Labels BY DEF Labels
  <2>2. /\ Alone(Alarm)
        /\ pc' \in [Procs -> Labels] /\ got' \in [Procs -> Ids \cup {NoId}]
        /\ \/ Goto(Alarm, "recover") /\ pc'[Alarm] = "recover"
           \/ Goto(Alarm, "lookup") /\ pc'[Alarm] = "lookup"
    BY <1>1, <1>5, <1>6, <2>1, Going
  <2>3. failures' \in 0..MaxFailures BY <1>1, <1>6 DEF TypeOK
  <2> QED BY <1>3, <1>6, <2>2, <2>3 DEF HandlerTypes, Added
<1>7. ASSUME CallSchedule(Alarm, "arming", Running(i))
      PROVE  /\ HandlerTypes' /\ Alone(Alarm) /\ Added(Running(i))
             /\ \/ pc'[Alarm] = "recover" /\ sched' = Running(i)
                \/ pc'[Alarm] = "arming" /\ Asked(Alarm, "arming")
  <2>1. /\ HandlerTypes' /\ Alone(Alarm) /\ Added(Running(i))
        /\ Asked(Alarm, "arming") \/ Passed(Alarm, "arming", Running(i))
    BY <1>1, <1>3, <1>5, <1>7, Calling
  <2> QED BY <1>5, <2>1 DEF Asked, Passed
<1>8. CASE /\ sched' = Running(i) /\ Goto(Alarm, "recover")
           /\ UNCHANGED <<rows, failures>>
  <2>1. /\ HandlerTypes' /\ Alone(Alarm) /\ Added(Running(i)) /\ pc'[Alarm] = "recover"
    BY <1>5, <1>1, <1>6, <1>8, Going DEF Labels
  <2> QED BY <1>2, <1>4, <1>8, <2>1 DEF rows
<1>9. CASE /\ Pending # <<>> /\ Settle(Oldest, "expired")
           /\ CallSchedule(Alarm, "arming", Running(i)) /\ UNCHANGED attempts
  <2>1. RowsLeft
    <3>1. Oldest \in Reactions /\ "expired" \in Status BY <1>1, <1>9, Queued DEF Status
    <3> QED BY <1>1, <1>9, <3>1, Settled DEF RowsLeft, RowsOnce
  <2> QED BY <1>2, <1>7, <1>9, <2>1
<1>10. CASE CallSchedule(Alarm, "arming", Running(i)) /\ UNCHANGED rows
  BY <1>2, <1>4, <1>7, <1>10 DEF rows
<1>11. CASE /\ ready # <<>> /\ sched' = Running(i) /\ Goto(Alarm, "lookup")
            /\ UNCHANGED <<rows, failures>>
  <2>1. /\ HandlerTypes' /\ Alone(Alarm) /\ Added(Running(i)) /\ pc'[Alarm] = "lookup"
    BY <1>5, <1>1, <1>6, <1>11, Going DEF Labels
  <2> QED BY <1>2, <1>4, <1>11, <2>1 DEF rows
<1> QED BY <1>8, <1>9, <1>10, <1>11 DEF Fire, Running

LEMMA FireRows ==
    ASSUME Types, RowsOnce, NEW i \in Ids, Fire(i)
    PROVE  Types' /\ RowsOnce'
<1>1. TypeOK BY DEF Types
<1>2. /\ fired' = i /\ UNCHANGED <<attempts, clock, calls, crashes, resets>>
      /\ RowsLeft /\ HandlerTypes' /\ Alone(Alarm)
      /\ pc'[Alarm] \in {"recover", "arming", "lookup"}
      /\ \/ pc'[Alarm] # "lookup" /\ current' = NoReaction
         \/ ready # <<>> /\ ready' = ready /\ current' = Oldest
      /\ owner' = IF owner = i THEN NoId ELSE owner
  BY FireStep
<1>3. current' \in Reactions \cup {NoReaction} /\ (current' = NoReaction \/ current' \in In(ready'))
  <2>1. ready # <<>> => Oldest \in In(ready) BY <1>1, Queued
  <2>2. In(ready) \subseteq Reactions BY <1>1, InSet DEF TypeOK
  <2> QED BY <1>2, <2>1, <2>2
<1>4. TypeOK'
  BY <1>1, <1>2, <1>3 DEF TypeOK, RowsLeft, HandlerTypes, States, clock
<1>5. Types' BY <1>2, <1>4, Parties, Labelled DEF AlarmLabels, Labels
<1>6. RowsOnce'
  <2>1. \A r \in Reactions : pc'[r] = pc[r] BY <1>2, Parties DEF Alone
  <2>2. In(ready) \subseteq Reactions /\ In(cooling) \subseteq Reactions
    BY <1>1, InSet DEF TypeOK
  <2>3. pc'[Alarm] \in {"lookup", "slack"} => current' \in In(ready')
    BY <1>2, <1>1, Queued
  <2> QED BY <1>2, <2>1, <2>2, <2>3 DEF RowsOnce, RowsLeft
<1> QED BY <1>5, <1>6

\* What the end of a request can leave: Lookup's second half, and Answered.
LEMMA EndStep ==
    ASSUME Types, RowsOnce, pc[Alarm] \in {"lookup", "slack"},
           \/ \E retryable \in BOOLEAN : Failed(retryable)
           \/ \E status \in Status : Finished(status),
           Arm(Alarm, "arming"), current' = NoReaction,
           UNCHANGED <<clock, owner, fired, calls, crashes, resets>>
    PROVE  /\ RowsLeft /\ HandlerTypes' /\ Alone(Alarm) /\ Added(sched)
           /\ current \in Reactions /\ attempts' = [attempts EXCEPT ![current] = @ + 1]
           /\ \/ pc'[Alarm] = "arming" /\ Asked(Alarm, "arming")
              \/ /\ pc'[Alarm] = "recover" /\ sched' = sched
           /\ Types' /\ RowsOnce'
<1>1. TypeOK /\ Alarm \in Procs /\ After(Alarm, "arming") = "recover"
  BY Parties, Afterwards DEF Types
<1>2. /\ RowsLeft
      /\ current \in Reactions /\ attempts[current] < MaxAttempts
      /\ attempts' = [attempts EXCEPT ![current] = @ + 1]
      /\ \A r \in In(ready') \cup In(cooling') : attempts'[r] < MaxAttempts
  BY <1>1, Ended
<1>3. /\ HandlerTypes' /\ Alone(Alarm) /\ Added(sched)
      /\ \/ pc'[Alarm] = "arming" /\ Asked(Alarm, "arming")
         \/ pc'[Alarm] = "recover" /\ sched' = sched
  BY <1>1, Arming DEF Asked, Passed
<1>4. attempts' \in [Reactions -> 0..MaxAttempts]
  BY <1>1, <1>2, QueueAssumption DEF TypeOK
<1>5. TypeOK' BY <1>1, <1>2, <1>3, <1>4 DEF TypeOK, RowsLeft, HandlerTypes, States, clock
<1>6. Types' BY <1>1, <1>3, <1>5, Parties, Labelled DEF AlarmLabels, Labels
<1>7. RowsOnce'
  <2>1. \A r \in Reactions : pc'[r] = pc[r] BY <1>3, Parties DEF Alone
  <2>2. In(ready) \subseteq Reactions /\ In(cooling) \subseteq Reactions
    BY <1>1, InSet DEF TypeOK
  <2>3. pc[current] # "idle" BY <2>2 DEF RowsOnce
  <2>4. \A r \in Reactions : pc'[r] = "idle" => attempts'[r] = 0
    BY <1>1, <1>2, <2>1, <2>3 DEF RowsOnce, TypeOK
  <2> QED BY <1>2, <1>3, <2>1, <2>2, <2>4 DEF RowsOnce, RowsLeft
<1> QED BY <1>2, <1>3, <1>6, <1>7

LEMMA LookupRows ==
    ASSUME Types, RowsOnce, Lookup
    PROVE  Types' /\ RowsOnce'
<1>1. pc[Alarm] = "lookup" /\ UNCHANGED <<clock, owner, fired, crashes, resets>>
  BY DEF Lookup
<1>2. TypeOK /\ Alarm \in Procs BY Parties DEF Types
<1>3. CASE /\ calls' = [calls EXCEPT ![current] = @ + 1]
           /\ Goto(Alarm, "slack")
           /\ UNCHANGED <<rows, sched, current, failures>>
  <2>1. /\ Alone(Alarm) /\ pc'[Alarm] = "slack"
        /\ pc' \in [Procs -> Labels] /\ got' \in [Procs -> Ids \cup {NoId}]
    BY <1>2, <1>3, Going DEF Labels
  <2>2. current \in In(ready) BY <1>1 DEF RowsOnce
  <2>3. current \in Reactions BY <1>2, <2>2, InSet DEF TypeOK
  <2>4. calls' \in [Reactions -> Nat] BY <1>2, <1>3, <2>3 DEF TypeOK
  <2>5. TypeOK' BY <1>1, <1>2, <1>3, <2>1, <2>4 DEF TypeOK, rows, clock
  <2>6. Types' BY <1>2, <2>1, <2>5, Parties, Labelled DEF AlarmLabels, Labels
  <2>7. \A r \in Reactions : pc'[r] = pc[r] BY <2>1, Parties DEF Alone
  <2>8. RowsOnce' BY <1>3, <2>2, <2>7, RowsKept DEF rows
  <2> QED BY <2>6, <2>8
<1>4. CASE /\ Failed(TRUE) \/ Finished("failed")
           /\ Arm(Alarm, "arming") /\ current' = NoReaction /\ UNCHANGED calls
  <2>1. "failed" \in Status /\ TRUE \in BOOLEAN BY DEF Status
  <2> QED BY <1>1, <1>4, <2>1, EndStep
<1> QED BY <1>3, <1>4 DEF Lookup

LEMMA AnsweredRows ==
    ASSUME Types, RowsOnce, Answered
    PROVE  Types' /\ RowsOnce'
<1>1. "delivered" \in Status BY DEF Status
<1> QED BY <1>1, EndStep DEF Answered

LEMMA ReturnRows ==
    ASSUME Types, RowsOnce, Return
    PROVE  Types' /\ RowsOnce'
<1>1. TypeOK /\ Alarm \in Procs BY Parties DEF Types
<1>2. /\ Alone(Alarm) /\ pc'[Alarm] = "idle"
      /\ pc' \in [Procs -> Labels] /\ got' \in [Procs -> Ids \cup {NoId}]
  BY <1>1, Going DEF Return, Labels
<1>3. TypeOK' BY <1>1, <1>2 DEF Return, TypeOK, rows, clock, history
<1>4. Types' BY <1>1, <1>2, <1>3, Parties, Labelled DEF AlarmLabels, Labels
<1>5. \A r \in Reactions : pc'[r] = pc[r] BY <1>2, Parties DEF Alone
<1>6. RowsOnce' BY <1>2, <1>5, RowsKept DEF Return, rows
<1> QED BY <1>4, <1>6

LEMMA ClockRows ==
    ASSUME Types, RowsOnce, (\E r \in Reactions : Expire(r)) \/ HourPasses \/ Reset
    PROVE  Types' /\ RowsOnce'
<1>1. TypeOK BY DEF Types
<1>2. UNCHANGED <<rows, handlers, fired, current, calls, crashes, failures>>
  BY DEF Expire, HourPasses, Reset, wakeups, history
<1>3. TypeOK'
  <2>1. CASE \E r \in Reactions : Expire(r)
    BY <1>1, <2>1 DEF TypeOK, Expire, rows, wakeups, handlers, history
  <2>2. CASE HourPasses
    <3>1. 0 \in 0..Open BY QueueAssumption DEF Open
    <3> QED BY <1>1, <2>2, <3>1 DEF TypeOK, HourPasses, rows, wakeups, handlers, history
  <2>3. CASE Reset
    <3>1. resets' \in 0..MaxResets BY <1>1, <2>3, QueueAssumption DEF TypeOK, Reset
    <3>2. sched' \in [Ids -> {"free", "waiting", "running"}] BY <1>1, <2>3 DEF TypeOK, Reset
    <3> QED BY <1>1, <2>3, <3>1, <3>2 DEF TypeOK, Reset, rows, clock, handlers
  <2> QED BY <2>1, <2>2, <2>3
<1>4. Types' BY <1>2, <1>3 DEF Types, handlers
<1>5. RowsOnce' BY <1>2, RowsKept DEF rows, handlers, RowsOnce
<1> QED BY <1>4, <1>5

LEMMA CoolDownRows ==
    ASSUME Types, RowsOnce, CoolDown
    PROVE  /\ Types' /\ RowsOnce'
           /\ Pending' # <<>>
<1>1. /\ TypeOK /\ cooling # <<>> /\ cooling \in Seq(Reactions) /\ ready \in Seq(Reactions)
      /\ ready' = Append(ready, Head(cooling)) /\ cooling' = Tail(cooling)
      /\ UNCHANGED <<outbox, attempts, clock, wakeups, handlers, history>>
  BY DEF Types, TypeOK, CoolDown
<1>2. /\ Head(cooling) \in In(cooling) /\ Head(cooling) \in Reactions
      /\ cooling' \in Seq(Reactions) /\ Distinct(cooling')
      /\ In(cooling') = In(cooling) \ {Head(cooling)}
  BY <1>1, HeadTaken DEF RowsOnce
<1>3. /\ ready' \in Seq(Reactions) /\ In(ready') = In(ready) \cup {Head(cooling)}
      /\ Distinct(ready')
  BY <1>1, <1>2, Appended DEF RowsOnce
<1>4. TypeOK' BY <1>1, <1>2, <1>3 DEF TypeOK, clock, wakeups, handlers, history
<1>5. Types' BY <1>1, <1>4 DEF Types, handlers
<1>6. RowsOnce'
  <2>1. In(ready) \subseteq Reactions /\ In(cooling) \subseteq Reactions BY <1>1, InSet
  <2> QED BY <1>1, <1>2, <1>3, <2>1 DEF RowsOnce, wakeups, handlers
<1>7. Pending' # <<>>
  <2>1. ready' # <<>> BY <1>2, <1>3, NoneIn
  <2>2. Len(ready' \o cooling') = Len(ready') + Len(cooling')
    BY <1>2, <1>3, ConcatProperties
  <2>3. Len(ready') \in Nat \ {0} /\ Len(cooling') \in Nat
    BY <1>2, <1>3, <2>1, EmptySeq, LenProperties
  <2>4. Len(Pending') # 0 BY <2>2, <2>3 DEF Pending
  <2> QED BY <2>4, EmptySeq
<1> QED BY <1>5, <1>6, <1>7

LEMMA CrashStep ==
    ASSUME Crash
    PROVE  /\ pc'[Start] = "recover" /\ pc'[Alarm] = "idle"
           /\ \A r \in Reactions : pc'[r] = IF pc[r] = "arming" THEN "done" ELSE pc[r]
           /\ \A p \in Procs : got'[p] = NoId
  BY Parties DEF Crash

LEMMA CrashRows ==
    ASSUME Types, RowsOnce, Crash
    PROVE  Types' /\ RowsOnce'
<1>1. TypeOK BY DEF Types
<1>2. /\ UNCHANGED <<rows, clock, owner, calls, failures, resets>>
      /\ fired' = NoId /\ current' = NoReaction
      /\ got' = [p \in Procs |-> NoId]
      /\ crashes' = crashes \/ (crashes < MaxCrashes /\ crashes' = crashes + 1)
  BY DEF Crash
<1>3. /\ pc'[Start] = "recover" /\ pc'[Alarm] = "idle"
      /\ \A r \in Reactions :
            pc'[r] \in RequestLabels /\ (pc'[r] = "idle" <=> pc[r] = "idle")
  BY CrashStep DEF Types, RequestLabels
<1>4. pc' \in [Procs -> Labels]
  <2>1. \A p \in Procs : pc'[p] \in Labels BY <1>3, Parties DEF Labels, RequestLabels
  <2> DEFINE next(p) == CASE p = Start -> "recover"
                           [] p = Alarm -> "idle"
                           [] p \in Reactions -> IF pc[p] = "arming" THEN "done" ELSE pc[p]
  <2>2. pc' = [p \in Procs |-> next(p)] BY DEF Crash
  <2> HIDE DEF next
  <2> QED BY <2>1, <2>2
<1>5. sched' \in [Ids -> {"free", "waiting", "running"}] BY <1>1 DEF Crash, TypeOK
<1>6. crashes' \in 0..MaxCrashes BY <1>1, <1>2, QueueAssumption DEF TypeOK
<1>7. TypeOK' BY <1>1, <1>2, <1>4, <1>5, <1>6 DEF TypeOK, rows, clock
<1>8. Types' BY <1>3, <1>7 DEF Types, AlarmLabels, StartLabels, Labels
<1>9. RowsOnce' BY <1>2, <1>3, RowsKept DEF rows
<1> QED BY <1>8, <1>9

LEMMA RowsStep ==
    ASSUME Types, RowsOnce, [Next]_vars
    PROVE  Types' /\ RowsOnce'
<1>1. CASE \E r \in Reactions : Enqueue(r) BY <1>1, EnqueueRows
<1>2. CASE \E r \in Reactions : Expire(r) BY <1>2, ClockRows
<1>3. CASE \E p \in Procs : Armed(p) BY <1>3, ArmedRows
<1>4. CASE \E p \in Procs : Recover(p) BY <1>4, RecoverRows
<1>5. CASE \E i \in Ids : Fire(i) BY <1>5, FireRows
<1>6. CASE Lookup BY <1>6, LookupRows
<1>7. CASE Answered BY <1>7, AnsweredRows
<1>8. CASE Return BY <1>8, ReturnRows
<1>9. CASE CoolDown BY <1>9, CoolDownRows
<1>10. CASE HourPasses \/ Reset BY <1>10, ClockRows
<1>11. CASE Crash BY <1>11, CrashRows
<1>12. CASE UNCHANGED vars
  <2>1. UNCHANGED <<rows, clock, wakeups, handlers, history>> BY <1>12 DEF vars
  <2>2. TypeOK' BY <2>1 DEF Types, TypeOK, rows, clock, wakeups, handlers, history
  <2>3. Types' BY <2>1, <2>2 DEF Types, handlers
  <2>4. RowsOnce' BY <2>1 DEF RowsOnce, rows, wakeups, handlers
  <2> QED BY <2>3, <2>4
<1> QED BY <1>1, <1>2, <1>3, <1>4, <1>5, <1>6, <1>7, <1>8, <1>9, <1>10, <1>11, <1>12
    DEF Next, Wakeup

-----------------------------------------------------------------------------
(* The requests to Slack *)

LEMMA CallsInit ==
    ASSUME Init
    PROVE  CallsCounted
  BY DEF Init, CallsCounted

LEMMA CallsStep ==
    ASSUME Types, RowsOnce, CallsCounted, [Next]_vars
    PROVE  CallsCounted'
<1>1. /\ attempts \in [Reactions -> 0..MaxAttempts] /\ calls \in [Reactions -> Nat]
      /\ crashes \in Nat /\ MaxAttempts \in Nat
      /\ Alarm \in Procs /\ \A r \in Reactions : r # Alarm
  BY QueueAssumption, Parties DEF Types, TypeOK
<1>2. \A r \in Reactions : attempts[r] \in Nat /\ calls[r] \in Nat BY <1>1
<1> DEFINE Same == UNCHANGED <<calls, attempts, crashes>>
<1>3. ASSUME Same, pc'[Alarm] = pc[Alarm], current' = current PROVE CallsCounted'
  BY <1>3 DEF CallsCounted
<1>4. ASSUME Same, pc[Alarm] # "slack" PROVE CallsCounted'
  BY <1>4 DEF CallsCounted
<1>5. CASE \E r \in Reactions : Enqueue(r)
  <2>1. PICK r \in Reactions : Enqueue(r) BY <1>5
  <2>2. Same /\ current' = current BY <2>1 DEF Enqueue
  <2>3. pc'[Alarm] = pc[Alarm]
    <3>1. CASE Insert(r)
      <4>1. Arm(r, "arming") BY <3>1 DEF Insert
      <4>2. Alone(r) BY <4>1, Arming, Parties DEF Types
      <4> QED BY <1>1, <4>2 DEF Alone
    <3>2. CASE Goto(r, "done")
      <4>1. "done" \in Labels BY DEF Labels
      <4>2. Alone(r) BY <3>2, <4>1, Going, Parties DEF Types
      <4> QED BY <1>1, <4>2 DEF Alone
    <3> QED BY <2>1, <3>1, <3>2 DEF Enqueue
  <2> QED BY <1>3, <2>2, <2>3
<1>6. CASE \E p \in Procs : Armed(p)
  <2>1. PICK p \in Procs : Armed(p) BY <1>6
  <2>2. /\ Same /\ current' = current /\ pc[p] \in {"arming", "rearming"}
        /\ Goto(p, After(p, pc[p]))
    BY <2>1 DEF Armed, rows, history
  <2>3. CASE p = Alarm BY <1>4, <2>2, <2>3
  <2>4. CASE p # Alarm
    <3>1. After(p, pc[p]) \in Labels BY <2>2, Afterwards, Parties DEF Labels
    <3>2. Alone(p) BY <2>2, <3>1, Going DEF Types
    <3> QED BY <1>1, <1>3, <2>2, <2>4, <3>2 DEF Alone
  <2> QED BY <2>3, <2>4
<1>7. CASE \E p \in Procs : Recover(p)
  <2>1. PICK p \in Procs : Recover(p) BY <1>7
  <2>2. Same /\ current' = current /\ Alone(p) /\ pc[p] \in {"recover", "found", "lost"}
    BY <2>1, RecoverStep DEF rows
  <2>3. CASE p = Alarm BY <1>4, <2>2, <2>3
  <2>4. CASE p # Alarm BY <1>1, <1>3, <2>2, <2>4 DEF Alone
  <2> QED BY <2>3, <2>4
<1>8. CASE \E i \in Ids : Fire(i)
  <2>1. Same /\ pc[Alarm] # "slack" BY <1>8, FireStep
  <2> QED BY <1>4, <2>1
<1>9. ASSUME pc[Alarm] \in {"lookup", "slack"},
             \/ \E retryable \in BOOLEAN : Failed(retryable)
             \/ \E status \in Status : Finished(status),
             Arm(Alarm, "arming"), current' = NoReaction,
             UNCHANGED <<clock, owner, fired, calls, crashes, resets>>
      PROVE  CallsCounted'
  <2>1. current \in Reactions /\ attempts' = [attempts EXCEPT ![current] = @ + 1]
    BY <1>9, EndStep
  <2>2. ASSUME NEW r \in Reactions PROVE calls'[r] <= attempts'[r] + crashes'
    <3>1. CASE r = current
      <4>1. attempts'[r] = attempts[r] + 1 BY <1>1, <2>1, <3>1
      <4> QED BY <1>1, <1>2, <1>9, <4>1 DEF CallsCounted
    <3>2. CASE r # current
      <4>1. attempts'[r] = attempts[r] BY <1>1, <2>1, <3>2
      <4> QED BY <1>9, <3>2, <4>1 DEF CallsCounted
    <3> QED BY <3>1, <3>2
  <2> QED BY <2>2 DEF CallsCounted
<1>10. CASE Lookup
  <2>1. CASE /\ calls' = [calls EXCEPT ![current] = @ + 1]
             /\ Goto(Alarm, "slack")
             /\ UNCHANGED <<rows, sched, current, failures>>
    <3>1. pc[Alarm] = "lookup" /\ pc'[Alarm] = "slack" /\ UNCHANGED <<attempts, current, crashes>>
      BY <1>1, <1>10, <2>1 DEF Lookup, Goto, rows, Types, TypeOK
    <3>2. ASSUME NEW r \in Reactions
          PROVE  \/ calls'[r] <= attempts'[r] + crashes'
                 \/ r = current /\ calls'[r] <= attempts'[r] + crashes' + 1
      BY <1>1, <1>2, <2>1, <3>1 DEF CallsCounted
    <3> QED BY <3>1, <3>2 DEF CallsCounted
  <2>2. CASE /\ Failed(TRUE) \/ Finished("failed")
             /\ Arm(Alarm, "arming") /\ current' = NoReaction /\ UNCHANGED calls
    <3>1. "failed" \in Status /\ TRUE \in BOOLEAN BY DEF Status
    <3> QED BY <1>9, <1>10, <2>2, <3>1 DEF Lookup
  <2> QED BY <1>10, <2>1, <2>2 DEF Lookup
<1>11. CASE Answered
  <2>1. "delivered" \in Status BY DEF Status
  <2> QED BY <1>9, <1>11, <2>1 DEF Answered
<1>12. CASE Return
  BY <1>4, <1>12 DEF Return, rows, history
<1>13. CASE (\E r \in Reactions : Expire(r)) \/ CoolDown \/ HourPasses \/ Reset
  BY <1>3, <1>13 DEF Expire, CoolDown, HourPasses, Reset, rows, wakeups, handlers, history
<1>14. CASE Crash
  <2>1. /\ UNCHANGED <<calls, attempts>>
        /\ crashes' = crashes + 1 \/ (crashes' = crashes /\ pc[Alarm] # "slack")
    BY <1>1, <1>14 DEF Crash, Resting, rows
  <2>2. ASSUME NEW r \in Reactions PROVE calls'[r] <= attempts'[r] + crashes'
    <3>1. CASE crashes' = crashes + 1 BY <1>1, <1>2, <2>1, <3>1 DEF CallsCounted
    <3>2. CASE crashes' = crashes /\ pc[Alarm] # "slack" BY <2>1, <3>2 DEF CallsCounted
    <3> QED BY <2>1, <3>1, <3>2
  <2> QED BY <2>2 DEF CallsCounted
<1>15. CASE UNCHANGED vars
  BY <1>3, <1>15 DEF vars, rows, wakeups, handlers, history
<1> QED BY <1>5, <1>6, <1>7, <1>8, <1>10, <1>11, <1>12, <1>13, <1>14, <1>15 DEF Next, Wakeup

\* A reaction is asked of Slack MaxAttempts times at most, and once more for
\* every eviction, for any number of them (REACTION_MAX_ATTEMPTS
\* in runPassiveReactionQueue).
THEOREM BoundedCalls == Spec => []CallsBounded
<1>1. Init => Types /\ RowsOnce /\ CallsCounted BY RowsInit, CallsInit
<1>2. Types /\ RowsOnce /\ CallsCounted /\ [Next]_vars
        => Types' /\ RowsOnce' /\ CallsCounted'
  BY RowsStep, CallsStep
<1>3. Types /\ RowsOnce /\ CallsCounted => CallsBounded
  <2> SUFFICES ASSUME Types, RowsOnce, CallsCounted, NEW r \in Reactions
               PROVE  calls[r] <= MaxAttempts + crashes
    BY DEF CallsBounded
  <2>1. /\ attempts[r] \in 0..MaxAttempts /\ calls[r] \in Nat /\ crashes \in Nat
        /\ MaxAttempts \in Nat
    BY QueueAssumption DEF Types, TypeOK
  <2>2. CASE calls[r] <= attempts[r] + crashes BY <2>1, <2>2
  <2>3. CASE /\ pc[Alarm] = "slack" /\ current = r
             /\ calls[r] <= attempts[r] + crashes + 1
    <3>1. attempts[r] < MaxAttempts BY <2>3 DEF RowsOnce
    <3> QED BY <2>1, <2>3, <3>1
  <2> QED BY <2>2, <2>3 DEF CallsCounted
<1> QED BY <1>1, <1>2, <1>3, PTL DEF Spec

-----------------------------------------------------------------------------
(* The wake-ups *)

\* What every handler's step leaves of the schedules.
LEMMA AddedOne ==
    ASSUME NEW table \in [Ids -> States], One(table), Added(table)
    PROVE  /\ One(sched')
           /\ \A i \in Ids : table[i] = "running" => sched'[i] = "running"
<1>1. CASE sched' = table BY <1>1
<1>2. CASE Free(table) /\ \E i \in Ids : sched' = [table EXCEPT ![i] = "waiting"]
  BY <1>2 DEF Free, One
<1> QED BY <1>1, <1>2 DEF Added

\* What a handler other than the callback's first step does to the wake-ups:
\* p moves, the others stay, and a schedule is added at most.
Handled(p) ==
    /\ HandlerTypes' /\ Alone(p) /\ Added(sched)
    /\ p = Alarm => pc[p] \notin {"idle", "returning"} /\ pc'[p] # "idle"
    /\ UNCHANGED <<fired, crashes, resets>>

LEMMA EnqueueStep ==
    ASSUME Types, NEW r \in Reactions, Enqueue(r)
    PROVE  /\ Handled(r) /\ Up /\ UNCHANGED <<owner, cooling>>
           /\ \/ Asked(r, "arming")
              \/ /\ Passed(r, "arming", sched)
                 /\ \/ failures' = failures /\ (owner # NoId \/ ready' = ready)
                    \/ failures' = failures + 1
<1>1. TypeOK /\ r \in Procs /\ r # Alarm /\ After(r, "arming") = "done"
  BY Parties, Afterwards DEF Types
<1>2. Up /\ UNCHANGED <<owner, fired, crashes, resets>> BY DEF Enqueue
<1>3. CASE Insert(r)
  <2>1. Arm(r, "arming") /\ cooling' = cooling BY <1>3 DEF Insert
  <2>2. /\ HandlerTypes' /\ Alone(r) /\ Added(sched)
        /\ \/ Asked(r, "arming")
           \/ /\ Passed(r, "arming", sched)
              /\ (owner # NoId /\ failures' = failures) \/ failures' = failures + 1
    BY <1>1, <2>1, Arming
  <2> QED BY <1>1, <1>2, <2>1, <2>2 DEF Handled
<1>4. CASE Goto(r, "done") /\ UNCHANGED <<ready, cooling, sched, failures>>
  <2>1. /\ Alone(r) /\ pc'[r] = "done" /\ got'[r] = NoId
        /\ pc' \in [Procs -> Labels] /\ got' \in [Procs -> Ids \cup {NoId}]
    BY <1>1, <1>4, Going DEF Labels
  <2>2. HandlerTypes' BY <1>1, <1>4, <2>1 DEF HandlerTypes, TypeOK, States
  <2> QED BY <1>1, <1>2, <1>4, <2>1, <2>2 DEF Handled, Passed, Added
<1> QED BY <1>3, <1>4 DEF Enqueue

LEMMA ArmedStep ==
    ASSUME Types, NEW p \in Procs, Armed(p)
    PROVE  /\ Handled(p) /\ (Up \/ p = Start) /\ pc[p] \in {"arming", "rearming"}
           /\ pc'[p] = After(p, pc[p]) /\ got'[p] = NoId
           /\ owner' = IF owner = NoId THEN got[p] ELSE owner
           /\ UNCHANGED <<ready, cooling, sched, failures>>
<1>1. /\ TypeOK /\ (Up \/ p = Start) /\ pc[p] \in {"arming", "rearming"}
      /\ Goto(p, After(p, pc[p])) /\ owner' = IF owner = NoId THEN got[p] ELSE owner
      /\ UNCHANGED <<ready, cooling, sched, failures, fired, crashes, resets>>
  BY DEF Armed, Types, rows, history
<1>2. After(p, pc[p]) \in Labels /\ (p = Alarm => After(p, pc[p]) # "idle")
  BY <1>1, Afterwards, Parties DEF Labels
<1>3. /\ Alone(p) /\ pc'[p] = After(p, pc[p]) /\ got'[p] = NoId
      /\ pc' \in [Procs -> Labels] /\ got' \in [Procs -> Ids \cup {NoId}]
  BY <1>1, <1>2, Going
<1>4. HandlerTypes' BY <1>1, <1>3 DEF HandlerTypes, TypeOK, States
<1> QED BY <1>1, <1>2, <1>3, <1>4 DEF Handled, Added

LEMMA RecoverHandled ==
    ASSUME Types, NEW p \in Procs, Recover(p)
    PROVE  Handled(p) /\ UNCHANGED <<ready, cooling>>
<1>1. /\ p \in {Alarm, Start} /\ HandlerTypes' /\ Alone(p)
      /\ UNCHANGED <<rows, fired, crashes, resets>>
      /\ pc[p] \in {"recover", "found", "lost"}
      /\ pc'[p] \in {"found", "lost", "rearming", After(p, "rearming")}
  BY RecoverStep
<1>2. After(Alarm, "rearming") = "returning" BY Afterwards
<1>3. ASSUME NEW row, Recovered(p, row) PROVE Added(sched)
  BY <1>3, Recovering DEF Types
<1>4. Added(sched) BY <1>3, RecoverStep DEF Added
<1> QED BY <1>1, <1>2, <1>4 DEF Handled, rows

LEMMA EndHandled ==
    ASSUME Types, RowsOnce, Lookup \/ Answered
    PROVE  /\ Handled(Alarm) /\ Up /\ UNCHANGED owner
           /\ \/ pc'[Alarm] = "slack" /\ UNCHANGED <<sched, ready, cooling, failures>>
              \/ pc'[Alarm] = "arming" /\ Asked(Alarm, "arming")
              \/ pc'[Alarm] = "recover" /\ sched' = sched
<1>1. /\ TypeOK /\ pc[Alarm] \in {"lookup", "slack"} /\ Up /\ Alarm \in Procs
      /\ UNCHANGED <<owner, fired, crashes, resets>>
  BY Parties DEF Types, Lookup, Answered
<1>2. ASSUME \/ \E retryable \in BOOLEAN : Failed(retryable)
             \/ \E status \in Status : Finished(status),
             Arm(Alarm, "arming"), current' = NoReaction,
             UNCHANGED <<clock, owner, fired, calls, crashes, resets>>
      PROVE  /\ Handled(Alarm)
             /\ \/ pc'[Alarm] = "arming" /\ Asked(Alarm, "arming")
                \/ pc'[Alarm] = "recover" /\ sched' = sched
  <2>1. /\ HandlerTypes' /\ Alone(Alarm) /\ Added(sched)
        /\ \/ pc'[Alarm] = "arming" /\ Asked(Alarm, "arming")
           \/ pc'[Alarm] = "recover" /\ sched' = sched
    BY <1>1, <1>2, EndStep
  <2> QED BY <1>1, <2>1 DEF Handled
<1>3. CASE /\ calls' = [calls EXCEPT ![current] = @ + 1] /\ Goto(Alarm, "slack")
           /\ UNCHANGED <<rows, sched, current, failures>>
  <2>1. /\ Alone(Alarm) /\ pc'[Alarm] = "slack"
        /\ pc' \in [Procs -> Labels] /\ got' \in [Procs -> Ids \cup {NoId}]
    BY <1>1, <1>3, Going DEF Labels
  <2>2. HandlerTypes' BY <1>1, <1>3, <2>1 DEF HandlerTypes, TypeOK, States
  <2> QED BY <1>1, <1>3, <2>1, <2>2 DEF Handled, Added, rows
<1>4. "failed" \in Status /\ "delivered" \in Status /\ TRUE \in BOOLEAN BY DEF Status
<1>5. CASE Lookup BY <1>1, <1>2, <1>3, <1>4, <1>5 DEF Lookup
<1>6. CASE Answered BY <1>1, <1>2, <1>4, <1>6 DEF Answered
<1> QED BY <1>5, <1>6

LEMMA WakeupsInit ==
    ASSUME Init
    PROVE  One(sched) /\ StartAlone /\ Awake
<1>1. One(sched) BY DEF Init, One
<1>2. \A p \in Procs : pc[p] = "idle" BY DEF Init
<1>3. Pending = <<>>
  <2>1. TypeOK BY RowsInit DEF Types
  <2> QED BY <2>1, Queued DEF Init
<1> QED BY <1>1, <1>2, <1>3, Parties
    DEF StartAlone, Awake, CallsNamed, CallbackRuns, PendingSeen

LEMMA OneStep ==
    ASSUME Types, RowsOnce, One(sched), [Next]_vars
    PROVE  One(sched')
<1>1. sched \in [Ids -> States] /\ Alarm \in Procs BY Parties DEF Types, TypeOK, States
<1>2. ASSUME NEW p \in Procs, Handled(p) PROVE One(sched')
  BY <1>1, <1>2, AddedOne DEF Handled
<1>3. ASSUME NEW i \in Ids, Fire(i) PROVE One(sched')
  <2>1. Due(i) /\ Added(Running(i)) BY <1>3, FireStep
  <2>2. Running(i) \in [Ids -> States] BY <1>1 DEF Running, States
  <2>3. One(Running(i)) BY <1>1, <2>1 DEF Due, Running, One
  <2> QED BY <2>1, <2>2, <2>3, AddedOne
<1>4. CASE Return \/ Reset \/ Crash
  <2>1. \A j \in Ids : sched'[j] # "free" => sched[j] # "free"
    BY <1>1, <1>4 DEF Return, Reset, Crash
  <2> QED BY <2>1 DEF One
<1>5. CASE (\E r \in Reactions : Expire(r)) \/ CoolDown \/ HourPasses \/ UNCHANGED vars
  <2>1. sched' = sched BY <1>5 DEF Expire, CoolDown, HourPasses, vars, wakeups
  <2> QED BY <2>1
<1>6. ASSUME NEW r \in Reactions, Enqueue(r) PROVE One(sched')
  BY <1>2, <1>6, EnqueueStep, Parties
<1>7. ASSUME NEW p \in Procs, Armed(p) \/ Recover(p) PROVE One(sched')
  BY <1>2, <1>7, ArmedStep, RecoverHandled
<1>8. CASE Lookup \/ Answered BY <1>1, <1>2, <1>8, EndHandled
<1> QED BY <1>3, <1>4, <1>5, <1>6, <1>7, <1>8 DEF Next, Wakeup

LEMMA StartAloneStep ==
    ASSUME Types, RowsOnce, StartAlone, [Next]_vars
    PROVE  /\ StartAlone'
           /\ (pc[Start] # "idle" /\ pc'[Start] = "idle" /\ Pending # <<>> /\ failures' = failures)
                => \E i \in Ids : sched'[i] # "free"
<1> DEFINE Rearms ==
        (pc[Start] # "idle" /\ pc'[Start] = "idle" /\ Pending # <<>> /\ failures' = failures)
            => \E i \in Ids : sched'[i] # "free"
<1>1. /\ Start \in Procs /\ Alarm \in Procs /\ Start # Alarm /\ pc[Start] \in StartLabels
      /\ TypeOK /\ failures \in Nat /\ owner \in Ids \cup {NoId}
      /\ After(Start, "rearming") = "idle" /\ NoId \notin Ids
  BY QueueAssumption, Parties, Afterwards DEF Types, TypeOK
\* Before onStart, and after it, nothing is claimed.
<1>2. ASSUME Up, pc'[Start] = pc[Start] \/ pc'[Start] = "recover" PROVE StartAlone' /\ Rearms
  BY <1>2 DEF StartAlone, Up
<1>3. ASSUME NEW p \in Procs, p # Start, Alone(p), Up PROVE StartAlone' /\ Rearms
  BY <1>1, <1>2, <1>3 DEF Alone
<1>4. ASSUME UNCHANGED <<pc, got, owner, sched>> PROVE StartAlone' /\ Rearms
  BY <1>4 DEF StartAlone
<1>5. ASSUME NEW r \in Reactions, Enqueue(r) PROVE StartAlone' /\ Rearms
  BY <1>3, <1>5, EnqueueStep, Parties DEF Handled
<1>6. ASSUME NEW p \in Procs, Armed(p) PROVE StartAlone' /\ Rearms
  <2>1. /\ Alone(p) /\ (Up \/ p = Start) /\ pc[p] \in {"arming", "rearming"}
        /\ pc'[p] = After(p, pc[p]) /\ sched' = sched
    BY <1>6, ArmedStep DEF Handled
  <2>2. CASE p # Start BY <1>3, <2>1, <2>2
  <2>3. CASE p = Start
    <3>1. pc[Start] = "rearming" /\ pc'[Start] = "idle" BY <1>1, <2>1, <2>3 DEF StartLabels
    <3>2. got[Start] \in Ids /\ sched'[got[Start]] # "free"
      BY <2>1, <3>1 DEF StartAlone
    <3> QED BY <3>1, <3>2 DEF StartAlone
  <2> QED BY <2>2, <2>3
<1>7. ASSUME NEW p \in Procs, Recover(p) PROVE StartAlone' /\ Rearms
  <2>1. /\ p \in {Alarm, Start} /\ (Up \/ p = Start) /\ Alone(p)
        /\ \/ pc[p] = "recover" /\ owner = NoId /\ Recovered(p, NoId)
           \/ /\ pc[p] = "recover" /\ owner # NoId
              /\ pc'[p] = IF Found(owner, sched) THEN "found" ELSE "lost"
              /\ got'[p] = owner /\ UNCHANGED <<owner, sched, failures>>
           \/ pc[p] = "found" /\ Recovered(p, owner)
           \/ pc[p] = "lost" /\ Recovered(p, IF owner = got[p] THEN NoId ELSE owner)
    BY <1>7, RecoverStep
  <2>2. CASE p # Start BY <1>3, <2>1, <2>2
  <2>3. ASSUME p = Start, Recovered(Start, NoId) PROVE StartAlone' /\ Rearms
    <3>1. \/ Asked(Start, "rearming")
          \/ /\ Passed(Start, "rearming", sched)
             /\ Pending = <<>> \/ failures' = failures + 1
      BY <1>1, <2>3, Recovering
    <3>2. CASE Asked(Start, "rearming") BY <3>2 DEF Asked, StartAlone
    <3>3. CASE /\ Passed(Start, "rearming", sched)
               /\ Pending = <<>> \/ failures' = failures + 1
      BY <1>1, <3>3 DEF Passed, StartAlone
    <3> QED BY <3>1, <3>2, <3>3
  <2>4. CASE /\ p = Start /\ owner # NoId
             /\ pc'[p] = IF Found(owner, sched) THEN "found" ELSE "lost"
             /\ got'[p] = owner /\ UNCHANGED <<owner, sched, failures>>
    <3>1. Found(owner, sched) => sched[owner] # "free" BY DEF Found
    <3> QED BY <1>1, <2>4, <3>1 DEF StartAlone
  <2>5. CASE p = Start /\ pc[p] = "found" /\ Recovered(p, owner)
    <3>1. owner \in Ids /\ sched[owner] # "free" BY <2>5 DEF StartAlone
    <3>2. Asked(Start, "rearming") \/ Passed(Start, "rearming", sched)
      BY <1>1, <2>5, Recovering
    <3> QED BY <1>1, <3>1, <3>2 DEF Asked, Passed, StartAlone
  <2>6. CASE p = Start /\ pc[p] = "lost" /\ Recovered(p, IF owner = got[p] THEN NoId ELSE owner)
    <3>1. owner = got[p] BY <2>6 DEF StartAlone
    <3> QED BY <2>3, <2>6, <3>1
  <2> QED BY <2>1, <2>2, <2>3, <2>4, <2>5, <2>6
<1>8. ASSUME NEW i \in Ids, Fire(i) PROVE StartAlone' /\ Rearms
  BY <1>1, <1>3, <1>8, FireStep
<1>9. CASE Lookup \/ Answered BY <1>1, <1>3, <1>9, EndHandled DEF Handled
<1>10. CASE Return
  <2>1. pc'[Start] = pc[Start] /\ Up BY <1>1, <1>10 DEF Return, Goto, TypeOK
  <2> QED BY <1>2, <2>1
<1>11. CASE Reset BY <1>2, <1>11 DEF Reset, handlers
<1>12. CASE Crash
  <2>1. pc'[Start] = "recover" BY <1>12, CrashStep
  <2> QED BY <2>1 DEF StartAlone
<1>13. CASE (\E r \in Reactions : Expire(r)) \/ CoolDown \/ HourPasses \/ UNCHANGED vars
  BY <1>4, <1>13 DEF Expire, CoolDown, HourPasses, vars, wakeups, handlers
<1> QED BY <1>5, <1>6, <1>7, <1>8, <1>9, <1>10, <1>11, <1>12, <1>13 DEF Next, Wakeup

\* After every restart the queue is awake, whatever was interrupted
\* (recoverPassiveReactionQueue in onStart).
THEOREM RearmedAtRestart == Spec => RestartRearms
<1>1. Init => Types /\ RowsOnce /\ StartAlone BY RowsInit, WakeupsInit
<1>2. Types /\ RowsOnce /\ StartAlone /\ [Next]_vars => Types' /\ RowsOnce' /\ StartAlone'
  BY RowsStep, StartAloneStep
<1>3. Types /\ RowsOnce /\ StartAlone /\ [Next]_vars
        => [(/\ pc[Start] # "idle" /\ pc'[Start] = "idle"
             /\ Pending # <<>>
             /\ failures' = failures)
            => \E i \in Ids : sched'[i] # "free"]_vars
  BY StartAloneStep
<1> QED BY <1>1, <1>2, <1>3, PTL DEF Spec, RestartRearms

\* The count of rejected calls never falls.
LEMMA EndCalm ==
    ASSUME Types, RowsOnce, Lookup \/ Answered, failures' = 0, resets' = 0
    PROVE  failures = 0 /\ resets = 0
<1>1. TypeOK /\ failures \in Nat /\ Alarm \in Procs
  BY QueueAssumption, Parties DEF Types, TypeOK
<1>2. resets' = resets BY DEF Lookup, Answered
<1>3. Arm(Alarm, "arming") => failures = 0 BY <1>1, Arming DEF Asked
<1>4. failures' = failures \/ Arm(Alarm, "arming") BY DEF Lookup, Answered
<1> QED BY <1>2, <1>3, <1>4

-----------------------------------------------------------------------------
(* No reaction is forgotten *)

\* A handler that moves beside others leaves what they hold, and the callback
\* its schedule.
LEMMA Undisturbed ==
    ASSUME Types, One(sched), NEW p \in Procs, Handled(p)
    PROVE  /\ CallsNamed /\ (pc'[p] \in {"arming", "rearming"} => got'[p] \in Ids)
                => CallsNamed'
           /\ CallbackRuns => CallbackRuns'
<1>1. /\ sched \in [Ids -> States] /\ Alarm \in Procs /\ Alone(p) /\ Added(sched)
      /\ fired' = fired
  BY Parties DEF Types, TypeOK, States, Handled
<1>2. ASSUME CallsNamed, pc'[p] \in {"arming", "rearming"} => got'[p] \in Ids
      PROVE  CallsNamed'
  BY <1>1, <1>2 DEF CallsNamed, Alone
<1>3. ASSUME CallbackRuns PROVE CallbackRuns'
  <2>1. pc'[Alarm] # "idle" => pc[Alarm] # "idle" BY <1>1 DEF Handled, Alone
  <2> QED BY <1>1, <1>3, <2>1, AddedOne DEF CallbackRuns
<1> QED BY <1>2, <1>3

\* What AwakeStep has to show of a step: the calls stay named, and while
\* nothing goes wrong what is pending is seen to.
Kept ==
    /\ CallsNamed'
    /\ failures' = 0 /\ resets' = 0 => CallbackRuns' /\ PendingSeen'

LEMMA AwakeStep ==
    ASSUME Types, RowsOnce, One(sched), Awake, [Next]_vars
    PROVE  Awake'
<1> SUFFICES Kept BY DEF Kept, Awake
<1>1. /\ TypeOK /\ sched \in [Ids -> States] /\ NoId \notin Ids /\ owner \in Ids \cup {NoId}
      /\ failures \in Nat /\ resets \in Nat /\ Alarm \in Procs /\ Start \in Procs
      /\ Alarm # Start
  BY QueueAssumption, Parties DEF Types, TypeOK, States
<1> DEFINE Calm == failures = 0 /\ resets = 0
<1>2. CallsNamed /\ (Calm => CallbackRuns /\ PendingSeen) BY DEF Awake
<1> HIDE DEF Calm
<1>3. ASSUME NEW r \in Reactions, Enqueue(r) PROVE Kept
  <2>1. /\ Handled(r) /\ Up /\ UNCHANGED <<owner, cooling>> /\ r \in Procs /\ r # Alarm
        /\ r # Start /\ After(r, "arming") = "done"
        /\ \/ Asked(r, "arming")
           \/ /\ Passed(r, "arming", sched)
              /\ \/ failures' = failures /\ (owner # NoId \/ ready' = ready)
                 \/ failures' = failures + 1
    BY <1>3, EnqueueStep, Parties, Afterwards
  <2>2. CallsNamed' BY <1>2, <2>1, Undisturbed DEF Asked, Passed
  <2>3. ASSUME failures' = 0, resets' = 0 PROVE CallbackRuns' /\ PendingSeen'
    <3>1. failures' = failures /\ Calm BY <1>1, <2>1, <2>3 DEF Asked, Handled, Enqueue, Calm, history
    <3>2. CallbackRuns' BY <1>2, <2>1, <3>1, Undisturbed
    <3>3. \A q \in Procs \ {r} : pc'[q] = pc[q] BY <2>1 DEF Handled, Alone
    <3>4. CASE Asked(r, "arming") BY <2>1, <3>2, <3>4 DEF Asked, PendingSeen
    <3>5. CASE owner # NoId BY <2>1, <3>2, <3>5 DEF PendingSeen
    <3>6. CASE ready' = ready
      <4>1. Pending' = Pending BY <2>1, <3>6 DEF Pending
      <4>2. pc[r] \notin {"arming", "rearming"} BY <1>3 DEF Enqueue
      <4> QED BY <1>1, <1>2, <2>1, <3>1, <3>2, <3>3, <4>1, <4>2 DEF PendingSeen
    <3> QED BY <1>1, <2>1, <3>1, <3>2, <3>4, <3>5, <3>6
  <2> QED BY <2>2, <2>3 DEF Kept
<1>4. ASSUME NEW p \in Procs, Armed(p) PROVE Kept
  <2>1. /\ Handled(p) /\ pc[p] \in {"arming", "rearming"} /\ pc'[p] = After(p, pc[p])
        /\ owner' = IF owner = NoId THEN got[p] ELSE owner
        /\ failures' = failures
    BY <1>4, ArmedStep
  <2>2. pc'[p] \notin {"arming", "rearming"} BY <2>1, Afterwards, Parties
  <2>3. CallsNamed' BY <1>2, <2>1, <2>2, Undisturbed
  <2>4. owner' # NoId BY <1>1, <1>2, <2>1 DEF CallsNamed
  <2>5. Calm => CallbackRuns' BY <1>2, <2>1, Undisturbed
  <2> QED BY <2>1, <2>3, <2>4, <2>5 DEF Kept, PendingSeen, Handled, Calm
<1>5. ASSUME NEW p \in Procs, Recover(p) PROVE Kept
  <2>1. /\ p \in {Alarm, Start} /\ Handled(p) /\ UNCHANGED <<ready, cooling, resets>>
        /\ \/ pc[p] = "recover" /\ owner = NoId /\ Recovered(p, NoId)
           \/ /\ pc[p] = "recover" /\ owner # NoId
              /\ pc'[p] = IF Found(owner, sched) THEN "found" ELSE "lost"
              /\ got'[p] = owner /\ UNCHANGED <<owner, sched, failures>>
           \/ pc[p] = "found" /\ Recovered(p, owner)
           \/ pc[p] = "lost" /\ Recovered(p, IF owner = got[p] THEN NoId ELSE owner)
    BY <1>5, RecoverStep, RecoverHandled
  <2>2. Pending' = Pending /\ After(p, "rearming") \in {"returning", "idle"}
    BY <2>1, Afterwards DEF Pending
  <2>3. CASE /\ owner # NoId /\ pc'[p] = IF Found(owner, sched) THEN "found" ELSE "lost"
             /\ UNCHANGED <<owner, sched, failures>>
    <3>1. CallsNamed' BY <1>2, <2>1, <2>3, Undisturbed
    <3>2. Calm => CallbackRuns' BY <1>2, <2>1, Undisturbed
    <3> QED BY <2>1, <2>3, <3>1, <3>2 DEF Kept, PendingSeen, Calm
  <2>4. ASSUME NEW row, Recovered(p, row) PROVE Kept
    <3>1. /\ owner' = row
          /\ \/ Asked(p, "rearming")
             \/ /\ Passed(p, "rearming", sched)
                /\ \/ (row # NoId \/ Pending = <<>>) /\ failures' = failures
                   \/ failures' = failures + 1
      BY <1>1, <2>4, Recovering
    <3>2. CallsNamed' BY <1>2, <2>1, <2>2, <3>1, Undisturbed DEF Asked, Passed
    <3>3. ASSUME failures' = 0, resets' = 0 PROVE CallbackRuns' /\ PendingSeen'
      <4>1. failures' = failures /\ Calm BY <1>1, <2>1, <3>1, <3>3 DEF Asked, Calm
      <4>2. CallbackRuns' BY <1>2, <2>1, <4>1, Undisturbed
      <4>3. CASE Asked(p, "rearming") BY <2>1, <4>2, <4>3 DEF Asked, PendingSeen
      <4>4. CASE row # NoId BY <3>1, <4>2, <4>4 DEF PendingSeen
      <4>5. CASE Pending = <<>> BY <2>2, <4>2, <4>5 DEF PendingSeen
      <4> QED BY <1>1, <3>1, <4>1, <4>2, <4>3, <4>4, <4>5
    <3> QED BY <3>2, <3>3 DEF Kept
  <2> QED BY <2>1, <2>3, <2>4
<1>6. ASSUME NEW i \in Ids, Fire(i) PROVE Kept
  <2>1. /\ fired' = i /\ Alone(Alarm) /\ Added(Running(i)) /\ Due(i)
        /\ \/ pc'[Alarm] \in {"recover", "lookup"}
           \/ pc'[Alarm] = "arming" /\ Asked(Alarm, "arming")
    BY <1>6, FireStep
  <2>2. Running(i) \in [Ids -> States] /\ One(Running(i)) /\ Running(i)[i] = "running"
    BY <1>1, <2>1 DEF Running, States, One, Due
  <2>3. sched'[i] = "running" BY <2>1, <2>2, AddedOne
  <2>4. CallbackRuns' BY <2>1, <2>3 DEF CallbackRuns
  <2>5. CallsNamed' BY <1>2, <2>1 DEF CallsNamed, Alone, Asked
  <2>6. PendingSeen' BY <1>1, <2>1 DEF PendingSeen
  <2> QED BY <2>4, <2>5, <2>6 DEF Kept
<1>7. CASE Lookup \/ Answered
  <2>1. /\ Handled(Alarm)
        /\ \/ pc'[Alarm] \in {"slack", "recover"}
           \/ pc'[Alarm] = "arming" /\ Asked(Alarm, "arming")
    BY <1>7, EndHandled
  <2>2. CallsNamed' BY <1>1, <1>2, <2>1, Undisturbed DEF Asked
  <2>3. failures' = 0 /\ resets' = 0 => CallbackRuns'
    BY <1>1, <1>2, <1>7, <2>1, EndCalm, Undisturbed DEF Calm
  <2>4. PendingSeen' BY <1>1, <2>1 DEF PendingSeen
  <2> QED BY <2>2, <2>3, <2>4 DEF Kept
<1>8. CASE Return
  <2>1. /\ pc[Alarm] = "returning"
        /\ UNCHANGED <<rows, owner, failures, resets>> /\ Goto(Alarm, "idle")
    BY <1>8 DEF Return, history
  <2>2. /\ Alone(Alarm) /\ pc'[Alarm] = "idle" BY <1>1, <2>1, Going DEF Labels
  <2>3. CallsNamed' BY <1>2, <2>2 DEF CallsNamed, Alone
  <2>4. Pending' = Pending BY <2>1 DEF Pending, rows
  <2>5. Calm => PendingSeen' BY <1>1, <1>2, <2>1, <2>2, <2>4 DEF PendingSeen, Alone
  <2>6. CallbackRuns' BY <2>2 DEF CallbackRuns
  <2> QED BY <2>1, <2>3, <2>5, <2>6 DEF Kept, Calm
<1>9. CASE CoolDown
  <2>1. cooling # <<>> /\ UNCHANGED <<wakeups, handlers, history>> BY <1>9 DEF CoolDown
  <2>2. Pending # <<>> BY <1>1, <2>1, Queued
  <2> QED BY <1>2, <2>1, <2>2
      DEF Kept, Calm, CallsNamed, CallbackRuns, PendingSeen, wakeups, handlers, history
<1>10. CASE Reset BY <1>1, <1>2, <1>10 DEF Reset, Kept, CallsNamed, handlers
<1>11. CASE Crash
  <2>1. /\ pc'[Start] = "recover" /\ pc'[Alarm] = "idle"
        /\ \A p \in Procs : pc'[p] \notin {"arming", "rearming"}
    BY <1>11, CrashStep, Parties DEF Types, RequestLabels
  <2> QED BY <2>1 DEF Kept, CallsNamed, CallbackRuns, PendingSeen
<1>12. CASE (\E r \in Reactions : Expire(r)) \/ HourPasses \/ UNCHANGED vars
  <2>1. UNCHANGED <<rows, wakeups, handlers, history>>
    BY <1>12 DEF Expire, HourPasses, vars
  <2> QED BY <1>2, <2>1
      DEF Kept, Calm, CallsNamed, CallbackRuns, PendingSeen, Pending, rows, wakeups,
          handlers, history
<1> QED BY <1>3, <1>4, <1>5, <1>6, <1>7, <1>8, <1>9, <1>10, <1>11, <1>12 DEF Next, Wakeup

\* A pending reaction has its wake-up while the workspace is connected and no
\* call was rejected, unless the row names a schedule that is gone; and there
\* is one wake-up only, whatever requests, callbacks and evictions interleave
\* (armReactionQueue, runPassiveReactionQueue and recoverPassiveReactionQueue).
THEOREM OnePending == Spec => []OneWakeup
<1>1. Init => Types /\ RowsOnce /\ One(sched) /\ Awake
  BY RowsInit, WakeupsInit
<1>2. Types /\ RowsOnce /\ One(sched) /\ Awake /\ [Next]_vars
        => Types' /\ RowsOnce' /\ One(sched)' /\ Awake'
  BY RowsStep, OneStep, AwakeStep
<1>3. Types /\ One(sched) /\ Awake => OneWakeup
  <2> SUFFICES ASSUME Types, One(sched), Awake PROVE OneWakeup OBVIOUS
  <2>1. SingleWakeup BY DEF One, SingleWakeup
  <2>2. NoLostWakeup
    <3> SUFFICES ASSUME Pending # <<>>, failures = 0, resets = 0, ~Asleep, pc[Start] = "idle",
                        ~\E r \in Reactions : pc[r] = "arming"
                 PROVE  \E i \in Ids : sched[i] # "free"
      BY DEF NoLostWakeup
    <3>1. CASE owner # NoId BY <3>1 DEF Asleep, Types, TypeOK
    <3>2. CASE pc[Alarm] # "idle" BY <3>2 DEF Awake, CallbackRuns
    <3>3. CASE \E p \in Procs : pc[p] \in {"arming", "rearming"}
      BY <3>2, <3>3, Parties DEF Types, RequestLabels
    <3> QED BY <3>1, <3>2, <3>3 DEF Awake, PendingSeen
  <2> QED BY <2>1, <2>2 DEF OneWakeup, Types
<1> QED BY <1>1, <1>2, <1>3, PTL DEF Spec
=============================================================================
