--------------------------- MODULE RolloutProofs ---------------------------
(***************************************************************************)
(* A run of the rollout always has a next step, is done only when its      *)
(* read-out is posted, and leaves what earlier runs did alone, for any     *)
(* channels, clicks, runs, setbacks and evictions.                         *)
(*                                                                         *)
(* The invariant has five parts.  RunOK, RowsOK, SlackOK and JobsOK give   *)
(* the state its shape and bound the attempts; Chain counts the schedules  *)
(* of the run whose callback is under way: its own, and before it returns  *)
(* the one that follows it.  A sixth, Known, of the rows and the ledger    *)
(* stands on its own below.                                                *)
(***************************************************************************)
EXTENDS Rollout, WellFoundedInduction, TLAPS

USE DEF tables, slack

-----------------------------------------------------------------------------
(* The invariant *)

RunOK ==
    /\ run \in RunType /\ run.id <= issued
    /\ run.status = "running" => run.id \in RunIds /\ run.fail < RunFailures
    /\ issued \in 0..MaxRuns /\ cut \in SUBSET RunIds

\* A row has attempts left until it fails, and joins before anything else.
RowOK(row) ==
    /\ row \in RowType
    /\ row.stage # "failed" => row.tries < StageAttempts
    /\ row.join = "pending" => row.stage \in {"none", "history"}
RowsOK == rows \in [Channels -> RowType] /\ \A c \in Channels : RowOK(rows[c])

SlackOK ==
    /\ ledger \in [Channels -> {"none", "bare", "themed"}]
    /\ member \in SUBSET Channels
    /\ shown \in [Channels -> SUBSET RunIds] /\ readouts \in SUBSET RunIds

JobsOK ==
    /\ steps \in [RunIds -> Nat] /\ beach \in BOOLEAN
    /\ alarm \in AlarmType /\ alarm.id <= issued
    /\ click \in [Clicks -> ClickType] /\ \A k \in Clicks : click[k].id <= issued
    /\ \A n : Beginning(n) => n \in RunIds

Stepping == alarm.pc \in {"working", "next", "returning", "retrying", "last", "over"}
Chain ==
    /\ Stepping => alarm.id \in RunIds /\ steps[alarm.id] > 0
    /\ alarm.pc \in {"working", "next", "returning"} => Running(alarm.id)
    /\ alarm.pc = "last" => ~Running(alarm.id)
    /\ alarm.pc = "returning" => steps[alarm.id] > 1
    /\ alarm.pc = "over" /\ Running(alarm.id) => steps[alarm.id] > 1
    /\ HasNextStep /\ ReadoutFirst

Shape == RunOK /\ RowsOK /\ SlackOK /\ JobsOK
Inv == Shape /\ Chain

\* The parts together are the property.
LEMMA InvGoesOn == Inv => RunGoesOn
  BY DEF Inv, Shape, RunOK, RowsOK, SlackOK, JobsOK, Chain, RunGoesOn, TypeOK

-----------------------------------------------------------------------------
(* Helpers *)

\* The constants are numbers.
LEMMA Numbers ==
    /\ StageAttempts \in Nat \ {0} /\ RunFailures \in Nat \ {0} /\ MaxRuns \in Nat
    /\ 0 \in 0..StageAttempts /\ 0 < StageAttempts
  BY RolloutAssumption

\* Who is idle.
LEMMA IdleType ==
    Idle \in AlarmType /\ Idle \in ClickType /\ Idle.id = 0 /\ Idle.pc = "idle"
  <1>1. 0 \in 0..MaxRuns /\ 0 \in 0..RunFailures - 1 BY Numbers
  <1> QED BY <1>1 DEF Idle, AlarmType, ClickType

\* The first channel of some is one of them.
LEMMA FirstIn ==
  ASSUME NEW S \in SUBSET Channels, S # {}
  PROVE  First(S) \in S
  <1>1. S \subseteq Nat BY RolloutAssumption
  <1>2. PICK c \in S : \A d \in S : <<d, c>> \notin OpToRel(<, Nat)
    BY <1>1, WFMin, NatLessThanWellFounded, Zenon
  <1>3. \A d \in S : ~(d < c) BY <1>1, <1>2, Zenon DEF OpToRel
  <1>4. \A d \in S : c <= d BY <1>1, <1>3
  <1> QED BY <1>4 DEF First

\* A row is replaced by a good one.
LEMMA SetsRow ==
  ASSUME RowsOK, NEW c, NEW row, c \in Channels => RowOK(row), Sets(c, row)
  PROVE  RowsOK'
  <1>1. rows' = [rows EXCEPT ![c] = row] BY DEF Sets
  <1>2. \A d \in Channels : rows'[d] = IF d = c THEN row ELSE rows[d] BY <1>1 DEF RowsOK
  <1>3. \A d \in Channels : RowOK(rows'[d]) BY <1>2 DEF RowsOK
  <1>4. rows' \in [Channels -> RowType] BY <1>1, <1>3 DEF RowsOK, RowOK
  <1> QED BY <1>3, <1>4 DEF RowsOK, RowOK

\* A failed attempt leaves a good row.
LEMMA FailedRow ==
  ASSUME NEW row, RowOK(row), row.stage # "failed"
  PROVE  /\ RowOK(Failed(row, TRUE))
         /\ RowOK(Failed(row, row.tries + 1 >= StageAttempts))
  <1>1. /\ row \in RowType /\ row.tries \in Nat /\ row.tries < StageAttempts
        /\ row.tries + 1 \in 0..StageAttempts
    BY Numbers DEF RowOK, RowType
  <1>2. ASSUME NEW last \in BOOLEAN, ~last => row.tries + 1 < StageAttempts
        PROVE  RowOK(Failed(row, last))
    <2> DEFINE stage == IF last THEN "failed" ELSE row.stage
               join == IF last /\ row.join = "pending" THEN "failed" ELSE row.join
               after == [row EXCEPT !.tries = row.tries + 1, !.stage = stage, !.join = join]
    <2>1. Failed(row, last) = after BY <1>1 DEF Failed, RowType
    <2>2. /\ stage \in {row.stage, "failed"} /\ (~last => stage = row.stage)
          /\ (last => stage = "failed")
          /\ join \in {row.join, "failed"} /\ (last => join # "pending")
      OBVIOUS
    <2> HIDE DEF stage, join
    <2>3. after \in RowType BY <1>1, <2>2 DEF RowType
    <2>4. after.tries = row.tries + 1 /\ after.stage = stage /\ after.join = join
      BY <1>1 DEF RowType
    <2> HIDE DEF after
    <2>5. after.stage # "failed" => after.tries < StageAttempts BY <1>2, <2>2, <2>4
    <2>6. after.join = "pending" => after.stage \in {"none", "history"}
      BY <2>2, <2>4 DEF RowOK
    <2> QED BY <2>1, <2>3, <2>5, <2>6 DEF RowOK
  <1> DEFINE exhausted == row.tries + 1 >= StageAttempts
  <1>3. exhausted \in BOOLEAN /\ (~exhausted => row.tries + 1 < StageAttempts)
    BY <1>1, Numbers
  <1> HIDE DEF exhausted
  <1>4. RowOK(Failed(row, TRUE)) /\ RowOK(Failed(row, exhausted)) BY <1>2, <1>3, Zenon
  <1> QED BY <1>4 DEF exhausted

\* A row whose channel is joined, and one that comes to another stage.
LEMMA JoinedRow ==
  ASSUME NEW row, RowOK(row)
  PROVE  RowOK([row EXCEPT !.join = "joined", !.tries = 0])
  <1> DEFINE after == [row EXCEPT !.join = "joined", !.tries = 0]
  <1>1. row \in RowType BY DEF RowOK
  <1>2. after \in RowType BY <1>1, Numbers DEF RowType
  <1>3. after.join = "joined" /\ after.tries = 0 BY <1>1 DEF RowType
  <1> HIDE DEF after
  <1>4. RowOK(after) BY <1>2, <1>3, Numbers DEF RowOK
  <1> QED BY <1>4 DEF after

Stages == {"history", "threads", "package", "enqueue", "crosscheck", "wait_memory", "done", "failed"}
LEMMA StagedRow ==
  ASSUME NEW row, RowOK(row), row.join # "pending", NEW stage \in Stages
  PROVE  RowOK([row EXCEPT !.stage = stage, !.tries = 0])
  <1> DEFINE after == [row EXCEPT !.stage = stage, !.tries = 0]
  <1>1. row \in RowType BY DEF RowOK
  <1>2. after \in RowType BY <1>1, Numbers DEF RowType, Stages
  <1>3. after.join = row.join /\ after.tries = 0 BY <1>1 DEF RowType
  <1> HIDE DEF after
  <1>4. RowOK(after) BY <1>2, <1>3, Numbers DEF RowOK
  <1> QED BY <1>4 DEF after

\* What is not about stage or attempts does not matter.
LEMMA PackedRow ==
  ASSUME NEW row, RowOK(row), row.join # "pending", NEW found \in BOOLEAN, NEW docs \in BOOLEAN,
         NEW stage \in Stages
  PROVE  /\ RowOK([row EXCEPT !.stage = stage, !.themes = found, !.tries = 0])
         /\ RowOK([row EXCEPT !.stage = stage, !.themes = found, !.docs = docs, !.tries = 0])
         /\ RowOK([row EXCEPT !.docs = docs, !.tries = 0])
  <1> DEFINE bare == [row EXCEPT !.stage = stage, !.themes = found, !.tries = 0]
             packed == [row EXCEPT !.stage = stage, !.themes = found, !.docs = docs, !.tries = 0]
             sent == [row EXCEPT !.docs = docs, !.tries = 0]
  <1>1. row \in RowType BY DEF RowOK
  <1>2. bare \in RowType BY <1>1, Numbers DEF RowType, Stages
  <1>3. packed \in RowType BY <1>1, Numbers DEF RowType, Stages
  <1>4. sent \in RowType BY <1>1, Numbers DEF RowType
  <1>5. /\ bare.join = row.join /\ bare.tries = 0
        /\ packed.join = row.join /\ packed.tries = 0
        /\ sent.join = row.join /\ sent.tries = 0
    BY <1>1 DEF RowType
  <1> HIDE DEF bare, packed, sent
  <1>6. RowOK(bare) /\ RowOK(packed) /\ RowOK(sent)
    BY <1>2, <1>3, <1>4, <1>5, Numbers DEF RowOK
  <1> QED BY <1>6 DEF bare, packed, sent

\* A row that is set up anew.
LEMMA FreshRows ==
  /\ RowOK(NoRow)
  /\ \A c : RowOK(Discovered(c))
  <1>1. NoRow \in RowType /\ NoRow.tries = 0 /\ NoRow.stage = "none"
    BY Numbers DEF RowType, NoRow
  <1>2. ASSUME NEW c PROVE RowOK(Discovered(c))
    <2> DEFINE known == ~run.filter /\ ledger[c] # "none"
               bare == known /\ c \in member /\ ledger[c] = "bare"
               join == IF known /\ ~bare THEN "joined" ELSE "pending"
               stage == IF known /\ ~bare THEN "done" ELSE "history"
               in == c \in member
               row == [NoRow EXCEPT !.was = in, !.introduced = known, !.themeOnly = bare,
                                    !.join = join, !.stage = stage]
    <2>1. Discovered(c) = row BY DEF Discovered
    <2>2. /\ known \in BOOLEAN /\ bare \in BOOLEAN /\ in \in BOOLEAN
          /\ join \in {"joined", "pending"} /\ stage \in {"done", "history"}
          /\ join = "pending" => stage = "history"
      OBVIOUS
    <2> HIDE DEF known, bare, join, stage, in
    <2>3. row \in RowType BY <1>1, <2>2 DEF RowType
    <2>4. row.tries = 0 /\ row.stage = stage /\ row.join = join
      BY <1>1 DEF RowType
    <2> HIDE DEF row
    <2> QED BY <2>1, <2>2, <2>3, <2>4, Numbers DEF RowOK
  <1> QED BY <1>1, <1>2, Numbers DEF RowOK

-----------------------------------------------------------------------------
(* Units of work *)

\* A unit goes on to the next step, in its phase or the one after it.
LEMMA UnitKeeps ==
  ASSUME Inv, alarm.pc = "working", Goes("next"), RowsOK', SlackOK',
         \/ UNCHANGED run
         \/ \E phase \in Phases : run' = [run EXCEPT !.phase = phase],
         UNCHANGED <<steps, beach, click, issued, cut>>
  PROVE  Inv'
  <1> USE DEF Inv, Shape
  <1>1. run' \in RunType /\ run'.id = run.id /\ run'.status = run.status /\ run'.fail = run.fail
    BY DEF RunOK, RunType
  <1>2. alarm' \in AlarmType /\ alarm'.pc = "next" /\ alarm'.id = alarm.id
    BY DEF Goes, JobsOK, AlarmType
  <1>3. RunOK' BY <1>1 DEF RunOK
  <1>5. \A n : Beginning(n)' <=> Beginning(n) BY <1>2 DEF Beginning
  <1>6. JobsOK' BY <1>2, <1>5 DEF JobsOK
  <1>7. Running(alarm.id) /\ Running(alarm.id)' BY <1>1, <1>2 DEF Chain, Running
  <1>8. Chain' BY <1>1, <1>2, <1>5, <1>7 DEF Chain, Stepping, HasNextStep, ReadoutFirst, Running
  <1> QED BY <1>3, <1>6, <1>8

LEMMA DiscoverKeeps == Inv /\ Discover => Inv'
  <1> SUFFICES ASSUME Inv, Discover PROVE Inv' OBVIOUS
  <1>1. PICK page \in SUBSET Channels :
           rows' = [c \in Channels |-> IF c \in page THEN Discovered(c) ELSE rows[c]]
    BY DEF Discover
  <1>2. \A c \in Channels : RowOK(rows'[c])
    BY <1>1, FreshRows DEF Inv, Shape, RowsOK
  <1>3. RowsOK' BY <1>1, <1>2 DEF RowsOK, RowOK
  <1>4. SlackOK' BY DEF Discover, SlackOK, Inv, Shape
  <1>5. \/ UNCHANGED run
        \/ \E phase \in Phases : run' = [run EXCEPT !.phase = phase]
    BY DEF Discover, Phases
  <1> QED BY <1>3, <1>4, <1>5, UnitKeeps DEF Discover, Unit

\* A failed attempt at a channel that has not failed.
LEMMA FailedAtKeeps ==
  ASSUME RowsOK, NEW c, c \in Channels => rows[c].stage # "failed", FailedAt(c)
  PROVE  RowsOK'
  BY FailedRow, SetsRow DEF FailedAt, RowsOK

LEMMA JoinKeeps == Inv /\ Join => Inv'
  <1> SUFFICES ASSUME Inv, Join PROVE Inv' OBVIOUS
  <1> DEFINE c == First(Pending)
  <1>1. SlackOK' BY DEF Join, SlackOK, Inv, Shape
  <1>2. UNCHANGED run \/ run' = [run EXCEPT !.phase = "collect"]
    BY DEF Join, Moves, Sets, FailedAt
  <1>3. RowsOK BY DEF Inv, Shape
  <1>4. ASSUME Pending = {} PROVE RowsOK'
    BY <1>3, <1>4 DEF Join, Moves, RowsOK, RowOK
  <1>5. ASSUME Pending # {} PROVE RowsOK'
    <2>1. c \in Pending BY <1>5, FirstIn DEF Pending
    <2>2. RowOK(rows[c]) /\ rows[c].stage = "history"
      BY <1>3, <2>1 DEF Pending, RowsOK, RowOK
    <2> HIDE DEF c
    <2>3. CASE Sets(c, [rows[c] EXCEPT !.join = "joined", !.tries = 0])
      BY <1>3, <2>2, <2>3, JoinedRow, SetsRow
    <2>4. CASE FailedAt(c) BY <1>3, <2>2, <2>4, FailedAtKeeps
    <2>5. CASE Sets(c, Failed(rows[c], TRUE)) BY <1>3, <2>2, <2>5, FailedRow, SetsRow
    <2> QED BY <1>5, <2>3, <2>4, <2>5 DEF Join, c
  <1>6. RowsOK' BY <1>4, <1>5
  <1> QED BY <1>1, <1>2, <1>6, UnitKeeps DEF Join, Unit, Phases

LEMMA CollectKeeps == Inv /\ Collect => Inv'
  <1> SUFFICES ASSUME Inv, Collect PROVE Inv' OBVIOUS
  <1> DEFINE c == First(Collecting)
  <1>1. RowsOK /\ SlackOK BY DEF Inv, Shape
  <1>2. CASE Collecting = {}
    <2>1. RowsOK' /\ SlackOK' /\ run' = [run EXCEPT !.phase = "crosscheck"]
      BY <1>1, <1>2 DEF Collect, Moves, RowsOK, RowOK, SlackOK
    <2> QED BY <2>1, UnitKeeps DEF Collect, Unit, Phases
  <1>3. CASE Collecting # {}
    <2>1. c \in Collecting BY <1>3, FirstIn DEF Collecting
    <2>2. RowOK(rows[c]) /\ rows[c].join = "joined" BY <1>1, <2>1 DEF Collecting, RowsOK
    <2>3. Read(c) \/ Package(c) \/ Submit(c) BY <1>3 DEF Collect
    <2>4. UNCHANGED slack BY DEF Collect
    <2> HIDE DEF c
    <2>5. CASE Read(c)
      <3>1. UNCHANGED <<run, ledger>> BY <2>5 DEF Read, Stage, Sets, FailedAt
      <3>2. RowsOK'
        BY <1>1, <2>2, <2>5, StagedRow, SetsRow, FailedAtKeeps DEF Read, Stage, Stages
      <3>3. SlackOK' BY <1>1, <2>4, <3>1 DEF SlackOK
      <3> QED BY <3>1, <3>2, <3>3, UnitKeeps DEF Collect, Unit
    <2>6. CASE Package(c)
      <3>1. PICK found \in BOOLEAN :
               \/ Themed(c, found)
               \/ /\ \E docs \in BOOLEAN :
                        Sets(c, [rows[c] EXCEPT !.stage = "enqueue", !.themes = found,
                                                !.docs = docs, !.tries = 0])
                  /\ UNCHANGED ledger
        BY <2>6 DEF Package
      <3>2. UNCHANGED run BY <3>1 DEF Themed, Sets
      <3>3. RowsOK' BY <1>1, <2>2, <3>1, PackedRow, SetsRow DEF Themed, Stages
      <3>4. SlackOK' BY <1>1, <2>4, <3>1 DEF SlackOK, Themed
      <3> QED BY <3>2, <3>3, <3>4, UnitKeeps DEF Collect, Unit
    <2>7. CASE Submit(c)
      <3>1. UNCHANGED <<run, ledger>> BY <2>7 DEF Submit, Stage, Sets, FailedAt
      <3>2. RowsOK'
        BY <1>1, <2>2, <2>7, PackedRow, StagedRow, SetsRow, FailedAtKeeps
        DEF Submit, Stage, Stages
      <3>3. SlackOK' BY <1>1, <2>4, <3>1 DEF SlackOK
      <3> QED BY <3>1, <3>2, <3>3, UnitKeeps DEF Collect, Unit
    <2> QED BY <2>3, <2>5, <2>6, <2>7
  <1> QED BY <1>2, <1>3

LEMMA CrosscheckKeeps == Inv /\ Crosscheck => Inv'
  <1> SUFFICES ASSUME Inv, Crosscheck PROVE Inv' OBVIOUS
  <1> DEFINE S == {c \in Channels : rows[c].stage = "crosscheck"}
  <1>1. RowsOK /\ SlackOK BY DEF Inv, Shape
  <1>2. SlackOK' BY <1>1 DEF Crosscheck, SlackOK
  <1>3. CASE S = {}
    <2>1. RowsOK' /\ run' = [run EXCEPT !.phase = "introduce"]
      BY <1>1, <1>3 DEF Crosscheck, Moves, RowsOK, RowOK
    <2> QED BY <1>2, <2>1, UnitKeeps DEF Crosscheck, Unit, Phases
  <1>4. CASE S # {}
    <2>1. /\ rows' = [c \in Channels |-> IF c \in S THEN [rows[c] EXCEPT !.stage = "wait_memory"]
                                         ELSE rows[c]]
          /\ UNCHANGED run
      BY <1>4 DEF Crosscheck
    <2>2. ASSUME NEW c \in S PROVE RowOK([rows[c] EXCEPT !.stage = "wait_memory"])
      <3> DEFINE after == [rows[c] EXCEPT !.stage = "wait_memory"]
      <3>1. /\ rows[c] \in RowType /\ rows[c].join # "pending"
            /\ rows[c].tries < StageAttempts
        BY <1>1, <2>2 DEF RowsOK, RowOK
      <3>2. after \in RowType /\ after.join = rows[c].join /\ after.tries = rows[c].tries
        BY <3>1 DEF RowType
      <3> HIDE DEF after
      <3>3. RowOK(after) BY <3>1, <3>2 DEF RowOK
      <3> QED BY <3>3 DEF after
    <2> HIDE DEF S
    <2>3. \A c \in Channels : RowOK(rows'[c]) BY <1>1, <2>1, <2>2 DEF RowsOK
    <2>4. RowsOK' BY <2>1, <2>3 DEF RowsOK, RowOK
    <2> QED BY <1>2, <2>1, <2>4, UnitKeeps DEF Crosscheck, Unit
  <1> QED BY <1>3, <1>4

LEMMA IntroduceKeeps == Inv /\ Introduce => Inv'
  <1> SUFFICES ASSUME Inv, Introduce PROVE Inv' OBVIOUS
  <1> DEFINE c == First(Waiting)
  <1>1. RowsOK /\ SlackOK BY DEF Inv, Shape
  <1>2. c \in Waiting BY FirstIn DEF Introduce, Waiting
  <1>3. /\ RowOK(rows[c]) /\ rows[c].join # "pending" /\ rows[c].stage = "wait_memory"
        /\ rows[c].tries < StageAttempts
    BY <1>1, <1>2 DEF Waiting, RowsOK, RowOK
  <1>4. \/ Stage(c, "done") \/ FailedAt(c)
        \/ Sets(c, [rows[c] EXCEPT !.stage = "failed"])
    BY DEF Introduce
  <1>5. SlackOK' BY <1>1 DEF Introduce, SlackOK
  <1> HIDE DEF c
  <1>6. UNCHANGED run BY <1>4 DEF Stage, Sets, FailedAt
  <1>7. ASSUME Sets(c, [rows[c] EXCEPT !.stage = "failed"]) PROVE RowsOK'
    <2> DEFINE after == [rows[c] EXCEPT !.stage = "failed"]
    <2>1. after \in RowType /\ after.stage = "failed" /\ after.join = rows[c].join
      BY <1>3 DEF RowOK, RowType
    <2> HIDE DEF after
    <2>2. RowOK(after) BY <1>3, <2>1 DEF RowOK
    <2> QED BY <1>1, <1>7, <2>2, SetsRow DEF after
  <1>8. RowsOK'
    BY <1>1, <1>3, <1>4, <1>7, StagedRow, SetsRow, FailedAtKeeps DEF Stage, Stages
  <1> QED BY <1>5, <1>6, <1>8, UnitKeeps DEF Introduce, Unit

-----------------------------------------------------------------------------
(* Runs begin *)

\* The state of the rows, the jobs and the chain before there is a run.
LEMMA InitInv == Init => Inv
  <1> SUFFICES ASSUME Init PROVE Inv OBVIOUS
  <1> USE DEF Init, NoRun, Idle
  <1>1. RunOK BY Numbers DEF RunOK, RunType, Phases, RunIds
  <1>2. RowsOK BY FreshRows DEF RowsOK, RowOK
  <1>3. SlackOK BY DEF SlackOK
  <1>4. JobsOK BY Numbers DEF JobsOK, AlarmType, ClickType, Beginning
  <1>5. Chain BY DEF Chain, Stepping, HasNextStep, ReadoutFirst
  <1> QED BY <1>1, <1>2, <1>3, <1>4, <1>5 DEF Inv, Shape

\* A run begins: its id is new, its rows are empty, whoever begins it is
\* about to schedule its first step.
LEMMA BeginKeeps ==
  ASSUME Inv, NEW filter \in BOOLEAN, Begin(filter), NEW new, new = issued + 1,
         UNCHANGED <<slack, steps, cut>>,
         alarm.pc \notin {"working", "next", "returning"},
         beach' \in BOOLEAN, alarm' \in AlarmType, alarm'.id <= new,
         click' \in [Clicks -> ClickType], \A k \in Clicks : click'[k].id <= new,
         \A n : Beginning(n)' <=> Beginning(n) \/ n = new,
         \/ alarm' = alarm
         \/ alarm'.pc = "beginning"
  PROVE  Inv'
  <1> USE DEF Inv, Shape
  <1>1. new \in RunIds /\ issued' = new /\ issued \in Nat
    BY Numbers DEF Begin, RunOK, RunIds
  <1>2. RunOK' BY <1>1, Numbers DEF Begin, RunOK, RunType, Phases, RunIds
  <1>3. RowsOK' BY FreshRows DEF Begin, RowsOK, RowOK
  <1>4. SlackOK' BY DEF SlackOK, Begin
  <1>5. JobsOK' BY <1>1 DEF JobsOK
  <1>6. run'.id = new /\ run'.status = "running" BY DEF Begin
  <1>7. ~Running(alarm.id)' \/ alarm' # alarm
    BY <1>1, <1>6 DEF Running, JobsOK, AlarmType
  <1>8. Beginning(new)' OBVIOUS
  <1>9. HasNextStep' /\ ReadoutFirst'
    BY <1>1, <1>6, <1>8 DEF HasNextStep, ReadoutFirst, Beginning
  <1>10. Chain'
    BY <1>1, <1>6, <1>7, <1>9 DEF Chain, Stepping, Running, JobsOK, AlarmType
  <1> QED BY <1>2, <1>3, <1>4, <1>5, <1>10

\* What does not touch the run, the rows or the jobs.
LEMMA QuietKeeps ==
  ASSUME Inv, UNCHANGED <<run, rows, ledger, steps, beach, alarm, click, issued, cut>>,
         SlackOK', readouts \subseteq readouts'
  PROVE  Inv'
  <1> USE DEF Inv, Shape
  <1>1. RunOK' /\ RowsOK' BY DEF RunOK, RowsOK
  <1>2. \A n : Beginning(n)' <=> Beginning(n) BY DEF Beginning
  <1>3. JobsOK' BY <1>2 DEF JobsOK
  <1>4. HasNextStep' BY DEF Chain, HasNextStep, Beginning
  <1>5. ReadoutFirst' BY DEF Chain, ReadoutFirst, HasReadout
  <1>6. Chain' BY <1>4, <1>5 DEF Chain, Stepping, Running
  <1> QED BY <1>1, <1>3, <1>6

LEMMA SlackKeeps ==
  Inv /\ (JoinArrives \/ IntroArrives \/ ReadoutArrives \/ \E c \in Channels : Removed(c)) => Inv'
  <1> SUFFICES ASSUME Inv, JoinArrives \/ IntroArrives \/ ReadoutArrives
                           \/ \E c \in Channels : Removed(c)
               PROVE  Inv'
    OBVIOUS
  <1>1. SlackOK /\ Chain /\ JobsOK /\ RunOK BY DEF Inv, Shape
  <1>2. CASE JoinArrives
    <2>1. First(Pending) \in Channels BY <1>2, FirstIn DEF JoinArrives, Pending
    <2> QED BY <1>1, <1>2, <2>1, QuietKeeps DEF JoinArrives, SlackOK
  <1>3. CASE IntroArrives
    <2>1. run.id \in RunIds BY <1>1, <1>3 DEF IntroArrives, Chain, Stepping, Running
    <2>2. SlackOK' BY <1>1, <1>3, <2>1 DEF IntroArrives, SlackOK
    <2> QED BY <1>3, <2>2, QuietKeeps DEF IntroArrives
  <1>4. CASE ReadoutArrives
    <2>1. run.id \in RunIds BY <1>1, <1>4 DEF ReadoutArrives, Chain, Stepping, Running
    <2>2. SlackOK' BY <1>1, <1>4, <2>1 DEF ReadoutArrives, SlackOK
    <2> QED BY <1>4, <2>2, QuietKeeps DEF ReadoutArrives
  <1>5. ASSUME NEW c \in Channels, Removed(c) PROVE Inv'
    BY <1>1, <1>5, QuietKeeps DEF Removed, SlackOK
  <1> QED BY <1>2, <1>3, <1>4, <1>5

\* The clicks of an admin.
LEMMA ClickKeeps ==
  ASSUME Inv, NEW k \in Clicks, Press(k) \/ StartRun(k) \/ Started(k)
  PROVE  Inv'
  <1> USE DEF Inv, Shape
  <1>1. CASE Press(k)
    <2>1. UNCHANGED <<run, rows, ledger, slack, steps, beach, alarm, issued, cut>>
          /\ click' = [click EXCEPT ![k].pc = "asked"] /\ click[k].pc = "idle"
      BY <1>1 DEF Press
    <2>2. click' \in [Clicks -> ClickType] /\ \A j \in Clicks : click'[j].id = click[j].id
      BY <2>1 DEF JobsOK, ClickType
    <2>3. \A j \in Clicks : click'[j].pc = "beginning" <=> click[j].pc = "beginning"
      BY <2>1 DEF JobsOK, ClickType
    <2>4. \A n : Beginning(n)' <=> Beginning(n) BY <2>1, <2>2, <2>3 DEF Beginning
    <2>5. RunOK' /\ RowsOK' /\ SlackOK' BY <2>1 DEF RunOK, RowsOK, SlackOK
    <2>6. JobsOK' BY <2>1, <2>2, <2>4 DEF JobsOK
    <2>7. HasNextStep' BY <2>1, <2>4 DEF Chain, HasNextStep
    <2>8. Chain' BY <2>1, <2>7 DEF Chain, Stepping, Running, ReadoutFirst, HasReadout
    <2> QED BY <2>5, <2>6, <2>8
  <1>2. ASSUME UNCHANGED <<tables, slack, steps, beach, alarm, issued>>,
               click' = [click EXCEPT ![k] = Idle],
               cut' = cut \/ (cut' = cut \cup {click[k].id} /\ click[k].id \in RunIds),
               click[k].pc = "beginning" => cut' = cut \cup {click[k].id}
        PROVE  Inv'
    <2>1. click' \in [Clicks -> ClickType] /\ \A j \in Clicks : click'[j].id <= issued
      BY <1>2, IdleType DEF JobsOK, RunOK
    <2>2. \A n : Beginning(n)' => Beginning(n) BY <1>2, IdleType DEF Beginning, JobsOK
    <2>3. \A n : Beginning(n) => Beginning(n)' \/ n \in cut'
      BY <1>2, IdleType DEF Beginning, JobsOK
    <2>4. RunOK' /\ RowsOK' /\ SlackOK' BY <1>2 DEF RunOK, RowsOK, SlackOK
    <2>5. JobsOK' BY <1>2, <2>1, <2>2 DEF JobsOK
    <2>6. HasNextStep' BY <1>2, <2>3 DEF Chain, HasNextStep
    <2>7. Chain' BY <1>2, <2>6 DEF Chain, Stepping, Running, ReadoutFirst, HasReadout
    <2> QED BY <2>4, <2>5, <2>7
  <1>3. CASE StartRun(k)
    <2>1. CASE click' = [click EXCEPT ![k] = Idle] /\ UNCHANGED <<tables, issued>>
      <3>1. click[k].pc # "beginning" /\ cut' = cut BY <1>3 DEF StartRun
      <3>2. UNCHANGED <<tables, slack, steps, beach, alarm, issued>> BY <1>3, <2>1 DEF StartRun
      <3> QED BY <1>2, <2>1, <3>1, <3>2
    <2>2. CASE /\ run.status # "running" /\ Begin(FALSE)
               /\ click' = [click EXCEPT ![k] = [pc |-> "beginning", id |-> issued + 1, fail |-> 0]]
      <3> DEFINE new == issued + 1
      <3>1. new \in 0..MaxRuns BY <2>2, Numbers DEF Begin, RunOK
      <3> HIDE DEF new
      <3>2. click' = [click EXCEPT ![k] = [pc |-> "beginning", id |-> new, fail |-> 0]]
        BY <2>2 DEF new
      <3>3. click' \in [Clicks -> ClickType] BY <3>1, <3>2 DEF JobsOK, ClickType
      <3>4. \A j \in Clicks : click'[j].id <= new
        BY <3>1, <3>2 DEF JobsOK, ClickType, RunOK, new
      <3>5. UNCHANGED <<slack, steps, beach, alarm, cut>> BY <1>3 DEF StartRun
      <3>6. \A n : Beginning(n)' <=> Beginning(n) \/ n = new
        BY <1>3, <3>2, <3>5 DEF Beginning, JobsOK, StartRun
      <3>7. alarm.pc \notin {"working", "next", "returning"}
        BY <2>2 DEF Chain, Running
      <3>8. alarm' \in AlarmType /\ alarm'.id <= new /\ beach' \in BOOLEAN
        BY <3>1, <3>5 DEF JobsOK, RunOK, AlarmType, new
      <3> QED BY <2>2, <3>3, <3>4, <3>5, <3>6, <3>7, <3>8, BeginKeeps DEF new
    <2> QED BY <1>3, <2>1, <2>2 DEF StartRun
  <1>4. CASE Started(k)
    <2>1. click[k].id \in RunIds BY <1>4 DEF Started, JobsOK, Beginning
    <2>2. CASE steps' = [steps EXCEPT ![click[k].id] = @ + 1] /\ UNCHANGED cut
      <3>1. UNCHANGED <<tables, slack, beach, alarm, issued>> /\ click' = [click EXCEPT ![k] = Idle]
        BY <1>4 DEF Started
      <3>2. /\ steps' \in [RunIds -> Nat] /\ \A n \in RunIds : steps'[n] >= steps[n]
            /\ steps'[click[k].id] > 0
        BY <2>1, <2>2 DEF JobsOK
      <3>3. click' \in [Clicks -> ClickType] /\ \A j \in Clicks : click'[j].id <= issued
        BY <3>1, IdleType DEF JobsOK, RunOK
      <3>4. \A n : Beginning(n)' => Beginning(n) BY <3>1, IdleType DEF Beginning, JobsOK
      <3>5. \A n : Beginning(n) => Beginning(n)' \/ steps'[n] > 0
        BY <3>1, <3>2, IdleType DEF Beginning, JobsOK
      <3>6. RunOK' /\ RowsOK' /\ SlackOK' BY <2>2, <3>1 DEF RunOK, RowsOK, SlackOK
      <3>7. JobsOK' BY <3>1, <3>2, <3>3, <3>4 DEF JobsOK
      <3>8. run.status = "running" /\ steps[run.id] > 0 => steps'[run.id] > 0
        BY <3>2 DEF JobsOK, RunOK
      <3>9. HasNextStep' BY <2>2, <3>1, <3>5, <3>8 DEF Chain, HasNextStep
      <3>10. Chain'
        BY <3>1, <3>2, <3>9 DEF Chain, Stepping, Running, ReadoutFirst, HasReadout, JobsOK
      <3> QED BY <3>6, <3>7, <3>10
    <2>3. CASE cut' = cut \cup {click[k].id} /\ UNCHANGED steps
      BY <1>2, <1>4, <2>1, <2>3 DEF Started
    <2> QED BY <1>4, <2>2, <2>3 DEF Started
  <1> QED BY <1>1, <1>3, <1>4

\* The callback of the beachhead.
LEMMA BeachheadKeeps ==
  ASSUME Inv, FireBeachhead \/ Picked \/ BeachheadStarted
  PROVE  Inv'
  <1> USE DEF Inv, Shape
  <1>1. ASSUME UNCHANGED <<tables, slack, steps, click, issued>>, beach' \in BOOLEAN,
               alarm' \in AlarmType, alarm'.id <= issued,
               alarm'.pc \in {"idle", "picking"},
               cut' = cut \/ (cut' = cut \cup {alarm.id} /\ alarm.id \in RunIds),
               alarm.pc = "beginning" => cut' = cut \cup {alarm.id}
        PROVE  Inv'
    <2>1. \A n : Beginning(n)' => Beginning(n) BY <1>1 DEF Beginning
    <2>2. \A n : Beginning(n) => Beginning(n)' \/ n \in cut' BY <1>1 DEF Beginning
    <2>3. RunOK' /\ RowsOK' /\ SlackOK' BY <1>1 DEF RunOK, RowsOK, SlackOK
    <2>4. JobsOK' BY <1>1, <2>1 DEF JobsOK
    <2>5. HasNextStep' BY <1>1, <2>2 DEF Chain, HasNextStep
    <2>6. Chain' BY <1>1, <2>5 DEF Chain, Stepping, ReadoutFirst, HasReadout
    <2> QED BY <2>3, <2>4, <2>6
  <1>2. CASE FireBeachhead
    <2>1. /\ UNCHANGED <<tables, slack, steps, click, issued>> /\ beach' \in BOOLEAN
          /\ alarm.pc # "beginning" /\ cut' = cut
      BY <1>2 DEF FireBeachhead, JobsOK
    <2>2. /\ alarm' \in AlarmType /\ alarm'.id <= issued
          /\ alarm'.pc \in {"idle", "picking"}
      <3>1. CASE alarm' = alarm BY <1>2, <3>1 DEF FireBeachhead, JobsOK
      <3>2. CASE alarm' = [Idle EXCEPT !.pc = "picking"]
        BY <3>2, IdleType DEF AlarmType, RunOK
      <3> QED BY <1>2, <3>1, <3>2 DEF FireBeachhead
    <2> QED BY <1>1, <2>1, <2>2
  <1>3. CASE Picked
    <2>1. CASE alarm' = Idle /\ beach' = FALSE /\ UNCHANGED <<tables, issued>>
      <3>1. /\ UNCHANGED <<tables, slack, steps, click, issued>> /\ beach' \in BOOLEAN
            /\ alarm.pc # "beginning" /\ cut' = cut
        BY <1>3, <2>1 DEF Picked
      <3>2. /\ alarm' \in AlarmType /\ alarm'.id <= issued
            /\ alarm'.pc \in {"idle", "picking"}
        BY <2>1, IdleType DEF RunOK
      <3> QED BY <1>1, <3>1, <3>2
    <2>2. CASE /\ Begin(TRUE) /\ UNCHANGED beach
               /\ alarm' = [pc |-> "beginning", id |-> issued + 1, fail |-> 0]
      <3> DEFINE new == issued + 1
      <3>1. new \in 0..MaxRuns BY <2>2, Numbers DEF Begin, RunOK
      <3> HIDE DEF new
      <3>2. alarm' = [pc |-> "beginning", id |-> new, fail |-> 0] BY <2>2 DEF new
      <3>3. alarm' \in AlarmType /\ alarm'.id <= new /\ alarm'.pc = "beginning"
        BY <3>1, <3>2, Numbers DEF AlarmType
      <3>4. UNCHANGED <<slack, steps, click, cut>> /\ alarm.pc = "picking" BY <1>3 DEF Picked
      <3>5. click' \in [Clicks -> ClickType] /\ \A k \in Clicks : click'[k].id <= new
        BY <3>1, <3>4 DEF JobsOK, RunOK, ClickType, new
      <3>6. \A n : Beginning(n)' <=> Beginning(n) \/ n = new
        BY <3>2, <3>4 DEF Beginning
      <3>7. beach' \in BOOLEAN BY <2>2 DEF JobsOK
      <3> QED BY <2>2, <3>3, <3>4, <3>5, <3>6, <3>7, BeginKeeps DEF new
    <2> QED BY <1>3, <2>1, <2>2 DEF Picked
  <1>4. CASE BeachheadStarted
    <2>1. alarm.id \in RunIds BY <1>4 DEF BeachheadStarted, JobsOK, Beginning
    <2>2. /\ UNCHANGED <<tables, slack, click, issued>> /\ beach' \in BOOLEAN
          /\ alarm' = Idle
      BY <1>4 DEF BeachheadStarted
    <2>3. /\ alarm' \in AlarmType /\ alarm'.id <= issued
          /\ alarm'.pc \in {"idle", "picking"}
      BY <2>2, IdleType DEF RunOK
    <2>4. CASE cut' = cut \cup {alarm.id} /\ UNCHANGED steps
      BY <1>1, <2>1, <2>2, <2>3, <2>4
    <2>5. CASE steps' = [steps EXCEPT ![alarm.id] = @ + 1] /\ UNCHANGED cut
      <3>1. /\ steps' \in [RunIds -> Nat] /\ \A n \in RunIds : steps'[n] >= steps[n]
            /\ steps'[alarm.id] > 0
        BY <2>1, <2>5 DEF JobsOK
      <3>2. \A n : Beginning(n)' => Beginning(n) BY <2>2, IdleType DEF Beginning
      <3>3. \A n : Beginning(n) => Beginning(n)' \/ steps'[n] > 0
        BY <2>2, <3>1 DEF Beginning
      <3>4. RunOK' /\ RowsOK' /\ SlackOK' BY <2>2, <2>5 DEF RunOK, RowsOK, SlackOK
      <3>5. JobsOK' BY <2>2, <2>3, <3>1, <3>2 DEF JobsOK
      <3>6. run.status = "running" /\ steps[run.id] > 0 => steps'[run.id] > 0
        BY <3>1 DEF JobsOK, RunOK
      <3>7. HasNextStep' BY <2>2, <2>5, <3>3, <3>6 DEF Chain, HasNextStep
      <3>8. Chain' BY <2>2, <2>3, <3>7 DEF Chain, Stepping, ReadoutFirst, HasReadout
      <3> QED BY <3>4, <3>5, <3>8
    <2> QED BY <1>4, <2>4, <2>5 DEF BeachheadStarted
  <1> QED BY <1>2, <1>3, <1>4

-----------------------------------------------------------------------------
(* The callback of a step *)

\* The callback goes on; nobody is about to begin because of it.
LEMMA GoesOnly ==
  ASSUME JobsOK, NEW pc \in {"next", "returning", "retrying", "last", "over"},
         Goes(pc), alarm.pc # "beginning", UNCHANGED click
  PROVE  /\ alarm' \in AlarmType /\ alarm'.pc = pc /\ alarm'.id = alarm.id
         /\ \A n : Beginning(n)' <=> Beginning(n)
  <1>1. alarm' \in AlarmType /\ alarm'.pc = pc /\ alarm'.id = alarm.id
    BY DEF Goes, JobsOK, AlarmType
  <1> QED BY <1>1 DEF Beginning

\* The callback ends: its schedule is gone, and a run that goes on has another
\* one or was cut.
LEMMA EndKeeps ==
  ASSUME Inv, NEW n \in RunIds, steps[n] > 0, Ended(n), alarm' = Idle,
         alarm.pc # "beginning", UNCHANGED <<rows, ledger, slack, beach, click, issued>>,
         cut' = cut \/ cut' = cut \cup {n},
         run' \in RunType, run'.id = run.id, run'.filter = run.filter,
         run'.status # run.status => run'.status = "failed",
         run'.status = "running" => run'.fail < RunFailures,
         run.id = n /\ run'.status = "running" => steps[n] > 1 \/ n \in cut'
  PROVE  Inv'
  <1> USE DEF Inv, Shape
  <1>1. alarm' \in AlarmType /\ alarm'.pc = "idle" /\ alarm'.id = 0 BY IdleType
  <1>2. \A m : Beginning(m)' <=> Beginning(m) BY <1>1 DEF Beginning
  <1>3. /\ steps' \in [RunIds -> Nat] /\ steps'[n] = steps[n] - 1
        /\ \A m \in RunIds : m # n => steps'[m] = steps[m]
    BY DEF Ended, JobsOK
  <1>4. RunOK' BY DEF RunOK
  <1>5. RowsOK' /\ SlackOK' BY DEF RowsOK, SlackOK
  <1>6. JobsOK' BY <1>1, <1>2, <1>3 DEF JobsOK, RunOK
  <1>7. HasNextStep'
    <2> SUFFICES ASSUME run'.status = "running", run.id \notin cut', ~Beginning(run.id)
                 PROVE  steps'[run.id] > 0
      BY <1>2 DEF HasNextStep
    <2>1. run.status = "running" /\ run.id \in RunIds BY DEF RunOK
    <2>2. steps[run.id] > 0 BY <2>1 DEF Chain, HasNextStep
    <2>3. CASE run.id = n BY <1>3, <2>2, <2>3 DEF JobsOK
    <2>4. CASE run.id # n BY <1>3, <2>1, <2>2, <2>4
    <2> QED BY <2>3, <2>4
  <1>8. ReadoutFirst' BY DEF Chain, ReadoutFirst, HasReadout
  <1>9. Chain' BY <1>1, <1>7, <1>8 DEF Chain, Stepping
  <1> QED BY <1>4, <1>5, <1>6, <1>9

LEMMA FireKeeps ==
  ASSUME Inv, NEW n \in RunIds, Fire(n)
  PROVE  Inv'
  <1>1. /\ alarm.pc = "idle" /\ steps[n] > 0
        /\ UNCHANGED <<rows, ledger, slack, beach, click, issued>>
    BY DEF Fire
  <1>2. run \in RunType /\ (run.status = "running" => run.fail < RunFailures)
    BY DEF Inv, Shape, RunOK
  <1>4. CASE Running(n) /\ alarm' = [pc |-> "working", id |-> n, fail |-> run.fail]
             /\ UNCHANGED <<run, steps, cut>>
    <2> USE DEF Inv, Shape
    <2>1. n \in 0..MaxRuns /\ run.fail \in 0..RunFailures - 1 /\ n <= issued
      BY <1>2, <1>4, Numbers DEF Running, RunType, RunIds, RunOK
    <2>2. alarm' \in AlarmType /\ alarm'.pc = "working" /\ alarm'.id = n
      BY <1>4, <2>1 DEF AlarmType
    <2>3. \A m : Beginning(m)' <=> Beginning(m) BY <1>1, <2>2 DEF Beginning
    <2>4. RunOK' /\ RowsOK' /\ SlackOK' BY <1>1, <1>4 DEF RunOK, RowsOK, SlackOK
    <2>5. JobsOK' BY <1>1, <1>4, <2>1, <2>2, <2>3 DEF JobsOK
    <2>6. HasNextStep' BY <1>4, <2>3 DEF Chain, HasNextStep
    <2>7. Chain'
      BY <1>1, <1>4, <2>2, <2>6 DEF Chain, Stepping, Running, ReadoutFirst, HasReadout
    <2> QED BY <2>4, <2>5, <2>7
  <1>5. CASE Ended(n) /\ ~Running(n) /\ UNCHANGED <<run, alarm, cut>>
    <2> USE DEF Inv, Shape
    <2>1. /\ steps' \in [RunIds -> Nat]
          /\ \A m \in RunIds : m # n => steps'[m] = steps[m]
      BY <1>1, <1>5 DEF Ended, JobsOK
    <2>2. \A m : Beginning(m)' <=> Beginning(m) BY <1>1, <1>5 DEF Beginning
    <2>3. RunOK' /\ RowsOK' /\ SlackOK' BY <1>1, <1>5 DEF RunOK, RowsOK, SlackOK
    <2>4. JobsOK' BY <1>1, <1>5, <2>1, <2>2 DEF JobsOK
    <2>5. HasNextStep' BY <1>5, <2>1, <2>2 DEF Chain, HasNextStep, Running, RunOK
    <2>6. Chain'
      BY <1>1, <1>5, <2>5 DEF Chain, Stepping, Running, ReadoutFirst, HasReadout
    <2> QED BY <2>3, <2>4, <2>6
  <1>6. CASE Ended(n) /\ Running(n) /\ run' = [run EXCEPT !.status = "failed"]
             /\ UNCHANGED <<alarm, cut>>
    <2> USE DEF Inv, Shape
    <2>1. /\ steps' \in [RunIds -> Nat]
      BY <1>1, <1>6 DEF Ended, JobsOK
    <2>2. \A m : Beginning(m)' <=> Beginning(m) BY <1>1, <1>6 DEF Beginning
    <2>3. run' \in RunType /\ run'.status = "failed" /\ run'.id = run.id
      BY <1>2, <1>6 DEF RunType
    <2>4. RunOK' /\ RowsOK' /\ SlackOK' BY <1>1, <1>6, <2>3 DEF RunOK, RowsOK, SlackOK
    <2>5. JobsOK' BY <1>1, <1>6, <2>1, <2>2 DEF JobsOK
    <2>6. Chain' BY <1>1, <1>6, <2>3 DEF Chain, Stepping, HasNextStep, ReadoutFirst
    <2> QED BY <2>4, <2>5, <2>6
  <1>7. CASE Ended(n) /\ Running(n) /\ cut' = cut \cup {n} /\ UNCHANGED <<run, alarm>>
    <2> USE DEF Inv, Shape
    <2>1. /\ steps' \in [RunIds -> Nat]
      BY <1>1, <1>7 DEF Ended, JobsOK
    <2>2. \A m : Beginning(m)' <=> Beginning(m) BY <1>1, <1>7 DEF Beginning
    <2>3. RunOK' /\ RowsOK' /\ SlackOK' BY <1>1, <1>7 DEF RunOK, RowsOK, SlackOK
    <2>4. JobsOK' BY <1>1, <1>7, <2>1, <2>2 DEF JobsOK
    <2>5. HasNextStep' BY <1>7 DEF HasNextStep, Running
    <2>6. Chain' BY <1>1, <1>7, <2>5 DEF Chain, Stepping, ReadoutFirst, HasReadout
    <2> QED BY <2>3, <2>4, <2>6
  <1> QED BY <1>4, <1>5, <1>6, <1>7 DEF Fire

LEMMA FinishKeeps == Inv /\ Finish => Inv'
  <1> SUFFICES ASSUME Inv, Finish PROVE Inv' OBVIOUS
  <1> USE DEF Inv, Shape
  <1>1. /\ alarm.pc = "working" /\ Delivered /\ Goes("last")
        /\ UNCHANGED <<rows, ledger, slack, steps, beach, click, issued, cut>>
        /\ run' = [run EXCEPT !.status = "done", !.fail = 0]
    BY DEF Finish
  <1>2. /\ alarm' \in AlarmType /\ alarm'.pc = "last" /\ alarm'.id = alarm.id
        /\ \A n : Beginning(n)' <=> Beginning(n)
    BY <1>1, GoesOnly
  <1>3. /\ run' \in RunType /\ run'.status = "done" /\ run'.id = run.id
        /\ run'.filter = run.filter
    <2>1. run \in RunType /\ 0 \in 0..RunFailures BY Numbers DEF RunOK
    <2>2. run' \in RunType BY <1>1, <2>1 DEF RunType
    <2> QED BY <1>1, <2>1, <2>2 DEF RunType
  <1>4. RunOK' /\ RowsOK' /\ SlackOK' BY <1>1, <1>3 DEF RunOK, RowsOK, SlackOK
  <1>5. JobsOK' BY <1>1, <1>2 DEF JobsOK
  <1>6. ReadoutFirst' BY <1>1, <1>3 DEF ReadoutFirst, HasReadout, Delivered
  <1>7. Chain' BY <1>1, <1>2, <1>3, <1>6 DEF Chain, Stepping, Running, HasNextStep
  <1> QED BY <1>4, <1>5, <1>7

\* A schedule more: the callback of a step has made the next one.
LEMMA ScheduledKeeps ==
  ASSUME Inv, NEW pc \in {"returning", "over"}, Goes(pc),
         alarm.pc \in {"next", "retrying"}, pc = "returning" => alarm.pc = "next",
         steps' = [steps EXCEPT ![alarm.id] = @ + 1],
         UNCHANGED <<tables, slack, beach, click, issued, cut>>
  PROVE  Inv'
  <1> USE DEF Inv, Shape
  <1>1. /\ alarm' \in AlarmType /\ alarm'.pc = pc /\ alarm'.id = alarm.id
        /\ \A n : Beginning(n)' <=> Beginning(n)
    BY GoesOnly
  <1>2. alarm.id \in RunIds /\ steps[alarm.id] > 0 BY DEF Chain, Stepping
  <1>3. /\ steps' \in [RunIds -> Nat] /\ \A n \in RunIds : steps'[n] >= steps[n]
        /\ steps'[alarm.id] > 1
    BY <1>2 DEF JobsOK
  <1>4. RunOK' /\ RowsOK' /\ SlackOK' BY DEF RunOK, RowsOK, SlackOK
  <1>5. JobsOK' BY <1>1, <1>3 DEF JobsOK
  <1>6. run.status = "running" /\ steps[run.id] > 0 => steps'[run.id] > 0
    BY <1>3 DEF JobsOK, RunOK
  <1>7. HasNextStep' BY <1>1, <1>6 DEF Chain, HasNextStep
  <1>8. Chain'
    BY <1>1, <1>2, <1>3, <1>7 DEF Chain, Stepping, Running, ReadoutFirst, HasReadout, JobsOK
  <1> QED BY <1>4, <1>5, <1>8

LEMMA ReturnKeeps == Inv /\ Return => Inv'
  <1> SUFFICES ASSUME Inv, Return PROVE Inv' OBVIOUS
  <1> USE DEF Inv, Shape
  <1>1. /\ alarm.pc \in {"returning", "over", "last"} /\ Ended(alarm.id) /\ alarm' = Idle
        /\ UNCHANGED <<rows, ledger, slack, beach, click, issued>> /\ cut' = cut
        /\ run' = run \/ run' = [run EXCEPT !.fail = 0]
    BY DEF Return
  <1>2. alarm.id \in RunIds /\ steps[alarm.id] > 0 BY <1>1 DEF Chain, Stepping
  <1>3. /\ run' \in RunType /\ run'.id = run.id /\ run'.filter = run.filter
        /\ run'.status = run.status
        /\ run'.status = "running" => run'.fail < RunFailures
    <2>1. run \in RunType /\ 0 \in 0..RunFailures /\ 0 < RunFailures BY Numbers DEF RunOK
    <2>2. run' \in RunType BY <1>1, <2>1 DEF RunType
    <2>3. run'.fail \in {run.fail, 0} BY <1>1, <2>1 DEF RunType
    <2>4. run'.id = run.id /\ run'.filter = run.filter /\ run'.status = run.status
      BY <1>1, <2>1 DEF RunType
    <2> QED BY <2>1, <2>2, <2>3, <2>4 DEF RunOK
  <1>4. run.id = alarm.id /\ run'.status = "running" => steps[alarm.id] > 1
    BY <1>1, <1>3 DEF Chain, Running
  <1> QED BY <1>1, <1>2, <1>3, <1>4, EndKeeps

LEMMA RetriedKeeps == Inv /\ Retried => Inv'
  <1> SUFFICES ASSUME Inv, Retried PROVE Inv' OBVIOUS
  <1> USE DEF Inv, Shape
  <1>1. /\ alarm.pc = "retrying"
        /\ UNCHANGED <<tables, slack, beach, click, issued>>
    BY DEF Retried
  <1>2. CASE steps' = [steps EXCEPT ![alarm.id] = @ + 1] /\ Goes("over") /\ UNCHANGED cut
    BY <1>1, <1>2, ScheduledKeeps
  <1>3. CASE cut' = cut \cup {alarm.id} /\ Ended(alarm.id) /\ alarm' = Idle
    <2>1. alarm.id \in RunIds /\ steps[alarm.id] > 0 BY <1>1 DEF Chain, Stepping
    <2>2. run' = run /\ run \in RunType /\ (run.status = "running" => run.fail < RunFailures)
      BY <1>1 DEF RunOK
    <2> QED BY <1>1, <1>3, <2>1, <2>2, EndKeeps
  <1> QED BY <1>2, <1>3 DEF Retried

LEMMA ThrowsKeeps == Inv /\ Throws => Inv'
  <1> SUFFICES ASSUME Inv, Throws PROVE Inv' OBVIOUS
  <1> USE DEF Inv, Shape
  <1> DEFINE fail == alarm.fail + 1
  <1>1. /\ alarm.pc \in {"working", "next", "last"}
        /\ UNCHANGED <<rows, ledger, slack, steps, beach, click, issued, cut>>
    BY DEF Throws
  <1>2. fail \in 0..RunFailures BY Numbers DEF JobsOK, AlarmType
  <1>3. run \in RunType /\ (run.status = "running" => run.id = alarm.id \/ alarm.pc = "last")
    BY <1>1 DEF RunOK, Chain, Running
  <1>4. CASE fail >= RunFailures /\ Goes("over")
             /\ run' = IF run.id = alarm.id
                       THEN [run EXCEPT !.status = "failed", !.fail = fail] ELSE run
    <2> HIDE DEF fail
    <2>1. run' \in RunType BY <1>2, <1>3, <1>4 DEF RunType
    <2>2. /\ run'.id = run.id /\ run'.filter = run.filter
          /\ run.id = alarm.id => run'.status = "failed"
          /\ run.id # alarm.id => run' = run
      BY <1>3, <1>4 DEF RunType
    <2>3. /\ alarm' \in AlarmType /\ alarm'.pc = "over" /\ alarm'.id = alarm.id
          /\ \A n : Beginning(n)' <=> Beginning(n)
      BY <1>1, <1>4, GoesOnly
    <2>4. RunOK' /\ RowsOK' /\ SlackOK' BY <1>1, <2>1, <2>2 DEF RunOK, RowsOK, SlackOK
    <2>5. JobsOK' BY <1>1, <2>3 DEF JobsOK
    <2>6. HasNextStep' BY <1>1, <2>2, <2>3 DEF Chain, HasNextStep
    <2>7. ReadoutFirst' BY <1>1, <2>2 DEF Chain, ReadoutFirst, HasReadout
    <2>8. Chain' BY <1>1, <2>2, <2>3, <2>6, <2>7 DEF Chain, Stepping, Running
    <2> QED BY <2>4, <2>5, <2>8
  <1>5. CASE fail < RunFailures /\ Goes("retrying")
             /\ run' = IF run.id = alarm.id THEN [run EXCEPT !.fail = fail] ELSE run
    <2> HIDE DEF fail
    <2>1. run' \in RunType BY <1>2, <1>3, <1>5 DEF RunType
    <2>2. /\ run'.id = run.id /\ run'.filter = run.filter /\ run'.status = run.status
          /\ run'.fail \in {run.fail, fail}
      BY <1>3, <1>5 DEF RunType
    <2>3. /\ alarm' \in AlarmType /\ alarm'.pc = "retrying" /\ alarm'.id = alarm.id
          /\ \A n : Beginning(n)' <=> Beginning(n)
      BY <1>1, <1>5, GoesOnly
    <2>4. RunOK' BY <1>1, <1>5, <2>1, <2>2 DEF RunOK
    <2>5. RowsOK' /\ SlackOK' BY <1>1 DEF RowsOK, SlackOK
    <2>6. JobsOK' BY <1>1, <2>3 DEF JobsOK
    <2>7. HasNextStep' /\ ReadoutFirst'
      BY <1>1, <2>2, <2>3 DEF Chain, HasNextStep, ReadoutFirst, HasReadout
    <2>8. Chain' BY <1>1, <2>3, <2>7 DEF Chain, Stepping
    <2> QED BY <2>4, <2>5, <2>6, <2>8
  <1> QED BY <1>1, <1>2, <1>4, <1>5, Numbers DEF Throws

\* An eviction cuts the runs that have no schedule yet.
LEMMA CrashKeeps == Inv /\ Crash => Inv'
  <1> SUFFICES ASSUME Inv, Crash PROVE Inv' OBVIOUS
  <1> USE DEF Inv, Shape
  <1>1. /\ UNCHANGED <<tables, slack, steps, beach, issued>>
        /\ alarm' = Idle /\ click' = [k \in Clicks |-> Idle]
    BY DEF Crash
  <1>2. /\ alarm' \in AlarmType /\ alarm'.pc = "idle" /\ alarm'.id = 0
        /\ click' \in [Clicks -> ClickType] /\ \A k \in Clicks : click'[k] = Idle
    BY <1>1, IdleType
  <1>3. \A n : ~Beginning(n)' BY <1>2, IdleType DEF Beginning
  <1>4. \A n : n \in cut' <=> n \in cut \/ Beginning(n)
    BY DEF Crash, Beginning
  <1>5. RunOK' BY <1>1, <1>4 DEF RunOK, JobsOK
  <1>6. RowsOK' /\ SlackOK' BY <1>1 DEF RowsOK, SlackOK
  <1>7. JobsOK' BY <1>1, <1>2, <1>3, IdleType DEF JobsOK, RunOK
  <1>8. HasNextStep' BY <1>1, <1>4 DEF Chain, HasNextStep
  <1>9. Chain' BY <1>1, <1>2, <1>8 DEF Chain, Stepping, ReadoutFirst, HasReadout
  <1> QED BY <1>5, <1>6, <1>7, <1>9

LEMMA StepInv == Inv /\ [Next]_vars => Inv'
  <1> SUFFICES ASSUME Inv, [Next]_vars PROVE Inv' OBVIOUS
  <1>1. CASE Again
    <2>1. RowsOK' /\ SlackOK' BY <1>1 DEF Again, Inv, Shape, RowsOK, SlackOK
    <2> QED BY <1>1, <2>1, UnitKeeps DEF Again
  <1>2. CASE Scheduled BY <1>2, ScheduledKeeps DEF Scheduled
  <1>3. CASE UNCHANGED vars
    <2>1. SlackOK' BY <1>3 DEF vars, Inv, Shape, SlackOK
    <2> QED BY <1>3, <2>1, QuietKeeps DEF vars
  <1>4. CASE \E n \in RunIds : Fire(n) BY <1>4, FireKeeps
  <1>5. CASE Discover \/ Join \/ Collect \/ Crosscheck \/ Introduce
    BY <1>5, DiscoverKeeps, JoinKeeps, CollectKeeps, CrosscheckKeeps, IntroduceKeeps
  <1>6. CASE JoinArrives \/ IntroArrives \/ ReadoutArrives \/ \E c \in Channels : Removed(c)
    BY <1>6, SlackKeeps
  <1>7. CASE Finish \/ Return \/ Retried \/ Throws \/ Crash
    BY <1>7, FinishKeeps, ReturnKeeps, RetriedKeeps, ThrowsKeeps, CrashKeeps
  <1>8. CASE \E k \in Clicks : Press(k) \/ StartRun(k) \/ Started(k) BY <1>8, ClickKeeps
  <1>9. CASE FireBeachhead \/ Picked \/ BeachheadStarted BY <1>9, BeachheadKeeps
  <1> QED
    BY <1>1, <1>2, <1>3, <1>4, <1>5, <1>6, <1>7, <1>8, <1>9 DEF Next, Work, Trouble

-----------------------------------------------------------------------------
(* What the ledger knows                                                   *)
(*                                                                         *)
(* A channel of the ledger has no row in this run, or one that is over, or *)
(* one that is read for its themes where the bot already was.              *)

KnownRow(row) ==
    \/ row.stage = "none"
    \/ row.stage \in {"done", "failed"} /\ row.join # "pending"
    \/ row.themeOnly /\ row.was /\ row.stage \in {"history", "threads", "package"}
Known == ~run.filter => \A c \in Channels : ledger[c] # "none" => KnownRow(rows[c])

\* A row is replaced, and what was known of its channel is still.
LEMMA KnownSets ==
  ASSUME Known, RowsOK, NEW c \in Channels, NEW row, Sets(c, row),
         KnownRow(rows[c]) => KnownRow(row),
         \A d \in Channels : d # c => ledger'[d] = ledger[d],
         ledger'[c] # "none" => ledger[c] # "none" \/ KnownRow(row)
  PROVE  Known'
  <1>1. run' = run /\ \A d \in Channels : rows'[d] = IF d = c THEN row ELSE rows[d]
    BY DEF Sets, RowsOK
  <1> QED BY <1>1 DEF Known

LEMMA FailedKnown ==
  ASSUME Known, RowsOK, NEW c \in Channels, NEW last, Sets(c, Failed(rows[c], last)),
         UNCHANGED ledger
  PROVE  Known'
  <1> DEFINE row == rows[c]
             after == Failed(row, last)
  <1>1. row \in RowType BY DEF RowsOK
  <1>2. /\ after.stage = (IF last THEN "failed" ELSE row.stage)
        /\ after.join = (IF last /\ row.join = "pending" THEN "failed" ELSE row.join)
        /\ after.themeOnly = row.themeOnly /\ after.was = row.was
    BY <1>1 DEF Failed, RowType
  <1> HIDE DEF after
  <1>3. KnownRow(row) => KnownRow(after) BY <1>2 DEF KnownRow
  <1> QED BY <1>3, KnownSets DEF after

LEMMA KnownStays ==
  ASSUME Known, UNCHANGED <<rows, ledger>>, run'.filter = run.filter
  PROVE  Known'
  BY DEF Known

LEMMA KnownDiscover == Inv /\ Known /\ Discover => Known'
  <1> SUFFICES ASSUME Inv, Known, Discover PROVE Known' OBVIOUS
  <1>1. PICK page \in SUBSET Channels :
           rows' = [c \in Channels |-> IF c \in page THEN Discovered(c) ELSE rows[c]]
    BY DEF Discover
  <1>2. run'.filter = run.filter /\ UNCHANGED ledger
    BY DEF Discover, Inv, Shape, RunOK, RunType
  <1>3. ASSUME NEW c \in Channels, ~run.filter, ledger[c] # "none"
        PROVE  KnownRow(Discovered(c))
    <2> DEFINE bare == c \in member /\ ledger[c] = "bare"
               in == c \in member
               join == IF ~bare THEN "joined" ELSE "pending"
               stage == IF ~bare THEN "done" ELSE "history"
               row == [NoRow EXCEPT !.was = in, !.introduced = TRUE, !.themeOnly = bare,
                                    !.join = join, !.stage = stage]
    <2>1. Discovered(c) = row BY <1>3 DEF Discovered
    <2>2. NoRow \in RowType BY FreshRows DEF RowOK
    <2>3. (bare => in /\ stage = "history") /\ (~bare => stage = "done" /\ join = "joined")
      OBVIOUS
    <2> HIDE DEF bare, in, join, stage
    <2>4. row.stage = stage /\ row.join = join /\ row.themeOnly = bare /\ row.was = in
      BY <2>2 DEF RowType
    <2> HIDE DEF row
    <2> QED BY <2>1, <2>3, <2>4 DEF KnownRow
  <1> QED BY <1>1, <1>2, <1>3 DEF Known

LEMMA KnownJoin == Inv /\ Known /\ Join => Known'
  <1> SUFFICES ASSUME Inv, Known, Join PROVE Known' OBVIOUS
  <1> DEFINE c == First(Pending)
  <1>1. RowsOK /\ run \in RunType /\ UNCHANGED ledger BY DEF Inv, Shape, RunOK, Join
  <1>2. CASE Pending = {} /\ Moves("collect")
    BY <1>1, <1>2, KnownStays DEF Moves, RunType
  <1>3. CASE Pending # {}
    <2>1. c \in Channels BY <1>3, FirstIn DEF Pending
    <2>2. rows[c] \in RowType BY <1>1, <2>1 DEF RowsOK
    <2> HIDE DEF c
    <2>3. CASE Sets(c, [rows[c] EXCEPT !.join = "joined", !.tries = 0])
      <3> DEFINE after == [rows[c] EXCEPT !.join = "joined", !.tries = 0]
      <3>1. /\ after.join = "joined" /\ after.stage = rows[c].stage
            /\ after.themeOnly = rows[c].themeOnly /\ after.was = rows[c].was
        BY <2>2 DEF RowType
      <3> HIDE DEF after
      <3>2. KnownRow(rows[c]) => KnownRow(after) BY <3>1 DEF KnownRow
      <3> QED BY <1>1, <2>1, <2>3, <3>2, KnownSets DEF after
    <2>4. CASE FailedAt(c) \/ Sets(c, Failed(rows[c], TRUE))
      BY <1>1, <2>1, <2>4, FailedKnown DEF FailedAt
    <2> QED BY <1>3, <2>3, <2>4 DEF Join, c
  <1> QED BY <1>2, <1>3 DEF Join

LEMMA KnownCollect == Inv /\ Known /\ Collect => Known'
  <1> SUFFICES ASSUME Inv, Known, Collect PROVE Known' OBVIOUS
  <1> DEFINE c == First(Collecting)
  <1>1. RowsOK /\ run \in RunType /\ ledger \in [Channels -> {"none", "bare", "themed"}]
    BY DEF Inv, Shape, RunOK, SlackOK
  <1>2. CASE Collecting = {}
    BY <1>1, <1>2, KnownStays DEF Collect, Moves, RunType
  <1>3. CASE Collecting # {}
    <2>1. c \in Collecting /\ c \in Channels BY <1>3, FirstIn DEF Collecting
    <2>2. rows[c] \in RowType /\ rows[c].join = "joined" BY <1>1, <2>1 DEF Collecting, RowsOK
    <2>3. Read(c) \/ Package(c) \/ Submit(c) BY <1>3 DEF Collect
    <2> HIDE DEF c
    <2>4. ASSUME NEW stage \in {"history", "threads", "package"}, Stage(c, stage),
                 UNCHANGED ledger, rows[c].stage \in {"history", "threads"}
          PROVE  Known'
      <3> DEFINE after == [rows[c] EXCEPT !.stage = stage, !.tries = 0]
      <3>1. after.stage = stage /\ after.themeOnly = rows[c].themeOnly /\ after.was = rows[c].was
        BY <2>2 DEF RowType
      <3> HIDE DEF after
      <3>2. KnownRow(rows[c]) => KnownRow(after) BY <2>4, <3>1 DEF KnownRow
      <3>3. Sets(c, after) BY <2>4 DEF Stage, after
      <3> QED BY <1>1, <2>1, <2>4, <3>2, <3>3, KnownSets
    <2>5. CASE FailedAt(c) /\ UNCHANGED ledger
      BY <1>1, <2>1, <2>5, FailedKnown DEF FailedAt
    <2>6. ASSUME NEW row, Sets(c, row), ~KnownRow(rows[c]), UNCHANGED ledger PROVE Known'
      BY <1>1, <2>1, <2>6, KnownSets
    <2>7. ASSUME NEW found \in BOOLEAN, Themed(c, found) PROVE Known'
      <3> DEFINE after == [rows[c] EXCEPT !.stage = "done", !.themes = found, !.tries = 0]
      <3>1. after.stage = "done" /\ after.join = "joined" BY <2>2 DEF RowType
      <3> HIDE DEF after
      <3>2. KnownRow(after) BY <3>1 DEF KnownRow
      <3>3. \A d \in Channels : d # c => ledger'[d] = ledger[d]
        BY <1>1, <2>7 DEF Themed
      <3>4. Sets(c, after) BY <2>7 DEF Themed, after
      <3> QED BY <1>1, <2>1, <3>2, <3>3, <3>4, KnownSets
    <2>8. CASE Read(c)
      <3>1. rows[c].stage \in {"history", "threads"} /\ UNCHANGED ledger BY <2>8 DEF Read
      <3> QED BY <2>4, <2>5, <2>8, <3>1 DEF Read
    <2>9. CASE Package(c)
      <3>1. rows[c].themeOnly \/ ~KnownRow(rows[c]) BY <2>9 DEF Package, KnownRow
      <3> QED BY <2>6, <2>7, <2>9, <3>1 DEF Package
    <2>10. CASE Submit(c)
      <3>1. ~KnownRow(rows[c]) /\ UNCHANGED ledger BY <2>10 DEF Submit, KnownRow
      <3> QED BY <2>5, <2>6, <2>10, <3>1 DEF Submit, Stage
    <2> QED BY <2>3, <2>8, <2>9, <2>10
  <1> QED BY <1>2, <1>3

LEMMA KnownCrosscheck == Inv /\ Known /\ Crosscheck => Known'
  <1> SUFFICES ASSUME Inv, Known, Crosscheck PROVE Known' OBVIOUS
  <1> DEFINE S == {c \in Channels : rows[c].stage = "crosscheck"}
  <1>1. run \in RunType /\ UNCHANGED ledger BY DEF Inv, Shape, RunOK, Crosscheck
  <1>2. CASE S = {} BY <1>1, <1>2, KnownStays DEF Crosscheck, Moves, RunType
  <1>3. CASE S # {}
    <2>1. run' = run /\ \A c \in Channels : c \notin S => rows'[c] = rows[c]
      BY <1>3 DEF Crosscheck
    <2>2. \A c \in S : ~KnownRow(rows[c]) BY DEF KnownRow
    <2> HIDE DEF S
    <2> QED BY <1>1, <2>1, <2>2 DEF Known
  <1> QED BY <1>2, <1>3

LEMMA KnownIntroduce == Inv /\ Known /\ Introduce => Known'
  <1> SUFFICES ASSUME Inv, Known, Introduce PROVE Known' OBVIOUS
  <1> DEFINE c == First(Waiting)
  <1>1. RowsOK /\ ledger \in [Channels -> {"none", "bare", "themed"}]
    BY DEF Inv, Shape, SlackOK
  <1>2. c \in Waiting /\ c \in Channels BY FirstIn DEF Introduce, Waiting
  <1>3. /\ rows[c] \in RowType /\ rows[c].join # "pending" /\ ~KnownRow(rows[c])
    BY <1>1, <1>2 DEF Waiting, RowsOK, RowOK, KnownRow
  <1> HIDE DEF c
  <1>4. CASE /\ ledger' = [ledger EXCEPT ![c] = IF rows[c].themes THEN "themed" ELSE "bare"]
             /\ Stage(c, "done")
    <2> DEFINE after == [rows[c] EXCEPT !.stage = "done", !.tries = 0]
    <2>1. after.stage = "done" /\ after.join # "pending" BY <1>3 DEF RowType
    <2> HIDE DEF after
    <2>2. KnownRow(after) BY <2>1 DEF KnownRow
    <2>3. \A d \in Channels : d # c => ledger'[d] = ledger[d] BY <1>1, <1>4
    <2>4. Sets(c, after) BY <1>4 DEF Stage, after
    <2> QED BY <1>1, <1>2, <2>2, <2>3, <2>4, KnownSets
  <1>5. ASSUME NEW row, Sets(c, row), UNCHANGED ledger PROVE Known'
    BY <1>1, <1>2, <1>3, <1>5, KnownSets
  <1> QED BY <1>4, <1>5 DEF Introduce, FailedAt, c

\* A new run has no rows.
LEMMA KnownBegin ==
  ASSUME NEW filter, Begin(filter)
  PROVE  Known'
  <1>1. \A c \in Channels : rows'[c].stage = "none" BY DEF Begin, NoRow
  <1> QED BY <1>1 DEF Known, KnownRow

LEMMA KnownStep == Inv /\ Known /\ [Next]_vars => Known'
  <1> SUFFICES ASSUME Inv, Known, [Next]_vars PROVE Known' OBVIOUS
  <1>1. run \in RunType BY DEF Inv, Shape, RunOK
  <1>2. ASSUME UNCHANGED tables PROVE Known' BY <1>2, KnownStays
  <1>3. CASE Discover \/ Join \/ Collect \/ Crosscheck \/ Introduce
    BY <1>3, KnownDiscover, KnownJoin, KnownCollect, KnownCrosscheck, KnownIntroduce
  <1>4. CASE JoinArrives \/ IntroArrives \/ ReadoutArrives \/ Again \/ Scheduled \/ Retried
    BY <1>2, <1>4 DEF JoinArrives, IntroArrives, ReadoutArrives, Again, Scheduled, Retried
  <1>5. ASSUME UNCHANGED <<rows, ledger>>,
               \/ run' = run
               \/ \E s, f : \/ run' = [run EXCEPT !.status = s]
                            \/ run' = [run EXCEPT !.fail = f]
                            \/ run' = [run EXCEPT !.status = s, !.fail = f]
        PROVE  Known'
    <2>1. run'.filter = run.filter BY <1>1, <1>5 DEF RunType
    <2> QED BY <1>5, <2>1, KnownStays
  <1>6. CASE \E n \in RunIds : Fire(n) BY <1>5, <1>6 DEF Fire
  <1>7. CASE Finish BY <1>5, <1>7 DEF Finish
  <1>8. CASE Return BY <1>5, <1>8 DEF Return
  <1>9. CASE Throws BY <1>5, <1>9 DEF Throws
  <1>10. CASE \E k \in Clicks : Press(k) \/ StartRun(k) \/ Started(k)
    BY <1>2, <1>10, KnownBegin DEF Press, StartRun, Started
  <1>11. CASE FireBeachhead \/ Picked \/ BeachheadStarted
    BY <1>2, <1>11, KnownBegin DEF FireBeachhead, Picked, BeachheadStarted
  <1>12. CASE Crash \/ (\E c \in Channels : Removed(c)) \/ UNCHANGED vars
    BY <1>2, <1>12 DEF Crash, Removed, vars
  <1> QED
    BY <1>3, <1>4, <1>6, <1>7, <1>8, <1>9, <1>10, <1>11, <1>12 DEF Next, Work, Trouble

\* A step of Slack happens in a channel that the ledger does not know.
LEMMA KnownRespected ==
  ASSUME Inv, Known, [Next]_vars, NEW c \in Channels, ledger[c] # "none", ~run.filter
  PROVE  shown'[c] = shown[c] /\ (c \in member' => c \in member)
  <1>1. KnownRow(rows[c]) /\ SlackOK BY DEF Known, Inv, Shape
  <1>2. CASE JoinArrives
    <2> DEFINE d == First(Pending)
    <2>1. /\ d \in Pending /\ ~rows[d].was /\ member' = member \cup {d}
          /\ UNCHANGED shown
      BY <1>2, FirstIn DEF JoinArrives, Pending
    <2> HIDE DEF d
    <2>2. c # d BY <1>1, <2>1 DEF Pending, KnownRow
    <2> QED BY <2>1, <2>2
  <1>3. CASE IntroArrives
    <2> DEFINE d == First(Waiting)
    <2>1. d \in Waiting /\ shown' = [shown EXCEPT ![d] = @ \cup {run.id}] /\ UNCHANGED member
      BY <1>3, FirstIn DEF IntroArrives, Waiting
    <2> HIDE DEF d
    <2>2. c # d BY <1>1, <2>1 DEF Waiting, KnownRow
    <2> QED BY <1>1, <2>1, <2>2 DEF SlackOK
  <1>4. CASE \E d \in Channels : Removed(d) BY <1>4 DEF Removed
  <1>5. CASE UNCHANGED <<member, shown>> BY <1>5
  <1>6. JoinArrives \/ IntroArrives \/ (\E d \in Channels : Removed(d))
        \/ UNCHANGED <<member, shown>>
    <2>1. CASE Work
      BY <2>1 DEF Work, Fire, Discover, Join, Collect, Crosscheck, Introduce, ReadoutArrives,
                  Finish, Scheduled, Return, Retried
    <2>2. CASE Trouble BY <2>2 DEF Trouble, Again, Throws
    <2>3. CASE \/ \E k \in Clicks : Press(k) \/ StartRun(k) \/ Started(k)
               \/ FireBeachhead \/ Picked \/ BeachheadStarted \/ Crash
      BY <2>3 DEF Press, StartRun, Started, FireBeachhead, Picked, BeachheadStarted, Crash
    <2> QED BY <2>1, <2>2, <2>3 DEF Next, vars
  <1> QED BY <1>2, <1>3, <1>4, <1>5, <1>6

-----------------------------------------------------------------------------
(* The theorems *)

\* Whatever callbacks, clicks, failures and evictions come in between, a run
\* that is running and was not cut at its beginning has its next step, and a
\* beachhead that is done has posted its read-out.
THEOREM GoesOn == Spec => []RunGoesOn
  <1>1. Spec => []Inv BY InitInv, StepInv, PTL DEF Spec
  <1> QED BY <1>1, InvGoesOn, PTL

\* Whatever clicks, evictions, setbacks and failed runs come between, what the
\* ledger knows is not introduced again, and not joined again where the bot
\* was removed.
THEOREM LedgerKept == Spec => LedgerRespected
  <1>1. Init => Known BY DEF Init, Known
  <1>2. Inv /\ Known /\ [Next]_vars =>
          [\A c \in Channels :
             ledger[c] # "none" /\ ~run.filter =>
                 shown'[c] = shown[c] /\ (c \in member' => c \in member)]_vars
    BY KnownRespected
  <1>3. Spec => [](Inv /\ Known) BY InitInv, StepInv, KnownStep, <1>1, PTL DEF Spec
  <1> QED BY <1>2, <1>3, PTL DEF Spec, LedgerRespected
=============================================================================
