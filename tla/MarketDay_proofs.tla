--------------------------- MODULE MarketDay_proofs ---------------------------
(***************************************************************************)
(* The market day, piece by piece: the jobs of the scheduler, the rules    *)
(* that make a signal, the prices it reads, the positions that are kept of *)
(* it and the page that shows them.                                        *)
(***************************************************************************)
EXTENDS JobRunner, SignalPipeline, PriceBackfill, Positions, LivePage, NumberLemmas,
        SequenceTheorems

-----------------------------------------------------------------------------
(***************************************************************************)
(* JobRunner: the records of a job, for any number of starts that overlap  *)
(* each other and the scheduler.                                           *)
(***************************************************************************)
Places == {"idle", "queued", "refused", "prices", "financials", "disclosure", "signals",
           "job", "succeeds", "errs", "returned", "raised", "leave", "gone"}

Types ==
  /\ record \in [running : BOOLEAN, status : {"never_run", "running", "success", "error"},
                 successes : Nat, errors : Nat]
  /\ start \in [running : BOOLEAN,
                step : {"idle", "prices", "financials", "disclosure", "signals", "done", "error"}]
  /\ at \in [Runners -> Places]
  /\ count \in [Runners -> Nat]
  /\ ended \in Nat

\* A record says that it is taken only while somebody holds it.
StartHeld ==
  /\ start.running => \E t \in Tasks : InStart(t)
  /\ start.step \notin {"idle", "done", "error"} => \E t \in Tasks : InStart(t) /\ at[t] # "leave"
RecordHeld ==
  record.running \/ record.status = "running" => \E r \in Runners : InJob(r)

\* The two counters, and what runs are about to write into them, never add
\* up to more than the runs that have ended.
Counted ==
  /\ record.successes + record.errors <= ended
  /\ \A r \in Runners : at[r] = "succeeds" => count[r] + record.errors <= ended
  /\ \A r \in Runners : at[r] = "errs" => record.successes + count[r] <= ended
  /\ \A r, s \in Runners : at[r] = "succeeds" /\ at[s] = "errs" => count[r] + count[s] <= ended
  /\ ended > 0 => record.successes + record.errors > 0

JobsInv == Types /\ StartHeld /\ RecordHeld /\ Counted

LEMMA InitHolds == JobsInit => JobsInv
  BY DEF JobsInit, JobsInv, Types, StartHeld, RecordHeld, Counted, NeverRun, NotStarted, Places

-----------------------------------------------------------------------------
\* Steps that leave the record of the job alone, and who is inside the job.
StartStep(t) ==
  \/ Accept(t) \/ Refuse(t) \/ BeginStart(t) \/ NextStep(t)
  \/ StartFails(t) \/ StartDone(t) \/ LeaveStart(t)
JobStep(r) == StartJob(r) \/ ReadCount(r) \/ EndJob(r) \/ FailJob(r)

Outside == Places \ {"job", "succeeds", "errs"}

\* A start moves between places outside the job.
LEMMA StartMoves ==
  ASSUME NEW t \in Tasks, StartStep(t)
  PROVE  /\ UNCHANGED <<record, count, ended>>
         /\ at[t] \in Outside
         /\ \E to \in Outside : at' = [at EXCEPT ![t] = to]
<1>1. CASE NextStep(t)
  <2>1. PICK i \in 1 .. 3 : Goes(t, StepsOfStart[i], StepsOfStart[i + 1])
    BY <1>1 DEF NextStep
  <2>2. {StepsOfStart[i], StepsOfStart[i + 1]} \subseteq Outside
    <3>1. i = 1 \/ i = 2 \/ i = 3
      OBVIOUS
    <3> QED  BY <3>1 DEF StepsOfStart, Outside, Places
  <2> QED  BY <1>1, <2>1, <2>2 DEF NextStep, Goes
<1>2. CASE StartFails(t)
  <2>1. \A i \in 1 .. 4 : StepsOfStart[i] \in Outside
    <3>1. \A i \in 1 .. 4 : i = 1 \/ i = 2 \/ i = 3 \/ i = 4
      OBVIOUS
    <3> QED  BY <3>1 DEF StepsOfStart, Outside, Places
  <2> QED  BY <1>2, <2>1 DEF StartFails, Goes, Outside, Places
<1>3. CASE Accept(t) \/ Refuse(t) \/ BeginStart(t) \/ StartDone(t) \/ LeaveStart(t)
  BY <1>3 DEF Accept, Refuse, BeginStart, StartDone, LeaveStart, Goes, Outside, Places
<1> QED  BY <1>1, <1>2, <1>3 DEF StartStep

\* A start that is inside stays inside until it leaves.
LEMMA StartTypes ==
  ASSUME NEW t \in Tasks, StartStep(t), Types
  PROVE  Types'
<1>1. t \in Runners
  BY DEF Runners
<1>2. start' \in [running : BOOLEAN, step : {"idle", "prices", "financials",
                                 "disclosure", "signals", "done", "error"}]
  <2>1. CASE NextStep(t)
    <3>1. PICK i \in 1 .. 3 : start' = [start EXCEPT !.step = StepsOfStart[i + 1]]
      BY <2>1 DEF NextStep
    <3>2. i = 1 \/ i = 2 \/ i = 3
      OBVIOUS
    <3>3. StepsOfStart[i + 1] \in {"financials", "disclosure", "signals"}
      BY <3>2 DEF StepsOfStart
    <3> QED  BY <3>1, <3>3 DEF Types
  <2>2. CASE ~NextStep(t)
    <3>1. /\ start.running \in BOOLEAN /\ start = [running |-> start.running, step |-> start.step]
          /\ start.step \in {"idle", "prices", "financials", "disclosure", "signals", "done", "error"}
      BY DEF Types
    <3>2. CASE Accept(t) \/ Refuse(t)
      BY <3>2 DEF Accept, Refuse, Types
    <3>3. CASE BeginStart(t)
      BY <3>3 DEF BeginStart
    <3>4. CASE StartFails(t)
      <4>1. start' = [running |-> start.running, step |-> "error"]
        BY <3>1, <3>4, Zenon DEF StartFails
      <4> QED  BY <3>1, <4>1
    <3>5. CASE StartDone(t)
      BY <3>1, <3>5 DEF StartDone, Types
    <3>6. CASE LeaveStart(t)
      BY <3>1, <3>6 DEF LeaveStart, Types
    <3> QED  BY <2>2, <3>2, <3>3, <3>4, <3>5, <3>6 DEF StartStep
  <2> QED  BY <2>1, <2>2
<1>3. at' \in [Runners -> Places]
  BY <1>1, StartMoves DEF Types, Outside
<1> QED  BY <1>2, <1>3, StartMoves DEF Types

LEMMA StartKeepsStartHeld ==
  ASSUME NEW t \in Tasks, StartStep(t), Types, StartHeld
  PROVE  StartHeld'
<1>0. t \in Runners /\ Tasks \subseteq Runners
  BY DEF Runners
<1>1. CASE NextStep(t) \/ BeginStart(t)
  <2>1. at'[t] \in {"prices", "financials", "disclosure", "signals"}
    <3>1. CASE NextStep(t)
      <4>1. PICK i \in 1 .. 3 : at' = [at EXCEPT ![t] = StepsOfStart[i + 1]]
        BY <3>1 DEF NextStep, Goes
      <4>2. i = 1 \/ i = 2 \/ i = 3
        OBVIOUS
      <4> QED  BY <1>0, <4>1, <4>2 DEF StepsOfStart, Types
    <3>2. CASE BeginStart(t)
      BY <1>0, <3>2 DEF BeginStart, Goes, Types
    <3> QED  BY <1>1, <3>1, <3>2
  <2> QED  BY <2>1 DEF StartHeld, InStart
<1>2. CASE StartFails(t) \/ StartDone(t)
  <2>1. at'[t] = "leave" /\ start'.step \in {"done", "error"}
    BY <1>0, <1>2 DEF StartFails, StartDone, Goes, Types
  <2> QED  BY <2>1 DEF StartHeld, InStart
<1>3. CASE Accept(t) \/ Refuse(t)
  <2>1. start' = start /\ at[t] = "idle" /\ \A s \in Tasks : s # t => at'[s] = at[s]
    BY <1>0, <1>3 DEF Accept, Refuse, Goes, Types
  <2> QED  BY <2>1 DEF StartHeld, InStart
<1>4. CASE LeaveStart(t)
  <2>1. /\ at[t] = "leave" /\ start'.running = FALSE /\ start'.step = start.step
        /\ \A s \in Tasks : s # t => at'[s] = at[s]
    BY <1>0, <1>4 DEF LeaveStart, Goes, Types
  <2> QED  BY <2>1 DEF StartHeld, InStart
<1> QED  BY <1>1, <1>2, <1>3, <1>4 DEF StartStep

LEMMA StartKeepsTheRest ==
  ASSUME NEW t \in Tasks, StartStep(t), Types, RecordHeld, Counted
  PROVE  RecordHeld' /\ Counted'
<1>1. \A r \in Runners : /\ at[r] \in {"job", "succeeds", "errs"} => at'[r] = at[r]
                         /\ at'[r] \in {"job", "succeeds", "errs"} => at'[r] = at[r]
  BY StartMoves DEF Outside, Types
<1>2. RecordHeld'
  BY <1>1, StartMoves DEF RecordHeld, InJob
<1>3. Counted'
  BY <1>1, StartMoves DEF Counted
<1> QED  BY <1>2, <1>3

-----------------------------------------------------------------------------
\* A run of the job moves its runner inside the start it belongs to.
LEMMA JobMoves ==
  ASSUME NEW r \in Runners, JobStep(r), Types
  PROVE  /\ start' = start
         /\ at' \in [Runners -> Places]
         /\ \A t \in Tasks : /\ InStart(t) => InStart(t)'
                             /\ at[t] # "leave" => at'[t] # "leave"
         /\ \A s \in Runners : s # r => at'[s] = at[s]
<1>1. start' = start
  BY DEF JobStep, StartJob, ReadCount, EndJob, FailJob
<1>2. PICK to \in {"job", "succeeds", "errs", "returned", "raised"} :
        at' = [at EXCEPT ![r] = to] /\ (at[r] = "idle" => r = Cron)
  BY DEF JobStep, StartJob, ReadCount, EndJob, FailJob, Goes
<1>3. \A t \in Tasks : t # Cron /\ t \in Runners
  BY CronAssumption DEF Runners
<1> QED  BY <1>1, <1>2, <1>3 DEF Types, Places, InStart

LEMMA JobTypes ==
  ASSUME NEW r \in Runners, JobStep(r), Types
  PROVE  Types'
<1>1. count[r] \in Nat /\ record.successes \in Nat /\ record.errors \in Nat /\ ended \in Nat
  BY DEF Types
<1>2. /\ record' \in [running : BOOLEAN, status : {"never_run", "running", "success", "error"},
                      successes : Nat, errors : Nat]
      /\ count' \in [Runners -> Nat] /\ ended' \in Nat
  <2>1. CASE StartJob(r)
    <3>1. /\ record' = [record EXCEPT !.running = TRUE, !.status = "running"]
          /\ count' = count /\ ended' = ended
      BY <2>1 DEF StartJob
    <3> QED  BY <3>1 DEF Types
  <2>2. CASE ReadCount(r)
    BY <1>1, <2>2 DEF ReadCount, Types
  <2>3. CASE EndJob(r)
    <3>1. count' = count /\ ended' = ended + 1 /\ count[r] + 1 \in Nat
      BY <1>1, <2>3 DEF EndJob
    <3>2. record' = [running |-> FALSE, status |-> "success",
                     successes |-> count[r] + 1, errors |-> record.errors]
      BY <2>3 DEF EndJob, Types
    <3> QED  BY <1>1, <3>1, <3>2 DEF Types
  <2>4. CASE FailJob(r)
    <3>1. count' = count /\ ended' = ended + 1 /\ count[r] + 1 \in Nat
      BY <1>1, <2>4 DEF FailJob
    <3>2. record' = [running |-> FALSE, status |-> "error",
                     successes |-> record.successes, errors |-> count[r] + 1]
      BY <2>4 DEF FailJob, Types
    <3> QED  BY <1>1, <3>1, <3>2 DEF Types
  <2> QED  BY <2>1, <2>2, <2>3, <2>4 DEF JobStep
<1> QED  BY <1>2, JobMoves DEF Types

LEMMA JobKeepsHeld ==
  ASSUME NEW r \in Runners, JobStep(r), Types, StartHeld, RecordHeld
  PROVE  StartHeld' /\ RecordHeld'
<1>1. StartHeld'
  BY JobMoves DEF StartHeld
<1>2. RecordHeld'
  <2>1. CASE StartJob(r) \/ ReadCount(r)
    <3>1. at'[r] \in {"job", "succeeds", "errs"}
      BY <2>1 DEF StartJob, ReadCount, Goes, Types
    <3> QED  BY <3>1 DEF RecordHeld, InJob
  <2>2. CASE EndJob(r) \/ FailJob(r)
    <3>1. record'.running = FALSE /\ record'.status # "running"
      BY <2>2 DEF EndJob, FailJob, Types
    <3> QED  BY <3>1 DEF RecordHeld
  <2> QED  BY <2>1, <2>2 DEF JobStep
<1> QED  BY <1>1, <1>2

LEMMA JobKeepsCounted ==
  ASSUME NEW r \in Runners, JobStep(r), Types, Counted
  PROVE  Counted'
<1>1. /\ record.successes \in Nat /\ record.errors \in Nat /\ ended \in Nat
      /\ \A s \in Runners : count[s] \in Nat
  BY DEF Types
<1>2. \A s \in Runners : s # r => at'[s] = at[s]
  BY JobMoves
<1>3. CASE StartJob(r)
  <2>1. at'[r] = "job" /\ record'.successes = record.successes
        /\ record'.errors = record.errors /\ count' = count /\ ended' = ended
    BY <1>3 DEF StartJob, Goes, Types
  <2> QED  BY <1>2, <2>1 DEF Counted
<1>4. CASE ReadCount(r)
  <2>1. /\ record' = record /\ ended' = ended
        /\ \A s \in Runners : s # r => count'[s] = count[s]
        /\ \/ at'[r] = "succeeds" /\ count'[r] = record.successes
           \/ at'[r] = "errs" /\ count'[r] = record.errors
    BY <1>4 DEF ReadCount, Goes, Types
  <2> QED  BY <1>1, <1>2, <2>1 DEF Counted
<1>5. CASE EndJob(r)
  <2>1. /\ at[r] = "succeeds" /\ at'[r] = "returned" /\ count' = count /\ ended' = ended + 1
        /\ record'.successes = count[r] + 1 /\ record'.errors = record.errors
    BY <1>5 DEF EndJob, Goes, Types
  <2> QED  BY <1>1, <1>2, <2>1 DEF Counted
<1>6. CASE FailJob(r)
  <2>1. /\ at[r] = "errs" /\ at'[r] = "raised" /\ count' = count /\ ended' = ended + 1
        /\ record'.errors = count[r] + 1 /\ record'.successes = record.successes
    BY <1>6 DEF FailJob, Goes, Types
  <2> QED  BY <1>1, <1>2, <2>1 DEF Counted
<1> QED  BY <1>3, <1>4, <1>5, <1>6 DEF JobStep

-----------------------------------------------------------------------------
\* scheduler.py and the cold start: the invariant survives every step.
LEMMA InvHolds == JobsSpec => []JobsInv
<1>1. JobsInv /\ [JobsNext]_JobVars => JobsInv'
  <2> SUFFICES ASSUME JobsInv, [JobsNext]_JobVars
               PROVE  JobsInv'
    OBVIOUS
  <2>1. ASSUME NEW t \in Tasks, StartStep(t)
        PROVE  JobsInv'
    BY <2>1, StartTypes, StartKeepsStartHeld, StartKeepsTheRest DEF JobsInv
  <2>2. ASSUME NEW r \in Runners, JobStep(r)
        PROVE  JobsInv'
    BY <2>2, JobTypes, JobKeepsHeld, JobKeepsCounted DEF JobsInv
  <2>3. CASE UNCHANGED JobVars
    BY <2>3 DEF JobVars, JobsInv, Types, StartHeld, RecordHeld, Counted, InStart, InJob
  <2> QED  BY <2>1, <2>2, <2>3 DEF JobsNext, StartStep, JobStep
<1> QED  BY <1>1, InitHolds, PTL DEF JobsSpec

\* The two records keep their types however the runs overlap.
THEOREM JobsTypeCorrect == JobsSpec => []JobsTypeOK
<1>1. JobsInv => JobsTypeOK
  BY DEF JobsInv, Types, JobsTypeOK
<1> QED  BY <1>1, InvHolds, PTL

\* Once nothing runs both records say so, and no run that ended is counted
\* twice: for any number of starts (scheduler.py, run_tracked_job; system.py,
\* _run_initialize).
THEOREM RecordsRest == JobsSpec => []RecordsComeToRest
<1>1. JobsInv => RecordsComeToRest
  BY DEF JobsInv, Types, StartHeld, RecordHeld, Counted, RecordsComeToRest
<1> QED  BY <1>1, InvHolds, PTL

-----------------------------------------------------------------------------
(***************************************************************************)
(* SignalPipeline: what a signal says, whatever the analysts score and for *)
(* any limits and thresholds.                                              *)
(***************************************************************************)
Rules == {"propose", "constrain", "cap", "market", "breadth", "drawdown", "limit", "tiny",
          "label", "regime", "done"}
SomeSignal ==
  [score : Int, rec : Recommendations, size : Nat, trader : Recommendations, suggested : Nat,
   vetoed : BOOLEAN, lowered : BOOLEAN, dampened : BOOLEAN]

\* No rule before the risk manager vetoes, but for the last one of aggregate;
\* and until the last rule of the size the allocation has nothing to read.
Standing(x, r) ==
  /\ x \in SomeSignal
  /\ r \in {"propose", "constrain", "cap", "market"} => ~x.vetoed
  /\ r \notin {"regime", "done"} => x.suggested = 0
  /\ x.vetoed => x.rec # "entry" /\ x.size = 0 /\ x.suggested = 0
  /\ r # "propose" => \/ x.rec = ScoreToRecommendation(x.score)
                      \/ x.vetoed \/ x.lowered \/ x.dampened

SignalInv ==
  /\ cap \in Int /\ rule \in Rules
  /\ given \in [Lanes -> Given]
  /\ signal \in [Lanes -> SomeSignal]
  /\ \A l \in Lanes : Standing(signal[l], rule)

-----------------------------------------------------------------------------
LEMMA ScoresAreInts == Scores \subseteq Int /\ Caps \subseteq Int /\ EntryThreshold \in Nat
                       /\ MaxPosition \in Nat /\ TrialPosition \in Nat
BY ScoresAssumption, SizesAssumption

LEMMA RecommendationType == \A s \in Int : ScoreToRecommendation(s) \in Recommendations
BY ScoresAreInts DEF ScoreToRecommendation, Recommendations

LEMMA SuggestPositionType == \A s, d \in Int : SuggestPosition(s, d) \in Nat
<1> SUFFICES ASSUME NEW s \in Int, NEW d \in Int PROVE SuggestPosition(s, d) \in Nat
  OBVIOUS
<1>1. Ladder(s) \in Nat /\ ConfidencePercent(s) \in Nat
  <2>1. Absolute(s) \in Nat
    BY DEF Absolute
  <2>2. QED
    BY <2>1 DEF Ladder, ConfidencePercent
<1>2. \A n, p \in Nat : (n * p) \div 100 \in Nat
  OBVIOUS
<1>3. QED
  BY <1>1, <1>2, ScoresAreInts DEF SuggestPosition, Least

LEMMA SizedStands ==
  ASSUME NEW x \in SomeSignal, NEW percent \in {50, 70}
  PROVE  /\ Sized(x, percent) \in SomeSignal
         /\ x.size = 0 => Sized(x, percent).size = 0
         /\ Sized(x, percent).size = (x.size * percent) \div 100
         /\ Sized(x, percent).score = x.score /\ Sized(x, percent).rec = x.rec
         /\ Sized(x, percent).trader = x.trader
         /\ Sized(x, percent).suggested = x.suggested /\ Sized(x, percent).vetoed = x.vetoed
         /\ Sized(x, percent).lowered = x.lowered /\ Sized(x, percent).dampened = x.dampened
<1>1. x.size \in Nat
  BY DEF SomeSignal
<1>2. PICK n \in Nat : n = (x.size * percent) \div 100 /\ (x.size = 0 => n = 0)
  BY <1>1
<1>3. Sized(x, percent) = [x EXCEPT !.size = n]
  BY <1>2 DEF Sized
<1>4. QED
  BY <1>2, <1>3 DEF SomeSignal

LEMMA RefusedStands ==
  ASSUME NEW x \in SomeSignal
  PROVE  /\ Refused(x) \in SomeSignal /\ Refused(x).vetoed /\ Refused(x).rec = "hold"
         /\ Refused(x).size = 0 /\ Refused(x).suggested = x.suggested
<1> DEFINE y1 == [x EXCEPT !.vetoed = TRUE]
           y2 == [y1 EXCEPT !.rec = "hold"]
           y == [y2 EXCEPT !.size = 0]
<1>1. Refused(x) = y
  BY DEF Refused, SomeSignal
<1>2. y1 \in SomeSignal /\ y1.vetoed /\ y1.suggested = x.suggested
  BY DEF SomeSignal
<1> HIDE DEF y1
<1>3. "hold" \in Recommendations
  BY DEF Recommendations
<1>4. y2 \in SomeSignal /\ y2.vetoed /\ y2.suggested = x.suggested /\ y2.rec = "hold"
  BY <1>2, <1>3 DEF SomeSignal
<1> HIDE DEF y2
<1>5. /\ y \in SomeSignal /\ y.vetoed /\ y.suggested = x.suggested /\ y.rec = "hold"
      /\ y.size = 0
  BY <1>4 DEF SomeSignal
<1>6. QED
  BY <1>1, <1>5

-----------------------------------------------------------------------------
(* Each rule.                                                              *)

LEMMA ProposalStands ==
  ASSUME NEW x, NEW g \in Given, Standing(x, "propose"), NEW r \in {"constrain", "cap"}
  PROVE  Standing(Proposal(x, g), r)
<1>1. x \in SomeSignal /\ ~x.vetoed /\ x.suggested = 0
  BY DEF Standing
<1>2. g.score \in Int /\ g.drawdown \in Int
  <2>1. g.score \in Scores /\ g.drawdown \in {0, -5, -9}
    BY DEF Given
  <2>2. g.score \in Int
    BY <2>1, ScoresAreInts
  <2>3. g.drawdown \in Int
    <3>1. g.drawdown = 0 \/ g.drawdown = -5 \/ g.drawdown = -9
      BY <2>1
    <3>2. QED
      BY <3>1
  <2>4. QED
    BY <2>2, <2>3
<1>3. PICK rec \in Recommendations : rec = ScoreToRecommendation(g.score)
  BY <1>2, RecommendationType
<1>4. PICK n \in Nat : n = SuggestPosition(g.score, IF path = "v2" THEN g.drawdown ELSE 0)
  <2>1. PICK d \in Int : d = IF path = "v2" THEN g.drawdown ELSE 0
    BY <1>2
  <2>2. SuggestPosition(g.score, d) \in Nat
    BY <1>2, SuggestPositionType
  <2>3. QED
    BY <2>1, <2>2
<1> DEFINE y == [x EXCEPT !.score = g.score, !.rec = rec, !.trader = rec, !.size = n]
<1>5. Proposal(x, g) = y
  BY <1>3, <1>4 DEF Proposal
<1>6. /\ y \in SomeSignal /\ ~y.vetoed /\ y.suggested = 0 /\ y.rec = rec /\ y.score = g.score
  BY <1>1, <1>2 DEF SomeSignal
<1> HIDE DEF y
<1>7. QED
  BY <1>3, <1>5, <1>6 DEF Standing

LEMMA ConstrainedStands ==
  ASSUME NEW x, NEW g \in Given, Standing(x, "constrain"), cap \in Int
  PROVE  /\ Constrained(x, g) \in SomeSignal
         /\ Constrained(x, g).vetoed => /\ Constrained(x, g).rec # "entry"
                                        /\ Constrained(x, g).size = 0
         /\ \/ Constrained(x, g).rec = ScoreToRecommendation(Constrained(x, g).score)
            \/ Constrained(x, g).vetoed \/ Constrained(x, g).lowered \/ Constrained(x, g).dampened
<1>1. x \in SomeSignal /\ ~x.vetoed
      /\ (x.rec = ScoreToRecommendation(x.score) \/ x.lowered \/ x.dampened)
  BY DEF Standing
<1>2. CASE g.label = "avoid" /\ IsEntry(x)
  BY <1>1, <1>2, RefusedStands DEF Constrained
<1>3. CASE g.label = "overvalued" /\ IsEntry(x)
  BY <1>1, <1>3, SizedStands DEF Constrained
<1>4. CASE g.label = "watch" /\ x.score > cap
  <2>1. PICK rec \in Recommendations : rec = ScoreToRecommendation(cap)
    BY RecommendationType
  <2>2. PICK n \in Nat : n = IF rec = "entry" THEN x.size ELSE 0
    BY <1>1 DEF SomeSignal
  <2> DEFINE y == [x EXCEPT !.score = cap, !.rec = rec, !.size = n]
  <2>3. Constrained(x, g) = y
    BY <1>4, <2>1, <2>2 DEF Constrained
  <2>4. y \in SomeSignal /\ ~y.vetoed /\ y.rec = rec /\ y.score = cap
    BY <1>1 DEF SomeSignal
  <2> HIDE DEF y
  <2>5. QED
    BY <2>1, <2>3, <2>4
<1>5. CASE /\ ~(g.label = "avoid" /\ IsEntry(x)) /\ ~(g.label = "overvalued" /\ IsEntry(x))
           /\ ~(g.label = "watch" /\ x.score > cap)
  <2>1. Constrained(x, g) = x
    BY <1>5 DEF Constrained
  <2>2. QED
    BY <1>1, <2>1
<1>6. QED
  BY <1>2, <1>3, <1>4, <1>5

LEMMA AllocatedStands ==
  ASSUME NEW x, NEW g \in Given, Standing(x, "constrain"), cap \in Int
  PROVE  Standing(Allocated(x, g), "done")
<1> DEFINE y == Constrained(x, g)
<1>1. /\ y \in SomeSignal /\ (y.vetoed => y.rec # "entry" /\ y.size = 0)
      /\ (y.rec = ScoreToRecommendation(y.score) \/ y.vetoed \/ y.lowered \/ y.dampened)
  BY ConstrainedStands
<1>2. Allocated(x, g) = [y EXCEPT !.suggested = y.size]
  BY DEF Allocated
<1> HIDE DEF y
<1> DEFINE z == [y EXCEPT !.suggested = y.size]
<1>3. /\ z \in SomeSignal /\ z.suggested = y.size /\ z.size = y.size /\ z.rec = y.rec
      /\ z.score = y.score /\ z.vetoed = y.vetoed /\ z.lowered = y.lowered
      /\ z.dampened = y.dampened
  BY <1>1 DEF SomeSignal
<1> HIDE DEF z
<1>4. QED
  BY <1>1, <1>2, <1>3 DEF Standing, z

LEMMA CappedStands ==
  ASSUME NEW x, NEW g \in Given, Standing(x, "cap"), cap \in Int
  PROVE  Standing(Capped(x, g), "market")
<1>1. x \in SomeSignal /\ ~x.vetoed /\ x.suggested = 0
  BY DEF Standing
<1>2. CASE g.label = "watch" /\ x.score > cap
  <2>1. PICK rec \in Recommendations : rec = ScoreToRecommendation(cap)
    BY RecommendationType
  <2> DEFINE y == [x EXCEPT !.score = cap, !.rec = rec, !.trader = rec]
  <2>2. Capped(x, g) = y
    BY <1>2, <2>1 DEF Capped
  <2>3. y \in SomeSignal /\ ~y.vetoed /\ y.suggested = 0 /\ y.rec = rec /\ y.score = cap
    BY <1>1 DEF SomeSignal
  <2> HIDE DEF y
  <2>4. QED
    BY <2>1, <2>2, <2>3 DEF Standing
<1>3. CASE ~(g.label = "watch" /\ x.score > cap)
  <2>1. Capped(x, g) = x
    BY <1>3 DEF Capped
  <2>2. QED
    BY <2>1 DEF Standing
<1>4. QED
  BY <1>2, <1>3

\* A rule that refuses an entry, or leaves the signal alone.
LEMMA RefusalStands ==
  ASSUME NEW x, NEW r \in Rules \ {"propose"}, NEW s \in Rules \ {"propose"}, Standing(x, r),
         s \notin {"constrain", "cap", "market"}, s \notin {"regime", "done"},
         r \notin {"regime", "done"}
  PROVE  Standing(x, s) /\ Standing(Refused(x), s)
<1>1. Standing(x, s)
  BY DEF Standing
<1>2. x \in SomeSignal /\ x.suggested = 0
  BY DEF Standing
<1>3. QED
  BY <1>1, <1>2, RefusedStands DEF Standing

\* A rule that makes the size smaller.
LEMMA SizingStands ==
  ASSUME NEW x, NEW r, Standing(x, r), NEW percent \in {50, 70}
  PROVE  Standing(Sized(x, percent), r)
<1>1. x \in SomeSignal
  BY DEF Standing
<1>2. QED
  BY <1>1, SizedStands DEF Standing

LEMMA MarketStands ==
  ASSUME NEW x, NEW g \in Given, Standing(x, "market")
  PROVE  Standing(Market(x, g), "breadth")
BY RefusalStands DEF Market, Rules

LEMMA BreadthStands ==
  ASSUME NEW x, NEW g \in Given, Standing(x, "breadth")
  PROVE  Standing(Breadth(x, g), "drawdown")
<1>1. Standing(x, "drawdown")
  BY DEF Standing
<1> DEFINE y == [x EXCEPT !.rec = "watch", !.lowered = TRUE]
<1>2. x \in SomeSignal
  BY DEF Standing
<1>3. /\ y \in SomeSignal /\ y.rec = "watch" /\ y.lowered /\ y.size = x.size
      /\ y.suggested = x.suggested /\ y.vetoed = x.vetoed
  BY <1>2 DEF SomeSignal, Recommendations
<1>4. CASE g.breadth = "collapsed" /\ IsEntry(x)
  <2>1. Breadth(x, g) = Sized(y, 70)
    BY <1>4 DEF Breadth
  <2> HIDE DEF y
  <2>2. Standing(y, "drawdown")
    BY <1>1, <1>3 DEF Standing
  <2>3. QED
    BY <2>1, <2>2, SizingStands
<1>5. CASE ~(g.breadth = "collapsed" /\ IsEntry(x))
  <2>1. Breadth(x, g) = x
    BY <1>5 DEF Breadth
  <2>2. QED
    BY <1>1, <2>1
<1>6. QED
  BY <1>4, <1>5

LEMMA DrawdownStands ==
  ASSUME NEW x, NEW g \in Given, Standing(x, "drawdown")
  PROVE  Standing(Drawdown(x, g), "limit")
BY RefusalStands DEF Drawdown, Rules

LEMMA LimitUpStands ==
  ASSUME NEW x, NEW g \in Given, Standing(x, "limit")
  PROVE  Standing(LimitUp(x, g), "tiny")
<1>1. Standing(x, "tiny")
  BY DEF Standing
<1>2. QED
  BY <1>1, SizingStands DEF LimitUp

LEMMA TinyStands ==
  ASSUME NEW x, NEW g \in Given, Standing(x, "tiny")
  PROVE  Standing(Tiny(x, g), "label")
<1>1. Standing(x, "label") /\ x \in SomeSignal
  BY DEF Standing
<1> DEFINE y == [x EXCEPT !.size = 0]
<1>2. /\ y \in SomeSignal /\ y.size = 0 /\ y.rec = x.rec /\ y.score = x.score
      /\ y.suggested = x.suggested /\ y.vetoed = x.vetoed /\ y.lowered = x.lowered
      /\ y.dampened = x.dampened
  BY <1>1 DEF SomeSignal
<1>3. Tiny(x, g) \in {x, y}
  BY DEF Tiny
<1> HIDE DEF y
<1>4. Standing(y, "label")
  BY <1>1, <1>2 DEF Standing
<1>5. QED
  BY <1>1, <1>3, <1>4

LEMMA ReviewedStands ==
  ASSUME NEW x, NEW g \in Given, Standing(x, "label")
  PROVE  Standing(Reviewed(x, g), "regime")
<1> DEFINE y == Label(x, g)
<1>1. Standing(y, "label")
  <2>1. Standing(Refused(x), "label")
    BY RefusalStands DEF Rules
  <2>2. Standing(Sized(x, 50), "label")
    BY SizingStands
  <2>3. y \in {Refused(x), Sized(x, 50), x}
    BY DEF Label
  <2>4. QED
    BY <2>1, <2>2, <2>3
<1>2. Reviewed(x, g) = [y EXCEPT !.suggested = y.size]
  BY DEF Reviewed
<1> HIDE DEF y
<1> DEFINE z == [y EXCEPT !.suggested = y.size]
<1>3. y \in SomeSignal
  BY <1>1 DEF Standing
<1>4. /\ z \in SomeSignal /\ z.suggested = y.size /\ z.size = y.size /\ z.rec = y.rec
      /\ z.score = y.score /\ z.vetoed = y.vetoed /\ z.lowered = y.lowered
      /\ z.dampened = y.dampened
  BY <1>3 DEF SomeSignal
<1> HIDE DEF z
<1>5. QED
  BY <1>1, <1>2, <1>4 DEF Standing, z

LEMMA DampenedStands ==
  ASSUME NEW x, NEW g \in Given, Standing(x, "regime")
  PROVE  Standing(Dampened(x, g), "done")
<1>1. Standing(x, "done") /\ x \in SomeSignal
  BY DEF Standing
<1>2. PICK s \in Int : s = (x.score * 7) \div 10
  BY <1>1 DEF SomeSignal
<1> DEFINE y == [x EXCEPT !.score = s, !.dampened = TRUE]
<1>3. /\ y \in SomeSignal /\ y.dampened /\ y.rec = x.rec /\ y.size = x.size
      /\ y.suggested = x.suggested /\ y.vetoed = x.vetoed
  BY <1>1 DEF SomeSignal
<1>4. Dampened(x, g) \in {Sized(y, 70), x}
  BY <1>2 DEF Dampened
<1> HIDE DEF y
<1>5. Standing(y, "done")
  BY <1>1, <1>3 DEF Standing
<1>6. QED
  BY <1>1, <1>4, <1>5, SizingStands

-----------------------------------------------------------------------------
LEMMA WorseIsGiven == \A g \in Given : WorseThan(g) \subseteq Given
<1> SUFFICES ASSUME NEW g \in Given, NEW w \in WorseThan(g) PROVE w \in Given
  OBVIOUS
<1>1. CASE \E s \in Scores : w = [g EXCEPT !.score = s]
  BY <1>1 DEF Given
<1>2. CASE \E m \in {"bearish", "panic"} : w = [g EXCEPT !.market = m]
  BY <1>2 DEF Given
<1>3. CASE \E b \in {"weak", "collapsed"} : w = [g EXCEPT !.breadth = b]
  BY <1>3 DEF Given
<1>4. CASE \E d \in {-5, -9} : w = [g EXCEPT !.drawdown = d]
  BY <1>4 DEF Given
<1>5. CASE w = [g EXCEPT !.limitUp = TRUE]
  BY <1>5 DEF Given
<1>6. CASE \E l \in {"watch", "overvalued", "avoid"} : w = [g EXCEPT !.label = l]
  BY <1>6 DEF Given
<1>7. QED
  BY <1>1, <1>2, <1>3, <1>4, <1>5, <1>6 DEF WorseThan

LEMMA SignalInvInit == SignalInit => SignalInv
<1> SUFFICES ASSUME SignalInit PROVE SignalInv
  OBVIOUS
<1>1. PICK g \in Given : \E w \in WorseThan(g) :
        given = [l \in Lanes |-> IF l = "this" THEN g ELSE w]
  BY DEF SignalInit
<1>2. PICK w \in WorseThan(g) : given = [l \in Lanes |-> IF l = "this" THEN g ELSE w]
  BY <1>1
<1>3. w \in Given
  BY <1>2, WorseIsGiven
<1>4. given \in [Lanes -> Given]
  BY <1>2, <1>3
<1>5. NoSignal \in SomeSignal /\ ~NoSignal.vetoed /\ NoSignal.suggested = 0
  BY DEF NoSignal, SomeSignal, Recommendations
<1>6. Standing(NoSignal, "propose")
  BY <1>5 DEF Standing
<1>7. cap \in Int
  BY ScoresAreInts DEF SignalInit
<1>8. QED
  BY <1>4, <1>5, <1>6, <1>7 DEF SignalInit, SignalInv, Rules

\* A rule that keeps each signal in order keeps the invariant.
LEMMA RuleKeepsInv ==
  ASSUME SignalInv, NEW next \in Rules, UNCHANGED <<path, cap, given>>, rule' = next,
         NEW new, signal' = [l \in Lanes |-> new[l]],
         \A l \in Lanes : Standing(new[l], next)
  PROVE  SignalInv'
<1>1. \A l \in Lanes : Standing(signal'[l], rule')
  OBVIOUS
<1>2. signal' \in [Lanes -> SomeSignal]
  BY DEF Standing
<1>3. QED
  BY <1>1, <1>2 DEF SignalInv

LEMMA SignalInvNext == SignalInv /\ [SignalNext]_SignalVars => SignalInv'
<1> SUFFICES ASSUME SignalInv, [SignalNext]_SignalVars PROVE SignalInv'
  OBVIOUS
<1>1. /\ cap \in Int /\ \A l \in Lanes : given[l] \in Given /\ Standing(signal[l], rule)
  BY DEF SignalInv
<1>2. CASE Propose
  <2> DEFINE new == [l \in Lanes |-> Proposal(signal[l], given[l])]
  <2>1. PICK next \in {"constrain", "cap"} : rule' = next
    BY <1>2 DEF Propose, Apply
  <2>2. rule = "propose" /\ UNCHANGED <<path, cap, given>> /\ signal' = new
    BY <1>2 DEF Propose, Apply
  <2>3. \A l \in Lanes : Standing(new[l], next)
    BY <1>1, <2>2, ProposalStands
  <2>4. signal' = [l \in Lanes |-> new[l]]
    BY <2>2
  <2> HIDE DEF new
  <2>5. QED
    BY <2>1, <2>2, <2>3, <2>4, RuleKeepsInv DEF Rules
<1>3. CASE Constrain
  <2> DEFINE new == [l \in Lanes |-> Allocated(signal[l], given[l])]
  <2>1. /\ rule = "constrain" /\ rule' = "done" /\ UNCHANGED <<path, cap, given>>
        /\ signal' = new
    BY <1>3 DEF Constrain, Apply
  <2>2. \A l \in Lanes : Standing(new[l], "done")
    BY <1>1, <2>1, AllocatedStands
  <2>3. signal' = [l \in Lanes |-> new[l]]
    BY <2>1
  <2> HIDE DEF new
  <2>4. QED
    BY <2>1, <2>2, <2>3, RuleKeepsInv DEF Rules
<1>4. CASE Cap
  <2> DEFINE new == [l \in Lanes |-> Capped(signal[l], given[l])]
  <2>1. /\ rule = "cap" /\ rule' = "market" /\ UNCHANGED <<path, cap, given>>
        /\ signal' = new
    BY <1>4 DEF Cap, Apply
  <2>2. \A l \in Lanes : Standing(new[l], "market")
    BY <1>1, <2>1, CappedStands
  <2>3. signal' = [l \in Lanes |-> new[l]]
    BY <2>1
  <2> HIDE DEF new
  <2>4. QED
    BY <2>1, <2>2, <2>3, RuleKeepsInv DEF Rules
<1>5. CASE ReviewMarket
  <2> DEFINE new == [l \in Lanes |-> Market(signal[l], given[l])]
  <2>1. /\ rule = "market" /\ rule' = "breadth" /\ UNCHANGED <<path, cap, given>>
        /\ signal' = new
    BY <1>5 DEF ReviewMarket, Apply
  <2>2. \A l \in Lanes : Standing(new[l], "breadth")
    BY <1>1, <2>1, MarketStands
  <2>3. signal' = [l \in Lanes |-> new[l]]
    BY <2>1
  <2> HIDE DEF new
  <2>4. QED
    BY <2>1, <2>2, <2>3, RuleKeepsInv DEF Rules
<1>6. CASE ReviewBreadth
  <2> DEFINE new == [l \in Lanes |-> Breadth(signal[l], given[l])]
  <2>1. /\ rule = "breadth" /\ rule' = "drawdown" /\ UNCHANGED <<path, cap, given>>
        /\ signal' = new
    BY <1>6 DEF ReviewBreadth, Apply
  <2>2. \A l \in Lanes : Standing(new[l], "drawdown")
    BY <1>1, <2>1, BreadthStands
  <2>3. signal' = [l \in Lanes |-> new[l]]
    BY <2>1
  <2> HIDE DEF new
  <2>4. QED
    BY <2>1, <2>2, <2>3, RuleKeepsInv DEF Rules
<1>7. CASE ReviewDrawdown
  <2> DEFINE new == [l \in Lanes |-> Drawdown(signal[l], given[l])]
  <2>1. /\ rule = "drawdown" /\ rule' = "limit" /\ UNCHANGED <<path, cap, given>>
        /\ signal' = new
    BY <1>7 DEF ReviewDrawdown, Apply
  <2>2. \A l \in Lanes : Standing(new[l], "limit")
    BY <1>1, <2>1, DrawdownStands
  <2>3. signal' = [l \in Lanes |-> new[l]]
    BY <2>1
  <2> HIDE DEF new
  <2>4. QED
    BY <2>1, <2>2, <2>3, RuleKeepsInv DEF Rules
<1>8. CASE ReviewLimit
  <2> DEFINE new == [l \in Lanes |-> LimitUp(signal[l], given[l])]
  <2>1. /\ rule = "limit" /\ rule' = "tiny" /\ UNCHANGED <<path, cap, given>>
        /\ signal' = new
    BY <1>8 DEF ReviewLimit, Apply
  <2>2. \A l \in Lanes : Standing(new[l], "tiny")
    BY <1>1, <2>1, LimitUpStands
  <2>3. signal' = [l \in Lanes |-> new[l]]
    BY <2>1
  <2> HIDE DEF new
  <2>4. QED
    BY <2>1, <2>2, <2>3, RuleKeepsInv DEF Rules
<1>9. CASE ReviewTiny
  <2> DEFINE new == [l \in Lanes |-> Tiny(signal[l], given[l])]
  <2>1. /\ rule = "tiny" /\ rule' = "label" /\ UNCHANGED <<path, cap, given>>
        /\ signal' = new
    BY <1>9 DEF ReviewTiny, Apply
  <2>2. \A l \in Lanes : Standing(new[l], "label")
    BY <1>1, <2>1, TinyStands
  <2>3. signal' = [l \in Lanes |-> new[l]]
    BY <2>1
  <2> HIDE DEF new
  <2>4. QED
    BY <2>1, <2>2, <2>3, RuleKeepsInv DEF Rules
<1>10. CASE ReviewLabel
  <2> DEFINE new == [l \in Lanes |-> Reviewed(signal[l], given[l])]
  <2>1. /\ rule = "label" /\ rule' = "regime" /\ UNCHANGED <<path, cap, given>>
        /\ signal' = new
    BY <1>10 DEF ReviewLabel, Apply
  <2>2. \A l \in Lanes : Standing(new[l], "regime")
    BY <1>1, <2>1, ReviewedStands
  <2>3. signal' = [l \in Lanes |-> new[l]]
    BY <2>1
  <2> HIDE DEF new
  <2>4. QED
    BY <2>1, <2>2, <2>3, RuleKeepsInv DEF Rules
<1>11. CASE Dampen
  <2> DEFINE new == [l \in Lanes |-> Dampened(signal[l], given[l])]
  <2>1. /\ rule = "regime" /\ rule' = "done" /\ UNCHANGED <<path, cap, given>>
        /\ signal' = new
    BY <1>11 DEF Dampen, Apply
  <2>2. \A l \in Lanes : Standing(new[l], "done")
    BY <1>1, <2>1, DampenedStands
  <2>3. signal' = [l \in Lanes |-> new[l]]
    BY <2>1
  <2> HIDE DEF new
  <2>4. QED
    BY <2>1, <2>2, <2>3, RuleKeepsInv DEF Rules
<1>12. CASE UNCHANGED SignalVars
  BY <1>12 DEF SignalVars, SignalInv
<1>13. QED
  BY <1>2, <1>3, <1>4, <1>5, <1>6, <1>7, <1>8, <1>9, <1>10, <1>11, <1>12 DEF SignalNext

(* A veto stands: no rule after it makes an entry of the signal or gives   *)
(* the allocation a size to read, for any scores, caps and settings.       *)
THEOREM VetoesStand == SignalSpec => []VetoStands
<1>1. SignalInv => VetoStands
  BY DEF SignalInv, Standing, VetoStands
<1>2. QED
  BY SignalInvInit, SignalInvNext, <1>1, PTL DEF SignalSpec

(* The recommendation that is saved is the one of the saved score, but for *)
(* a veto, a lowered recommendation and a dampened score.                  *)
THEOREM ScoresExplainRecommendations == SignalSpec => []ScoreExplainsRecommendation
<1>1. SignalInv => ScoreExplainsRecommendation
  BY DEF SignalInv, Standing, ScoreExplainsRecommendation, Done
<1>2. QED
  BY SignalInvInit, SignalInvNext, <1>1, PTL DEF SignalSpec

-----------------------------------------------------------------------------
(* The two lanes.                                                          *)

\* What WorseThan has in common.
AtLeastAsBad(g, w) ==
  /\ w.score <= g.score /\ w.drawdown <= g.drawdown
  /\ g.market = "panic" => w.market = "panic"
  /\ g.breadth = "collapsed" => w.breadth = "collapsed"
  /\ g.limitUp => w.limitUp
  /\ g.label = "avoid" => w.label = "avoid"
  /\ g.label = "overvalued" => w.label \in {"overvalued", "avoid"}
  /\ g.label = "watch" => w.label = "watch"

\* An entry is one that the trader proposed, for the score that was given.
OnItsWay(x, g, r) ==
  /\ r \notin {"regime", "done"} => (x.rec = "entry" => x.trader = "entry")
  /\ r \in {"constrain", "cap"} => x.score = g.score /\ x.rec = ScoreToRecommendation(g.score)

\* What the allocation reads, or would read if no rule were left.
NoLarger(r, x, y) ==
  y.rec = "entry" =>
    /\ x.rec = "entry"
    /\ IF r \in {"regime", "done"} THEN y.suggested <= x.suggested ELSE y.size <= x.size

Ordered(x, g, y, w, r) == OnItsWay(x, g, r) /\ OnItsWay(y, w, r) /\ NoLarger(r, x, y)

OrderInv ==
  /\ AtLeastAsBad(given["this"], given["worse"])
  /\ \/ Ordered(signal["this"], given["this"], signal["worse"], given["worse"], rule)
     \/ TrialBeatsTheLadder

TrialIsSmall == TrialPosition <= (MaxPosition * 50) \div 100

-----------------------------------------------------------------------------
LEMMA WorseIsAsBad ==
  ASSUME NEW g \in Given, NEW w \in WorseThan(g)
  PROVE  AtLeastAsBad(g, w)
<1>0. g.score \in Int /\ g.drawdown \in Int
  <2>1. g.score \in Scores /\ g.drawdown \in {0, -5, -9}
    BY DEF Given
  <2>2. g.score \in Int
    BY <2>1, ScoresAreInts
  <2>3. g.drawdown = 0 \/ g.drawdown = -5 \/ g.drawdown = -9
    BY <2>1
  <2>4. QED
    BY <2>2, <2>3
<1>1. CASE \E s \in {t \in Scores : t < g.score} : w = [g EXCEPT !.score = s]
  <2>1. PICK s \in Scores : s < g.score /\ w = [g EXCEPT !.score = s]
    BY <1>1
  <2>2. /\ w.score = s /\ w.drawdown = g.drawdown /\ w.market = g.market /\ w.breadth = g.breadth
        /\ w.limitUp = g.limitUp /\ w.label = g.label
    BY <2>1 DEF Given
  <2>3. s \in Int
    BY ScoresAreInts
  <2>4. QED
    BY <1>0, <2>1, <2>2, <2>3 DEF AtLeastAsBad
<1>2. CASE \E m \in {"bearish", "panic"} : w = [g EXCEPT !.market = m] /\ g.market # "panic"
  <2>1. PICK m : w = [g EXCEPT !.market = m] /\ g.market # "panic"
    BY <1>2
  <2>2. /\ w.score = g.score /\ w.drawdown = g.drawdown /\ w.breadth = g.breadth
        /\ w.limitUp = g.limitUp /\ w.label = g.label
    BY <2>1 DEF Given
  <2>3. QED
    BY <1>0, <2>1, <2>2 DEF AtLeastAsBad
<1>3. CASE \E b \in {"weak", "collapsed"} : w = [g EXCEPT !.breadth = b] /\ g.breadth # "collapsed"
  <2>1. PICK b : w = [g EXCEPT !.breadth = b] /\ g.breadth # "collapsed"
    BY <1>3
  <2>2. /\ w.score = g.score /\ w.drawdown = g.drawdown /\ w.market = g.market
        /\ w.limitUp = g.limitUp /\ w.label = g.label
    BY <2>1 DEF Given
  <2>3. QED
    BY <1>0, <2>1, <2>2 DEF AtLeastAsBad
<1>4. CASE \E d \in {e \in {-5, -9} : e < g.drawdown} : w = [g EXCEPT !.drawdown = d]
  <2>1. PICK d \in {-5, -9} : d < g.drawdown /\ w = [g EXCEPT !.drawdown = d]
    BY <1>4
  <2>2. /\ w.score = g.score /\ w.drawdown = d /\ w.market = g.market /\ w.breadth = g.breadth
        /\ w.limitUp = g.limitUp /\ w.label = g.label
    BY <2>1 DEF Given
  <2>3. QED
    BY <1>0, <2>1, <2>2 DEF AtLeastAsBad
<1>5. CASE w = [g EXCEPT !.limitUp = TRUE]
  <2>1. /\ w.score = g.score /\ w.drawdown = g.drawdown /\ w.market = g.market
        /\ w.breadth = g.breadth /\ w.limitUp = TRUE /\ w.label = g.label
    BY <1>5 DEF Given
  <2>2. QED
    BY <1>0, <2>1 DEF AtLeastAsBad
<1>6. CASE \E l : /\ w = [g EXCEPT !.label = l]
                  /\ g.label = "none" \/ (g.label = "overvalued" /\ l = "avoid")
  <2>1. PICK l : /\ w = [g EXCEPT !.label = l]
                 /\ g.label = "none" \/ (g.label = "overvalued" /\ l = "avoid")
    BY <1>6
  <2>2. /\ w.score = g.score /\ w.drawdown = g.drawdown /\ w.market = g.market
        /\ w.breadth = g.breadth /\ w.limitUp = g.limitUp /\ w.label = l
    BY <2>1 DEF Given
  <2>3. QED
    BY <1>0, <2>1, <2>2 DEF AtLeastAsBad
<1>7. QED
  <2>1. \/ \E s \in {t \in Scores : t < g.score} : w = [g EXCEPT !.score = s]
        \/ \E m \in {"bearish", "panic"} : w = [g EXCEPT !.market = m] /\ g.market # "panic"
        \/ \E b \in {"weak", "collapsed"} : w = [g EXCEPT !.breadth = b] /\ g.breadth # "collapsed"
        \/ \E d \in {e \in {-5, -9} : e < g.drawdown} : w = [g EXCEPT !.drawdown = d]
        \/ w = [g EXCEPT !.limitUp = TRUE]
        \/ \E l : /\ w = [g EXCEPT !.label = l]
                  /\ g.label = "none" \/ (g.label = "overvalued" /\ l = "avoid")
    BY DEF WorseThan, Given
  <2>2. QED
    BY <1>1, <1>2, <1>3, <1>4, <1>5, <1>6, <2>1

LEMMA PercentIsMonotone ==
  \A n, m \in Nat : \A p \in {50, 70, 75, 100, 120} :
    n <= m => (n * p) \div 100 <= (m * p) \div 100
<1> SUFFICES ASSUME NEW n \in Nat, NEW m \in Nat, n <= m, NEW p \in {50, 70, 75, 100, 120}
             PROVE  (n * p) \div 100 <= (m * p) \div 100
  OBVIOUS
<1>1. p = 50 \/ p = 70 \/ p = 75 \/ p = 100 \/ p = 120
  OBVIOUS
<1>2. QED
  BY <1>1

\* A higher rung of the ladder is no smaller, nor is more confidence.
LEMMA HigherIsLarger ==
  \A n \in Nat : /\ (n * 50) \div 100 <= (n * 75) \div 100
                 /\ (n * 75) \div 100 <= (n * 100) \div 100
                 /\ (n * 100) \div 100 <= (n * 120) \div 100
                 /\ (n * 50) \div 100 <= n /\ (n * 70) \div 100 <= n
                 /\ (n * 100) \div 100 = n
                 /\ \A p \in {50, 70, 75, 100, 120} : (n * p) \div 100 \in Nat
OBVIOUS

LEMMA LargerScoreLargerSize ==
  ASSUME TrialIsSmall, NEW s \in Int, NEW t \in Int, t <= s, NEW d \in Int, NEW e \in Int, e <= d,
         ~(d < -4 /\ t < 300 /\ s >= 300)
  PROVE  SuggestPosition(t, e) <= SuggestPosition(s, d)
<1> DEFINE A(x) == (MaxPosition * Ladder(x)) \div 100
           Full(x) == (A(x) * ConfidencePercent(x)) \div 100
           Some(x, y) == IF y < -4 THEN (Full(x) * 50) \div 100 ELSE Full(x)
<1>1. \A x, y \in Int : SuggestPosition(x, y) = IF x < EntryThreshold THEN 0
                                                ELSE IF x < 300 THEN Least(TrialPosition, MaxPosition)
                                                ELSE Least(MaxPosition, Some(x, y))
  BY DEF SuggestPosition
<1>2. MaxPosition \in Nat /\ TrialPosition \in Nat /\ EntryThreshold \in Nat
  BY ScoresAreInts
<1>3. \A x \in Int : Ladder(x) \in {50, 75, 100} /\ ConfidencePercent(x) \in {70, 100, 120}
  <2>1. \A x \in Int : Absolute(x) \in Nat
    BY DEF Absolute
  <2>2. QED
    BY <2>1 DEF Ladder, ConfidencePercent
<1>4. ASSUME NEW x \in Int, x >= 300
      PROVE  /\ ConfidencePercent(x) = IF x >= 600 THEN 120 ELSE 100
             /\ A(x) \in Nat /\ Full(x) \in Nat /\ (MaxPosition * 50) \div 100 <= Full(x)
  <2>1. Absolute(x) = x
    BY <1>4 DEF Absolute
  <2>2. ConfidencePercent(x) = IF x >= 600 THEN 120 ELSE 100
    BY <1>4, <2>1 DEF ConfidencePercent
  <2>3. A(x) \in Nat /\ (MaxPosition * 50) \div 100 <= A(x)
    <3>1. \/ A(x) = (MaxPosition * 50) \div 100 \/ A(x) = (MaxPosition * 75) \div 100
          \/ A(x) = (MaxPosition * 100) \div 100
      BY <1>3
    <3>2. QED
      BY <1>2, <3>1, HigherIsLarger
  <2>4. Full(x) \in Nat /\ A(x) <= Full(x)
    <3>1. Full(x) = (A(x) * 100) \div 100 \/ Full(x) = (A(x) * 120) \div 100
      BY <2>2
    <3> HIDE DEF A, Full
    <3>2. QED
      BY <2>3, <3>1, HigherIsLarger
  <2>5. (MaxPosition * 50) \div 100 \in Nat
    BY <1>2
  <2> HIDE DEF A, Full
  <2>6. QED
    BY <2>2, <2>3, <2>4, <2>5
<1>5. ASSUME t >= 300 PROVE Full(t) <= Full(s)
  <2>1. s >= 300
    BY <1>5
  <2>2. A(t) <= A(s)
    <3>1. Ladder(t) = Ladder(s) \/ Ladder(t) = 50 \/ (Ladder(t) = 75 /\ Ladder(s) = 100)
      BY DEF Ladder
    <3>2. Ladder(s) \in {50, 75, 100}
      BY <1>3
    <3>3. QED
      BY <1>2, <3>1, <3>2, HigherIsLarger
  <2>3. /\ A(t) \in Nat /\ A(s) \in Nat /\ ConfidencePercent(t) \in {100, 120}
        /\ ConfidencePercent(t) = ConfidencePercent(s) \/ (ConfidencePercent(t) = 100 /\ ConfidencePercent(s) = 120)
    BY <1>4, <1>5, <2>1
  <2>4. (A(t) * ConfidencePercent(t)) \div 100 <= (A(s) * ConfidencePercent(t)) \div 100
    <3> HIDE DEF A
    <3>1. QED
      BY <2>2, <2>3, PercentIsMonotone
  <2>5. (A(s) * ConfidencePercent(t)) \div 100 <= (A(s) * ConfidencePercent(s)) \div 100
    <3> HIDE DEF A
    <3>1. CASE ConfidencePercent(t) = ConfidencePercent(s)
      <4>1. (A(s) * ConfidencePercent(t)) \div 100 \in Nat
        BY <2>3, HigherIsLarger
      <4>2. QED
        BY <3>1, <4>1
    <3>2. CASE ConfidencePercent(t) = 100 /\ ConfidencePercent(s) = 120
      BY <2>3, <3>2, HigherIsLarger
    <3>3. QED
      BY <2>3, <3>1, <3>2
  <2>6. Full(t) \in Nat /\ Full(s) \in Nat /\ (A(s) * ConfidencePercent(t)) \div 100 \in Nat
    <3>1. Full(t) \in Nat /\ Full(s) \in Nat
      BY <1>4, <1>5, <2>1
    <3> HIDE DEF A
    <3>2. (A(s) * ConfidencePercent(t)) \div 100 \in Nat
      BY <2>3, HigherIsLarger
    <3>3. QED
      BY <3>1, <3>2
  <2> DEFINE between == (A(s) * ConfidencePercent(t)) \div 100
  <2>7. Full(t) <= between /\ between <= Full(s) /\ between \in Nat
    BY <2>4, <2>5, <2>6
  <2> HIDE DEF A, Full, between
  <2>8. QED
    BY <2>6, <2>7
<1> HIDE DEF A, Full
<1>6. CASE t >= 300
  <2>1. s >= 300 /\ Full(t) \in Nat /\ Full(s) \in Nat /\ Full(t) <= Full(s)
    BY <1>4, <1>5, <1>6
  <2>2. (Full(t) * 50) \div 100 <= (Full(s) * 50) \div 100 /\ (Full(t) * 50) \div 100 <= Full(t)
        /\ (Full(t) * 50) \div 100 \in Nat /\ (Full(s) * 50) \div 100 \in Nat
    BY <2>1, PercentIsMonotone, HigherIsLarger
  <2>3. Some(t, e) <= Some(s, d) /\ Some(t, e) \in Nat /\ Some(s, d) \in Nat
    <3>1. CASE d < -4
      BY <2>1, <2>2, <3>1
    <3>2. CASE ~(d < -4)
      BY <2>1, <2>2, <3>2
    <3>3. QED
      BY <3>1, <3>2
  <2> HIDE DEF Some
  <2>4. Least(MaxPosition, Some(t, e)) <= Least(MaxPosition, Some(s, d))
    BY <1>2, <2>3 DEF Least
  <2>5. Least(MaxPosition, Some(s, d)) \in Nat
    BY <1>2, <2>3 DEF Least
  <2>6. QED
    BY <1>1, <1>2, <1>6, <2>1, <2>4, <2>5
<1>7. CASE t < 300 /\ s >= 300
  <2>1. /\ Full(s) \in Nat /\ (MaxPosition * 50) \div 100 <= Full(s)
        /\ (MaxPosition * 50) \div 100 \in Nat
    BY <1>2, <1>4, <1>7
  <2>2. Some(s, d) = Full(s)
    BY <1>7
  <2>3. Least(TrialPosition, MaxPosition) <= Least(MaxPosition, Some(s, d))
    BY <1>2, <2>1, <2>2 DEF Least, TrialIsSmall
  <2>4. Least(TrialPosition, MaxPosition) \in Nat /\ Least(MaxPosition, Some(s, d)) \in Nat
    BY <1>2, <2>1, <2>2 DEF Least
  <2> HIDE DEF Some
  <2>5. QED
    BY <1>1, <1>2, <1>7, <2>3, <2>4
<1>8. CASE s < 300
  <2>1. Least(TrialPosition, MaxPosition) \in Nat
    BY <1>2 DEF Least
  <2>2. t < 300
    BY <1>8
  <2> HIDE DEF Some
  <2>3. QED
    BY <1>1, <1>2, <1>8, <2>1, <2>2
<1>9. QED
  BY <1>6, <1>7, <1>8

LEMMA EntryIsAbove ==
  \A s \in Int : ScoreToRecommendation(s) = "entry" <=> s > EntryThreshold
BY ScoresAreInts DEF ScoreToRecommendation

\* The two lanes before a rule.
Paired(x, g, y, w, r) == Standing(x, r) /\ Standing(y, r) /\ Ordered(x, g, y, w, r)

LEMMA PairedFacts ==
  ASSUME NEW x, NEW g \in Given, NEW y, NEW w \in Given, NEW r, Paired(x, g, y, w, r),
         r \notin {"regime", "done"}
  PROVE  /\ x \in SomeSignal /\ y \in SomeSignal /\ x.size \in Nat /\ y.size \in Nat
         /\ x.score \in Int /\ y.score \in Int
         /\ y.rec = "entry" => /\ x.rec = "entry" /\ y.size <= x.size
                               /\ IsEntry(x) /\ IsEntry(y)
BY DEF Paired, Standing, Ordered, OnItsWay, NoLarger, SomeSignal, IsEntry

\* Between the first rule and the last ones.
Lined(x, y) ==
  /\ (x.rec = "entry" => x.trader = "entry") /\ (y.rec = "entry" => y.trader = "entry")
  /\ y.rec = "entry" => x.rec = "entry" /\ y.size <= x.size

LEMMA OrderedIsLined ==
  ASSUME NEW x, NEW g, NEW y, NEW w
  PROVE  \A r \in {"market", "breadth", "drawdown", "limit", "tiny", "label"} :
           Ordered(x, g, y, w, r) <=> Lined(x, y)
BY DEF Ordered, Lined, OnItsWay, NoLarger

\* Both are refused, or only the worse one.
LEMMA RefusalOrder ==
  ASSUME NEW x \in SomeSignal, NEW y \in SomeSignal, Lined(x, y), NEW x1, NEW y1,
         x1 = x \/ x1 = Refused(x), y1 = y \/ y1 = Refused(y),
         IsEntry(y) => x1 = x \/ y1 = Refused(y)
  PROVE  Lined(x1, y1)
<1>1. Refused(x).rec = "hold" /\ Refused(y).rec = "hold"
  BY RefusedStands
<1>2. y1.rec = "entry" => y1 = y /\ x1 = x
  BY <1>1 DEF Lined, IsEntry
<1>3. QED
  BY <1>1, <1>2 DEF Lined

\* Both are halved, or only the worse one.
LEMMA SizingOrder ==
  ASSUME NEW x \in SomeSignal, NEW y \in SomeSignal, Lined(x, y), NEW x1, NEW y1,
         x1 = x \/ x1 = Sized(x, 50), y1 = y \/ y1 = Sized(y, 50),
         IsEntry(y) => x1 = x \/ y1 = Sized(y, 50)
  PROVE  Lined(x1, y1)
<1>1. x.size \in Nat /\ y.size \in Nat
  BY DEF SomeSignal
<1>2. /\ Sized(x, 50).rec = x.rec /\ Sized(y, 50).rec = y.rec
      /\ Sized(x, 50).trader = x.trader /\ Sized(y, 50).trader = y.trader
      /\ Sized(x, 50).size = (x.size * 50) \div 100 /\ Sized(y, 50).size = (y.size * 50) \div 100
  BY SizedStands
<1>3. ASSUME y1.rec = "entry" PROVE x1.rec = "entry" /\ y1.size <= x1.size
  <2>1. y.rec = "entry" /\ x1.rec = x.rec /\ x.rec = "entry" /\ y.size <= x.size /\ IsEntry(y)
    BY <1>2, <1>3 DEF Lined, IsEntry
  <2>2. /\ (y.size * 50) \div 100 <= (x.size * 50) \div 100 /\ (y.size * 50) \div 100 <= y.size
        /\ (y.size * 50) \div 100 \in Nat /\ (x.size * 50) \div 100 \in Nat
    BY <1>1, <2>1, PercentIsMonotone, HigherIsLarger
  <2>3. QED
    BY <1>1, <1>2, <2>1, <2>2
<1>4. (x1.rec = "entry" => x1.trader = "entry") /\ (y1.rec = "entry" => y1.trader = "entry")
  BY <1>2 DEF Lined
<1>5. QED
  BY <1>3, <1>4 DEF Lined

LEMMA ProposalOrder ==
  ASSUME TrialIsSmall, NEW x, NEW g \in Given, NEW y, NEW w \in Given, NEW r \in {"constrain", "cap"},
         Paired(x, g, y, w, "propose"), AtLeastAsBad(g, w),
         ~(path = "v2" /\ g.drawdown < -4 /\ w.score < 300 /\ g.score >= 300)
  PROVE  Ordered(Proposal(x, g), g, Proposal(y, w), w, r)
<1> DEFINE Drop(h) == IF path = "v2" THEN h.drawdown ELSE 0
<1>1. \A h \in Given : h.score \in Int /\ h.drawdown \in Int
  <2> SUFFICES ASSUME NEW h \in Given PROVE h.score \in Int /\ h.drawdown \in Int
    OBVIOUS
  <2>1. h.score \in Scores /\ h.drawdown \in {0, -5, -9}
    BY DEF Given
  <2>2. h.score \in Int
    BY <2>1, ScoresAreInts
  <2>3. h.drawdown = 0 \/ h.drawdown = -5 \/ h.drawdown = -9
    BY <2>1
  <2>4. QED
    BY <2>2, <2>3
<1>2. \A h \in Given : \A z \in SomeSignal :
        /\ Proposal(z, h).rec = ScoreToRecommendation(h.score)
        /\ Proposal(z, h).trader = ScoreToRecommendation(h.score)
        /\ Proposal(z, h).score = h.score
        /\ Proposal(z, h).size = SuggestPosition(h.score, Drop(h))
  BY DEF Proposal, SomeSignal
<1>3. x \in SomeSignal /\ y \in SomeSignal
  BY DEF Paired, Standing
<1>4. Drop(g) \in Int /\ Drop(w) \in Int /\ Drop(w) <= Drop(g)
  BY <1>1 DEF AtLeastAsBad
<1>5. ~(Drop(g) < -4 /\ w.score < 300 /\ g.score >= 300)
  OBVIOUS
<1>6. w.score <= g.score
  BY DEF AtLeastAsBad
<1> HIDE DEF Drop
<1>7. SuggestPosition(w.score, Drop(w)) <= SuggestPosition(g.score, Drop(g))
  BY <1>1, <1>4, <1>5, <1>6, LargerScoreLargerSize
<1>8. ScoreToRecommendation(w.score) = "entry" => ScoreToRecommendation(g.score) = "entry"
  BY <1>1, <1>6, EntryIsAbove, ScoresAreInts
<1>9. /\ Proposal(x, g).rec = ScoreToRecommendation(g.score)
      /\ Proposal(x, g).trader = ScoreToRecommendation(g.score)
      /\ Proposal(x, g).score = g.score
      /\ Proposal(x, g).size = SuggestPosition(g.score, Drop(g))
      /\ Proposal(y, w).rec = ScoreToRecommendation(w.score)
      /\ Proposal(y, w).trader = ScoreToRecommendation(w.score)
      /\ Proposal(y, w).score = w.score
      /\ Proposal(y, w).size = SuggestPosition(w.score, Drop(w))
  BY <1>2, <1>3
<1>10. QED
  BY <1>7, <1>8, <1>9 DEF Ordered, OnItsWay, NoLarger

LEMMA MarketOrder ==
  ASSUME NEW x, NEW g \in Given, NEW y, NEW w \in Given,
         Paired(x, g, y, w, "market"), AtLeastAsBad(g, w)
  PROVE  Ordered(Market(x, g), g, Market(y, w), w, "breadth")
<1>1. /\ Market(x, g) = x \/ Market(x, g) = Refused(x)
      /\ Market(y, w) = y \/ Market(y, w) = Refused(y)
  BY DEF Market
<1>2. IsEntry(y) => Market(x, g) = x \/ Market(y, w) = Refused(y)
  BY DEF Market, AtLeastAsBad
<1>3. x \in SomeSignal /\ y \in SomeSignal /\ Lined(x, y)
  BY OrderedIsLined DEF Paired, Standing
<1>4. Lined(Market(x, g), Market(y, w))
  BY <1>1, <1>2, <1>3, RefusalOrder
<1>5. QED
  BY <1>4, OrderedIsLined

LEMMA DrawdownOrder ==
  ASSUME NEW x, NEW g \in Given, NEW y, NEW w \in Given,
         Paired(x, g, y, w, "drawdown"), AtLeastAsBad(g, w)
  PROVE  Ordered(Drawdown(x, g), g, Drawdown(y, w), w, "limit")
<1>1. /\ Drawdown(x, g) = x \/ Drawdown(x, g) = Refused(x)
      /\ Drawdown(y, w) = y \/ Drawdown(y, w) = Refused(y)
  BY DEF Drawdown
<1>2. g.drawdown < -8 => w.drawdown < -8
  <2>1. g.drawdown \in {0, -5, -9} /\ w.drawdown \in {0, -5, -9} /\ w.drawdown <= g.drawdown
    BY DEF Given, AtLeastAsBad
  <2>2. QED
    BY <2>1
<1>3. IsEntry(y) => Drawdown(x, g) = x \/ Drawdown(y, w) = Refused(y)
  BY <1>2 DEF Drawdown
<1>4. x \in SomeSignal /\ y \in SomeSignal /\ Lined(x, y)
  BY OrderedIsLined DEF Paired, Standing
<1>5. Lined(Drawdown(x, g), Drawdown(y, w))
  BY <1>1, <1>3, <1>4, RefusalOrder
<1>6. QED
  BY <1>5, OrderedIsLined

LEMMA LimitUpOrder ==
  ASSUME NEW x, NEW g \in Given, NEW y, NEW w \in Given,
         Paired(x, g, y, w, "limit"), AtLeastAsBad(g, w)
  PROVE  Ordered(LimitUp(x, g), g, LimitUp(y, w), w, "tiny")
<1>1. /\ LimitUp(x, g) = x \/ LimitUp(x, g) = Sized(x, 50)
      /\ LimitUp(y, w) = y \/ LimitUp(y, w) = Sized(y, 50)
  BY DEF LimitUp
<1>2. IsEntry(y) => LimitUp(x, g) = x \/ LimitUp(y, w) = Sized(y, 50)
  BY DEF LimitUp, AtLeastAsBad
<1>3. x \in SomeSignal /\ y \in SomeSignal /\ Lined(x, y)
  BY OrderedIsLined DEF Paired, Standing
<1>4. Lined(LimitUp(x, g), LimitUp(y, w))
  BY <1>1, <1>2, <1>3, SizingOrder
<1>5. QED
  BY <1>4, OrderedIsLined

LEMMA BreadthOrder ==
  ASSUME NEW x, NEW g \in Given, NEW y, NEW w \in Given,
         Paired(x, g, y, w, "breadth"), AtLeastAsBad(g, w)
  PROVE  Ordered(Breadth(x, g), g, Breadth(y, w), w, "drawdown")
<1>1. /\ x \in SomeSignal /\ y \in SomeSignal
      /\ y.rec = "entry" => /\ x.rec = "entry" /\ y.size <= x.size /\ IsEntry(y)
  BY PairedFacts
<1>2. (x.rec = "entry" => x.trader = "entry") /\ (y.rec = "entry" => y.trader = "entry")
  BY DEF Paired, Ordered, OnItsWay
<1>3. \A z \in SomeSignal : Sized([z EXCEPT !.rec = "watch", !.lowered = TRUE], 70).rec = "watch"
  BY DEF Sized, SomeSignal
<1>4. /\ Breadth(x, g) = x \/ (Breadth(x, g).rec = "watch" /\ g.breadth = "collapsed")
      /\ Breadth(y, w) = y \/ Breadth(y, w).rec = "watch"
      /\ w.breadth = "collapsed" /\ IsEntry(y) => Breadth(y, w).rec = "watch"
  BY <1>1, <1>3 DEF Breadth
<1>5. Breadth(y, w).rec = "entry" => Breadth(y, w) = y /\ Breadth(x, g) = x
  BY <1>1, <1>4 DEF AtLeastAsBad
<1>6. QED
  BY <1>1, <1>2, <1>4, <1>5 DEF Ordered, OnItsWay, NoLarger

LEMMA TinyOrder ==
  ASSUME NEW x, NEW g \in Given, NEW y, NEW w \in Given,
         Paired(x, g, y, w, "tiny"), AtLeastAsBad(g, w)
  PROVE  Ordered(Tiny(x, g), g, Tiny(y, w), w, "label")
<1>1. /\ x \in SomeSignal /\ y \in SomeSignal /\ x.size \in Nat /\ y.size \in Nat
      /\ y.rec = "entry" => x.rec = "entry" /\ y.size <= x.size
  BY PairedFacts
<1>2. (x.rec = "entry" => x.trader = "entry") /\ (y.rec = "entry" => y.trader = "entry")
  BY DEF Paired, Ordered, OnItsWay
<1>3. \A z \in SomeSignal : \A h : /\ Tiny(z, h).rec = z.rec /\ Tiny(z, h).trader = z.trader
                                   /\ Tiny(z, h).size = IF z.size < 20000 THEN 0 ELSE z.size
  BY DEF Tiny, SomeSignal
<1>4. /\ Tiny(x, g).rec = x.rec /\ Tiny(x, g).trader = x.trader
      /\ Tiny(y, w).rec = y.rec /\ Tiny(y, w).trader = y.trader
      /\ Tiny(x, g).size = IF x.size < 20000 THEN 0 ELSE x.size
      /\ Tiny(y, w).size = IF y.size < 20000 THEN 0 ELSE y.size
  BY <1>1, <1>3
<1>5. y.rec = "entry" => Tiny(y, w).size <= Tiny(x, g).size
  BY <1>1, <1>4
<1>6. QED
  BY <1>1, <1>2, <1>4, <1>5 DEF Ordered, OnItsWay, NoLarger

LEMMA CappedOrder ==
  ASSUME NEW x, NEW g \in Given, NEW y, NEW w \in Given, cap \in Int,
         Paired(x, g, y, w, "cap"), AtLeastAsBad(g, w)
  PROVE  Ordered(Capped(x, g), g, Capped(y, w), w, "market")
<1>1. /\ x \in SomeSignal /\ y \in SomeSignal /\ x.score \in Int /\ y.score \in Int
      /\ y.rec = "entry" => x.rec = "entry" /\ y.size <= x.size
  BY PairedFacts
<1>2. /\ (x.rec = "entry" => x.trader = "entry") /\ (y.rec = "entry" => y.trader = "entry")
      /\ y.score <= x.score /\ y.rec = ScoreToRecommendation(y.score)
  BY DEF Paired, Ordered, OnItsWay, AtLeastAsBad
<1>3. \A z \in SomeSignal : \A h :
        /\ h.label = "watch" /\ z.score > cap =>
             /\ Capped(z, h).rec = ScoreToRecommendation(cap) /\ Capped(z, h).size = z.size
             /\ Capped(z, h).trader = ScoreToRecommendation(cap)
        /\ ~(h.label = "watch" /\ z.score > cap) => Capped(z, h) = z
  BY DEF Capped, SomeSignal
<1>4. ASSUME Capped(y, w).rec = "entry"
      PROVE  Capped(x, g).rec = "entry" /\ Capped(y, w).size <= Capped(x, g).size
  <2>1. y.rec = "entry"
    BY <1>1, <1>2, <1>3, <1>4, EntryIsAbove, ScoresAreInts
  <2>2. Capped(y, w).size = y.size /\ Capped(x, g).size = x.size
    BY <1>1, <1>3
  <2>3. Capped(x, g).rec = "entry"
    <3>1. CASE g.label = "watch" /\ x.score > cap
      <4>1. w.label = "watch"
        BY <3>1 DEF AtLeastAsBad
      <4>2. cap > EntryThreshold
        <5>1. CASE y.score > cap
          <6>1. ScoreToRecommendation(cap) = "entry"
            BY <1>1, <1>3, <1>4, <4>1, <5>1
          <6>2. QED
            BY <6>1, EntryIsAbove
        <5>2. CASE ~(y.score > cap)
          <6>1. y.score > EntryThreshold
            BY <1>1, <1>2, <2>1, EntryIsAbove
          <6>2. QED
            BY <1>1, <5>2, <6>1, ScoresAreInts
        <5>3. QED
          BY <5>1, <5>2
      <4>3. QED
        BY <1>1, <1>3, <3>1, <4>2, EntryIsAbove
    <3>2. CASE ~(g.label = "watch" /\ x.score > cap)
      BY <1>1, <1>3, <2>1, <3>2
    <3>3. QED
      BY <3>1, <3>2
  <2>4. QED
    BY <1>1, <2>1, <2>2, <2>3
<1>5. OnItsWay(Capped(x, g), g, "market") /\ OnItsWay(Capped(y, w), w, "market")
  BY <1>1, <1>2, <1>3 DEF OnItsWay
<1>6. QED
  BY <1>4, <1>5 DEF Ordered, NoLarger

LEMMA AllocatedOrder ==
  ASSUME NEW x, NEW g \in Given, NEW y, NEW w \in Given, cap \in Int,
         Paired(x, g, y, w, "constrain"), AtLeastAsBad(g, w)
  PROVE  Ordered(Allocated(x, g), g, Allocated(y, w), w, "done")
<1>1. /\ x \in SomeSignal /\ y \in SomeSignal /\ x.score \in Int /\ y.score \in Int
      /\ x.size \in Nat /\ y.size \in Nat
      /\ y.rec = "entry" => /\ x.rec = "entry" /\ y.size <= x.size /\ IsEntry(x) /\ IsEntry(y)
  BY PairedFacts
<1>2. /\ y.score <= x.score /\ y.rec = ScoreToRecommendation(y.score)
      /\ Standing(x, "constrain") /\ Standing(y, "constrain")
  BY DEF Paired, Ordered, OnItsWay, AtLeastAsBad
<1>3. Constrained(x, g) \in SomeSignal /\ Constrained(y, w) \in SomeSignal
  BY <1>2, ConstrainedStands
<1>4. /\ Allocated(x, g).rec = Constrained(x, g).rec
      /\ Allocated(x, g).suggested = Constrained(x, g).size
      /\ Allocated(y, w).rec = Constrained(y, w).rec
      /\ Allocated(y, w).suggested = Constrained(y, w).size
  <2>1. \A z \in SomeSignal : \A n : [z EXCEPT !.suggested = n].rec = z.rec
                                     /\ [z EXCEPT !.suggested = n].suggested = n
    BY DEF SomeSignal
  <2>2. QED
    BY <1>3, <2>1 DEF Allocated
<1>5. ASSUME NEW z \in SomeSignal, NEW h \in Given
      PROVE  /\ h.label = "avoid" /\ IsEntry(z) => Constrained(z, h).rec = "hold"
             /\ h.label = "overvalued" /\ IsEntry(z) => Constrained(z, h) = Sized(z, 50)
             /\ h.label = "watch" /\ z.score > cap =>
                  /\ Constrained(z, h).rec = ScoreToRecommendation(cap)
                  /\ ScoreToRecommendation(cap) = "entry" => Constrained(z, h).size = z.size
             /\ \/ h.label = "none" \/ (~IsEntry(z) /\ h.label # "watch")
                \/ (h.label = "watch" /\ ~(z.score > cap))
                => Constrained(z, h) = z
  <2>1. h.label = "avoid" /\ IsEntry(z) => Constrained(z, h).rec = "hold"
    BY RefusedStands DEF Constrained
  <2>2. h.label = "overvalued" /\ IsEntry(z) => Constrained(z, h) = Sized(z, 50)
    BY DEF Constrained
  <2>3. ASSUME h.label = "watch", z.score > cap
        PROVE  /\ Constrained(z, h).rec = ScoreToRecommendation(cap)
               /\ ScoreToRecommendation(cap) = "entry" => Constrained(z, h).size = z.size
    BY <2>3 DEF Constrained, SomeSignal
  <2>4. ASSUME h.label = "none" \/ (~IsEntry(z) /\ h.label # "watch")
               \/ (h.label = "watch" /\ ~(z.score > cap))
        PROVE  Constrained(z, h) = z
    BY <2>4 DEF Constrained
  <2>5. QED
    BY <2>1, <2>2, <2>3, <2>4
<1>6. ASSUME Constrained(y, w).rec = "entry"
      PROVE  Constrained(x, g).rec = "entry" /\ Constrained(y, w).size <= Constrained(x, g).size
  <2>0. w.label \in {"none", "watch", "overvalued", "avoid"}
        /\ g.label \in {"none", "watch", "overvalued", "avoid"}
    BY DEF Given
  <2>1. y.rec = "entry"
    <3>1. CASE w.label = "watch" /\ y.score > cap
      BY <1>1, <1>2, <1>5, <1>6, <3>1, EntryIsAbove, ScoresAreInts
    <3>2. CASE w.label = "overvalued" /\ IsEntry(y)
      BY <1>1, <1>5, <1>6, <3>2, SizedStands
    <3>3. CASE w.label = "none" \/ (~IsEntry(y) /\ w.label # "watch")
               \/ (w.label = "watch" /\ ~(y.score > cap))
      BY <1>1, <1>5, <1>6, <3>3
    <3>4. QED
      BY <1>1, <1>5, <1>6, <2>0, <3>1, <3>2, <3>3
  <2>2. IsEntry(x) /\ IsEntry(y) /\ y.size <= x.size /\ x.rec = "entry" /\ w.label # "avoid"
    BY <1>1, <1>5, <1>6, <2>1
  <2>3. /\ (y.size * 50) \div 100 <= (x.size * 50) \div 100 /\ (y.size * 50) \div 100 <= y.size
        /\ (y.size * 50) \div 100 \in Nat /\ (x.size * 50) \div 100 \in Nat
    BY <1>1, <2>2, PercentIsMonotone, HigherIsLarger
  <2>4. /\ Sized(x, 50).rec = x.rec /\ Sized(x, 50).size = (x.size * 50) \div 100
        /\ Sized(y, 50).rec = y.rec /\ Sized(y, 50).size = (y.size * 50) \div 100
    BY <1>1, SizedStands
  <2>5. CASE w.label = "overvalued"
    <3>1. g.label \in {"none", "overvalued"}
      BY <2>0, <2>5 DEF AtLeastAsBad
    <3>2. Constrained(y, w) = Sized(y, 50) /\ Constrained(x, g) \in {x, Sized(x, 50)}
      BY <1>1, <1>5, <2>2, <2>5, <3>1
    <3>3. QED
      BY <1>1, <2>2, <2>3, <2>4, <3>2
  <2>6. CASE w.label \in {"none", "watch"}
    <3>1. g.label = "none" \/ (g.label = "watch" /\ w.label = "watch")
      BY <2>0, <2>6 DEF AtLeastAsBad
    <3>2. Constrained(y, w).size = y.size
      BY <1>1, <1>5, <1>6, <2>6
    <3>3. Constrained(x, g).rec = "entry" /\ Constrained(x, g).size = x.size
      <4>1. CASE g.label = "watch" /\ x.score > cap
        <5>1. cap > EntryThreshold
          <6>1. CASE y.score > cap
            BY <1>1, <1>5, <1>6, <3>1, <4>1, <6>1, EntryIsAbove
          <6>2. CASE ~(y.score > cap)
            <7>1. y.score > EntryThreshold
              BY <1>1, <1>2, <2>1, EntryIsAbove
            <7>2. QED
              BY <1>1, <6>2, <7>1, ScoresAreInts
          <6>3. QED
            BY <6>1, <6>2
        <5>2. QED
          BY <1>1, <1>5, <4>1, <5>1, EntryIsAbove
      <4>2. CASE ~(g.label = "watch" /\ x.score > cap)
        BY <1>1, <1>5, <2>2, <3>1, <4>2
      <4>3. QED
        BY <4>1, <4>2
    <3>4. QED
      BY <2>2, <3>2, <3>3
  <2>7. QED
    BY <2>0, <2>2, <2>5, <2>6
<1>7. QED
  BY <1>4, <1>6 DEF Ordered, OnItsWay, NoLarger

LEMMA ReviewedOrder ==
  ASSUME NEW x, NEW g \in Given, NEW y, NEW w \in Given,
         Paired(x, g, y, w, "label"), AtLeastAsBad(g, w)
  PROVE  Ordered(Reviewed(x, g), g, Reviewed(y, w), w, "regime")
<1>1. /\ x \in SomeSignal /\ y \in SomeSignal /\ x.size \in Nat /\ y.size \in Nat
      /\ y.rec = "entry" => /\ x.rec = "entry" /\ y.size <= x.size /\ IsEntry(x) /\ IsEntry(y)
  BY PairedFacts
<1>2. /\ Refused(x) \in SomeSignal /\ Refused(y) \in SomeSignal /\ Refused(y).rec = "hold"
      /\ Sized(x, 50) \in SomeSignal /\ Sized(y, 50) \in SomeSignal
      /\ Sized(x, 50).rec = x.rec /\ Sized(x, 50).size = (x.size * 50) \div 100
      /\ Sized(y, 50).rec = y.rec /\ Sized(y, 50).size = (y.size * 50) \div 100
  BY <1>1, RefusedStands, SizedStands
<1>3. Label(x, g) \in SomeSignal /\ Label(y, w) \in SomeSignal
  BY <1>1, <1>2 DEF Label
<1>4. /\ Reviewed(x, g).rec = Label(x, g).rec /\ Reviewed(x, g).suggested = Label(x, g).size
      /\ Reviewed(y, w).rec = Label(y, w).rec /\ Reviewed(y, w).suggested = Label(y, w).size
  <2>1. \A z \in SomeSignal : \A n : [z EXCEPT !.suggested = n].rec = z.rec
                                     /\ [z EXCEPT !.suggested = n].suggested = n
    BY DEF SomeSignal
  <2>2. QED
    BY <1>3, <2>1 DEF Reviewed
<1>5. ASSUME Label(y, w).rec = "entry"
      PROVE  Label(x, g).rec = "entry" /\ Label(y, w).size <= Label(x, g).size
  <2>1. y.rec = "entry" /\ Label(y, w) \in {y, Sized(y, 50)}
    BY <1>2, <1>5 DEF Label
  <2>2. IsEntry(x) /\ IsEntry(y) /\ y.size <= x.size /\ x.rec = "entry"
    BY <1>1, <2>1
  <2>3. /\ (y.size * 50) \div 100 <= (x.size * 50) \div 100 /\ (y.size * 50) \div 100 <= y.size
        /\ (y.size * 50) \div 100 \in Nat /\ (x.size * 50) \div 100 \in Nat
    BY <1>1, <2>2, PercentIsMonotone, HigherIsLarger
  <2>4. w.label # "avoid"
    BY <1>2, <1>5, <2>2 DEF Label
  <2>5. /\ g.label # "avoid" /\ (w.label = "overvalued" => Label(y, w) = Sized(y, 50))
        /\ (g.label = "overvalued" => w.label = "overvalued")
    BY <2>2, <2>4 DEF Label, AtLeastAsBad
  <2>6. Label(x, g) = IF g.label = "overvalued" THEN Sized(x, 50) ELSE x
    BY <2>2, <2>5 DEF Label
  <2>7. QED
    BY <1>1, <1>2, <2>1, <2>2, <2>3, <2>5, <2>6
<1>6. QED
  BY <1>4, <1>5 DEF Ordered, OnItsWay, NoLarger

LEMMA DampenedOrder ==
  ASSUME NEW x, NEW g \in Given, NEW y, NEW w \in Given,
         Paired(x, g, y, w, "regime"), AtLeastAsBad(g, w)
  PROVE  Ordered(Dampened(x, g), g, Dampened(y, w), w, "done")
<1>1. x \in SomeSignal /\ y \in SomeSignal
  BY DEF Paired, Standing
<1>2. \A z \in SomeSignal : \A h : /\ Dampened(z, h).rec = z.rec
                                   /\ Dampened(z, h).suggested = z.suggested
  BY DEF Dampened, Sized, SomeSignal
<1>3. NoLarger("regime", x, y)
  BY DEF Paired, Ordered
<1>4. QED
  BY <1>1, <1>2, <1>3 DEF Ordered, OnItsWay, NoLarger

-----------------------------------------------------------------------------
LEMMA OrderInvInit == SignalInit => OrderInv
<1> SUFFICES ASSUME SignalInit PROVE OrderInv
  OBVIOUS
<1>1. PICK g \in Given : \E w \in WorseThan(g) :
        given = [l \in Lanes |-> IF l = "this" THEN g ELSE w]
  BY DEF SignalInit
<1>2. PICK w \in WorseThan(g) : given = [l \in Lanes |-> IF l = "this" THEN g ELSE w]
  BY <1>1
<1>3. given["this"] = g /\ given["worse"] = w
  BY <1>2 DEF Lanes
<1>4. AtLeastAsBad(g, w)
  BY <1>2, WorseIsAsBad
<1>5. signal["this"] = NoSignal /\ signal["worse"] = NoSignal /\ NoSignal.rec # "entry"
      /\ rule = "propose"
  BY DEF SignalInit, Lanes, NoSignal
<1>6. Ordered(NoSignal, g, NoSignal, w, "propose")
  BY <1>5 DEF Ordered, OnItsWay, NoLarger
<1>7. QED
  BY <1>3, <1>4, <1>5, <1>6 DEF OrderInv

LEMMA OrderInvNext ==
  TrialIsSmall /\ SignalInv /\ OrderInv /\ [SignalNext]_SignalVars => OrderInv'
<1> SUFFICES ASSUME TrialIsSmall, SignalInv, OrderInv, [SignalNext]_SignalVars PROVE OrderInv'
  OBVIOUS
<1> DEFINE x == signal["this"]  y == signal["worse"]  g == given["this"]  w == given["worse"]
<1>1. UNCHANGED <<path, cap, given>>
  BY DEF SignalNext, SignalVars, Apply, Propose, Constrain, Cap, ReviewMarket, ReviewBreadth,
         ReviewDrawdown, ReviewLimit, ReviewTiny, ReviewLabel, Dampen
<1>2. /\ g \in Given /\ w \in Given /\ cap \in Int /\ AtLeastAsBad(g, w)
      /\ Standing(x, rule) /\ Standing(y, rule)
  BY DEF SignalInv, OrderInv, Lanes
<1>3. CASE TrialBeatsTheLadder
  BY <1>1, <1>3 DEF OrderInv, TrialBeatsTheLadder
<1>4. CASE ~TrialBeatsTheLadder
  <2>1. Paired(x, g, y, w, rule)
    BY <1>2, <1>4 DEF OrderInv, Paired
  <2>2. ASSUME NEW z \in Rules, rule' = z, NEW u, NEW v,
               signal'["this"] = u, signal'["worse"] = v, Ordered(u, g, v, w, z)
        PROVE  OrderInv'
    BY <1>1, <2>2 DEF OrderInv
  <2>3. CASE Propose
    <3>1. PICK z \in {"constrain", "cap"} : rule' = z
      BY <2>3 DEF Propose, Apply
    <3>2. /\ rule = "propose" /\ signal'["this"] = Proposal(x, g)
          /\ signal'["worse"] = Proposal(y, w)
      BY <2>3 DEF Propose, Apply, Lanes
    <3>3. ~(path = "v2" /\ g.drawdown < -4 /\ w.score < 300 /\ g.score >= 300)
      BY <1>4 DEF TrialBeatsTheLadder
    <3> HIDE DEF x, y, g, w
    <3>4. Ordered(Proposal(x, g), g, Proposal(y, w), w, z)
      BY <1>2, <2>1, <3>2, <3>3, ProposalOrder
    <3>5. QED
      BY <2>2, <3>1, <3>2, <3>4 DEF Rules
  <2>4. CASE Constrain
    <3>1. /\ rule = "constrain" /\ rule' = "done" /\ signal'["this"] = Allocated(x, g)
          /\ signal'["worse"] = Allocated(y, w)
      BY <2>4 DEF Constrain, Apply, Lanes
    <3> HIDE DEF x, y, g, w
    <3>2. Ordered(Allocated(x, g), g, Allocated(y, w), w, "done")
      BY <1>2, <2>1, <3>1, AllocatedOrder
    <3>3. QED
      BY <2>2, <3>1, <3>2 DEF Rules
  <2>5. CASE Cap
    <3>1. /\ rule = "cap" /\ rule' = "market" /\ signal'["this"] = Capped(x, g)
          /\ signal'["worse"] = Capped(y, w)
      BY <2>5 DEF Cap, Apply, Lanes
    <3> HIDE DEF x, y, g, w
    <3>2. Ordered(Capped(x, g), g, Capped(y, w), w, "market")
      BY <1>2, <2>1, <3>1, CappedOrder
    <3>3. QED
      BY <2>2, <3>1, <3>2 DEF Rules
  <2>6. CASE ReviewMarket
    <3>1. /\ rule = "market" /\ rule' = "breadth" /\ signal'["this"] = Market(x, g)
          /\ signal'["worse"] = Market(y, w)
      BY <2>6 DEF ReviewMarket, Apply, Lanes
    <3> HIDE DEF x, y, g, w
    <3>2. Ordered(Market(x, g), g, Market(y, w), w, "breadth")
      BY <1>2, <2>1, <3>1, MarketOrder
    <3>3. QED
      BY <2>2, <3>1, <3>2 DEF Rules
  <2>7. CASE ReviewBreadth
    <3>1. /\ rule = "breadth" /\ rule' = "drawdown" /\ signal'["this"] = Breadth(x, g)
          /\ signal'["worse"] = Breadth(y, w)
      BY <2>7 DEF ReviewBreadth, Apply, Lanes
    <3> HIDE DEF x, y, g, w
    <3>2. Ordered(Breadth(x, g), g, Breadth(y, w), w, "drawdown")
      BY <1>2, <2>1, <3>1, BreadthOrder
    <3>3. QED
      BY <2>2, <3>1, <3>2 DEF Rules
  <2>8. CASE ReviewDrawdown
    <3>1. /\ rule = "drawdown" /\ rule' = "limit" /\ signal'["this"] = Drawdown(x, g)
          /\ signal'["worse"] = Drawdown(y, w)
      BY <2>8 DEF ReviewDrawdown, Apply, Lanes
    <3> HIDE DEF x, y, g, w
    <3>2. Ordered(Drawdown(x, g), g, Drawdown(y, w), w, "limit")
      BY <1>2, <2>1, <3>1, DrawdownOrder
    <3>3. QED
      BY <2>2, <3>1, <3>2 DEF Rules
  <2>9. CASE ReviewLimit
    <3>1. /\ rule = "limit" /\ rule' = "tiny" /\ signal'["this"] = LimitUp(x, g)
          /\ signal'["worse"] = LimitUp(y, w)
      BY <2>9 DEF ReviewLimit, Apply, Lanes
    <3> HIDE DEF x, y, g, w
    <3>2. Ordered(LimitUp(x, g), g, LimitUp(y, w), w, "tiny")
      BY <1>2, <2>1, <3>1, LimitUpOrder
    <3>3. QED
      BY <2>2, <3>1, <3>2 DEF Rules
  <2>10. CASE ReviewTiny
    <3>1. /\ rule = "tiny" /\ rule' = "label" /\ signal'["this"] = Tiny(x, g)
          /\ signal'["worse"] = Tiny(y, w)
      BY <2>10 DEF ReviewTiny, Apply, Lanes
    <3> HIDE DEF x, y, g, w
    <3>2. Ordered(Tiny(x, g), g, Tiny(y, w), w, "label")
      BY <1>2, <2>1, <3>1, TinyOrder
    <3>3. QED
      BY <2>2, <3>1, <3>2 DEF Rules
  <2>11. CASE ReviewLabel
    <3>1. /\ rule = "label" /\ rule' = "regime" /\ signal'["this"] = Reviewed(x, g)
          /\ signal'["worse"] = Reviewed(y, w)
      BY <2>11 DEF ReviewLabel, Apply, Lanes
    <3> HIDE DEF x, y, g, w
    <3>2. Ordered(Reviewed(x, g), g, Reviewed(y, w), w, "regime")
      BY <1>2, <2>1, <3>1, ReviewedOrder
    <3>3. QED
      BY <2>2, <3>1, <3>2 DEF Rules
  <2>12. CASE Dampen
    <3>1. /\ rule = "regime" /\ rule' = "done" /\ signal'["this"] = Dampened(x, g)
          /\ signal'["worse"] = Dampened(y, w)
      BY <2>12 DEF Dampen, Apply, Lanes
    <3> HIDE DEF x, y, g, w
    <3>2. Ordered(Dampened(x, g), g, Dampened(y, w), w, "done")
      BY <1>2, <2>1, <3>1, DampenedOrder
    <3>3. QED
      BY <2>2, <3>1, <3>2 DEF Rules
  <2>13. CASE UNCHANGED SignalVars
    BY <2>13 DEF SignalVars, OrderInv, TrialBeatsTheLadder
  <2>14. QED
    BY <2>3, <2>4, <2>5, <2>6, <2>7, <2>8, <2>9, <2>10, <2>11, <2>12, <2>13 DEF SignalNext
<1>5. QED
  BY <1>3, <1>4

LEMMA OrderShowsTaken == SignalInv /\ OrderInv => WorseNeverTakesMore
<1> SUFFICES ASSUME SignalInv, OrderInv, Done, ~TrialBeatsTheLadder
             PROVE  Taken(signal["worse"]) <= Taken(signal["this"])
  BY DEF WorseNeverTakesMore
<1>1. NoLarger("done", signal["this"], signal["worse"])
  BY DEF OrderInv, Ordered, Done
<1>2. signal["this"].suggested \in Nat /\ signal["worse"].suggested \in Nat
  BY DEF SignalInv, SomeSignal, Lanes
<1>3. QED
  BY <1>1, <1>2 DEF NoLarger, Taken

(* What is worse never makes the allocation take more, for any scores,     *)
(* caps and thresholds, as long as the trial position is no larger than    *)
(* the lowest rung of the ladder (as with the settings of config.py; with  *)
(* a larger one a score below the ladder is given more than one on it).    *)
THEOREM WorseConditionsTakeLess ==
  ASSUME TrialPosition <= (MaxPosition * 50) \div 100
  PROVE  SignalSpec => []WorseNeverTakesMore
<1>1. TrialIsSmall
  BY DEF TrialIsSmall
<1>2. SignalInv /\ OrderInv /\ [SignalNext]_SignalVars => OrderInv'
  BY <1>1, OrderInvNext
<1>3. QED
  BY SignalInvInit, SignalInvNext, OrderInvInit, <1>2, OrderShowsTaken, PTL DEF SignalSpec

-----------------------------------------------------------------------------
(***************************************************************************)
(* PriceBackfill: the stored rows, for any days and any rows that the      *)
(* sources give.                                                           *)
(***************************************************************************)
Stored == {"early", "final"}
SomeRows == [TradingDays -> {"none", "early", "final", "scaled"}]

\* The days before the window of the first day, which nothing deletes.
OldDays == {d \in TradingDays : d + RefreshWindow < FirstDay}

\* Rows that hold no scaled price, and the old days.
Sound(held) ==
  /\ held \in SomeRows
  /\ \A d \in TradingDays : held[d] # "scaled"
  /\ \A d \in OldDays : held[d] # "none"

\* A baseline that the guard works with.
Ample(s) == s \in Seq(Stored) /\ MinUsable <= Len(s)

\* The closes up to each day.
Closes(held) ==
  CHOOSE f : f = [d \in 0 .. LastDay |->
                    IF d = 0 THEN <<>>
                    ELSE IF held[d] = "none" THEN f[d - 1] ELSE Append(f[d - 1], held[d])]

LEMMA SeedIsOfCloses ==
  ASSUME NEW held
  PROVE  Seed(held) = Latest(PrecedingWindow, Closes(held)[LastDay])
BY DEF Seed, Closes

LEMMA ClosesUpwards ==
  ASSUME NEW held, Sound(held)
  PROVE  \A d \in 0 .. LastDay :
           Closes(held)[d] = IF d = 0 THEN <<>>
                             ELSE IF held[d] = "none" THEN Closes(held)[d - 1]
                             ELSE Append(Closes(held)[d - 1], held[d])
<1> DEFINE V == Seq({"early", "final"})
           step == [d \in 1 .. LastDay |->
                      [v \in V |-> IF held[d] = "none" THEN v ELSE Append(v, held[d])]]
           Is(f) == f = [d \in 0 .. LastDay |->
                           IF d = 0 THEN <<>>
                           ELSE IF held[d] = "none" THEN f[d - 1] ELSE Append(f[d - 1], held[d])]
<1>1. LastDay \in Nat
  BY BackfillAssumption
<1>2. \A d \in 1 .. LastDay : held[d] \in {"none", "early", "final"}
  BY DEF Sound, SomeRows, TradingDays
<1>3. \A d \in 1 .. LastDay : \A v \in V : held[d] # "none" => Append(v, held[d]) \in V
  BY <1>2, AppendProperties
<1>4. step \in [1 .. LastDay -> [V -> V]] /\ <<>> \in V
  BY <1>3
<1>5. \A d \in 1 .. LastDay : \A v \in V :
        step[d][v] = IF held[d] = "none" THEN v ELSE Append(v, held[d])
  OBVIOUS
<1> HIDE DEF step, V
<1>6. PICK f \in [0 .. LastDay -> V] :
        \A d \in 0 .. LastDay : f[d] = IF d = 0 THEN <<>> ELSE step[d][f[d - 1]]
  <2>1. PICK empty \in V : empty = <<>>
    BY <1>4
  <2>2. \E f \in [0 .. LastDay -> V] : Follows(f, LastDay, empty, step)
    BY <1>1, <1>4, DayByDay
  <2>3. QED
    BY <2>1, <2>2 DEF Follows
<1>7. \A d \in 0 .. LastDay : f[d] = IF d = 0 THEN <<>>
                                     ELSE IF held[d] = "none" THEN f[d - 1] ELSE Append(f[d - 1], held[d])
  <2> SUFFICES ASSUME NEW d \in 0 .. LastDay, d # 0
               PROVE  f[d] = IF held[d] = "none" THEN f[d - 1] ELSE Append(f[d - 1], held[d])
    BY <1>6
  <2>1. d \in 1 .. LastDay /\ d - 1 \in 0 .. LastDay
    BY <1>1
  <2>2. f[d - 1] \in V
    BY <2>1
  <2>3. QED
    BY <1>5, <1>6, <2>1, <2>2
<1>8. Is(f)
  BY <1>7
<1>9. Closes(held) = CHOOSE g : Is(g)
  BY DEF Closes
<1> DEFINE c == Closes(held)
<1>10. Is(c)
  <2> HIDE DEF Is
  <2>1. QED
    BY <1>8, <1>9
<1> HIDE DEF c
<1>11. \A d \in 0 .. LastDay : c[d] = IF d = 0 THEN <<>>
                                      ELSE IF held[d] = "none" THEN c[d - 1] ELSE Append(c[d - 1], held[d])
  BY <1>10
<1>12. QED
  BY <1>11 DEF c

LEMMA DayFacts ==
  /\ FirstDay \in Nat /\ LastDay \in Nat /\ RefreshWindow \in Nat /\ PrecedingWindow \in Nat
  /\ MinUsable \in Nat /\ FirstDay <= LastDay /\ MinUsable <= PrecedingWindow /\ MinUsable > 0
  /\ FirstDay > RefreshWindow + MinUsable /\ MinUsable <= LastDay
  /\ \A d \in 1 .. MinUsable : d \in OldDays
<1>1. /\ FirstDay \in Nat /\ LastDay \in Nat /\ RefreshWindow \in Nat /\ PrecedingWindow \in Nat
      /\ MinUsable \in Nat
  BY BackfillAssumption
<1>2. /\ FirstDay <= LastDay /\ MinUsable <= PrecedingWindow /\ MinUsable > 0
      /\ FirstDay > RefreshWindow + MinUsable
  BY BackfillAssumption
<1>3. QED
  BY <1>1, <1>2 DEF OldDays, TradingDays

\* The last closes of an ample row of them are ample.
LEMMA LatestIsAmple ==
  ASSUME NEW s, Ample(s)
  PROVE  Ample(Latest(PrecedingWindow, s))
<1>1. s \in Seq(Stored) /\ Len(s) \in Nat /\ MinUsable <= Len(s) /\ \A i \in 1 .. Len(s) : s[i] \in Stored
  BY LenProperties, ElementOfSeq DEF Ample
<1>2. PICK n \in Int : n = IF Len(s) > PrecedingWindow THEN Len(s) - PrecedingWindow + 1 ELSE 1
  <2>0. PrecedingWindow \in Nat
    BY DayFacts
  <2>1. Len(s) - PrecedingWindow + 1 \in Int
    BY <1>1, <2>0
  <2>2. QED
    BY <2>1
<1>3. n >= 1 /\ n <= Len(s) /\ Len(s) - n + 1 >= MinUsable
  BY <1>1, <1>2, DayFacts
<1>4. \A i \in n .. Len(s) : s[i] \in Stored
  BY <1>1, <1>3
<1>5. /\ SubSeq(s, n, Len(s)) \in Seq(Stored)
      /\ Len(SubSeq(s, n, Len(s))) = Len(s) - n + 1
  <2>1. Len(s) \in Int
    BY <1>1
  <2>2. QED
    BY <1>2, <1>3, <1>4, <2>1, SubSeqProperties
<1>6. Latest(PrecedingWindow, s) = SubSeq(s, n, Len(s))
  BY <1>2 DEF Latest
<1>7. QED
  BY <1>3, <1>5, <1>6 DEF Ample

LEMMA SeedIsAmple ==
  ASSUME NEW held, Sound(held)
  PROVE  Ample(Seed(held))
<1> DEFINE c == Closes(held)
           S == {d \in 0 .. LastDay : /\ c[d] \in Seq(Stored) /\ Len(c[d]) \in Nat
                                      /\ d <= MinUsable => Len(c[d]) = d
                                      /\ d >= MinUsable => Len(c[d]) >= MinUsable}
<1>1. \A d \in 0 .. LastDay : c[d] = IF d = 0 THEN <<>>
                                     ELSE IF held[d] = "none" THEN c[d - 1] ELSE Append(c[d - 1], held[d])
  BY ClosesUpwards
<1> HIDE DEF c
<1>2. 0 \in S
  <2>1. 0 \in 0 .. LastDay /\ c[0] = <<>>
    BY <1>1, DayFacts
  <2>2. <<>> \in Seq(Stored) /\ Len(<<>>) = 0
    OBVIOUS
  <2>3. QED
    BY <2>1, <2>2, DayFacts
<1>3. ASSUME NEW d \in 1 .. LastDay, d - 1 \in S PROVE d \in S
  <2>1. /\ d \in 0 .. LastDay /\ d # 0 /\ d \in TradingDays /\ d \in Nat
        /\ held[d] \in {"none", "early", "final"}
    BY DayFacts DEF TradingDays, Sound, SomeRows
  <2>2. c[d] = IF held[d] = "none" THEN c[d - 1] ELSE Append(c[d - 1], held[d])
    BY <1>1, <2>1
  <2>3. /\ c[d - 1] \in Seq(Stored) /\ Len(c[d - 1]) \in Nat
        /\ d - 1 <= MinUsable => Len(c[d - 1]) = d - 1
        /\ d - 1 >= MinUsable => Len(c[d - 1]) >= MinUsable
    BY <1>3
  <2>4. CASE held[d] = "none"
    <3>1. ~(d <= MinUsable)
      BY <2>1, <2>4, DayFacts DEF Sound
    <3>2. d - 1 >= MinUsable /\ d \in Nat
      BY <2>1, <3>1, DayFacts
    <3>3. QED
      BY <2>1, <2>2, <2>3, <2>4, <3>1, <3>2, DayFacts
  <2>5. CASE held[d] # "none"
    <3>1. held[d] \in Stored
      BY <2>1, <2>5 DEF Stored
    <3>2. Append(c[d - 1], held[d]) \in Seq(Stored) /\ Len(Append(c[d - 1], held[d])) = Len(c[d - 1]) + 1
      BY <2>3, <3>1, AppendProperties
    <3>3. PICK n \in Nat : n = Len(c[d - 1])
      BY <2>3
    <3>4. Len(c[d]) = n + 1 /\ c[d] \in Seq(Stored)
      BY <2>2, <2>5, <3>2, <3>3
    <3>5. /\ d <= MinUsable => n + 1 = d
          /\ d >= MinUsable => n + 1 >= MinUsable
      BY <2>1, <2>3, <3>3, DayFacts
    <3>6. QED
      BY <2>1, <3>4, <3>5
  <2>6. QED
    BY <2>4, <2>5
<1>4. S = 0 .. LastDay
  <2>1. S \subseteq 0 .. LastDay
    OBVIOUS
  <2> HIDE DEF S
  <2>2. QED
    BY <1>2, <1>3, <2>1, DayFacts, Upwards
<1>5. LastDay \in S
  BY <1>4, DayFacts
<1>6. Ample(c[LastDay])
  BY <1>5, DayFacts DEF Ample
<1>7. QED
  BY <1>6, SeedIsOfCloses, LatestIsAmple DEF c

-----------------------------------------------------------------------------
(* The inserts.                                                            *)

\* On an ample baseline every scaled price jumps, and only such a price.
LEMMA ScaledJumps ==
  ASSUME NEW s, Ample(s), NEW price
  PROVE  Jumps(price, s) <=> price = "scaled"
<1>1. Len(s) \in Nat /\ MinUsable <= Len(s) /\ DOMAIN s = 1 .. Len(s)
      /\ \A i \in 1 .. Len(s) : s[i] \in Stored
  BY LenProperties, ElementOfSeq DEF Ample
<1>2. {i \in DOMAIN s : s[i] = "scaled"} = {}
  BY <1>1 DEF Stored
<1>3. Cardinality({}) = 0
  BY FS_EmptySet
<1>4. 2 * Cardinality({i \in DOMAIN s : s[i] = "scaled"}) < Len(s)
  <2>1. 0 < Len(s)
    BY <1>1, DayFacts
  <2>2. 2 * 0 < Len(s)
    BY <2>1
  <2>3. QED
    BY <1>2, <1>3, <2>2
<1>5. Len(s) >= MinUsable
  BY <1>1, DayFacts
<1>6. QED
  BY <1>4, <1>5 DEF Jumps

\* Each row of an insert is the row before, or the bar of the day.
IsFrom(new, held, bars) ==
  \A d \in TradingDays : new[d] = held[d] \/ (bars[d] # "none" /\ new[d] = bars[d])

\* What has been inserted so far, and its baseline.
InsertedSo(held, bars) ==
  {acc \in [rows : SomeRows, baseline : Seq(Stored)] :
     Sound(acc.rows) /\ Ample(acc.baseline) /\ IsFrom(acc.rows, held, bars)}

LEMMA AcceptKeepsSound ==
  ASSUME NEW held, NEW bars \in SomeRows, NEW acc \in InsertedSo(held, bars),
         NEW d \in TradingDays, bars[d] # "none"
  PROVE  AcceptBar(acc, d, bars[d]) \in InsertedSo(held, bars)
<1>1. /\ acc.rows \in SomeRows /\ acc.baseline \in Seq(Stored) /\ Sound(acc.rows)
      /\ Ample(acc.baseline) /\ IsFrom(acc.rows, held, bars)
  BY DEF InsertedSo
<1>2. CASE bars[d] = "scaled"
  <2>1. AcceptBar(acc, d, bars[d]) = acc
    BY <1>1, <1>2, ScaledJumps DEF AcceptBar
  <2>2. QED
    BY <2>1
<1>3. CASE bars[d] # "scaled"
  <2> DEFINE new == [acc.rows EXCEPT ![d] = bars[d]]
             base == Latest(PrecedingWindow, Append(acc.baseline, bars[d]))
  <2>1. bars[d] \in Stored
    BY <1>3 DEF SomeRows, Stored
  <2>2. AcceptBar(acc, d, bars[d]) = [rows |-> new, baseline |-> base]
    BY <1>1, <1>3, ScaledJumps DEF AcceptBar
  <2>3. new \in SomeRows /\ \A e \in TradingDays : new[e] = IF e = d THEN bars[d] ELSE acc.rows[e]
    BY <1>1, <2>1 DEF SomeRows, Stored
  <2> HIDE DEF new
  <2>4. Sound(new)
    BY <1>1, <1>3, <2>1, <2>3 DEF Sound, OldDays
  <2>5. IsFrom(new, held, bars)
    BY <1>1, <2>3 DEF IsFrom
  <2>6. Ample(Append(acc.baseline, bars[d]))
    <3>1. /\ Append(acc.baseline, bars[d]) \in Seq(Stored)
          /\ Len(Append(acc.baseline, bars[d])) = Len(acc.baseline) + 1
          /\ Len(acc.baseline) \in Nat
      BY <1>1, <2>1, AppendProperties, LenProperties
    <3>2. PICK n \in Nat : n = Len(acc.baseline)
      BY <3>1
    <3>3. MinUsable <= n /\ MinUsable \in Nat
      BY <1>1, <3>2, DayFacts DEF Ample
    <3>4. MinUsable <= n + 1
      BY <3>3
    <3>5. QED
      BY <3>1, <3>2, <3>4 DEF Ample
  <2>7. Ample(base)
    BY <2>6, LatestIsAmple
  <2> HIDE DEF base
  <2>8. base \in Seq(Stored)
    BY <2>7 DEF Ample
  <2>9. QED
    BY <2>2, <2>3, <2>4, <2>5, <2>7, <2>8 DEF InsertedSo
<1>4. QED
  BY <1>2, <1>3

\* The accumulators up to each day.
Accs(held, bars) ==
  CHOOSE f : f = [d \in 0 .. LastDay |->
                    IF d = 0 THEN [rows |-> held, baseline |-> Seed(held)]
                    ELSE IF bars[d] = "none" THEN f[d - 1]
                    ELSE AcceptBar(f[d - 1], d, bars[d])]

LEMMA InsertedIsOfAccs ==
  ASSUME NEW held, NEW bars
  PROVE  Inserted(held, bars) = Accs(held, bars)[LastDay].rows
BY DEF Inserted, Accs

LEMMA InsertedIsSound ==
  ASSUME NEW held, Sound(held), NEW bars \in SomeRows
  PROVE  Sound(Inserted(held, bars)) /\ IsFrom(Inserted(held, bars), held, bars)
<1> DEFINE V == InsertedSo(held, bars)
           seed == [rows |-> held, baseline |-> Seed(held)]
           step == [d \in 1 .. LastDay |->
                      [acc \in V |-> IF bars[d] = "none" THEN acc ELSE AcceptBar(acc, d, bars[d])]]
           Is(f) == f = [d \in 0 .. LastDay |->
                           IF d = 0 THEN [rows |-> held, baseline |-> Seed(held)]
                           ELSE IF bars[d] = "none" THEN f[d - 1]
                           ELSE AcceptBar(f[d - 1], d, bars[d])]
<1>1. LastDay \in Nat
  BY DayFacts
<1>2. seed \in V
  <2>1. held \in SomeRows /\ Ample(Seed(held)) /\ IsFrom(held, held, bars)
    BY SeedIsAmple DEF Sound, IsFrom
  <2>2. Seed(held) \in Seq(Stored)
    BY <2>1 DEF Ample
  <2>3. QED
    BY <2>1, <2>2 DEF InsertedSo
<1>3. \A d \in 1 .. LastDay : \A acc \in V : bars[d] # "none" => AcceptBar(acc, d, bars[d]) \in V
  BY AcceptKeepsSound DEF TradingDays
<1>4. step \in [1 .. LastDay -> [V -> V]]
  <2> HIDE DEF V
  <2>1. QED
    BY <1>3
<1>5. \A d \in 1 .. LastDay : \A acc \in V :
        step[d][acc] = IF bars[d] = "none" THEN acc ELSE AcceptBar(acc, d, bars[d])
  OBVIOUS
<1> HIDE DEF step, V, seed
<1>6. PICK f \in [0 .. LastDay -> V] : Follows(f, LastDay, seed, step)
  BY <1>1, <1>2, <1>4, DayByDay
<1>7. \A d \in 0 .. LastDay : f[d] = IF d = 0 THEN [rows |-> held, baseline |-> Seed(held)]
                                     ELSE IF bars[d] = "none" THEN f[d - 1]
                                     ELSE AcceptBar(f[d - 1], d, bars[d])
  <2>1. f[0] = seed
    BY <1>1, <1>6 DEF Follows
  <2>2. ASSUME NEW d \in 1 .. LastDay
        PROVE  f[d] = IF bars[d] = "none" THEN f[d - 1] ELSE AcceptBar(f[d - 1], d, bars[d])
    <3>1. d \in 0 .. LastDay /\ d # 0 /\ d - 1 \in 0 .. LastDay
      BY <1>1
    <3>2. f[d - 1] \in V
      BY <3>1
    <3>3. QED
      BY <1>5, <1>6, <3>1, <3>2 DEF Follows
  <2>3. \A d \in 0 .. LastDay : d = 0 \/ d \in 1 .. LastDay
    BY <1>1
  <2>4. QED
    BY <2>1, <2>2, <2>3 DEF seed
<1>8. Is(f)
  BY <1>7
<1> DEFINE a == Accs(held, bars)
<1>9. a = CHOOSE g : Is(g)
  BY DEF Accs
<1>10. Is(a)
  <2> HIDE DEF Is, a
  <2>1. QED
    BY <1>8, <1>9
<1> HIDE DEF a
<1>11. /\ a[0] = seed
       /\ \A d \in 1 .. LastDay : a[d] = IF bars[d] = "none" THEN a[d - 1]
                                         ELSE AcceptBar(a[d - 1], d, bars[d])
  <2>1. \A d \in 0 .. LastDay : a[d] = IF d = 0 THEN [rows |-> held, baseline |-> Seed(held)]
                                       ELSE IF bars[d] = "none" THEN a[d - 1]
                                       ELSE AcceptBar(a[d - 1], d, bars[d])
    BY <1>10
  <2>2. \A d \in 1 .. LastDay : d \in 0 .. LastDay /\ d # 0
    BY <1>1
  <2>3. 0 \in 0 .. LastDay
    BY <1>1
  <2>4. QED
    BY <2>1, <2>2, <2>3 DEF seed
<1> DEFINE S == {d \in 0 .. LastDay : a[d] \in V}
<1>12. 0 \in S
  BY <1>1, <1>2, <1>11
<1>13. ASSUME NEW d \in 1 .. LastDay, d - 1 \in S PROVE d \in S
  <2>1. a[d - 1] \in V /\ d \in 0 .. LastDay
    BY <1>1, <1>13
  <2>2. bars[d] # "none" => AcceptBar(a[d - 1], d, bars[d]) \in V
    BY <1>3, <2>1
  <2>3. QED
    BY <1>11, <2>1, <2>2
<1>14. S = 0 .. LastDay
  <2>1. S \subseteq 0 .. LastDay
    OBVIOUS
  <2> HIDE DEF S
  <2>2. QED
    BY <1>1, <1>12, <1>13, <2>1, Upwards
<1>15. a[LastDay] \in V
  <2>1. LastDay \in 0 .. LastDay
    BY <1>1
  <2>2. QED
    BY <1>14, <2>1
<1>16. Sound(a[LastDay].rows) /\ IsFrom(a[LastDay].rows, held, bars)
  BY <1>15 DEF V, InsertedSo
<1>17. QED
  BY <1>16, InsertedIsOfAccs DEF a

-----------------------------------------------------------------------------
SomeFetch ==
  [pc : {"idle", "fetch", "write"}, refresh : BOOLEAN, latest : TradingDays \cup {0},
   said : SUBSET TradingDays, bars : SomeRows]

\* What a refresh has to write: nothing of the days before its window, and a
\* settled bar of each day in it that is over and was answered.
Settling(s) ==
  s.pc = "write" /\ s.refresh =>
    \A d \in TradingDays : /\ d + RefreshWindow < today => s.bars[d] = "none"
                           /\ d \in s.said /\ d < today /\ d + RefreshWindow >= today =>
                                s.bars[d] \in {"final", "scaled"}

PriceInv ==
  /\ today \in Nat /\ FirstDay <= today /\ today <= LastDay
  /\ Sound(row)
  /\ session \in [Fetchers -> SomeFetch]
  /\ \A f \in Fetchers : Settling(session[f])

LEMMA NoBarsIsSome == NoBars \in SomeRows /\ NoFetch \in SomeFetch
BY DEF NoBars, SomeRows, NoFetch, SomeFetch

LEMMA PriceInvInit == PricesInit => PriceInv
<1> SUFFICES ASSUME PricesInit PROVE PriceInv
  OBVIOUS
<1>1. today = FirstDay /\ FirstDay \in Nat /\ FirstDay <= FirstDay /\ FirstDay <= LastDay
  BY DayFacts, BackfillAssumption DEF PricesInit
<1>2. Sound(row)
  <2>1. row \in SomeRows /\ \A d \in TradingDays : row[d] # "scaled"
    BY DEF PricesInit, SomeRows
  <2>2. \A d \in OldDays : d < FirstDay /\ d \in TradingDays
    BY DayFacts DEF OldDays, TradingDays
  <2>3. QED
    BY <2>1, <2>2 DEF PricesInit, Sound
<1>3. session \in [Fetchers -> SomeFetch] /\ \A f \in Fetchers : session[f].pc = "idle"
  BY NoBarsIsSome DEF PricesInit, NoFetch
<1>4. QED
  BY <1>1, <1>2, <1>3 DEF PriceInv, Settling

\* A session moves on.
LEMMA FetchKeepsInv ==
  ASSUME PriceInv, NEW f \in Fetchers, NEW s \in SomeFetch, session' = [session EXCEPT ![f] = s],
         UNCHANGED today, Sound(row'), Settling(s)
  PROVE  PriceInv'
<1>1. \A g \in Fetchers : session'[g] = IF g = f THEN s ELSE session[g]
  BY DEF PriceInv
<1>2. \A g \in Fetchers : Settling(session'[g])
  BY <1>1 DEF PriceInv
<1>3. session' \in [Fetchers -> SomeFetch]
  BY DEF PriceInv
<1>4. (\A g \in Fetchers : Settling(session[g]))'
  BY <1>2 DEF Settling
<1>5. QED
  BY <1>3, <1>4 DEF PriceInv

LEMMA LatestDay ==
  ASSUME NEW S, S \subseteq TradingDays, S # {}
  PROVE  Max(S) \in S
<1> DEFINE T == {LastDay - d : d \in S}
<1>1. LastDay \in Nat /\ \A d \in S : d \in 1 .. LastDay
  BY DayFacts DEF TradingDays
<1>2. T \subseteq Nat /\ T # {}
  BY <1>1
<1>3. PICK t \in T : \A u \in T : t <= u
  <2> HIDE DEF T
  <2>1. QED
    BY <1>2, LeastNumber
<1>4. PICK d \in S : t = LastDay - d
  BY <1>3
<1>5. \A e \in S : d >= e
  <2> SUFFICES ASSUME NEW e \in S PROVE d >= e
    OBVIOUS
  <2>1. LastDay - d <= LastDay - e
    BY <1>3, <1>4
  <2>2. QED
    BY <1>1, <2>1
<1>6. QED
  BY <1>5 DEF Max

LEMMA LookKeepsInv ==
  ASSUME PriceInv, NEW f \in Fetchers, NEW refresh \in BOOLEAN, LookLatest(f, refresh)
  PROVE  PriceInv'
<1> DEFINE latest == Max(RowDays(row))
           s == [NoFetch EXCEPT !.pc = "fetch", !.refresh = refresh, !.latest = latest]
<1>1. session' = [session EXCEPT ![f] = s] /\ UNCHANGED <<today, row>>
  BY DEF LookLatest
<1>2. latest \in TradingDays
  <2>1. RowDays(row) \subseteq TradingDays
    BY DEF RowDays
  <2>2. 1 \in RowDays(row)
    BY DayFacts DEF PriceInv, Sound, RowDays, OldDays
  <2>3. QED
    BY <2>1, <2>2, LatestDay
<1> HIDE DEF latest
<1>3. s \in SomeFetch /\ s.pc = "fetch"
  BY <1>2, NoBarsIsSome DEF NoFetch, SomeFetch
<1> HIDE DEF s
<1>4. QED
  BY <1>1, <1>3, FetchKeepsInv DEF Settling, PriceInv

LEMMA FetchBarsKeepsInv ==
  ASSUME PriceInv, NEW f \in Fetchers, FetchBars(f)
  PROVE  PriceInv'
<1>1. PICK scaled \in BOOLEAN, days \in SUBSET Asked(session[f]) :
        session' = [session EXCEPT ![f].pc = "write", ![f].said = days,
                                   ![f].bars = Bars(scaled, days \cap Kept(session[f]))]
  BY DEF FetchBars
<1>2. UNCHANGED <<today, row>> /\ session[f] \in SomeFetch /\ session \in [Fetchers -> SomeFetch]
  BY DEF FetchBars, PriceInv
<1>3. PICK kept \in SomeRows : kept = Bars(scaled, days \cap Kept(session[f]))
  BY DEF Bars, SomeRows
<1>4. days \subseteq TradingDays
  BY <1>1, DayFacts DEF Asked, TradingDays, PriceInv
<1>5. ASSUME session[f].refresh, NEW d \in TradingDays
      PROVE  /\ d + RefreshWindow < today => kept[d] = "none"
             /\ d \in days /\ d < today /\ d + RefreshWindow >= today =>
                  kept[d] \in {"final", "scaled"}
  <2>1. d \in Kept(session[f]) <=> d <= today /\ d + RefreshWindow >= today
    BY <1>5, DayFacts DEF Kept, TradingDays, PriceInv
  <2>2. d + RefreshWindow < today => ~(d + RefreshWindow >= today)
    BY DayFacts DEF TradingDays, PriceInv
  <2>3. d < today => d <= today /\ d # today
    BY DayFacts DEF TradingDays, PriceInv
  <2> QED
    BY <1>3, <2>1, <2>2, <2>3 DEF Bars
<1> DEFINE s1 == [session[f] EXCEPT !.pc = "write"]
           s2 == [s1 EXCEPT !.said = days]
           s == [s2 EXCEPT !.bars = kept]
<1>7. session' = [session EXCEPT ![f] = s]
  BY <1>1, <1>2, <1>3 DEF SomeFetch
<1>8. s1 \in SomeFetch /\ s1.pc = "write" /\ s1.refresh = session[f].refresh
  BY <1>2 DEF SomeFetch
<1> HIDE DEF s1
<1>9. s2 \in SomeFetch /\ s2.pc = "write" /\ s2.refresh = session[f].refresh /\ s2.said = days
  BY <1>4, <1>8 DEF SomeFetch
<1> HIDE DEF s2
<1>10. /\ s \in SomeFetch /\ s.pc = "write" /\ s.refresh = session[f].refresh
       /\ s.said = days /\ s.bars = kept
  BY <1>9 DEF SomeFetch
<1> HIDE DEF s
<1>11. Settling(s)
  BY <1>5, <1>10 DEF Settling
<1>12. QED
  BY <1>2, <1>7, <1>10, <1>11, FetchKeepsInv DEF PriceInv

\* The rows that an insert starts from are sound.
LEMMA WritesAreSound ==
  ASSUME PriceInv, NEW f \in Fetchers, session[f].pc = "write"
  PROVE  /\ session[f].bars \in SomeRows
         /\ session[f].refresh => Sound(Deleted(session[f]))
<1>1. session[f] \in SomeFetch /\ Settling(session[f]) /\ Sound(row)
  BY DEF PriceInv
<1>2. session[f].bars \in SomeRows
  BY <1>1 DEF SomeFetch
<1>3. ASSUME session[f].refresh PROVE Sound(Deleted(session[f]))
  <2>1. /\ Deleted(session[f]) \in SomeRows
        /\ \A d \in TradingDays : Deleted(session[f])[d] # "scaled"
    BY <1>1 DEF Deleted, Sound, SomeRows
  <2>2. \A d \in OldDays : d \in TradingDays /\ session[f].bars[d] = "none"
    <3>1. \A d \in OldDays : d \in TradingDays /\ d + RefreshWindow < today
      BY DayFacts DEF OldDays, TradingDays, PriceInv
    <3>2. QED
      BY <1>1, <1>3, <3>1 DEF Settling
  <2>3. \A d \in OldDays : Deleted(session[f])[d] # "none"
    BY <1>1, <2>2 DEF Deleted, Sound
  <2>4. QED
    BY <2>1, <2>3 DEF Sound
<1>4. QED
  BY <1>2, <1>3

LEMMA WriteBarsKeepsInv ==
  ASSUME PriceInv, NEW f \in Fetchers, WriteBars(f)
  PROVE  PriceInv'
<1> DEFINE s == session[f]
           held == IF s.refresh THEN Deleted(s) ELSE row
<1>1. /\ s.pc = "write" /\ row' = Inserted(held, s.bars)
      /\ session' = [session EXCEPT ![f] = NoFetch] /\ UNCHANGED today
  BY DEF WriteBars
<1>2. s.bars \in SomeRows /\ Sound(held)
  BY <1>1, WritesAreSound DEF PriceInv
<1> HIDE DEF s, held
<1>3. Sound(row')
  BY <1>1, <1>2, InsertedIsSound
<1>4. NoFetch \in SomeFetch /\ Settling(NoFetch)
  BY NoBarsIsSome DEF NoFetch, Settling
<1>5. QED
  BY <1>1, <1>3, <1>4, FetchKeepsInv

LEMMA PriceInvNext == PriceInv /\ [PricesNext]_PriceVars => PriceInv'
<1> SUFFICES ASSUME PriceInv, [PricesNext]_PriceVars PROVE PriceInv'
  OBVIOUS
<1>1. NoFetch \in SomeFetch /\ Settling(NoFetch)
  BY NoBarsIsSome DEF NoFetch, Settling
<1>2. ASSUME NEW f \in Fetchers, FetchFails(f) \/ WriteNothing(f) PROVE PriceInv'
  <2>1. session' = [session EXCEPT ![f] = NoFetch] /\ UNCHANGED <<today, row>>
    BY <1>2 DEF FetchFails, WriteNothing
  <2>2. QED
    BY <1>1, <2>1, FetchKeepsInv DEF PriceInv
<1>3. CASE CloseMarket
  BY <1>3 DEF CloseMarket, PriceInv, Settling
<1>4. CASE NextDay
  <2>1. today' = today + 1 /\ UNCHANGED <<row, session>> /\ \A f \in Fetchers : session[f].pc = "idle"
    BY <1>4 DEF NextDay
  <2>2. today' \in Nat /\ FirstDay <= today' /\ today' <= LastDay
    BY <1>4, <2>1, DayFacts DEF NextDay, PriceInv
  <2>3. QED
    BY <2>1, <2>2 DEF PriceInv, Settling
<1>5. CASE UNCHANGED PriceVars
  BY <1>5 DEF PriceVars, PriceInv, Settling
<1>6. ASSUME NEW f \in Fetchers,
             \/ \E refresh \in BOOLEAN : LookLatest(f, refresh)
             \/ FetchBars(f) \/ FetchFails(f) \/ WriteBars(f) \/ WriteNothing(f)
      PROVE  PriceInv'
  BY <1>2, <1>6, LookKeepsInv, FetchBarsKeepsInv, WriteBarsKeepsInv
<1>7. QED
  BY <1>3, <1>4, <1>5, <1>6 DEF PricesNext

(* No scaled price is ever stored, whatever refreshes and fills come       *)
(* after each other: the guard always has a baseline, because no refresh   *)
(* deletes a row before its window.  For any windows, any number of        *)
(* sessions and any days.                                                  *)
THEOREM NoScaledRowStored == PricesSpec => []NoScaledRow
<1>1. PriceInv => NoScaledRow
  BY DEF PriceInv, Sound, NoScaledRow
<1>2. QED
  BY PriceInvInit, PriceInvNext, <1>1, PTL DEF PricesSpec

LEMMA WriteSettles ==
  ASSUME PriceInv, NEW f \in Fetchers, WriteBars(f), session[f].refresh,
         NEW d \in session[f].said, d < today, d + RefreshWindow >= today
  PROVE  row'[d] # "early"
<1> DEFINE s == session[f]
<1>1. /\ s.pc = "write" /\ row' = Inserted(Deleted(s), s.bars)
  BY DEF WriteBars
<1>2. s.bars \in SomeRows /\ Sound(Deleted(s))
  BY <1>1, WritesAreSound
<1>3. d \in TradingDays
  BY DEF PriceInv, SomeFetch
<1>4. s.bars[d] \in {"final", "scaled"}
  BY <1>1, <1>3 DEF PriceInv, Settling
<1>5. Deleted(s)[d] = "none"
  BY <1>3, <1>4 DEF Deleted
<1> HIDE DEF s
<1>6. IsFrom(row', Deleted(s), s.bars)
  BY <1>1, <1>2, InsertedIsSound
<1>7. QED
  BY <1>3, <1>4, <1>5, <1>6 DEF IsFrom

(* After a refresh that writes anything no early price is left of a day    *)
(* that is over, is in its window and was answered, whatever other days    *)
(* the answer left out.                                                    *)
THEOREM RefreshesSettle == PricesSpec => RefreshSettles
<1>1. PriceInv /\ [PricesNext]_PriceVars =>
        [\A f \in Fetchers :
           WriteBars(f) /\ session[f].refresh =>
             \A d \in session[f].said :
               d < today /\ d + RefreshWindow >= today => row'[d] # "early"]_PriceVars
  BY WriteSettles
<1>2. QED
  BY PriceInvInit, PriceInvNext, <1>1, PTL DEF PricesSpec, RefreshSettles

-----------------------------------------------------------------------------
(***************************************************************************)
(* Positions: the profit of a closed position, for any number of           *)
(* overlapping requests.                                                   *)
(***************************************************************************)
Rows == [status : Statuses, quantity : Quantities, price : Prices \cup {None},
         pnl : Int \cup {None}]

\* A handler that is about to write has read one row, and names the profit
\* only when that row was open.
WriteInv(q) ==
  /\ q.id \in Ids /\ q.was \in Rows /\ q.new \in Rows
  /\ q.was.status = "closed" => q.new.pnl = q.was.pnl

PositionsInv ==
  /\ rows \in [Ids -> Rows \cup {None}]
  /\ DOMAIN req = Requests
  /\ \A r \in Requests :
       /\ req[r].op = "write" => WriteInv(req[r])
       /\ req[r].op = "create" => req[r].new \in Rows

-----------------------------------------------------------------------------
(* A set of ids has a largest one.                                         *)
LEMMA LargestId ==
  ASSUME NEW S, S \subseteq 0 .. MaxId, S # {}
  PROVE  Max(S) \in S /\ \A i \in S : i <= Max(S)
<1>1. \E i \in S : \A j \in S : j <= i
  BY BoundAssumption, LargestNumber
<1>2. \E i \in S : \A j \in S : i >= j
  <2>1. \A i \in S : i \in Int
    BY BoundAssumption
  <2>2. QED
    BY <1>1, <2>1
<1>3. Max(S) \in S /\ \A j \in S : Max(S) >= j
  BY <1>2 DEF Max
<1>4. QED
  BY <1>3, BoundAssumption

(* A new id is not one of a row that is kept.                              *)
LEMMA NewIdIsFree ==
  ASSUME NEW i \in Used
  PROVE  NewId # i
<1>1. Used \cup {0} \subseteq 0 .. MaxId
  BY BoundAssumption DEF Used, Ids
<1>2. i <= Max(Used \cup {0}) /\ Max(Used \cup {0}) \in 0 .. MaxId
  BY <1>1, LargestId
<1>3. i \in Nat
  BY BoundAssumption DEF Used, Ids
<1>4. QED
  BY <1>2, <1>3, BoundAssumption DEF NewId

(* The row of a position that is opened, or closed.                        *)
LEMMA OpenedIsRow ==
  ASSUME NEW q \in Quantities
  PROVE  Opened(q) \in Rows
BY DEF Opened, Rows, Statuses

LEMMA ClosedIsRow ==
  ASSUME NEW kept \in Rows, NEW p \in Prices, NEW q \in Quantities
  PROVE  Closed(kept, p, q) \in Rows
<1>1. Realized(kept.quantity, p) \in Int
  <2>1. kept.quantity \in Quantities
    BY DEF Rows
  <2>2. Quantities \subseteq Nat /\ Prices \subseteq Nat /\ Cost \in Nat
    BY PositiveAssumption
  <2>3. kept.quantity \in Nat /\ p \in Nat
    BY <2>1, <2>2
  <2>4. QED
    BY <2>2, <2>3 DEF Realized
<1>2. QED
  BY <1>1 DEF Closed, Rows, Statuses

(* What the UPDATE leaves is a row.                                        *)
LEMMA MergeIsRow ==
  ASSUME NEW kept \in Rows, NEW was \in Rows, NEW new \in Rows
  PROVE  /\ Merge(kept, was, new) \in Rows
         /\ Merge(kept, was, new).pnl = IF new.pnl = was.pnl THEN kept.pnl ELSE new.pnl
BY DEF Merge, Rows

-----------------------------------------------------------------------------
(* A request that is taken up, or done with, leaves the others alone.      *)
LEMMA RequestsStep ==
  ASSUME PositionsInv, NEW r \in Requests, NEW q, req' = [req EXCEPT ![r] = q],
         rows' \in [Ids -> Rows \cup {None}],
         q.op = "write" => WriteInv(q),
         q.op = "create" => q.new \in Rows
  PROVE  PositionsInv'
<1>1. DOMAIN req' = Requests /\ \A s \in Requests : req'[s] = IF s = r THEN q ELSE req[s]
  BY DEF PositionsInv
<1>2. QED
  BY <1>1 DEF PositionsInv

(* A handler reads.                                                        *)
LEMMA BeginPreserves ==
  ASSUME PositionsInv, NEW r \in Requests, Begin(r)
  PROVE  PositionsInv' /\ rows' = rows
<1>1. rows' = rows /\ rows' \in [Ids -> Rows \cup {None}]
  BY DEF PositionsInv, Begin, BeginCreate, BeginClose, BeginUpdate, BeginPurge, Hold
<1>2. ASSUME NEW q \in Quantities, BeginCreate(r, q) PROVE PositionsInv'
  <2>1. PICK new : new = [op |-> "create", id |-> 0, was |-> [stock |-> universe],
                          new |-> Opened(q)]
    OBVIOUS
  <2>2. new.op = "create" /\ new.new \in Rows
    BY <2>1, OpenedIsRow
  <2>3. req' = [req EXCEPT ![r] = new]
    BY <1>2, <2>1 DEF BeginCreate, Hold
  <2>4. QED
    BY <1>1, <2>2, <2>3, RequestsStep
<1>3. ASSUME NEW i \in Ids, NEW p \in Prices, NEW q \in Quantities, BeginClose(r, i, p, q)
      PROVE  PositionsInv'
  <2>1. PICK kept : kept = rows[i]
    OBVIOUS
  <2>2. kept \in Rows /\ kept.status = "open"
    BY <1>3, <2>1 DEF BeginClose, Used, MayClose, PositionsInv
  <2>3. PICK new : new = [op |-> "write", id |-> i, was |-> kept, new |-> Closed(kept, p, q)]
    OBVIOUS
  <2>4. WriteInv(new)
    BY <2>2, <2>3, ClosedIsRow DEF WriteInv
  <2>5. req' = [req EXCEPT ![r] = new] /\ new.op = "write"
    BY <1>3, <2>1, <2>3 DEF BeginClose, Hold
  <2>6. QED
    BY <1>1, <2>4, <2>5, RequestsStep
<1>4. ASSUME NEW i \in Ids, NEW s \in Statuses, NEW q \in Quantities,
             NEW p \in Prices \cup {None}, BeginUpdate(r, i, s, q, p)
      PROVE  PositionsInv'
  <2>1. PICK kept : kept = rows[i]
    OBVIOUS
  <2>2. kept \in Rows
    BY <1>4, <2>1 DEF BeginUpdate, Used, PositionsInv
  <2> DEFINE changed == [kept EXCEPT !.status = s, !.quantity = q, !.price = p]
  <2>3. changed \in Rows /\ changed.pnl = kept.pnl
    BY <2>2 DEF Rows
  <2>4. req' = [req EXCEPT ![r] = [op |-> "write", id |-> i, was |-> kept, new |-> changed]]
    BY <1>4, <2>1 DEF BeginUpdate, Hold
  <2> HIDE DEF changed
  <2>5. PICK new : new = [op |-> "write", id |-> i, was |-> kept, new |-> changed]
    OBVIOUS
  <2>6. WriteInv(new)
    BY <2>2, <2>3, <2>5 DEF WriteInv
  <2>7. req' = [req EXCEPT ![r] = new] /\ new.op = "write"
    BY <2>4, <2>5
  <2>8. QED
    BY <1>1, <2>6, <2>7, RequestsStep
<1>5. ASSUME NEW i \in Ids, BeginPurge(r, i) PROVE PositionsInv'
  <2>1. PICK new : new = [op |-> "purge", id |-> i, was |-> rows[i], new |-> None]
    OBVIOUS
  <2>2. req' = [req EXCEPT ![r] = new] /\ new.op = "purge"
    BY <1>5, <2>1 DEF BeginPurge, Hold
  <2>3. QED
    BY <1>1, <2>2, RequestsStep
<1>6. QED
  BY <1>1, <1>2, <1>3, <1>4, <1>5 DEF Begin

(* A handler writes, or finds that it cannot.                              *)
LEMMA CommitPreserves ==
  ASSUME PositionsInv, NEW r \in Requests, Commit(r)
  PROVE  PositionsInv'
<1>1. req' = [req EXCEPT ![r] = NoRequest] /\ NoRequest.op = "none"
  BY DEF Commit, Create, Write, Purge, Finish, NoRequest
<1>2. rows' \in [Ids -> Rows \cup {None}]
  <2>1. CASE Create(r)
    <3>1. req[r].new \in Rows
      BY <2>1 DEF Create, PositionsInv
    <3>2. rows' = rows \/ rows' = [rows EXCEPT ![NewId] = req[r].new]
      BY <2>1 DEF Create, Insert
    <3>3. QED
      BY <3>1, <3>2 DEF PositionsInv
  <2>2. CASE Write(r)
    <3>1. PICK i, was, new : i = req[r].id /\ was = req[r].was /\ new = req[r].new
      OBVIOUS
    <3>2. i \in Ids /\ was \in Rows /\ new \in Rows
      BY <2>2, <3>1 DEF Write, PositionsInv, WriteInv
    <3>3. PICK x : x = Updated(i, was, new)
      OBVIOUS
    <3>4. x \in Rows \cup {None}
      BY <3>2, <3>3, MergeIsRow DEF Updated, PositionsInv
    <3>5. rows' = [rows EXCEPT ![i] = x]
      BY <2>2, <3>1, <3>3 DEF Write
    <3>6. QED
      BY <3>4, <3>5 DEF PositionsInv
  <2>3. CASE Purge(r)
    BY <2>3 DEF Purge, PositionsInv
  <2>4. QED
    BY <2>1, <2>2, <2>3 DEF Commit
<1>3. QED
  BY <1>1, <1>2, RequestsStep

-----------------------------------------------------------------------------
(* A request that read a closed row as it is leaves its profit.            *)
LEMMA WriteKeepsPnl ==
  ASSUME PositionsInv, NEW r \in Requests, Write(r), NEW i \in Used,
         rows[i].status = "closed", Current(i), rows[i]' # None
  PROVE  rows[i]'.pnl = rows[i].pnl
<1>1. PICK s \in Requests : req[s].id = i /\ req[s].was = rows[i] /\ req[s]' # req[s]
  BY DEF Current
<1>2. req' = [req EXCEPT ![r] = NoRequest] /\ req[r].op = "write"
  BY DEF Write, Finish
<1>3. s = r
  BY <1>1, <1>2 DEF PositionsInv
<1>4. PICK was, new, kept : was = req[r].was /\ new = req[r].new /\ kept = rows[i]
  OBVIOUS
<1>5. /\ i \in Ids /\ was \in Rows /\ new \in Rows /\ new.pnl = was.pnl /\ kept = was
  BY <1>1, <1>2, <1>3, <1>4 DEF PositionsInv, WriteInv
<1>6. rows' = [rows EXCEPT ![i] = Merge(kept, was, new)]
  BY <1>1, <1>3, <1>4 DEF Write, Updated, Used
<1>7. rows'[i] = Merge(kept, was, new)
  BY <1>5, <1>6 DEF PositionsInv
<1>8. Merge(kept, was, new).pnl = kept.pnl
  BY <1>5, MergeIsRow
<1>9. QED
  BY <1>4, <1>7, <1>8

(* No step rewrites the profit of a position that stays closed.            *)
LEMMA StepKeepsPnl ==
  ASSUME PositionsInv, PositionsNext, NEW i \in Used, rows[i].status = "closed",
         Current(i), rows[i]' # None
  PROVE  rows[i]'.pnl = rows[i].pnl
<1>1. CASE rows'[i] = rows[i]
  BY <1>1
<1>2. CASE rows'[i] # rows[i]
  <2>1. PICK r \in Requests : Create(r) \/ Write(r) \/ Purge(r)
    BY <1>2, BeginPreserves DEF PositionsNext, RemoveStock, Commit
  <2>2. i \in Ids
    BY DEF Used
  <2>3. ~ Create(r)
    <3> SUFFICES ASSUME Create(r) PROVE FALSE
      OBVIOUS
    <3>1. rows' = [rows EXCEPT ![NewId] = req[r].new]
      BY <1>2 DEF Create, Insert
    <3>2. NewId # i
      BY NewIdIsFree
    <3>3. QED
      BY <1>2, <2>2, <3>1, <3>2 DEF PositionsInv
  <2>4. ~ Purge(r)
    <3> SUFFICES ASSUME Purge(r) PROVE FALSE
      OBVIOUS
    <3>1. rows' = [rows EXCEPT ![req[r].id] = None]
      BY DEF Purge
    <3>2. QED
      BY <1>2, <2>2, <3>1 DEF PositionsInv
  <2>5. QED
    BY <2>1, <2>3, <2>4, WriteKeepsPnl
<1>3. QED
  BY <1>1, <1>2

(* The invariant of the rows and the requests.                             *)
LEMMA PositionsStep == PositionsInv /\ [PositionsNext]_pvars => PositionsInv'
<1> SUFFICES ASSUME PositionsInv, [PositionsNext]_pvars PROVE PositionsInv'
  OBVIOUS
<1>1. CASE UNCHANGED pvars
  BY <1>1 DEF pvars, PositionsInv, WriteInv
<1>2. CASE RemoveStock
  BY <1>2 DEF RemoveStock, PositionsInv, WriteInv
<1>3. CASE \E r \in Requests : Begin(r) \/ Commit(r)
  BY <1>3, BeginPreserves, CommitPreserves
<1>4. QED
  BY <1>1, <1>2, <1>3 DEF PositionsNext

(* A second close, an update or a purge that read the row as it is never   *)
(* rewrites the realized profit of a position that stays closed, for any   *)
(* number of requests and rows.                                            *)
THEOREM ClosedPnlStays == PositionsSpec => ClosedPnlIsFinal
<1>1. PositionsInit => PositionsInv
  <2> SUFFICES ASSUME PositionsInit PROVE PositionsInv
    OBVIOUS
  <2>1. rows \in [Ids -> Rows \cup {None}] /\ DOMAIN req = Requests
    BY DEF PositionsInit
  <2>2. \A r \in Requests : req[r].op = "none"
    BY DEF PositionsInit, NoRequest
  <2>3. QED
    BY <2>1, <2>2 DEF PositionsInv
<1>2. PositionsInv /\ [PositionsNext]_pvars =>
        [\A i \in Used :
          (/\ rows[i].status = "closed" /\ Current(i)
           /\ rows[i]' # None /\ rows[i]'.status = "closed")
            => rows[i]'.pnl = rows[i].pnl]_pvars
  BY StepKeepsPnl
<1>3. QED
  BY <1>1, <1>2, PositionsStep, PTL DEF PositionsSpec, ClosedPnlIsFinal

-----------------------------------------------------------------------------
(***************************************************************************)
(* LivePage: what a click is told, however requests are answered, lost and *)
(* repeated.                                                               *)
(***************************************************************************)
ClickAt == {"idle", "send", "written", "refused", "refresh", "local", "done", "failed"}
ClickKinds == {"create", "close", "purge"}
ListedRow == [id : RowIds, status : Lists]
ClickRecord ==
  [at : ClickAt, attempt : {1}, kind : ClickKinds, id : RowIds \cup {OnlyHere}, sample : BOOLEAN,
   wrote : {0, 1}, lost : BOOLEAN, left : SUBSET Lists, read : SUBSET ListedRow]

\* What a click has written is known from where it is: only an answer that
\* was lost leaves it open.
Told(q) ==
  /\ q.at \in {"idle", "send", "refused", "local"} => q.wrote = 0
  /\ q.at \in {"written", "refresh", "done"} => q.wrote = 1
  /\ q.at = "failed" => q.wrote = 0 \/ q.lost

PageInv ==
  /\ "sample" \in DOMAIN page /\ page.sample \in BOOLEAN
  /\ click \in [Clicks -> ClickRecord]
  /\ \A c \in Clicks : Told(click[c])

-----------------------------------------------------------------------------
LEMMA PageInvInit == PageInit => PageInv
<1> SUFFICES ASSUME PageInit PROVE PageInv
  OBVIOUS
<1>1. NoClick \in ClickRecord /\ Told(NoClick)
  BY DEF NoClick, ClickRecord, Told, ClickAt, ClickKinds, OnlyHere
<1>2. QED
  BY <1>1 DEF PageInit, PageInv

\* A click that changes leaves the others alone.
LEMMA ClickStep ==
  ASSUME PageInv, NEW c \in Clicks, NEW q \in ClickRecord, Told(q),
         click' = [click EXCEPT ![c] = q],
         "sample" \in DOMAIN page' /\ page'.sample \in BOOLEAN
  PROVE  PageInv'
<1>1. click' \in [Clicks -> ClickRecord]
  BY DEF PageInv
<1>2. \A d \in Clicks : click'[d] = IF d = c THEN q ELSE click[d]
  BY DEF PageInv
<1>3. \A d \in Clicks : Told(click'[d])
  BY <1>2 DEF PageInv
<1>4. QED
  BY <1>1, <1>3 DEF PageInv

\* The requests that write are made once.
LEMMA WritesOnce ==
  ASSUME NEW q \in ClickRecord
  PROVE  ~ (q.attempt < MaxAttempts(Method[q.kind]))
BY DEF ClickRecord, ClickKinds, MaxAttempts, Method

LEMMA MakePreserves == ASSUME PageInv, NEW c \in Clicks, MakeClick(c) PROVE PageInv'
<1>1. PICK kind \in ClickKinds, id \in RowIds \cup {OnlyHere} :
        /\ click' = [click EXCEPT ![c].at = IF page.live THEN "send" ELSE "local",
                                  ![c].kind = kind, ![c].id = id, ![c].sample = page.sample]
        /\ page' = IF page.live THEN page ELSE [page EXCEPT !.rows = ChangedHere(kind, id)]
  BY DEF MakeClick, TurnsInto, ClickKinds
<1>2. click[c] \in ClickRecord /\ click[c].at = "idle" /\ click[c].wrote = 0
  BY DEF PageInv, MakeClick, Told
<1>3. page.sample \in BOOLEAN /\ "sample" \in DOMAIN page
  BY DEF PageInv
<1> DEFINE q == [click[c] EXCEPT !.at = IF page.live THEN "send" ELSE "local",
                                 !.kind = kind, !.id = id, !.sample = page.sample]
<1>4. q \in ClickRecord /\ q.wrote = 0 /\ q.at \in {"send", "local"}
  BY <1>2, <1>3 DEF ClickRecord, ClickAt
<1>5. click' = [click EXCEPT ![c] = q]
  BY <1>1
<1>6. "sample" \in DOMAIN page' /\ page'.sample \in BOOLEAN
  BY <1>1, <1>3
<1> HIDE DEF q
<1>7. Told(q)
  BY <1>4 DEF Told
<1>8. QED
  BY <1>4, <1>5, <1>6, <1>7, ClickStep

LEMMA ServePreserves == ASSUME PageInv, NEW c \in Clicks, Serve(c) PROVE PageInv'
<1>1. click[c] \in ClickRecord /\ click[c].at = "send" /\ click[c].wrote = 0 /\ page' = page
  BY DEF PageInv, Serve, Told
<1> DEFINE done == [click[c] EXCEPT !.at = "written", !.wrote = @ + 1]
           refused == [click[c] EXCEPT !.at = "refused"]
<1>2. click' = [click EXCEPT ![c] = done] \/ click' = [click EXCEPT ![c] = refused]
  <2>1. \/ click' = [click EXCEPT ![c].at = "written", ![c].wrote = @ + 1]
        \/ click' = [click EXCEPT ![c].at = "refused"]
    BY Zenon DEF Serve
  <2>2. [click EXCEPT ![c].at = "written", ![c].wrote = @ + 1] = [click EXCEPT ![c] = done]
    BY DEF PageInv
  <2>3. [click EXCEPT ![c].at = "refused"] = [click EXCEPT ![c] = refused]
    BY DEF PageInv
  <2> HIDE DEF done, refused
  <2>4. QED
    BY <2>1, <2>2, <2>3
<1>3. done \in ClickRecord /\ done.wrote = 1 /\ done.at = "written"
  <2>1. done = [click[c] EXCEPT !.at = "written", !.wrote = 1]
    BY <1>1
  <2>2. QED
    BY <1>1, <2>1 DEF ClickRecord, ClickAt
<1>4. refused \in ClickRecord /\ refused.wrote = 0 /\ refused.at = "refused"
  BY <1>1 DEF ClickRecord, ClickAt
<1> HIDE DEF done, refused
<1>5. Told(done) /\ Told(refused)
  BY <1>3, <1>4 DEF Told
<1>6. "sample" \in DOMAIN page' /\ page'.sample \in BOOLEAN
  BY <1>1 DEF PageInv
<1>7. QED
  BY <1>2, <1>3, <1>4, <1>5, <1>6, ClickStep

LEMMA AnswerPreserves == ASSUME PageInv, NEW c \in Clicks, Answer(c) PROVE PageInv'
<1>1. click[c] \in ClickRecord /\ click[c].at \in {"written", "refused"} /\ Told(click[c])
  BY DEF PageInv, Answer
<1> DEFINE q == [click[c] EXCEPT !.at = IF @ = "written" THEN "refresh" ELSE "failed"]
<1>2. q \in ClickRecord /\ q.wrote = click[c].wrote
      /\ q.at = IF click[c].at = "written" THEN "refresh" ELSE "failed"
  BY <1>1 DEF ClickRecord, ClickAt
<1>3. click' = [click EXCEPT ![c] = q] /\ page' = page
  BY DEF Answer
<1> HIDE DEF q
<1>4. Told(q)
  BY <1>1, <1>2 DEF Told
<1>5. QED
  BY <1>2, <1>3, <1>4, ClickStep DEF PageInv

LEMMA TimeOutPreserves == ASSUME PageInv, NEW c \in Clicks, TimeOut(c) PROVE PageInv'
<1>1. click[c] \in ClickRecord
  BY DEF PageInv
<1>2. Unanswered(c) = [click[c] EXCEPT !.at = "failed", !.lost = TRUE]
  BY <1>1, WritesOnce DEF Unanswered
<1> DEFINE q == [click[c] EXCEPT !.at = "failed", !.lost = TRUE]
<1>3. q \in ClickRecord /\ q.at = "failed" /\ q.lost
  BY <1>1 DEF ClickRecord, ClickAt
<1>4. click' = [click EXCEPT ![c] = q] /\ page' = page
  BY <1>2 DEF TimeOut
<1> HIDE DEF q
<1>5. Told(q)
  BY <1>3 DEF Told
<1>6. QED
  BY <1>3, <1>4, <1>5, ClickStep DEF PageInv

\* The lists that are read again tell nothing about what was written.
LEMMA RefreshPreserves ==
  ASSUME PageInv, NEW c \in Clicks,
         RefreshFails(c) \/ ShowRefreshed(c) \/ \E status \in Lists : RefreshList(c, status)
  PROVE  PageInv'
<1>1. click[c] \in ClickRecord /\ click[c].at = "refresh" /\ click[c].wrote = 1
  BY DEF PageInv, Told, RefreshFails, ShowRefreshed, RefreshList
<1>2. "sample" \in DOMAIN page' /\ page'.sample \in BOOLEAN
  BY DEF PageInv, RefreshFails, ShowRefreshed, RefreshList
<1>3. ASSUME NEW status \in Lists, RefreshList(c, status) PROVE PageInv'
  <2> DEFINE q == [click[c] EXCEPT !.left = @ \ {status}, !.read = @ \cup ReadList(status)]
  <2>1. ReadList(status) \subseteq ListedRow
    BY DEF ReadList, ListedRow, Shown
  <2>2. q \in ClickRecord /\ q.at = "refresh" /\ q.wrote = 1
    BY <1>1, <2>1 DEF ClickRecord
  <2>3. click' = [click EXCEPT ![c] = q]
    BY <1>3 DEF RefreshList
  <2> HIDE DEF q
  <2>4. Told(q)
    BY <2>2 DEF Told
  <2>5. QED
    BY <1>2, <2>2, <2>3, <2>4, ClickStep
<1>4. CASE RefreshFails(c)
  <2> DEFINE q == [click[c] EXCEPT !.at = "done", !.left = {}, !.read = {}]
  <2>1. q \in ClickRecord /\ q.at = "done" /\ q.wrote = 1
    BY <1>1 DEF ClickRecord, ClickAt
  <2>2. click' = [click EXCEPT ![c] = q]
    BY <1>4 DEF RefreshFails
  <2> HIDE DEF q
  <2>3. Told(q)
    BY <2>1 DEF Told
  <2>4. QED
    BY <1>2, <2>1, <2>2, <2>3, ClickStep
<1>5. CASE ShowRefreshed(c)
  <2> DEFINE q == [click[c] EXCEPT !.at = "done", !.read = {}]
  <2>1. q \in ClickRecord /\ q.at = "done" /\ q.wrote = 1
    BY <1>1 DEF ClickRecord, ClickAt
  <2>2. click' = [click EXCEPT ![c] = q]
    BY <1>5 DEF ShowRefreshed
  <2> HIDE DEF q
  <2>3. Told(q)
    BY <2>1 DEF Told
  <2>4. QED
    BY <1>2, <2>1, <2>2, <2>3, ClickStep
<1>6. QED
  BY <1>3, <1>4, <1>5

LEMMA PageInvNext == PageInv /\ [PageNext]_PageVars => PageInv'
<1> SUFFICES ASSUME PageInv, [PageNext]_PageVars PROVE PageInv'
  OBVIOUS
<1>1. CASE UNCHANGED <<page, click>>
  BY <1>1 DEF PageInv
<1>2. CASE Connect
  <2>1. click' = click /\ "sample" \in DOMAIN page' /\ page'.sample = page.sample
    BY <1>2 DEF Connect, PageInv
  <2>2. QED
    BY <2>1 DEF PageInv
<1>3. CASE ShowLoaded
  <2>1. click' = click /\ "sample" \in DOMAIN page' /\ page'.sample = FALSE
    BY <1>3 DEF ShowLoaded, PageInv
  <2>2. QED
    BY <2>1 DEF PageInv
<1>4. ASSUME NEW p \in Pings, PingAnswered(p) PROVE PageInv'
  <2>1. click' = click /\ "sample" \in DOMAIN page' /\ page'.sample = page.sample
    BY <1>4 DEF PingAnswered, PageInv
  <2>2. QED
    BY <2>1 DEF PageInv
<1>5. ASSUME NEW status \in Lists, LoadList(status) PROVE PageInv'
  BY <1>1, <1>5 DEF LoadList
<1>6. ASSUME NEW p \in Pings, Ping(p) PROVE PageInv'
  BY <1>1, <1>6 DEF Ping
<1>7. CASE UNCHANGED PageVars
  BY <1>1, <1>7 DEF PageVars
<1>8. QED
  BY <1>2, <1>3, <1>4, <1>5, <1>6, <1>7, MakePreserves, ServePreserves, AnswerPreserves,
     TimeOutPreserves, RefreshPreserves DEF PageNext

(* Whatever times out and whatever the lists show: a click that was told   *)
(* it is done has written one row, and a lost answer never two.            *)
THEOREM ClicksAreToldTheTruth == PageSpec => []ToldIsDone
<1>1. PageInv => ToldIsDone
  BY DEF PageInv, ToldIsDone, Told, ClickRecord
<1>2. QED
  BY <1>1, PageInvInit, PageInvNext, PTL DEF PageSpec

=============================================================================
