------------------------ MODULE PostmarketBatch_proofs ------------------------
(***************************************************************************)
(* Theorems about PostmarketBatch, for any number of overlapping jobs,     *)
(* stocks, exceptions and failed flushes.                                  *)
(***************************************************************************)
EXTENDS PostmarketBatch, WellFoundedInduction, TLAPS

(* The least of a set of numbers is one of them.                           *)
LEMMA FirstIsLeast ==
  ASSUME NEW S, S \subseteq Nat, S # {}
  PROVE  First(S) \in S /\ \A u \in S : First(S) <= u
<1> DEFINE R == {ss \in Nat \X Nat : ss[1] < ss[2]}
<1>1. IsWellFoundedOn(R, Nat)
  BY NatLessThanWellFounded, Zenon DEF OpToRel
<1>2. PICK x \in S : \A y \in S : ~ (<<y, x>> \in R)
  <2> HIDE DEF R
  <2> QED
    BY <1>1, WFMin
<1>3. ASSUME NEW y \in S PROVE x <= y
  <2>1. x \in Nat /\ y \in Nat /\ ~ (<<y, x>> \in R)
    BY <1>2
  <2>2. y < x => <<y, x>> \in R
    BY <2>1
  <2> QED
    BY <2>1, <2>2
<1> QED
  BY <1>3 DEF First

-----------------------------------------------------------------------------
\* Job rec is where its sets say, and the tables hold what it relies on.
JobOK(rec, sig) ==
  /\ \A s \in rec.saved : sig[s] > 0
  /\ rec.pc = "off" => rec.at = 1 /\ rec.batch = {} /\ rec.saved = {} /\ rec.failed = {}
  /\ rec.pc = "analyze" =>
       /\ rec.saved = {} /\ rec.batch \cap rec.failed = {}
       /\ \A t \in rec.batch \cup rec.failed : t < rec.at
  /\ rec.pc \in Writing =>
       /\ rec.at \in rec.batch
       /\ \A t \in rec.batch : t < rec.at <=> t \in rec.saved \cup rec.failed
  /\ rec.pc \in {"check", "done"} => rec.batch \subseteq rec.saved \cup rec.failed
  /\ (rec.pc \in {"look_run", "save_run", "memory", "review"} \/ (rec.pc = "save" /\ rec.seen))
       => sig[rec.at] > 0

BatchInv ==
  /\ TypeOK
  /\ \A j \in Jobs : JobOK(job[j], signals)
  /\ SignalComesFirst /\ OneRunPerDay

LEMMA StockFacts == 1 \in Stocks /\ N \in Stocks /\ Stocks \subseteq Nat
                    /\ \A s \in Stocks : 1 <= s /\ s <= N
BY StocksAssumption DEF Stocks

(* Past stock s, the loop is at the next stock of the batch or at its end. *)
LEMMA ToNextIsOK ==
  ASSUME NEW rec \in JobType, NEW sig \in [Stocks -> Nat], NEW s \in 0 .. N,
         \A t \in rec.saved : sig[t] > 0,
         \A t \in rec.batch : t <= s <=> t \in rec.saved \cup rec.failed
  PROVE  ToNext(rec, s) \in JobType /\ JobOK(ToNext(rec, s), sig)
<1>0. rec.batch \subseteq Stocks /\ s \in Nat
  BY StocksAssumption DEF JobType
<1>1. CASE After(rec.batch, s) = {}
  <2>1. ToNext(rec, s) = [rec EXCEPT !.pc = "check"]
    BY <1>1 DEF ToNext
  <2>2. ASSUME NEW t \in rec.batch PROVE t <= s
    <3>1. t \in Nat /\ s \in Nat /\ ~ (t > s)
      BY <1>0, <1>1, StockFacts DEF After
    <3> QED
      BY <3>1
  <2>3. [rec EXCEPT !.pc = "check"] \in JobType
    BY DEF JobType, Phases
  <2> QED
    BY <2>1, <2>2, <2>3 DEF JobType, JobOK, Writing
<1>2. CASE After(rec.batch, s) # {}
  <2> DEFINE f == First(After(rec.batch, s))
  <2>1. ToNext(rec, s) = [rec EXCEPT !.pc = "look", !.at = f]
    BY <1>2 DEF ToNext
  <2>2. f \in After(rec.batch, s) /\ \A u \in After(rec.batch, s) : f <= u
    <3>1. After(rec.batch, s) \subseteq Nat
      BY <1>0, StockFacts DEF After
    <3> QED
      BY <3>1, <1>2, FirstIsLeast
  <2>3. f \in rec.batch /\ f \in Stocks /\ f > s
    BY <2>2, <1>0 DEF After
  <2> HIDE DEF f
  <2>4. ASSUME NEW t \in rec.batch PROVE t < f <=> t <= s
    <3>1. t \in Nat /\ s \in Nat /\ f \in Nat
      BY <1>0, <2>3, StockFacts
    <3>2. t > s => f <= t
      BY <2>2 DEF After
    <3> QED
      BY <3>1, <3>2, <2>3
  <2>5. [rec EXCEPT !.pc = "look", !.at = f] \in JobType
    BY <2>3 DEF JobType, Phases, Writing
  <2> QED
    BY <2>1, <2>3, <2>4, <2>5 DEF JobType, JobOK, Writing
<1> QED
  BY <1>1, <1>2

\* A job that takes no step is well even when signals are added.
LEMMA JobStaysOK ==
  ASSUME NEW rec \in JobType, NEW sig \in [Stocks -> Nat], NEW new \in [Stocks -> Nat],
         \A s \in Stocks : new[s] >= sig[s], JobOK(rec, sig)
  PROVE  JobOK(rec, new)
BY DEF JobOK, JobType

LEMMA OneJobSteps ==
  ASSUME BatchInv, NEW j \in Jobs, NEW rec \in JobType,
         job' = [job EXCEPT ![j] = rec],
         signals' \in [Stocks -> Nat], \A s \in Stocks : signals'[s] >= signals[s],
         JobOK(rec, signals')
  PROVE  job' \in [Jobs -> JobType] /\ \A k \in Jobs : JobOK(job[k], signals)'
<1>1. job \in [Jobs -> JobType] /\ signals \in [Stocks -> Nat]
  BY DEF BatchInv, TypeOK
<1>2. ASSUME NEW k \in Jobs PROVE JobOK(job'[k], signals')
  <2>1. CASE k = j
    BY <1>1, <2>1
  <2>2. CASE k # j
    <3>1. job'[k] = job[k] /\ job[k] \in JobType /\ JobOK(job[k], signals)
      BY <1>1, <2>2 DEF BatchInv
    <3> QED
      BY <3>1, <1>1, JobStaysOK
  <2> QED
    BY <2>1, <2>2
<1> QED
  BY <1>1, <1>2

\* A step that leaves the tables alone, by one job.
LEMMA QuietStep ==
  ASSUME BatchInv, NEW j \in Jobs, NEW rec \in JobType,
         job' = [job EXCEPT ![j] = rec], JobOK(rec, signals),
         UNCHANGED <<signals, runs, alerted>>,
         faults' \in 0 .. MaxFaults, flushes' \in 0 .. MaxFlush
  PROVE  BatchInv'
<1>1. signals' \in [Stocks -> Nat] /\ \A s \in Stocks : signals'[s] >= signals[s]
  BY DEF BatchInv, TypeOK
<1>2. job' \in [Jobs -> JobType] /\ \A k \in Jobs : JobOK(job[k], signals)'
  BY <1>1, OneJobSteps
<1>3. TypeOK'
  BY <1>2 DEF BatchInv, TypeOK
<1>4. SignalComesFirst' /\ OneRunPerDay'
  BY DEF BatchInv, SignalComesFirst, OneRunPerDay
<1> QED
  BY <1>2, <1>3, <1>4 DEF BatchInv

-----------------------------------------------------------------------------
LEMMA InitIsOK == Init => BatchInv
<1> SUFFICES ASSUME Init PROVE BatchInv
  OBVIOUS
<1>1. Idle \in JobType /\ JobOK(Idle, signals)
  BY StockFacts DEF Idle, JobType, JobOK, Phases, Writing
<1>2. TypeOK
  BY <1>1, BoundsAssumption DEF Init, TypeOK
<1> QED
  BY <1>1, <1>2 DEF Init, BatchInv, SignalComesFirst, OneRunPerDay

\* What is known of a job that takes a step.
LEMMA StepFacts ==
  ASSUME BatchInv, NEW j \in Jobs
  PROVE  /\ job[j] \in JobType /\ JobOK(job[j], signals)
         /\ job \in [Jobs -> JobType]
         /\ signals \in [Stocks -> Nat] /\ runs \in [Stocks -> Nat]
         /\ faults \in 0 .. MaxFaults /\ flushes \in 0 .. MaxFlush
BY DEF BatchInv, TypeOK

LEMMA StartKeeps ==
  ASSUME BatchInv, NEW j \in Jobs, Start(j)
  PROVE  BatchInv'
<1> DEFINE rec == [job[j] EXCEPT !.pc = "analyze"]
<1>1. job' = [job EXCEPT ![j] = rec]
  BY StepFacts DEF Start, Goto
<1>2. rec \in JobType /\ JobOK(rec, signals)
  BY StepFacts DEF Start, JobType, JobOK, Phases, Writing
<1> HIDE DEF rec
<1> QED
  BY <1>1, <1>2, QuietStep, StepFacts DEF Start, tables, budget

LEMMA CheckKeeps ==
  ASSUME BatchInv, NEW j \in Jobs, Check(j)
  PROVE  BatchInv'
<1> DEFINE rec == [job[j] EXCEPT !.pc = "done"]
<1>1. job' = [job EXCEPT ![j] = rec]
  BY StepFacts DEF Check, Goto
<1>2. rec \in JobType /\ JobOK(rec, signals)
  BY StepFacts DEF Check, JobType, JobOK, Phases, Writing
<1> HIDE DEF rec
<1> QED
  BY <1>1, <1>2, QuietStep, StepFacts DEF Check, tables, budget

LEMMA AnalyzeKeeps ==
  ASSUME BatchInv, NEW j \in Jobs, NEW s \in Stocks,
         NEW o \in {"ready", "skipped", "raises"}, Analyze(j, s, o)
  PROVE  BatchInv'
<1>1. PICK rec :
        /\ rec \in {job[j], [job[j] EXCEPT !.batch = @ \cup {s}],
                    [job[j] EXCEPT !.failed = @ \cup {s}]}
        /\ job' = [job EXCEPT ![j] = IF s = N THEN ToNext(rec, 0) ELSE [rec EXCEPT !.at = s + 1]]
  BY DEF Analyze
<1>2. /\ rec \in JobType /\ rec.pc = "analyze" /\ rec.at = s /\ rec.saved = {}
      /\ rec.batch \cap rec.failed = {} /\ \A t \in rec.batch \cup rec.failed : t <= s
  <2>1. /\ job[j] \in JobType /\ job[j].pc = "analyze" /\ job[j].at = s
        /\ job[j].saved = {} /\ job[j].batch \cap job[j].failed = {}
        /\ \A t \in job[j].batch \cup job[j].failed : t < s
    BY StepFacts DEF Analyze, At, JobOK
  <2>2. \A t \in Stocks : t < s => t <= s
    BY StockFacts
  <2>3. s \notin job[j].batch /\ s \notin job[j].failed /\ s <= s
    BY <2>1, StockFacts
  <2> QED
    BY <1>1, <2>1, <2>2, <2>3 DEF JobType
<1>3. \E new \in JobType : job' = [job EXCEPT ![j] = new] /\ JobOK(new, signals)
  <2>1. CASE s = N
    <3>1. \A t \in rec.batch : t <= 0 <=> t \in rec.saved \cup rec.failed
      BY <1>2, StockFacts DEF JobType
    <3>2. 0 \in 0 .. N
      BY StocksAssumption
    <3> QED
      BY <1>1, <1>2, <2>1, <3>1, <3>2, ToNextIsOK, StepFacts
  <2>2. CASE s # N
    <3>1. s + 1 \in Stocks /\ \A t \in Stocks : t <= s => t < s + 1
      BY <2>2, StocksAssumption DEF Stocks
    <3>2. [rec EXCEPT !.at = s + 1] \in JobType
      BY <1>2, <3>1 DEF JobType
    <3>3. \A t \in rec.batch \cup rec.failed : t < s + 1
      BY <1>2, <3>1 DEF JobType
    <3>4. JobOK([rec EXCEPT !.at = s + 1], signals)
      BY <1>2, <3>3 DEF JobType, JobOK, Writing
    <3> QED
      BY <1>1, <2>2, <3>2, <3>4
  <2> QED
    BY <2>1, <2>2
<1> QED
  BY <1>3, QuietStep, StepFacts DEF Analyze, tables, budget

\* A step inside the writing of one stock, to phase pc and local value seen.
LEMMA WritingStep ==
  ASSUME BatchInv, NEW j \in Jobs, NEW pc \in Writing, NEW seen \in BOOLEAN,
         job[j].pc \in Writing, NEW new \in [Stocks -> Nat],
         \A s \in Stocks : new[s] >= signals[s],
         (pc \notin {"look", "save"} \/ (pc = "save" /\ seen)) => new[job[j].at] > 0
  PROVE  /\ [job[j] EXCEPT !.pc = pc, !.seen = seen] \in JobType
         /\ JobOK([job[j] EXCEPT !.pc = pc, !.seen = seen], new)
<1>1. job[j] \in JobType /\ JobOK(job[j], new)
  BY StepFacts, JobStaysOK
<1>2. [job[j] EXCEPT !.pc = pc, !.seen = seen] \in JobType
  BY <1>1 DEF JobType, Phases
<1> QED
  BY <1>1, <1>2 DEF JobOK, JobType, Writing

\* A job changes its pc and its seen.
Moves(j, pc, seen) == job' = [job EXCEPT ![j] = [job[j] EXCEPT !.pc = pc, !.seen = seen]]

LEMMA GotoMoves ==
  ASSUME BatchInv, NEW j \in Jobs, NEW pc, Goto(j, pc)
  PROVE  Moves(j, pc, job[j].seen)
BY StepFacts DEF Goto, Moves, JobType

LEMMA LookKeeps ==
  ASSUME BatchInv, NEW j \in Jobs, NEW s \in Stocks, Look(j, s)
  PROVE  BatchInv'
<1>1. Moves(j, "save", signals[s] > 0) /\ job[j].at = s /\ job[j].pc = "look"
  BY StepFacts DEF Look, At, Moves, JobType
<1>2. (signals[s] > 0) \in BOOLEAN /\ \A t \in Stocks : signals[t] >= signals[t]
  BY StepFacts
<1> DEFINE rec == [job[j] EXCEPT !.pc = "save", !.seen = signals[s] > 0]
<1>3. rec \in JobType /\ JobOK(rec, signals)
  BY <1>1, <1>2, StepFacts, WritingStep DEF Writing
<1>4. job' = [job EXCEPT ![j] = rec]
  BY <1>1 DEF Moves
<1> HIDE DEF rec
<1> QED
  BY <1>3, <1>4, QuietStep, StepFacts DEF Look, tables, budget

LEMMA LookRunKeeps ==
  ASSUME BatchInv, NEW j \in Jobs, NEW s \in Stocks, LookRun(j, s)
  PROVE  BatchInv'
<1>1. Moves(j, "save_run", runs[s] > 0) /\ job[j].at = s /\ job[j].pc = "look_run"
  BY StepFacts DEF LookRun, At, Moves, JobType
<1>2. /\ (runs[s] > 0) \in BOOLEAN /\ \A t \in Stocks : signals[t] >= signals[t]
      /\ signals[job[j].at] > 0
  BY <1>1, StepFacts DEF JobOK
<1> DEFINE rec == [job[j] EXCEPT !.pc = "save_run", !.seen = runs[s] > 0]
<1>3. rec \in JobType /\ JobOK(rec, signals)
  BY <1>1, <1>2, StepFacts, WritingStep DEF Writing
<1>4. job' = [job EXCEPT ![j] = rec]
  BY <1>1 DEF Moves
<1> HIDE DEF rec
<1> QED
  BY <1>3, <1>4, QuietStep, StepFacts DEF LookRun, tables, budget

\* A job that has its signal goes on to pc and leaves the signals alone.
LEMMA GoesOn ==
  ASSUME BatchInv, NEW j \in Jobs, NEW pc \in Writing, Goto(j, pc),
         job[j].pc \in {"look_run", "save_run", "memory", "review"}
  PROVE  \E rec \in JobType : job' = [job EXCEPT ![j] = rec] /\ JobOK(rec, signals)
<1>1. job[j].seen \in BOOLEAN /\ signals[job[j].at] > 0 /\ job[j].pc \in Writing
      /\ \A t \in Stocks : signals[t] >= signals[t]
  BY StepFacts DEF JobType, JobOK, Writing
<1> DEFINE rec == [job[j] EXCEPT !.pc = pc, !.seen = job[j].seen]
<1>2. rec \in JobType /\ JobOK(rec, signals)
  BY <1>1, StepFacts, WritingStep
<1>3. job' = [job EXCEPT ![j] = rec]
  BY GotoMoves DEF Moves
<1> HIDE DEF rec
<1> QED
  BY <1>2, <1>3

LEMMA MemoryKeeps ==
  ASSUME BatchInv, NEW j \in Jobs, NEW s \in Stocks, Memory(j, s)
  PROVE  BatchInv'
<1>1. \E rec \in JobType : job' = [job EXCEPT ![j] = rec] /\ JobOK(rec, signals)
  BY GoesOn DEF Memory, At, Writing
<1> QED
  BY <1>1, QuietStep, StepFacts DEF Memory, tables, budget

LEMMA SaveKeeps ==
  ASSUME BatchInv, NEW j \in Jobs, NEW s \in Stocks, Save(j, s)
  PROVE  BatchInv'
<1>1. job[j].pc = "save" /\ job[j].at = s /\ job[j].seen \in BOOLEAN
  BY StepFacts DEF Save, At, JobType
<1>2. /\ signals' \in [Stocks -> Nat] /\ signals'[s] > 0
      /\ \A t \in Stocks : signals'[t] >= signals[t]
  <2>1. job[j].seen => signals[s] > 0
    BY <1>1, StepFacts DEF JobOK
  <2>2. Upserted(job[j].seen, signals[s]) \in Nat /\ Upserted(job[j].seen, signals[s]) > 0
        /\ Upserted(job[j].seen, signals[s]) >= signals[s]
    BY <1>1, <2>1, StepFacts DEF Upserted
  <2> QED
    BY <2>2, StepFacts DEF Save
<1> DEFINE rec == [job[j] EXCEPT !.pc = "look_run", !.seen = job[j].seen]
<1>3. rec \in JobType /\ JobOK(rec, signals')
  BY <1>1, <1>2, WritingStep DEF Writing
<1>4. job' = [job EXCEPT ![j] = rec]
  BY GotoMoves DEF Moves, Save
<1> HIDE DEF rec
<1>5. job' \in [Jobs -> JobType] /\ \A k \in Jobs : JobOK(job[k], signals)'
  BY <1>2, <1>3, <1>4, OneJobSteps
<1>6. TypeOK'
  BY <1>2, <1>5 DEF BatchInv, TypeOK, Save, budget
<1>7. SignalComesFirst' /\ OneRunPerDay'
  BY <1>2, StepFacts DEF BatchInv, SignalComesFirst, OneRunPerDay, Save
<1> QED
  BY <1>5, <1>6, <1>7 DEF BatchInv

LEMMA BrokenIsOK ==
  ASSUME BatchInv, NEW j \in Jobs, NEW what \in {"signal", "run", "review"}
  PROVE  Broken(job[j], what) \in JobType /\ JobOK(Broken(job[j], what), signals)
BY StepFacts DEF Broken, JobType, JobOK, Phases, Writing

LEMMA SaveRunKeeps ==
  ASSUME BatchInv, NEW j \in Jobs, NEW s \in Stocks, SaveRun(j, s)
  PROVE  BatchInv'
<1>1. job[j].pc = "save_run" /\ job[j].at = s /\ job[j].seen \in BOOLEAN /\ signals[s] > 0
  BY StepFacts DEF SaveRun, At, JobType, JobOK
<1>2. CASE Conflict(job[j].seen, runs[s])
  <2>1. job' = [job EXCEPT ![j] = Broken(job[j], "run")] /\ UNCHANGED runs
    BY <1>2, StepFacts DEF SaveRun
  <2> QED
    BY <2>1, BrokenIsOK, QuietStep, StepFacts DEF SaveRun, budget
<1>3. CASE ~ Conflict(job[j].seen, runs[s])
  <2>1. \E rec \in JobType : job' = [job EXCEPT ![j] = rec] /\ JobOK(rec, signals)
    BY <1>1, <1>3, GoesOn DEF SaveRun, Writing
  <2>2. /\ runs' \in [Stocks -> Nat] /\ runs'[s] <= 1
        /\ \A t \in Stocks : t # s => runs'[t] = runs[t]
    <3>1. ~ job[j].seen => runs[s] = 0
      BY <1>3, StepFacts DEF Conflict
    <3>2. runs[s] <= 1
      BY DEF BatchInv, OneRunPerDay
    <3>3. runs' = [runs EXCEPT ![s] = IF job[j].seen THEN runs[s] ELSE runs[s] + 1]
      BY <1>3, StepFacts DEF SaveRun
    <3> QED
      BY <3>1, <3>2, <3>3, <1>1, StepFacts
  <2>3. signals' = signals /\ \A t \in Stocks : signals'[t] >= signals[t]
    BY StepFacts DEF SaveRun
  <2>4. job' \in [Jobs -> JobType] /\ \A k \in Jobs : JobOK(job[k], signals)'
    BY <2>1, <2>3, StepFacts, OneJobSteps
  <2>5. TypeOK'
    BY <2>2, <2>4 DEF BatchInv, TypeOK, SaveRun, budget
  <2>6. SignalComesFirst'
    BY <1>1, <2>2, <2>3 DEF BatchInv, SignalComesFirst, SaveRun
  <2>7. OneRunPerDay'
    BY <2>2 DEF BatchInv, OneRunPerDay
  <2> QED
    BY <2>4, <2>5, <2>6, <2>7 DEF BatchInv
<1> QED
  BY <1>2, <1>3

\* The stock being written is counted as saved or as failed: the job goes on.
LEMMA CountedIsOK ==
  ASSUME BatchInv, NEW j \in Jobs, NEW s \in Stocks, job[j].at = s, job[j].pc \in Writing,
         NEW rec,
         \/ rec = [job[j] EXCEPT !.saved = @ \cup {s}] /\ signals[s] > 0
         \/ rec = [job[j] EXCEPT !.failed = @ \cup {s}]
         \/ rec = [job[j] EXCEPT !.saved = @ \cup {s}, !.failed = @ \cup {s}] /\ signals[s] > 0
  PROVE  ToNext(rec, s) \in JobType /\ JobOK(ToNext(rec, s), signals)
<1>1. /\ job[j] \in JobType /\ s \in job[j].batch
      /\ \A t \in job[j].saved : signals[t] > 0
      /\ \A t \in job[j].batch : t < s <=> t \in job[j].saved \cup job[j].failed
  BY StepFacts DEF JobOK
<1>3. /\ rec \in JobType /\ rec.batch = job[j].batch
      /\ rec.saved \cup rec.failed = job[j].saved \cup job[j].failed \cup {s}
      /\ \A t \in rec.saved : signals[t] > 0
  <2>1. CASE rec = [job[j] EXCEPT !.saved = @ \cup {s}] /\ signals[s] > 0
    BY <1>1, <2>1 DEF JobType
  <2>2. CASE rec = [job[j] EXCEPT !.failed = @ \cup {s}]
    BY <1>1, <2>2 DEF JobType
  <2>3. CASE rec = [job[j] EXCEPT !.saved = @ \cup {s}, !.failed = @ \cup {s}] /\ signals[s] > 0
    <3> DEFINE one == [job[j] EXCEPT !.saved = @ \cup {s}]
    <3>1. one \in JobType /\ one.saved = job[j].saved \cup {s} /\ one.batch = job[j].batch
          /\ one.failed = job[j].failed
      BY <1>1 DEF JobType
    <3>2. rec = [one EXCEPT !.failed = @ \cup {s}]
      BY <1>1, <2>3 DEF JobType
    <3> HIDE DEF one
    <3> QED
      BY <1>1, <2>3, <3>1, <3>2 DEF JobType
  <2> QED
    BY <2>1, <2>2, <2>3
<1>5. ASSUME NEW t \in rec.batch PROVE t <= s <=> t \in rec.saved \cup rec.failed
  <2>1. t \in Nat /\ s \in Nat
    BY <1>3, StockFacts DEF JobType
  <2>2. t <= s <=> (t < s \/ t = s)
    BY <2>1
  <2> QED
    BY <2>2, <1>1, <1>3
<1>6. s \in 0 .. N
  BY StockFacts
<1> QED
  BY <1>3, <1>5, <1>6, StepFacts, ToNextIsOK

LEMMA ReviewKeeps ==
  ASSUME BatchInv, NEW j \in Jobs, NEW s \in Stocks, Review(j, s)
  PROVE  BatchInv'
<1>1. job[j].pc = "review" /\ job[j].at = s /\ signals[s] > 0
  BY StepFacts DEF Review, At, JobOK
<1> DEFINE rec == ToNext([job[j] EXCEPT !.saved = @ \cup {s}], s)
<1>2. rec \in JobType /\ JobOK(rec, signals)
  BY <1>1, CountedIsOK DEF Writing
<1>3. job' = [job EXCEPT ![j] = rec]
  BY StepFacts DEF Review, Saved
<1> HIDE DEF rec
<1>4. signals' = signals /\ runs' = runs /\ alerted' \in {alerted, alerted \cup {s}}
      /\ UNCHANGED <<faults, flushes>> /\ \A t \in Stocks : signals'[t] >= signals[t]
  BY StepFacts DEF Review, tables, budget
<1>5. job' \in [Jobs -> JobType] /\ \A k \in Jobs : JobOK(job[k], signals)'
  BY <1>2, <1>3, <1>4, StepFacts, OneJobSteps
<1>6. TypeOK'
  BY <1>4, <1>5 DEF BatchInv, TypeOK
<1>7. SignalComesFirst' /\ OneRunPerDay'
  BY <1>1, <1>4 DEF BatchInv, SignalComesFirst, OneRunPerDay
<1> QED
  BY <1>5, <1>6, <1>7 DEF BatchInv

LEMMA FaultKeeps ==
  ASSUME BatchInv, NEW j \in Jobs, NEW s \in Stocks, Fault(j, s)
  PROVE  BatchInv'
<1>1. /\ UNCHANGED <<signals, runs, alerted>>
      /\ faults' \in 0 .. MaxFaults /\ flushes' \in 0 .. MaxFlush
  BY StepFacts, BoundsAssumption DEF Fault, StockRaises, RunRaises, AlertRaises, tables
<1>2. CASE StockRaises(j, s)
  <2> DEFINE rec == ToNext([job[j] EXCEPT !.failed = @ \cup {s}], s)
  <2>1. job[j].at = s /\ job[j].pc \in Writing
    BY <1>2 DEF StockRaises, At, Writing
  <2>2. rec \in JobType /\ JobOK(rec, signals)
    BY <2>1, CountedIsOK
  <2>3. job' = [job EXCEPT ![j] = rec]
    BY <1>2, StepFacts DEF StockRaises, Failed
  <2> HIDE DEF rec
  <2> QED
    BY <1>1, <2>2, <2>3, QuietStep
<1>3. CASE RunRaises(j, s)
  <2>1. \E rec \in JobType : job' = [job EXCEPT ![j] = rec] /\ JobOK(rec, signals)
    BY <1>3, GoesOn DEF RunRaises, At, Writing
  <2> QED
    BY <1>1, <2>1, QuietStep
<1>4. CASE AlertRaises(j, s)
  <2> DEFINE counted == [job[j] EXCEPT !.saved = @ \cup {s}]
             both == [job[j] EXCEPT !.saved = @ \cup {s}, !.failed = @ \cup {s}]
             rec == ToNext(both, s)
  <2>1. job[j].at = s /\ job[j].pc \in Writing /\ signals[s] > 0
    BY <1>4, StepFacts DEF AlertRaises, At, JobOK, Writing
  <2>2. rec \in JobType /\ JobOK(rec, signals)
    BY <2>1, CountedIsOK
  <2>3. [counted EXCEPT !.failed = @ \cup {s}] = both
    BY StepFacts DEF JobType
  <2>4. job' = [job EXCEPT ![j] = rec]
    BY <1>4, <2>3 DEF AlertRaises, Failed
  <2> HIDE DEF rec
  <2> QED
    BY <1>1, <2>2, <2>4, QuietStep
<1> QED
  BY <1>2, <1>3, <1>4 DEF Fault

LEMMA FlushFailsKeeps ==
  ASSUME BatchInv, NEW j \in Jobs, NEW s \in Stocks, FlushFails(j, s)
  PROVE  BatchInv'
<1>1. /\ UNCHANGED <<signals, runs, alerted>>
      /\ faults' \in 0 .. MaxFaults /\ flushes' \in 0 .. MaxFlush
  BY StepFacts, BoundsAssumption DEF FlushFails, tables
<1>2. PICK pc \in {"save", "save_run", "review"} :
        job' = [job EXCEPT ![j] =
          Broken(@, CASE pc = "save" -> "signal" [] pc = "save_run" -> "run"
                      [] pc = "review" -> "review")]
  BY DEF FlushFails
<1>3. \E what \in {"signal", "run", "review"} : job' = [job EXCEPT ![j] = Broken(job[j], what)]
  BY <1>2, StepFacts
<1> QED
  BY <1>1, <1>3, BrokenIsOK, QuietStep

LEMMA NothingKeeps ==
  ASSUME BatchInv, UNCHANGED bvars
  PROVE  BatchInv'
BY DEF bvars, BatchInv, TypeOK, SignalComesFirst, OneRunPerDay

(* BatchInv is inductive.                                                  *)
LEMMA NextKeeps ==
  ASSUME BatchInv, [Next]_bvars
  PROVE  BatchInv'
<1>1. CASE UNCHANGED bvars
  BY <1>1, NothingKeeps
<1>2. CASE AllEnded
  <2>1. UNCHANGED bvars
    BY <1>2 DEF AllEnded, bvars, tables, budget
  <2> QED
    BY <2>1, NothingKeeps
<1>3. ASSUME NEW j \in Jobs, Start(j) \/ Check(j) PROVE BatchInv'
  BY <1>3, StartKeeps, CheckKeeps
<1>4. ASSUME NEW j \in Jobs, NEW s \in Stocks, Work(j, s) PROVE BatchInv'
  <2>1. CASE \E o \in {"ready", "skipped", "raises"} : Analyze(j, s, o)
    BY <2>1, AnalyzeKeeps
  <2>2. CASE Look(j, s) \/ Save(j, s)
    BY <2>2, LookKeeps, SaveKeeps
  <2>3. CASE LookRun(j, s) \/ SaveRun(j, s)
    BY <2>3, LookRunKeeps, SaveRunKeeps
  <2>4. CASE Memory(j, s) \/ Review(j, s)
    BY <2>4, MemoryKeeps, ReviewKeeps
  <2> QED
    BY <1>4, <2>1, <2>2, <2>3, <2>4 DEF Work
<1>5. ASSUME NEW j \in Jobs, NEW s \in Stocks, Fault(j, s) \/ FlushFails(j, s)
      PROVE  BatchInv'
  BY <1>5, FaultKeeps, FlushFailsKeeps
<1> QED
  BY <1>1, <1>2, <1>3, <1>4, <1>5 DEF Next

-----------------------------------------------------------------------------
(* The jobs stay where their sets and the tables say they are.             *)
THEOREM BatchInvariant == Spec => []BatchInv
BY InitIsOK, NextKeeps, PTL DEF Spec

(* Whatever the jobs do, their records and the tables are well formed: the *)
(* second loop never leaves the stocks (run_postmarket_batch).             *)
THEOREM TypeCorrect == Spec => []TypeOK
<1>1. BatchInv => TypeOK
  BY DEF BatchInv
<1> QED
  BY <1>1, BatchInvariant, PTL

(* No run that replays a signal, and no alert, without the row of the      *)
(* signal (save_signal, _persist_postmarket_stock).                        *)
THEOREM SignalFirst == Spec => []SignalComesFirst
<1>1. BatchInv => SignalComesFirst
  BY DEF BatchInv
<1> QED
  BY <1>1, BatchInvariant, PTL

(* However many jobs overlap, a stock has one decision run a day           *)
(* (record_decision_run, the unique run_id).                               *)
THEOREM OneRun == Spec => []OneRunPerDay
<1>1. BatchInv => OneRunPerDay
  BY DEF BatchInv
<1> QED
  BY <1>1, BatchInvariant, PTL

(* A job that comes to the kill-switch checks has saved, or counted as     *)
(* failed, every stock of its batch (run_postmarket_batch).                *)
THEOREM NoStockIsForgotten == Spec => []EveryStockIsTreated
<1>1. BatchInv => EveryStockIsTreated
  BY DEF BatchInv, JobOK, EveryStockIsTreated
<1> QED
  BY <1>1, BatchInvariant, PTL

(* Whatever breaks off and however jobs overlap, a stock counted as saved  *)
(* has a signal (stats of run_postmarket_batch).                           *)
THEOREM CountsAreTrue == Spec => []SavedHasItsSignal
<1>1. BatchInv => SavedHasItsSignal
  BY DEF BatchInv, JobOK, SavedHasItsSignal
<1> QED
  BY <1>1, BatchInvariant, PTL
=============================================================================
