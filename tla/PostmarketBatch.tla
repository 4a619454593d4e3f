--------------------------- MODULE PostmarketBatch ---------------------------
(***************************************************************************)
(* jobs/postmarket.py, run_postmarket_batch: the daily job that analyses   *)
(* every stock and then writes, stock by stock, the signal, the decision   *)
(* run that replays it, the memory and the alert.  Two such jobs overlap   *)
(* when the cold start (POST /system/initialize) calls the job while the   *)
(* scheduler runs it.                                                      *)
(*                                                                         *)
(* A job has one database session.  A flush that fails leaves the session  *)
(* unusable until a rollback, which nothing here calls; the handlers that  *)
(* swallow the exception read stock.symbol, which the session must load    *)
(* again, so the exception leaves all of them and ends the job.            *)
(*                                                                         *)
(* Scores and sizes are left out: PortfolioManager models the allocation   *)
(* between the two loops, KillSwitch the checks at the end.                *)
(***************************************************************************)
EXTENDS Integers, FiniteSets

CONSTANTS
  Jobs,        \* runs of the job on one day
  N,           \* number of stocks, in the order of the query
  MaxFaults,   \* bound on the exceptions raised while one stock is written
  MaxFlush     \* bound on the flushes that fail (database is locked)

ASSUME StocksAssumption == N \in Nat \ {0}
ASSUME BoundsAssumption == MaxFaults \in Nat /\ MaxFlush \in Nat

VARIABLES
  job,         \* what each job is doing
  signals,     \* number of rows in table signals, per stock
  runs,        \* number of rows in table decision_runs, per stock
  alerted,     \* stocks that were pushed to the user
  faults, flushes

Stocks == 1 .. N
Writing == {"look", "save", "look_run", "save_run", "memory", "review"}
Phases == {"off", "analyze", "check", "done", "raised"} \cup Writing

Idle == [pc |-> "off", at |-> 1, batch |-> {}, saved |-> {}, failed |-> {},
         seen |-> FALSE, lost |-> "nothing"]

Init ==
  /\ job = [j \in Jobs |-> Idle]
  /\ signals = [s \in Stocks |-> 0]
  /\ runs = [s \in Stocks |-> 0]
  /\ alerted = {}
  /\ faults = 0 /\ flushes = 0

tables == <<signals, runs>>
budget == <<faults, flushes>>

\* Job j is at phase pc, with its stock s.
At(j, pc, s) == job[j].pc = pc /\ job[j].at = s
Goto(j, pc) == job' = [job EXCEPT ![j].pc = pc]

\* The stock of the second loop after s; past the last one come the checks.
After(batch, s) == {t \in batch : t > s}
First(S) == CHOOSE t \in S : \A u \in S : t <= u
ToNext(rec, s) ==
  IF After(rec.batch, s) = {} THEN [rec EXCEPT !.pc = "check"]
  ELSE [rec EXCEPT !.pc = "look", !.at = First(After(rec.batch, s))]

-----------------------------------------------------------------------------
(* The first loop.                                                         *)
Start(j) ==
  /\ job[j].pc = "off" /\ Goto(j, "analyze")
  /\ UNCHANGED <<tables, alerted, budget>>

\* A stock joins the batch, has too little data, or its analysis raises.
Analyze(j, s, outcome) ==
  /\ At(j, "analyze", s)
  /\ LET rec == CASE outcome = "ready"   -> [job[j] EXCEPT !.batch = @ \cup {s}]
                  [] outcome = "skipped" -> job[j]
                  [] outcome = "raises"  -> [job[j] EXCEPT !.failed = @ \cup {s}]
     IN job' = [job EXCEPT ![j] = IF s = N THEN ToNext(rec, 0) ELSE [rec EXCEPT !.at = s + 1]]
  /\ UNCHANGED <<tables, alerted, budget>>

-----------------------------------------------------------------------------
(* The second loop.                                                        *)

\* save_signal looks the row up, then writes it.
Look(j, s) ==
  /\ At(j, "look", s)
  /\ job' = [job EXCEPT ![j].pc = "save", ![j].seen = signals[s] > 0]
  /\ UNCHANGED <<tables, alerted, budget>>

\* Variant for mutation: nothing is committed for a new row.
Upserted_None(seen, rows) == rows
\* An update in place, or one more row: no constraint says otherwise.
Upserted(seen, rows) == IF seen THEN rows ELSE rows + 1

Save(j, s) ==
  /\ At(j, "save", s)
  /\ signals' = [signals EXCEPT ![s] = Upserted(job[j].seen, @)]
  /\ Goto(j, "look_run")
  /\ UNCHANGED <<runs, alerted, budget>>

LookRun(j, s) ==
  /\ At(j, "look_run", s)
  /\ job' = [job EXCEPT ![j].pc = "save_run", ![j].seen = runs[s] > 0]
  /\ UNCHANGED <<tables, alerted, budget>>

\* A failed flush of what: the job ends where it is.
Broken(rec, what) == [rec EXCEPT !.pc = "raised", !.lost = what]

\* run_id is unique: a run inserted since the look makes the flush fail.
Conflict(seen, rows) == ~seen /\ rows > 0

SaveRun(j, s) ==
  /\ At(j, "save_run", s)
  /\ IF Conflict(job[j].seen, runs[s])
     THEN job' = [job EXCEPT ![j] = Broken(@, "run")] /\ UNCHANGED runs
     ELSE Goto(j, "memory") /\ runs' = [runs EXCEPT ![s] = IF job[j].seen THEN @ ELSE @ + 1]
  /\ UNCHANGED <<signals, alerted, budget>>

\* save_decision and save_decision_layered write files and memory rows.
Memory(j, s) ==
  /\ At(j, "memory", s) /\ Goto(j, "review")
  /\ UNCHANGED <<tables, alerted, budget>>

\* The loop counts the stock and goes on.
Saved(rec, s) == ToNext([rec EXCEPT !.saved = @ \cup {s}], s)

\* review_latest_signal, then the count, then the alert that the
\* recommendation calls for.
Review(j, s) ==
  /\ At(j, "review", s)
  /\ job' = [job EXCEPT ![j] = Saved(@, s)]
  /\ alerted' \in {alerted, alerted \cup {s}}
  /\ UNCHANGED <<tables, budget>>

Check(j) ==
  /\ job[j].pc = "check" /\ Goto(j, "done")
  /\ UNCHANGED <<tables, alerted, budget>>

-----------------------------------------------------------------------------
(* Exceptions that leave the session usable.                               *)

\* Variant for mutation: the handler of the loop ends the batch.
Failed_Break(rec, s) == [rec EXCEPT !.failed = @ \cup {s}, !.pc = "check"]
\* The handler of the loop counts the stock and goes on.
Failed(rec, s) == ToNext([rec EXCEPT !.failed = @ \cup {s}], s)

StockRaises(j, s) ==
  /\ At(j, "save", s) \/ At(j, "memory", s)
  /\ job' = [job EXCEPT ![j] = Failed(@, s)]
  /\ UNCHANGED <<tables, alerted>>

\* The push of the alert raises, after the stock was counted as saved.
AlertRaises(j, s) ==
  /\ At(j, "review", s)
  /\ job' = [job EXCEPT ![j] = Failed([job[j] EXCEPT !.saved = @ \cup {s}], s)]
  /\ UNCHANGED <<tables, alerted>>

\* record_decision_run raises before it writes: save_signal swallows it.
RunRaises(j, s) ==
  /\ At(j, "save_run", s) /\ Goto(j, "memory")
  /\ UNCHANGED <<tables, alerted>>

Fault(j, s) ==
  /\ faults < MaxFaults /\ faults' = faults + 1
  /\ StockRaises(j, s) \/ RunRaises(j, s) \/ AlertRaises(j, s)
  /\ UNCHANGED flushes

\* A flush fails: of the signal, of the run or of the review.
FlushFails(j, s) ==
  /\ flushes < MaxFlush /\ flushes' = flushes + 1
  /\ \E pc \in {"save", "save_run", "review"} :
       /\ At(j, pc, s)
       /\ job' = [job EXCEPT ![j] =
            Broken(@, CASE pc = "save" -> "signal" [] pc = "save_run" -> "run"
                        [] pc = "review" -> "review")]
  /\ UNCHANGED <<tables, alerted, faults>>

-----------------------------------------------------------------------------
Work(j, s) ==
  \/ \E o \in {"ready", "skipped", "raises"} : Analyze(j, s, o)
  \/ Look(j, s) \/ Save(j, s) \/ LookRun(j, s) \/ SaveRun(j, s)
  \/ Memory(j, s) \/ Review(j, s)

Ended(j) == job[j].pc \in {"done", "raised"}
AllEnded == (\A j \in Jobs : Ended(j)) /\ UNCHANGED <<job, tables, alerted, budget>>

Next ==
  \/ \E j \in Jobs :
       \/ Start(j) \/ Check(j)
       \/ \E s \in Stocks : Work(j, s) \/ Fault(j, s) \/ FlushFails(j, s)
  \/ AllEnded

bvars == <<job, signals, runs, alerted, faults, flushes>>
Spec == Init /\ [][Next]_bvars

-----------------------------------------------------------------------------
JobType ==
  [pc : Phases, at : Stocks, batch : SUBSET Stocks, saved : SUBSET Stocks,
   failed : SUBSET Stocks, seen : BOOLEAN, lost : {"nothing", "signal", "run", "review"}]

(* The jobs, the tables and the bounds are well formed.                    *)
TypeOK ==
  /\ job \in [Jobs -> JobType]
  /\ signals \in [Stocks -> Nat] /\ runs \in [Stocks -> Nat]
  /\ alerted \in SUBSET Stocks
  /\ faults \in 0 .. MaxFaults /\ flushes \in 0 .. MaxFlush

(* What is told of a signal, the run that replays it and the alert to the  *)
(* user, follows the row of the signal (save_signal, then                  *)
(* record_decision_run; _persist_postmarket_stock, then the alert).        *)
SignalComesFirst == \A s \in Stocks : (runs[s] > 0 \/ s \in alerted) => signals[s] > 0

(* A day has one run of a stock, also when jobs overlap or the job is run  *)
(* again (record_decision_run, M17.2).                                     *)
OneRunPerDay == \A s \in Stocks : runs[s] <= 1

(* A job that comes to its checks has treated every stock of its batch: an *)
(* exception at one stock is not the end of the others                     *)
(* (run_postmarket_batch, the second loop).                                *)
EveryStockIsTreated ==
  \A j \in Jobs : job[j].pc \in {"check", "done"} =>
                    job[j].batch \subseteq job[j].saved \cup job[j].failed

(* A stock that a job counts as saved has its signal, also when a flush    *)
(* failed or an overlapping job wrote it (stats of run_postmarket_batch).  *)
SavedHasItsSignal ==
  \A j \in Jobs : \A s \in job[j].saved : signals[s] > 0

(* "Harness persistence is observability; a write failure must not block   *)
(* signals" (save_signal): when the write of a decision run was lost, the  *)
(* job still ends with a signal for each stock of its batch.               *)
HarnessDoesNotBlock ==
  \A j \in Jobs : (Ended(j) /\ job[j].lost = "run" /\ job[j].failed = {})
                    => \A s \in job[j].batch : signals[s] > 0
=============================================================================
