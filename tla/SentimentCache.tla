--------------------------- MODULE SentimentCache ---------------------------
(***************************************************************************)
(* analysis/sentiment.py, which asks a language model about the news of a  *)
(* stock behind a cache in the database, and the tools that fill it in     *)
(* advance: m27_sentiment_cache_batch_runner over                          *)
(* m27_sentiment_cache_backfill, with a manifest of each batch from which  *)
(* an operator can delete what it inserted.                                *)
(*                                                                         *)
(* A key stands for a stock and a list of titles.  What an answer says is  *)
(* left out: a row is known by who inserted it.  The cache of the process, *)
(* which decides only whether the table is read, is left out.  SQLite has  *)
(* one writer, a batch being one transaction from its first INSERT on.     *)
(***************************************************************************)
EXTENDS Naturals, FiniteSets, FiniteSetsExt

CONSTANTS
  KeyPlan,     \* the keys of the plan, in the order they are taken
  Runs,        \* executions of the batch runner
  Threads,     \* jobs of the service that analyse news
  BatchSize, MaxBatches, MaxCalls   \* the limits of a run

ASSUME LimitsAssumption ==
  /\ BatchSize \in Nat \ {0} /\ MaxBatches \in Nat \ {0}
  /\ MaxCalls \in Nat \ {0}
ASSUME PlanAssumption == DOMAIN KeyPlan \subseteq Nat
ASSUME NamesAssumption == Runs \cap {"none", "service"} = {}

VARIABLES
  cached,      \* table sentiment_cache: who inserted the row of a key
  holder,      \* the run whose transaction has the write lock
  manifest,    \* the rollback file of each batch of a run
  run,         \* what each run of the tool is at
  analysis     \* what each thread of the service is at

SentimentVars == <<cached, holder, manifest, run, analysis>>

Titles == {KeyPlan[i] : i \in DOMAIN KeyPlan}
NoRow == "none"
Free == "none"

NoFile == [state |-> "none", keys |-> {}]
NewRun == [at |-> "idle", batch |-> 0, calls |-> 0, todo |-> {}, wrote |-> {}]
NoAnalysis == [at |-> "idle", key |-> "none", exists |-> FALSE]

SentimentInit ==
  /\ cached \in [Titles -> {NoRow, "service"}]
  /\ holder = Free
  /\ manifest = [f \in Runs \X (1 .. MaxBatches) |-> NoFile]
  /\ run = [r \in Runs |-> NewRun]
  /\ analysis = [t \in Threads |-> NoAnalysis]

-----------------------------------------------------------------------------
(* The batch runner.                                                       *)

Least(a, b) == IF a < b THEN a ELSE b
BatchLimit(q) == Least(BatchSize, MaxCalls - q.calls)

\* The first keys of the plan that have no row yet, by their places in it.
Missing == {i \in DOMAIN KeyPlan : cached[KeyPlan[i]] = NoRow}
Selected(limit) == {i \in Missing : Cardinality({j \in Missing : j <= i}) <= limit}

\* run_backfill up to the first call.
StartBatch(r) ==
  /\ run[r].at = "idle"
  /\ LET todo == Selected(BatchLimit(run[r])) IN
       run' = [run EXCEPT ![r].batch = @ + 1, ![r].todo = todo, ![r].wrote = {},
                          ![r].at = IF todo = {} THEN "file" ELSE "ask"]
  /\ UNCHANGED <<cached, holder, manifest, analysis>>

\* The answer may be empty: its place is taken by a neutral one.
AskForKey(r) ==
  /\ run[r].at = "ask"
  /\ run' = [run EXCEPT ![r].at = "insert", ![r].calls = @ + 1]
  /\ UNCHANGED <<cached, holder, manifest, analysis>>

\* Variant for mutation: a key is listed whether its row was inserted or not.
Added_Asked(k) == {k}
\* INSERT OR IGNORE, and its row count.
Added(k) == IF cached[k] = NoRow THEN {k} ELSE {}

InsertKey(r) ==
  /\ run[r].at = "insert" /\ holder \in {Free, r}
  /\ holder' = r
  /\ LET i == Min(run[r].todo)
         todo == run[r].todo \ {i}
     IN  run' = [run EXCEPT ![r].todo = todo, ![r].wrote = @ \cup Added(KeyPlan[i]),
                            ![r].at = IF todo = {} THEN "commit" ELSE "ask"]
  /\ UNCHANGED <<cached, manifest, analysis>>

CommitBatch(r) ==
  /\ run[r].at = "commit"
  /\ cached' = [k \in Titles |-> IF k \in run[r].wrote /\ cached[k] = NoRow THEN r ELSE cached[k]]
  /\ holder' = Free
  /\ run' = [run EXCEPT ![r].at = "file"]
  /\ UNCHANGED <<manifest, analysis>>

IsLast(q) == q.wrote = {} \/ q.calls >= MaxCalls \/ q.batch = MaxBatches

\* The same content is written twice, after the commit and at the end.
WriteManifest(r) ==
  /\ run[r].at = "file"
  /\ manifest' = [manifest EXCEPT ![<<r, run[r].batch>>] = [state |-> "kept", keys |-> run[r].wrote]]
  /\ run' = [run EXCEPT ![r].at = IF IsLast(run[r]) THEN "ended" ELSE "idle"]
  /\ UNCHANGED <<cached, holder, analysis>>

\* The model raises, the database stays locked, a file cannot be written,
\* or the process dies.
BreakRunOff(r) ==
  /\ run[r].at \notin {"ended", "broken"}
  /\ holder' = IF holder = r THEN Free ELSE holder
  /\ run' = [run EXCEPT ![r].at = "broken"]
  /\ UNCHANGED <<cached, manifest, analysis>>

\* An operator runs the SQL of a file, once, between two batches of its run.
RollBack(f) ==
  /\ holder = Free /\ manifest[f].state = "kept"
  /\ run[f[1]].at \in {"idle", "ended", "broken"}
  /\ cached' = [k \in Titles |-> IF k \in manifest[f].keys THEN NoRow ELSE cached[k]]
  /\ manifest' = [manifest EXCEPT ![f] = [state |-> "used", keys |-> {}]]
  /\ UNCHANGED <<holder, run, analysis>>

-----------------------------------------------------------------------------
(* analyze_news, in the threads of one process.                            *)

Goes(t, at) == analysis' = [analysis EXCEPT ![t].at = at]
Rests(t) == analysis' = [analysis EXCEPT ![t] = NoAnalysis]

Analyse(t) ==
  /\ analysis[t].at = "idle"
  /\ \E k \in Titles :
       analysis' = [analysis EXCEPT ![t] = [at |-> "stored", key |-> k, exists |-> FALSE]]
  /\ UNCHANGED <<cached, holder, manifest, run>>

LookStored(t) ==
  /\ analysis[t].at = "stored"
  /\ IF cached[analysis[t].key] # NoRow THEN Rests(t) ELSE Goes(t, "asking")
  /\ UNCHANGED <<cached, holder, manifest, run>>

\* No answer, or an empty one, is not cached.
AskModel(t) ==
  /\ analysis[t].at = "asking"
  /\ Goes(t, "look") \/ Rests(t)
  /\ UNCHANGED <<cached, holder, manifest, run>>

LookRow(t) ==
  /\ analysis[t].at = "look"
  /\ analysis' = [analysis EXCEPT ![t].exists = cached[analysis[t].key] # NoRow,
                                  ![t].at = "save"]
  /\ UNCHANGED <<cached, holder, manifest, run>>

\* An UPDATE of the row that was found, or an INSERT.  The error of a key
\* that exists by now, of a row that is gone or of a lock is swallowed.
SaveRow(t) ==
  /\ analysis[t].at = "save"
  /\ cached' = IF holder = Free /\ ~analysis[t].exists /\ cached[analysis[t].key] = NoRow
               THEN [cached EXCEPT ![analysis[t].key] = "service"] ELSE cached
  /\ Rests(t)
  /\ UNCHANGED <<holder, manifest, run>>

SentimentNext ==
  \/ \E r \in Runs :
       \/ StartBatch(r) \/ AskForKey(r) \/ InsertKey(r) \/ CommitBatch(r)
       \/ WriteManifest(r) \/ BreakRunOff(r)
  \/ \E f \in DOMAIN manifest : RollBack(f)
  \/ \E t \in Threads :
       \/ Analyse(t) \/ LookStored(t) \/ AskModel(t)
       \/ LookRow(t) \/ SaveRow(t)

SentimentSpec == SentimentInit /\ [][SentimentNext]_SentimentVars

-----------------------------------------------------------------------------
InsertedBy(r) == {k \in Titles : cached[k] = r}
Listed(r) == UNION {manifest[<<r, b>>].keys : b \in 1 .. MaxBatches}

(* Rolling a batch back deletes what it inserted and no row that the       *)
(* service or another run inserted; and a run that was not broken off has  *)
(* listed all that it inserted.                                            *)
ManifestsAreTrue ==
  \A r \in Runs :
    /\ Listed(r) \subseteq InsertedBy(r)
    /\ run[r].at \in {"idle", "ended"} => InsertedBy(r) \subseteq Listed(r)
=============================================================================
