# Verification of Stock-Sage

Stock-Sage (`src/`) is a Python backend for one user who follows a watch list of
stocks: a FastAPI application, a scheduler with daily jobs, an SQLite database,
agents that turn data into signals and sizes, a memory of lessons that a human
gates, and a kill switch. This directory holds TLA+ models of the parts where
order, interleaving and partial failure matter, the TLC configurations that
check them and the TLAPS proofs of what matters most.

Contents: [1 inventory](#1-inventory), [2 concurrency](#2-what-runs-concurrently),
[3 modules](#3-the-modules), [4 runs](#4-runs), [5 proofs](#5-what-is-proved),
[6 disagreements](#6-where-the-code-and-its-documentation-disagree),
[7 not modelled](#7-what-is-not-modelled), [8 plan](#8-plan),
[9 running](#9-running-it).

## 1 Inventory

`PROJECT.json` lists all 38 components with their files. Those that keep state
or carry the program's own logic:

| component | state | operations | what is hard | what makes it correct |
|---|---|---|---|---|
| memory promotion (`research/review_loop.py`, `memory/l0_memory.py`) | tables `memory_promotion_candidates`, `memory_atoms`, `stock_memory_items` | create, promote, reject a candidate; gate an atom through the L0 routes | one operation is four or five commits; two reviewers; a death between commits; candidates that share a `source_ref` | a decided candidate names rows of its own; its verdict and the trust of its atom agree; a lesson of its own gets decided |
| portfolio manager (`agents/portfolio_manager.py`) | usage per sector and in total while one batch is allotted | count holdings, close exits, serve entries | three loops that share budgets; exits are subtracted without having been counted | per-stock, per-sector and total limits |
| kill switch (`ops/kill_switch.py`) | one file, one temporary name, shared by two processes | trigger, reset, guard of the jobs, checks after the post-market job | concurrent writers of one temporary file; half-written and missing files; death between write and rename | only a reset clears; a trigger takes effect; a job starts through a tripped switch only where the look at the file fails; lasting losses trip it |
| position book (`api/routes/positions.py`) | tables `positions` and `stocks` | create, update, close, purge; `watchlist.remove_stock` | a read and a write in separate statements; ids given again | profits stay as they were written |
| post-market batch (`jobs/postmarket.py`), signal store (`decision/aggregator.py`), harness (`decision/harness.py`) | tables `signals`, `decision_runs`; counters of a run | analyse every stock, then persist each: signal, run, memory, review, alert | two jobs of a day; swallowed exceptions; a session that stays broken | no run or alert without a signal; no stock forgotten |
| scheduler (`scheduler.py`, `scheduler_worker.py`), cold start (`api/routes/system.py`) | `JOB_STATE`, `_init_state` | run a job, tell its state, initialise | state shared by threads with no lock | once nothing runs, the records say so and have counted nothing twice |
| AI actions and chat (`api/routes/ai.py`, `agent/action_registry.py`, `memory/chat_store.py`, `memory/summarizer.py`) | pending actions, messages, the rolling summary | propose, confirm, cancel; append, summarise | the confirmation executes and then marks; a model call lies between reading and writing a summary | a retry leaves one row; a context speaks of every message, and what is shown of it has no gap |
| AI memory (`memory/ai_memory.py`), stock memory (`memory/stock_memory.py`) | tables `ai_memory`, `stock_memory_items` | upsert, pin, expire, delete; judgment, outcome, lesson | expiry deletes by id what it read before; the outcome is the mark that the lesson is done; the job dies half way | a live memory is not deleted; every loss leaves its lesson; every judgment gets its outcome |
| thesis ledger, forward thesis, theme hypotheses (`research/thesis_ledger.py`, `forward_thesis.py`, `theme_hypothesis_engine.py`) | rows with a status, a band and links | transitions, bands, links | a check of the status read, then a write of the columns that changed | an edit does what was asked and keeps to its own columns |
| database schema at start (`data/database.py`, `data/schema_runtime.py`) | the tables themselves | create, add a column, migrate a table, build an index | several processes on one file; SQLite commits DDL on its own until a row is written | no thesis is lost; one thesis per key |
| gate-B tracker (`research/gate_b_recorder.py`) | observations | record, realise | prices that come late, are deleted or change scale while a pass runs | what has matured, and stays so, is decided |
| signal pipeline (`agents/trader.py`, `risk_manager.py`, `pipeline.py`, `decision/research_constraints.py`) | none: a function of scores | recommend, size, veto, constrain | the order of caps, vetoes and dampening | a veto stands; worse conditions never take more; what is stored is what the score says |
| data providers (`data/providers.py`) | cooldowns per provider | fetch with fallback | a failure for one symbol cools a provider for all | a provider that recovered serves again |
| price backfill (`data/market_persistence.py`) | table `prices` | delete a window and insert it again | rows that are deleted and then refused; overlapping sessions | no row on another scale; the price of an open day settles once an answer has it |
| deep research (`research/deep_research.py`, `research_report_gate.py`) | news, report files, decision runs, pointers | search in rounds, audit, gate, write | a bounded number of rounds; a death between two of its writes; slugs that are cut | what was scarce was asked for |
| long-term team (`agents/long_term/`, `jobs/weekend.py`) | table `long_term_labels` | ask four analysts, judge, save, take what is not expired | overlapping savers of one row; a session broken by a refused insert; thresholds and vetoes that meet | a label that constrains is one whole judgment, not expired; a worse report never gives a better label |
| sentiment (`analysis/sentiment.py` and the tools that fill its table) | table `sentiment_cache`, manifests | look up, ask, store; fill by batches; roll back | a transaction and a file that are written one after the other; the service writes the same keys | a manifest names what the tool wrote |
| Kronos data and training (`tools/m27_kronos_finetune_data.py`, `m27_kronos_path_a_launch.py`) | files of a data set, directories of checkpoints | prepare, cut, train, save, publish, resume | files of one set replaced one by one; launches that share a directory; deaths | sequences are the windows they were cut for; checkpoints are whole; the best is published |
| web page (`frontend/src/live.ts`, `api.ts`, `page-positions.tsx`) | the store, a connection flag, a timer | connect, load, click, refresh, ping | a sample under a live connection; lost answers; every `await` | what a click was told is what was written |

The remaining components (read-only API, point-in-time reads, technical
analysis and learned models, backtests, language-model providers,
notifications, sessions and seeds, skills, the agent bridge) keep no state of
their own that several actors write, or are network I/O, generated reports or
floating-point statistics; section 7 says why each group stays out.

How they interact. The scheduler (or the cold start) calls the post-market job;
its guard reads the kill switch, its first loop calls the signal pipeline per
stock, the portfolio manager allots the batch, its second loop calls the signal
store, which calls the harness, then the memories and the notification; the job
ends with the checks of the kill switch. The API writes the same tables: the
position book feeds the weights of the next batch, the review loop turns a
reviewed decision into a candidate and, gated, into memory that later
decisions recall. The morning job refreshes the prices through the providers,
and the gate-B tracker reads them. The API process, a separate scheduler worker
and the commands share the database file and the files beside it, and nothing
else. The page talks to the API alone.

The forty hazards in `PROJECT.json` are the places, by line, where this code can
go wrong in ways that a test would hardly reach. Each is covered by at least one
checked property; a note says where a property covers part of it only.

## 2 What runs concurrently

All models rest on the same reading of how the program is executed:

* FastAPI runs the synchronous handlers in a thread pool, each with a session of
  its own (`api/deps.py`, `data/session.py`). The scheduler's jobs run in other
  threads or in another process.
* SQLite opens the transaction at the first write, so each `SELECT` before it
  sees the latest committed rows. A handler that reads, decides and writes is
  therefore two steps, and others may run in between.
* Helpers commit before they return (`create_memory_atom`, `promote_atom`,
  `audit_write`, ...), so one handler is a sequence of transactions and may die
  between two of them.
* SQLAlchemy writes only the columns whose value differs from what it read; an
  update that meets no row raises; a failed flush leaves the session unusable
  until a rollback. SQLite hands out again the id of the last row that was
  deleted.

Each model takes one read or one commit as one action. Data that the properties
do not tell apart (texts, scores, dates, prices where only a comparison counts)
is left out or taken from a small set.

## 3 The modules

Definitions keep the names of the source where they can; `map` in `PROJECT.json`
gives the file and the lines of each. `MC*` modules hold the finite instances,
`*_proofs` the theorems (`MarketDay_proofs`, `Research_proofs` and `Tools_proofs` those
of several small modules each, `NumberLemmas` the lemmas they share). Definitions named `X_Something`, under a comment
"Variant for mutation", are bugs that somebody could write in place of `X`; one
is paired with each checked property, and the property fails with it.

### MemoryPromotion and TrustLedger

| variable | code |
|---|---|
| `candidates` | table `memory_promotion_candidates`: case, `source_ref`, `source_trust`, ids of atom and stock item |
| `atoms` | table `memory_atoms`: `source_ref`, `trust_state`, linked stock item |
| `items` | the `source_ref` of each row of `stock_memory_items` |
| `req` | the handler threads: what each does, where it is, and the ids it has read or written |
| `aborts` | threads that died half way (a bound, not a table) |

A promotion is the sequence `BeginDecision` (the one check of `source_trust`),
`FindAtom` or `RefuseAtom`, `InsertAtom` or `UpdateAtom` (`create_memory_atom`),
`FindItem`, `WriteItem` (`create_stock_memory`), the atom once more, now linked
to the item, `CheckAtom`, `GateAtom` (`promote_atom`) and `DecideCandidate`. A
rejection leaves the item out and gates with `refute_atom`. `BeginCreate` and
`InsertCandidate` are `create_memory_candidate`; `BeginGate` is a decision on an
atom through the L0 routes. `Abort` is a death, or an exception of a write,
between two commits.

`TrustLedger` is what the loop promises: a list of lessons, the set of trusted
and the set of refuted references, and the atomic steps Submit, Promote, Reject
and Overrule. `MemoryPromotion` takes it with `INSTANCE TrustLedger WITH`: a
lesson's verdict is mapped at the commit of the gate, before the candidate's own
row is written. The refinement `ImplementsLedger` is checked for one request at
a time that does not die; section 6 lists what breaks it otherwise.

### PortfolioManager

`candidate` is the batch as `_apply_portfolio_decision` builds it, `toCount` and
`toDecide` the stocks the loops have still to come to, `sectorUsed` and
`totalUsed` the accounts of `manage`, `target` its result. `Count` is a turn of
the first loop, `CloseExit` of the second, and `Hold`, `RefuseFrozen`,
`RefuseSmall` and `Allocate` are the outcomes of a turn of the third.
`PassThrough` is a disabled manager. The third loop goes by descending score:
scores are free, so every order is allowed. Weights are whole units instead of
fractions rounded to basis points; the code adds, subtracts and compares them
only.

### KillSwitch

`state` and `tmp` are the inodes that the path and the temporary name stand for,
`content` what each inode holds (`empty` just after it is opened, `torn` when two
writers overlap), `call` what each thread is at, `facts` what the database would
answer, `cleared` a history variable: the threads that were in a call when a
reset removed the file. One action is one access to the file system or the
database: `Exists`, `Read`, `Unlink`, `Open`, `Write`, `Replace` are
`_read_state` and `_write_state` line by line; `StartJob` with `Exists` and
`Read` is the guard of the scheduler (a file that cannot be read counts as tripped; a
look that fails, `FailLook`, lets the job through; `LookAgain` is its second look, for the
reason that it logs); `FinishBody`, `CheckLosses`,
`CheckStaleness` and `ChecksPass` are `_run_kill_switch_checks` and
`run_all_checks`. `FailWrite`, `FailBody` and `Crash` (of either process) are the
faults; `World` changes what the database says.

A writer that opened the temporary file keeps writing to its inode after another
writer renamed it, and the second rename then finds nothing. That is why inodes
are modelled and not just two files.

### Positions

`rows` is the table `positions`, `universe` the row of the stock in `stocks`,
`req` a request that has read and not yet written: `was` is the row as read,
`new` the row as it is going to be. `BeginX` is the read with its guard, and
`Create`, `Write` and `Purge` are the commits. `Merge` is the update of only the
columns that changed, `Saved` the update that finds no row, `NewId` the id that
SQLite gives. `RemoveStock` is `watchlist.remove_stock`.

### PostmarketBatch

`job` holds each run of the job: where it is (`pc`, `at`), the stocks of its
batch, those it counts as saved and as failed, what it last saw in a table, and
what a failed flush made it lose. `signals` and `runs` count the rows per stock,
`alerted` are the stocks that were pushed. `Analyze` is a turn of the first
loop. A turn of the second loop is `Look`, `Save` (`save_signal`), `LookRun`,
`SaveRun` (`record_decision_run`), `Memory` (the two memories) and `Review`
(`review_latest_signal`, the count, the alert). `StockRaises`, `AlertRaises` and
`RunRaises` are exceptions that leave the session usable; `FlushFails` is one
that does not: the handlers then read `stock.symbol`, which the session must load
again, so the exception leaves them all and ends the job (`Broken`).
`KillSwitch` models the checks that `Check` stands for, `PortfolioManager` the
allocation between the loops.

### ChatWindow, AIActions and DailyMemory

`ChatWindow` is one chat session: `count` messages, `window` (the summary as the
set of messages it was made of, and the mark up to which it goes) and `chat`,
where each request is. `Ask` and the answer save messages; a summary is read
(`Load`, `CountMessages`, `ReadPrior`, `FetchWindow`), asked of the model
(`ModelAnswers`, `ModelFails`) and written (`WriteSummary`), each in a step of its
own, and a context is the summary and then the tail (`LoadContext`, `ReadTail`). An answer
shows the beginning of it (`CutContext`): ten lines and 2400 characters, of which
`MaxLines` is the former and the latter end it anywhere before. The session object of a request keeps the columns it loaded until a
commit: that is why `seen` and `window` differ.

`AIActions` is the confirmation of proposed actions. `Parts` names, for each
registered action, the commits of its handler: a plain insert, a flag, an
upsert, an item that is looked up by its key and then updated or inserted. The
status is checked first and written last. A confirmation may be overlapped by
another and cut off between two commits.

`DailyMemory` is the daily job over two tables: `memory` (`ai_memory`) and
`items` (`stock_memory_items`). One half reads the memories past their time and
deletes them by id, the other gives each judgment that is ten trading days old
its outcome and, after a loss, a lesson. Users and the post-market job write the
same rows between its steps; `Die` is a death or an exception that leaves the
loop.

`MCAssistant` watches one of the three at a time (`focus`): they share no
variable, and their product would say nothing new. The same holds for the other
MC modules that extend several components.

### SignalPipeline

`given` is what a lane is given (score, market, breadth, drawdown, limit-up,
label), `signal` what has become of it, `rule` the rule that comes next. `v1`
is `aggregate`, `v2` is `aggregate_v2` over `run_pipeline`, whose rules are taken
in the code's order. Two lanes, *this* and *worse*, go through the same rules,
so that a monotony over all of them is an invariant. Scores are in tenths,
sizes in millionths, so the ladder and its roundings are exact.

### Providers, PriceBackfill and JobRunner

`Providers` is a registry: `answers` says which remote side works, `cooldown`
what `cooldown_until` says of each provider, `call` where each caller is in the
chain. `PassOver`, `AskProvider`, `TakeAnswer`, `Fail` and `Raise` are the turns of the
loop and its end. `PriceBackfill` is one stock in `prices`: `row` tells of each trading
day whether its price is missing, early, final or scaled, and each session has
read the latest date (`LookLatest`), fetched, and then deletes the window and
inserts what the guard accepts. An answer may lack any of the days asked for (`Asked`):
providers and fallbacks lag, and histories have gaps; `said` are the days it has. `JobRunner` holds the in-memory records
`JOB_STATE` and `_init_state`, of which each runner reads a counter and writes
it back in another step.

### ResearchLedgers and RuntimeSchema

`ResearchLedgers` follows one record of one of the three ledgers: a request has
read the record (`was`), checked the table of transitions, and will write
`new`; `Merged` writes only the columns that differ from `was` (`Store`). The audit log
is inserted into in the same transaction and read by none of these operations; it is left
out.

`RuntimeSchema` is `init_db`, statement by statement, for processes that start on
one file. `db` is the file as the holder of the write lock sees it, `tx` the
transaction and what it would be rolled back to; `View` is what the others see.
A DDL statement is committed at once before the first `INSERT` of the process
and belongs to the transaction after it, so `DROP` and `RENAME` of the
migration are atomic with the copy, and `CREATE` of the temporary table is not.
`Kill` may happen anywhere, and the process starts again.

### GateTracker

`close` is the table of prices, in which other jobs fill gaps (`FillGap`) and
change scales (`Rescale`), and a refresh deletes a row without putting it back
(`Remove`); `observed` the observations; `pass` the pass under way
with the rows it still has to treat. `RecordOne` and `RealizeOne` treat a row
with its commit; `Outcome` is the decision over the window of closes; `EndPass`
is also a pass that is cut off. `pass.due` is history: the observations that were due when
the pass began, without those that lost a close before their turn and are due no longer.

### DeepResearch

`study` is where each study is: rounds of questions (`SearchSeeds`,
`LookForEvidence`, `Widen`, `AskAnspire`, `AskWeb`, `BackfillFinancials`, in the
order `Plan` gives), the gate (`Judge`), and then one file or commit after the
other (`WriteReport`, `RecordRun`, `PointTo`). `stored`, `metrics`, `report`,
`evidence` and `pointer` are what studies share. `BreakOff` is a death at any
step.

### SentimentCache

`cached` says who inserted the row of a key: nobody, the service, or a run of the
tool. A run takes a batch (`StartBatch`), asks, inserts in one transaction that
holds the write lock (`holder`), commits, and then writes the manifest; a rollback
deletes what a manifest names. Threads of the service look, ask and insert the
same keys meanwhile.

### KronosData and KronosTraining

`KronosData`: `file` are the four files of a data set, each as the panel it was made
of, written one after the other (`OpenFile` empties it, `WriteFile` completes it); a
launch reads the report, the panel and the windows (`reading`) and cuts sequences
by position. `KronosTraining`: `tmp`, `saved` and `best` are directories, `launch` the
steps, losses and choices of each launch; a checkpoint is `LookForRoom`,
`MakeTmp`, `SaveModel`, `SaveManifest`, `RenameTmp`.

### LivePage

The page is one thread, so an action is what runs from one `await` to the next.
`table` is the backend's table of positions; `page` the connection flag, the badge,
the health timer and the rows shown; `boot` is `startLive`; `ping` a health
request under way; `click` a click with its attempt, whether its answer was
lost (`TimeOut`) and what it was told. `Serve` is the backend's write, `Answer` its
arrival; the two can be apart.

### LongTermTeam

Two parts with the same rules. The *hearing* asks the four analysts in turn
(`reports`, `toHear`) over every report they can make of the given figures:
`TrackReport`, `QualityReport`, `BoomReport` and `FlowReport` are their rules,
`AggregateScore`, `ResolveLabel` and `LabelQuality` those of `team.py`. The *keeping*
is the table: `labels` holds the row of each stock and date; a `saver` is a weekly
job or a request that judges a stock, looks for the row of the day
(`LookForRow`) and writes it (`SaveLabel`, with the columns that differ from
those read, or `InsertFails` on the unique key, after which the job's session is
unusable and it ends). `judged` and `mixed` are history: the judgments so far, and
the rows that changed between a look and a write. `Binds` is what
`bulk_get_labels` gives the batch.

### MCRecords

It extends PostmarketBatch, Positions, ResearchLedgers, RuntimeSchema, GateTracker,
DeepResearch, SentimentCache, KronosData, KronosTraining, LivePage and LongTermTeam,
with one focus for each (two for the last) and everything else at rest.

## 4 Runs

Twelve runs; eight pass and four show a disagreement (section 6).

| run | distinct states | question |
|---|---|---|
| `promo_concurrent` | 815,118 | 2 requests, 2 candidates under one `source_ref`, 1 death: do decided candidates name rows of their own (`DecisionLinks`), and is no item without its atom (`ItemBackedByAtom`), whatever interleaves? |
| `promo_serial` | 545,677 | 1 request, 3 candidates (unkeyed, keyed, keyed with a case), 1 death: do verdict and trust agree (`VerdictsAgree`)? |
| `promo_alone` | 18,084 | 1 request, 3 candidates, no death, fairness: does the loop implement the ledger (`ImplementsLedger`), and is a lesson of its own decided in the end (`OwnRefGetsDecided`)? |
| `portfolio` | 1,549,460 | How far may targets exceed a limit (`OvershootIsBounded`), is every stock within its cap (`StockWithinCap`), and does serving entries never push usage over a limit (`UsageRisesWithinLimits`)? |
| `switch` | 490,472 | Does only a reset clear (`OnlyAResetClears`), does a trigger take effect though its rename may fail (`TriggerTakesEffect`), does the guard hold against half-written and vanishing files unless its look at the file fails (`GuardHolds`), do lasting losses trip the switch again and again (`LossesTrip`)? |
| `assistant` | 367,967 | Does a summary end at its mark (`SummaryEndsAtMark`)? Does a context speak of every message, and is what an answer shows its beginning (`ContextHasNoGap`)? Do retries of a confirmation leave one row (`RetriesLeaveOneRow`)? Does the expiry delete only what is stale (`ExpiryTakesTheStale`), does a loss leave its lesson though the job dies (`LossesLeaveALesson`), and does each judgment get its outcome (`JudgmentsGetOutcomes`)? |
| `market_day` | 681,764 | Does a veto stand against every later rule (`VetoStands`), do worse conditions never take more (`WorseNeverTakesMore`), does the stored score explain the recommendation (`ScoreExplainsRecommendation`)? Is no row on another scale kept (`NoScaledRow`), and does a refresh settle the early prices of the days it was answered (`RefreshSettles`)? Does a provider that has recovered serve again (`RecoveredProviderServes`)? Do the records of jobs come to rest (`RecordsComeToRest`)? |
| `records` | 1,623,283 | Batch: `SignalComesFirst`, `EveryStockIsTreated`. Positions: `ClosedPnlIsFinal`. Ledgers: `EditsKeepToTheirColumns`. Schema: `NoThesisIsLost`, `OneThesisPerKey`. Tracker: `MaturedIsDecided`. Studies: `ScarceMeansAsked`. Sentiments: `ManifestsAreTrue`. Data and training: `SequencesMatchWindows`, `CheckpointsAreWhole`, `PublishedIsBest`. Page: `ToldIsDone`. Labels: `BindingIsEarned`, `WorseReportsNeverLift`. The comment on each says in words what it asks. |
| `portfolio_limit`, `batch_harness`, `prices_lost`, `page_sample` | small | Violations, one property each |

### Bounds

* Actors (`Requests`, `Api`, `Jobs`, `Clients`, `Chats`, `Editors`, `Procs`,
  `Studies`, `Runs`, `Launches`, `Savers`, ...): two of a kind, or one of each, are
  enough for every race between a read and a write: the guards look at the rows,
  never at how many threads there are. `Providers` has three callers and three
  providers in two markets, so that a failure for one market cools a provider of
  the other. The theorems hold for any number.
* Faults (`MaxAborts`, `MaxFaults`, `MaxFlush`, `MaxCuts`, `MaxDeaths`): one of a
  kind. A death is an actor that stops; one lets every later actor meet what it
  left. Deaths of studies, launches, savers, passes and processes of
  `RuntimeSchema` are not bounded.
* `MaxCandidates`: two candidates to share a `source_ref`, three to have one
  without.
* `portfolio`: weights {0,1,3,5}: 5 exceeds the per-stock limit 4, two stocks at
  the limit exceed the sector's 6, three the total 8, 1 is below the minimum 2, 3
  fits; so each term of `Wanted` is the smallest somewhere.
* `Inodes`: one for the state, one for the temporary name, one for a writer whose
  file was renamed away. `EachTrouble`: one world for each check that can trip, one
  for no prices, one for no database.
* `MaxId` 1: one position at a time is the case in which a purged id is given again.
  Two quantities and two prices, one of them the cost, make profits differ.
* `N` = 2 stocks: one that comes after another.
* Chat: six messages, summaries from three on that leave one out, a tail of two, so a
  window is summarised at least twice, and two lines shown, so that a summary and a full
  tail are cut. Actions: one of each sort of part.
  Daily memory: two keys, one judgment, its outcome and lesson, doubled by the
  deletions in six rows.
* `BoundaryScores`: both sides of every threshold of the rules. Caps 200 and 300 lie
  on both sides of the threshold 250.
* Prices: a history of five days and two more (three in `prices_lost`), a window of two
  days, a baseline of three rows of which two must be usable, three fetches (four): an
  early price can lie in the window of two later refreshes or leave it, and the guard has
  rows, or too few.
* Tracker: five days, signals on the first two, a horizon of two days; a gap, a late
  price, a deleted one and a change of scale all fit.
* Studies: three articles (good but old, recent but weak, without a date), two topics
  whose names cut to one slug, one of them worded too strongly.
* Sentiments: two keys, batches of two, at most two batches and three calls. Data: five
  days, two preparations. Training: three steps with a checkpoint every two (so the
  last step has one of its own), losses 1 to 3.
* Page: two clicks, two pings, five row ids, an open and a closed position in the
  sample.
* Long-term team: scores, F-scores, percentiles and changes on both sides of the
  thresholds; five timelines of a holder for three holders; three weeks of reports
  (all for the stock, one veto, no language model), two stocks, two savers, three
  dates and a time to live of one, so a label expires.

No state constraint is used, and deadlock is checked in every run: definitions named
`...Done` say where a component stops. Runs that check liveness use no symmetry.

### Fairness

* `promo_alone`: weak fairness of `Serve(r)`, since the thread pool runs every
  accepted request to its end; strong fairness of `Review(c)`, the one assumption
  about a person: a reviewer keeps coming back to a candidate that is listed as
  pending. It is strong because the single thread of the instance is busy with
  others in between.
* `switch`: weak fairness of `StartJob`, the cron trigger of each job, and of
  `Step(t)`: a thread in a call goes on. Nothing is assumed of triggers, resets,
  faults or the world. `LossesTrip` says: from the time on that signals lose and the
  database answers, the switch is tripped again and again, however often it is reset.
* `assistant`: weak fairness of `StartDaily` (the cron trigger) and `RunDaily`. The
  users, the ageing and the deaths are free; deaths are finitely many.
* `market_day`: weak fairness of a job's fetch (it comes every day), of the steps of a
  call (each has a timeout) and of the end of a cooldown, when providers are watched. The remote sides fail and recover as they like; the
  property assumes that one of them has recovered for good.

The other runs check safety only and state no fairness.

## 5 What is proved

Every invariant and action property of the passing runs, for every value of the
constants, in eight modules with 12,811 proof obligations. What remains with TLC is at
the end of this section.

*Assumptions.* Only those that the modules declare (named `...Assumption`), which TLC
evaluates in every run of the module: bounds are natural numbers, sets of threads are
disjoint, special values are no members of the sets they stand beside (`NoProc`,
`None`, `NoInode`), splits of a data set are in order, the tail of a chat is no shorter
than what a summary keeps. Threads, candidates, requests, launches, processes, weights,
faults and days are otherwise arbitrary. Finite are only what is added up or counted:
the batch of the portfolio manager (`BatchAssumption`) and the articles of a study
(`ArticlesAssumption`); the losses of a training have a largest one
(`TrainingAssumption`). Three theorems have a hypothesis of their own, given with them
below.

*Recursion.* The prover knows no induction over data. `NumberLemmas` gets what is needed
out of the library's well-foundedness of `<`: a set of numbers has a least member, and
one with a bound a largest (`LeastNumber`, `LargestNumber`); the n first members of a
set are n (`FirstOnesCount`), for page sizes and horizons; a function that is defined
day by day exists and has its values (`DayByDay`), for the recursive functions of
`PriceBackfill`. For sums, `Outwards` is induction over the subsets of a finite set (what
fails somewhere fails for a smallest set); with it `SumWithout` shows that a fold of the
community modules may take any member first, and `SumChanged` and `SumGrows` follow.

**MemoryPromotion_proofs.** `TypeCorrect`, `DecisionLinksHold`,
`ItemsAreBacked` follow from `LinkInvariant`. `DecisionLinks` alone is not
inductive: the ids that end in a candidate's row were read several commits
earlier. `LinkInv` adds `RequestInv`: at each step of a handler, the atom and
the item it holds are rows under the references of its own candidate, and an
item is held only when the candidate's atom exists. The argument has two parts.
`Grows`: no step removes a row or changes its reference, so what any handler holds
stays right whatever the others write (`RequestStable`). And, per action, the
handler that moves establishes what it is to hold at the next step.

`VerdictsAgreeWhenSerial` and `LoopImplementsLedger` speak of one handler at a time
(`Requests = {r}`), the second of one that does not die (`MaxAborts = 0`): as the runs
`promo_serial` and `promo_alone` do, and with two, or with deaths, both are false
(section 6). `SerialInv` adds to `LinkInv` that a reference has one atom and that the
atom a decision holds is in the state that its step has left (`HeldAtom`). For the
refinement `AloneInv` adds that an atom without a verdict belongs to the decision under
way: each action is then a step of `TrustLedger` or none, the gate of a decision
(`GateAtom`) being the ledger's verdict and `DecideCandidate`, which follows, a stutter.

**PortfolioManager_proofs.** `TypeCorrect`; `StockCapHolds` by
`DecidedWithinCap` (a stock still to be decided has its holding as target, a
decided one is within its cap), with `WantedBounds` for what `Wanted` returns;
`UsageStaysWithin`, an action property, by `ChargeFits`: what an entry is charged
is at most what each limit leaves. Only the clamp at zero makes `sectorUsed` a
natural number. `OvershootStaysBounded` needs `OvershootInv`: while the holdings are
counted a counter is their sum so far (`Counted`); afterwards it is behind the targets
by at most what is still to be released, and the targets are within the limit, plus
what closes, or within what was held (`Bounded`). One lemma, `DecideOne`, carries that
over a closing, a charge and a stock of another sector, for the total and a sector alike.

**KillSwitch_proofs.** `TypeCorrect` (state and temporary file are never the same
inode), `ResetOnly`, `TriggersHold` and `GuardSound` from `SwitchInvariant`.
`SwitchInv` adds to the types that only API threads reset (`Roles`) and
`PendingIsNamed`: while a writer is between opening and renaming, the temporary
name exists, or the switch is tripped already (somebody renamed it), or a reset
came in between. This is what makes a rename that fails harmless. `GuardSound` says what the
guard keeps back and names the one step at which it does not, a look that fails; that a
job is always skipped is false (section 6).

**PostmarketBatch_proofs.** `TypeCorrect`, `SignalFirst`, `OneRun`,
`NoStockIsForgotten` and `CountsAreTrue` from `BatchInvariant`. `BatchInv` says of
each job (`JobOK`) that a writing job has saved or counted as failed exactly the
stocks of its batch before the one it is at, that those it counts as saved have a
signal, and that past the save the stock it is at has one. `EveryStockIsTreated`
needs the equivalence, not just an inclusion, to pass from one stock of the batch
to the next; `First` is the least element, by well-foundedness of the naturals.
`OneRun` and `CountsAreTrue` are proved only; no run lists them.

**MarketDay_proofs.**

* `JobsTypeCorrect`, `RecordsRest` (JobRunner). A record says that it is running only
  while somebody holds it, and the two counters, with the values that runners are about
  to write, never exceed the runs that have ended: each runner writes one more than what
  it read, and what it read was no more than that.
* `VetoesStand`, `ScoresExplainRecommendations` (SignalPipeline) from `SignalInv`: no rule
  up to the market one vetoes, the size that the allocation reads is written by the last
  rule but one, and from the first rule on the recommendation is the score's, or marked.
* `WorseConditionsTakeLess`, under the hypothesis `TrialPosition <= (MaxPosition * 50) \div
  100`. `OrderInv` compares the two lanes after each rule: the worse one is an entry only
  if the other is, and not larger. It is false without the hypothesis, since a score below
  the ladder then gets a trial larger than one on its lowest rung; the defaults of
  `config.py`, 5% and 15%, fulfil it, and no code checks it.
* `NoScaledRowStored`, `RefreshesSettle` (PriceBackfill) from `PriceInv`: the stored rows
  have an unscaled one before any window that a refresh deletes, so the guard always has
  something to compare with (`Sound`), and what a refresh is about to write is a settled
  bar for each day that is over and that it was answered (`Settling`). For a day that the
  answer lacks nothing is claimed: it is not touched.
* `ClosedPnlStays` (Positions): what a handler is about to write names the profit of the
  row only when the row it read was open (`WriteInv`).
* `ClicksAreToldTheTruth` (LivePage): where a click is tells what it has written, but for
  an answer that was lost (`Told`).

**Research_proofs.**

* `SummariesEndAtTheirMark`, `ContextsHaveNoGap` (ChatWindow). Each summary, stored or in
  hand, covers exactly the messages up to its mark (`Whole`); a request that nobody
  overlaps holds the stored one, and the window behind its mark is no longer than what
  the context holds (`LoneRequest`), so the context is whole, and any cut of it, at whatever
  line or character, is a beginning.
* `RetriesLeaveOneRowHolds` (AIActions): a part without a key is made at most once more
  than the cuts, and not even that while no run is past it (`Uncut`).
* `LossesLeaveLessons`, `ExpiryTakesOnlyTheStale` (DailyMemory): an outcome that is a loss
  has its lesson in the table, in the hands of the job, or the job died at it (`Taught`);
  what the expiry is about to delete was stale when read, or written since.
* `RoundsAreEnough` (DeepResearch): a study that is still short of evidence has asked
  every service with a key, or is on the schedule that makes it ask (`OnSchedule`: window
  14, 28, 56, 60, 60 in the rounds 0 to 4). That what others store meanwhile can only end
  the shortage is `EvidenceGrows`.
* `EditsAreNarrow` (ResearchLedgers). `EditIsSound` says what an edit that is held changes:
  the columns of its operation, the others as it has read them. The merge then leaves those
  alone whatever others have written since (`StoreIsNarrow`). A move always writes its
  status, since no transition stays where it is (`MovesMove`); an attachment that the
  request has seen and does not write is still there, since none is taken off.
* `BindingEarned` (LongTermTeam). `TeamInv` says that each row that two savers did not
  write at once is a judgment of its stock and its day, and that what a saver carries from
  its judgment to its write is one too. `WholeWrite` is the key lemma: an update over the
  row that was read writes, column by column, the whole verdict.
* `NoLiftByWorse` (LongTermTeam): every report has a number for a score
  (`ScoresAreNumbers`, over the sums of `BoomReport`), a lower one lowers the weighted sum
  (`SumChanged`), the same weights divide it, rounding is monotone (`NearestIsMonotone`),
  and vetoes and timing only get worse (`VetoesRemain`).

**Tools_proofs.**

* `TheThesesAreKept`, `AKeyHasOneThesis` (RuntimeSchema): between the drop and the rename
  of the migration the committed theses are those of the copy (`TxInv`), and a committed
  index means that no two have one key.
* `DueIsDecided` (GateTracker): an observation that was due when its pass began is decided,
  or its turn is to come and enough closes are still there (`DueIsKept`), or it has lost
  one before its turn; of the last nothing is claimed but that it stays for a later pass.
* `ManifestsNameTheirRows` (SentimentCache): the files of a run list what it has inserted,
  but for the batch it is at (`FilesInv`), which holds because the write lock of the
  database is held from the first insert to the commit (`LockInv`).
* `CheckpointsAlwaysWhole` (KronosTraining). `TrainingInv` adds that a temporary directory
  has at most one owner (`OneOwner`) and is as full as its owner has come (`OwnersFill`).
  For smoke models the atomic `mkdir` keeps owners apart, for real ones that there is a
  single launch (`OneRealLaunch`, `RealHasRoom`).
* `PublishedModelIsBest` (KronosTraining). `BestInv` adds what a launch knows of the
  checkpoints it has left (`Chosen`) and that only one at a time copies.
* `LaunchesReadTheirWindows` (KronosData). What a launch holds was cut from two panels,
  maybe of two preparations, each a prefix of the stock's days (`DataInv`); positions are
  ranks, and ranks in a prefix are those of the whole, so a sequence is its window or ends
  outside the panel.

Checked by TLC only:

* the liveness properties `LossesTrip`, `OwnRefGetsDecided`, `JudgmentsGetOutcomes` and
  `RecoveredProviderServes`: reasoning about fairness and `ENABLED` is not within the
  prover's reach. What `Providers` promises has no safety part.

The type invariants of `ChatWindow`, `DailyMemory`, `LongTermTeam`, `PriceBackfill`,
`SignalPipeline` and `Providers` are for the reader: they name the bounds of an instance,
while the theorems about these modules rest on types of their own, without bounds.

## 6 Where the code and its documentation disagree

Each of these has a run that TLC finds violated:

1. `portfolio_limit` (`TotalEquityLimit`): an exit's weight is not counted in step 1 and subtracted in
   step 2 (`portfolio_manager.py:143`), so closing w lets the batch go w over the
   total limit. `OvershootIsBounded` shows that it is never more.
2. `batch_harness` (`HarnessDoesNotBlock`): a failed flush in the harness ends the batch, although "a write
   failure must not block signals" (`aggregator.py:495`).
3. `prices_lost` (`NoPriceIsLost`): a refresh deletes the rows of every date it has fetched before it asks
   the guard, so a row that is rejected leaves no price where there was a good one,
   although the guard's caller "should skip/reject it" (`price_quality.py:83`). An outage
   longer than the window of five days leaves the gap for good.
4. `page_sample` (`SampleStaysHere`): the page is live before its store is loaded, so a click on a position of
   the sample changes the real position of the same id, although the page says that
   without a backend it works on the sample alone (`live.ts:7`, `main.tsx:91`).

Found while modelling. These narrow a property or an instance above, or lie beside the
models; they have no run of their own.

*Memory and research.*

* Candidates with one `source_ref` and different cases share an atom. When one is
  decided, `create_memory_atom` refuses the other for ever, although the two-part key is
  there so that a broad `source_ref` does not swallow "a later case-specific lesson"
  (`review_loop.py:208`). `OwnRefGetsDecided` speaks of a reference of one's own.
* Two reviewers at a time can turn a verdict: the candidate's row is written without a
  second look, though "Both 'trusted' and 'rejected' are terminal"
  (`data/models/memory.py`). So can an upsert of `create_memory_atom` whose look came
  before the verdict. Two deaths, one in a promotion and one in a rejection of a
  candidate, leave both its atoms decided and the candidate undecidable.
* A transition of a research record is checked against the status that was read
  (`thesis_ledger.py:167`) and written without a condition: of two requests that read an
  active thesis one may retire it and the other then move it on, though "retired is terminal"
  (`data/models/thesis.py:23`). Two bands that each pass the check (`forward_thesis.py:305`)
  may be stored one bound each, the low one above the high one. `EditsKeepToTheirColumns`
  says what holds nevertheless.
* The audit log does not tell the status of every research record: the lines of a creation
  carry none, though a request may create a record in any status (`thesis_ledger.py:116`,
  `forward_thesis.py:201`, `theme_hypothesis_engine.py:172`), and the lines of a move of a
  forward thesis or a hypothesis do not name the record.
* An answer of the chat shows ten lines of its context (`chat_responder.py:152`), which is a
  summary and ten to twelve messages: the lines that do not fit are the newest ones.
* A gate-B observation without an entry price stays pending for good. One that a refresh
  takes a close from during a pass waits for a later pass, which decides it by the closes
  there are then. The gate is called
  strictly point-in-time, but a pointer is filtered by the status it has now, and labels
  and decision runs are updated in place. The check of ratios, 0.1 to 3, misses a change
  of scale by less than three.
* Studies: `expand_news_window` can never add evidence that counts, since older news is
  not fresh; with both search keys and scarce news, the five rounds are used up before
  `backfill_financials`. When nothing was audited the gate warns and returns before its
  rule that all-unusable audits block. A page without a date is taken for one of the day of
  the study; the context of prices and financials ignores that day. Two topics with one
  slug overwrite each other's file, two studies of a symbol and a day each other's
  decision run. The endpoint reads `report.gate_warnings`, which does not exist, and the
  command prints the path of a blocked report that was not written.
* `_call_llm_sentiment` replaces an empty answer by a neutral fallback, so the guard
  against a fallback in the cache is never reached and the fallback is cached for good. A
  death between the commit of a batch and its manifest leaves keys out of the manifest
  (`ManifestsAreTrue` says what a manifest names, not that it names all). The write lock
  is held during the calls of the model.
* The files of the layered memory are rewritten in place: a death leaves them truncated,
  and the next save carries the loss into the database.

*Decisions.*

* A refresh replaces only the days that it was answered. Where a fallback lags a day, the
  early price of that day stays, also past the window of five days if no later answer has it.
* The record of the initialisation is read by the request and set by its task: two
  requests in a row both start one, and the record says that nothing runs while the second
  still does. Both come to rest (`RecordsComeToRest`).
* Two overlapping batches can insert two signals for a stock and a day: nothing makes them
  unique. A push that raises counts the stock both as saved and as an error. Holdings whose
  analysis failed are not in the batch, so the allocation does not see them.
* The guard of the jobs catches whatever its look at the switch raises and lets the job run
  (`scheduler.py:104-106`), although jobs are skipped while the switch is active
  (`kill_switch.py:12`) and a file that cannot be read counts as active (`kill_switch.py:54`).
  `GuardHolds` names that step. A switch that trips after the guard does not stop the job.
* Neither an empty nor an unreachable database trips the switch, although "(c) DB
  unreachable" is among the risks it is said to watch (`kill_switch.py:7`). A check that
  read the switch as clear replaces the reason of a manual trigger that came in between.
* `config.py` sets `rsrs_bearish_z` to -0.7, the risk manager has `< -1.0` of its own.
  `single_position` says that a drawdown over 4% always halves, but the trial branch
  returns before. A score that equals the threshold is a *watch* with a trial size. A cap of
  30 on a label that says to wait is above the threshold of 25, so the entry keeps the
  size it had. The regime filter changes `position_pct`, the allocation reads
  `risk_position_pct`.
* A close whose payload has a quantity computes the profit of the old one and stores it
  beside the new one (`positions.py:148`). Two concurrent closes rewrite the profit; a purge
  that was overtaken deletes an open position whose row took the id: `ClosedPnlIsFinal`
  speaks of requests that were not overtaken.
* Labels: an insert that meets another saver's row leaves the session of the weekly job
  unusable, and the job ends with the later stocks unlabelled. A failed newer label shadows
  a trusted older one, so a week without the language model lifts a constraint
  (`BindingIsEarned` says that it never makes one). A worse report may lower the mean
  confidence below the gate of quality, and an analyst that goes from silent to slightly
  positive may lower the average: `WorseReportsNeverLift` compares reports that are heard.
  Two savers of one row at once can mix two judgments. The docstring of `jingqi.py` differs
  from its code in three thresholds; the comment of `config.py` on the foreign holders counts
  consecutive quarters, the code any. Financial rows are written once, so an outage at the
  first synchronisation leaves an F-score of 4 at most, which is a veto.

*Files and page.*

* Training: after a resume, the first checkpoint can be published though a later one is
  better, and a best loss of 0.0 in the checkpoint is taken for none; a death in the copy
  leaves a part of `best_model` that `--skip-existing` takes as finished; two real launches
  in one directory can mix a checkpoint (the model has one). Positions in `windows.csv` shift
  when an earlier price is added or deleted, and nothing notices.
* Page: a health request that fails after a later one succeeded, or the reverse, leaves the
  badge and the connection flag apart; the monitor stops for good after one failure; a list
  that was read earlier and arrives later overwrites the newer one; a chat that is loaded
  after a message was sent is overwritten at the wrong place.
* The check of stop losses (`jobs/intraday.py`) says that it compares with the latest price
  but fetches none, and takes the newest entry although an exit may have come later.

## 7 What is not modelled

* Point-in-time reads, the read-only API, skills: queries without state, whose hard part is
  dates in a filter; tests reach it.
* Backtests, learned models, technical analysis, the experiments in `tools/`: statistics and
  floating point over price frames, which TLC cannot represent faithfully. Of the tools, the
  four that keep state across deaths or among actors are modelled.
* Language-model providers, adapters of market data, notifications: network I/O; the models
  that call them take every answer and every failure.
* The agent bridge: another front of operations that are modelled.
* Sessions and seeds: what they guarantee (one session per request, a transaction from the
  first write, unique keys) is built into each model.
* Within the modelled components: texts, notes, mirrors to files, statistics of reports,
  searches, backups, settings; the pages of the web interface other than the connection and the
  positions; API schemas and the generations of migrations by alembic.

The map covers about 14% of the lines of implementation. Of the rest, more than a quarter
are the one-off analysis tools and their reports (15,600 lines in `tools/`, of which about
1,000 are mapped), an eighth the pages of the web interface, and most of what is left are
adapters of remote services, models of tables and of requests, formatting of reports and
statistics. Definitions for them would stand for no decision of the program.

## 8 Plan

Built so far, in this order: the review loop with its abstract ledger, the portfolio manager,
the kill switch, the post-market batch, the positions; then chat, actions and memories; the
signal pipeline, prices, providers and job records; the ledgers, the schema, the tracker, the
studies, the caches; the data and the training; the page; the long-term team.

What is left, most valuable first:

1. The files of the layered memory; the alerts of the intraday job; the chat page; the
   strategy of the portfolio backtest.
2. Of the proofs: the state after overlapping requests in `MemoryPromotion` (which verdicts
   can come apart, and which cannot), and the steps of the liveness arguments that are
   safety (what a fair step leads to) as lemmas.

## 9 Running it

`tlc -workers 2 -config <run>.cfg <module>` checks a run, `PROJECT.json` names the module of
each; `tlapm <module>.tla` checks the proofs of a module. With two workers `records` takes
about two and a half minutes, `market_day` more than two, `assistant` about one, `portfolio` and
`promo_concurrent` one to two, the others seconds. The proofs take a few minutes in all.
