------------------------------ MODULE JobRunner ------------------------------
(***************************************************************************)
(* scheduler.py, run_tracked_job, and api/routes/system.py, the cold       *)
(* start.  Both keep one record in memory for whatever runs: JOB_STATE of  *)
(* the post-market job, _init_state of the initialisation.  The scheduler  *)
(* never overlaps its own runs, but each initialisation runs the job too,  *)
(* in the thread of a background task.                                     *)
(***************************************************************************)
EXTENDS Naturals, FiniteSets

CONSTANTS
  Tasks,   \* background tasks of accepted POST /system/initialize
  Cron     \* the run of the scheduler

ASSUME CronAssumption == Cron \notin Tasks

VARIABLES
  record,  \* JOB_STATE["postmarket"]
  start,   \* _init_state
  at,      \* where each task and the scheduler's run are
  count,   \* the counter each of them has read
  ended    \* runs of the job that have ended

JobVars == <<record, start, at, count, ended>>

Runners == Tasks \cup {Cron}
NeverRun == [running |-> FALSE, status |-> "never_run", successes |-> 0, errors |-> 0]
NotStarted == [running |-> FALSE, step |-> "idle"]

JobsInit ==
  /\ record = NeverRun /\ start = NotStarted
  /\ at = [r \in Runners |-> "idle"]
  /\ count = [r \in Runners |-> 0]
  /\ ended = 0

Goes(r, from, to) == at[r] = from /\ at' = [at EXCEPT ![r] = to]

-----------------------------------------------------------------------------
(* start_initialize: the request looks at the record, the task sets it.    *)
Accept(t) ==
  /\ ~start.running /\ Goes(t, "idle", "queued")
  /\ UNCHANGED <<record, start, count, ended>>

Refuse(t) ==
  /\ start.running /\ Goes(t, "idle", "refused")
  /\ UNCHANGED <<record, start, count, ended>>

\* _run_initialize.
BeginStart(t) ==
  /\ Goes(t, "queued", "prices")
  /\ start' = [running |-> TRUE, step |-> "prices"]
  /\ UNCHANGED <<record, count, ended>>

StepsOfStart == <<"prices", "financials", "disclosure", "signals">>
NextStep(t) ==
  \E i \in 1 .. 3 :
    /\ Goes(t, StepsOfStart[i], StepsOfStart[i + 1])
    /\ start' = [start EXCEPT !.step = StepsOfStart[i + 1]]
    /\ UNCHANGED <<record, count, ended>>

\* A step that raises, and the job that raises in the last one.
StartFails(t) ==
  /\ \E i \in 1 .. 4 : Goes(t, StepsOfStart[i], "leave") \/ Goes(t, "raised", "leave")
  /\ start' = [start EXCEPT !.step = "error"]
  /\ UNCHANGED <<record, count, ended>>

StartDone(t) ==
  /\ Goes(t, "returned", "leave")
  /\ start' = [start EXCEPT !.step = "done"]
  /\ UNCHANGED <<record, count, ended>>

\* The finally: the record is free whichever way the task went.
LeaveStart(t) ==
  /\ Goes(t, "leave", "gone")
  /\ start' = [start EXCEPT !.running = FALSE]
  /\ UNCHANGED <<record, count, ended>>

-----------------------------------------------------------------------------
(* run_tracked_job.  A job that the kill switch skips succeeds.            *)
StartJob(r) ==
  /\ Goes(r, IF r = Cron THEN "idle" ELSE "signals", "job")
  /\ record' = [record EXCEPT !.running = TRUE, !.status = "running"]
  /\ UNCHANGED <<start, count, ended>>

\* The counter is read into the new record before the update.
ReadCount(r) ==
  /\ \/ Goes(r, "job", "succeeds") /\ count' = [count EXCEPT ![r] = record.successes]
     \/ Goes(r, "job", "errs") /\ count' = [count EXCEPT ![r] = record.errors]
  /\ UNCHANGED <<record, start, ended>>

EndJob(r) ==
  /\ Goes(r, "succeeds", "returned")
  /\ record' = [record EXCEPT !.running = FALSE, !.status = "success",
                              !.successes = count[r] + 1]
  /\ ended' = ended + 1
  /\ UNCHANGED <<start, count>>

\* Variant for mutation: the error is counted and the flag stays.
FailJob_KeepsFlag(r) ==
  /\ Goes(r, "errs", "raised")
  /\ record' = [record EXCEPT !.status = "error", !.errors = count[r] + 1]
  /\ ended' = ended + 1
  /\ UNCHANGED <<start, count>>
FailJob(r) ==
  /\ Goes(r, "errs", "raised")
  /\ record' = [record EXCEPT !.running = FALSE, !.status = "error",
                              !.errors = count[r] + 1]
  /\ ended' = ended + 1
  /\ UNCHANGED <<start, count>>

JobsNext ==
  \/ \E t \in Tasks :
       \/ Accept(t) \/ Refuse(t) \/ BeginStart(t) \/ NextStep(t)
       \/ StartFails(t) \/ StartDone(t) \/ LeaveStart(t)
  \/ \E r \in Runners : StartJob(r) \/ ReadCount(r) \/ EndJob(r) \/ FailJob(r)

JobsDone == \A r \in Runners : at[r] \in {"refused", "gone"} \/ (r = Cron /\ at[r] \in {"returned", "raised"})

JobsSpec == JobsInit /\ [][JobsNext]_JobVars

-----------------------------------------------------------------------------
InJob(r) == at[r] \in {"job", "succeeds", "errs"}
InStart(t) == at[t] \notin {"idle", "queued", "refused", "gone"}

JobsTypeOK ==
  /\ record \in [running : BOOLEAN, status : {"never_run", "running", "success", "error"},
                 successes : Nat, errors : Nat]
  /\ start \in [running : BOOLEAN,
                step : {"idle", "prices", "financials", "disclosure", "signals", "done", "error"}]
  /\ ended \in Nat

(* However runs overlap on one record: once nothing runs, both records say *)
(* so, with the verdict of a run that has ended, and a start is accepted   *)
(* again.  Counts may be lost when runs end together, but a run that ended *)
(* is never counted twice and the first one never forgotten.               *)
RecordsComeToRest ==
  /\ (\A t \in Tasks : ~InStart(t)) => ~start.running /\ start.step \in {"idle", "done", "error"}
  /\ (\A r \in Runners : ~InJob(r)) => ~record.running /\ record.status # "running"
  /\ record.successes + record.errors <= ended
  /\ ended > 0 => record.successes + record.errors > 0
=============================================================================
