----------------------------- MODULE GateTracker -----------------------------
(***************************************************************************)
(* research/gate_b_recorder.py and tools/gate_b_tracker.py: the command    *)
(* that records an observation for each signal of a stock, and later fills *)
(* in what came of it, while the prices it reads are kept by other jobs.   *)
(*                                                                         *)
(* Both passes commit row by row and may be cut off at any row.  A close   *)
(* is missing, plain, or of another scale (adjusted another way), which is *)
(* all that the check of the ratio tells apart; returns, the verdicts of   *)
(* the gate and the report are left out.  Days are calendar days, and one  *)
(* without a close is no trading day, or a gap.                            *)
(***************************************************************************)
EXTENDS Integers, FiniteSets, FiniteSetsExt

CONSTANTS
  SignalDays,     \* days with a signal
  LastDay,        \* bound on the calendar
  Horizon,        \* horizon_days of an observation
  MaxSpan,        \* max_forward_span_days
  MaxWait         \* calendar days after which few closes are given up

ASSUME CalendarAssumption == LastDay \in Nat /\ SignalDays \subseteq 1 .. LastDay
ASSUME HorizonAssumption == Horizon \in Nat \ {0} /\ MaxSpan >= Horizon /\ MaxWait >= MaxSpan

VARIABLES
  today,
  close,          \* table prices: the close of each day
  observed,       \* table gate_b_observations, by the day of the signal
  pass            \* the pass under way, with the rows it still has to treat

CalendarDays == 1 .. LastDay
Closes == {"none", "plain", "scaled"}
Decided == {"realized", "data_error", "unrealizable"}

NoObservation == [status |-> "absent", entry |-> "none"]
NoPass == [kind |-> "none", asOf |-> 0, left |-> {}, due |-> {}]

GateInit ==
  /\ today = 1
  /\ close \in [CalendarDays -> {"none", "plain"}]
  /\ \A d \in CalendarDays : d > today => close[d] = "none"
  /\ observed = [d \in SignalDays |-> NoObservation]
  /\ pass = NoPass

\* The next row of the pass, in the order of the days.
Next1(left) == Min(left)
Rest(d) == pass' = [pass EXCEPT !.left = @ \ {d}]

\* The days after day d and up to asOf that have a close.
Later(d, asOf) == {e \in CalendarDays : d < e /\ e <= asOf /\ close[e] # "none"}

-----------------------------------------------------------------------------
(* The prices, as the daily jobs leave them: a day passes with a close or  *)
(* without one, a gap is filled, a row is written again at another scale,  *)
(* a refresh deletes a row and does not put it back.                       *)
NextDay(c) ==
  /\ today < LastDay
  /\ today' = today + 1
  /\ close' = [close EXCEPT ![today + 1] = c]
  /\ UNCHANGED <<observed, pass>>

FillGap(d) ==
  /\ d <= today /\ close[d] = "none"
  /\ close' = [close EXCEPT ![d] = "plain"]
  /\ UNCHANGED <<today, observed, pass>>

Rescale(d) ==
  /\ d <= today /\ close[d] = "plain"
  /\ close' = [close EXCEPT ![d] = "scaled"]
  /\ UNCHANGED <<today, observed, pass>>

\* To state what the pass must do, those whose turn is to come and which are
\* no longer due are struck off.
StillDue(d) ==
  {e \in pass.due : e \in pass.left =>
                       Cardinality(Later(e, pass.asOf) \ {d}) >= Horizon}

Remove(d) ==
  /\ close[d] # "none"
  /\ close' = [close EXCEPT ![d] = "none"]
  /\ pass' = [pass EXCEPT !.due = StillDue(d)]
  /\ UNCHANGED <<today, observed>>

-----------------------------------------------------------------------------
(* record_observations: the signals up to today, each once.                *)
StartRecord ==
  /\ pass = NoPass
  /\ pass' = [NoPass EXCEPT !.kind = "record", !.asOf = today,
                            !.left = {d \in SignalDays : d <= today}]
  /\ UNCHANGED <<today, close, observed>>

\* The entry is the close that the day has now, and is not looked up again.
RecordOne(d) ==
  /\ pass.kind = "record" /\ pass.left # {} /\ d = Next1(pass.left)
  /\ observed' = IF observed[d] # NoObservation THEN observed
                 ELSE [observed EXCEPT ![d] = [status |-> "pending", entry |-> close[d]]]
  /\ Rest(d)
  /\ UNCHANGED <<today, close>>

-----------------------------------------------------------------------------
\* The first Horizon of the closes that the pass sees.
Window(d) ==
  LET later == Later(d, pass.asOf)
  IN {e \in later : Cardinality({f \in later : f <= e}) <= Horizon}

Matured(d) == Cardinality(Window(d)) = Horizon

Plausible(d) ==
  LET exit == Max(Window(d)) IN
    close[exit] = observed[d].entry /\ exit - d <= MaxSpan

\* What becomes of a pending observation with an entry.
Outcome(d) ==
  IF Matured(d) THEN (IF Plausible(d) THEN "realized" ELSE "data_error")
  ELSE IF Window(d) # {} /\ Max(Window(d)) - d > MaxWait THEN "unrealizable"
  ELSE "pending"

Pending == {d \in SignalDays : observed[d].status = "pending"}

(* realize_returns: the pending observations, row by row.  What is due at  *)
(* the start is kept to state what the pass must do.                       *)
StartRealize ==
  /\ pass = NoPass
  /\ pass' = [kind |-> "realize", asOf |-> today, left |-> Pending,
              due |-> {d \in Pending : observed[d].entry # "none"
                                         /\ Cardinality(Later(d, today)) >= Horizon}]
  /\ UNCHANGED <<today, close, observed>>

\* Variant for mutation: the loop ends at a row without an entry.
PassOver_End(d) == pass' = [pass EXCEPT !.left = {}]
\* A row without an entry stays pending, and the loop goes on.
PassOver(d) == Rest(d)

RealizeOne(d) ==
  /\ pass.kind = "realize" /\ pass.left # {} /\ d = Next1(pass.left)
  /\ IF observed[d].entry = "none"
     THEN PassOver(d) /\ UNCHANGED observed
     ELSE Rest(d) /\ observed' = [observed EXCEPT ![d].status = Outcome(d)]
  /\ UNCHANGED <<today, close>>

\* The command ends, or is cut off with rows left.
EndPass ==
  /\ pass # NoPass
  /\ pass' = NoPass
  /\ UNCHANGED <<today, close, observed>>

TrackerNext ==
  \/ \E c \in {"none", "plain"} : NextDay(c)
  \/ \E d \in CalendarDays : FillGap(d) \/ Rescale(d) \/ Remove(d)
  \/ StartRecord \/ StartRealize \/ EndPass
  \/ \E d \in SignalDays : RecordOne(d) \/ RealizeOne(d)

TrackerVars == <<today, close, observed, pass>>
TrackerSpec == GateInit /\ [][TrackerNext]_TrackerVars

-----------------------------------------------------------------------------
(* A pass that comes to its end has decided every observation that was due *)
(* when it began and of which enough closes were there up to its turn,     *)
(* whatever its other rows lack, and whichever other closes come, change   *)
(* or go meanwhile (realize_returns).  One that loses a close first stays  *)
(* pending for a later pass.                                               *)
MaturedIsDecided ==
  pass.kind = "realize" /\ pass.left = {} =>
    \A d \in pass.due : observed[d].status \in Decided
=============================================================================
