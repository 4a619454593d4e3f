---------------------------- MODULE PriceBackfill ----------------------------
(***************************************************************************)
(* data/market_persistence.py, backfill_if_needed: the daily prices of one *)
(* stock, refreshed every morning by the pre-market job and at any time by *)
(* requests, and filled up by an initialisation.                           *)
(*                                                                         *)
(* Days are trading days.  A stored row is an "early" price (fetched while *)
(* the market was open), a "final" one, or one on the "scaled" basis       *)
(* (back-adjusted, several times as high) that the guard of M42 is for.    *)
(***************************************************************************)
EXTENDS Naturals, Sequences, FiniteSets, FiniteSetsExt

CONSTANTS
  Fetchers,         \* sessions that may backfill at the same time
  FirstDay,         \* the day on which the model begins, after a full history
  LastDay,          \* bound on the days
  RefreshWindow,    \* REFRESH_WINDOW_DAYS
  PrecedingWindow,  \* rows of the guard's baseline (10)
  MinUsable,        \* rows the guard needs (5)
  MaxFetches        \* bound on the backfills

ASSUME BackfillAssumption ==
  /\ {FirstDay, LastDay, RefreshWindow, PrecedingWindow, MinUsable} \subseteq Nat
  /\ FirstDay <= LastDay /\ MinUsable <= PrecedingWindow
  /\ MinUsable > 0 /\ FirstDay > RefreshWindow + MinUsable

VARIABLES
  today,    \* date.today()
  marketClosed, \* is the market closed for the day
  row,      \* the row of each day in prices, or "none"
  session,  \* what each session has read and fetched
  fetches   \* backfills so far

PriceVars == <<today, marketClosed, row, session, fetches>>

TradingDays == 1 .. LastDay
NoBars == [d \in TradingDays |-> "none"]
\* said: the days that the answer had a bar for.
NoFetch == [pc |-> "idle", refresh |-> FALSE, latest |-> 0, said |-> {}, bars |-> NoBars]

\* A stock with the full history up to the day before.
PricesInit ==
  /\ today = FirstDay /\ marketClosed = FALSE
  /\ row = [d \in TradingDays |-> IF d < FirstDay THEN "final" ELSE "none"]
  /\ session = [f \in Fetchers |-> NoFetch]
  /\ fetches = 0

RowDays(rows) == {d \in TradingDays : rows[d] # "none"}

-----------------------------------------------------------------------------
\* get_latest_price_date; a fresh stock is left alone unless it is refreshed.
LookLatest(f, refresh) ==
  LET latest == Max(RowDays(row)) IN
  /\ session[f].pc = "idle" /\ fetches < MaxFetches
  /\ refresh \/ today > latest
  /\ fetches' = fetches + 1
  /\ session' = [session EXCEPT ![f] =
                   [NoFetch EXCEPT !.pc = "fetch", !.refresh = refresh, !.latest = latest]]
  /\ UNCHANGED <<today, marketClosed, row>>

\* What a provider returns for some days.  The bar of today is final once the
\* market is closed; a provider that fell back to another basis scales every bar.
Bars(scaled, days) ==
  [d \in TradingDays |->
     IF d \notin days THEN "none"
     ELSE IF scaled THEN "scaled"
     ELSE IF d = today /\ ~marketClosed THEN "early" ELSE "final"]

\* The days whose bars are kept: the window of a refresh, else what is new.
\* Variant for mutation: the refresh keeps what is new only.
Kept_OnlyNew(s) == {d \in 1 .. today : d > s.latest}
Kept(s) == {d \in 1 .. today : IF s.refresh THEN d + RefreshWindow >= today ELSE d > s.latest}

\* The days of an answer that are looked at.  fetch_days go back beyond them,
\* but a provider may lag, and a history may have gaps: any of them may be missing.
Asked(s) ==
  {d \in 1 .. today : IF s.refresh THEN d + RefreshWindow >= today ELSE d > s.latest}

FetchBars(f) ==
  LET s == session[f] IN
  /\ s.pc = "fetch"
  /\ \E scaled \in BOOLEAN, days \in SUBSET Asked(s) :
       session' = [session EXCEPT ![f].pc = "write",
                                  ![f].said = days,
                                  ![f].bars = Bars(scaled, days \cap Kept(s))]
  /\ UNCHANGED <<today, marketClosed, row, fetches>>

\* The fetch raises (no provider), or the job dies: nothing was written.
FetchFails(f) ==
  /\ session[f].pc \in {"fetch", "write"}
  /\ session' = [session EXCEPT ![f] = NoFetch]
  /\ UNCHANGED <<today, marketClosed, row, fetches>>

-----------------------------------------------------------------------------
(* The guard.  Prices are on two levels, so the median of the baseline is  *)
(* far below a scaled price unless at least half of the rows are scaled.   *)
Jumps(price, baseline) ==
  /\ price = "scaled"
  /\ Len(baseline) >= MinUsable
  /\ 2 * Cardinality({i \in DOMAIN baseline : baseline[i] = "scaled"}) < Len(baseline)

Latest(n, s) == SubSeq(s, IF Len(s) > n THEN Len(s) - n + 1 ELSE 1, Len(s))

\* The closes of the last rows that are left after the delete.
Seed(rows) ==
  LET upTo[d \in 0 .. LastDay] ==
        IF d = 0 THEN <<>>
        ELSE IF rows[d] = "none" THEN upTo[d - 1] ELSE Append(upTo[d - 1], rows[d])
  IN  Latest(PrecedingWindow, upTo[LastDay])

\* The bars are taken in their order; an accepted one joins the baseline.
\* Variant for mutation: a rejected one joins it too.
AcceptBar_SlidesAnyway(acc, day, price) ==
  [rows |-> IF Jumps(price, acc.baseline) THEN acc.rows
            ELSE [acc.rows EXCEPT ![day] = price],
   baseline |-> Latest(PrecedingWindow, Append(acc.baseline, price))]
AcceptBar(acc, day, price) ==
  IF Jumps(price, acc.baseline) THEN acc
  ELSE [rows |-> [acc.rows EXCEPT ![day] = price],
        baseline |-> Latest(PrecedingWindow, Append(acc.baseline, price))]

Inserted(rows, bars) ==
  LET upTo[d \in 0 .. LastDay] ==
        IF d = 0 THEN [rows |-> rows, baseline |-> Seed(rows)]
        ELSE IF bars[d] = "none" THEN upTo[d - 1]
        ELSE AcceptBar(upTo[d - 1], d, bars[d])
  IN  upTo[LastDay].rows

\* The delete opens the transaction that the inserts commit.
Deleted(s) == [d \in TradingDays |-> IF s.bars[d] = "none" THEN row[d] ELSE "none"]

WriteBars(f) ==
  LET s == session[f] IN
  /\ s.pc = "write" /\ RowDays(s.bars) # {}
  /\ s.refresh \/ RowDays(s.bars) \cap RowDays(row) = {}
  /\ row' = Inserted(IF s.refresh THEN Deleted(s) ELSE row, s.bars)
  /\ session' = [session EXCEPT ![f] = NoFetch]
  /\ UNCHANGED <<today, marketClosed, fetches>>

\* Nothing was fetched, or another session has inserted one of the rows since
\* and the unique key turns the whole insert down.
WriteNothing(f) ==
  LET s == session[f] IN
  /\ s.pc = "write"
  /\ \/ RowDays(s.bars) = {}
     \/ ~s.refresh /\ RowDays(s.bars) \cap RowDays(row) # {}
  /\ session' = [session EXCEPT ![f] = NoFetch]
  /\ UNCHANGED <<today, marketClosed, row, fetches>>

-----------------------------------------------------------------------------
CloseMarket ==
  /\ ~marketClosed /\ marketClosed' = TRUE
  /\ UNCHANGED <<today, row, session, fetches>>

\* No request outlives its day; nothing says that the job has run on it.
NextDay ==
  /\ marketClosed /\ today < LastDay
  /\ \A f \in Fetchers : session[f].pc = "idle"
  /\ today' = today + 1 /\ marketClosed' = FALSE
  /\ UNCHANGED <<row, session, fetches>>

PricesNext ==
  \/ \E f \in Fetchers :
       \/ \E refresh \in BOOLEAN : LookLatest(f, refresh)
       \/ FetchBars(f) \/ FetchFails(f) \/ WriteBars(f) \/ WriteNothing(f)
  \/ CloseMarket \/ NextDay

PricesDone == marketClosed /\ today = LastDay /\ \A f \in Fetchers : session[f].pc = "idle"

PricesSpec == PricesInit /\ [][PricesNext]_PriceVars

-----------------------------------------------------------------------------
PricesTypeOK ==
  /\ today \in FirstDay .. LastDay /\ marketClosed \in BOOLEAN
  /\ row \in [TradingDays -> {"none", "early", "final", "scaled"}]
  /\ fetches \in 0 .. MaxFetches

(* Once a stock has a history, no scaled price is ever stored, in whatever *)
(* order refreshes and fills follow each other and overlap, with gaps and  *)
(* with rows that earlier scaled answers have left missing.                *)
NoScaledRow == \A d \in TradingDays : row[d] # "scaled"

(* A refresh that stores anything settles the days before that it was      *)
(* answered: such a day inside the window has its final price or none.  An *)
(* early price can stay only where the provider lags and says nothing of   *)
(* the day.                                                                *)
RefreshSettles ==
  [][\A f \in Fetchers :
       WriteBars(f) /\ session[f].refresh =>
         \A d \in session[f].said :
           d < today /\ d + RefreshWindow >= today => row'[d] # "early"]_PriceVars

(* As check_adjustment_basis_jump has it, a row that looks scaled is       *)
(* skipped: the price that is stored for a day is not lost.                *)
NoPriceIsLost == [][\A d \in TradingDays : row[d] # "none" => row'[d] # "none"]_PriceVars
=============================================================================
