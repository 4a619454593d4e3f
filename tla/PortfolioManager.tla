-------------------------- MODULE PortfolioManager --------------------------
(***************************************************************************)
(* agents/portfolio_manager.py, manage: the targets for one batch of       *)
(* analysed stocks under the per-stock, per-sector and total limits.       *)
(*                                                                         *)
(* One action is one turn of one of its three loops: count what is held,   *)
(* close what the signals say to leave, then serve the survivors by        *)
(* descending score.  Scores are free, so the survivors are served in any  *)
(* order.  Weights are whole units of equity (the code rounds to basis     *)
(* points); labels, rationales and notes are left out.                     *)
(***************************************************************************)
EXTENDS Integers, FiniteSets, Functions

CONSTANTS
  Stocks,        \* the batch
  Sectors,
  Weights,       \* weights a position or a suggestion may have
  MaxStock,      \* settings.max_position_per_stock
  MaxSector,     \* settings.max_position_per_sector
  MaxTotal,      \* settings.max_total_equity_pct
  MinPosition    \* 2%: what is smaller is not opened

ASSUME BatchAssumption == IsFiniteSet(Stocks)
ASSUME WeightsAssumption == Weights \subseteq Nat /\ 0 \in Weights
ASSUME LimitsAssumption ==
  MaxStock \in Nat /\ MaxSector \in Nat /\ MaxTotal \in Nat /\ MinPosition \in Nat \ {0}

VARIABLES
  candidate,     \* the batch as _apply_portfolio_decision builds it
  enabled,       \* settings.portfolio_manager_enabled
  freeze,        \* drawdown_freeze
  toCount,       \* stocks the counting loop has not seen
  toDecide,      \* stocks without an allocation
  sectorUsed, totalUsed,
  target         \* target_position_pct; the current weight until decided

vars == <<candidate, enabled, freeze, toCount, toDecide, sectorUsed, totalUsed, target>>
batch == <<candidate, enabled, freeze>>

\* The recommendations fall into ENTRY_SET, EXIT_RECS and the rest.
Recommendations == {"entry", "exit", "watch"}

PortfolioCandidate ==
  [sector : Sectors, recommendation : Recommendations,
   suggested : Weights, current : Weights]

Held(s)    == candidate[s].current > 0
IsExit(s)  == candidate[s].recommendation = "exit"
IsEntry(s) == candidate[s].recommendation = "entry"

Least(a, b)    == IF a <= b THEN a ELSE b
Greatest(a, b) == IF a >= b THEN a ELSE b

Total(w) == SumFunction(w)
TotalIn(w, k) == SumFunctionOnSet(w, {s \in Stocks : candidate[s].sector = k})

\* The weight at the start of the stocks that pass the test.
Current(Test(_)) ==
  [s \in Stocks |-> IF Test(s) THEN candidate[s].current ELSE 0]

\* _open_position_weights scales the holdings to the total limit.
HoldingsFit(c) == SumFunction([s \in Stocks |-> c[s].current]) <= MaxTotal

Init ==
  /\ candidate \in [Stocks -> PortfolioCandidate]
  /\ HoldingsFit(candidate)
  /\ enabled \in BOOLEAN
  /\ freeze \in BOOLEAN
  /\ toCount = Stocks
  /\ toDecide = Stocks
  /\ sectorUsed = [k \in Sectors |-> 0]
  /\ totalUsed = 0
  /\ target = [s \in Stocks |-> candidate[s].current]

(* A sector's usage after w more of it, or less.                           *)
Use(k, w) == sectorUsed' = [sectorUsed EXCEPT ![k] = Greatest(0, @ + w)]

(* The manager is switched off: the trader's suggestions stand.            *)
PassThrough ==
  /\ ~enabled
  /\ toDecide # {}
  /\ target' = [s \in Stocks |-> candidate[s].suggested]
  /\ toCount' = {}
  /\ toDecide' = {}
  /\ UNCHANGED <<batch, sectorUsed, totalUsed>>

(* Step 1: what is held and not about to be closed uses budget.            *)
Counts(s) == Held(s) /\ ~IsExit(s)

Count(s) ==
  /\ enabled
  /\ s \in toCount
  /\ toCount' = toCount \ {s}
  /\ LET w == IF Counts(s) THEN candidate[s].current ELSE 0 IN
       /\ Use(candidate[s].sector, w)
       /\ totalUsed' = totalUsed + w
  /\ UNCHANGED <<batch, toDecide, target>>

(* Step 2: close on an exit signal; the weight is released.                *)
CloseExit(s) ==
  /\ enabled /\ toCount = {}
  /\ s \in toDecide /\ IsExit(s)
  /\ target' = [target EXCEPT ![s] = 0]
  /\ Use(candidate[s].sector, -candidate[s].current)
  /\ totalUsed' = totalUsed - candidate[s].current
  /\ toDecide' = toDecide \ {s}
  /\ UNCHANGED <<batch, toCount>>

\* The exits come first, then one survivor at a time.
NextSurvivor(s) ==
  /\ enabled /\ toCount = {}
  /\ s \in toDecide
  /\ \A x \in toDecide : ~IsExit(x)

\* No allocation but the one in place: hold, or reject.
LeaveAsIs(s) ==
  /\ toDecide' = toDecide \ {s}
  /\ UNCHANGED <<batch, toCount, sectorUsed, totalUsed, target>>

(* Step 3, neither entry nor exit.                                         *)
Hold(s) == NextSurvivor(s) /\ ~IsEntry(s) /\ LeaveAsIs(s)

(* Step 3, a drawdown of more than 8% opens no new position.               *)
RefuseFrozen(s) ==
  NextSurvivor(s) /\ IsEntry(s) /\ freeze /\ ~Held(s) /\ LeaveAsIs(s)

SectorRemaining(s) == Greatest(0, MaxSector - sectorUsed[candidate[s].sector])
TotalRemaining     == Greatest(0, MaxTotal - totalUsed)

\* Variants for mutation: one limit is forgotten.
Wanted_NoTotal(s) ==
  LET asked == Least(Least(candidate[s].suggested, MaxStock), SectorRemaining(s)) IN
    IF Held(s) THEN Least(Greatest(asked, candidate[s].current), MaxStock) ELSE asked
Wanted_NoSector(s) ==
  LET asked == Least(Least(candidate[s].suggested, MaxStock), TotalRemaining) IN
    IF Held(s) THEN Least(Greatest(asked, candidate[s].current), MaxStock) ELSE asked
Wanted_NoStockCap(s) ==
  LET asked == Least(candidate[s].suggested, Least(SectorRemaining(s), TotalRemaining)) IN
    IF Held(s) THEN Greatest(asked, candidate[s].current) ELSE asked

(* The smallest of the suggestion and what each limit leaves; a holding is *)
(* not sold for it, except down to the per-stock limit.                    *)
Wanted(s) ==
  LET asked == Least(Least(candidate[s].suggested, MaxStock),
                     Least(SectorRemaining(s), TotalRemaining)) IN
    IF Held(s) THEN Least(Greatest(asked, candidate[s].current), MaxStock)
               ELSE asked

(* Step 3, too small to be worth a position, or no budget left.            *)
RefuseSmall(s) ==
  /\ NextSurvivor(s) /\ IsEntry(s) /\ (freeze => Held(s))
  /\ Wanted(s) < MinPosition
  /\ LeaveAsIs(s)

Charge(s) == Wanted(s) - candidate[s].current

(* Step 3, open, add, hold or reduce.                                      *)
Allocate(s) ==
  /\ NextSurvivor(s) /\ IsEntry(s) /\ (freeze => Held(s))
  /\ Wanted(s) >= MinPosition
  /\ target' = [target EXCEPT ![s] = Wanted(s)]
  /\ Use(candidate[s].sector, Charge(s))
  /\ totalUsed' = Greatest(0, totalUsed + Charge(s))
  /\ toDecide' = toDecide \ {s}
  /\ UNCHANGED <<batch, toCount>>

Done == toDecide = {} /\ UNCHANGED vars

Next ==
  \/ PassThrough
  \/ \E s \in Stocks :
       \/ Count(s) \/ CloseExit(s) \/ Hold(s)
       \/ RefuseFrozen(s) \/ RefuseSmall(s) \/ Allocate(s)
  \/ Done

Spec == Init /\ [][Next]_vars

-----------------------------------------------------------------------------
TypeOK ==
  /\ candidate \in [Stocks -> PortfolioCandidate]
  /\ enabled \in BOOLEAN /\ freeze \in BOOLEAN
  /\ toCount \in SUBSET Stocks /\ toDecide \in SUBSET Stocks
  /\ sectorUsed \in [Sectors -> Nat] /\ totalUsed \in Int
  /\ target \in [Stocks -> Nat]

(* With closings, the targets still exceed a limit by no more than the     *)
(* weight that was closed, in total and in every sector, unless the        *)
(* holdings exceeded it before the batch.                                  *)
OvershootIsBounded ==
  (enabled /\ toDecide = {}) =>
    /\ Total(target) <= Greatest(MaxTotal + Total(Current(IsExit)),
                                 Total(Current(Counts)))
    /\ \A k \in Sectors :
         TotalIn(target, k) <= Greatest(MaxSector + TotalIn(Current(IsExit), k),
                                        TotalIn(Current(Counts), k))

(* What manage says of one stock: never more than the per-stock limit or   *)
(* what is held already, and a holding without an exit signal is sold down *)
(* to that limit at most, whatever the rest of the batch claims.           *)
StockWithinCap ==
  (enabled /\ toDecide = {}) =>
    \A s \in Stocks :
      /\ target[s] <= Greatest(MaxStock, candidate[s].current)
      /\ ~IsExit(s) => target[s] >= Least(MaxStock, candidate[s].current)

(* Serving the survivors never pushes the usage up beyond a limit.         *)
Serving == enabled /\ toCount = {}

UsageRisesWithinLimits ==
  [][Serving =>
       /\ totalUsed' <= totalUsed \/ totalUsed' <= MaxTotal
       /\ \A k \in Sectors :
            sectorUsed'[k] <= sectorUsed[k] \/ sectorUsed'[k] <= MaxSector]_vars

(* "max_total_equity_pct (80% by default)" bounds what the batch adds up   *)
(* to (agents/portfolio_manager.py, the limits in its header).             *)
TotalEquityLimit == (enabled /\ toDecide = {}) => Total(target) <= MaxTotal
=============================================================================
