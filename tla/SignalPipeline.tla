--------------------------- MODULE SignalPipeline ---------------------------
(***************************************************************************)
(* decision/aggregator.py and agents/: from a composite score to the       *)
(* recommendation and the size that the allocation of the batch reads.     *)
(*                                                                         *)
(* "v1" is aggregate, the official path; "v2" is aggregate_v2 over         *)
(* run_pipeline, whose rules are applied one after the other: trader, cap  *)
(* of a long-term label, risk manager, regime filter.  Two lanes go        *)
(* through the same rules: "this" stock, and the same stock under "worse"  *)
(* conditions.  Scores are in tenths, sizes in millionths of the capital;  *)
(* the settings are the defaults of config.py, and the caps of Caps.       *)
(***************************************************************************)
EXTENDS Integers

CONSTANTS
  Scores,          \* composite scores of the analysts and the researcher
  EntryThreshold,  \* entry_threshold of the weights
  Caps,            \* values of long_term_watch_score_cap
  MaxPosition,     \* max_position_per_stock
  TrialPosition    \* new_signal_trial_pct

ASSUME ScoresAssumption == Scores \subseteq -1000 .. 1000 /\ Caps \subseteq -1000 .. 1000
ASSUME SizesAssumption == {MaxPosition, TrialPosition, EntryThreshold} \subseteq Nat

VARIABLES
  path,      \* "v1" or "v2"
  cap,       \* the cap of a label that says to wait
  given,     \* what each lane is given
  signal,    \* the signal of each lane
  rule       \* the rule that is next

SignalVars == <<path, cap, given, signal, rule>>

Lanes == {"this", "worse"}

\* Market: the z-score of RSRS, below rsrs_bearish_z or even below -1.
\* Breadth: the diffusion, below diffusion_threshold or even below 0.2.
\* Drawdown, in percent.  A label that is not enforced is "none".
Given ==
  [score : Scores,
   market : {"fair", "bearish", "panic"},
   breadth : {"fair", "weak", "collapsed"},
   drawdown : {0, -5, -9},
   limitUp : BOOLEAN,
   label : {"none", "watch", "overvalued", "avoid"}]

Recommendations == {"entry", "watch", "hold", "exit"}

\* A score that is equal to the threshold is not an entry.
ScoreToRecommendation(s) ==
  CASE s > EntryThreshold -> "entry"
    [] s > 0 /\ s <= EntryThreshold -> "watch"
    [] s > -200 /\ s <= 0 -> "hold"
    [] s <= -200 -> "exit"

-----------------------------------------------------------------------------
(* suggest_position_pct.                                                   *)
Absolute(s) == IF s < 0 THEN -s ELSE s
ConfidencePercent(s) ==
  CASE Absolute(s) >= 600 -> 120
    [] Absolute(s) >= 300 /\ Absolute(s) < 600 -> 100
    [] Absolute(s) < 300 -> 70

\* Variant for mutation: two rungs of the ladder are swapped.
Ladder_Swapped(s) == IF s >= 500 THEN 100 ELSE IF s >= 400 THEN 50 ELSE 75
Ladder(s) == IF s >= 500 THEN 100 ELSE IF s >= 400 THEN 75 ELSE 50

Least(a, b) == IF a < b THEN a ELSE b
SuggestPosition(s, drawdown) ==
  LET Percent(n, p) == (n * p) \div 100
      full == Percent(Percent(MaxPosition, Ladder(s)), ConfidencePercent(s))
  IN  IF s < EntryThreshold THEN 0
      ELSE IF s < 300 THEN Least(TrialPosition, MaxPosition)
      ELSE Least(MaxPosition, IF drawdown < -4 THEN Percent(full, 50) ELSE full)

-----------------------------------------------------------------------------
NoSignal == [score |-> 0, rec |-> "hold", size |-> 0, trader |-> "hold",
             suggested |-> 0, vetoed |-> FALSE, lowered |-> FALSE, dampened |-> FALSE]

\* What is worse than g in one respect.
WorseThan(g) ==
  LET below(level) == CASE level = "fair" -> {"bearish", "panic"}
                        [] level = "bearish" -> {"panic"} [] OTHER -> {}
      narrower(level) == CASE level = "fair" -> {"weak", "collapsed"}
                           [] level = "weak" -> {"collapsed"} [] OTHER -> {}
      stricter(label) == CASE label = "none" -> {"watch", "overvalued", "avoid"}
                           [] label = "overvalued" -> {"avoid"} [] OTHER -> {}
  IN       {[g EXCEPT !.score = s] : s \in {t \in Scores : t < g.score}}
      \cup {[g EXCEPT !.market = m] : m \in below(g.market)}
      \cup {[g EXCEPT !.breadth = b] : b \in narrower(g.breadth)}
      \cup {[g EXCEPT !.drawdown = d] : d \in {e \in {-5, -9} : e < g.drawdown}}
      \cup {[g EXCEPT !.limitUp = TRUE]}
      \cup {[g EXCEPT !.label = l] : l \in stricter(g.label)}

SignalInit ==
  /\ path \in {"v1", "v2"}
  /\ cap \in Caps
  /\ \E g \in Given : \E w \in WorseThan(g) :
       given = [l \in Lanes |-> IF l = "this" THEN g ELSE w]
  /\ signal = [l \in Lanes |-> NoSignal]
  /\ rule = "propose"

\* A rule applies to both lanes; the next one is due.
Apply(this, Rule(_, _), next) ==
  /\ rule = this
  /\ signal' = [l \in Lanes |-> Rule(signal[l], given[l])]
  /\ rule' = next
  /\ UNCHANGED <<path, cap, given>>

IsEntry(x) == x.trader = "entry"
Refused(x) == [x EXCEPT !.vetoed = TRUE, !.rec = "hold", !.size = 0]
Sized(x, percent) == [x EXCEPT !.size = (@ * percent) \div 100]

-----------------------------------------------------------------------------
(* The trader; aggregate does the same without the drawdown.               *)
Proposal(x, g) ==
  LET rec == ScoreToRecommendation(g.score)
  IN  [x EXCEPT !.score = g.score, !.rec = rec, !.trader = rec,
         !.size = SuggestPosition(g.score, IF path = "v2" THEN g.drawdown ELSE 0)]
Propose == Apply("propose", Proposal, IF path = "v1" THEN "constrain" ELSE "cap")

(* apply_research_constraints, the last rule of "v1".                      *)
Constrained(x, g) ==
  CASE g.label = "avoid" /\ IsEntry(x) -> Refused(x)
    [] g.label = "overvalued" /\ IsEntry(x) -> Sized(x, 50)
    [] g.label = "watch" /\ x.score > cap ->
         LET rec == ScoreToRecommendation(cap)
         IN  [x EXCEPT !.score = cap, !.rec = rec, !.size = IF rec = "entry" THEN @ ELSE 0]
    [] OTHER -> x
Allocated(x, g) == [Constrained(x, g) EXCEPT !.suggested = Constrained(x, g).size]
Constrain == Apply("constrain", Allocated, "done")

(* The cap of run_pipeline: the size stays that of the uncapped score.     *)
\* Variant for mutation: the recommendation is not computed again.
Capped_KeepsRecommendation(x, g) ==
  IF g.label = "watch" /\ x.score > cap THEN [x EXCEPT !.score = cap] ELSE x
Capped(x, g) ==
  IF g.label = "watch" /\ x.score > cap
  THEN LET rec == ScoreToRecommendation(cap)
       IN  [x EXCEPT !.score = cap, !.rec = rec, !.trader = rec]
  ELSE x
Cap == Apply("cap", Capped, "market")

-----------------------------------------------------------------------------
(* The risk manager; each rule looks at the recommendation of the trader.  *)
Market(x, g) == IF g.market = "panic" /\ IsEntry(x) THEN Refused(x) ELSE x
ReviewMarket == Apply("market", Market, "breadth")

\* Variant for mutation: the size of the trader is scaled again.
Breadth_FromTrader(x, g) ==
  IF g.breadth = "collapsed" /\ IsEntry(x)
  THEN Sized([x EXCEPT !.rec = "watch", !.lowered = TRUE,
                       !.size = SuggestPosition(g.score, g.drawdown)], 70)
  ELSE x
Breadth(x, g) ==
  IF g.breadth = "collapsed" /\ IsEntry(x)
  THEN Sized([x EXCEPT !.rec = "watch", !.lowered = TRUE], 70)
  ELSE x
ReviewBreadth == Apply("breadth", Breadth, "drawdown")

Drawdown(x, g) == IF g.drawdown < -8 /\ IsEntry(x) THEN Refused(x) ELSE x
ReviewDrawdown == Apply("drawdown", Drawdown, "limit")

LimitUp(x, g) == IF g.limitUp /\ IsEntry(x) THEN Sized(x, 50) ELSE x
ReviewLimit == Apply("limit", LimitUp, "tiny")

Tiny(x, g) == IF x.size < 20000 THEN [x EXCEPT !.size = 0] ELSE x
ReviewTiny == Apply("tiny", Tiny, "label")

\* The last rule; its size is the one that the allocation reads.
Label(x, g) ==
  CASE g.label = "avoid" /\ IsEntry(x) -> Refused(x)
    [] g.label = "overvalued" /\ IsEntry(x) -> Sized(x, 50)
    [] OTHER -> x
Reviewed(x, g) == [Label(x, g) EXCEPT !.suggested = Label(x, g).size]
ReviewLabel == Apply("label", Reviewed, "regime")

(* The regime filter of aggregate_v2: score and displayed size only.       *)
Dampened(x, g) ==
  IF (g.market # "fair" \/ g.breadth # "fair") /\ x.score > 0
  THEN Sized([x EXCEPT !.score = (@ * 7) \div 10, !.dampened = TRUE], 70)
  ELSE x
Dampen == Apply("regime", Dampened, "done")

SignalNext ==
  \/ Propose \/ Constrain \/ Cap
  \/ ReviewMarket \/ ReviewBreadth \/ ReviewDrawdown \/ ReviewLimit \/ ReviewTiny
  \/ ReviewLabel \/ Dampen

SignalSpec == SignalInit /\ [][SignalNext]_SignalVars

-----------------------------------------------------------------------------
SignalTypeOK ==
  /\ path \in {"v1", "v2"} /\ cap \in Caps
  /\ given \in [Lanes -> Given]
  /\ \A l \in Lanes :
       /\ signal[l].rec \in Recommendations /\ signal[l].trader \in Recommendations
       /\ signal[l].score \in -1000 .. 1000
       /\ {signal[l].size, signal[l].suggested} \subseteq 0 .. MaxPosition

Done == rule = "done"

(* A veto cannot be undone by the rules after it, whichever of them apply: *)
(* a vetoed signal leaves as no entry and the allocation reads no size.    *)
(* (It may leave as one to watch, and is then still alerted.)              *)
VetoStands ==
  \A l \in Lanes : signal[l].vetoed => signal[l].rec # "entry" /\ signal[l].size = 0
                                       /\ signal[l].suggested = 0

\* The allocation reads the size of an entry only.  (At the threshold itself a
\* signal to watch has the trial size.)
Taken(x) == IF x.rec = "entry" THEN x.suggested ELSE 0

(* A worse score, market, breadth, drawdown, label or a limit-up never     *)
(* makes the size that the allocation takes larger, however the rules      *)
(* combine; but for one case: a drawdown halves each rung of the ladder    *)
(* and not the trial position below it.                                    *)
TrialBeatsTheLadder ==
  /\ given["this"].drawdown < -4 /\ path = "v2"
  /\ given["worse"].score < 300 /\ given["this"].score >= 300
WorseNeverTakesMore ==
  Done => Taken(signal["worse"]) <= Taken(signal["this"]) \/ TrialBeatsTheLadder

(* The recommendation is the one of the score it is saved with, except for *)
(* the three rules that are meant to part them: a veto, a lowered          *)
(* recommendation and the dampening of the score.                          *)
ScoreExplainsRecommendation ==
  \A l \in Lanes :
    Done => \/ signal[l].rec = ScoreToRecommendation(signal[l].score)
            \/ signal[l].vetoed \/ signal[l].lowered \/ signal[l].dampened
=============================================================================
