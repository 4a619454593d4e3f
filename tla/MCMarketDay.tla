----------------------------- MODULE MCMarketDay -----------------------------
(***************************************************************************)
(* What a market day goes through, for TLC: the providers that are asked   *)
(* for prices, the refresh of the prices, the rules from a score to a      *)
(* signal, and the records of what runs.  They share no variable here, so  *)
(* one behaviour watches one of them, its focus.                           *)
(***************************************************************************)
EXTENDS SignalPipeline, Providers, PriceBackfill, JobRunner, TLC

CONSTANTS
  morning, added, abroad,  \* callers of fetch_daily
  quick, main, other       \* providers

VARIABLE focus

\* Two callers of one market; a job for the other.
EachMarket == (morning :> "CN") @@ (added :> "CN") @@ (abroad :> "US")
ByPriority == <<quick, main, other>>
EachCover == (quick :> {"CN"}) @@ (main :> {"CN"}) @@ (other :> {"US"})

\* Each threshold of a score, and a score on either side of it.
BoundaryScores == {-200, 0, 10, 250, 251, 300, 400, 500, 600}

DayVars == <<SignalVars, ProviderVars, PriceVars, JobVars, focus>>

\* The signals are set out where they are watched, and left blank elsewhere.
MCInit ==
  /\ focus \in {"signals", "providers", "prices", "jobs"}
  /\ IF focus = "signals" THEN SignalInit
     ELSE /\ path = "v1" /\ cap = 0 /\ rule = "done"
          /\ given = <<>> /\ signal = [l \in Lanes |-> NoSignal]
  /\ IF focus = "providers" THEN ProvidersInit
     ELSE /\ answers = [p \in Names |-> FALSE]
          /\ cooldown = [p \in Names |-> "none"]
          /\ call = [c \in Callers |-> NoCall]
  /\ PricesInit /\ JobsInit

MCNext ==
  /\ UNCHANGED focus
  /\ \/ /\ focus = "signals"
        /\ SignalNext \/ (Done /\ UNCHANGED SignalVars)
        /\ UNCHANGED <<ProviderVars, PriceVars, JobVars>>
     \/ /\ focus = "providers"
        /\ ProvidersNext
        /\ UNCHANGED <<SignalVars, PriceVars, JobVars>>
     \/ /\ focus = "prices"
        /\ PricesNext \/ (PricesDone /\ UNCHANGED PriceVars)
        /\ UNCHANGED <<SignalVars, ProviderVars, JobVars>>
     \/ /\ focus = "jobs"
        /\ JobsNext \/ (JobsDone /\ UNCHANGED JobVars)
        /\ UNCHANGED <<SignalVars, ProviderVars, PriceVars>>

MCSpec ==
  /\ MCInit /\ [][MCNext]_DayVars
  /\ focus = "providers" => ProvidersFairness
=============================================================================
