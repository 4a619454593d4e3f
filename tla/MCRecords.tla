------------------------------ MODULE MCRecords ------------------------------
(***************************************************************************)
(* The records that jobs, requests and commands keep in the database, for  *)
(* TLC: the batch, the positions, the research ledgers, the gate-B tracker,*)
(* the studies of topics, the cache of sentiments, the long-term labels,   *)
(* the schema under them, the files that the tools of a training keep, and *)
(* the page that shows the positions.  They share no table in these        *)
(* models, so one behaviour watches one of them: its focus, chosen at the  *)
(* start.                                                                  *)
(***************************************************************************)
EXTENDS PostmarketBatch, Positions, ResearchLedgers, RuntimeSchema, GateTracker,
        DeepResearch, SentimentCache, KronosData, KronosTraining, LivePage,
        LongTermTeam, TLC

CONSTANTS sameA, sameB, other, fresh, rumour, undated, chips, chipmakers,
          first, second

VARIABLE focus

\* Two theses of one key with no horizon, and one with a horizon.
TwoOfAKey == (sameA :> "k") @@ (sameB :> "k") @@ (other :> "l")

\* Articles up to the day that studies are made for, one of a weak source
\* and one without a date; two topics whose reports have one name.
ArticleDays == (fresh :> 97) @@ (rumour :> 118) @@ (undated :> 120)
ArticleAudits == (fresh :> "good") @@ (rumour :> "rumour") @@ (undated :> "good")
OneSlug == (chips :> "chips") @@ (chipmakers :> "chips")
OneStrong == (chips :> "plain") @@ (chipmakers :> "strong")

TwoKeys == <<first, second>>

\* The long-term team.  Three weeks: all for the stock, one veto, no language
\* model.
ByRole(t, q, b, f) ==
  [role \in RoleSet |-> CASE role = "track" -> t [] role = "quality" -> q
                          [] role = "boom" -> b [] role = "flow" -> f]
Booming == BoomReport([k \in Fields |-> 60], <<>>, {"profit"})
ThreeWeeks ==
  {ByRole(TrackReport(90, "hold", "enter", FALSE), QualityReport(8), Booming, Nothing),
   ByRole(TrackReport(60, "hold", "wait", TRUE), QualityReport(4), Booming, Nothing),
   ByRole(Nothing, QualityReport(8), Booming, Unheard)}
SomeAnswers == {-60, 90}
SomeDeltas == {-40}
\* Holders that are absent, buy, sell once, sell three times, enter late and sell.
Timelines ==
  {<<0, 0, 0, 0>>, <<4, 5, 6, 6>>, <<5, 5, 5, 4>>, <<5, 4, 4, 3>>, <<0, 9, 5, 0>>}
TwoStocks == <<first, second>>

\* What is not watched rests in one initial state.
MCInit ==
  /\ focus \in {"batch", "positions", "ledgers", "schema", "tracker", "research", "sentiment",
               "data", "training", "page", "hearing", "labels"}
  /\ Init
  /\ PositionsInit /\ (focus # "positions" => universe = "absent")
  /\ LedgersInit /\ (focus # "ledgers" => ledger = "thesis")
  /\ SchemaInit /\ (focus # "schema" => db = NewFile)
  /\ GateInit /\ (focus # "tracker" => \A d \in CalendarDays : close[d] = "none")
  /\ ResearchInit /\ (focus # "research" => stored = {} /\ metrics = {} /\ services = {})
  /\ SentimentInit /\ (focus # "sentiment" => \A k \in Titles : cached[k] = NoRow)
  /\ DataInit /\ (focus # "data" => traded = {1})
  /\ TrainingInit /\ (focus # "training" => kind = "smoke")
  /\ PageInit /\ (focus # "page" => table = [i \in RowIds |-> "none"])
  /\ reports = AllUnheard /\ toHear = (IF focus = "hearing" THEN Roles ELSE <<>>)
  /\ LabelsInit

FileVars == <<DataVars, TrainingVars>>

MCNext ==
  /\ UNCHANGED focus
  /\ \/ /\ focus = "batch" /\ Next
        /\ UNCHANGED <<pvars, LedgersVars, SchemaVars, TrackerVars, ResearchVars, SentimentVars, FileVars,
                       PageVars, TeamVars>>
     \/ /\ focus = "positions" /\ PositionsNext
        /\ UNCHANGED <<bvars, LedgersVars, SchemaVars, TrackerVars, ResearchVars, SentimentVars, FileVars,
                       PageVars, TeamVars>>
     \/ /\ focus = "ledgers" /\ LedgersNext
        /\ UNCHANGED <<bvars, pvars, SchemaVars, TrackerVars, ResearchVars, SentimentVars, FileVars,
                       PageVars, TeamVars>>
     \/ /\ focus = "schema" /\ SchemaNext
        /\ UNCHANGED <<bvars, pvars, LedgersVars, TrackerVars, ResearchVars, SentimentVars, FileVars,
                       PageVars, TeamVars>>
     \/ /\ focus = "tracker" /\ TrackerNext
        /\ UNCHANGED <<bvars, pvars, LedgersVars, SchemaVars, ResearchVars, SentimentVars, FileVars,
                       PageVars, TeamVars>>
     \/ /\ focus = "research" /\ ResearchNext
        /\ UNCHANGED <<bvars, pvars, LedgersVars, SchemaVars, TrackerVars, SentimentVars, FileVars,
                       PageVars, TeamVars>>
     \/ /\ focus = "sentiment" /\ SentimentNext
        /\ UNCHANGED <<bvars, pvars, LedgersVars, SchemaVars, TrackerVars, ResearchVars, FileVars,
                       PageVars, TeamVars>>
     \/ /\ focus = "data"
        /\ DataNext \/ (DataDone /\ UNCHANGED DataVars)
        /\ UNCHANGED <<bvars, pvars, LedgersVars, SchemaVars, TrackerVars, ResearchVars, SentimentVars,
                       TrainingVars, PageVars, TeamVars>>
     \/ /\ focus = "training"
        /\ TrainingNext \/ (TrainingDone /\ UNCHANGED TrainingVars)
        /\ UNCHANGED <<bvars, pvars, LedgersVars, SchemaVars, TrackerVars, ResearchVars, SentimentVars,
                       DataVars, PageVars, TeamVars>>
     \/ /\ focus = "page"
        /\ PageNext \/ (PageDone /\ UNCHANGED PageVars)
        /\ UNCHANGED <<bvars, pvars, LedgersVars, SchemaVars, TrackerVars, ResearchVars, SentimentVars,
                       FileVars, TeamVars>>
     \/ /\ focus = "hearing"
        /\ Hear \/ (HearingDone /\ UNCHANGED TeamVars)
        /\ UNCHANGED <<bvars, pvars, LedgersVars, SchemaVars, TrackerVars, ResearchVars, SentimentVars,
                       FileVars, PageVars>>
     \/ /\ focus = "labels"
        /\ KeepingNext \/ (KeepingDone /\ UNCHANGED TeamVars)
        /\ UNCHANGED <<bvars, pvars, LedgersVars, SchemaVars, TrackerVars, ResearchVars, SentimentVars,
                       FileVars, PageVars>>

RecordsVars ==
  <<focus, bvars, pvars, LedgersVars, SchemaVars, TrackerVars, ResearchVars, SentimentVars, FileVars, PageVars,
    TeamVars>>
MCSpec == MCInit /\ [][MCNext]_RecordsVars
=============================================================================
