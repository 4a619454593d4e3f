---------------------------- MODULE LongTermTeam ----------------------------
(***************************************************************************)
(* agents/long_term/ and run_weekly_longterm: four analysts report on a    *)
(* stock, team.py makes one label of their reports, storage.py keeps one   *)
(* row per stock and date, and the batch takes the rows that are not       *)
(* expired.                                                                *)
(*                                                                         *)
(* Two parts that share the rules.  One hearing asks the analysts one      *)
(* after the other, over every report they can make of the inputs below.   *)
(* The keeping of the labels has jobs and requests, which overlap, look    *)
(* for the row of the day and then write it, while days pass; each brings  *)
(* reports out of a menu.  Scores are in tenths, confidences and           *)
(* percentages in hundredths.                                              *)
(***************************************************************************)
EXTENDS Integers, Sequences, FiniteSets, FiniteSetsExt, Functions

CONSTANTS
  TrackScores,     \* scores that the language model may answer
  FScores,         \* F-scores of the financial statements
  Pctiles,         \* percentiles of a change within the industry
  Deltas,          \* changes of a growth rate, in points
  Holdings,        \* what a foreign holder has in each quarter
  Members,         \* the active stocks, in order
  Savers,          \* jobs and requests
  Weeks,           \* what the four analysts may report when they are asked
  Ttl,             \* long_term_label_ttl_days
  LastLabelDay     \* bound of the dates

ASSUME ReportsAssumption ==
  /\ TrackScores \subseteq -100..100 /\ FScores \subseteq 0..9
  /\ Pctiles \subseteq 0..100 /\ Deltas \subseteq Int
ASSUME LabelsAssumption == Ttl \in Nat \ {0} /\ LastLabelDay \in Nat
ASSUME MembersAssumption == Members \in Seq(Range(Members)) /\ Members # <<>>

VARIABLES
  reports,   \* the hearing: the report of each analyst
  toHear,    \* the hearing: the analysts that are left
  labels,    \* long_term_labels: the row of a stock and a date
  saver,     \* where each job and request is
  date,      \* the date
  judged,    \* the judgments so far, for the properties
  mixed      \* the rows that changed between a look and a write, for the same

TeamVars == <<reports, toHear, labels, saver, date, judged, mixed>>

Roles == <<"track", "quality", "boom", "flow">>
Weight(role) == CASE role = "boom" -> 4 [] role = "flow" -> 1 [] OTHER -> 3
Votes == {"hold", "overvalued", "watch", "avoid"}

Magnitude(n) == IF n < 0 THEN -n ELSE n
Nearest(n, d) == (2 * n + d) \div (2 * d)
Within(n, bound) == IF n > bound THEN bound ELSE IF n < -bound THEN -bound ELSE n

-----------------------------------------------------------------------------
(* The reports.  An analyst without data reports nothing with confidence   *)
(* 0; one that raises leaves no report.                                    *)
Unheard == [score |-> 0, conf |-> 0, vote |-> "none", timing |-> "none"]
Nothing == [Unheard EXCEPT !.vote = "watch"]

\* Confidence grows with the score up to 60 (a_teacher and jingqi).
OfSixty(score) == Nearest(Magnitude(Within(score, 600)), 6)

\* The entry timing is the fifth layer of the answer; a stock that has risen by
\* more than half is not one to hold.
TrackReport(score, vote, timing, risen) ==
  [score |-> score * 10, conf |-> OfSixty(score * 10), timing |-> timing,
   vote |-> IF risen /\ vote = "hold" THEN "overvalued" ELSE vote]
TrackReports ==
  {Unheard, Nothing}
  \cup {TrackReport(s, v, t, h) : s \in TrackScores, v \in Votes,
                                  t \in {"enter", "wait", "watch", "avoid"}, h \in BOOLEAN}

QualityReport(f) ==
  LET score == Nearest((2 * f - 9) * 1000, 9)
  IN  [score |-> score, conf |-> Nearest(Magnitude(score), 10), timing |-> "none",
       vote |-> IF f >= 7 THEN "hold" ELSE IF f <= 4 THEN "avoid" ELSE "watch"]
QualityReports == {Unheard, Nothing} \cup {QualityReport(f) : f \in FScores}

Fields == {"profit", "revenue", "roe"}
Known(S) == UNION {[K -> S] : K \in SUBSET Fields}
FieldWeight(k) == IF k = "profit" THEN 4 ELSE 3

\* Without peers: the mean of the changes, each within its bound.
ScoreNoPeers(delta) ==
  LET part == [k \in DOMAIN delta |->
                 CASE k = "profit" -> Within(delta[k] * 10, 500)
                   [] k = "revenue" -> Within(delta[k] * 6, 300)
                   [] k = "roe" -> Within(delta[k] * 50, 200)]
  IN  IF DOMAIN delta = {} THEN 0
      ELSE Nearest(SumFunction(part), Cardinality(DOMAIN delta))
ScoreWithPeers(delta, pctile) ==
  LET weighted == [k \in DOMAIN pctile |-> pctile[k] * FieldWeight(k)]
      weight == [k \in DOMAIN pctile |-> FieldWeight(k)]
  IN  IF DOMAIN pctile = {} THEN ScoreNoPeers(delta)
      ELSE Nearest(SumFunction(weighted) * 20, SumFunction(weight)) - 1000

BoomVote(score, pctile) ==
  LET lowest == /\ DOMAIN pctile # {}
                /\ SumFunction(pctile) < 30 * Cardinality(DOMAIN pctile)
  IN  CASE score >= 400 -> "hold"
        [] score < 400 /\ (score < -400 \/ lowest) -> "avoid"
        [] score < 0 /\ score >= -400 /\ ~lowest -> "overvalued"
        [] OTHER -> "watch"

\* A growth rate that turns from falling to rising has a bonus.
BoomReport(delta, pctile, turned) ==
  LET bonus == (IF "profit" \in turned THEN 200 ELSE 0)
               + (IF "revenue" \in turned THEN 100 ELSE 0)
      score == Within(ScoreWithPeers(delta, pctile) + bonus, 1000)
  IN  [score |-> score, conf |-> OfSixty(score), timing |-> "none",
       vote |-> BoomVote(score, pctile)]
Turns == SUBSET {"profit", "revenue"}
BoomReports ==
  {Unheard, Nothing}
  \cup {BoomReport(d, <<>>, t) : d \in Known(Deltas), t \in Turns}
  \cup {BoomReport(<<>>, p, t) : p \in Known(Pctiles), t \in Turns}

-----------------------------------------------------------------------------
(* The foreign holders: only a retreat counts.  A holder that has left the *)
(* list has no share in that quarter; quarters before its first are none.  *)
Quarters == 1 .. 4
Entered(h) == {q \in Quarters : \E p \in 1..q : h[p] > 0}
Drops(h) == {q \in Entered(h) : q - 1 \in Entered(h) /\ h[q] < h[q - 1]}
NetDrop(h) == h[Min(Entered(h))] - h[4]

TriggersAvoid(history) ==
  LET present == {i \in DOMAIN history : Entered(history[i]) # {}}
      leaving == {i \in present : NetDrop(history[i]) > 0}
      peak == [i \in present |-> Max({history[i][q] : q \in Quarters})]
      net == [i \in leaving |-> NetDrop(history[i])]
  IN  /\ Cardinality(leaving) >= 2
      /\ \E i \in leaving : Cardinality(Drops(history[i])) >= 2
      /\ SumFunction(net) * 5 >= SumFunction(peak)

FlowReport(history) ==
  IF TriggersAvoid(history)
  THEN [score |-> -700, conf |-> 80, vote |-> "avoid", timing |-> "none"]
  ELSE Nothing
FlowReports ==
  {Unheard} \cup {FlowReport(history) : history \in [1 .. 3 -> Holdings]}

ReportsOf(role) ==
  CASE role = "track" -> TrackReports [] role = "quality" -> QualityReports
    [] role = "boom" -> BoomReports [] role = "flow" -> FlowReports

-----------------------------------------------------------------------------
(* team.py: from the reports to a label and to what it may do.             *)
RoleSet == {Roles[i] : i \in DOMAIN Roles}
Heard(rs) == {role \in RoleSet : rs[role].conf >= 1}

AggregateScore(rs) ==
  LET part == [role \in Heard(rs) |-> rs[role].score * Weight(role)]
      weight == [role \in Heard(rs) |-> Weight(role)]
  IN  IF Heard(rs) = {} THEN 0 ELSE Nearest(SumFunction(part), SumFunction(weight))

\* One vote to avoid is enough, whatever its confidence.
Refuses(rs) ==
  (\E role \in RoleSet : rs[role].vote = "avoid") \/ rs["track"].timing = "avoid"
\* Variant for mutation: a stock to wait for is one to avoid.
ResolveLabel_WaitAvoids(score, rs) ==
  CASE Refuses(rs) \/ score < -200 -> "avoid"
    [] ~Refuses(rs) /\ score >= 500 -> IF rs["track"].timing = "wait" THEN "avoid" ELSE "hold"
    [] ~Refuses(rs) /\ score >= 300 /\ score < 500 -> "overvalued"
    [] ~Refuses(rs) /\ score >= -200 /\ score < 300 -> "watch"
ResolveLabel(score, rs) ==
  CASE Refuses(rs) \/ score < -200 -> "avoid"
    [] ~Refuses(rs) /\ score >= 500 ->
         IF rs["track"].timing = "wait" THEN "overvalued" ELSE "hold"
    [] ~Refuses(rs) /\ score >= 300 /\ score < 500 -> "overvalued"
    [] ~Refuses(rs) /\ score >= -200 /\ score < 300 -> "watch"

LabelQuality(rs) ==
  LET conf == [role \in Heard(rs) |-> rs[role].conf]
  IN  CASE Heard(rs) = {} \/ rs["track"].vote = "none" -> "failed"
        [] Heard(rs) # {} /\ rs["track"] = Nothing -> "failed"
        [] OTHER ->
             IF /\ "track" \in Heard(rs) /\ Cardinality(Heard(rs)) >= 2
                /\ SumFunction(conf) >= 25 * Cardinality(Heard(rs))
             THEN "trusted" ELSE "degraded"

\* A label may constrain a trade when its quality is trusted.
LabelOf(rs) == ResolveLabel(AggregateScore(rs), rs)
JudgmentOf(rs) ==
  [label |-> LabelOf(rs), quality |-> LabelQuality(rs),
   eligible |-> LabelQuality(rs) = "trusted"]

-----------------------------------------------------------------------------
(* The hearing.  An analyst without data, or that fails, is heard too.     *)
AllUnheard == [role \in RoleSet |-> Unheard]
HearingInit == reports = AllUnheard /\ toHear = Roles

Hear ==
  /\ toHear # <<>>
  /\ \E report \in ReportsOf(Head(toHear)) :
       reports' = [reports EXCEPT ![Head(toHear)] = report]
  /\ toHear' = Tail(toHear)
  /\ UNCHANGED <<labels, saver, date, judged, mixed>>
HearingDone == toHear = <<>>

-----------------------------------------------------------------------------
(* The keeping.  A row has its date for key and expires Ttl days later.    *)
NoLabel == [label |-> "none", quality |-> "none", eligible |-> FALSE]
NewSaver == [at |-> "idle", left |-> <<>>, verdict |-> NoLabel, on |-> 0, seen |-> NoLabel]

LabelsInit ==
  /\ labels = [m \in Range(Members) |-> [d \in 0..LastLabelDay |-> NoLabel]]
  /\ saver = [r \in Savers |-> NewSaver]
  /\ date = 0
  /\ judged = {} /\ mixed = {}

Saver(r, changed) ==
  /\ saver' = [saver EXCEPT ![r] = changed]
  /\ UNCHANGED <<reports, toHear, date>>

\* run_weekly_longterm, by the clock or by hand, and the request for one stock.
StartSaver(r) ==
  /\ saver[r].at = "idle"
  /\ \E stocks \in {Members} \cup {<<m>> : m \in Range(Members)} :
       Saver(r, [saver[r] EXCEPT !.at = "judge", !.left = stocks])
  /\ UNCHANGED <<labels, judged, mixed>>

\* LongTermTeam.run: the label has the date of the end of the judgment.
JudgeStock(r) ==
  /\ saver[r].at = "judge"
  /\ \E week \in Weeks :
       /\ Saver(r, [saver[r] EXCEPT !.at = "look", !.verdict = JudgmentOf(week), !.on = date])
       /\ judged' = judged \cup
            {[stock |-> Head(saver[r].left), on |-> date, verdict |-> JudgmentOf(week)]}
  /\ UNCHANGED <<labels, mixed>>

RowOf(r) == labels[Head(saver[r].left)][saver[r].on]
LookForRow(r) ==
  /\ saver[r].at = "look"
  /\ Saver(r, [saver[r] EXCEPT !.at = "save", !.seen = RowOf(r)])
  /\ UNCHANGED <<labels, judged, mixed>>

\* An update writes the columns that differ from those it has read.
\* Variant for mutation: an update leaves the eligibility as it was.
Written_KeepsEligibility(r) ==
  IF saver[r].seen = NoLabel THEN saver[r].verdict
  ELSE [saver[r].verdict EXCEPT !.eligible = RowOf(r).eligible]
Written(r) ==
  [f \in DOMAIN NoLabel |->
     IF saver[r].seen = NoLabel \/ saver[r].verdict[f] # saver[r].seen[f]
     THEN saver[r].verdict[f] ELSE RowOf(r)[f]]

SaveLabel(r) ==
  LET key == <<Head(saver[r].left), saver[r].on>>
      rest == Tail(saver[r].left)
  IN  /\ saver[r].at = "save"
      /\ saver[r].seen = NoLabel => RowOf(r) = NoLabel
      /\ labels' = [labels EXCEPT ![key[1]][key[2]] = Written(r)]
      /\ mixed' = IF RowOf(r) = saver[r].seen THEN mixed ELSE mixed \cup {key}
      /\ Saver(r, [NewSaver EXCEPT !.at = IF rest = <<>> THEN "ended" ELSE "judge", !.left = rest])
      /\ UNCHANGED judged

\* The row came in between: the insert fails on the unique key, a job cannot use
\* its session for the stocks after it, and ends.
InsertFails(r) ==
  /\ saver[r].at = "save" /\ saver[r].seen = NoLabel /\ RowOf(r) # NoLabel
  /\ Saver(r, [saver[r] EXCEPT !.at = "ended"])
  /\ UNCHANGED <<labels, judged, mixed>>

SaverDies(r) ==
  /\ saver[r].at \in {"judge", "look", "save"}
  /\ Saver(r, [saver[r] EXCEPT !.at = "ended"])
  /\ UNCHANGED <<labels, judged, mixed>>

NextDate ==
  /\ date < LastLabelDay
  /\ date' = date + 1
  /\ UNCHANGED <<reports, toHear, labels, saver, judged, mixed>>

KeepingNext ==
  \/ \E r \in Savers :
       \/ StartSaver(r) \/ JudgeStock(r) \/ LookForRow(r) \/ SaveLabel(r)
       \/ InsertFails(r) \/ SaverDies(r)
  \/ NextDate
KeepingDone == date = LastLabelDay /\ \A r \in Savers : saver[r].at = "ended"

TeamNext == Hear \/ KeepingNext
TeamSpec == HearingInit /\ LabelsInit /\ [][TeamNext]_TeamVars

\* bulk_get_labels and get_active_label: the newest of the rows not expired.
Unexpired(m) == {d \in 0..LastLabelDay : labels[m][d] # NoLabel /\ d + Ttl >= date}
ActiveDay(m) == Max(Unexpired(m))
\* An eligible label binds, once long_term_constraints_enabled is set (it is not
\* by default).
Binds(m) == Unexpired(m) # {} /\ labels[m][ActiveDay(m)].eligible

-----------------------------------------------------------------------------
TeamTypeOK ==
  /\ \A role \in RoleSet : reports[role] \in ReportsOf(role)
  /\ toHear \in {<<>>} \cup {SubSeq(Roles, i, 4) : i \in 1..4}
  /\ \A m \in Range(Members), d \in 0..LastLabelDay :
       labels[m][d] = NoLabel \/ labels[m][d].label \in Votes
  /\ \A r \in Savers : saver[r].at \in {"idle", "judge", "look", "save", "ended"}
  /\ date \in 0..LastLabelDay

(* A label that constrains the batch is one judgment, as a whole, of the   *)
(* reports on that stock, at most Ttl days old and itself good enough to   *)
(* constrain: it is never put together of two judgments of a day, and none *)
(* outlives its time because the weeks after it brought nothing; unless    *)
(* two savers wrote the row at the same time.                              *)
BindingIsEarned ==
  \A m \in Range(Members) :
    Binds(m) =>
      \/ <<m, ActiveDay(m)>> \in mixed
      \/ \E j \in judged :
           /\ j.stock = m /\ j.verdict = labels[m][ActiveDay(m)]
           /\ date - j.on <= Ttl

Merit(label) ==
  CASE label = "hold" -> 3 [] label = "overvalued" -> 2
    [] label = "watch" -> 1 [] label = "avoid" -> 0
Haste(timing) == CASE timing = "avoid" -> 0 [] timing = "wait" -> 1 [] OTHER -> 2
NoBetter(a, b) ==
  /\ a.score <= b.score /\ (b.vote = "avoid" => a.vote = "avoid")
  /\ Haste(a.timing) <= Haste(b.timing)

(* A worse report of one analyst never gives a stock a better label, over  *)
(* the average, the thresholds, the vetoes and the timing together; as     *)
(* long as the analyst is heard both times.                                *)
WorseReportsNeverLift ==
  HearingDone =>
    LET merit == Merit(LabelOf(reports)) IN
      \A role \in Heard(reports) :
        \A worse \in ReportsOf(role) :
          worse.conf >= 1 /\ NoBetter(worse, reports[role]) =>
            Merit(LabelOf([reports EXCEPT ![role] = worse])) <= merit
=============================================================================
