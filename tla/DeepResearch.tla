---------------------------- MODULE DeepResearch ----------------------------
(***************************************************************************)
(* research/deep_research.py, research/research_report_gate.py,            *)
(* data/news_audit.py and memory/research_memory.py: a study of a topic    *)
(* looks for evidence in a bounded number of rounds, is judged by a gate   *)
(* and leaves a report file, decision runs, a memory and pointers, one     *)
(* commit after the other.  Studies share the tables and the files, and    *)
(* one may die between two steps.                                          *)
(*                                                                         *)
(* An article is a member of a set with the day it was published, and what *)
(* the audit thinks of it: "good", "rumour" (usable, but from a weak       *)
(* source) or "poor" (its score is too low).  A page without a date is     *)
(* taken for one of the day of the study.  The limit of 80 stored items    *)
(* and the penalty of a repeated title are left out.                       *)
(***************************************************************************)
EXTENDS Naturals, FiniteSets

CONSTANTS
  Studies,      \* requests and commands
  Topics,
  SlugOf,       \* the name of a topic's report: cut at 48 characters
  Wording,      \* of a topic: "plain", or "strong" where the gate refuses it
  Companies,    \* the symbols that a study is about
  Articles,
  Published,    \* the day of an article
  AuditedAs,    \* what the audit thinks of it
  Undated,      \* articles whose page states no date
  AsOfDays,     \* days that studies are made for, today's and past ones
  MinUsable,    \* min_usable_sources
  MaxFound      \* bound on what one search finds

ASSUME ArticlesAssumption ==
  /\ Published \in [Articles -> Nat]
  /\ AuditedAs \in [Articles -> {"good", "rumour", "poor"}]
  /\ Undated \subseteq Articles /\ IsFiniteSet(Articles)
ASSUME StudiesAssumption == Companies # {} /\ AsOfDays \subseteq Nat /\ {MinUsable, MaxFound} \subseteq Nat

VARIABLES
  stored,       \* table news_items
  metrics,      \* companies with a row of financial_metrics
  services,     \* search services that have a key
  report,       \* files in docs/research: the topic each is about
  evidence,     \* decision runs of type deep_research: the report each names
  pointer,      \* stock memories of type research_pointer: likewise
  study         \* what each study is at

ResearchVars == <<stored, metrics, services, report, evidence, pointer, study>>

Services == {"anspire", "tavily_web"}
Files == {SlugOf[t] : t \in Topics} \X AsOfDays
NoReport == <<"none", 0>>

NewStudy ==
  [at |-> "idle", topic |-> "none", asOf |-> 0, window |-> 14, round |-> 0,
   asked |-> {}, tried |-> {}, web |-> {}, lacking |-> {}, usable |-> {}, left |-> {}]

ResearchInit ==
  /\ stored \in {{}, {a \in Articles : a \notin Undated /\ Published[a] < 100}}
  /\ metrics \in {{}, Companies}
  /\ services \in SUBSET Services
  /\ report = [f \in Files |-> "none"]
  /\ evidence = [k \in Companies \X AsOfDays |-> NoReport]
  /\ pointer = {}
  /\ study = [s \in Studies |-> NewStudy]

FileOf(s) == <<SlugOf[study[s].topic], study[s].asOf>>
Becomes(s, q) == study' = [study EXCEPT ![s] = q]

-----------------------------------------------------------------------------
(* The evidence of a study, and what to do when there is too little.       *)

\* _parse_web_date
DayFor(s, a) == IF a \in Undated THEN study[s].asOf ELSE Published[a]

Collected(s) ==
  {a \in stored \cup study[s].web :
     DayFor(s, a) <= study[s].asOf /\ DayFor(s, a) + study[s].window >= study[s].asOf}

FRESH_DAYS == 7
Usable(s) ==
  {a \in Collected(s) :
     AuditedAs[a] # "poor" /\ DayFor(s, a) + FRESH_DAYS >= study[s].asOf}

MaxWindow == 60
MaxRounds == 5
\* Variant for mutation: a fortnight at a time.
Widened_ByFortnight(window) == IF window + 14 > MaxWindow THEN MaxWindow ELSE window + 14
Widened(window) == IF 2 * window > MaxWindow THEN MaxWindow ELSE 2 * window

\* The services that can still be asked, the first one first.
Askable(s) == services \ study[s].asked
Plan(s) ==
  LET scarce == Cardinality(Usable(s)) < MinUsable
      lacking == Companies \ (metrics \cup study[s].tried)
  IN  CASE scarce /\ study[s].window < MaxWindow -> "widen"
        [] scarce /\ study[s].window >= MaxWindow /\ "anspire" \in Askable(s) -> "anspire"
        [] scarce /\ study[s].window >= MaxWindow /\ Askable(s) = {"tavily_web"} -> "web"
        [] OTHER -> IF lacking # {} THEN "financials" ELSE "final"

(* A request or a command begins a study, with or without searches of its  *)
(* own to begin with.                                                      *)
BeginStudy(s) ==
  /\ study[s].at = "idle"
  /\ \E t \in Topics, day \in AsOfDays, first \in {"seed", "look"} :
       Becomes(s, [NewStudy EXCEPT !.at = first, !.topic = t, !.asOf = day])
  /\ UNCHANGED <<stored, metrics, services, report, evidence, pointer>>

\* What a search finds: nothing without a key, on an error, or in fact.
FoundBy(service) ==
  {found \in SUBSET Articles :
     Cardinality(found) <= MaxFound /\ (service \notin services => found = {})}

\* A first search that finds nothing can be made again.
SearchSeeds(s) ==
  /\ study[s].at = "seed"
  /\ \E found \in FoundBy("tavily_web") :
       Becomes(s, [study[s] EXCEPT !.at = "look", !.web = found,
                                   !.asked = IF found = {} THEN {} ELSE {"tavily_web"}])
  /\ UNCHANGED <<stored, metrics, services, report, evidence, pointer>>

LookForEvidence(s) ==
  /\ study[s].at = "look"
  /\ Becomes(s, [study[s] EXCEPT !.at = Plan(s),
                                 !.lacking = Companies \ (metrics \cup study[s].tried)])
  /\ UNCHANGED <<stored, metrics, services, report, evidence, pointer>>

\* The round is over.
Then(q) == [q EXCEPT !.round = @ + 1, !.lacking = {},
                     !.at = IF q.round + 1 = MaxRounds THEN "final" ELSE "look"]

Widen(s) ==
  /\ study[s].at = "widen"
  /\ Becomes(s, Then([study[s] EXCEPT !.window = Widened(@)]))
  /\ UNCHANGED <<stored, metrics, services, report, evidence, pointer>>

\* What this service finds is stored for every study.
AskAnspire(s) ==
  /\ study[s].at = "anspire"
  /\ \E found \in FoundBy("anspire") :
       /\ stored' = stored \cup (found \ Undated)
       /\ Becomes(s, Then([study[s] EXCEPT !.asked = @ \cup {"anspire"}]))
  /\ UNCHANGED <<metrics, services, report, evidence, pointer>>

\* What this one finds is kept by the study alone.
AskWeb(s) ==
  /\ study[s].at = "web"
  /\ \E found \in FoundBy("tavily_web") :
       Becomes(s, Then([study[s] EXCEPT !.web = @ \cup found,
                                       !.asked = @ \cup {"tavily_web"}]))
  /\ UNCHANGED <<stored, metrics, services, report, evidence, pointer>>

BackfillFinancials(s) ==
  /\ study[s].at = "financials"
  /\ \E got \in SUBSET study[s].lacking : metrics' = metrics \cup got
  /\ Becomes(s, Then([study[s] EXCEPT !.tried = @ \cup study[s].lacking]))
  /\ UNCHANGED <<stored, services, report, evidence, pointer>>

-----------------------------------------------------------------------------
(* The gate, and what a study leaves.                                      *)

\* run_research_report_gate.  A study without any usable source is warned
\* of and goes on; warnings change the text only.
IsBlocked(s, usable) ==
  \/ usable # {} /\ \A a \in usable : AuditedAs[a] = "rumour"
  \/ \E a \in usable : DayFor(s, a) > study[s].asOf
  \/ Wording[study[s].topic] = "strong"

Verdict(s) == [NewStudy EXCEPT !.at = IF IsBlocked(s, Usable(s)) THEN "blocked" ELSE "write"]

Judge(s) ==
  /\ study[s].at = "final"
  /\ Becomes(s, [Verdict(s) EXCEPT !.topic = study[s].topic, !.asOf = study[s].asOf,
                                    !.asked = study[s].asked, !.usable = Usable(s)])
  /\ UNCHANGED <<stored, metrics, services, report, evidence, pointer>>

WriteReport(s) ==
  /\ study[s].at = "write"
  /\ report' = [report EXCEPT ![FileOf(s)] = study[s].topic]
  /\ Becomes(s, [study[s] EXCEPT !.at = "runs", !.left = Companies])
  /\ UNCHANGED <<stored, metrics, services, evidence, pointer>>

\* The next company, or what comes after the last one.
Advance(q, c, after) == IF q.left = {c} THEN after ELSE [q EXCEPT !.left = @ \ {c}]

\* record_decision_run: one row for a company and a day.
RecordRun(s) ==
  /\ study[s].at = "runs"
  /\ \E c \in study[s].left :
       /\ evidence' = [evidence EXCEPT ![<<c, study[s].asOf>>] = FileOf(s)]
       /\ Becomes(s, Advance(study[s], c, [study[s] EXCEPT !.at = "pointers", !.left = Companies]))
  /\ UNCHANGED <<stored, metrics, services, report, pointer>>

\* create_stock_memory: one row for a company and a report.
PointTo(s) ==
  /\ study[s].at = "pointers"
  /\ \E c \in study[s].left :
       /\ pointer' = pointer \cup {<<c, FileOf(s)>>}
       /\ Becomes(s, Advance(study[s], c, [NewStudy EXCEPT !.at = "done"]))
  /\ UNCHANGED <<stored, metrics, services, report, evidence>>

\* An exception or a death.
BreakOff(s) ==
  /\ study[s].at \notin {"idle", "blocked", "done"}
  /\ Becomes(s, [NewStudy EXCEPT !.at = "done"])
  /\ UNCHANGED <<stored, metrics, services, report, evidence, pointer>>

ResearchDone == \A s \in Studies : study[s].at \in {"blocked", "done"}

ResearchNext ==
  \/ \E s \in Studies :
       \/ BeginStudy(s) \/ SearchSeeds(s) \/ LookForEvidence(s) \/ Widen(s)
       \/ AskAnspire(s) \/ AskWeb(s) \/ BackfillFinancials(s) \/ Judge(s)
       \/ WriteReport(s) \/ RecordRun(s) \/ PointTo(s) \/ BreakOff(s)
  \/ ResearchDone /\ UNCHANGED ResearchVars

ResearchSpec == ResearchInit /\ [][ResearchNext]_ResearchVars

-----------------------------------------------------------------------------
Judged(s) == study[s].at \in {"blocked", "write", "runs", "pointers"}

(* A study that is judged on too little evidence has asked every service   *)
(* that has a key: the rounds that widen the window leave just enough of   *)
(* the five for the two services, whoever else stores news meanwhile.      *)
ScarceMeansAsked ==
  \A s \in Studies :
    Judged(s) /\ Cardinality(study[s].usable) < MinUsable => services \subseteq study[s].asked
=============================================================================
