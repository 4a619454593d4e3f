----------------------------- MODULE DailyMemory -----------------------------
(***************************************************************************)
(* The daily memory job (jobs/weekend.py: run_daily_memory_expire) over    *)
(* the tables that others write meanwhile: ai_memory (memory/ai_memory.py, *)
(* api/routes/memory.py) and stock_memory_items (memory/stock_memory.py).  *)
(*                                                                         *)
(* The job reads a table, then deletes or inserts row by row with a commit *)
(* each.  Its first half deletes the memories past their time to live, its *)
(* second half writes, for each judgment that is ten trading days old, an  *)
(* outcome and, after a loss, a lesson.  An exception or a death ends the  *)
(* run; the next one is tomorrow's.                                        *)
(***************************************************************************)
EXTENDS Integers, Sequences, FiniteSets

CONSTANTS
  Keys,        \* keys of ai_memory
  Days,        \* days with a judgment, numbered from 1; 0 stands for no date
  MaxItems,    \* bound on the rows of stock_memory_items
  MaxAge,      \* bound on how often a memory runs out
  MaxDeaths    \* bound on the deaths of the job

ASSUME DaysAssumption == Days \subseteq Nat \ {0}
ASSUME DailyBoundsAssumption == {MaxItems, MaxAge, MaxDeaths} \subseteq Nat

VARIABLES
  memory,      \* table ai_memory
  items,       \* table stock_memory_items; ids are never given again
  market,      \* what the prices say of each day's judgment
  post,        \* the post-market job, between its look and its write
  daily,       \* the daily job
  touched,     \* memories written since the daily job read them
  cutAt,       \* judgments at which the daily job died
  budget       \* what is left of the bounds MaxAge and MaxDeaths

DailyVars == <<memory, items, market, post, daily, touched, cutAt, budget>>

Memory == {"none", "pinned", "fresh", "stale"}
Evidence == {"entry", "other", "broken"}

\* by: the day of a judgment, the judgment of an outcome or a lesson.
Item == [kind : {"judgment", "outcome", "lesson"}, by : Nat,
         evidence : Evidence, status : {"live", "archived", "deleted"}]
Row(kind, by, evidence) ==
  [kind |-> kind, by |-> by, evidence |-> evidence, status |-> "live"]

Ids == DOMAIN items
Has(kind, by) ==
  \E i \in Ids : items[i].kind = kind /\ items[i].by = by /\ items[i].status # "deleted"
IdOf(kind, by) ==
  IF Has(kind, by)
  THEN CHOOSE i \in Ids : items[i].kind = kind /\ items[i].by = by /\ items[i].status # "deleted"
  ELSE 0

IsJudgment(i) == items[i].kind = "judgment" /\ items[i].status = "live"
Awaiting == {i \in Ids : items[i].kind = "judgment" /\ ~Has("outcome", i)}
\* Room for an outcome and a lesson of each judgment, and the one in hand.
HasSpace(n) == Len(items) + 2 * (Cardinality(Awaiting) + n) + 1 <= MaxItems

Rest == [at |-> "idle", doomed |-> {}, todo |-> {}, loss |-> FALSE]
NoPost == [day |-> 0, found |-> 0]

DailyInit ==
  /\ memory \in [Keys -> {"none", "fresh"}]
  /\ items = <<>>
  /\ market = [d \in Days |-> "young"]
  /\ post = NoPost
  /\ daily = Rest
  /\ touched = {}
  /\ cutAt = {}
  /\ budget = [age |-> MaxAge, deaths |-> MaxDeaths]

-----------------------------------------------------------------------------
(* ai_memory.  remember is one upsert, forget and the deletion by id one   *)
(* delete; pin and patch update by id.                                     *)
Writes(k, m) ==
  /\ memory' = [memory EXCEPT ![k] = m]
  /\ touched' = IF daily.at = "expire" THEN touched \cup {k} ELSE {}
  /\ UNCHANGED <<items, market, post, daily, cutAt, budget>>

Remember(k) == \E m \in {"fresh", "pinned"} : Writes(k, m)
Forget(k) == memory[k] # "none" /\ Writes(k, "none")
Pin(k) == memory[k] \in {"fresh", "stale"} /\ Writes(k, "pinned")

\* The time to live of a memory is over.
RunOut(k) ==
  /\ memory[k] = "fresh"
  /\ budget.age > 0
  /\ memory' = [memory EXCEPT ![k] = "stale"]
  /\ budget' = [budget EXCEPT !.age = @ - 1]
  /\ UNCHANGED <<items, market, post, daily, touched, cutAt>>

-----------------------------------------------------------------------------
(* save_decision_layered of the post-market job: the judgment of a day is  *)
(* looked up by its source_ref and then inserted or updated, which also    *)
(* makes an archived one live.                                             *)
LookJudgment(d) ==
  /\ post = NoPost
  /\ market[d] = "young"
  /\ post' = [day |-> d, found |-> IdOf("judgment", d)]
  /\ UNCHANGED <<memory, items, market, daily, touched, cutAt, budget>>

WriteJudgment ==
  /\ post # NoPost
  /\ \E e \in {"entry", "other"} :
       IF post.found = 0
       THEN /\ HasSpace(1)
            /\ items' = Append(items, Row("judgment", post.day, e))
       ELSE items' = [items EXCEPT ![post.found] =
                        IF @.status = "deleted" THEN @
                        ELSE Row("judgment", post.day, e)]
  /\ post' = NoPost
  /\ UNCHANGED <<memory, market, daily, touched, cutAt, budget>>

\* An action of the agent bridge may write a judgment without a date; the
\* schema of the action also allows evidence that is a list.
WriteUndated ==
  /\ HasSpace(1)
  /\ \A i \in Ids : ~(items[i].kind = "judgment" /\ items[i].by = 0)
  /\ \E e \in {"other", "broken"} : items' = Append(items, Row("judgment", 0, e))
  /\ UNCHANGED <<memory, market, post, daily, touched, cutAt, budget>>

(* archive_stock_memory, of a judgment (archived or not, the others are    *)
(* found by their source_ref), and delete_stock_memory.                    *)
SetStatus(i, s) ==
  /\ items' = [items EXCEPT ![i].status = s]
  /\ UNCHANGED <<memory, market, post, daily, touched, cutAt, budget>>
Archive(i) == IsJudgment(i) /\ SetStatus(i, "archived")
Delete(i) ==
  /\ items[i].status # "deleted"
  /\ items[i].kind = "outcome" => HasSpace(1)
  /\ SetStatus(i, "deleted")

\* Ten more trading days: the excess return of the judgment is known.
Ripen(d) ==
  /\ market[d] = "young"
  /\ \E m \in {"gain", "loss"} : market' = [market EXCEPT ![d] = m]
  /\ UNCHANGED <<memory, items, post, daily, touched, cutAt, budget>>

-----------------------------------------------------------------------------
(* The daily job: expire_stale_memories ...                                *)
StartDaily ==
  /\ daily.at = "idle"
  /\ daily' = [Rest EXCEPT !.at = "read"]
  /\ UNCHANGED <<memory, items, market, post, touched, cutAt, budget>>

\* Variant for mutation: the age of a row is not looked at.
Stale_WithTtl == {k \in Keys : memory[k] \in {"stale", "fresh"}}
Stale == {k \in Keys : memory[k] = "stale"}
ReadMemories ==
  /\ daily.at = "read"
  /\ daily' = [daily EXCEPT !.at = "expire", !.doomed = Stale]
  /\ touched' = {}
  /\ UNCHANGED <<memory, items, market, post, cutAt, budget>>

\* The deletion by id and its audit entry are one commit.
Expire(k) ==
  /\ daily.at = "expire"
  /\ k \in daily.doomed
  /\ memory' = [memory EXCEPT ![k] = "none"]
  /\ daily' = [daily EXCEPT !.doomed = @ \ {k}]
  /\ UNCHANGED <<items, market, post, touched, cutAt, budget>>

(* ... and then update_judgment_outcomes: one statement reads the          *)
(* judgments with their evidence; they are gone through in the order of    *)
(* their ids.                                                              *)
Judgments == {i \in Ids : IsJudgment(i)}

ReadJudgments ==
  /\ daily.at = "expire"
  /\ daily.doomed = {}
  /\ daily' = [daily EXCEPT !.at = "judge",
                 !.todo = {[id |-> i, evidence |-> items[i].evidence] : i \in Judgments}]
  /\ touched' = {}
  /\ UNCHANGED <<memory, items, market, post, cutAt, budget>>

Foremost == CHOOSE j \in daily.todo : \A k \in daily.todo : j.id <= k.id
Current == Foremost.id
Recommended == Foremost.evidence
IsRipe(i) == items[i].by \in Days /\ market[items[i].by] # "young"

\* Nothing is to be written for the judgment: it has an outcome, no date, or
\* not yet its ten days.
Passes == Has("outcome", Current) \/ (Recommended # "broken" /\ ~IsRipe(Current))
\* Variant for mutation: such a judgment ends the run.
Pass_EndsRun ==
  /\ daily.at = "judge"
  /\ daily.todo # {}
  /\ Passes
  /\ daily' = Rest
  /\ UNCHANGED <<memory, items, market, post, touched, cutAt, budget>>
Pass ==
  /\ daily.at = "judge"
  /\ daily.todo # {}
  /\ Passes
  /\ daily' = [daily EXCEPT !.todo = @ \ {Foremost}]
  /\ UNCHANGED <<memory, items, market, post, touched, cutAt, budget>>

IsLoss == Recommended = "entry" /\ market[items[Current].by] = "loss"

\* Variant for mutation: the job goes on to the next judgment.
WriteOutcome_GoesOn ==
  /\ daily.at = "judge"
  /\ daily.todo # {}
  /\ ~Passes
  /\ Recommended # "broken"
  /\ items' = Append(items, Row("outcome", Current, Recommended))
  /\ daily' = [daily EXCEPT !.todo = @ \ {Foremost}]
  /\ UNCHANGED <<memory, market, post, touched, cutAt, budget>>
WriteOutcome ==
  /\ daily.at = "judge"
  /\ daily.todo # {}
  /\ ~Passes
  /\ Recommended # "broken"
  /\ items' = Append(items, Row("outcome", Current, Recommended))
  /\ daily' = [daily EXCEPT !.at = "lesson", !.loss = IsLoss]
  /\ UNCHANGED <<memory, market, post, touched, cutAt, budget>>

\* The lesson is looked up by its own source_ref.
WriteLesson ==
  /\ daily.at = "lesson"
  /\ items' = IF daily.loss /\ ~Has("lesson", Current)
              THEN Append(items, Row("lesson", Current, "entry")) ELSE items
  /\ daily' = [daily EXCEPT !.at = "judge", !.todo = @ \ {Foremost}, !.loss = FALSE]
  /\ UNCHANGED <<memory, market, post, touched, cutAt, budget>>

EndDaily ==
  /\ daily.at = "judge"
  /\ daily.todo = {}
  /\ daily' = Rest
  /\ UNCHANGED <<memory, items, market, post, touched, cutAt, budget>>

\* The evidence is not a mapping: the exception ends the run.
RaiseAtBroken ==
  /\ daily.at = "judge"
  /\ daily.todo # {}
  /\ ~Passes
  /\ Recommended = "broken"
  /\ daily' = Rest
  /\ UNCHANGED <<memory, items, market, post, touched, cutAt, budget>>

Die ==
  /\ daily.at # "idle"
  /\ budget.deaths > 0
  /\ budget' = [budget EXCEPT !.deaths = @ - 1]
  /\ cutAt' = IF daily.at = "lesson" THEN cutAt \cup {Current} ELSE cutAt
  /\ daily' = Rest
  /\ touched' = {}
  /\ UNCHANGED <<memory, items, market, post>>

RunDaily ==
  \/ ReadMemories \/ (\E k \in Keys : Expire(k)) \/ ReadJudgments
  \/ Pass \/ WriteOutcome \/ WriteLesson \/ EndDaily \/ RaiseAtBroken

UseMemories == \E k \in Keys : Remember(k) \/ Forget(k) \/ Pin(k) \/ RunOut(k)
UseItems ==
  \/ \E d \in Days : LookJudgment(d) \/ Ripen(d)
  \/ WriteJudgment \/ WriteUndated
  \/ \E i \in Ids : Archive(i) \/ Delete(i)

DailyNext == UseMemories \/ UseItems \/ StartDaily \/ RunDaily \/ Die

DailyFairness == WF_DailyVars(StartDaily) /\ WF_DailyVars(RunDaily)
DailySpec == DailyInit /\ [][DailyNext]_DailyVars /\ DailyFairness

-----------------------------------------------------------------------------
DailyTypeOK ==
  /\ memory \in [Keys -> Memory]
  /\ \A i \in Ids : items[i] \in Item
  /\ Len(items) <= MaxItems
  /\ market \in [Days -> {"young", "gain", "loss"}]
  /\ daily.at \in {"idle", "read", "expire", "judge", "lesson"}
  /\ daily.doomed \subseteq Keys /\ touched \subseteq Keys /\ cutAt \subseteq Ids

(* The expiry deletes by an id that it has read before.  A memory that is  *)
(* not past its time is lost to it only if it was refreshed, pinned or     *)
(* written anew since the job read the table.                              *)
ExpiryTakesTheStale ==
  [][\A k \in Keys :
       Expire(k) /\ memory[k] \in {"fresh", "pinned"} => k \in touched]_DailyVars

(* The outcome is the mark that a judgment is dealt with, and it is        *)
(* committed before the lesson.  Every loss of an entry has its lesson all *)
(* the same, unless the user deleted it or the job died between the two.   *)
LossesLeaveALesson ==
  \A o \in Ids :
    LET j == items[o].by
        InHand == daily.at = "lesson" /\ Current = j
    IN  /\ items[o].kind = "outcome" /\ items[o].evidence = "entry"
        /\ items[j].by \in Days /\ market[items[j].by] = "loss"
        => \/ InHand \/ j \in cutAt
           \/ \E l \in Ids : items[l].kind = "lesson" /\ items[l].by = j

(* A judgment whose ten days are over gets its outcome, however often the  *)
(* job died before it, unless the user takes the judgment away or a broken *)
(* one stands before it.                                                   *)
Blocked(i) == \E j \in 1 .. i - 1 : IsJudgment(j) /\ items[j].evidence = "broken"
JudgmentsGetOutcomes ==
  \A i \in 1 .. MaxItems :
    (i \in Ids /\ IsJudgment(i) /\ IsRipe(i))
      ~> (i \in Ids => ~IsJudgment(i) \/ Has("outcome", i) \/ Blocked(i))
=============================================================================
