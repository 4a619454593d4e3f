----------------------------- MODULE KronosData -----------------------------
(***************************************************************************)
(* tools/m27_kronos_finetune_data.py, which prepares the data that a model *)
(* is trained on, and what tools/m27_kronos_path_a_launch.py cuts from it. *)
(* A preparation writes four files one after the other; windows.csv names  *)
(* rows of the panel in train_data.pkl by their positions.  A preparation  *)
(* may die and be made again, and a launch may read while it writes.       *)
(*                                                                         *)
(* One stock, and days for the rows of its prices.  Between preparations   *)
(* its rows only grow by later days: an earlier row that is added or       *)
(* deleted moves the positions, which nothing here guards against.         *)
(***************************************************************************)
EXTENDS Naturals, FiniteSets

CONSTANTS
  LastTradingDay,                 \* bound on the days, the first being 1
  Context, PredLen,               \* rows before an anchor, itself included, and after it
  TrainEnd, ValidStart, ValidEnd, \* the splits; the first one starts at day 1
  Launchers,
  MaxPreparations                 \* bound

ASSUME SplitsAssumption ==
  /\ {LastTradingDay, Context, PredLen, TrainEnd, ValidStart, ValidEnd} \subseteq Nat \ {0}
  /\ TrainEnd < ValidStart /\ ValidStart <= ValidEnd

VARIABLES
  traded,     \* table prices: the days of the stock
  file,       \* the four files of the data set
  preparing,  \* the preparation under way, or not
  reading     \* what each launch has read

DataVars == <<traded, file, preparing, reading>>

TradingDays == 1 .. LastTradingDay
FileNames == <<"train_data", "valid_data", "windows", "coverage_report">>
FileIds == DOMAIN FileNames

\* The days at positions of a panel, which is a set of days in their order.
DayAt(panel, i) == CHOOSE d \in panel : Cardinality({x \in panel : x < d}) = i
DaysAt(panel, i, j) == {d \in panel : Cardinality({x \in panel : x < d}) \in i .. j}

\* build_windows_for_symbol: the anchors of a split, and what they span.
Windows(panel, from, to) ==
  {[start |-> i + 1 - Context, anchor |-> i, end |-> i + PredLen,
    days |-> DaysAt(panel, i + 1 - Context, i + PredLen)] :
     i \in {k \in (Context - 1) .. Cardinality(panel) :
              /\ k + PredLen < Cardinality(panel)
              /\ DayAt(panel, k) >= from /\ DayAt(panel, k + PredLen) <= to}}

\* _split_panels: from the first day of the windows to the last one.
Span(panel, windows) ==
  LET days == UNION {w.days : w \in windows}
  IN  {d \in panel : (\E x \in days : x <= d) /\ (\E x \in days : x >= d)}

Loaded(all) == {d \in all : d <= ValidEnd}

Contents(panel) ==
  LET train == Windows(panel, 1, TrainEnd)
      valid == Windows(panel, ValidStart, ValidEnd)
  IN  <<Span(panel, train), Span(panel, valid), train, [train |-> train # {}, valid |-> valid # {}]>>

\* build_coverage_report: both splits have windows, unless less will do.
Passed(report) ==
  LET found == Contents(report.of)[4] IN report.partial \/ (found.train /\ found.valid)

NotPreparing == [at |-> 0, open |-> FALSE, panel |-> {}, partial |-> FALSE, made |-> 0]
NotReading == [at |-> "idle", panel |-> {}, windows |-> {}]
NoFileYet == [state |-> "absent", of |-> {}, partial |-> FALSE]

DataInit ==
  /\ traded \in {S \in SUBSET TradingDays : S # {}}
  /\ file = [f \in FileIds |-> NoFileYet]
  /\ preparing = NotPreparing
  /\ reading = [l \in Launchers |-> NotReading]

\* A day is traded, or it is not and a later one is.
NextClose ==
  /\ \E d \in TradingDays : (\A x \in traded : x < d) /\ traded' = traded \cup {d}
  /\ UNCHANGED <<file, preparing, reading>>

-----------------------------------------------------------------------------
(* A preparation.                                                          *)

\* A report passes without the windows of a split when that is allowed.
Prepare ==
  /\ preparing.at = 0 /\ preparing.made < MaxPreparations
  /\ \E partial \in BOOLEAN :
       preparing' = [at |-> 1, open |-> FALSE, panel |-> Loaded(traded), partial |-> partial,
                     made |-> preparing.made + 1]
  /\ UNCHANGED <<traded, file, reading>>

\* Opening a file empties it.
OpenFile ==
  /\ preparing.at # 0 /\ ~preparing.open
  /\ file' = [file EXCEPT ![preparing.at] = [state |-> "torn", of |-> preparing.panel,
                                              partial |-> preparing.partial]]
  /\ preparing' = [preparing EXCEPT !.open = TRUE]
  /\ UNCHANGED <<traded, reading>>

WriteFile ==
  /\ preparing.open
  /\ file' = [file EXCEPT ![preparing.at].state = "whole"]
  /\ preparing' = [preparing EXCEPT !.open = FALSE,
                                    !.at = IF preparing.at = 4 THEN 0 ELSE preparing.at + 1]
  /\ UNCHANGED <<traded, reading>>

DiePreparing ==
  /\ preparing.at # 0
  /\ preparing' = [preparing EXCEPT !.at = 0, !.open = FALSE]
  /\ UNCHANGED <<traded, file, reading>>

-----------------------------------------------------------------------------
(* A launch.                                                               *)

Reads(l, r) == reading' = [reading EXCEPT ![l] = r]

\* validate_dataset: every file is there, and the report is whole and good.
ValidateDataset(l) ==
  /\ reading[l].at = "idle"
  /\ \A f \in FileIds : file[f].state # "absent"
  /\ file[4].state = "whole" /\ Passed(file[4])
  /\ Reads(l, [NotReading EXCEPT !.at = "panel"])
  /\ UNCHANGED <<traded, file, preparing>>

\* A torn pickle cannot be read, and the launch fails.
ReadPanel(l) ==
  /\ reading[l].at = "panel"
  /\ IF file[1].state = "torn" THEN Reads(l, [NotReading EXCEPT !.at = "failed"])
     ELSE Reads(l, [NotReading EXCEPT !.at = "windows", !.panel = Contents(file[1].of)[1]])
  /\ UNCHANGED <<traded, file, preparing>>

\* A torn table ends early.
ReadWindows(l) ==
  /\ reading[l].at = "windows"
  /\ \E n \in 0 .. LastTradingDay :
       LET all == Contents(file[3].of)[3]
           read == {w \in all : file[3].state = "torn" => w.anchor < n}
       IN  Reads(l, IF read = {} THEN [NotReading EXCEPT !.at = "failed"]
                    ELSE [reading[l] EXCEPT !.at = "training", !.windows = read])
  /\ UNCHANGED <<traded, file, preparing>>

DataDone == preparing.at = 0 /\ \A l \in Launchers : reading[l].at \in {"idle", "training", "failed"}

DataNext ==
  \/ NextClose \/ Prepare \/ OpenFile \/ WriteFile \/ DiePreparing
  \/ \E l \in Launchers : ValidateDataset(l) \/ ReadPanel(l) \/ ReadWindows(l)

DataSpec == DataInit /\ [][DataNext]_DataVars

-----------------------------------------------------------------------------
(* What is trained on.                                                     *)

\* Variant for mutation: what is left of a window is good enough.
Sequence_Cut(panel, w) == DaysAt(panel, w.start, w.end)
\* _window_sequence: rows by their positions, or nothing when some are not
\* there.
Sequence(panel, w) == IF w.end < Cardinality(panel) THEN DaysAt(panel, w.start, w.end) ELSE {}

\* _window_arrays: rows by their days, which may be fewer.
Example(panel, w) ==
  {d \in panel : d \in w.days /\ Cardinality({x \in w.days : x < d}) < Context}

(* Whichever preparations the files are of, and whenever a launch reads    *)
(* them, each sequence of a real training is the days of its window, an    *)
(* example of a smoke training is of its window, and no day is after the   *)
(* end of the training split.                                              *)
SequencesMatchWindows ==
  \A l \in Launchers : reading[l].at = "training" =>
    \A w \in reading[l].windows :
      /\ Sequence(reading[l].panel, w) \in {{}, w.days}
      /\ \A d \in Sequence(reading[l].panel, w) \cup Example(reading[l].panel, w) : d <= TrainEnd
=============================================================================
