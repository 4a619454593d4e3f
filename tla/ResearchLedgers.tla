--------------------------- MODULE ResearchLedgers ---------------------------
(***************************************************************************)
(* The ledgers of the research pages: theses (research/thesis_ledger.py),  *)
(* forward theses (research/forward_thesis.py) and theme hypotheses        *)
(* (research/theme_hypothesis_engine.py), behind the routes of             *)
(* api/routes/research.py.                                                 *)
(*                                                                         *)
(* The three are alike: a record has a key, which is unique, a status that *)
(* moves along a table of transitions, and columns that are filled later.  *)
(* A request reads the record, checks, and commits its columns together    *)
(* with one line of the audit log; the UPDATE names the columns whose      *)
(* value differs from what was read.  The model follows one key of one     *)
(* ledger.  The audit log, the confidence entries of a thesis, both only   *)
(* inserted into, and texts, dates and links are left out; confidences are *)
(* whole.                                                                  *)
(***************************************************************************)
EXTENDS Integers

CONSTANTS
  Editors,     \* threads that serve requests of the research pages
  Confidences  \* bounds of the confidence band of a forward thesis

ASSUME ConfidenceAssumption == Confidences \subseteq 0 .. 100

VARIABLES
  ledger,      \* the ledger whose record is followed
  record,      \* its row, or NoRecord
  editing      \* what each thread has read and will write

Ledgers == {"thesis", "forward", "hypothesis"}

ThesisMoves ==
  {"active"} \X {"watch", "broken", "retired"}
    \cup {"watch"} \X {"active", "broken", "retired"}
    \cup {<<"broken", "retired">>}

ForwardMoves ==
  {"draft"} \X {"active", "watch", "invalidated"}
    \cup {"active"} \X {"watch", "superseded", "invalidated"}
    \cup {"watch"} \X {"active", "superseded", "invalidated"}

HypothesisMoves ==
  {"proposed"} \X {"supported", "contradicted", "invalidated"}
    \cup {"supported"} \X {"contradicted", "invalidated"}
    \cup {"contradicted"} \X {"supported", "invalidated"}

Moves ==
  CASE ledger = "thesis"     -> ThesisMoves
    [] ledger = "forward"    -> ForwardMoves
    [] ledger = "hypothesis" -> HypothesisMoves

StatusesOf == {m[1] : m \in Moves} \cup {m[2] : m \in Moves}

Unset == -1
NoRecord == [status |-> "none", low |-> Unset, high |-> Unset, attached |-> FALSE]
NoEdit == [op |-> "none", was |-> NoRecord, new |-> NoRecord]

LedgersInit ==
  /\ ledger \in Ledgers
  /\ record = NoRecord
  /\ editing = [e \in Editors |-> NoEdit]

\* The request has read the record and is about to write it.
Read(e, op, new) ==
  /\ editing[e] = NoEdit
  /\ editing' = [editing EXCEPT ![e] = [op |-> op, was |-> record, new |-> new]]
  /\ UNCHANGED <<ledger, record>>

-----------------------------------------------------------------------------
\* A record that exists is returned as it is; a new one may have any status.
MayCreate == record = NoRecord

(* create_thesis.                                                          *)
CreateThesis(e, s) ==
  /\ ledger = "thesis" /\ MayCreate
  /\ Read(e, "create", [NoRecord EXCEPT !.status = s])

\* Either bound may be absent from a new record; an inverted band is refused.
BandIsValid(low, high) == low # Unset /\ high # Unset => low <= high
WithBand(row, low, high) == [[row EXCEPT !.low = low] EXCEPT !.high = high]

(* create_forward_thesis.                                                  *)
CreateForwardThesis(e, s, low, high) ==
  /\ ledger = "forward" /\ MayCreate
  /\ BandIsValid(low, high)
  /\ Read(e, "create", WithBand([NoRecord EXCEPT !.status = s], low, high))

(* create_hypothesis, under a theme that exists.                           *)
CreateHypothesis(e, s) ==
  /\ ledger = "hypothesis" /\ MayCreate
  /\ Read(e, "create", [NoRecord EXCEPT !.status = s])

\* Only a transition of the ledger's table passes.
MayMove(s) == <<record.status, s>> \in Moves

(* update_thesis_status.                                                   *)
UpdateThesisStatus(e, s) ==
  /\ ledger = "thesis" /\ MayMove(s)
  /\ Read(e, "move", [record EXCEPT !.status = s])

(* update_forward_thesis_status.                                           *)
UpdateForwardThesisStatus(e, s) ==
  /\ ledger = "forward" /\ MayMove(s)
  /\ Read(e, "move", [record EXCEPT !.status = s])

(* update_hypothesis_status.                                               *)
UpdateHypothesisStatus(e, s) ==
  /\ ledger = "hypothesis" /\ MayMove(s)
  /\ Read(e, "move", [record EXCEPT !.status = s])

(* update_confidence_band.                                                 *)
UpdateConfidenceBand(e, low, high) ==
  /\ ledger = "forward" /\ record # NoRecord
  /\ BandIsValid(low, high)
  /\ Read(e, "band", WithBand(record, low, high))

(* What is attached to a record whatever its status: attach_review_case,   *)
(* attach_evidence_manifest, set_beneficiary_tiers and                     *)
(* attach_forward_evidence.                                                *)
Attach(e) ==
  /\ record # NoRecord
  /\ Read(e, "attach", [record EXCEPT !.attached = TRUE])

-----------------------------------------------------------------------------
\* Variant for mutation: the whole row is written.
Merged_Whole(row, was, new) == new
\* The UPDATE names the columns that differ from what was read.
Merged(row, was, new) ==
  [f \in DOMAIN row |-> IF new[f] = was[f] THEN row[f] ELSE new[f]]

\* The key is unique: of two requests that create the record, the INSERT of
\* the second one raises and its session is rolled back.
Taken(e) == editing[e].op = "create" /\ record # NoRecord

(* The commit of the row, with its line of the audit log.                  *)
Store(e) ==
  /\ editing[e] # NoEdit
  /\ record' = IF Taken(e) THEN record
               ELSE Merged(record, editing[e].was, editing[e].new)
  /\ editing' = [editing EXCEPT ![e] = NoEdit]
  /\ UNCHANGED ledger

Edit(e) ==
  \/ \E s \in StatusesOf :
       \/ CreateThesis(e, s) \/ CreateHypothesis(e, s)
       \/ \E low, high \in Confidences \cup {Unset} : CreateForwardThesis(e, s, low, high)
       \/ UpdateThesisStatus(e, s) \/ UpdateForwardThesisStatus(e, s)
       \/ UpdateHypothesisStatus(e, s)
  \/ \E low, high \in Confidences : UpdateConfidenceBand(e, low, high)
  \/ Attach(e)

LedgersNext == \E e \in Editors : Edit(e) \/ Store(e)

LedgersVars == <<ledger, record, editing>>
LedgersSpec == LedgersInit /\ [][LedgersNext]_LedgersVars

-----------------------------------------------------------------------------
(* However old the record is that a request has read, its commit does what *)
(* was asked and nothing else: a new status or what is attached is there   *)
(* afterwards, the columns of other operations are as those left them, and *)
(* a record that is already there is not created again.                    *)
EditsKeepToTheirColumns ==
  [][\A e \in Editors : Store(e) =>
       LET edit == editing[e] IN
       /\ edit.op = "create" /\ record # NoRecord => record' = record
       /\ edit.op = "move" => record'.status = edit.new.status
       /\ edit.op = "attach" => record'.attached
       /\ edit.op \in {"band", "attach"} => record'.status = record.status
       /\ edit.op \in {"move", "band"} => record'.attached = record.attached
       /\ edit.op \in {"move", "attach"} =>
            record'.low = record.low /\ record'.high = record.high]_LedgersVars
=============================================================================
