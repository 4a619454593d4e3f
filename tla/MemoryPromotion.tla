-------------------------- MODULE MemoryPromotion --------------------------
(***************************************************************************)
(* The human-gated memory promotion loop.                                  *)
(*                                                                         *)
(* research/review_loop.py keeps a table of promotion candidates.  A       *)
(* reviewer promotes or rejects a candidate through the API; the handler   *)
(* then writes an L0 memory atom (memory/l0_memory.py), for a promotion    *)
(* also a stock memory item (memory/stock_memory.py), and last the         *)
(* candidate row.  The L0 routes decide on an atom directly.  Handlers run *)
(* in a thread pool, each with its own database session.  SQLite opens a   *)
(* transaction at the first write only, so every SELECT reads the latest   *)
(* committed rows, and each helper commits before it returns: between two  *)
(* commits of one handler any other request may run, and the handler may   *)
(* die.  One action below is one read or one commit.                       *)
(*                                                                         *)
(* One symbol and one memory type are fixed; summaries, evidence, scores,  *)
(* timestamps and the audit log carry no control and are left out.  The    *)
(* trust states "raw" and "legacy_import_pending" are written by no code   *)
(* path of this loop, "archived" by none at all; the guards keep them.     *)
(***************************************************************************)
EXTENDS Naturals, Sequences

CONSTANTS
  Requests,       \* handler threads that serve review and L0 requests
  Cases,          \* ids of review cases
  Refs,           \* caller-supplied source_ref values
  NoCase, NoRef,  \* the NULLs of review_case_id and source_ref
  Keys,           \* the <<case, ref>> keys the callers create candidates with
  MaxCandidates,  \* bound: rows ever inserted in memory_promotion_candidates
  MaxAborts       \* bound: requests that die half way

ASSUME KeysAssumption ==
  Keys \subseteq (Cases \cup {NoCase}) \X (Refs \cup {NoRef})
ASSUME BoundsAssumption == MaxCandidates \in Nat /\ MaxAborts \in Nat

VARIABLES
  candidates,   \* memory_promotion_candidates, row id = position
  atoms,        \* memory_atoms
  items,        \* stock_memory_items: the source_ref of each row
  req,          \* what each handler thread is doing
  aborts        \* requests that died so far

vars == <<candidates, atoms, items, req, aborts>>

-----------------------------------------------------------------------------
TRUST_STATES ==
  {"raw", "pending", "trusted", "refuted", "archived", "legacy_import_pending"}
\* Variant for mutation: a refuted atom may be promoted again.
PROMOTABLE_STATES_WithRefuted == {"raw", "pending", "legacy_import_pending", "refuted"}
PROMOTABLE_STATES == {"raw", "pending", "legacy_import_pending"}
CALLER_CREATABLE_STATES == {"raw", "pending", "legacy_import_pending"}
CANDIDATE_TRUST_VALUES == {"pending", "trusted", "rejected"}

\* A source_ref as stored: the caller's, or one made from the candidate id
\* with a prefix that differs between promotion, rejection and stock item.
SourceRefs == ({"ref"} \X Refs) \cup ({"promote", "reject", "item"} \X Nat)

Candidate == [case : Cases \cup {NoCase}, ref : Refs \cup {NoRef},
              trust : CANDIDATE_TRUST_VALUES, atom : Nat, item : Nat]
Atom == [ref : SourceRefs, trust : TRUST_STATES, item : Nat]

Decisions == {"promote", "reject"}
Gates     == {"promoteAtom", "refuteAtom"}

\* A handler: its operation, the step it is at, and its local variables (the
\* candidate row, the atom and the item it holds; id 0 is None).
Request == [op   : {"none", "create"} \cup Decisions \cup Gates,
            at   : {"idle", "insert", "findAtom", "writeAtom", "findItem",
                    "writeItem", "checkAtom", "gateAtom", "decide"},
            key  : (Cases \cup {NoCase}) \X (Refs \cup {NoRef}),
            cand : Nat, atom : Nat, item : Nat]

Idle == [op |-> "none", at |-> "idle", key |-> <<NoCase, NoRef>>,
         cand |-> 0, atom |-> 0, item |-> 0]

-----------------------------------------------------------------------------
AtomRef(c, op) ==
  IF candidates[c].ref # NoRef THEN <<"ref", candidates[c].ref>> ELSE <<op, c>>

ItemRef(c) ==
  IF candidates[c].ref # NoRef THEN <<"ref", candidates[c].ref>> ELSE <<"item", c>>

\* SELECT id ... WHERE source_ref = ... ORDER BY id ASC LIMIT 1; 0 when no row.
FirstOf(ids) ==
  LET first == {i \in ids : \A j \in ids : i <= j} IN
    IF first = {} THEN 0 ELSE CHOOSE i \in first : TRUE

AtomByRef(ref) == FirstOf({i \in 1..Len(atoms) : atoms[i].ref = ref})
ItemByRef(ref) == FirstOf({i \in 1..Len(items) : items[i] = ref})

\* The pending row an idempotent create returns instead of inserting.  A call
\* with neither key never matches one.
PendingTwin(key) ==
  /\ key # <<NoCase, NoRef>>
  /\ \E c \in 1..Len(candidates) :
       /\ candidates[c].trust = "pending"
       /\ <<candidates[c].case, candidates[c].ref>> = key

Step(r, at) == req' = [req EXCEPT ![r].at = at]
Finish(r)   == req' = [req EXCEPT ![r] = Idle]

-----------------------------------------------------------------------------
Init ==
  /\ candidates = << >>
  /\ atoms = << >>
  /\ items = << >>
  /\ req = [r \in Requests |-> Idle]
  /\ aborts = 0

(* create_memory_candidate: look for a pending twin, then insert.          *)
BeginCreate(r, key) ==
  /\ req[r].at = "idle"
  /\ Len(candidates) < MaxCandidates
  /\ ~PendingTwin(key)
  /\ req' = [req EXCEPT ![r] = [Idle EXCEPT !.op = "create", !.at = "insert",
                                            !.key = key]]
  /\ UNCHANGED <<candidates, atoms, items, aborts>>

InsertCandidate(r) ==
  /\ req[r].at = "insert"
  /\ Len(candidates) < MaxCandidates
  /\ candidates' = Append(candidates,
       [case |-> req[r].key[1], ref |-> req[r].key[2], trust |-> "pending",
        atom |-> 0, item |-> 0])
  /\ Finish(r)
  /\ UNCHANGED <<atoms, items, aborts>>

\* Variant for mutation: source_trust is not checked.
BeginDecision_Unchecked(r, c, op) ==
  /\ req[r].at = "idle"
  /\ req' = [req EXCEPT ![r] = [Idle EXCEPT !.op = op, !.at = "findAtom",
                                            !.cand = c]]
  /\ UNCHANGED <<candidates, atoms, items, aborts>>

\* Variant for mutation: a promotion writes the stock item first.
BeginDecision_ItemFirst(r, c, op) ==
  /\ req[r].at = "idle"
  /\ candidates[c].trust = "pending"
  /\ req' = [req EXCEPT ![r] =
       [Idle EXCEPT !.op = op, !.cand = c,
                    !.at = IF op = "promote" THEN "findItem" ELSE "findAtom"]]
  /\ UNCHANGED <<candidates, atoms, items, aborts>>

(* promote_memory and reject_memory_candidate: the one check of            *)
(* source_trust.                                                           *)
BeginDecision(r, c, op) ==
  /\ req[r].at = "idle"
  /\ candidates[c].trust = "pending"
  /\ req' = [req EXCEPT ![r] = [Idle EXCEPT !.op = op, !.at = "findAtom",
                                            !.cand = c]]
  /\ UNCHANGED <<candidates, atoms, items, aborts>>

(* create_memory_atom, the reads: the atom with this source_ref, if any,   *)
(* must still be in a state callers may create.                            *)
FindAtom(r) ==
  /\ req[r].at = "findAtom"
  /\ LET a == AtomByRef(AtomRef(req[r].cand, req[r].op)) IN
       /\ a # 0 => atoms[a].trust \in CALLER_CREATABLE_STATES
       /\ req' = [req EXCEPT ![r].at = "writeAtom", ![r].atom = a]
  /\ UNCHANGED <<candidates, atoms, items, aborts>>

RefuseAtom(r) ==
  /\ req[r].at = "findAtom"
  /\ LET a == AtomByRef(AtomRef(req[r].cand, req[r].op)) IN
       a # 0 /\ atoms[a].trust \notin CALLER_CREATABLE_STATES
  /\ Finish(r)
  /\ UNCHANGED <<candidates, atoms, items, aborts>>

\* Variant for mutation: no stock item is written.
AfterAtomWrite_NoItem(r) == "checkAtom"

(* What follows the atom upsert: a rejection goes to the gate; a promotion *)
(* upserts its stock item and then the atom once more, now linked to it.   *)
AfterAtomWrite(r) ==
  IF req[r].op = "promote" /\ req[r].item = 0 THEN "findItem" ELSE "checkAtom"

(* create_memory_atom, the commit: an UPDATE writes every column, the      *)
(* trust state among them.                                                 *)
AtomRow(r) == [ref   |-> AtomRef(req[r].cand, req[r].op),
               trust |-> "pending", item |-> req[r].item]

InsertAtom(r) ==
  /\ req[r].at = "writeAtom"
  /\ req[r].atom = 0
  /\ atoms' = Append(atoms, AtomRow(r))
  /\ req' = [req EXCEPT ![r].at = AfterAtomWrite(r), ![r].atom = Len(atoms) + 1]
  /\ UNCHANGED <<candidates, items, aborts>>

UpdateAtom(r) ==
  /\ req[r].at = "writeAtom"
  /\ req[r].atom # 0
  /\ atoms' = [atoms EXCEPT ![req[r].atom] = AtomRow(r)]
  /\ Step(r, AfterAtomWrite(r))
  /\ UNCHANGED <<candidates, items, aborts>>

(* create_stock_memory: upsert by source_ref, read then commit.            *)
FindItem(r) ==
  /\ req[r].at = "findItem"
  /\ req' = [req EXCEPT ![r].at = "writeItem",
                        ![r].item = ItemByRef(ItemRef(req[r].cand))]
  /\ UNCHANGED <<candidates, atoms, items, aborts>>

WriteItem(r) ==
  /\ req[r].at = "writeItem"
  /\ IF req[r].item = 0
       THEN /\ items' = Append(items, ItemRef(req[r].cand))
            /\ req' = [req EXCEPT ![r].at = "findAtom",
                                  ![r].item = Len(items) + 1]
       ELSE /\ UNCHANGED items
            /\ Step(r, "findAtom")
  /\ UNCHANGED <<candidates, atoms, aborts>>

(* promote_atom and refute_atom: the read of trust_state, then the UPDATE. *)
MayPass(op, trust) ==
  IF op \in {"promote", "promoteAtom"} THEN trust \in PROMOTABLE_STATES
                                       ELSE trust # "archived"

CheckAtom(r) ==
  /\ req[r].at = "checkAtom"
  /\ IF MayPass(req[r].op, atoms[req[r].atom].trust)
       THEN Step(r, "gateAtom")
       ELSE Finish(r)
  /\ UNCHANGED <<candidates, atoms, items, aborts>>

(* The L0 routes call the same two functions on an atom of their choice.   *)
BeginGate(r, a, op) ==
  /\ req[r].at = "idle"
  /\ MayPass(op, atoms[a].trust)
  /\ req' = [req EXCEPT ![r] = [Idle EXCEPT !.op = op, !.at = "gateAtom",
                                            !.atom = a]]
  /\ UNCHANGED <<candidates, atoms, items, aborts>>

\* Variant for mutation: the decision ends at the gate.
GateAtom_NoDecide(r) ==
  /\ req[r].at = "gateAtom"
  /\ atoms' = [atoms EXCEPT ![req[r].atom].trust =
                 IF req[r].op \in {"promote", "promoteAtom"}
                   THEN "trusted" ELSE "refuted"]
  /\ Finish(r)
  /\ UNCHANGED <<candidates, items, aborts>>

GateAtom(r) ==
  /\ req[r].at = "gateAtom"
  /\ atoms' = [atoms EXCEPT ![req[r].atom].trust =
                 IF req[r].op \in {"promote", "promoteAtom"}
                   THEN "trusted" ELSE "refuted"]
  /\ IF req[r].op \in Decisions THEN Step(r, "decide") ELSE Finish(r)
  /\ UNCHANGED <<candidates, items, aborts>>

(* The last commit of a decision: the candidate row, not re-checked.       *)
DecideCandidate(r) ==
  /\ req[r].at = "decide"
  /\ LET c == req[r].cand IN
       candidates' =
         IF req[r].op = "promote"
           THEN [candidates EXCEPT ![c].trust = "trusted",
                   ![c].atom = req[r].atom, ![c].item = req[r].item]
           ELSE [candidates EXCEPT ![c].trust = "rejected",
                   ![c].atom = req[r].atom]
  /\ Finish(r)
  /\ UNCHANGED <<atoms, items, aborts>>

(* The thread dies between two commits: the process is killed, or a write  *)
(* raises ("database is locked").  What it committed stays.                *)
Abort(r) ==
  /\ req[r].at # "idle"
  /\ aborts < MaxAborts
  /\ aborts' = aborts + 1
  /\ Finish(r)
  /\ UNCHANGED <<candidates, atoms, items>>

-----------------------------------------------------------------------------
Serve(r) ==
  \/ InsertCandidate(r)
  \/ FindAtom(r) \/ RefuseAtom(r) \/ InsertAtom(r) \/ UpdateAtom(r)
  \/ FindItem(r) \/ WriteItem(r)
  \/ CheckAtom(r) \/ GateAtom(r)
  \/ DecideCandidate(r)

Next ==
  \E r \in Requests :
    \/ \E key \in Keys : BeginCreate(r, key)
    \/ \E c \in 1..Len(candidates), op \in Decisions : BeginDecision(r, c, op)
    \/ \E a \in 1..Len(atoms), op \in Gates : BeginGate(r, a, op)
    \/ Serve(r)
    \/ Abort(r)

Spec == Init /\ [][Next]_vars

(* A request that was accepted is served; the reviewer comes back to every *)
(* candidate that is still listed as pending.                              *)
Review(c) == \E r \in Requests, op \in Decisions :
               c <= Len(candidates) /\ BeginDecision(r, c, op)

FairSpec ==
  /\ Spec
  /\ \A r \in Requests : WF_vars(Serve(r))
  /\ \A c \in 1..MaxCandidates : SF_vars(Review(c))

-----------------------------------------------------------------------------
Quiescent == \A r \in Requests : req[r].at = "idle"

TypeOK ==
  /\ candidates \in Seq(Candidate)
  /\ atoms \in Seq(Atom)
  /\ items \in Seq(SourceRefs)
  /\ req \in [Requests -> Request]
  /\ aborts \in 0..MaxAborts

(* However requests interleave and wherever they die, a decided candidate  *)
(* names an atom stored under a reference of its own, and a trusted one    *)
(* also the stock item of its own reference (promote_memory and            *)
(* reject_memory_candidate write the ids several commits after the rows).  *)
LinkedAtom(c) ==
  LET a == candidates[c].atom IN
    /\ a \in 1..Len(atoms)
    /\ \E op \in Decisions : atoms[a].ref = AtomRef(c, op)

LinkedItem(c) ==
  LET i == candidates[c].item IN
    i \in 1..Len(items) /\ items[i] = ItemRef(c)

DecisionLinks ==
  \A c \in 1..Len(candidates) :
    /\ candidates[c].trust # "pending" => LinkedAtom(c)
    /\ candidates[c].trust = "trusted" => LinkedItem(c)

(* No stock item is materialised for a candidate before the L0 atom of     *)
(* that candidate exists: recall through the old table never runs ahead of *)
(* the gate's table (order of the writes in promote_memory).               *)
ItemBackedByAtom ==
  \A i \in 1..Len(items) :
    \E a \in 1..Len(atoms), c \in 1..Len(candidates) :
      items[i] = ItemRef(c) /\ atoms[a].ref = AtomRef(c, "promote")

(* The verdict on a candidate and the trust of its atom agree; a trusted   *)
(* atom may later be refuted through the L0 route.                         *)
VerdictsAgree ==
  \A c \in 1..Len(candidates) :
    LET a == candidates[c].atom IN
      /\ candidates[c].trust = "trusted" =>
           /\ atoms[a].trust \in {"trusted", "refuted"}
           /\ atoms[a].item = candidates[c].item
      /\ candidates[c].trust = "rejected" => atoms[a].trust = "refuted"

\* The candidate has a source_ref of its own, made from its id.
OwnRef(c) == candidates[c].ref = NoRef

(* A lesson without a shared source_ref that the reviewer keeps coming     *)
(* back to is decided.                                                     *)
OwnRefGetsDecided ==
  \A c \in 1..MaxCandidates :
    (c <= Len(candidates) /\ OwnRef(c)) ~>
      (c <= Len(candidates) /\ candidates[c].trust # "pending")

-----------------------------------------------------------------------------
(* Served one request at a time, and when none dies, the loop implements   *)
(* the trust ledger: a verdict takes effect when the gate commits.         *)
Gated(c, op) == \E r \in Requests : /\ req[r].at = "decide"
                                    /\ req[r].cand = c /\ req[r].op = op

Lessons ==
  [c \in 1..Len(candidates) |->
     [case |-> candidates[c].case, ref |-> candidates[c].ref,
      trust |-> IF Gated(c, "promote") THEN "trusted"
                ELSE IF Gated(c, "reject") THEN "rejected"
                ELSE candidates[c].trust]]

AtomRefsIn(trust) ==
  {atoms[a].ref : a \in {b \in 1..Len(atoms) : atoms[b].trust = trust}}

Ledger == INSTANCE TrustLedger WITH
            lessons <- Lessons,
            trusted <- AtomRefsIn("trusted"),
            refuted <- AtomRefsIn("refuted")

ImplementsLedger == Ledger!LedgerSpec
=============================================================================
