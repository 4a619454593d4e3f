---------------------- MODULE MemoryPromotion_proofs ----------------------
(***************************************************************************)
(* Type correctness and the link invariants of the promotion loop, for any *)
(* number of handler threads, any interleaving of their commits and any    *)
(* number of deaths between them; the agreement of verdicts for requests   *)
(* served one at a time, wherever they die; and, when none dies, that the  *)
(* loop implements the trust ledger.                                       *)
(***************************************************************************)
EXTENDS MemoryPromotion, SequenceTheorems, WellFoundedInduction, TLAPS

\* The rows a handler works on are the rows of its candidate.
HoldsAtom(r) ==
  /\ req[r].atom \in 1..Len(atoms)
  /\ atoms[req[r].atom].ref = AtomRef(req[r].cand, req[r].op)

HoldsItem(r) ==
  /\ req[r].item \in 1..Len(items)
  /\ items[req[r].item] = ItemRef(req[r].cand)

HasAtom(c) == \E a \in 1..Len(atoms) : atoms[a].ref = AtomRef(c, "promote")

Deciding(r) == req[r].op \in Decisions /\ req[r].at # "idle"

RequestInv(r) ==
  /\ req[r].at \in {"findAtom", "writeAtom", "findItem", "writeItem",
                    "checkAtom", "decide"} => req[r].op \in Decisions
  /\ req[r].at \in {"findItem", "writeItem"} => req[r].op = "promote"
  /\ Deciding(r) => req[r].cand \in 1..Len(candidates)
  /\ req[r].at \in {"findItem", "writeItem", "checkAtom", "decide"} => HoldsAtom(r)
  /\ req[r].at = "writeAtom" /\ req[r].atom # 0 => HoldsAtom(r)
  /\ req[r].at = "gateAtom" => req[r].atom \in 1..Len(atoms)
  /\ req[r].at = "gateAtom" /\ Deciding(r) => HoldsAtom(r)
  /\ Deciding(r) /\ req[r].item # 0 => HoldsItem(r) /\ HasAtom(req[r].cand)
  /\ req[r].op = "promote" /\ req[r].at \in {"checkAtom", "gateAtom", "decide"} =>
       req[r].item # 0

LinkInv ==
  /\ TypeOK
  /\ \A r \in Requests : RequestInv(r)
  /\ DecisionLinks
  /\ ItemBackedByAtom

\* What every step does to the three tables: rows are only added, and no row
\* changes its references.
Grows ==
  /\ Len(candidates') \in Nat /\ Len(candidates) <= Len(candidates')
  /\ \A c \in 1..Len(candidates) : candidates'[c].ref = candidates[c].ref
  /\ Len(atoms') \in Nat /\ Len(atoms) <= Len(atoms')
  /\ \A a \in 1..Len(atoms) : atoms'[a].ref = atoms[a].ref
  /\ Len(items') \in Nat /\ Len(items) <= Len(items')
  /\ \A i \in 1..Len(items) : items'[i] = items[i]

-----------------------------------------------------------------------------
(* The lookup by source_ref returns no row or one of the matching rows.    *)
LEMMA FirstOfIsMember ==
  ASSUME NEW ids
  PROVE  FirstOf(ids) = 0 \/ FirstOf(ids) \in ids
BY DEF FirstOf

(* Writing one row of a table keeps the table's type and its other rows.   *)
LEMMA UpdateRow ==
  ASSUME NEW S, NEW t \in Seq(S), NEW i \in 1..Len(t), NEW e \in S
  PROVE  LET u == [t EXCEPT ![i] = e] IN
           /\ u \in Seq(S) /\ Len(u) = Len(t)
           /\ \A j \in 1..Len(t) : u[j] = IF j = i THEN e ELSE t[j]
BY ExceptSeq

(* A handler whose local variables did not change still holds its rows.    *)
LEMMA RequestStable ==
  ASSUME NEW r \in Requests, TypeOK, RequestInv(r), Grows, req'[r] = req[r]
  PROVE  RequestInv(r)'
<1> USE DEF TypeOK, Grows, Request
<1>1. Deciding(r) => /\ req[r].cand \in 1..Len(candidates)
                     /\ req[r].cand \in 1..Len(candidates')
                     /\ candidates'[req[r].cand].ref = candidates[req[r].cand].ref
  BY DEF RequestInv
<1>2. Deciding(r) => /\ AtomRef(req[r].cand, req[r].op)' = AtomRef(req[r].cand, req[r].op)
                     /\ AtomRef(req[r].cand, "promote")' = AtomRef(req[r].cand, "promote")
                     /\ ItemRef(req[r].cand)' = ItemRef(req[r].cand)
  BY <1>1 DEF AtomRef, ItemRef
<1>3. Deciding(r) /\ HoldsAtom(r) => HoldsAtom(r)'
  BY <1>2 DEF HoldsAtom
<1>4. Deciding(r) /\ HoldsItem(r) => HoldsItem(r)'
  BY <1>2 DEF HoldsItem
<1>5. Deciding(r) /\ HasAtom(req[r].cand) => HasAtom(req[r].cand)'
  BY <1>2 DEF HasAtom
<1>6. Deciding(r)' = Deciding(r)
  BY DEF Deciding
<1>7. QED
  BY <1>1, <1>3, <1>4, <1>5, <1>6 DEF RequestInv, Deciding
-----------------------------------------------------------------------------
(* One step of one handler: types hold, rows are only added, the handler   *)
(* keeps hold of its rows and no other handler is touched.                 *)
Served(r) ==
  /\ TypeOK'
  /\ Grows
  /\ RequestInv(r)'
  /\ \A q \in Requests : q # r => req'[q] = req[q]

(* An idle handler's record is a request record.                         *)
LEMMA IdleType == Idle \in Request
BY DEF Idle, Request

(* Ending a request leaves nothing to show about it.                       *)
LEMMA FinishServes ==
  ASSUME NEW r \in Requests, TypeOK, Finish(r), Grows,
         candidates' \in Seq(Candidate), atoms' \in Seq(Atom),
         items' \in Seq(SourceRefs), aborts' \in 0..MaxAborts
  PROVE  Served(r)
<1>1. req' \in [Requests -> Request] /\ req'[r] = Idle
  BY IdleType DEF Finish, TypeOK
<1>2. TypeOK'
  BY <1>1 DEF TypeOK
<1>3. RequestInv(r)'
  BY <1>1 DEF RequestInv, Idle, Deciding, Decisions
<1>4. \A q \in Requests : q # r => req'[q] = req[q]
  BY DEF Finish, TypeOK
<1>5. QED
  BY <1>2, <1>3, <1>4 DEF Served

(* Tables nobody writes do not shrink.                                   *)
LEMMA NothingWritten ==
  ASSUME TypeOK, UNCHANGED <<candidates, atoms, items>>
  PROVE  Grows
BY DEF TypeOK, Grows

(* create_memory_candidate accepts a call.                               *)
LEMMA BeginCreateServes ==
  ASSUME NEW r \in Requests, NEW key \in Keys, LinkInv, BeginCreate(r, key)
  PROVE  Served(r)
<1>1. key \in (Cases \cup {NoCase}) \X (Refs \cup {NoRef})
  BY KeysAssumption
<1>2. [Idle EXCEPT !.op = "create", !.at = "insert", !.key = key] \in Request
  BY <1>1 DEF Idle, Request
<1>3. TypeOK'
  BY <1>2 DEF BeginCreate, LinkInv, TypeOK
<1>4. Grows
  BY NothingWritten DEF LinkInv, BeginCreate
<1>5. RequestInv(r)'
  BY DEF LinkInv, TypeOK, BeginCreate, RequestInv, Idle, Deciding, Decisions
<1>6. QED
  BY <1>3, <1>4, <1>5 DEF Served, BeginCreate, LinkInv, TypeOK

(* create_memory_candidate inserts its row.                              *)
LEMMA InsertCandidateServes ==
  ASSUME NEW r \in Requests, LinkInv, InsertCandidate(r)
  PROVE  Served(r)
<1> DEFINE row == [case |-> req[r].key[1], ref |-> req[r].key[2],
                   trust |-> "pending", atom |-> 0, item |-> 0]
<1>1. row \in Candidate
  BY DEF LinkInv, TypeOK, Request, Candidate, CANDIDATE_TRUST_VALUES
<1>2. candidates \in Seq(Candidate) /\ candidates' = Append(candidates, row)
  BY DEF LinkInv, TypeOK, InsertCandidate
<1>3. /\ candidates' \in Seq(Candidate)
      /\ Len(candidates') = Len(candidates) + 1
      /\ \A c \in 1..Len(candidates) : candidates'[c] = candidates[c]
  BY <1>1, <1>2, AppendProperties
<1>4. \A c \in 1..Len(candidates) : candidates'[c].ref = candidates[c].ref
  BY <1>3
<1>5. Grows
  BY <1>2, <1>3, <1>4 DEF Grows, LinkInv, TypeOK, InsertCandidate
<1>6. QED
  BY <1>3, <1>5, FinishServes DEF InsertCandidate, LinkInv, TypeOK

(* promote_memory and reject_memory_candidate begin.                     *)
LEMMA BeginDecisionServes ==
  ASSUME NEW r \in Requests, NEW c \in 1..Len(candidates),
         NEW op \in Decisions, LinkInv, BeginDecision(r, c, op)
  PROVE  Served(r)
<1> DEFINE new == [Idle EXCEPT !.op = op, !.at = "findAtom", !.cand = c]
<1>0. c \in Nat
  BY DEF LinkInv, TypeOK
<1>1. new \in Request
  BY <1>0 DEF Idle, Request
<1>2. req' = [req EXCEPT ![r] = new] /\ req'[r] = new
  BY DEF BeginDecision, LinkInv, TypeOK
<1>3. TypeOK'
  BY <1>1, <1>2 DEF BeginDecision, LinkInv, TypeOK
<1>4. Grows
  BY NothingWritten DEF LinkInv, BeginDecision
<1>5. RequestInv(r)'
  BY <1>2 DEF BeginDecision, RequestInv, Idle, Deciding
<1>6. QED
  BY <1>2, <1>3, <1>4, <1>5 DEF Served, LinkInv, TypeOK

(* An L0 route begins on an atom of its choice.                          *)
LEMMA BeginGateServes ==
  ASSUME NEW r \in Requests, NEW a \in 1..Len(atoms),
         NEW op \in Gates, LinkInv, BeginGate(r, a, op)
  PROVE  Served(r)
<1> DEFINE new == [Idle EXCEPT !.op = op, !.at = "gateAtom", !.atom = a]
<1>0. a \in Nat
  BY DEF LinkInv, TypeOK
<1>1. new \in Request
  BY <1>0 DEF Idle, Request
<1>2. req' = [req EXCEPT ![r] = new] /\ req'[r] = new
  BY DEF BeginGate, LinkInv, TypeOK
<1>3. TypeOK'
  BY <1>1, <1>2 DEF BeginGate, LinkInv, TypeOK
<1>4. Grows
  BY NothingWritten DEF LinkInv, BeginGate
<1>5. RequestInv(r)'
  BY <1>2 DEF BeginGate, RequestInv, Idle, Deciding, Decisions, Gates
<1>6. QED
  BY <1>2, <1>3, <1>4, <1>5 DEF Served, LinkInv, TypeOK

\* The steps a handler can be at.
Steps == {"idle", "insert", "findAtom", "writeAtom", "findItem", "writeItem",
          "checkAtom", "gateAtom", "decide"}

(* A step that writes no table and moves only the handler's own record.    *)
LEMMA MoveServes ==
  ASSUME NEW r \in Requests, LinkInv, NEW new \in Request,
         req' = [req EXCEPT ![r] = new],
         UNCHANGED <<candidates, atoms, items, aborts>>, RequestInv(r)'
  PROVE  Served(r)
<1>1. TypeOK'
  BY DEF LinkInv, TypeOK
<1>2. Grows
  BY NothingWritten DEF LinkInv
<1>3. QED
  BY <1>1, <1>2 DEF Served, LinkInv, TypeOK

(* A handler gives up: refused, or dead.                                 *)
LEMMA AbandonServes ==
  ASSUME NEW r \in Requests, LinkInv, Finish(r),
         UNCHANGED <<candidates, atoms, items>>, aborts' \in 0..MaxAborts
  PROVE  Served(r)
BY NothingWritten, FinishServes DEF LinkInv, TypeOK

(* create_memory_atom has read the row it will update.                   *)
LEMMA FindAtomServes ==
  ASSUME NEW r \in Requests, LinkInv, FindAtom(r)
  PROVE  Served(r)
<1> DEFINE a == AtomByRef(AtomRef(req[r].cand, req[r].op))
           new == [req[r] EXCEPT !.at = "writeAtom", !.atom = a]
<1>1. a = 0 \/ (a \in 1..Len(atoms) /\ atoms[a].ref = AtomRef(req[r].cand, req[r].op))
  BY FirstOfIsMember DEF AtomByRef
<1>2. a \in Nat /\ req[r] \in Request
  BY <1>1 DEF LinkInv, TypeOK
<1>9. new \in Request
  BY <1>2 DEF Request
<1>3. req' = [req EXCEPT ![r] = new] /\ req'[r] = new
  BY DEF FindAtom, LinkInv, TypeOK
<1>4. RequestInv(r)
  BY DEF LinkInv
<1>5. UNCHANGED <<candidates, atoms, items, aborts>> /\ req[r].at = "findAtom"
  BY DEF FindAtom
<1>6. /\ new.at = "writeAtom" /\ new.atom = a /\ new.op = req[r].op
      /\ new.cand = req[r].cand /\ new.item = req[r].item
  BY DEF LinkInv, TypeOK, Request
<1>7. RequestInv(r)'
  <2> HIDE DEF new, a
  <2>1. /\ req'[r].at = new.at /\ req'[r].op = req[r].op /\ req'[r].cand = req[r].cand
        /\ req'[r].item = req[r].item /\ req'[r].atom = a
    BY <1>3, <1>6
  <2>2. /\ HoldsItem(r)' = HoldsItem(r)
        /\ HasAtom(req[r].cand)' = HasAtom(req[r].cand)
        /\ AtomRef(req[r].cand, req[r].op)' = AtomRef(req[r].cand, req[r].op)
    BY <1>5, <2>1 DEF HoldsItem, HasAtom, AtomRef, ItemRef
  <2>3. a # 0 => HoldsAtom(r)'
    BY <1>1, <1>5, <2>1, <2>2 DEF HoldsAtom
  <2>4. QED
    BY <1>4, <1>5, <1>6, <2>1, <2>2, <2>3 DEF RequestInv, Deciding
<1>8. QED
  BY <1>3, <1>5, <1>7, <1>9, MoveServes

(* create_stock_memory has read the row it will update.                  *)
LEMMA FindItemServes ==
  ASSUME NEW r \in Requests, LinkInv, FindItem(r)
  PROVE  Served(r)
<1> DEFINE i == ItemByRef(ItemRef(req[r].cand))
           new == [req[r] EXCEPT !.at = "writeItem", !.item = i]
<1>1. i = 0 \/ (i \in 1..Len(items) /\ items[i] = ItemRef(req[r].cand))
  BY FirstOfIsMember DEF ItemByRef
<1>2. i \in Nat /\ req[r] \in Request
  BY <1>1 DEF LinkInv, TypeOK
<1>9. new \in Request
  BY <1>2 DEF Request
<1>3. req' = [req EXCEPT ![r] = new] /\ req'[r] = new
  BY DEF FindItem, LinkInv, TypeOK
<1>4. RequestInv(r)
  BY DEF LinkInv
<1>5. UNCHANGED <<candidates, atoms, items, aborts>> /\ req[r].at = "findItem"
  BY DEF FindItem
<1>6. /\ new.at = "writeItem" /\ new.item = i /\ new.op = req[r].op
      /\ new.cand = req[r].cand /\ new.atom = req[r].atom
  BY DEF LinkInv, TypeOK, Request
<1>7. RequestInv(r)'
  <2> HIDE DEF new, i
  <2>1. /\ req'[r].at = new.at /\ req'[r].op = req[r].op /\ req'[r].cand = req[r].cand
        /\ req'[r].atom = req[r].atom /\ req'[r].item = i
    BY <1>3, <1>6
  <2>2. /\ HoldsAtom(r)' = HoldsAtom(r)
        /\ HasAtom(req[r].cand)' = HasAtom(req[r].cand)
        /\ ItemRef(req[r].cand)' = ItemRef(req[r].cand)
    BY <1>5, <2>1 DEF HoldsAtom, HasAtom, AtomRef, ItemRef
  <2>3. i # 0 => HoldsItem(r)'
    BY <1>1, <1>5, <2>1, <2>2 DEF HoldsItem
  <2>4. HasAtom(req[r].cand)
    BY <1>4, <1>5 DEF RequestInv, HoldsAtom, HasAtom
  <2>5. QED
    BY <2>4, <1>4, <1>5, <1>6, <2>1, <2>2, <2>3 DEF RequestInv, Deciding
<1>8. QED
  BY <1>3, <1>5, <1>7, <1>9, MoveServes

(* The gates read trust_state.                                           *)
LEMMA CheckAtomServes ==
  ASSUME NEW r \in Requests, LinkInv, CheckAtom(r)
  PROVE  Served(r)
<1> DEFINE new == [req[r] EXCEPT !.at = "gateAtom"]
<1>1. CASE Finish(r)
  BY <1>1, AbandonServes DEF CheckAtom, LinkInv, TypeOK
<1>2. CASE Step(r, "gateAtom")
  <2>0. req[r] \in Request
    BY DEF LinkInv, TypeOK
  <2>1. new \in Request
    BY <2>0 DEF Request
  <2>2. req' = [req EXCEPT ![r] = new] /\ req'[r] = new
    BY <1>2 DEF Step, LinkInv, TypeOK
  <2>3. RequestInv(r)
    BY DEF LinkInv
  <2>4. UNCHANGED <<candidates, atoms, items, aborts>> /\ req[r].at = "checkAtom"
    BY DEF CheckAtom
  <2>5. /\ new.at = "gateAtom" /\ new.item = req[r].item /\ new.op = req[r].op
        /\ new.cand = req[r].cand /\ new.atom = req[r].atom
    BY DEF LinkInv, TypeOK, Request
  <2>6. RequestInv(r)'
    <3> HIDE DEF new
    <3>1. /\ HoldsItem(r)' = HoldsItem(r) /\ HoldsAtom(r)' = HoldsAtom(r)
          /\ HasAtom(req[r].cand)' = HasAtom(req[r].cand)
      BY <2>2, <2>4, <2>5 DEF HoldsItem, HoldsAtom, HasAtom, AtomRef, ItemRef
    <3>2. HoldsAtom(r) => req[r].atom \in 1..Len(atoms)
      BY DEF HoldsAtom
    <3>3. QED
      BY <2>2, <2>3, <2>4, <2>5, <3>1, <3>2 DEF RequestInv, Deciding
  <2>7. QED
    BY <2>1, <2>2, <2>4, <2>6, MoveServes
<1>3. QED
  BY <1>1, <1>2 DEF CheckAtom

(* The upsert of an atom: the row a handler writes has its own reference.  *)
LEMMA AtomRowType ==
  ASSUME NEW r \in Requests, LinkInv, req[r].at = "writeAtom"
  PROVE  AtomRow(r) \in Atom /\ AtomRow(r).ref = AtomRef(req[r].cand, req[r].op)
<1> DEFINE c == req[r].cand
<1>1. /\ req[r] \in Request /\ req[r].op \in Decisions
      /\ c \in 1..Len(candidates) /\ candidates[c] \in Candidate
  BY DEF LinkInv, TypeOK, RequestInv, Deciding, Decisions
<1>2. candidates[c].ref \in Refs \cup {NoRef} /\ req[r].item \in Nat /\ c \in Nat
  BY <1>1 DEF Candidate, Request
<1>3. AtomRef(c, req[r].op) \in SourceRefs
  BY <1>1, <1>2 DEF AtomRef, SourceRefs, Decisions
<1>4. QED
  BY <1>2, <1>3 DEF AtomRow, Atom, TRUST_STATES

(* Once the handler's atom row is written, whatever it does next.          *)
LEMMA AtomWritten ==
  ASSUME NEW r \in Requests, LinkInv, req[r].at = "writeAtom",
         NEW new \in Request, req' = [req EXCEPT ![r] = new],
         new.at = AfterAtomWrite(r), new.op = req[r].op,
         new.cand = req[r].cand, new.item = req[r].item,
         atoms' \in Seq(Atom), Len(atoms) <= Len(atoms'),
         \A a \in 1..Len(atoms) : atoms'[a].ref = atoms[a].ref,
         new.atom \in 1..Len(atoms'),
         atoms'[new.atom].ref = AtomRef(req[r].cand, req[r].op),
         UNCHANGED <<candidates, items, aborts>>
  PROVE  Served(r)
<1>1. TypeOK'
  BY DEF LinkInv, TypeOK
<1>2. Grows
  BY DEF Grows, LinkInv, TypeOK
<1>3. req'[r] = new /\ \A q \in Requests : q # r => req'[q] = req[q]
  BY DEF LinkInv, TypeOK
<1>4. RequestInv(r) /\ req[r].op \in Decisions /\ req[r].cand \in 1..Len(candidates)
  BY DEF LinkInv, RequestInv, Deciding
<1>5. new.at \in {"findItem", "checkAtom"}
  BY DEF AfterAtomWrite
<1>6. new.at = "findItem" => req[r].op = "promote" /\ req[r].item = 0
  BY DEF AfterAtomWrite
<1>7. new.at = "checkAtom" /\ req[r].op = "promote" => req[r].item # 0
  BY DEF AfterAtomWrite
<1>8. HoldsAtom(r)'
  BY <1>3 DEF HoldsAtom, AtomRef
<1>9. req[r].item # 0 => HoldsItem(r)' /\ HasAtom(req[r].cand)'
  <2>1. req[r].item # 0 => HoldsItem(r) /\ HasAtom(req[r].cand)
    BY <1>4 DEF RequestInv, Deciding
  <2>2. HoldsItem(r) => HoldsItem(r)'
    BY <1>3 DEF HoldsItem, ItemRef
  <2>3. HasAtom(req[r].cand) => HasAtom(req[r].cand)'
    <3>0. req'[r].cand = req[r].cand /\ candidates' = candidates
      BY <1>3
    <3>1. AtomRef(req[r].cand, "promote")' = AtomRef(req[r].cand, "promote")
      BY <3>0 DEF AtomRef
    <3>2. 1..Len(atoms) \subseteq 1..Len(atoms')
      BY <1>2 DEF Grows, LinkInv, TypeOK
    <3>3. QED
      BY <3>1, <3>2 DEF HasAtom
  <2>4. QED
    BY <2>1, <2>2, <2>3
<1>10. RequestInv(r)'
  BY <1>3, <1>4, <1>5, <1>6, <1>7, <1>8, <1>9 DEF RequestInv, Deciding
<1>11. QED
  BY <1>1, <1>2, <1>3, <1>10 DEF Served

(* create_memory_atom inserts.                                           *)
LEMMA InsertAtomServes ==
  ASSUME NEW r \in Requests, LinkInv, InsertAtom(r)
  PROVE  Served(r)
<1> DEFINE new == [req[r] EXCEPT !.at = AfterAtomWrite(r), !.atom = Len(atoms) + 1]
<1>1. /\ atoms \in Seq(Atom) /\ atoms' = Append(atoms, AtomRow(r))
      /\ req[r].at = "writeAtom" /\ req[r] \in Request
  BY DEF InsertAtom, LinkInv, TypeOK
<1>2. AtomRow(r) \in Atom /\ AtomRow(r).ref = AtomRef(req[r].cand, req[r].op)
  BY <1>1, AtomRowType
<1>3. /\ atoms' \in Seq(Atom) /\ Len(atoms') = Len(atoms) + 1
      /\ \A a \in 1..Len(atoms) : atoms'[a] = atoms[a]
      /\ atoms'[Len(atoms) + 1] = AtomRow(r)
  BY <1>1, <1>2, AppendProperties
<1>4. Len(atoms) \in Nat
  BY <1>1
<1>5. AfterAtomWrite(r) \in Steps /\ Len(atoms) + 1 \in Nat
  BY <1>4 DEF AfterAtomWrite, Steps
<1>12. new \in Request
  BY <1>1, <1>5 DEF Request, Steps
<1>6. /\ new.at = AfterAtomWrite(r) /\ new.atom = Len(atoms) + 1
      /\ new.op = req[r].op /\ new.cand = req[r].cand /\ new.item = req[r].item
  BY <1>1 DEF Request
<1>7. req' = [req EXCEPT ![r] = new]
  BY DEF InsertAtom, LinkInv, TypeOK
<1>8. \A a \in 1..Len(atoms) : atoms'[a].ref = atoms[a].ref
  BY <1>3
<1>9. new.atom \in 1..Len(atoms') /\ Len(atoms) <= Len(atoms')
      /\ atoms'[new.atom].ref = AtomRef(req[r].cand, req[r].op)
  BY <1>2, <1>3, <1>4, <1>6
<1>10. UNCHANGED <<candidates, items, aborts>>
  BY DEF InsertAtom
<1>11. QED
  <2> HIDE DEF new
  <2>1. QED
    BY <1>1, <1>3, <1>12, <1>6, <1>7, <1>8, <1>9, <1>10, AtomWritten

(* create_memory_atom updates.                                           *)
LEMMA UpdateAtomServes ==
  ASSUME NEW r \in Requests, LinkInv, UpdateAtom(r)
  PROVE  Served(r)
<1> DEFINE new == [req[r] EXCEPT !.at = AfterAtomWrite(r)]
<1>1. /\ atoms \in Seq(Atom) /\ atoms' = [atoms EXCEPT ![req[r].atom] = AtomRow(r)]
      /\ req[r].at = "writeAtom" /\ req[r].atom # 0 /\ req[r] \in Request
  BY DEF UpdateAtom, LinkInv, TypeOK
<1>2. AtomRow(r) \in Atom /\ AtomRow(r).ref = AtomRef(req[r].cand, req[r].op)
  BY <1>1, AtomRowType
<1>3. HoldsAtom(r)
  BY <1>1 DEF LinkInv, RequestInv
<1>4. req[r].atom \in 1..Len(atoms)
  BY <1>3 DEF HoldsAtom
<1>5. /\ atoms' \in Seq(Atom) /\ Len(atoms') = Len(atoms)
      /\ \A a \in 1..Len(atoms) :
           atoms'[a] = IF a = req[r].atom THEN AtomRow(r) ELSE atoms[a]
  BY <1>1, <1>2, <1>4, UpdateRow
<1>6. \A a \in 1..Len(atoms) : atoms'[a].ref = atoms[a].ref
  BY <1>2, <1>3, <1>5 DEF HoldsAtom
<1>7. new \in Request
  BY <1>1 DEF Request, AfterAtomWrite
<1>8. /\ new.at = AfterAtomWrite(r) /\ new.atom = req[r].atom
      /\ new.op = req[r].op /\ new.cand = req[r].cand /\ new.item = req[r].item
  BY <1>1 DEF Request
<1>9. req' = [req EXCEPT ![r] = new]
  BY DEF UpdateAtom, Step, LinkInv, TypeOK
<1>10. Len(atoms) <= Len(atoms') /\ new.atom \in 1..Len(atoms')
       /\ atoms'[new.atom].ref = AtomRef(req[r].cand, req[r].op)
  BY <1>1, <1>2, <1>4, <1>5, <1>8
<1>11. UNCHANGED <<candidates, items, aborts>>
  BY DEF UpdateAtom
<1>12. QED
  <2> HIDE DEF new
  <2>1. QED
    BY <1>1, <1>5, <1>6, <1>7, <1>8, <1>9, <1>10, <1>11, AtomWritten

(* The upsert of the stock item.  The handler holds its atom since before. *)
LEMMA ItemWritten ==
  ASSUME NEW r \in Requests, LinkInv, req[r].at = "writeItem",
         NEW new \in Request, req' = [req EXCEPT ![r] = new],
         new.at = "findAtom", new.op = req[r].op, new.cand = req[r].cand,
         items' \in Seq(SourceRefs), Len(items) <= Len(items'),
         \A i \in 1..Len(items) : items'[i] = items[i],
         new.item \in 1..Len(items'),
         items'[new.item] = ItemRef(req[r].cand),
         UNCHANGED <<candidates, atoms, aborts>>
  PROVE  Served(r)
<1>1. TypeOK'
  BY DEF LinkInv, TypeOK
<1>2. Grows
  BY DEF Grows, LinkInv, TypeOK
<1>3. req'[r] = new /\ \A q \in Requests : q # r => req'[q] = req[q]
  BY DEF LinkInv, TypeOK
<1>4. /\ RequestInv(r) /\ req[r].op = "promote"
      /\ req[r].cand \in 1..Len(candidates) /\ HoldsAtom(r)
  BY DEF LinkInv, RequestInv, Deciding, Decisions
<1>5. HoldsItem(r)'
  BY <1>3 DEF HoldsItem, ItemRef
<1>6. HasAtom(req[r].cand)'
  <2>1. HasAtom(req[r].cand)
    BY <1>4 DEF HoldsAtom, HasAtom
  <2>2. req'[r].cand = req[r].cand /\ candidates' = candidates /\ atoms' = atoms
    BY <1>3
  <2>3. QED
    BY <2>1, <2>2 DEF HasAtom, AtomRef
<1>7. RequestInv(r)'
  BY <1>3, <1>4, <1>5, <1>6 DEF RequestInv, Deciding, Decisions
<1>8. QED
  BY <1>1, <1>2, <1>3, <1>7 DEF Served

(* create_stock_memory commits.                                          *)
LEMMA WriteItemServes ==
  ASSUME NEW r \in Requests, LinkInv, WriteItem(r)
  PROVE  Served(r)
<1> DEFINE c == req[r].cand
<1>1. /\ req[r].at = "writeItem" /\ req[r] \in Request
      /\ items \in Seq(SourceRefs) /\ UNCHANGED <<candidates, atoms, aborts>>
  BY DEF WriteItem, LinkInv, TypeOK
<1>2. RequestInv(r) /\ c \in 1..Len(candidates) /\ candidates[c] \in Candidate
  BY <1>1 DEF LinkInv, TypeOK, RequestInv, Deciding, Decisions
<1>3. CASE req[r].item = 0
  <2> DEFINE new == [req[r] EXCEPT !.at = "findAtom", !.item = Len(items) + 1]
  <2>1. c \in Nat /\ candidates[c].ref \in Refs \cup {NoRef}
    BY <1>2 DEF Candidate
  <2>2. ItemRef(c) \in SourceRefs
    BY <2>1 DEF ItemRef, SourceRefs
  <2>3. items' = Append(items, ItemRef(c)) /\ req' = [req EXCEPT ![r] = new]
    BY <1>3 DEF WriteItem, LinkInv, TypeOK
  <2>4. /\ items' \in Seq(SourceRefs) /\ Len(items') = Len(items) + 1
        /\ \A i \in 1..Len(items) : items'[i] = items[i]
        /\ items'[Len(items) + 1] = ItemRef(c)
    BY <1>1, <2>2, <2>3, AppendProperties
  <2>5. Len(items) + 1 \in Nat
    BY <1>1
  <2>6. /\ new \in Request /\ new.at = "findAtom" /\ new.op = req[r].op
        /\ new.cand = c /\ new.item = Len(items) + 1
    BY <1>1, <2>5 DEF Request
  <2>7. new.item \in 1..Len(items') /\ Len(items) <= Len(items')
    BY <1>1, <2>4, <2>6
  <2>8. QED
    <3> HIDE DEF new
    <3>1. QED
      BY <1>1, <2>3, <2>4, <2>6, <2>7, ItemWritten
<1>4. CASE req[r].item # 0
  <2> DEFINE new == [req[r] EXCEPT !.at = "findAtom"]
  <2>1. HoldsItem(r)
    BY <1>1, <1>2, <1>4 DEF RequestInv, Deciding, Decisions
  <2>2. items' = items /\ req' = [req EXCEPT ![r] = new]
    BY <1>4 DEF WriteItem, Step, LinkInv, TypeOK
  <2>3. /\ new \in Request /\ new.at = "findAtom" /\ new.op = req[r].op
        /\ new.cand = c /\ new.item = req[r].item
    BY <1>1 DEF Request
  <2>4. /\ new.item \in 1..Len(items') /\ items'[new.item] = ItemRef(c)
        /\ Len(items) <= Len(items')
    BY <1>1, <2>1, <2>2, <2>3 DEF HoldsItem
  <2>5. QED
    <3> HIDE DEF new
    <3>1. QED
      BY <1>1, <2>2, <2>3, <2>4, ItemWritten
<1>5. QED
  BY <1>3, <1>4

(* The gates commit a verdict.                                           *)
LEMMA GateAtomServes ==
  ASSUME NEW r \in Requests, LinkInv, GateAtom(r)
  PROVE  Served(r)
<1> DEFINE a == req[r].atom
           trust == IF req[r].op \in {"promote", "promoteAtom"}
                      THEN "trusted" ELSE "refuted"
           row == [atoms[a] EXCEPT !.trust = trust]
<1>1. /\ req[r].at = "gateAtom" /\ req[r] \in Request /\ atoms \in Seq(Atom)
      /\ RequestInv(r) /\ UNCHANGED <<candidates, items, aborts>>
  BY DEF GateAtom, LinkInv, TypeOK
<1>2. a \in 1..Len(atoms)
  BY <1>1 DEF RequestInv
<1>3. atoms[a] \in Atom
  BY <1>1, <1>2
<1>4. row \in Atom /\ row.ref = atoms[a].ref
  BY <1>3 DEF Atom, TRUST_STATES
<1>5. atoms' = [atoms EXCEPT ![a] = row]
  BY DEF GateAtom
<1>6. /\ atoms' \in Seq(Atom) /\ Len(atoms') = Len(atoms)
      /\ \A b \in 1..Len(atoms) : atoms'[b] = IF b = a THEN row ELSE atoms[b]
  <2> HIDE DEF row
  <2>1. QED
    BY <1>1, <1>2, <1>4, <1>5, UpdateRow
<1>7. \A b \in 1..Len(atoms) : atoms'[b].ref = atoms[b].ref
  BY <1>4, <1>6
<1>8. Grows
  BY <1>1, <1>6, <1>7 DEF Grows, LinkInv, TypeOK
<1>9. CASE Finish(r)
  BY <1>1, <1>6, <1>8, <1>9, FinishServes DEF LinkInv, TypeOK
<1>10. CASE req[r].op \in Decisions /\ Step(r, "decide")
  <2> DEFINE new == [req[r] EXCEPT !.at = "decide"]
  <2>1. /\ new \in Request /\ new.at = "decide" /\ new.op = req[r].op
        /\ new.cand = req[r].cand /\ new.atom = a /\ new.item = req[r].item
    BY <1>1 DEF Request
  <2>2. req' = [req EXCEPT ![r] = new]
    BY <1>10 DEF Step, LinkInv, TypeOK
  <2> HIDE DEF new
  <2>3. req'[r] = new /\ \A q \in Requests : q # r => req'[q] = req[q]
    BY <2>2 DEF LinkInv, TypeOK
  <2>4. TypeOK'
    BY <1>1, <1>6, <2>1, <2>2 DEF LinkInv, TypeOK
  <2>5. HoldsAtom(r) /\ req[r].cand \in 1..Len(candidates)
    BY <1>1, <1>10 DEF RequestInv, Deciding
  <2>6. /\ req'[r].cand = req[r].cand /\ req'[r].atom = a
        /\ req'[r].item = req[r].item /\ req'[r].op = req[r].op
        /\ candidates' = candidates /\ items' = items
    BY <1>1, <2>1, <2>3
  <2>7. HoldsAtom(r)'
    BY <1>6, <1>7, <2>5, <2>6 DEF HoldsAtom, AtomRef
  <2>8. req[r].item # 0 => HoldsItem(r)' /\ HasAtom(req[r].cand)'
    <3>1. req[r].item # 0 => HoldsItem(r) /\ HasAtom(req[r].cand)
      BY <1>1, <1>10 DEF RequestInv, Deciding
    <3>2. HoldsItem(r) => HoldsItem(r)'
      BY <2>6 DEF HoldsItem, ItemRef
    <3>3. HasAtom(req[r].cand) => HasAtom(req[r].cand)'
      BY <1>6, <1>7, <2>6 DEF HasAtom, AtomRef
    <3>4. QED
      BY <3>1, <3>2, <3>3
  <2>9. RequestInv(r)'
    BY <1>1, <1>10, <2>1, <2>3, <2>5, <2>6, <2>7, <2>8 DEF RequestInv, Deciding
  <2>10. QED
    BY <1>8, <2>3, <2>4, <2>9 DEF Served
<1>11. QED
  BY <1>9, <1>10 DEF GateAtom

(* The candidate row is decided.                                         *)
LEMMA DecideCandidateServes ==
  ASSUME NEW r \in Requests, LinkInv, DecideCandidate(r)
  PROVE  Served(r)
<1> DEFINE c == req[r].cand
           promoted == [candidates[c] EXCEPT !.trust = "trusted",
                          !.atom = req[r].atom, !.item = req[r].item]
           rejected == [candidates[c] EXCEPT !.trust = "rejected",
                          !.atom = req[r].atom]
           row == IF req[r].op = "promote" THEN promoted ELSE rejected
<1>1. /\ req[r].at = "decide" /\ req[r] \in Request /\ candidates \in Seq(Candidate)
      /\ RequestInv(r) /\ UNCHANGED <<atoms, items, aborts>> /\ Finish(r)
  BY DEF DecideCandidate, LinkInv, TypeOK
<1>2. c \in 1..Len(candidates)
  BY <1>1 DEF RequestInv, Deciding
<1>3. candidates[c] \in Candidate /\ req[r].atom \in Nat /\ req[r].item \in Nat
  BY <1>1, <1>2 DEF Request
<1>4. row \in Candidate /\ row.ref = candidates[c].ref
  BY <1>3 DEF Candidate, CANDIDATE_TRUST_VALUES
<1>5. candidates' = [candidates EXCEPT ![c] = row]
  BY DEF DecideCandidate
<1>6. /\ candidates' \in Seq(Candidate) /\ Len(candidates') = Len(candidates)
      /\ \A b \in 1..Len(candidates) :
           candidates'[b] = IF b = c THEN row ELSE candidates[b]
  <2> HIDE DEF row
  <2>1. QED
    BY <1>1, <1>2, <1>4, <1>5, UpdateRow
<1>7. \A b \in 1..Len(candidates) : candidates'[b].ref = candidates[b].ref
  BY <1>4, <1>6
<1>8. Grows
  BY <1>1, <1>6, <1>7 DEF Grows, LinkInv, TypeOK
<1>9. QED
  BY <1>1, <1>6, <1>8, FinishServes DEF LinkInv, TypeOK

-----------------------------------------------------------------------------
(* Tables that keep their rows keep the links between them.                *)
LEMMA ItemsStay ==
  ASSUME LinkInv, Grows, items' = items
  PROVE  ItemBackedByAtom'
<1> SUFFICES ASSUME NEW i \in 1..Len(items)
    PROVE  \E a \in 1..Len(atoms'), c \in 1..Len(candidates') :
             items[i] = ItemRef(c)' /\ atoms'[a].ref = AtomRef(c, "promote")'
  BY DEF ItemBackedByAtom
<1>1. PICK a \in 1..Len(atoms), c \in 1..Len(candidates) :
        items[i] = ItemRef(c) /\ atoms[a].ref = AtomRef(c, "promote")
  BY DEF LinkInv, ItemBackedByAtom
<1>2. a \in 1..Len(atoms') /\ c \in 1..Len(candidates')
  BY DEF Grows, LinkInv, TypeOK
<1>3. atoms'[a].ref = atoms[a].ref /\ candidates'[c].ref = candidates[c].ref
  BY DEF Grows
<1>4. ItemRef(c)' = ItemRef(c) /\ AtomRef(c, "promote")' = AtomRef(c, "promote")
  BY <1>3 DEF ItemRef, AtomRef
<1>5. QED
  BY <1>1, <1>2, <1>3, <1>4

(* A decided row that is not written keeps its atom and its item.          *)
LEMMA LinkStays ==
  ASSUME LinkInv, Grows, NEW c \in 1..Len(candidates),
         candidates'[c] = candidates[c]
  PROVE  /\ candidates'[c].trust # "pending" => LinkedAtom(c)'
         /\ candidates'[c].trust = "trusted" => LinkedItem(c)'
<1>1. /\ candidates[c].trust # "pending" => LinkedAtom(c)
      /\ candidates[c].trust = "trusted" => LinkedItem(c)
  BY DEF LinkInv, DecisionLinks
<1>2. /\ \A op \in Decisions : AtomRef(c, op)' = AtomRef(c, op)
      /\ ItemRef(c)' = ItemRef(c)
  BY DEF AtomRef, ItemRef
<1>3. LinkedAtom(c) => LinkedAtom(c)'
  <2> HAVE LinkedAtom(c)
  <2> DEFINE a == candidates[c].atom
  <2>1. a \in 1..Len(atoms) /\ a \in 1..Len(atoms') /\ atoms'[a].ref = atoms[a].ref
    BY DEF LinkedAtom, Grows, LinkInv, TypeOK
  <2>2. PICK op \in Decisions : atoms[a].ref = AtomRef(c, op)
    BY DEF LinkedAtom
  <2>3. QED
    BY <1>2, <2>1, <2>2 DEF LinkedAtom
<1>4. LinkedItem(c) => LinkedItem(c)'
  BY <1>2 DEF LinkedItem, Grows, LinkInv, TypeOK
<1>5. QED
  BY <1>1, <1>3, <1>4

(* Steps that write no candidate keep every verdict's links.               *)
LEMMA CandidatesStay ==
  ASSUME LinkInv, Grows, candidates' = candidates
  PROVE  DecisionLinks'
BY LinkStays DEF DecisionLinks

(* A new candidate is pending.                                             *)
LEMMA InsertCandidateLinks ==
  ASSUME NEW r \in Requests, LinkInv, InsertCandidate(r), Grows
  PROVE  DecisionLinks'
<1> DEFINE row == [case |-> req[r].key[1], ref |-> req[r].key[2],
                   trust |-> "pending", atom |-> 0, item |-> 0]
<1>1. row \in Candidate
  BY DEF LinkInv, TypeOK, Request, Candidate, CANDIDATE_TRUST_VALUES
<1>2. candidates \in Seq(Candidate) /\ candidates' = Append(candidates, row)
  BY DEF LinkInv, TypeOK, InsertCandidate
<1>3. /\ Len(candidates') = Len(candidates) + 1
      /\ \A c \in 1..Len(candidates) : candidates'[c] = candidates[c]
      /\ candidates'[Len(candidates) + 1] = row
  BY <1>1, <1>2, AppendProperties
<1>4. \A c \in 1..Len(candidates') :
        c \in 1..Len(candidates) \/ candidates'[c].trust = "pending"
  BY <1>2, <1>3
<1>5. QED
  BY <1>3, <1>4, LinkStays DEF DecisionLinks

(* A decided row gets the atom and the item the handler holds.             *)
LEMMA DecideCandidateLinks ==
  ASSUME NEW r \in Requests, LinkInv, DecideCandidate(r), Grows
  PROVE  DecisionLinks'
<1>0. PICK c \in 1..Len(candidates) : c = req[r].cand
  BY DEF DecideCandidate, LinkInv, RequestInv, Deciding
<1> DEFINE promoted == [candidates[c] EXCEPT !.trust = "trusted",
                          !.atom = req[r].atom, !.item = req[r].item]
           rejected == [candidates[c] EXCEPT !.trust = "rejected",
                          !.atom = req[r].atom]
           row == IF req[r].op = "promote" THEN promoted ELSE rejected
<1>1. /\ req[r].at = "decide" /\ RequestInv(r) /\ candidates \in Seq(Candidate)
      /\ atoms' = atoms /\ items' = items
  BY DEF DecideCandidate, LinkInv, TypeOK
<1>2. c \in 1..Len(candidates) /\ req[r].op \in Decisions /\ HoldsAtom(r)
  BY <1>1, <1>0 DEF RequestInv, Deciding
<1>3. candidates[c] \in Candidate
  BY <1>1, <1>2
<1>4. /\ row.ref = candidates[c].ref /\ row.atom = req[r].atom
      /\ row.trust = "trusted" => req[r].op = "promote" /\ row.item = req[r].item
  BY <1>3 DEF Candidate
<1>5. candidates' = [candidates EXCEPT ![c] = row]
  BY <1>0 DEF DecideCandidate
<1> HIDE DEF row
<1>6. /\ Len(candidates') = Len(candidates) /\ candidates'[c] = row
      /\ \A b \in 1..Len(candidates) : b # c => candidates'[b] = candidates[b]
  BY <1>1, <1>2, <1>5
<1>7. /\ \A op \in Decisions : AtomRef(c, op)' = AtomRef(c, op)
      /\ ItemRef(c)' = ItemRef(c)
  BY <1>4, <1>6 DEF AtomRef, ItemRef
<1>8. LinkedAtom(c)'
  <2>1. req[r].atom \in 1..Len(atoms)
        /\ atoms[req[r].atom].ref = AtomRef(c, req[r].op)
    BY <1>0, <1>2 DEF HoldsAtom
  <2>2. candidates'[c].atom = req[r].atom
    BY <1>4, <1>6
  <2>3. QED
    BY <1>1, <1>2, <1>7, <2>1, <2>2 DEF LinkedAtom
<1>9. candidates'[c].trust = "trusted" => LinkedItem(c)'
  <2> HAVE candidates'[c].trust = "trusted"
  <2>1. req[r].op = "promote" /\ candidates'[c].item = req[r].item
    BY <1>4, <1>6
  <2>2. HoldsItem(r)
    BY <1>1, <2>1 DEF RequestInv, Deciding, Decisions
  <2>3. QED
    BY <1>0, <1>1, <1>7, <2>1, <2>2 DEF HoldsItem, LinkedItem
<1>10. QED
  <2>1. ASSUME NEW b \in 1..Len(candidates)
        PROVE  /\ candidates'[b].trust # "pending" => LinkedAtom(b)'
               /\ candidates'[b].trust = "trusted" => LinkedItem(b)'
    <3>1. CASE b = c
      BY <3>1, <1>8, <1>9
    <3>2. CASE b # c
      BY <3>2, <1>6, LinkStays
    <3>3. QED
      BY <3>1, <3>2
  <2>2. QED
    BY <1>6, <2>1 DEF DecisionLinks

(* The new stock item is that of a candidate whose atom is held.           *)
LEMMA WriteItemBacked ==
  ASSUME NEW r \in Requests, LinkInv, WriteItem(r), Grows
  PROVE  ItemBackedByAtom'
<1>1. CASE items' = items
  BY <1>1, ItemsStay
<1>2. CASE items' = Append(items, ItemRef(req[r].cand))
  <2> DEFINE c == req[r].cand
  <2>1. /\ items \in Seq(SourceRefs) /\ RequestInv(r) /\ req[r].at = "writeItem"
        /\ candidates' = candidates /\ atoms' = atoms
    BY DEF WriteItem, LinkInv, TypeOK
  <2>2. /\ c \in 1..Len(candidates) /\ HoldsAtom(r) /\ req[r].op = "promote"
    BY <2>1 DEF RequestInv, Deciding, Decisions
  <2>3. \E a \in 1..Len(atoms) : atoms[a].ref = AtomRef(c, "promote")
    BY <2>2 DEF HoldsAtom
  <2>4. \A i \in 1..Len(items') :
          (i \in 1..Len(items) /\ items'[i] = items[i]) \/ items'[i] = ItemRef(c)
    <3> HIDE DEF c
    <3>1. QED
      BY <1>2, <2>1 DEF c
  <2>5. \A b \in 1..Len(candidates) :
          AtomRef(b, "promote")' = AtomRef(b, "promote") /\ ItemRef(b)' = ItemRef(b)
    BY <2>1 DEF AtomRef, ItemRef
  <2>6. \A i \in 1..Len(items) :
          \E a \in 1..Len(atoms), b \in 1..Len(candidates) :
            items[i] = ItemRef(b) /\ atoms[a].ref = AtomRef(b, "promote")
    BY DEF LinkInv, ItemBackedByAtom
  <2>7. \A i \in 1..Len(items') :
          \E a \in 1..Len(atoms), b \in 1..Len(candidates) :
            items'[i] = ItemRef(b) /\ atoms[a].ref = AtomRef(b, "promote")
    BY <2>2, <2>3, <2>4, <2>6
  <2>8. QED
    BY <2>1, <2>5, <2>7 DEF ItemBackedByAtom
<1>3. QED
  BY <1>1, <1>2 DEF WriteItem

-----------------------------------------------------------------------------
(* The other handlers keep what RequestInv says of them.                   *)
LEMMA ServedKeepsRequests ==
  ASSUME NEW r \in Requests, LinkInv, Served(r)
  PROVE  TypeOK' /\ Grows /\ \A q \in Requests : RequestInv(q)'
<1>1. ASSUME NEW q \in Requests PROVE RequestInv(q)'
  <2>1. CASE q = r
    BY <2>1 DEF Served
  <2>2. CASE q # r
    BY <2>2, RequestStable DEF Served, LinkInv
  <2>3. QED
    BY <2>1, <2>2
<1>2. QED
  BY <1>1 DEF Served

(* A step that writes neither a candidate nor a stock item.                *)
LEMMA PlainStep ==
  ASSUME NEW r \in Requests, LinkInv, Served(r), UNCHANGED <<candidates, items>>
  PROVE  LinkInv'
BY ServedKeepsRequests, CandidatesStay, ItemsStay DEF LinkInv

(* The tables are empty and no handler is busy at the start.               *)
LEMMA InitEstablishesLinkInv ==
  ASSUME Init
  PROVE  LinkInv
<1>1. TypeOK
  BY IdleType, BoundsAssumption DEF Init, TypeOK
<1>2. \A r \in Requests : RequestInv(r)
  BY DEF Init, RequestInv, Idle, Deciding, Decisions
<1>3. DecisionLinks /\ ItemBackedByAtom
  BY DEF Init, DecisionLinks, ItemBackedByAtom
<1>4. QED
  BY <1>1, <1>2, <1>3 DEF LinkInv

(* Every step of every handler preserves the inductive invariant.          *)
LEMMA StepPreservesLinkInv ==
  ASSUME LinkInv, [Next]_vars
  PROVE  LinkInv'
<1>1. ASSUME NEW r \in Requests, NEW key \in Keys, BeginCreate(r, key)
      PROVE  LinkInv'
  BY <1>1, BeginCreateServes, PlainStep DEF BeginCreate
<1>2. ASSUME NEW r \in Requests, NEW c \in 1..Len(candidates),
             NEW op \in Decisions, BeginDecision(r, c, op)
      PROVE  LinkInv'
  BY <1>2, BeginDecisionServes, PlainStep DEF BeginDecision
<1>3. ASSUME NEW r \in Requests, NEW a \in 1..Len(atoms), NEW op \in Gates,
             BeginGate(r, a, op)
      PROVE  LinkInv'
  BY <1>3, BeginGateServes, PlainStep DEF BeginGate
<1>4. ASSUME NEW r \in Requests, InsertCandidate(r) PROVE LinkInv'
  <2>1. TypeOK' /\ Grows /\ \A q \in Requests : RequestInv(q)'
    BY <1>4, InsertCandidateServes, ServedKeepsRequests
  <2>2. DecisionLinks'
    BY <1>4, <2>1, InsertCandidateLinks
  <2>3. ItemBackedByAtom'
    BY <1>4, <2>1, ItemsStay DEF InsertCandidate
  <2>4. QED
    BY <2>1, <2>2, <2>3 DEF LinkInv
<1>5. ASSUME NEW r \in Requests, FindAtom(r) PROVE LinkInv'
  BY <1>5, FindAtomServes, PlainStep DEF FindAtom
<1>6. ASSUME NEW r \in Requests, RefuseAtom(r) PROVE LinkInv'
  BY <1>6, AbandonServes, PlainStep DEF RefuseAtom, LinkInv, TypeOK
<1>7. ASSUME NEW r \in Requests, InsertAtom(r) PROVE LinkInv'
  BY <1>7, InsertAtomServes, PlainStep DEF InsertAtom
<1>8. ASSUME NEW r \in Requests, UpdateAtom(r) PROVE LinkInv'
  BY <1>8, UpdateAtomServes, PlainStep DEF UpdateAtom
<1>9. ASSUME NEW r \in Requests, FindItem(r) PROVE LinkInv'
  BY <1>9, FindItemServes, PlainStep DEF FindItem
<1>10. ASSUME NEW r \in Requests, WriteItem(r) PROVE LinkInv'
  <2>1. TypeOK' /\ Grows /\ \A q \in Requests : RequestInv(q)'
    BY <1>10, WriteItemServes, ServedKeepsRequests
  <2>2. DecisionLinks'
    BY <1>10, <2>1, CandidatesStay DEF WriteItem
  <2>3. ItemBackedByAtom'
    BY <1>10, <2>1, WriteItemBacked
  <2>4. QED
    BY <2>1, <2>2, <2>3 DEF LinkInv
<1>11. ASSUME NEW r \in Requests, CheckAtom(r) PROVE LinkInv'
  BY <1>11, CheckAtomServes, PlainStep DEF CheckAtom
<1>12. ASSUME NEW r \in Requests, GateAtom(r) PROVE LinkInv'
  BY <1>12, GateAtomServes, PlainStep DEF GateAtom
<1>13. ASSUME NEW r \in Requests, DecideCandidate(r) PROVE LinkInv'
  <2>1. TypeOK' /\ Grows /\ \A q \in Requests : RequestInv(q)'
    BY <1>13, DecideCandidateServes, ServedKeepsRequests
  <2>2. DecisionLinks'
    BY <1>13, <2>1, DecideCandidateLinks
  <2>3. ItemBackedByAtom'
    BY <1>13, <2>1, ItemsStay DEF DecideCandidate
  <2>4. QED
    BY <2>1, <2>2, <2>3 DEF LinkInv
<1>14. ASSUME NEW r \in Requests, Abort(r) PROVE LinkInv'
  <2>1. aborts' \in 0..MaxAborts
    BY <1>14, BoundsAssumption DEF Abort, LinkInv, TypeOK
  <2>2. QED
    BY <1>14, <2>1, AbandonServes, PlainStep DEF Abort
<1>15. CASE UNCHANGED vars
  <2>1. TypeOK' /\ Grows
    BY <1>15, NothingWritten DEF vars, LinkInv, TypeOK
  <2>2. \A q \in Requests : RequestInv(q)'
    BY <1>15, <2>1, RequestStable DEF vars, LinkInv
  <2>3. DecisionLinks' /\ ItemBackedByAtom'
    BY <1>15, <2>1, CandidatesStay, ItemsStay DEF vars
  <2>4. QED
    BY <2>1, <2>2, <2>3 DEF LinkInv
<1>16. QED
  BY <1>1, <1>2, <1>3, <1>4, <1>5, <1>6, <1>7, <1>8, <1>9, <1>10, <1>11, <1>12,
     <1>13, <1>14, <1>15 DEF Next, Serve

(* The inductive invariant holds in every reachable state.                 *)
THEOREM LinkInvariant == Spec => []LinkInv
<1>1. Init => LinkInv
  BY InitEstablishesLinkInv
<1>2. LinkInv /\ [Next]_vars => LinkInv'
  BY StepPreservesLinkInv
<1>3. QED
  BY <1>1, <1>2, PTL DEF Spec

(* The tables and the handlers' local variables always have their types.   *)
THEOREM TypeCorrect == Spec => []TypeOK
<1>1. LinkInv => TypeOK
  BY DEF LinkInv
<1>2. QED
  BY <1>1, LinkInvariant, PTL

(* With any number of reviewers and any number of handlers that die half   *)
(* way, a decided candidate of promote_memory or reject_memory_candidate   *)
(* names an existing atom under its own reference, and a trusted one the   *)
(* stock item of its own reference.                                        *)
THEOREM DecisionLinksHold == Spec => []DecisionLinks
<1>1. LinkInv => DecisionLinks
  BY DEF LinkInv
<1>2. QED
  BY <1>1, LinkInvariant, PTL

(* No stock item exists for recall to find before the L0 atom of its       *)
(* candidate, whatever interleaves with promote_memory.                    *)
THEOREM ItemsAreBacked == Spec => []ItemBackedByAtom
<1>1. LinkInv => ItemBackedByAtom
  BY DEF LinkInv
<1>2. QED
  BY <1>1, LinkInvariant, PTL

-----------------------------------------------------------------------------
\* One handler at a time: what handler r holds is what it read.
Held(r) == atoms[req[r].atom]

HeldAtom(r) ==
  /\ req[r].at = "writeAtom" /\ req[r].atom # 0 =>
       Held(r).trust \in CALLER_CREATABLE_STATES
  /\ req[r].at = "writeAtom" /\ req[r].atom = 0 =>
       \A a \in 1..Len(atoms) : atoms[a].ref # AtomRef(req[r].cand, req[r].op)
  /\ req[r].at = "checkAtom" => Held(r).trust = "pending"
  /\ req[r].at = "gateAtom" /\ req[r].op # "refuteAtom" =>
       Held(r).trust \in PROMOTABLE_STATES
  /\ req[r].at = "decide" =>
       Held(r).trust = IF req[r].op = "promote" THEN "trusted" ELSE "refuted"
  /\ req[r].op = "promote" /\ req[r].at \in {"checkAtom", "gateAtom", "decide"} =>
       Held(r).item = req[r].item

OneAtomPerRef ==
  \A a, b \in 1..Len(atoms) : atoms[a].ref = atoms[b].ref => a = b

SerialInv(r) ==
  /\ LinkInv
  /\ HeldAtom(r)
  /\ OneAtomPerRef
  /\ VerdictsAgree

-----------------------------------------------------------------------------
(* The lookup by source_ref finds no row only when there is none.          *)
LEMMA FirstOfFinds ==
  ASSUME NEW ids, ids \subseteq Nat \ {0}, FirstOf(ids) = 0
  PROVE  ids = {}
<1> SUFFICES ASSUME ids # {} PROVE FALSE
  OBVIOUS
<1> DEFINE R == {ss \in Nat \X Nat : ss[1] < ss[2]}
           first == {i \in ids : \A j \in ids : i <= j}
<1>1. IsWellFoundedOn(R, Nat)
  BY NatLessThanWellFounded, Zenon DEF OpToRel
<1>2. PICK x \in ids : \A y \in ids : ~ (<<y, x>> \in R)
  <2> HIDE DEF R
  <2>1. ids \subseteq Nat
    OBVIOUS
  <2>2. QED
    BY <1>1, <2>1, WFMin
<1>3. ASSUME NEW y \in ids PROVE x <= y
  <2>1. x \in Nat /\ y \in Nat /\ ~ (<<y, x>> \in R)
    BY <1>2
  <2>2. y < x => <<y, x>> \in R
    BY <2>1
  <2>3. QED
    BY <2>1, <2>2
<1>4. first # {}
  BY <1>3
<1>5. FirstOf(ids) \in ids
  BY <1>4 DEF FirstOf
<1>6. QED
  BY <1>5

(* Beginning a request sets the whole record of its handler.               *)
LEMMA RecordSet ==
  ASSUME NEW r \in Requests, TypeOK, NEW new, req' = [req EXCEPT ![r] = new]
  PROVE  req'[r] = new
BY DEF TypeOK

(* Moving on changes nothing but the step.                                 *)
LEMMA StepMoves ==
  ASSUME NEW r \in Requests, TypeOK, NEW at \in Steps, Step(r, at)
  PROVE  /\ req'[r].at = at /\ req'[r].op = req[r].op
         /\ req'[r].key = req[r].key /\ req'[r].cand = req[r].cand
         /\ req'[r].atom = req[r].atom /\ req'[r].item = req[r].item
<1>1. req[r] \in Request
  BY DEF TypeOK
<1>2. req' = [req EXCEPT ![r] = [req[r] EXCEPT !.at = at]]
  BY DEF Step, TypeOK
<1>3. req'[r] = [req[r] EXCEPT !.at = at]
  BY <1>2 DEF TypeOK
<1>4. QED
  BY <1>1, <1>3 DEF Request, Steps

(* A request's record with a step and a row of its own.                    *)
LEMMA RecordWith ==
  ASSUME NEW q \in Request, NEW at \in Steps, NEW n \in Nat
  PROVE  /\ LET p == [q EXCEPT !.at = at, !.atom = n] IN
              /\ p.at = at /\ p.op = q.op /\ p.key = q.key
              /\ p.cand = q.cand /\ p.atom = n /\ p.item = q.item
         /\ LET p == [q EXCEPT !.at = at, !.item = n] IN
              /\ p.at = at /\ p.op = q.op /\ p.key = q.key
              /\ p.cand = q.cand /\ p.atom = q.atom /\ p.item = n
BY DEF Request, Steps

(* Moving on with an atom in hand.                                         *)
LEMMA AtomTaken ==
  ASSUME NEW r \in Requests, TypeOK, NEW at \in Steps, NEW a \in Nat,
         req' = [req EXCEPT ![r].at = at, ![r].atom = a]
  PROVE  /\ req'[r].at = at /\ req'[r].op = req[r].op
         /\ req'[r].key = req[r].key /\ req'[r].cand = req[r].cand
         /\ req'[r].atom = a /\ req'[r].item = req[r].item
<1> DEFINE new == [req[r] EXCEPT !.at = at, !.atom = a]
<1>1. req[r] \in Request
  BY DEF TypeOK
<1>2. req' = [req EXCEPT ![r] = new]
  BY DEF TypeOK
<1>3. /\ new.at = at /\ new.op = req[r].op /\ new.key = req[r].key
      /\ new.cand = req[r].cand /\ new.atom = a /\ new.item = req[r].item
  BY <1>1, RecordWith
<1> HIDE DEF new
<1>4. req'[r] = new
  BY <1>2 DEF TypeOK
<1>5. QED
  BY <1>3, <1>4, Zenon

(* Moving on with a stock item in hand.                                    *)
LEMMA ItemTaken ==
  ASSUME NEW r \in Requests, TypeOK, NEW at \in Steps, NEW i \in Nat,
         req' = [req EXCEPT ![r].at = at, ![r].item = i]
  PROVE  /\ req'[r].at = at /\ req'[r].op = req[r].op
         /\ req'[r].key = req[r].key /\ req'[r].cand = req[r].cand
         /\ req'[r].atom = req[r].atom /\ req'[r].item = i
<1> DEFINE new == [req[r] EXCEPT !.at = at, !.item = i]
<1>1. req[r] \in Request
  BY DEF TypeOK
<1>2. req' = [req EXCEPT ![r] = new]
  BY DEF TypeOK
<1>3. /\ new.at = at /\ new.op = req[r].op /\ new.key = req[r].key
      /\ new.cand = req[r].cand /\ new.atom = req[r].atom /\ new.item = i
  BY <1>1, RecordWith
<1> HIDE DEF new
<1>4. req'[r] = new
  BY <1>2 DEF TypeOK
<1>5. QED
  BY <1>3, <1>4, Zenon

-----------------------------------------------------------------------------
(* After the write of its atom a handler is at one of its steps.           *)
LEMMA AfterWrite ==
  ASSUME NEW r \in Requests, LinkInv
  PROVE  AfterAtomWrite(r) \in Steps /\ Len(atoms) + 1 \in Nat
BY DEF AfterAtomWrite, Steps, LinkInv, TypeOK

(* What the insert of an atom leaves behind.                               *)
LEMMA InsertAtomEffect ==
  ASSUME NEW r \in Requests, LinkInv, InsertAtom(r)
  PROVE  /\ Len(atoms') = Len(atoms) + 1
         /\ \A a \in 1..Len(atoms) : atoms'[a] = atoms[a]
         /\ atoms'[Len(atoms) + 1] = AtomRow(r)
         /\ AtomRow(r).ref = AtomRef(req[r].cand, req[r].op)
         /\ AtomRow(r).trust = "pending" /\ AtomRow(r).item = req[r].item
         /\ req'[r].at = AfterAtomWrite(r) /\ req'[r].atom = Len(atoms) + 1
         /\ req'[r].op = req[r].op /\ req'[r].cand = req[r].cand
         /\ req'[r].item = req[r].item
<1>1. /\ atoms \in Seq(Atom) /\ atoms' = Append(atoms, AtomRow(r)) /\ TypeOK
      /\ req[r].at = "writeAtom"
      /\ req' = [req EXCEPT ![r].at = AfterAtomWrite(r), ![r].atom = Len(atoms) + 1]
  BY DEF InsertAtom, LinkInv, TypeOK
<1>2. AtomRow(r) \in Atom
  BY <1>1, AtomRowType
<1>3. /\ Len(atoms') = Len(atoms) + 1
      /\ \A a \in 1..Len(atoms) : atoms'[a] = atoms[a]
      /\ atoms'[Len(atoms) + 1] = AtomRow(r)
  BY <1>1, <1>2, AppendProperties
<1>4. /\ AtomRow(r).ref = AtomRef(req[r].cand, req[r].op)
      /\ AtomRow(r).trust = "pending" /\ AtomRow(r).item = req[r].item
  BY DEF AtomRow
<1>5. QED
  BY <1>1, <1>3, <1>4, AtomTaken, AfterWrite

(* What the update of an atom leaves behind.                               *)
LEMMA UpdateAtomEffect ==
  ASSUME NEW r \in Requests, LinkInv, UpdateAtom(r)
  PROVE  /\ Len(atoms') = Len(atoms) /\ req[r].atom \in 1..Len(atoms)
         /\ \A a \in 1..Len(atoms) :
              atoms'[a] = IF a = req[r].atom THEN AtomRow(r) ELSE atoms[a]
         /\ AtomRow(r).ref = AtomRef(req[r].cand, req[r].op)
         /\ AtomRow(r).ref = Held(r).ref
         /\ AtomRow(r).trust = "pending" /\ AtomRow(r).item = req[r].item
         /\ req'[r].at = AfterAtomWrite(r) /\ req'[r].atom = req[r].atom
         /\ req'[r].op = req[r].op /\ req'[r].cand = req[r].cand
         /\ req'[r].item = req[r].item
<1>1. /\ atoms \in Seq(Atom) /\ atoms' = [atoms EXCEPT ![req[r].atom] = AtomRow(r)]
      /\ TypeOK /\ req[r].at = "writeAtom" /\ req[r].atom # 0
      /\ Step(r, AfterAtomWrite(r))
  BY DEF UpdateAtom, LinkInv, TypeOK
<1>2. AtomRow(r) \in Atom
  BY <1>1, AtomRowType
<1>3. req[r].atom \in 1..Len(atoms) /\ Held(r).ref = AtomRef(req[r].cand, req[r].op)
  BY <1>1 DEF LinkInv, RequestInv, HoldsAtom, Held
<1>4. /\ Len(atoms') = Len(atoms)
      /\ \A a \in 1..Len(atoms) :
           atoms'[a] = IF a = req[r].atom THEN AtomRow(r) ELSE atoms[a]
  BY <1>1, <1>2, <1>3, UpdateRow
<1>5. /\ AtomRow(r).ref = AtomRef(req[r].cand, req[r].op)
      /\ AtomRow(r).trust = "pending" /\ AtomRow(r).item = req[r].item
  BY DEF AtomRow
<1>6. QED
  BY <1>1, <1>3, <1>4, <1>5, StepMoves, AfterWrite

\* The trust state the gate gives the atom handler r holds.
Verdict(r) == IF req[r].op \in {"promote", "promoteAtom"} THEN "trusted" ELSE "refuted"

(* What a gate leaves behind.                                              *)
LEMMA GateAtomEffect ==
  ASSUME NEW r \in Requests, LinkInv, GateAtom(r)
  PROVE  /\ Len(atoms') = Len(atoms) /\ req[r].atom \in 1..Len(atoms)
         /\ \A a \in 1..Len(atoms) : a # req[r].atom => atoms'[a] = atoms[a]
         /\ atoms'[req[r].atom].trust = Verdict(r)
         /\ atoms'[req[r].atom].item = Held(r).item
         /\ atoms'[req[r].atom].ref = Held(r).ref
<1> DEFINE a == req[r].atom
           row == [atoms[a] EXCEPT !.trust = Verdict(r)]
<1>1. req[r].at = "gateAtom" /\ atoms \in Seq(Atom)
  BY DEF GateAtom, LinkInv, TypeOK
<1>2. a \in 1..Len(atoms)
  BY <1>1 DEF LinkInv, RequestInv
<1>3. atoms[a] \in Atom
  BY <1>1, <1>2
<1>4. /\ row \in Atom /\ row.ref = atoms[a].ref /\ row.item = atoms[a].item
      /\ row.trust = Verdict(r)
  BY <1>3 DEF Atom, TRUST_STATES, Verdict
<1>5. atoms' = [atoms EXCEPT ![a] = row]
  BY DEF GateAtom, Verdict
<1>6. /\ Len(atoms') = Len(atoms)
      /\ \A b \in 1..Len(atoms) : atoms'[b] = IF b = a THEN row ELSE atoms[b]
  <2> HIDE DEF row
  <2>1. QED
    BY <1>1, <1>2, <1>4, <1>5, UpdateRow
<1>7. QED
  BY <1>2, <1>4, <1>6 DEF Held

(* What the last commit of a decision leaves behind.                       *)
LEMMA DecideCandidateEffect ==
  ASSUME NEW r \in Requests, LinkInv, DecideCandidate(r)
  PROVE  /\ Len(candidates') = Len(candidates) /\ req[r].cand \in 1..Len(candidates)
         /\ \A c \in 1..Len(candidates) : c # req[r].cand => candidates'[c] = candidates[c]
         /\ candidates'[req[r].cand].case = candidates[req[r].cand].case
         /\ candidates'[req[r].cand].ref = candidates[req[r].cand].ref
         /\ candidates'[req[r].cand].atom = req[r].atom
         /\ candidates'[req[r].cand].trust =
              IF req[r].op = "promote" THEN "trusted" ELSE "rejected"
         /\ req[r].op = "promote" => candidates'[req[r].cand].item = req[r].item
<1> DEFINE c == req[r].cand
           promoted == [candidates[c] EXCEPT !.trust = "trusted",
                          !.atom = req[r].atom, !.item = req[r].item]
           rejected == [candidates[c] EXCEPT !.trust = "rejected",
                          !.atom = req[r].atom]
           row == IF req[r].op = "promote" THEN promoted ELSE rejected
<1>1. /\ req[r].at = "decide" /\ RequestInv(r) /\ candidates \in Seq(Candidate)
  BY DEF DecideCandidate, LinkInv, TypeOK
<1>2. c \in 1..Len(candidates)
  BY <1>1 DEF RequestInv, Deciding
<1>3. candidates[c] \in Candidate
  BY <1>1, <1>2
<1>4. /\ row.case = candidates[c].case /\ row.ref = candidates[c].ref
      /\ row.atom = req[r].atom
      /\ row.trust = IF req[r].op = "promote" THEN "trusted" ELSE "rejected"
      /\ req[r].op = "promote" => row.item = req[r].item
  BY <1>3 DEF Candidate
<1>5. candidates' = [candidates EXCEPT ![c] = row]
  BY DEF DecideCandidate
<1> HIDE DEF row
<1>6. /\ Len(candidates') = Len(candidates) /\ candidates'[c] = row
      /\ \A b \in 1..Len(candidates) : b # c => candidates'[b] = candidates[b]
  BY <1>1, <1>2, <1>5
<1>7. QED
  BY <1>2, <1>4, <1>6

(* What the insert of a candidate leaves behind.                           *)
LEMMA InsertCandidateEffect ==
  ASSUME NEW r \in Requests, LinkInv, InsertCandidate(r)
  PROVE  /\ Len(candidates') = Len(candidates) + 1
         /\ \A c \in 1..Len(candidates) : candidates'[c] = candidates[c]
         /\ candidates'[Len(candidates) + 1].case = req[r].key[1]
         /\ candidates'[Len(candidates) + 1].ref = req[r].key[2]
         /\ candidates'[Len(candidates) + 1].trust = "pending"
<1> DEFINE row == [case |-> req[r].key[1], ref |-> req[r].key[2],
                   trust |-> "pending", atom |-> 0, item |-> 0]
<1>1. row \in Candidate
  BY DEF LinkInv, TypeOK, Request, Candidate, CANDIDATE_TRUST_VALUES
<1>2. candidates \in Seq(Candidate) /\ candidates' = Append(candidates, row)
  BY DEF LinkInv, TypeOK, InsertCandidate
<1>3. QED
  BY <1>1, <1>2, AppendProperties

-----------------------------------------------------------------------------
(* Only a refutation touches an atom that has its verdict.                 *)
LEMMA VerdictsStay ==
  ASSUME LinkInv, VerdictsAgree, candidates' = candidates,
         \A a \in 1..Len(atoms) : atoms[a].trust \in {"trusted", "refuted"} =>
           /\ atoms'[a].item = atoms[a].item
           /\ atoms'[a].trust = atoms[a].trust \/ atoms'[a].trust = "refuted"
  PROVE  VerdictsAgree'
<1> SUFFICES ASSUME NEW c \in 1..Len(candidates)
    PROVE  LET a == candidates[c].atom IN
             /\ candidates[c].trust = "trusted" =>
                  /\ atoms'[a].trust \in {"trusted", "refuted"}
                  /\ atoms'[a].item = candidates[c].item
             /\ candidates[c].trust = "rejected" => atoms'[a].trust = "refuted"
  BY DEF VerdictsAgree
<1>1. candidates[c].trust # "pending" => candidates[c].atom \in 1..Len(atoms)
  BY DEF LinkInv, DecisionLinks, LinkedAtom
<1>2. /\ candidates[c].trust = "trusted" =>
           /\ atoms[candidates[c].atom].trust \in {"trusted", "refuted"}
           /\ atoms[candidates[c].atom].item = candidates[c].item
      /\ candidates[c].trust = "rejected" =>
           atoms[candidates[c].atom].trust = "refuted"
  BY DEF VerdictsAgree
<1>3. QED
  BY <1>1, <1>2

(* A step that writes neither a candidate nor an atom.                     *)
LEMMA SerialMove ==
  ASSUME NEW r \in Requests, SerialInv(r), LinkInv', HeldAtom(r)',
         UNCHANGED <<candidates, atoms>>
  PROVE  SerialInv(r)'
BY DEF SerialInv, OneAtomPerRef, VerdictsAgree

(* A request that begins or ends holds nothing.                            *)
LEMMA SerialFinish ==
  ASSUME NEW r \in Requests, TypeOK, Finish(r)
  PROVE  HeldAtom(r)'
<1>1. req'[r] = Idle
  BY DEF Finish, TypeOK
<1>2. QED
  BY <1>1 DEF HeldAtom, Idle

(* create_memory_candidate starts, or inserts its row.                     *)
LEMMA BeginCreateSerial ==
  ASSUME NEW r \in Requests, NEW key \in Keys, SerialInv(r), LinkInv',
         BeginCreate(r, key)
  PROVE  SerialInv(r)'
<1>1. req'[r] = [Idle EXCEPT !.op = "create", !.at = "insert", !.key = key]
  BY DEF BeginCreate, SerialInv, LinkInv, TypeOK
<1>2. HeldAtom(r)'
  BY <1>1 DEF HeldAtom, Idle
<1>3. QED
  BY <1>2, SerialMove DEF BeginCreate

(* A new candidate is pending.                                             *)
LEMMA InsertCandidateSerial ==
  ASSUME NEW r \in Requests, SerialInv(r), LinkInv', InsertCandidate(r)
  PROVE  SerialInv(r)'
<1>1. HeldAtom(r)'
  BY SerialFinish DEF InsertCandidate, SerialInv, LinkInv
<1>2. OneAtomPerRef' /\ atoms' = atoms
  BY DEF InsertCandidate, SerialInv, OneAtomPerRef
<1>3. VerdictsAgree'
  <2>1. /\ Len(candidates') = Len(candidates) + 1 /\ Len(candidates) \in Nat
        /\ \A c \in 1..Len(candidates) : candidates'[c] = candidates[c]
        /\ candidates'[Len(candidates) + 1].trust = "pending"
    <3>1. LinkInv /\ Len(candidates) \in Nat
      BY DEF SerialInv, LinkInv, TypeOK
    <3>2. QED
      BY <3>1, InsertCandidateEffect
  <2>2. \A c \in 1..Len(candidates') :
          c \in 1..Len(candidates) \/ candidates'[c].trust = "pending"
    BY <2>1
  <2>3. QED
    BY <1>2, <2>1, <2>2 DEF SerialInv, VerdictsAgree
<1>4. QED
  BY <1>1, <1>2, <1>3 DEF SerialInv

(* promote_memory and reject_memory_candidate begin with no atom.          *)
LEMMA BeginDecisionSerial ==
  ASSUME NEW r \in Requests, NEW c \in 1..Len(candidates), NEW op \in Decisions,
         SerialInv(r), LinkInv', BeginDecision(r, c, op)
  PROVE  SerialInv(r)'
<1>1. req'[r] = [Idle EXCEPT !.op = op, !.at = "findAtom", !.cand = c]
  BY DEF BeginDecision, SerialInv, LinkInv, TypeOK
<1>2. HeldAtom(r)'
  BY <1>1 DEF HeldAtom, Idle
<1>3. QED
  BY <1>2, SerialMove DEF BeginDecision

(* An L0 route has read a trust state that its gate passes.                *)
LEMMA BeginGateSerial ==
  ASSUME NEW r \in Requests, NEW a \in 1..Len(atoms), NEW op \in Gates,
         SerialInv(r), LinkInv', BeginGate(r, a, op)
  PROVE  SerialInv(r)'
<1>1. req'[r] = [Idle EXCEPT !.op = op, !.at = "gateAtom", !.atom = a]
  BY DEF BeginGate, SerialInv, LinkInv, TypeOK
<1>2. req'[r].op = op /\ req'[r].at = "gateAtom" /\ req'[r].atom = a
  BY <1>1 DEF Idle
<1>3. op # "refuteAtom" => atoms[a].trust \in PROMOTABLE_STATES
  BY DEF BeginGate, MayPass, Gates
<1>4. op # "promote" /\ atoms' = atoms
  BY DEF BeginGate, Gates
<1>5. HeldAtom(r)'
  BY <1>2, <1>3, <1>4 DEF HeldAtom, Held
<1>6. QED
  BY <1>5, SerialMove DEF BeginGate

(* create_memory_atom goes on with a row in a creatable state, or none.    *)
LEMMA FindAtomSerial ==
  ASSUME NEW r \in Requests, SerialInv(r), LinkInv', FindAtom(r)
  PROVE  SerialInv(r)'
<1> DEFINE ref == AtomRef(req[r].cand, req[r].op)
           ids == {i \in 1..Len(atoms) : atoms[i].ref = ref}
           a == AtomByRef(ref)
<1>1. a = FirstOf(ids) /\ (a # 0 => atoms[a].trust \in CALLER_CREATABLE_STATES)
  BY DEF AtomByRef, FindAtom
<1>2. a = 0 => ids = {}
  <2>1. ids \subseteq Nat \ {0}
    BY DEF SerialInv, LinkInv, TypeOK
  <2>2. QED
    BY <1>1, <2>1, FirstOfFinds
<1>3. a \in Nat
  BY <1>1, FirstOfIsMember
<1>4. /\ req'[r].at = "writeAtom" /\ req'[r].op = req[r].op
      /\ req'[r].cand = req[r].cand /\ req'[r].atom = a
  BY <1>3, AtomTaken DEF FindAtom, SerialInv, LinkInv, Steps
<1>5. atoms' = atoms /\ candidates' = candidates
  BY DEF FindAtom
<1>6. AtomRef(req[r].cand, req[r].op)' = ref
  BY <1>4, <1>5 DEF AtomRef
<1>7. HeldAtom(r)'
  <2>1. a = 0 => \A b \in 1..Len(atoms) : atoms[b].ref # ref
    BY <1>2
  <2> HIDE DEF a, ref
  <2>2. QED
    BY <1>1, <1>4, <1>5, <1>6, <2>1 DEF HeldAtom, Held
<1>8. QED
  BY <1>5, <1>7, SerialMove

(* create_memory_atom inserts the only row with its reference.             *)
LEMMA InsertAtomSerial ==
  ASSUME NEW r \in Requests, SerialInv(r), LinkInv', InsertAtom(r)
  PROVE  SerialInv(r)'
<1>1. LinkInv /\ TypeOK /\ Len(atoms) \in Nat
  BY DEF SerialInv, LinkInv, TypeOK
<1>2. req[r].at = "writeAtom" /\ req[r].atom = 0 /\ candidates' = candidates
  BY DEF InsertAtom
<1> DEFINE n == Len(atoms) + 1
           ref == AtomRef(req[r].cand, req[r].op)
<1>3. /\ Len(atoms') = n /\ \A a \in 1..Len(atoms) : atoms'[a] = atoms[a]
      /\ atoms'[n].ref = ref /\ atoms'[n].trust = "pending"
      /\ atoms'[n].item = req[r].item
      /\ req'[r].at = AfterAtomWrite(r) /\ req'[r].atom = n
      /\ req'[r].op = req[r].op /\ req'[r].cand = req[r].cand
      /\ req'[r].item = req[r].item
  BY <1>1, InsertAtomEffect
<1>4. HeldAtom(r)'
  <2>1. req'[r].at \in {"findItem", "checkAtom"}
    BY <1>3 DEF AfterAtomWrite
  <2>2. QED
    BY <1>3, <2>1 DEF HeldAtom, Held
<1>5. OneAtomPerRef'
  <2>1. \A a \in 1..Len(atoms) : atoms[a].ref # ref
    BY <1>2 DEF SerialInv, HeldAtom
  <2>2. \A a \in 1..Len(atoms') : a \in 1..Len(atoms) \/ a = n
    BY <1>1, <1>3
  <2> HIDE DEF n, ref
  <2>3. QED
    BY <1>3, <2>1, <2>2 DEF SerialInv, OneAtomPerRef
<1>6. VerdictsAgree'
  BY <1>2, <1>3, VerdictsStay DEF SerialInv
<1>7. QED
  BY <1>4, <1>5, <1>6 DEF SerialInv

(* create_memory_atom overwrites a row that has no verdict yet.            *)
LEMMA UpdateAtomSerial ==
  ASSUME NEW r \in Requests, SerialInv(r), LinkInv', UpdateAtom(r)
  PROVE  SerialInv(r)'
<1>1. LinkInv /\ TypeOK /\ Len(atoms) \in Nat
  BY DEF SerialInv, LinkInv, TypeOK
<1>2. req[r].at = "writeAtom" /\ req[r].atom # 0 /\ candidates' = candidates
  BY DEF UpdateAtom
<1> DEFINE n == req[r].atom
<1>3. /\ Len(atoms') = Len(atoms) /\ n \in 1..Len(atoms)
      /\ \A a \in 1..Len(atoms) : a # n => atoms'[a] = atoms[a]
      /\ atoms'[n].ref = atoms[n].ref /\ atoms'[n].trust = "pending"
      /\ atoms'[n].item = req[r].item
      /\ req'[r].at = AfterAtomWrite(r) /\ req'[r].atom = n
      /\ req'[r].op = req[r].op /\ req'[r].cand = req[r].cand
      /\ req'[r].item = req[r].item
  BY <1>1, UpdateAtomEffect DEF Held
<1>4. HeldAtom(r)'
  <2>1. req'[r].at \in {"findItem", "checkAtom"}
    BY <1>3 DEF AfterAtomWrite
  <2>2. QED
    BY <1>3, <2>1 DEF HeldAtom, Held
<1>5. OneAtomPerRef'
  BY <1>3 DEF SerialInv, OneAtomPerRef
<1>6. VerdictsAgree'
  <2>1. atoms[n].trust \notin {"trusted", "refuted"}
    BY <1>2 DEF SerialInv, HeldAtom, Held, CALLER_CREATABLE_STATES
  <2>2. QED
    BY <1>1, <1>2, <1>3, <2>1, VerdictsStay DEF SerialInv
<1>7. QED
  BY <1>4, <1>5, <1>6 DEF SerialInv

(* The two steps of create_stock_memory.                                   *)
LEMMA FindItemSerial ==
  ASSUME NEW r \in Requests, SerialInv(r), LinkInv', FindItem(r)
  PROVE  SerialInv(r)'
<1> DEFINE i == ItemByRef(ItemRef(req[r].cand))
<1>1. i \in Nat
  BY FirstOfIsMember DEF ItemByRef
<1>2. req'[r].at = "writeItem" /\ atoms' = atoms /\ candidates' = candidates
  BY <1>1, ItemTaken DEF FindItem, SerialInv, LinkInv, Steps
<1>3. HeldAtom(r)'
  BY <1>2 DEF HeldAtom
<1>4. QED
  BY <1>2, <1>3, SerialMove

(* create_stock_memory writes, one request at a time.                      *)
LEMMA WriteItemSerial ==
  ASSUME NEW r \in Requests, SerialInv(r), LinkInv', WriteItem(r)
  PROVE  SerialInv(r)'
<1>1. Len(items) + 1 \in Nat /\ "findAtom" \in Steps /\ TypeOK
  BY DEF SerialInv, LinkInv, TypeOK, Steps
<1>2. req'[r].at = "findAtom" /\ atoms' = atoms /\ candidates' = candidates
  BY <1>1, ItemTaken, StepMoves DEF WriteItem
<1>3. HeldAtom(r)'
  BY <1>2 DEF HeldAtom
<1>4. QED
  BY <1>2, <1>3, SerialMove

(* The gate's check finds the row as it was written.                       *)
LEMMA CheckAtomSerial ==
  ASSUME NEW r \in Requests, SerialInv(r), LinkInv', CheckAtom(r)
  PROVE  SerialInv(r)'
<1>1. TypeOK /\ "gateAtom" \in Steps /\ HeldAtom(r) /\ req[r].at = "checkAtom"
      /\ atoms' = atoms /\ candidates' = candidates
  BY DEF SerialInv, LinkInv, Steps, CheckAtom
<1>2. CASE Step(r, "gateAtom")
  <2>1. HeldAtom(r)'
    BY <1>1, <1>2, StepMoves DEF HeldAtom, Held, PROMOTABLE_STATES
  <2>2. QED
    BY <1>1, <2>1, SerialMove
<1>3. CASE Finish(r)
  BY <1>1, <1>3, SerialFinish, SerialMove
<1>4. QED
  BY <1>2, <1>3 DEF CheckAtom

(* A promotion turns a row without a verdict trusted; a refutation may     *)
(* turn any row refuted.                                                   *)
LEMMA GateAtomSerial ==
  ASSUME NEW r \in Requests, SerialInv(r), LinkInv', GateAtom(r)
  PROVE  SerialInv(r)'
<1>1. LinkInv /\ TypeOK /\ "decide" \in Steps /\ HeldAtom(r) /\ req[r] \in Request
      /\ req[r].at = "gateAtom" /\ candidates' = candidates
  BY DEF SerialInv, LinkInv, TypeOK, Steps, GateAtom
<1> DEFINE n == req[r].atom
<1>2. /\ Len(atoms') = Len(atoms) /\ n \in 1..Len(atoms)
      /\ \A a \in 1..Len(atoms) : a # n => atoms'[a] = atoms[a]
      /\ atoms'[n].ref = atoms[n].ref /\ atoms'[n].trust = Verdict(r)
      /\ atoms'[n].item = atoms[n].item
  BY <1>1, GateAtomEffect DEF Held
<1>3. HeldAtom(r)'
  <2>1. CASE req[r].op \in Decisions
    BY <1>1, <1>2, <2>1, StepMoves DEF GateAtom, HeldAtom, Held, Verdict, Decisions
  <2>2. CASE req[r].op \notin Decisions
    BY <1>1, <2>2, SerialFinish DEF GateAtom
  <2>3. QED
    BY <2>1, <2>2
<1>4. OneAtomPerRef'
  BY <1>2 DEF SerialInv, OneAtomPerRef
<1>5. VerdictsAgree'
  <2>1. CASE Verdict(r) = "refuted"
    BY <1>1, <1>2, <2>1, VerdictsStay DEF SerialInv
  <2>2. CASE Verdict(r) # "refuted"
    <3>1. req[r].op # "refuteAtom"
      BY <2>2 DEF Verdict
    <3>2. atoms[n].trust \notin {"trusted", "refuted"}
      BY <1>1, <3>1 DEF HeldAtom, Held, PROMOTABLE_STATES
    <3>3. QED
      BY <1>1, <1>2, <3>2, VerdictsStay DEF SerialInv
  <2>3. QED
    BY <2>1, <2>2
<1>6. QED
  BY <1>3, <1>4, <1>5 DEF SerialInv

(* The candidate gets the verdict its atom has just got.                   *)
LEMMA DecideCandidateSerial ==
  ASSUME NEW r \in Requests, SerialInv(r), LinkInv', DecideCandidate(r)
  PROVE  SerialInv(r)'
<1>1. LinkInv /\ TypeOK /\ HeldAtom(r) /\ RequestInv(r) /\ Finish(r)
      /\ req[r].at = "decide" /\ atoms' = atoms
  BY DEF SerialInv, LinkInv, DecideCandidate
<1>2. HeldAtom(r)' /\ OneAtomPerRef'
  BY <1>1, SerialFinish DEF SerialInv, OneAtomPerRef
<1>3. VerdictsAgree'
  <2> DEFINE n == req[r].cand
  <2>1. /\ Len(candidates') = Len(candidates) /\ n \in 1..Len(candidates)
        /\ \A c \in 1..Len(candidates) : c # n => candidates'[c] = candidates[c]
        /\ candidates'[n].atom = req[r].atom
        /\ candidates'[n].trust = IF req[r].op = "promote" THEN "trusted" ELSE "rejected"
        /\ req[r].op = "promote" => candidates'[n].item = req[r].item
    BY <1>1, DecideCandidateEffect
  <2>2. /\ req[r].op = "promote" => Held(r).item = req[r].item
        /\ Held(r).trust = IF req[r].op = "promote" THEN "trusted" ELSE "refuted"
    BY <1>1 DEF HeldAtom
  <2>3. QED
    BY <1>1, <2>1, <2>2 DEF SerialInv, VerdictsAgree, Held
<1>4. QED
  BY <1>2, <1>3 DEF SerialInv

(* Every step of the only handler there is preserves the invariant.        *)
LEMMA StepPreservesSerialInv ==
  ASSUME NEW r, Requests = {r}, SerialInv(r), [Next]_vars
  PROVE  SerialInv(r)'
<1>1. r \in Requests /\ LinkInv /\ LinkInv'
  BY StepPreservesLinkInv DEF SerialInv
<1>2. CASE \E key \in Keys : BeginCreate(r, key)
  BY <1>1, <1>2, BeginCreateSerial
<1>3. CASE \E c \in 1..Len(candidates), op \in Decisions : BeginDecision(r, c, op)
  BY <1>1, <1>3, BeginDecisionSerial
<1>4. CASE \E a \in 1..Len(atoms), op \in Gates : BeginGate(r, a, op)
  BY <1>1, <1>4, BeginGateSerial
<1>5. CASE InsertCandidate(r)
  BY <1>1, <1>5, InsertCandidateSerial
<1>6. CASE FindAtom(r)
  BY <1>1, <1>6, FindAtomSerial
<1>7. CASE RefuseAtom(r) \/ Abort(r)
  BY <1>1, <1>7, SerialFinish, SerialMove DEF RefuseAtom, Abort, LinkInv
<1>8. CASE InsertAtom(r)
  BY <1>1, <1>8, InsertAtomSerial
<1>9. CASE UpdateAtom(r)
  BY <1>1, <1>9, UpdateAtomSerial
<1>10. CASE FindItem(r)
  BY <1>1, <1>10, FindItemSerial
<1>11. CASE WriteItem(r)
  BY <1>1, <1>11, WriteItemSerial
<1>12. CASE CheckAtom(r)
  BY <1>1, <1>12, CheckAtomSerial
<1>13. CASE GateAtom(r)
  BY <1>1, <1>13, GateAtomSerial
<1>14. CASE DecideCandidate(r)
  BY <1>1, <1>14, DecideCandidateSerial
<1>15. CASE UNCHANGED vars
  BY <1>1, <1>15 DEF vars, SerialInv, HeldAtom, Held, AtomRef, OneAtomPerRef,
                     VerdictsAgree
<1>16. QED
  BY <1>2, <1>3, <1>4, <1>5, <1>6, <1>7, <1>8, <1>9, <1>10, <1>11, <1>12, <1>13,
     <1>14, <1>15 DEF Next, Serve

(* Nothing is held and nothing is decided at the start.                    *)
LEMMA InitEstablishesSerialInv ==
  ASSUME NEW r, Requests = {r}, Init
  PROVE  SerialInv(r)
<1>1. LinkInv
  BY InitEstablishesLinkInv
<1>2. HeldAtom(r)
  BY DEF Init, HeldAtom, Idle
<1>3. OneAtomPerRef /\ VerdictsAgree
  BY DEF Init, OneAtomPerRef, VerdictsAgree
<1>4. QED
  BY <1>1, <1>2, <1>3 DEF SerialInv

(* Served one request at a time, wherever requests die: the verdict on a   *)
(* candidate and the trust of its atom agree.  Two requests at a time are  *)
(* where promote_memory and reject_memory_candidate come apart.            *)
THEOREM VerdictsAgreeWhenSerial ==
  ASSUME NEW r, Requests = {r}
  PROVE  Spec => []VerdictsAgree
<1>1. Init => SerialInv(r)
  BY InitEstablishesSerialInv
<1>2. SerialInv(r) /\ [Next]_vars => SerialInv(r)'
  BY StepPreservesSerialInv
<1>3. SerialInv(r) => VerdictsAgree
  BY DEF SerialInv
<1>4. QED
  BY <1>1, <1>2, <1>3, PTL DEF Spec

-----------------------------------------------------------------------------
\* The row has no verdict of the gate yet.
Unjudged(a) == atoms[a].trust \notin {"trusted", "refuted"}

\* Nobody dies: only the decision under way has an atom without a verdict, and
\* its candidate is still pending; what a create read still holds.
AloneInv(r) ==
  /\ SerialInv(r)
  /\ \A a \in 1..Len(atoms) : Unjudged(a) =>
       /\ atoms[a].trust = "pending"
       /\ Deciding(r) /\ req[r].at # "decide"
       /\ atoms[a].ref = AtomRef(req[r].cand, req[r].op)
  /\ Deciding(r) => candidates[req[r].cand].trust = "pending"
  /\ req[r].at = "insert" =>
       req[r].op = "create" /\ req[r].key \in Keys /\ ~PendingTwin(req[r].key)
  /\ req[r].at = "gateAtom" => req[r].op # "promoteAtom"

\* The steps of a decision before its gate.
Preparing == {"findAtom", "writeAtom", "findItem", "writeItem", "checkAtom"}

(* A decision goes on: it works for the same candidate, and at most its own *)
(* atom lacks a verdict.                                                    *)
LEMMA DecisionGoesOn ==
  ASSUME NEW r \in Requests, AloneInv(r), SerialInv(r)', candidates' = candidates,
         req[r].at \in Preparing,
         req'[r].op = req[r].op, req'[r].cand = req[r].cand,
         req'[r].at \in Preparing \cup {"gateAtom"},
         \A a \in 1..Len(atoms') : Unjudged(a)' =>
           \/ a \in 1..Len(atoms) /\ Unjudged(a) /\ atoms'[a] = atoms[a]
           \/ /\ atoms'[a].trust = "pending"
              /\ atoms'[a].ref = AtomRef(req[r].cand, req[r].op)
  PROVE  AloneInv(r)'
<1>1. req[r].op \in Decisions /\ Deciding(r)
  BY DEF AloneInv, SerialInv, LinkInv, RequestInv, Deciding, Preparing
<1>2. Deciding(r)' /\ req'[r].at # "decide" /\ req'[r].at # "insert"
  BY <1>1 DEF Deciding, Preparing
<1>3. AtomRef(req[r].cand, req[r].op)' = AtomRef(req[r].cand, req[r].op)
  BY DEF AtomRef
<1>4. req'[r].op # "promoteAtom"
  BY <1>1 DEF Decisions
<1>5. candidates'[req'[r].cand].trust = "pending"
  BY <1>1 DEF AloneInv
<1>6. \A a \in 1..Len(atoms') : Unjudged(a)' =>
        /\ atoms'[a].trust = "pending"
        /\ atoms'[a].ref = AtomRef(req[r].cand, req[r].op)
  BY DEF AloneInv
<1>7. QED
  BY <1>2, <1>3, <1>4, <1>5, <1>6 DEF AloneInv

(* When every atom has its verdict, an idle handler owes nothing.          *)
LEMMA AllJudged ==
  ASSUME NEW r \in Requests, TypeOK, SerialInv(r)', Finish(r),
         \A a \in 1..Len(atoms') : ~ Unjudged(a)'
  PROVE  AloneInv(r)'
<1>1. req'[r] = Idle
  BY DEF Finish, TypeOK
<1>2. ~ Deciding(r)' /\ req'[r].at = "idle"
  BY <1>1 DEF Deciding, Idle, Decisions
<1>3. QED
  BY <1>2 DEF AloneInv

(* The four ways a request begins.                                         *)
LEMMA BeginAlone ==
  ASSUME NEW r \in Requests, AloneInv(r), SerialInv(r)', req[r].at = "idle",
         UNCHANGED <<candidates, atoms>>,
         req'[r].at \in {"insert", "findAtom", "gateAtom"},
         Deciding(r)' => candidates[req'[r].cand].trust = "pending",
         req'[r].at = "insert" =>
           req'[r].op = "create" /\ req'[r].key \in Keys /\ ~PendingTwin(req'[r].key),
         req'[r].at = "gateAtom" => req'[r].op # "promoteAtom"
  PROVE  AloneInv(r)'
<1>1. \A a \in 1..Len(atoms) : ~ Unjudged(a)
  BY DEF AloneInv, Deciding
<1>2. \A a \in 1..Len(atoms') : ~ Unjudged(a)'
  BY <1>1 DEF Unjudged
<1>3. req'[r].at = "insert" => ~PendingTwin(req[r].key)'
  BY DEF PendingTwin
<1>4. QED
  BY <1>2, <1>3 DEF AloneInv

(* A create begins where the twin check passed.                            *)
LEMMA BeginCreateAlone ==
  ASSUME NEW r \in Requests, NEW key \in Keys, AloneInv(r), SerialInv(r)',
         BeginCreate(r, key)
  PROVE  AloneInv(r)'
<1>1. req'[r] = [Idle EXCEPT !.op = "create", !.at = "insert", !.key = key]
  BY DEF BeginCreate, AloneInv, SerialInv, LinkInv, TypeOK
<1>2. req'[r].op = "create" /\ req'[r].at = "insert" /\ req'[r].key = key
  BY <1>1 DEF Idle
<1>3. QED
  BY <1>2, BeginAlone DEF BeginCreate, Deciding, Decisions

(* A decision begins on a pending candidate, before it has an atom.        *)
LEMMA BeginDecisionAlone ==
  ASSUME NEW r \in Requests, NEW c \in 1..Len(candidates), NEW op \in Decisions,
         AloneInv(r), SerialInv(r)', BeginDecision(r, c, op)
  PROVE  AloneInv(r)'
<1>1. req'[r] = [Idle EXCEPT !.op = op, !.at = "findAtom", !.cand = c]
  BY DEF BeginDecision, AloneInv, SerialInv, LinkInv, TypeOK
<1>2. req'[r].op = op /\ req'[r].at = "findAtom" /\ req'[r].cand = c
  BY <1>1 DEF Idle
<1>3. QED
  BY <1>2, BeginAlone DEF BeginDecision, Deciding

(* Nothing is promotable through the L0 route: every atom has its verdict. *)
LEMMA BeginGateAlone ==
  ASSUME NEW r \in Requests, NEW a \in 1..Len(atoms), NEW op \in Gates,
         AloneInv(r), SerialInv(r)', BeginGate(r, a, op)
  PROVE  AloneInv(r)'
<1>1. req'[r] = [Idle EXCEPT !.op = op, !.at = "gateAtom", !.atom = a]
  BY DEF BeginGate, AloneInv, SerialInv, LinkInv, TypeOK
<1>2. req'[r].op = op /\ req'[r].at = "gateAtom"
  BY <1>1 DEF Idle
<1>3. atoms[a].trust \in {"trusted", "refuted"}
  BY DEF AloneInv, Unjudged, BeginGate, Deciding
<1>4. op # "promoteAtom"
  BY <1>3 DEF BeginGate, MayPass, PROMOTABLE_STATES
<1>5. QED
  BY <1>2, <1>4, BeginAlone DEF BeginGate, Deciding, Gates, Decisions

(* The steps that prepare a decision.                                      *)
LEMMA FindAtomAlone ==
  ASSUME NEW r \in Requests, AloneInv(r), SerialInv(r)', FindAtom(r)
  PROVE  AloneInv(r)'
<1> DEFINE a == AtomByRef(AtomRef(req[r].cand, req[r].op))
<1>1. a \in Nat /\ TypeOK /\ "writeAtom" \in Steps
  BY FirstOfIsMember DEF AtomByRef, AloneInv, SerialInv, LinkInv, Steps
<1>2. /\ req[r].at = "findAtom" /\ candidates' = candidates /\ atoms' = atoms
      /\ req' = [req EXCEPT ![r].at = "writeAtom", ![r].atom = a]
  BY DEF FindAtom
<1> HIDE DEF a
<1>3. /\ req'[r].at = "writeAtom" /\ req'[r].op = req[r].op
      /\ req'[r].cand = req[r].cand
  BY <1>1, <1>2, AtomTaken
<1>4. QED
  BY <1>2, <1>3, DecisionGoesOn DEF Preparing, Unjudged

(* Reading the stock item leaves the atom as it is.                        *)
LEMMA FindItemAlone ==
  ASSUME NEW r \in Requests, AloneInv(r), SerialInv(r)', FindItem(r)
  PROVE  AloneInv(r)'
<1> DEFINE i == ItemByRef(ItemRef(req[r].cand))
<1>1. i \in Nat /\ TypeOK /\ "writeItem" \in Steps
  BY FirstOfIsMember DEF ItemByRef, AloneInv, SerialInv, LinkInv, Steps
<1>2. /\ req[r].at = "findItem" /\ candidates' = candidates /\ atoms' = atoms
      /\ req' = [req EXCEPT ![r].at = "writeItem", ![r].item = i]
  BY DEF FindItem
<1> HIDE DEF i
<1>3. /\ req'[r].at = "writeItem" /\ req'[r].op = req[r].op
      /\ req'[r].cand = req[r].cand
  BY <1>1, <1>2, ItemTaken
<1>4. QED
  BY <1>2, <1>3, DecisionGoesOn DEF Preparing, Unjudged

(* Writing the stock item leaves the atom as it is.                        *)
LEMMA WriteItemAlone ==
  ASSUME NEW r \in Requests, AloneInv(r), SerialInv(r)', WriteItem(r)
  PROVE  AloneInv(r)'
<1>1. Len(items) + 1 \in Nat /\ "findAtom" \in Steps /\ TypeOK
  BY DEF AloneInv, SerialInv, LinkInv, TypeOK, Steps
<1>2. req[r].at = "writeItem" /\ candidates' = candidates /\ atoms' = atoms
  BY DEF WriteItem
<1>3. /\ req'[r].at = "findAtom" /\ req'[r].op = req[r].op
      /\ req'[r].cand = req[r].cand
  BY <1>1, ItemTaken, StepMoves DEF WriteItem
<1>4. QED
  BY <1>2, <1>3, DecisionGoesOn DEF Preparing, Unjudged

(* The one atom without a verdict appears.                                 *)
LEMMA InsertAtomAlone ==
  ASSUME NEW r \in Requests, AloneInv(r), SerialInv(r)', InsertAtom(r)
  PROVE  AloneInv(r)'
<1>1. LinkInv /\ Len(atoms) \in Nat /\ candidates' = candidates
      /\ req[r].at = "writeAtom"
  BY DEF AloneInv, SerialInv, LinkInv, TypeOK, InsertAtom
<1> DEFINE n == Len(atoms) + 1
<1>2. /\ Len(atoms') = n /\ \A a \in 1..Len(atoms) : atoms'[a] = atoms[a]
      /\ atoms'[n].ref = AtomRef(req[r].cand, req[r].op)
      /\ atoms'[n].trust = "pending"
      /\ req'[r].at = AfterAtomWrite(r)
      /\ req'[r].op = req[r].op /\ req'[r].cand = req[r].cand
  BY <1>1, InsertAtomEffect
<1>3. req'[r].at \in Preparing
  BY <1>2 DEF AfterAtomWrite, Preparing
<1>4. \A a \in 1..Len(atoms') : a \in 1..Len(atoms) \/ a = n
  BY <1>1, <1>2
<1> HIDE DEF n
<1>5. QED
  BY <1>1, <1>2, <1>3, <1>4, DecisionGoesOn DEF Preparing, Unjudged

(* The one atom without a verdict is written again.                        *)
LEMMA UpdateAtomAlone ==
  ASSUME NEW r \in Requests, AloneInv(r), SerialInv(r)', UpdateAtom(r)
  PROVE  AloneInv(r)'
<1>1. LinkInv /\ Len(atoms) \in Nat /\ candidates' = candidates
      /\ req[r].at = "writeAtom"
  BY DEF AloneInv, SerialInv, LinkInv, TypeOK, UpdateAtom
<1> DEFINE n == req[r].atom
<1>2. /\ Len(atoms') = Len(atoms)
      /\ \A a \in 1..Len(atoms) : a # n => atoms'[a] = atoms[a]
      /\ atoms'[n].ref = AtomRef(req[r].cand, req[r].op)
      /\ atoms'[n].trust = "pending"
      /\ req'[r].at = AfterAtomWrite(r)
      /\ req'[r].op = req[r].op /\ req'[r].cand = req[r].cand
  BY <1>1, UpdateAtomEffect
<1>3. req'[r].at \in Preparing
  BY <1>2 DEF AfterAtomWrite, Preparing
<1> HIDE DEF n
<1>4. QED
  BY <1>1, <1>2, <1>3, DecisionGoesOn DEF Preparing, Unjudged

(* The check passes: the atom is still as it was written.                  *)
LEMMA CheckAtomAlone ==
  ASSUME NEW r \in Requests, AloneInv(r), SerialInv(r)', CheckAtom(r)
  PROVE  AloneInv(r)' /\ req'[r].at = "gateAtom"
<1>1. TypeOK /\ "gateAtom" \in Steps /\ candidates' = candidates /\ atoms' = atoms
      /\ req[r].at = "checkAtom" /\ Held(r).trust = "pending"
  BY DEF AloneInv, SerialInv, LinkInv, Steps, CheckAtom, HeldAtom
<1>2. Step(r, "gateAtom")
  BY <1>1 DEF CheckAtom, MayPass, Held, PROMOTABLE_STATES
<1>3. /\ req'[r].at = "gateAtom" /\ req'[r].op = req[r].op
      /\ req'[r].cand = req[r].cand
  BY <1>1, <1>2, StepMoves
<1>4. QED
  BY <1>1, <1>3, DecisionGoesOn DEF Preparing, Unjudged

(* create_memory_atom refuses: it found no atom of its own to judge.       *)
LEMMA RefuseAtomAlone ==
  ASSUME NEW r \in Requests, AloneInv(r), SerialInv(r)', RefuseAtom(r)
  PROVE  AloneInv(r)'
<1> DEFINE ref == AtomRef(req[r].cand, req[r].op)
           a == AtomByRef(ref)
<1>1. a # 0 /\ atoms[a].trust \notin CALLER_CREATABLE_STATES /\ atoms' = atoms
      /\ Finish(r)
  BY DEF RefuseAtom
<1>2. a \in 1..Len(atoms) /\ atoms[a].ref = ref
  BY <1>1, FirstOfIsMember DEF AtomByRef
<1>3. TypeOK /\ atoms[a] \in Atom /\ OneAtomPerRef
  BY <1>2 DEF AloneInv, SerialInv, LinkInv, TypeOK
<1>4. ASSUME NEW b \in 1..Len(atoms), Unjudged(b) PROVE FALSE
  <2>1. atoms[b].ref = ref
    BY <1>4 DEF AloneInv
  <2>2. b = a
    BY <1>2, <1>3, <2>1 DEF OneAtomPerRef
  <2>3. atoms[b].trust = "pending"
    BY <1>4 DEF AloneInv
  <2>4. QED
    BY <1>1, <2>2, <2>3 DEF CALLER_CREATABLE_STATES
<1>5. \A b \in 1..Len(atoms') : ~ Unjudged(b)'
  BY <1>1, <1>4 DEF Unjudged
<1>6. QED
  BY <1>1, <1>3, <1>5, AllJudged

(* The gate gives the last atom its verdict.                               *)
LEMMA GateAtomAlone ==
  ASSUME NEW r \in Requests, AloneInv(r), SerialInv(r)', GateAtom(r)
  PROVE  AloneInv(r)'
<1>1. /\ LinkInv /\ TypeOK /\ "decide" \in Steps /\ OneAtomPerRef /\ RequestInv(r)
      /\ req[r].at = "gateAtom" /\ candidates' = candidates
  BY DEF AloneInv, SerialInv, LinkInv, Steps, GateAtom
<1> DEFINE n == req[r].atom
<1>2. /\ Len(atoms') = Len(atoms) /\ n \in 1..Len(atoms)
      /\ \A a \in 1..Len(atoms) : a # n => atoms'[a] = atoms[a]
      /\ atoms'[n].ref = atoms[n].ref /\ atoms'[n].trust = Verdict(r)
  BY <1>1, GateAtomEffect DEF Held
<1>3. ASSUME NEW a \in 1..Len(atoms), a # n PROVE ~ Unjudged(a)
  <2> SUFFICES ASSUME Unjudged(a) PROVE FALSE
    OBVIOUS
  <2>1. Deciding(r) /\ atoms[a].ref = AtomRef(req[r].cand, req[r].op)
    BY DEF AloneInv
  <2>2. atoms[n].ref = AtomRef(req[r].cand, req[r].op)
    BY <1>1, <2>1 DEF RequestInv, HoldsAtom
  <2>3. QED
    BY <1>1, <1>2, <1>3, <2>1, <2>2 DEF OneAtomPerRef
<1>4. \A a \in 1..Len(atoms') : ~ Unjudged(a)'
  <2> HIDE DEF n
  <2>1. QED
    BY <1>2, <1>3 DEF Unjudged, Verdict
<1>5. CASE Finish(r)
  BY <1>1, <1>4, <1>5, AllJudged
<1>6. CASE req[r].op \in Decisions /\ Step(r, "decide")
  <2>1. /\ req'[r].at = "decide" /\ req'[r].op = req[r].op
        /\ req'[r].cand = req[r].cand
    BY <1>1, <1>6, StepMoves
  <2>2. candidates[req[r].cand].trust = "pending"
    BY <1>1, <1>6 DEF AloneInv, Deciding
  <2>3. QED
    BY <1>1, <1>4, <2>1, <2>2 DEF AloneInv
<1>7. QED
  BY <1>5, <1>6 DEF GateAtom

(* Steps that end a request when every atom has its verdict.               *)
LEMMA EndAlone ==
  ASSUME NEW r \in Requests, AloneInv(r), SerialInv(r)', Finish(r), atoms' = atoms,
         ~ Deciding(r) \/ req[r].at = "decide"
  PROVE  AloneInv(r)'
<1>1. TypeOK
  BY DEF AloneInv, SerialInv, LinkInv
<1>2. \A a \in 1..Len(atoms') : ~ Unjudged(a)'
  BY DEF AloneInv, Unjudged
<1>3. QED
  BY <1>1, <1>2, AllJudged

(* Every step preserves the invariant, when nobody dies.                   *)
LEMMA StepPreservesAloneInv ==
  ASSUME NEW r, Requests = {r}, MaxAborts = 0, AloneInv(r), [Next]_vars
  PROVE  AloneInv(r)'
<1>1. r \in Requests /\ SerialInv(r)'
  BY StepPreservesSerialInv DEF AloneInv
<1>2. CASE \E key \in Keys : BeginCreate(r, key)
  BY <1>1, <1>2, BeginCreateAlone
<1>3. CASE \E c \in 1..Len(candidates), op \in Decisions : BeginDecision(r, c, op)
  BY <1>1, <1>3, BeginDecisionAlone
<1>4. CASE \E a \in 1..Len(atoms), op \in Gates : BeginGate(r, a, op)
  BY <1>1, <1>4, BeginGateAlone
<1>5. CASE InsertCandidate(r)
  <2>1. req[r].at = "insert" /\ Finish(r) /\ atoms' = atoms
    BY <1>5 DEF InsertCandidate
  <2>2. ~ Deciding(r)
    BY <2>1 DEF AloneInv, Deciding, Decisions
  <2>3. QED
    BY <1>1, <2>1, <2>2, EndAlone
<1>6. CASE FindAtom(r)
  BY <1>1, <1>6, FindAtomAlone
<1>7. CASE RefuseAtom(r)
  BY <1>1, <1>7, RefuseAtomAlone
<1>8. CASE InsertAtom(r)
  BY <1>1, <1>8, InsertAtomAlone
<1>9. CASE UpdateAtom(r)
  BY <1>1, <1>9, UpdateAtomAlone
<1>10. CASE FindItem(r)
  BY <1>1, <1>10, FindItemAlone
<1>11. CASE WriteItem(r)
  BY <1>1, <1>11, WriteItemAlone
<1>12. CASE CheckAtom(r)
  BY <1>1, <1>12, CheckAtomAlone
<1>13. CASE GateAtom(r)
  BY <1>1, <1>13, GateAtomAlone
<1>14. CASE DecideCandidate(r)
  BY <1>1, <1>14, EndAlone DEF DecideCandidate
<1>15. CASE Abort(r)
  BY <1>15 DEF Abort, AloneInv, SerialInv, LinkInv, TypeOK
<1>16. CASE UNCHANGED vars
  <2>1. UNCHANGED <<candidates, atoms, req>>
    BY <1>16 DEF vars
  <2>2. PendingTwin(req[r].key)' = PendingTwin(req[r].key)
    BY <2>1 DEF PendingTwin
  <2>3. QED
    BY <1>1, <2>1, <2>2 DEF AloneInv, Unjudged, Deciding, AtomRef
<1>17. QED
  BY <1>2, <1>3, <1>4, <1>5, <1>6, <1>7, <1>8, <1>9, <1>10, <1>11, <1>12, <1>13,
     <1>14, <1>15, <1>16 DEF Next, Serve

(* Nobody is busy and nothing lacks a verdict at the start.                *)
LEMMA InitEstablishesAloneInv ==
  ASSUME NEW r, Requests = {r}, Init
  PROVE  AloneInv(r)
<1>1. SerialInv(r)
  BY InitEstablishesSerialInv
<1>2. QED
  BY <1>1 DEF Init, Idle, AloneInv, Deciding, Decisions

-----------------------------------------------------------------------------
\* The verdict the ledger shows for lesson c.
LessonTrust(c) ==
  IF Gated(c, "promote") THEN "trusted"
  ELSE IF Gated(c, "reject") THEN "rejected"
  ELSE candidates[c].trust

Lesson(c) == [case |-> candidates[c].case, ref |-> candidates[c].ref,
              trust |-> LessonTrust(c)]

LessonRow == [case : Cases \cup {NoCase}, ref : Refs \cup {NoRef},
              trust : CANDIDATE_TRUST_VALUES]

LessonsMirror ==
  /\ Lessons = [c \in 1..Len(candidates) |-> Lesson(c)]
  /\ Lessons \in Seq(LessonRow) /\ Len(Lessons) = Len(candidates)
  /\ \A c \in 1..Len(candidates) : Lessons[c] = Lesson(c)

(* The ledger's lessons are the candidates, one for one.                   *)
LEMMA LessonsAre ==
  ASSUME TypeOK
  PROVE  LessonsMirror
<1>1. Lessons = [c \in 1..Len(candidates) |-> Lesson(c)]
  BY DEF Lessons, Lesson, LessonTrust
<1>2. ASSUME NEW c \in 1..Len(candidates) PROVE Lesson(c) \in LessonRow
  <2>1. candidates[c] \in Candidate
    BY DEF TypeOK
  <2>2. LessonTrust(c) \in CANDIDATE_TRUST_VALUES
    BY <2>1 DEF LessonTrust, Candidate, CANDIDATE_TRUST_VALUES
  <2>3. QED
    BY <2>1, <2>2 DEF Lesson, LessonRow, Candidate
<1>3. Len(candidates) \in Nat
  BY DEF TypeOK
<1>4. Lessons \in [1..Len(candidates) -> LessonRow]
  BY <1>1, <1>2
<1>5. QED
  BY <1>1, <1>3, <1>4 DEF LessonsMirror

(* Only the one handler can have gated a lesson.                           *)
LEMMA GatedByOne ==
  ASSUME NEW r, Requests = {r}, NEW c, NEW op
  PROVE  /\ Gated(c, op) <=> /\ req[r].at = "decide"
                             /\ req[r].cand = c /\ req[r].op = op
         /\ Gated(c, op)' <=> /\ req'[r].at = "decide"
                              /\ req'[r].cand = c /\ req'[r].op = op
BY DEF Gated

(* Lessons of which nothing changes.                                       *)
LEMMA LessonsStay ==
  ASSUME TypeOK, TypeOK', Len(candidates') = Len(candidates),
         \A c \in 1..Len(candidates) :
           /\ candidates'[c].case = candidates[c].case
           /\ candidates'[c].ref = candidates[c].ref
           /\ LessonTrust(c)' = LessonTrust(c)
  PROVE  Lessons' = Lessons
<1>1. Lessons = [c \in 1..Len(candidates) |-> Lesson(c)]
  BY LessonsAre DEF LessonsMirror
<1>2. Lessons' = [c \in 1..Len(candidates') |-> Lesson(c)']
  BY DEF Lessons, Lesson, LessonTrust
<1>3. \A c \in 1..Len(candidates) : Lesson(c)' = Lesson(c)
  BY DEF Lesson
<1>4. QED
  BY <1>1, <1>2, <1>3

(* Before and after a step away from the last commit of a decision the     *)
(* lessons are the candidates.                                             *)
LEMMA LessonsUngated ==
  ASSUME NEW r, Requests = {r}, TypeOK, TypeOK', candidates' = candidates,
         req[r].at # "decide", req'[r].at # "decide"
  PROVE  Lessons' = Lessons
<1>1. \A c \in 1..Len(candidates) : LessonTrust(c)' = LessonTrust(c)
  BY GatedByOne DEF LessonTrust
<1>2. QED
  BY <1>1, LessonsStay

(* The memories of a trust state are those of its atoms.                   *)
LEMMA RefsIn ==
  ASSUME NEW trust, NEW ref
  PROVE  /\ ref \in AtomRefsIn(trust) <=>
              \E a \in 1..Len(atoms) : atoms[a].trust = trust /\ atoms[a].ref = ref
         /\ ref \in AtomRefsIn(trust)' <=>
              \E a \in 1..Len(atoms') : atoms'[a].trust = trust /\ atoms'[a].ref = ref
BY DEF AtomRefsIn

\* The step is a step of the ledger, or the ledger sees nothing of it.
Stutters == UNCHANGED <<Lessons, AtomRefsIn("trusted"), AtomRefsIn("refuted")>>
Maps == Ledger!LedgerNext \/ Stutters

(* A step that writes no candidate and no atom.                            *)
LEMMA PlainMaps ==
  ASSUME NEW r, Requests = {r}, TypeOK, TypeOK', UNCHANGED <<candidates, atoms>>,
         req[r].at # "decide", req'[r].at # "decide"
  PROVE  Stutters
BY LessonsUngated DEF Stutters, AtomRefsIn

(* create_memory_candidate commits: a lesson is submitted.                 *)
LEMMA InsertCandidateMaps ==
  ASSUME NEW r, Requests = {r}, AloneInv(r), TypeOK', InsertCandidate(r)
  PROVE  Maps
<1>0. PICK n : n = Len(candidates) + 1
  OBVIOUS
<1> DEFINE key == req[r].key
           row == [case |-> key[1], ref |-> key[2], trust |-> "pending"]
<1>1. /\ TypeOK /\ LinkInv /\ req[r].at = "insert" /\ key \in Keys /\ ~PendingTwin(key)
      /\ Len(candidates) < MaxCandidates /\ Finish(r) /\ atoms' = atoms
      /\ r \in Requests /\ Len(candidates) \in Nat
  BY DEF AloneInv, SerialInv, LinkInv, TypeOK, InsertCandidate
<1>2. req'[r].at = "idle"
  BY <1>1 DEF Finish, TypeOK, Idle
<1>3. /\ Len(candidates') = n
      /\ \A c \in 1..Len(candidates) : candidates'[c] = candidates[c]
      /\ candidates'[n].case = key[1] /\ candidates'[n].ref = key[2]
      /\ candidates'[n].trust = "pending"
  BY <1>0, <1>1, InsertCandidateEffect
<1>4. \A c : LessonTrust(c) = candidates[c].trust /\ LessonTrust(c)' = candidates'[c].trust
  BY <1>1, <1>2, GatedByOne DEF LessonTrust
<1>5. /\ Lessons \in Seq(LessonRow) /\ Len(Lessons) = Len(candidates)
      /\ \A c \in 1..Len(candidates) : Lessons[c] = Lesson(c)
  BY <1>1, LessonsAre DEF LessonsMirror
<1>6. /\ Lessons' \in Seq(LessonRow) /\ Len(Lessons') = n
      /\ \A c \in 1..n : Lessons'[c] = Lesson(c)'
  <2>1. LessonsMirror'
    BY LessonsAre, PTL
  <2>2. QED
    BY <2>1, <1>3 DEF LessonsMirror
<1>7. row \in LessonRow
  BY <1>1, KeysAssumption DEF LessonRow, CANDIDATE_TRUST_VALUES
<1>8. Lessons' = Append(Lessons, row)
  <2>1. /\ Append(Lessons, row) \in Seq(LessonRow) /\ Len(Append(Lessons, row)) = n
        /\ \A c \in 1..Len(candidates) : Append(Lessons, row)[c] = Lessons[c]
        /\ Append(Lessons, row)[n] = row
    BY <1>0, <1>5, <1>7, AppendProperties
  <2>2. \A c \in 1..Len(candidates) : Lesson(c)' = Lesson(c)
    BY <1>3, <1>4 DEF Lesson
  <2>3. Lesson(n)' = row
    BY <1>3, <1>4 DEF Lesson
  <2>4. \A c \in 1..n : Lessons'[c] = Append(Lessons, row)[c]
    <3> SUFFICES ASSUME NEW c \in 1..n PROVE Lessons'[c] = Append(Lessons, row)[c]
      OBVIOUS
    <3>1. CASE c = n
      BY <3>1, <1>0, <1>1, <1>6, <2>1, <2>3
    <3>2. CASE c # n
      <4>1. c \in 1..Len(candidates)
        BY <3>2, <1>0, <1>1
      <4>2. QED
        BY <4>1, <1>5, <1>6, <2>1, <2>2
    <3>3. QED
      BY <3>1, <3>2
  <2>5. QED
    BY <1>6, <2>1, <2>4, SeqEqual
<1>9. key # <<NoCase, NoRef>> =>
        \A c \in 1..Len(Lessons) :
          Lessons[c].trust = "pending" => <<Lessons[c].case, Lessons[c].ref>> # key
  <2>1. \A c \in 1..Len(candidates) :
          /\ Lessons[c].trust = candidates[c].trust
          /\ Lessons[c].case = candidates[c].case
          /\ Lessons[c].ref = candidates[c].ref
    <3> SUFFICES ASSUME NEW c \in 1..Len(candidates)
        PROVE  /\ Lessons[c].trust = candidates[c].trust
               /\ Lessons[c].case = candidates[c].case
               /\ Lessons[c].ref = candidates[c].ref
      OBVIOUS
    <3>1. Lessons[c] = Lesson(c)
      BY <1>5
    <3>2. /\ Lesson(c).trust = LessonTrust(c)
          /\ Lesson(c).case = candidates[c].case
          /\ Lesson(c).ref = candidates[c].ref
      BY DEF Lesson
    <3>3. QED
      BY <3>1, <3>2, <1>4
  <2> HIDE DEF key
  <2>2. QED
    BY <1>1, <1>5, <2>1 DEF PendingTwin
<1>10. UNCHANGED <<AtomRefsIn("trusted"), AtomRefsIn("refuted")>>
  BY <1>1 DEF AtomRefsIn
<1>11. Ledger!Submit(key)
  BY <1>1, <1>5, <1>8, <1>9, <1>10 DEF Ledger!Submit
<1>12. QED
  BY <1>1, <1>11 DEF Maps, Ledger!LedgerNext

(* create_memory_atom commits: what has no verdict still has none.         *)
LEMMA AtomWriteMaps ==
  ASSUME NEW r, Requests = {r}, AloneInv(r), TypeOK',
         InsertAtom(r) \/ UpdateAtom(r)
  PROVE  Stutters
<1>1. /\ TypeOK /\ LinkInv /\ req[r].at = "writeAtom" /\ candidates' = candidates
      /\ r \in Requests /\ Len(atoms) \in Nat
  BY DEF AloneInv, SerialInv, LinkInv, TypeOK, InsertAtom, UpdateAtom
<1>2. PICK n \in Nat :
        /\ Len(atoms') \in Nat /\ Len(atoms) <= Len(atoms')
        /\ \A a \in 1..Len(atoms') : a # n => a \in 1..Len(atoms) /\ atoms'[a] = atoms[a]
        /\ n \in 1..Len(atoms) => Unjudged(n)
        /\ atoms'[n].trust = "pending"
        /\ req'[r].at = AfterAtomWrite(r)
  <2>1. CASE InsertAtom(r)
    <3>0. PICK n : n = Len(atoms) + 1
      OBVIOUS
    <3>1. /\ Len(atoms') = n /\ \A a \in 1..Len(atoms) : atoms'[a] = atoms[a]
          /\ atoms'[n].trust = "pending" /\ req'[r].at = AfterAtomWrite(r)
      BY <1>1, <2>1, <3>0, InsertAtomEffect
    <3>2. \A a \in 1..Len(atoms') : a # n => a \in 1..Len(atoms)
      BY <1>1, <3>0, <3>1
    <3>3. QED
      BY <1>1, <3>0, <3>1, <3>2
  <2>2. CASE UpdateAtom(r)
    <3>0. PICK n : n = req[r].atom
      OBVIOUS
    <3>1. /\ Len(atoms') = Len(atoms) /\ n \in 1..Len(atoms)
          /\ \A a \in 1..Len(atoms) : a # n => atoms'[a] = atoms[a]
          /\ atoms'[n].trust = "pending" /\ req'[r].at = AfterAtomWrite(r)
      BY <1>1, <2>2, <3>0, UpdateAtomEffect
    <3>2. Unjudged(n)
      BY <1>1, <2>2, <3>0 DEF AloneInv, SerialInv, HeldAtom, Held, UpdateAtom, Unjudged,
                              CALLER_CREATABLE_STATES
    <3>3. QED
      BY <1>1, <3>1, <3>2
  <2>3. QED
    BY <2>1, <2>2
<1>3. req'[r].at # "decide"
  BY <1>2 DEF AfterAtomWrite
<1>4. Lessons' = Lessons
  BY <1>1, <1>3, LessonsUngated
<1>5. ASSUME NEW trust \in {"trusted", "refuted"}
      PROVE  AtomRefsIn(trust)' = AtomRefsIn(trust)
  <2>1. \A a \in 1..Len(atoms) : atoms[a].trust = trust =>
          a \in 1..Len(atoms') /\ atoms'[a] = atoms[a]
    BY <1>1, <1>2 DEF Unjudged
  <2>2. \A a \in 1..Len(atoms') : atoms'[a].trust = trust =>
          a \in 1..Len(atoms) /\ atoms'[a] = atoms[a]
    BY <1>2
  <2>3. \A ref : ref \in AtomRefsIn(trust)' <=> ref \in AtomRefsIn(trust)
    BY <2>1, <2>2, RefsIn
  <2>4. QED
    BY <2>3 DEF AtomRefsIn
<1>6. QED
  BY <1>4, <1>5 DEF Stutters

(* The last commit of a decision: the ledger has shown its verdict since   *)
(* the gate.                                                               *)
LEMMA DecideCandidateMaps ==
  ASSUME NEW r, Requests = {r}, AloneInv(r), TypeOK', DecideCandidate(r)
  PROVE  Stutters
<1>1. /\ TypeOK /\ LinkInv /\ RequestInv(r) /\ req[r].at = "decide" /\ r \in Requests
      /\ atoms' = atoms /\ Finish(r)
  BY DEF AloneInv, SerialInv, LinkInv, DecideCandidate
<1>2. PICK n : n = req[r].cand
  OBVIOUS
<1>3. /\ Len(candidates') = Len(candidates) /\ n \in 1..Len(candidates)
      /\ \A c \in 1..Len(candidates) : c # n => candidates'[c] = candidates[c]
      /\ candidates'[n].case = candidates[n].case
      /\ candidates'[n].ref = candidates[n].ref
      /\ candidates'[n].trust = IF req[r].op = "promote" THEN "trusted" ELSE "rejected"
  BY <1>1, <1>2, DecideCandidateEffect
<1>4. req'[r].at = "idle" /\ req[r].op \in {"promote", "reject"}
  BY <1>1 DEF Finish, TypeOK, Idle, RequestInv, Decisions
<1>5. \A c \in 1..Len(candidates) : LessonTrust(c)' = LessonTrust(c)
  <2> SUFFICES ASSUME NEW c \in 1..Len(candidates)
      PROVE  LessonTrust(c)' = LessonTrust(c)
    OBVIOUS
  <2>1. LessonTrust(c)' = candidates'[c].trust
    BY <1>4, GatedByOne DEF LessonTrust
  <2>2. CASE c = n
    BY <1>1, <1>2, <1>3, <1>4, <2>1, <2>2, GatedByOne DEF LessonTrust
  <2>3. CASE c # n
    BY <1>1, <1>2, <1>3, <2>1, <2>3, GatedByOne DEF LessonTrust
  <2>4. QED
    BY <2>2, <2>3
<1>6. \A c \in 1..Len(candidates) :
        candidates'[c].case = candidates[c].case /\ candidates'[c].ref = candidates[c].ref
  BY <1>3
<1>7. Lessons' = Lessons
  BY <1>1, <1>3, <1>5, <1>6, LessonsStay
<1>8. QED
  BY <1>1, <1>7 DEF Stutters, AtomRefsIn

\* The verdict a decision writes on its candidate.
Decided(op) == IF op = "promote" THEN "trusted" ELSE "rejected"

(* The gate commits the verdict of a decision: its lesson gets it.         *)
LEMMA GateShowsLesson ==
  ASSUME NEW r, Requests = {r}, AloneInv(r), TypeOK', GateAtom(r),
         NEW c, c = req[r].cand, NEW op, op = req[r].op, op \in Decisions
  PROVE  /\ c \in 1..Len(Lessons) /\ Lessons[c].trust = "pending"
         /\ Lessons[c].ref = candidates[c].ref
         /\ Lessons' = [Lessons EXCEPT ![c].trust = Decided(op)]
<1>1. /\ TypeOK /\ RequestInv(r) /\ req[r].at = "gateAtom" /\ r \in Requests
      /\ candidates' = candidates /\ Step(r, "decide") /\ "decide" \in Steps
  BY DEF AloneInv, SerialInv, LinkInv, GateAtom, Steps
<1>2. req'[r].at = "decide" /\ req'[r].cand = c /\ req'[r].op = op
  BY <1>1, StepMoves
<1>3. c \in 1..Len(candidates) /\ candidates[c].trust = "pending"
  BY <1>1 DEF RequestInv, AloneInv, Deciding
<1>4. \A b : LessonTrust(b) = candidates[b].trust
  BY <1>1, GatedByOne DEF LessonTrust
<1>5. \A b : LessonTrust(b)' = IF b = c THEN Decided(op) ELSE candidates[b].trust
  BY <1>1, <1>2, GatedByOne DEF LessonTrust, Decided, Decisions
<1>6. LessonsMirror /\ LessonsMirror'
  <2>1. LessonsMirror
    BY <1>1, LessonsAre
  <2>2. LessonsMirror'
    BY LessonsAre, PTL
  <2>3. QED
    BY <2>1, <2>2
<1>7. /\ Lesson(c) = [case |-> candidates[c].case, ref |-> candidates[c].ref,
                      trust |-> "pending"]
      /\ Lesson(c)' = [case |-> candidates[c].case, ref |-> candidates[c].ref,
                       trust |-> Decided(op)]
      /\ \A b : b # c => Lesson(b)' = Lesson(b)
  BY <1>1, <1>3, <1>4, <1>5 DEF Lesson
<1>8. Lessons[c] = Lesson(c) /\ c \in 1..Len(Lessons)
  BY <1>3, <1>6 DEF LessonsMirror
<1>9. Lessons[c].trust = "pending" /\ Lessons[c].ref = candidates[c].ref
  BY <1>7, <1>8
<1>10. Lessons' = [Lessons EXCEPT ![c].trust = Decided(op)]
  <2>1. [Lessons[c] EXCEPT !.trust = Decided(op)] = Lesson(c)'
    BY <1>7, <1>8
  <2>2. [Lessons EXCEPT ![c].trust = Decided(op)] = [Lessons EXCEPT ![c] = Lesson(c)']
    BY <1>8, <2>1
  <2>3. /\ Lessons = [b \in 1..Len(candidates) |-> Lesson(b)]
        /\ Lessons' = [b \in 1..Len(candidates) |-> Lesson(b)']
    BY <1>1, <1>6 DEF LessonsMirror
  <2>4. Lessons' = [Lessons EXCEPT ![c] = Lesson(c)']
    BY <1>3, <1>7, <2>3
  <2>5. QED
    BY <2>2, <2>4
<1>11. QED
  BY <1>8, <1>9, <1>10

(* A gate moves one memory between the trust states.                       *)
LEMMA GateShowsMemory ==
  ASSUME NEW r \in Requests, AloneInv(r), GateAtom(r),
         NEW ref, ref = Held(r).ref
  PROVE  /\ \E a \in 1..Len(atoms) : atoms[a].ref = ref
         /\ Held(r).trust = "pending" =>
              ref \notin AtomRefsIn("trusted") \cup AtomRefsIn("refuted")
         /\ Verdict(r) = "trusted" => AtomRefsIn("trusted")' = AtomRefsIn("trusted") \cup {ref}
         /\ Verdict(r) = "refuted" =>
              /\ AtomRefsIn("trusted")' = AtomRefsIn("trusted") \ {ref}
              /\ AtomRefsIn("refuted")' = AtomRefsIn("refuted") \cup {ref}
         /\ Verdict(r) = "trusted" /\ Held(r).trust = "pending" =>
              AtomRefsIn("refuted")' = AtomRefsIn("refuted")
         /\ Held(r).trust = "refuted" => ref \in AtomRefsIn("refuted")
         /\ Held(r).trust = "trusted" => ref \in AtomRefsIn("trusted")
<1>1. LinkInv /\ OneAtomPerRef
  BY DEF AloneInv, SerialInv
<1>2. PICK n : n = req[r].atom
  OBVIOUS
<1>3. /\ Len(atoms') = Len(atoms) /\ n \in 1..Len(atoms)
      /\ \A a \in 1..Len(atoms) : a # n => atoms'[a] = atoms[a]
      /\ atoms'[n].ref = ref /\ atoms[n].ref = ref /\ atoms'[n].trust = Verdict(r)
      /\ Held(r) = atoms[n]
  BY <1>1, <1>2, GateAtomEffect DEF Held
<1>4. \A a \in 1..Len(atoms) : a # n => atoms[a].ref # ref
  BY <1>1, <1>3 DEF OneAtomPerRef
<1>5. \A trust, x : x # ref =>
        (x \in AtomRefsIn(trust)' <=> x \in AtomRefsIn(trust))
  BY <1>3, RefsIn
<1>6. \A trust : ref \in AtomRefsIn(trust) <=> atoms[n].trust = trust
  BY <1>3, <1>4, RefsIn
<1>7. \A trust : ref \in AtomRefsIn(trust)' <=> atoms'[n].trust = trust
  BY <1>3, <1>4, RefsIn
<1>8. Verdict(r) = "trusted" => AtomRefsIn("trusted")' = AtomRefsIn("trusted") \cup {ref}
  BY <1>3, <1>5, <1>7
<1>9. Verdict(r) = "refuted" =>
        /\ AtomRefsIn("trusted")' = AtomRefsIn("trusted") \ {ref}
        /\ AtomRefsIn("refuted")' = AtomRefsIn("refuted") \cup {ref}
  BY <1>3, <1>5, <1>7
<1>10. Verdict(r) = "trusted" /\ Held(r).trust = "pending" =>
         AtomRefsIn("refuted")' = AtomRefsIn("refuted")
  <2> HAVE Verdict(r) = "trusted" /\ Held(r).trust = "pending"
  <2>1. ref \notin AtomRefsIn("refuted") /\ ref \notin AtomRefsIn("refuted")'
    BY <1>3, <1>6, <1>7
  <2>2. \A x : x \in AtomRefsIn("refuted")' <=> x \in AtomRefsIn("refuted")
    BY <1>5, <2>1
  <2>3. QED
    BY <2>2 DEF AtomRefsIn
<1>11. QED
  BY <1>3, <1>6, <1>8, <1>9, <1>10

(* The gate of a decision is the ledger's verdict on its lesson.           *)
LEMMA DecisionMaps ==
  ASSUME NEW r, Requests = {r}, AloneInv(r), TypeOK', GateAtom(r),
         req[r].op \in Decisions
  PROVE  Maps
<1>0. PICK c, op : c = req[r].cand /\ op = req[r].op /\ op \in Decisions
  OBVIOUS
<1>1. PICK ref : ref = Held(r).ref
  OBVIOUS
<1>2. /\ r \in Requests /\ req[r].at = "gateAtom" /\ RequestInv(r) /\ TypeOK
  BY DEF GateAtom, AloneInv, SerialInv, LinkInv
<1>3. ref = AtomRef(c, op) /\ req[r].atom \in 1..Len(atoms)
  BY <1>0, <1>1, <1>2 DEF RequestInv, HoldsAtom, Deciding, Held
<1>4. Held(r).trust = "pending"
  <2>1. Held(r).trust \in PROMOTABLE_STATES
    BY <1>2 DEF AloneInv, SerialInv, HeldAtom, Decisions
  <2>2. QED
    BY <1>3, <2>1 DEF AloneInv, Unjudged, Held, PROMOTABLE_STATES
<1>5. /\ c \in 1..Len(Lessons) /\ Lessons[c].trust = "pending"
      /\ Lessons[c].ref = candidates[c].ref
      /\ Lessons' = [Lessons EXCEPT ![c].trust = Decided(op)]
  BY <1>0, GateShowsLesson
<1>6. Ledger!MemoryOf(c, op) = ref
  BY <1>3, <1>5 DEF Ledger!MemoryOf, AtomRef
<1>7. Ledger!MemoryOf(c, op) \notin AtomRefsIn("trusted") \cup AtomRefsIn("refuted")
  BY <1>1, <1>2, <1>4, <1>6, GateShowsMemory
<1>8. CASE op = "promote"
  <2>1. Verdict(r) = "trusted" /\ Decided(op) = "trusted"
    BY <1>0, <1>8 DEF Verdict, Decided
  <2>2. /\ AtomRefsIn("trusted")' = AtomRefsIn("trusted") \cup {ref}
        /\ AtomRefsIn("refuted")' = AtomRefsIn("refuted")
    BY <1>1, <1>2, <1>4, <2>1, GateShowsMemory
  <2>3. Ledger!Promote(c)
    BY <1>5, <1>6, <1>7, <1>8, <2>1, <2>2 DEF Ledger!Promote, Ledger!Verdict
  <2>4. QED
    BY <1>5, <2>3 DEF Maps, Ledger!LedgerNext
<1>9. CASE op = "reject"
  <2>1. Verdict(r) = "refuted" /\ Decided(op) = "rejected"
    BY <1>0, <1>9 DEF Verdict, Decided
  <2>2. /\ AtomRefsIn("trusted")' = AtomRefsIn("trusted") \ {ref}
        /\ AtomRefsIn("refuted")' = AtomRefsIn("refuted") \cup {ref}
    BY <1>1, <1>2, <2>1, GateShowsMemory
  <2>3. AtomRefsIn("trusted")' = AtomRefsIn("trusted")
    BY <1>6, <1>7, <2>2
  <2>4. Ledger!Reject(c)
    BY <1>5, <1>6, <1>7, <1>9, <2>1, <2>2, <2>3 DEF Ledger!Reject, Ledger!Verdict
  <2>5. QED
    BY <1>5, <2>4 DEF Maps, Ledger!LedgerNext
<1>10. QED
  BY <1>0, <1>8, <1>9 DEF Decisions

(* The gate of the L0 route refutes: it overrules a trusted memory, and a  *)
(* memory refuted already stays so.                                        *)
LEMMA RefutationMaps ==
  ASSUME NEW r, Requests = {r}, AloneInv(r), TypeOK', GateAtom(r),
         req[r].op \notin Decisions
  PROVE  Maps
<1>1. PICK ref : ref = Held(r).ref
  OBVIOUS
<1>2. /\ r \in Requests /\ req[r].at = "gateAtom" /\ RequestInv(r) /\ TypeOK
      /\ Finish(r) /\ candidates' = candidates /\ "idle" # "decide"
  BY DEF GateAtom, AloneInv, SerialInv, LinkInv
<1>3. req[r].op # "promoteAtom" /\ req[r].op # "promote"
  BY <1>2 DEF AloneInv, Decisions
<1>4. Verdict(r) = "refuted"
  BY <1>3 DEF Verdict
<1>5. Held(r).trust \in {"trusted", "refuted"}
  BY <1>2 DEF AloneInv, Unjudged, Deciding, RequestInv, Held
<1>6. Lessons' = Lessons
  <2>1. req'[r].at # "decide"
    BY <1>2 DEF Finish, TypeOK, Idle
  <2>2. QED
    BY <1>2, <2>1, LessonsUngated
<1>7. /\ AtomRefsIn("trusted")' = AtomRefsIn("trusted") \ {ref}
      /\ AtomRefsIn("refuted")' = AtomRefsIn("refuted") \cup {ref}
  BY <1>1, <1>2, <1>4, GateShowsMemory
<1>8. CASE ref \in AtomRefsIn("trusted")
  <2>1. Ledger!Overrule(ref)
    BY <1>6, <1>7 DEF Ledger!Overrule
  <2>2. QED
    BY <1>8, <2>1 DEF Maps, Ledger!LedgerNext
<1>9. CASE ref \notin AtomRefsIn("trusted")
  <2>1. ref \in AtomRefsIn("refuted")
    BY <1>1, <1>2, <1>5, <1>9, GateShowsMemory
  <2>2. QED
    BY <1>6, <1>7, <1>9, <2>1 DEF Maps, Stutters
<1>10. QED
  BY <1>8, <1>9

(* Every step of the loop is a step of the ledger or none.                 *)
LEMMA StepMaps ==
  ASSUME NEW r, Requests = {r}, MaxAborts = 0, AloneInv(r), [Next]_vars
  PROVE  Maps
<1>1. r \in Requests /\ AloneInv(r)' /\ TypeOK /\ TypeOK'
  BY StepPreservesAloneInv DEF AloneInv, SerialInv, LinkInv
<1>2. CASE \/ \E key \in Keys : BeginCreate(r, key)
           \/ \E c \in 1..Len(candidates), op \in Decisions : BeginDecision(r, c, op)
           \/ \E a \in 1..Len(atoms), op \in Gates : BeginGate(r, a, op)
  <2>1. req[r].at = "idle" /\ UNCHANGED <<candidates, atoms>>
    BY <1>2 DEF BeginCreate, BeginDecision, BeginGate
  <2>2. req'[r].at # "decide"
    <3>1. CASE \E key \in Keys : BeginCreate(r, key)
      BY <1>1, <3>1 DEF BeginCreate, TypeOK, Idle
    <3>2. CASE \E c \in 1..Len(candidates), op \in Decisions : BeginDecision(r, c, op)
      BY <1>1, <3>2 DEF BeginDecision, TypeOK, Idle
    <3>3. CASE \E a \in 1..Len(atoms), op \in Gates : BeginGate(r, a, op)
      BY <1>1, <3>3 DEF BeginGate, TypeOK, Idle
    <3>4. QED
      BY <1>2, <3>1, <3>2, <3>3
  <2>3. QED
    BY <1>1, <2>1, <2>2, PlainMaps DEF Maps
<1>3. CASE InsertCandidate(r)
  BY <1>1, <1>3, InsertCandidateMaps
<1>4. CASE RefuseAtom(r)
  <2>1. req'[r].at # "decide"
    BY <1>1, <1>4 DEF RefuseAtom, Finish, TypeOK, Idle
  <2>2. QED
    BY <1>1, <1>4, <2>1, PlainMaps DEF Maps, RefuseAtom
<1>5. CASE FindAtom(r)
  <2> DEFINE a == AtomByRef(AtomRef(req[r].cand, req[r].op))
  <2>1. a \in Nat /\ "writeAtom" \in Steps
    BY <1>1, FirstOfIsMember DEF AtomByRef, TypeOK, Steps
  <2>2. req'[r].at = "writeAtom"
    BY <1>1, <1>5, <2>1, AtomTaken DEF FindAtom
  <2>3. QED
    BY <1>1, <1>5, <2>2, PlainMaps DEF Maps, FindAtom
<1>6. CASE InsertAtom(r) \/ UpdateAtom(r)
  BY <1>1, <1>6, AtomWriteMaps DEF Maps
<1>7. CASE FindItem(r)
  <2> DEFINE i == ItemByRef(ItemRef(req[r].cand))
  <2>1. i \in Nat /\ "writeItem" \in Steps
    BY <1>1, FirstOfIsMember DEF ItemByRef, AloneInv, SerialInv, LinkInv, Steps
  <2>2. req'[r].at = "writeItem"
    BY <1>1, <1>7, <2>1, ItemTaken DEF FindItem
  <2>3. QED
    BY <1>1, <1>7, <2>2, PlainMaps DEF Maps, FindItem
<1>8. CASE WriteItem(r)
  <2>1. Len(items) + 1 \in Nat /\ "findAtom" \in Steps
    BY <1>1 DEF TypeOK, Steps
  <2>2. req'[r].at = "findAtom"
    BY <1>1, <1>8, <2>1, ItemTaken, StepMoves DEF WriteItem
  <2>3. QED
    BY <1>1, <1>8, <2>2, PlainMaps DEF Maps, WriteItem
<1>9. CASE CheckAtom(r)
  <2>1. req'[r].at = "gateAtom"
    BY <1>1, <1>9, CheckAtomAlone DEF AloneInv
  <2>2. QED
    BY <1>1, <1>9, <2>1, PlainMaps DEF Maps, CheckAtom
<1>10. CASE GateAtom(r)
  BY <1>1, <1>10, DecisionMaps, RefutationMaps
<1>11. CASE DecideCandidate(r)
  BY <1>1, <1>11, DecideCandidateMaps DEF Maps
<1>12. CASE Abort(r)
  BY <1>1, <1>12 DEF Abort, TypeOK
<1>13. CASE UNCHANGED vars
  BY <1>13 DEF vars, Maps, Stutters, Lessons, AtomRefsIn, Gated
<1>14. QED
  BY <1>2, <1>3, <1>4, <1>5, <1>6, <1>7, <1>8, <1>9, <1>10, <1>11, <1>12, <1>13
     DEF Next, Serve

(* The empty tables are the empty ledger.                                  *)
LEMMA InitMaps ==
  ASSUME NEW r, Requests = {r}, Init
  PROVE  Ledger!LedgerInit
<1>1. Len(candidates) = 0 /\ Len(atoms) = 0
  BY DEF Init
<1>2. TypeOK
  BY InitEstablishesLinkInv DEF LinkInv
<1>3. Lessons \in Seq(LessonRow) /\ Len(Lessons) = 0
  BY <1>1, <1>2, LessonsAre DEF LessonsMirror
<1>4. Lessons = << >>
  BY <1>3, EmptySeq
<1>5. AtomRefsIn("trusted") = {} /\ AtomRefsIn("refuted") = {}
  BY <1>1 DEF AtomRefsIn
<1>6. QED
  BY <1>4, <1>5 DEF Ledger!LedgerInit

(* One request at a time, and none of them dying: the loop implements the  *)
(* trust ledger, in which a lesson gets one verdict, together with the     *)
(* memory it stands for, and a refuted memory is never trusted again.      *)
THEOREM LoopImplementsLedger ==
  ASSUME NEW r, Requests = {r}, MaxAborts = 0
  PROVE  Spec => ImplementsLedger
<1>1. Init => AloneInv(r) /\ Ledger!LedgerInit
  BY InitEstablishesAloneInv, InitMaps
<1>2. AloneInv(r) /\ [Next]_vars => AloneInv(r)'
  BY StepPreservesAloneInv
<1>3. AloneInv(r) /\ [Next]_vars => [Ledger!LedgerNext]_(Ledger!ledgerVars)
  BY StepMaps DEF Maps, Stutters, Ledger!ledgerVars
<1>4. QED
  BY <1>1, <1>2, <1>3, PTL DEF Spec, ImplementsLedger, Ledger!LedgerSpec
=============================================================================
