------------------------------ MODULE Positions ------------------------------
(***************************************************************************)
(* api/routes/positions.py: the manually kept positions of one stock, and  *)
(* the handlers that create, change, close and purge them.                 *)
(*                                                                         *)
(* A handler reads a row in one statement and writes it in another, with   *)
(* no transaction around both; the session writes the columns whose value  *)
(* differs from what it read.  A row's id is the largest one plus one, so  *)
(* the id of a purged row is given again.  The average cost, which a       *)
(* request changes as it changes the quantity, is Cost; dates, stops and   *)
(* texts are left out, and prices are whole.                               *)
(***************************************************************************)
EXTENDS Integers, FiniteSets, FiniteSetsExt

CONSTANTS
  Requests,    \* threads that serve requests
  MaxId,       \* bound on the positions kept at a time
  Quantities, Prices,
  Cost,        \* avg_cost of every position
  None

ASSUME PositiveAssumption ==
  Quantities \subseteq Nat \ {0} /\ Prices \subseteq Nat \ {0} /\ Cost \in Nat \ {0}
ASSUME BoundAssumption == MaxId \in Nat
ASSUME NoneAssumption == None \notin Int

VARIABLES
  rows,        \* table positions
  universe,    \* the stock's row in table stocks
  req          \* what each thread is doing

Ids == 1 .. MaxId
Statuses == {"open", "closed"}
Universe == {"absent", "active", "inactive"}

Realized(q, p) == q * (p - Cost)
Opened(q) == [status |-> "open", quantity |-> q, price |-> None, pnl |-> None]

Used == {i \in Ids : rows[i] # None}
NewId == Max(Used \cup {0}) + 1

\* The bound MaxId leaves room for the rows that requests under way insert.
HasRoom == NewId + Cardinality({r \in Requests : req[r].op = "create"}) \in Ids

NoRequest == [op |-> "none", id |-> 0, was |-> None, new |-> None]
Finish(r) == req' = [req EXCEPT ![r] = NoRequest]
IsIdle(r) == req[r].op = "none"

PositionsInit ==
  /\ rows = [i \in Ids |-> None]
  /\ universe \in Universe
  /\ req = [r \in Requests |-> NoRequest]

\* The handler has read row i (or the stock's row) and is about to write.
Hold(r, op, i, was, new) ==
  /\ IsIdle(r)
  /\ req' = [req EXCEPT ![r] = [op |-> op, id |-> i, was |-> was, new |-> new]]
  /\ UNCHANGED <<rows, universe>>

-----------------------------------------------------------------------------
(* create_position looks the stock up, then commits stock and position.    *)
BeginCreate(r, q) ==
  /\ HasRoom
  /\ Hold(r, "create", 0, [stock |-> universe], Opened(q))

\* The stock's row: inserted, or set active unless it was read active.
EnsureStock(was) == universe' = IF was = "active" THEN universe ELSE "active"
\* Two inserts of the stock: the second one violates its primary key.
StockConflict(was) == was = "absent" /\ universe # "absent"

Insert(new) == rows' = [rows EXCEPT ![NewId] = new]

Create(r) ==
  /\ req[r].op = "create"
  /\ LET was == req[r].was.stock IN
       IF StockConflict(was)
       THEN UNCHANGED <<rows, universe>>
       ELSE Insert(req[r].new) /\ EnsureStock(was)
  /\ Finish(r)

(* DELETE /watchlist/{symbol} and the action watchlist.remove.             *)
RemoveStock ==
  /\ universe = "active"
  /\ universe' = "inactive"
  /\ UNCHANGED <<rows, req>>

-----------------------------------------------------------------------------
\* Variant for mutation: a closed position may be closed again.
MayClose_Always(row) == row.status \in Statuses
MayClose(row) == row.status = "open"

\* What close_position writes; the payload may carry a new quantity, and
\* the profit is of the quantity that was read.
Closed(row, p, q) ==
  [status |-> "closed", quantity |-> q, price |-> p, pnl |-> Realized(row.quantity, p)]

(* close_position, also called by DELETE /positions/{id}.                  *)
BeginClose(r, i, p, q) ==
  /\ i \in Used /\ MayClose(rows[i])
  /\ Hold(r, "write", i, rows[i], Closed(rows[i], p, q))

(* update_position sets what the payload names, with no look at the rest.  *)
BeginUpdate(r, i, status, q, p) ==
  /\ i \in Used
  /\ Hold(r, "write", i, rows[i],
          [rows[i] EXCEPT !.status = status, !.quantity = q, !.price = p])

MayPurge(row) == row.status = "closed"

(* delete_closed_position.                                                 *)
BeginPurge(r, i) ==
  /\ i \in Used /\ MayPurge(rows[i])
  /\ Hold(r, "purge", i, rows[i], None)

\* The UPDATE names the columns that differ from what was read.
Merge(row, was, new) ==
  [f \in DOMAIN row |-> IF new[f] = was[f] THEN row[f] ELSE new[f]]

\* An UPDATE that meets no row changes nothing, and the session raises.
Updated(i, was, new) == IF rows[i] = None THEN None ELSE Merge(rows[i], was, new)

(* The commit of close_position and of update_position.                    *)
Write(r) ==
  /\ req[r].op = "write"
  /\ rows' = [rows EXCEPT ![req[r].id] = Updated(req[r].id, req[r].was, req[r].new)]
  /\ Finish(r)
  /\ UNCHANGED universe

(* The commit of delete_closed_position.                                   *)
Purge(r) ==
  /\ req[r].op = "purge"
  /\ rows' = [rows EXCEPT ![req[r].id] = None]
  /\ Finish(r)
  /\ UNCHANGED universe

Begin(r) ==
  \/ \E q \in Quantities : BeginCreate(r, q)
  \/ \E i \in Ids :
       \/ \E p \in Prices, q \in Quantities : BeginClose(r, i, p, q)
       \/ \E s \in Statuses, q \in Quantities, p \in Prices \cup {None} :
            BeginUpdate(r, i, s, q, p)
       \/ BeginPurge(r, i)

Commit(r) == Create(r) \/ Write(r) \/ Purge(r)

PositionsNext == RemoveStock \/ \E r \in Requests : Begin(r) \/ Commit(r)

pvars == <<rows, universe, req>>
PositionsSpec == PositionsInit /\ [][PositionsNext]_pvars

-----------------------------------------------------------------------------
\* Row i is as the request that changes it now read it.
Current(i) == \E r \in Requests :
  req[r].id = i /\ req[r].was = rows[i] /\ req[r]' # req[r]

(* A second close does not rewrite the realized profit: while a position   *)
(* stays closed its profit stays, unless a request changes it that read    *)
(* another row than it writes (tests/test_positions_validation.py,         *)
(* test_close_rejects_second_close_without_rewriting_realized_pnl).        *)
ClosedPnlIsFinal ==
  [][\A i \in Used :
       (/\ rows[i].status = "closed" /\ Current(i)
        /\ rows[i]' # None /\ rows[i]'.status = "closed")
         => rows[i]'.pnl = rows[i].pnl]_pvars

=============================================================================
