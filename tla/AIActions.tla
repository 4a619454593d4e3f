------------------------------ MODULE AIActions ------------------------------
(***************************************************************************)
(* api/routes/ai.py and agent/action_registry.py: the actions that the     *)
(* chat proposes, that the user confirms and that then run.                *)
(*                                                                         *)
(* A confirmation checks the status, runs the handler of the action, whose *)
(* parts commit one after the other, and writes the status last.  It may   *)
(* be overlapped by a second click, and may be cut off (the process dies   *)
(* or a part raises) between two commits; the action then is still pending *)
(* and may be confirmed again.  Actions here have keys of their own.       *)
(***************************************************************************)
EXTENDS Integers, Sequences

CONSTANTS
  Clients,       \* threads that serve confirmations
  Actions,       \* rows of pending_ai_actions
  KindOf,        \* the registered action of each
  MaxCuts        \* bound on the confirmations that are cut off

\* What a handler writes, commit by commit.  A row is inserted each time; a
\* flag is set; an upsert is one statement; a keyed item is looked up by its
\* source_ref and then updated or inserted (create_stock_memory).
Parts(kind) ==
  CASE kind = "position.add"       -> <<"row">>
    [] kind = "watchlist.add"      -> <<"flag", "keyed">>
    [] kind = "watchlist.remove"   -> <<"flag">>
    [] kind = "memory.write"       -> <<"upsert", "keyed">>
    [] kind = "stock_memory.write" -> <<"keyed">>

Kinds == {"position.add", "watchlist.add", "watchlist.remove", "memory.write",
          "stock_memory.write"}

ASSUME KindsAssumption == KindOf \in [Actions -> Kinds]
ASSUME CutsAssumption == MaxCuts \in Nat

VARIABLES
  status,      \* of each action
  made,        \* rows that each part of an action has left
  confirm,     \* what each thread is at
  overlapped,  \* actions that two confirmations ran at a time
  cuts         \* how often a confirmation of an action was cut off

ActionVars == <<status, made, confirm, overlapped, cuts>>

PartsOf(a) == Parts(KindOf[a])
LastPart(a) == Len(PartsOf(a))
NoAction == [at |-> "idle", action |-> "none", part |-> 0, found |-> FALSE]
Run(a, at, part, found) == [at |-> at, action |-> a, part |-> part, found |-> found]

ActionsInit ==
  /\ status = [a \in Actions |-> "absent"]
  /\ made = [a \in Actions |-> [p \in 1 .. LastPart(a) |-> 0]]
  /\ confirm = [t \in Clients |-> NoAction]
  /\ overlapped = {}
  /\ cuts = [a \in Actions |-> 0]

-----------------------------------------------------------------------------
(* The chat commits the row; nothing else creates one.                     *)
Propose(a) ==
  /\ status[a] = "absent"
  /\ status' = [status EXCEPT ![a] = "pending"]
  /\ UNCHANGED <<made, confirm, overlapped, cuts>>

(* The status is checked once; the registry then checks mode and payload,  *)
(* and a refusal there leaves everything as it is.                         *)
Confirm(t, a) ==
  /\ confirm[t].at = "idle"
  /\ status[a] = "pending"
  /\ confirm' = [confirm EXCEPT ![t] = Run(a, "part", 1, FALSE)]
  /\ overlapped' = IF \E u \in Clients : confirm[u].action = a
                   THEN overlapped \cup {a} ELSE overlapped
  /\ UNCHANGED <<status, made, cuts>>

-----------------------------------------------------------------------------
(* The handlers.                                                           *)
PartIs(t, kind) ==
  /\ confirm[t].at = "part"
  /\ PartsOf(confirm[t].action)[confirm[t].part] = kind

\* The part of t is done: the next one, or the status.
NextPart(c) ==
  IF c.part = LastPart(c.action) THEN Run(c.action, "mark", c.part, FALSE)
  ELSE Run(c.action, "part", c.part + 1, FALSE)
Done(t) == confirm' = [confirm EXCEPT ![t] = NextPart(@)]

\* The commit of the part leaves n rows.
Leaves(t, n) ==
  /\ made' = [made EXCEPT ![confirm[t].action][confirm[t].part] = n]
  /\ Done(t)
  /\ UNCHANGED <<status, overlapped, cuts>>
RowsNow(t) == made[confirm[t].action][confirm[t].part]

InsertRow(t) == PartIs(t, "row") /\ Leaves(t, RowsNow(t) + 1)
SetFlag(t) == PartIs(t, "flag") /\ Leaves(t, 1)
Upsert(t) == PartIs(t, "upsert") /\ Leaves(t, 1)

LookItem(t) ==
  /\ PartIs(t, "keyed")
  /\ confirm' = [confirm EXCEPT
                   ![t] = Run(@.action, "item", @.part, RowsNow(t) > 0)]
  /\ UNCHANGED <<status, made, overlapped, cuts>>

\* Variant for mutation: the item is always inserted.
WriteItem_Inserts(t) == confirm[t].at = "item" /\ Leaves(t, RowsNow(t) + 1)
WriteItem(t) ==
  /\ confirm[t].at = "item"
  /\ Leaves(t, IF confirm[t].found THEN RowsNow(t) ELSE RowsNow(t) + 1)

(* confirm_action writes the status last.                                  *)
MarkExecuted(t) ==
  /\ confirm[t].at = "mark"
  /\ status' = [status EXCEPT ![confirm[t].action] = "executed"]
  /\ confirm' = [confirm EXCEPT ![t] = NoAction]
  /\ UNCHANGED <<made, overlapped, cuts>>

(* The thread dies, or a part raises: what was committed stays.            *)
CutOff(t) ==
  /\ confirm[t].at # "idle"
  /\ cuts[confirm[t].action] < MaxCuts
  /\ cuts' = [cuts EXCEPT ![confirm[t].action] = @ + 1]
  /\ confirm' = [confirm EXCEPT ![t] = NoAction]
  /\ UNCHANGED <<status, made, overlapped>>

ActionsNext ==
  \/ \E a \in Actions : Propose(a)
  \/ \E t \in Clients :
       \/ \E a \in Actions : Confirm(t, a)
       \/ InsertRow(t) \/ SetFlag(t) \/ Upsert(t)
       \/ LookItem(t) \/ WriteItem(t) \/ MarkExecuted(t) \/ CutOff(t)

ActionsDone ==
  /\ \A a \in Actions : status[a] = "executed"
  /\ \A t \in Clients : confirm[t].at = "idle"

ActionsSpec == ActionsInit /\ [][ActionsNext]_ActionVars

-----------------------------------------------------------------------------
ActionsTypeOK ==
  /\ status \in [Actions -> {"absent", "pending", "executed"}]
  /\ overlapped \subseteq Actions
  /\ cuts \in [Actions -> 0 .. MaxCuts]
  /\ \A a \in Actions : made[a] \in [1 .. LastPart(a) -> Nat]
  /\ \A t \in Clients :
       \/ confirm[t] = NoAction
       \/ \E a \in Actions : \E p \in 1 .. LastPart(a), found \in BOOLEAN :
            confirm[t] \in {Run(a, at, p, found) : at \in {"part", "item", "mark"}}

(* A confirmation that is cut off and repeated runs every part again.      *)
(* Parts with a key leave one row all the same; only an inserted row (a    *)
(* position) may be left once more per cut, and only overlapping           *)
(* confirmations may leave more.                                           *)
RetriesLeaveOneRow ==
  \A a \in Actions \ overlapped : \A p \in 1 .. LastPart(a) :
    made[a][p] <= IF PartsOf(a)[p] = "row" THEN 1 + cuts[a] ELSE 1
=============================================================================
