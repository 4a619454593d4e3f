------------------------------ MODULE LivePage ------------------------------
(***************************************************************************)
(* The web page: frontend/src/live.ts, which connects it to the backend,   *)
(* api.ts, whose requests time out and are repeated, and the positions of  *)
(* page-positions.tsx.  The page is one thread, and every await in it is   *)
(* a place where its other calls go on.                                    *)
(*                                                                         *)
(* The page shows a sample until it is connected, and what it shows then   *)
(* until it is loaded anew.  A click without a connection changes the      *)
(* page alone.  The watch list goes the same ways as the positions; the    *)
(* rest of what is loaded, the chat and the routes are left out.           *)
(***************************************************************************)
EXTENDS Naturals, FiniteSets, FiniteSetsExt

CONSTANTS
  Clicks,   \* what the user does, one change each
  Pings,    \* health requests that may be under way at a time
  MaxRow,   \* bound on the ids of positions
  SampleOpen, SampleClosed   \* ids of the positions in the sample

VARIABLES
  table,    \* positions: the status of each id
  page,     \* live, healthTimer and the store
  boot,     \* startLive
  ping,     \* which health requests are under way
  click     \* what each click is at, and what it was told

PageVars == <<table, page, boot, ping, click>>

RowIds == 1 .. MaxRow
OnlyHere == 0                        \* Date.now() as an id
Shown(id, status) == [id |-> id, status |-> status]
Lists == {"open", "closed"}
Sample == {Shown(i, "open") : i \in SampleOpen} \cup {Shown(i, "closed") : i \in SampleClosed}

NoClick == [at |-> "idle", attempt |-> 1, kind |-> "create", id |-> OnlyHere, sample |-> FALSE,
            wrote |-> 0, lost |-> FALSE, left |-> Lists, read |-> {}]

PageInit ==
  /\ table \in {[i \in RowIds |-> IF i = 1 THEN s ELSE "none"] : s \in {"none", "open", "closed"}}
  /\ page = [live |-> FALSE, badge |-> "demo", monitor |-> FALSE, sample |-> TRUE, rows |-> Sample]
  /\ boot = [at |-> "list", left |-> Lists, read |-> {}]
  /\ ping = [p \in Pings |-> FALSE]
  /\ click = [c \in Clicks |-> NoClick]

ReadList(status) == {Shown(i, status) : i \in {i \in RowIds : table[i] = status}}

-----------------------------------------------------------------------------
(* startLive: the watch list tells whether there is a backend, the rest is *)
(* loaded, and only then is the page changed.                              *)

Connect ==
  /\ boot.at = "list"
  /\ \/ boot' = [boot EXCEPT !.at = "load"] /\ page' = [page EXCEPT !.live = TRUE]
     \/ boot' = [boot EXCEPT !.at = "ended"] /\ UNCHANGED page
  /\ UNCHANGED <<table, ping, click>>

\* A list that cannot be read counts as empty.
LoadList(status) ==
  /\ boot.at = "load" /\ status \in boot.left
  /\ \E rows \in {{}, ReadList(status)} :
       boot' = [boot EXCEPT !.left = @ \ {status}, !.read = @ \cup rows]
  /\ UNCHANGED <<table, page, ping, click>>

ShowLoaded ==
  /\ boot.at = "load" /\ boot.left = {}
  /\ boot' = [boot EXCEPT !.at = "ended"]
  /\ page' = [page EXCEPT !.badge = "live", !.monitor = TRUE, !.sample = FALSE, !.rows = boot.read]
  /\ UNCHANGED <<table, ping, click>>

\* The timer of startHealthMonitor does not wait for the last request.
Ping(p) ==
  /\ page.monitor /\ page.live /\ ~ping[p]
  /\ ping' = [ping EXCEPT ![p] = TRUE]
  /\ UNCHANGED <<table, page, boot, click>>

PingAnswered(p) ==
  /\ ping[p]
  /\ ping' = [ping EXCEPT ![p] = FALSE]
  /\ \/ page' = [page EXCEPT !.badge = "live"]
     \/ page' = [page EXCEPT !.live = FALSE, !.monitor = FALSE, !.badge = "offline"]
  /\ UNCHANGED <<table, boot, click>>

-----------------------------------------------------------------------------
(* A click: with a connection it is a request, otherwise the page is       *)
(* changed in its place.                                                   *)

Needs == [close |-> "open", purge |-> "closed"]
TurnsInto == [create |-> "open", close |-> "closed", purge |-> "none"]

ChangedHere(kind, id) ==
  {r \in page.rows : r.id # id}
    \cup (IF kind = "purge" THEN {} ELSE {Shown(id, TurnsInto[kind])})

MakeClick(c) ==
  /\ click[c].at = "idle"
  /\ \E kind \in DOMAIN TurnsInto, id \in RowIds \cup {OnlyHere} :
       /\ IF kind = "create" THEN id = OnlyHere ELSE Shown(id, Needs[kind]) \in page.rows
       /\ click' = [click EXCEPT ![c].at = IF page.live THEN "send" ELSE "local",
                                 ![c].kind = kind, ![c].id = id, ![c].sample = page.sample]
       /\ page' = IF page.live THEN page ELSE [page EXCEPT !.rows = ChangedHere(kind, id)]
  /\ UNCHANGED <<table, boot, ping>>

\* Variant for mutation: every request is repeated.
MaxAttempts_All(method) == 2
\* Only a request that reads is repeated.
MaxAttempts(method) == IF method = "GET" THEN 2 ELSE 1
Method == [create |-> "POST", close |-> "PATCH", purge |-> "DELETE"]

Unanswered(c) ==
  IF click[c].attempt < MaxAttempts(Method[click[c].kind])
  THEN [click[c] EXCEPT !.at = "send", !.attempt = @ + 1, !.lost = TRUE]
  ELSE [click[c] EXCEPT !.at = "failed", !.lost = TRUE]

NextId == 1 + Max({0} \cup {i \in RowIds : table[i] # "none"})

\* The routes create_position, close_position and delete_closed_position.
Serve(c) ==
  /\ click[c].at = "send"
  /\ LET kind == click[c].kind
         id == IF kind = "create" THEN NextId ELSE click[c].id
     IN  IF kind = "create" \/ (id \in RowIds /\ table[id] = Needs[kind])
         THEN /\ table' = [table EXCEPT ![id] = TurnsInto[kind]]
              /\ click' = [click EXCEPT ![c].at = "written", ![c].wrote = @ + 1]
         ELSE click' = [click EXCEPT ![c].at = "refused"] /\ UNCHANGED table
  /\ UNCHANGED <<page, boot, ping>>

Answer(c) ==
  /\ click[c].at \in {"written", "refused"}
  /\ click' = [click EXCEPT ![c].at = IF @ = "written" THEN "refresh" ELSE "failed"]
  /\ UNCHANGED <<table, page, boot, ping>>

\* The request or its answer is lost, or too late.
TimeOut(c) ==
  /\ click[c].at \in {"send", "written", "refused"}
  /\ click' = [click EXCEPT ![c] = Unanswered(c)]
  /\ UNCHANGED <<table, page, boot, ping>>

-----------------------------------------------------------------------------
(* refreshCore: the lists are read at the same time, and kept as they are  *)
(* when one cannot be read.  The click is told that it is done in any case.*)

RefreshList(c, status) ==
  /\ click[c].at = "refresh" /\ status \in click[c].left
  /\ click' = [click EXCEPT ![c].left = @ \ {status}, ![c].read = @ \cup ReadList(status)]
  /\ UNCHANGED <<table, page, boot, ping>>

RefreshFails(c) ==
  /\ click[c].at = "refresh" /\ click[c].left # {}
  /\ click' = [click EXCEPT ![c].at = "done", ![c].left = {}, ![c].read = {}]
  /\ UNCHANGED <<table, page, boot, ping>>

ShowRefreshed(c) ==
  /\ click[c].at = "refresh" /\ click[c].left = {}
  /\ page' = [page EXCEPT !.sample = FALSE, !.rows = click[c].read]
  /\ click' = [click EXCEPT ![c].at = "done", ![c].read = {}]
  /\ UNCHANGED <<table, boot, ping>>

PageNext ==
  \/ Connect \/ ShowLoaded
  \/ \E status \in Lists : LoadList(status)
  \/ \E p \in Pings : Ping(p) \/ PingAnswered(p)
  \/ \E c \in Clicks :
       \/ MakeClick(c) \/ Serve(c) \/ Answer(c) \/ TimeOut(c)
       \/ RefreshFails(c) \/ ShowRefreshed(c)
       \/ \E status \in Lists : RefreshList(c, status)

PageSpec == PageInit /\ [][PageNext]_PageVars

PageDone ==
  /\ boot.at = "ended" /\ ~page.monitor /\ \A p \in Pings : ~ping[p]
  /\ \A c \in Clicks : click[c].at \in {"local", "done", "failed"}

-----------------------------------------------------------------------------
(* A click that was told it is done has written one row, and one that was  *)
(* told it failed none, unless its answer was lost: then one at most.  So  *)
(* no lost answer of a write makes it happen twice (request of api.ts).    *)
ToldIsDone ==
  \A c \in Clicks : LET q == click[c] IN
    /\ q.at \in {"refresh", "done"} => q.wrote = 1
    /\ q.at = "failed" => q.wrote = 0 \/ (q.lost /\ q.wrote = 1)
    /\ q.at = "local" => q.wrote = 0

(* "demo 模式由调用方落回本地示例行为" (the head of live.ts): what is clicked on  *)
(* a row of the sample stays in the page.                                  *)
SampleStaysHere ==
  \A c \in Clicks : click[c].sample /\ click[c].kind # "create" => click[c].wrote = 0
=============================================================================
