----------------------------- MODULE KillSwitch -----------------------------
(***************************************************************************)
(* ops/kill_switch.py with its callers: the routes that trigger and reset  *)
(* the switch, the guard at the entry of the scheduler's jobs, and the     *)
(* checks that end a post-market run.                                      *)
(*                                                                         *)
(* The switch is a file.  It is written beside its place and renamed, and  *)
(* every writer uses the same temporary name; the API process and the      *)
(* scheduler worker share it with no lock.  One action is one access to    *)
(* the file system.  An inode keeps its content when its name moves, so a  *)
(* writer that opened the temporary file goes on writing to the inode that *)
(* another writer has renamed.                                             *)
(***************************************************************************)
EXTENDS Naturals, FiniteSets

CONSTANTS
  Api,         \* threads that serve POST /system/kill-switch/...
  Jobs,        \* threads that run the scheduler's jobs
  PostMarket,  \* the jobs among them that end with the checks
  Inodes,
  NoInode,
  Worlds,      \* what the database may say of signals and prices
  MaxFaults    \* bound on crashes, failed looks and writes, and jobs that raise

ASSUME ThreadsAssumption == Api \cap Jobs = {} /\ PostMarket \subseteq Jobs
ASSUME InodesAssumption == NoInode \notin Inodes
ASSUME FaultsAssumption == MaxFaults \in Nat

Threads == Api \cup Jobs

VARIABLES
  state,       \* the inode STATE_PATH names, or NoInode
  tmp,         \* the inode kill_switch.json.tmp names, or NoInode
  content,     \* what is in each inode
  call,        \* what each thread is doing
  facts,       \* what the database says when a job asks
  cleared,     \* history: threads that were in a call when a reset unlinked
  faults

vars == <<state, tmp, content, call, facts, cleared, faults>>
files == <<state, tmp, content>>
outside == <<facts, faults>>

Reasons == {"manual", "losses", "stale"}
\* A file that was only opened is empty; two overlapping writes tear it.
Contents == Reasons \cup {"empty", "torn"}

Prices == {"fresh", "stale", "none"}
Facts == [losing : BOOLEAN, prices : Prices, up : BOOLEAN]
ASSUME WorldsAssumption == Worlds \subseteq Facts

Calls == {"none", "trigger", "reset", "guard", "checks"}
Points == {"idle", "exists", "read", "again", "unlink", "body", "decide", "open", "write",
           "replace"}

Idle == [of |-> "none", at |-> "idle", reason |-> "manual", fd |-> NoInode,
         losing |-> FALSE, prices |-> "none"]

Tripped == state # NoInode

Init ==
  /\ state = NoInode /\ tmp = NoInode
  /\ content = [i \in Inodes |-> "empty"]
  /\ call = [t \in Threads |-> Idle]
  /\ facts \in Worlds
  /\ cleared = {}
  /\ faults = 0

\* What an inode holds that has lost its name is not looked at again.
Forget(i) == IF i = NoInode THEN content ELSE [content EXCEPT ![i] = "empty"]

\* The thread goes on at p, or its call is over.
GoTo(t, p) == call' = [call EXCEPT ![t].at = p]
End(t)     == call' = [call EXCEPT ![t] = Idle]
Busy(t)    == call[t].at # "idle"

\* A new call knows of no reset yet.
Begin(t, c) ==
  /\ ~Busy(t)
  /\ call' = [call EXCEPT ![t] = c]
  /\ cleared' = cleared \ {t}
  /\ UNCHANGED <<files, outside>>

StartTrigger(t) ==
  t \in Api /\ Begin(t, [Idle EXCEPT !.of = "trigger", !.at = "open"])
StartReset(t) ==
  t \in Api /\ Begin(t, [Idle EXCEPT !.of = "reset", !.at = "exists"])
StartJob(t) ==
  t \in Jobs /\ Begin(t, [Idle EXCEPT !.of = "guard", !.at = "exists"])

-----------------------------------------------------------------------------
(* STATE_PATH.exists(), in _read_state and in the reset of _write_state.   *)
Exists(t) ==
  /\ call[t].at = "exists"
  /\ \/ call[t].of = "reset" /\ state = NoInode /\ End(t)
     \/ call[t].of = "reset" /\ state # NoInode /\ GoTo(t, "unlink")
     \/ call[t].of = "guard" /\ state = NoInode /\ GoTo(t, "body")
     \/ call[t].of = "checks" /\ state = NoInode /\ GoTo(t, "decide")
     \/ call[t].of \in {"guard", "checks"} /\ state # NoInode /\ GoTo(t, "read")
  /\ UNCHANGED <<files, outside, cleared>>

\* Variant for mutation: a file that cannot be parsed counts as no trigger.
LooksActive_FailOpen(c) == c \in Reasons
(* Every trigger writes active = true, and what cannot be parsed counts as *)
(* active.                                                                 *)
LooksActive(c) == c \in Contents

(* The rest of _read_state; a file that is gone by now is an error and     *)
(* counts as active too.  An active switch ends the checks; the guard asks *)
(* once more, for the reason that it logs.                                 *)
Read(t) ==
  /\ call[t].at = "read"
  /\ IF state = NoInode \/ LooksActive(content[state])
     THEN IF call[t].of = "guard" THEN GoTo(t, "again") ELSE End(t)
     ELSE GoTo(t, IF call[t].of = "guard" THEN "body" ELSE "decide")
  /\ UNCHANGED <<files, outside, cleared>>

\* current_state in the guard: whatever it finds, the job is skipped.
LookAgain(t) ==
  /\ call[t].at = "again" /\ End(t)
  /\ UNCHANGED <<files, outside, cleared>>

\* unlink raises when another reset was faster; the outcome is the same.
Unlink(t) ==
  /\ call[t].at = "unlink"
  /\ state' = NoInode
  /\ cleared' = IF Tripped THEN cleared \cup {u \in Threads : Busy(u)} ELSE cleared
  /\ content' = Forget(state)
  /\ End(t)
  /\ UNCHANGED <<tmp, outside>>

-----------------------------------------------------------------------------
\* Variant for mutation: the checks are left out.
FinishBody_Unchecked(t) ==
  /\ call[t].at = "body" /\ End(t)
  /\ UNCHANGED <<files, outside, cleared>>

(* The job's work ends.  A post-market run then asks the database for      *)
(* recent returns and the latest price date; an unreachable database       *)
(* raises, and _run_kill_switch_checks only logs it.                       *)
FinishBody(t) ==
  /\ call[t].at = "body"
  /\ IF t \in PostMarket /\ facts.up
     THEN call' = [call EXCEPT ![t] =
            [Idle EXCEPT !.of = "checks", !.at = "exists",
                         !.losing = facts.losing, !.prices = facts.prices]]
     ELSE End(t)
  /\ UNCHANGED <<files, outside, cleared>>

(* run_all_checks after the look at the state: losses first, then the age  *)
(* of the prices, which is skipped when there are none.                    *)
CheckLosses(t) ==
  /\ call[t].at = "decide" /\ call[t].losing
  /\ call' = [call EXCEPT ![t].at = "open", ![t].reason = "losses"]
  /\ UNCHANGED <<files, outside, cleared>>

CheckStaleness(t) ==
  /\ call[t].at = "decide" /\ ~call[t].losing /\ call[t].prices = "stale"
  /\ call' = [call EXCEPT ![t].at = "open", ![t].reason = "stale"]
  /\ UNCHANGED <<files, outside, cleared>>

\* Variant for mutation: checks that find nothing clear the switch.
ChecksPass_Clear(t) ==
  /\ call[t].at = "decide" /\ ~call[t].losing /\ call[t].prices # "stale"
  /\ GoTo(t, "unlink")
  /\ UNCHANGED <<files, outside, cleared>>
ChecksPass(t) ==
  /\ call[t].at = "decide" /\ ~call[t].losing /\ call[t].prices # "stale"
  /\ End(t)
  /\ UNCHANGED <<files, outside, cleared>>

-----------------------------------------------------------------------------
Free == {i \in Inodes : i \notin {state, tmp} /\ \A t \in Threads : call[t].fd # i}

(* _write_state opens the temporary file for writing: what has the name is *)
(* truncated, else a new inode gets it.                                    *)
Open(t) ==
  /\ call[t].at = "open"
  /\ \E i \in IF tmp = NoInode THEN Free ELSE {tmp} :
       /\ tmp' = i
       /\ content' = [content EXCEPT ![i] = "empty"]
       /\ call' = [call EXCEPT ![t].at = "write", ![t].fd = i]
  /\ UNCHANGED <<state, outside, cleared>>

\* A shorter text leaves the tail of a longer one behind it.
Write(t) ==
  /\ call[t].at = "write"
  /\ LET i == call[t].fd IN
       IF i \notin {state, tmp} THEN UNCHANGED content
       ELSE \E c \in {call[t].reason} \cup (IF content[i] = "empty" THEN {} ELSE {"torn"}) :
              content' = [content EXCEPT ![i] = c]
  /\ call' = [call EXCEPT ![t].at = "replace", ![t].fd = NoInode]
  /\ UNCHANGED <<state, tmp, outside, cleared>>

\* Variant for mutation: a trigger that fails cleans up what it finds.
Replaced_CleanUp == IF tmp = NoInode THEN NoInode ELSE tmp
(* os.replace takes whatever has the temporary name now; if the name is    *)
(* gone it raises, and the trigger with it.                                *)
Replaced == IF tmp = NoInode THEN state ELSE tmp

Replace(t) ==
  /\ call[t].at = "replace"
  /\ state' = Replaced
  /\ tmp' = NoInode
  /\ content' = IF Replaced = state THEN content ELSE Forget(state)
  /\ End(t)
  /\ UNCHANGED <<outside, cleared>>

-----------------------------------------------------------------------------
Fault == faults < MaxFaults /\ faults' = faults + 1

(* STATE_PATH.exists() raises, in the first look or in the second one: the *)
(* guard logs it and lets the job run, a reset and the checks end.         *)
FailLook(t) ==
  /\ call[t].at \in {"exists", "again"} /\ Fault
  /\ IF call[t].of = "guard" THEN GoTo(t, "body") ELSE End(t)
  /\ UNCHANGED <<files, facts, cleared>>

(* The write fails; the temporary file stays as it is.                     *)
FailWrite(t) ==
  /\ call[t].at = "write" /\ Fault /\ End(t)
  /\ UNCHANGED <<files, facts, cleared>>

(* The job raises: no checks.                                              *)
FailBody(t) ==
  /\ call[t].at = "body" /\ Fault /\ End(t)
  /\ UNCHANGED <<files, facts, cleared>>

(* The API process or the scheduler worker dies.                           *)
Crash(P) ==
  /\ Fault
  /\ \E t \in P : Busy(t)
  /\ call' = [t \in Threads |-> IF t \in P THEN Idle ELSE call[t]]
  /\ UNCHANGED <<files, facts, cleared>>

(* Signals win and lose, prices arrive or age, the database comes and goes.*)
World ==
  /\ facts' \in Worlds
  /\ UNCHANGED <<files, call, cleared, faults>>

Step(t) ==
  \/ Exists(t) \/ Read(t) \/ LookAgain(t) \/ Unlink(t)
  \/ FinishBody(t) \/ CheckLosses(t) \/ CheckStaleness(t) \/ ChecksPass(t)
  \/ Open(t) \/ Write(t) \/ Replace(t)

Next ==
  \/ \E t \in Threads :
       \/ StartTrigger(t) \/ StartReset(t) \/ StartJob(t)
       \/ Step(t) \/ FailLook(t) \/ FailWrite(t) \/ FailBody(t)
  \/ Crash(Api) \/ Crash(Jobs)
  \/ World

Spec == Init /\ [][Next]_vars

\* The cron trigger comes every day, and a thread that is in a call goes on.
Fairness ==
  /\ \A t \in Jobs : WF_vars(StartJob(t))
  /\ \A t \in Threads : WF_vars(Step(t))

FairSpec == Spec /\ Fairness

-----------------------------------------------------------------------------
TypeOK ==
  /\ state \in Inodes \cup {NoInode} /\ tmp \in Inodes \cup {NoInode}
  /\ tmp # NoInode => tmp # state
  /\ content \in [Inodes -> Contents]
  /\ call \in [Threads -> [of : Calls, at : Points, reason : Reasons,
                          fd : Inodes \cup {NoInode}, losing : BOOLEAN, prices : Prices]]
  /\ facts \in Worlds /\ cleared \subseteq Threads /\ faults \in 0 .. MaxFaults

(* "reset() clears the state; the user has to ask for it": no race of two  *)
(* triggers for the temporary file, no failed write, no death and no check *)
(* ever takes a tripped switch back.                                       *)
OnlyAResetClears ==
  [][Tripped /\ ~Tripped' =>
       \E t \in Api : call[t].of = "reset" /\ call[t].at = "unlink" /\ ~Busy(t)']_vars

(* A trigger that comes to its rename leaves the switch tripped even when  *)
(* the rename raises, unless a reset came after the trigger began.         *)
TriggerTakesEffect ==
  [][\A t \in Threads :
       call[t].at = "replace" /\ Replace(t) => Tripped' \/ t \in cleared]_vars

(* A job starts its work only if there was no switch file at one moment of *)
(* its guard, or the look for the file failed: an unreadable file, one     *)
(* that is being written, and one that vanishes in between do not let it   *)
(* through.                                                                *)
GuardHolds ==
  [][\A t \in Jobs :
       (call[t].at # "body" /\ call[t].at' = "body") => ~Tripped \/ FailLook(t)]_vars

(* While signals lose, the database answers and nothing fails any more,    *)
(* the switch is tripped again and again however often it is reset.        *)
LossesTrip ==
  <>[](facts.losing /\ facts.up) => []<>Tripped

=============================================================================
