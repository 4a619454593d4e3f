-------------------------- MODULE KillSwitch_proofs --------------------------
(***************************************************************************)
(* Theorems about KillSwitch, for any number of API threads, jobs, inodes  *)
(* and faults.  That losses eventually trip the switch is a matter of      *)
(* fairness and stays with TLC.                                            *)
(***************************************************************************)
EXTENDS KillSwitch, TLAPS

Call == [of : Calls, at : Points, reason : Reasons,
         fd : Inodes \cup {NoInode}, losing : BOOLEAN, prices : Prices]

LEMMA IdleIsACall == Idle \in Call
BY DEF Idle, Call, Calls, Points, Reasons, Prices

(* What an inode holds stays a content when it loses its name.             *)
LEMMA ForgetKeepsContents ==
  ASSUME content \in [Inodes -> Contents], NEW i \in Inodes \cup {NoInode}
  PROVE  Forget(i) \in [Inodes -> Contents]
BY DEF Forget, Contents

\* A step of one thread replaces its call by another one.
LEMMA CallStays ==
  ASSUME TypeOK, NEW t \in Threads, NEW c \in Call,
         call' = [call EXCEPT ![t] = c]
  PROVE  call' \in [Threads -> Call]
BY DEF TypeOK, Call

LEMMA GoToStays ==
  ASSUME TypeOK, NEW t \in Threads, NEW p \in Points, GoTo(t, p)
  PROVE  call' \in [Threads -> Call]
<1>1. call \in [Threads -> Call]
  BY DEF TypeOK, Call
<1>2. call' = [call EXCEPT ![t] = [call[t] EXCEPT !.at = p]]
  BY DEF GoTo
<1>3. [call[t] EXCEPT !.at = p] \in Call
  BY <1>1 DEF Call
<1> QED
  BY <1>1, <1>2, <1>3

LEMMA EndStays ==
  ASSUME TypeOK, NEW t \in Threads, End(t)
  PROVE  call' \in [Threads -> Call]
BY IdleIsACall, CallStays DEF End

LEMMA BeginStays ==
  ASSUME TypeOK, NEW t \in Threads, NEW c \in Call, Begin(t, c)
  PROVE  TypeOK'
<1>1. call' \in [Threads -> Call]
  BY CallStays DEF Begin
<1> QED
  BY <1>1 DEF Begin, TypeOK, files, outside, Call

(* The state file and the temporary file are two inodes, each holds a text *)
(* that some writer wrote or tore, and every thread is at a known point.   *)
THEOREM TypeCorrect == Spec => []TypeOK
<1> USE FaultsAssumption, InodesAssumption, WorldsAssumption
<1>1. Init => TypeOK
  BY IdleIsACall DEF Init, TypeOK, Contents, Call
<1>2. TypeOK /\ [Next]_vars => TypeOK'
  <2> SUFFICES ASSUME TypeOK, [Next]_vars PROVE TypeOK'
    OBVIOUS
  <2>1. ASSUME NEW t \in Threads, StartTrigger(t) \/ StartReset(t) \/ StartJob(t)
        PROVE  TypeOK'
    <3>1. /\ [Idle EXCEPT !.of = "trigger", !.at = "open"] \in Call
          /\ [Idle EXCEPT !.of = "reset", !.at = "exists"] \in Call
          /\ [Idle EXCEPT !.of = "guard", !.at = "exists"] \in Call
      BY IdleIsACall DEF Call, Calls, Points
    <3> QED
      BY <2>1, <3>1, BeginStays DEF StartTrigger, StartReset, StartJob
  <2>2. ASSUME NEW t \in Threads, Exists(t) PROVE TypeOK'
    <3>1. call' \in [Threads -> Call]
      BY <2>2, EndStays, GoToStays DEF Exists, Points
    <3> QED
      BY <2>2, <3>1 DEF Exists, TypeOK, files, outside, Call
  <2>3. ASSUME NEW t \in Threads, Read(t) \/ LookAgain(t) PROVE TypeOK'
    <3>1. call' \in [Threads -> Call]
      BY <2>3, EndStays, GoToStays DEF Read, LookAgain, Points
    <3> QED
      BY <2>3, <3>1 DEF Read, LookAgain, TypeOK, files, outside, Call
  <2>4. ASSUME NEW t \in Threads, Unlink(t) PROVE TypeOK'
    <3>1. call' \in [Threads -> Call]
      BY <2>4, EndStays DEF Unlink
    <3>2. content' \in [Inodes -> Contents]
      BY <2>4, ForgetKeepsContents DEF Unlink, TypeOK
    <3> QED
      BY <2>4, <3>1, <3>2 DEF Unlink, TypeOK, outside, Call
  <2>5. ASSUME NEW t \in Threads, FinishBody(t) PROVE TypeOK'
    <3>1. [Idle EXCEPT !.of = "checks", !.at = "exists",
                       !.losing = facts.losing, !.prices = facts.prices] \in Call
      BY IdleIsACall DEF TypeOK, Facts, Call, Calls, Points
    <3>2. call' \in [Threads -> Call]
      BY <2>5, <3>1, EndStays, CallStays DEF FinishBody
    <3> QED
      BY <2>5, <3>2 DEF FinishBody, TypeOK, files, outside, Call
  <2>6. ASSUME NEW t \in Threads, CheckLosses(t) \/ CheckStaleness(t) \/ ChecksPass(t)
        PROVE  TypeOK'
    <3>0. call \in [Threads -> Call]
      BY DEF TypeOK, Call
    <3>1. ASSUME NEW r \in Reasons, call' = [call EXCEPT ![t].at = "open", ![t].reason = r]
          PROVE  call' \in [Threads -> Call]
      <4>1. [call[t] EXCEPT !.at = "open", !.reason = r] \in Call
        BY <3>0 DEF Call, Points
      <4>2. call' = [call EXCEPT ![t] = [call[t] EXCEPT !.at = "open", !.reason = r]]
        BY <3>0, <3>1
      <4> QED
        BY <3>0, <4>1, <4>2
    <3>2. call' \in [Threads -> Call]
      BY <2>6, <3>1, EndStays DEF CheckLosses, CheckStaleness, ChecksPass, Reasons
    <3> QED
      BY <2>6, <3>2 DEF CheckLosses, CheckStaleness, ChecksPass, TypeOK, files, outside, Call
  <2>7. ASSUME NEW t \in Threads, Open(t) PROVE TypeOK'
    <3>0. call \in [Threads -> Call]
      BY DEF TypeOK, Call
    <3>1. PICK i \in IF tmp = NoInode THEN Free ELSE {tmp} :
            /\ tmp' = i
            /\ content' = [content EXCEPT ![i] = "empty"]
            /\ call' = [call EXCEPT ![t].at = "write", ![t].fd = i]
      BY <2>7 DEF Open
    <3>2. i \in Inodes /\ i # state
      BY <3>1 DEF TypeOK, Free
    <3>3. [call[t] EXCEPT !.at = "write", !.fd = i] \in Call
      BY <3>0, <3>2 DEF Call, Points
    <3>4. call' = [call EXCEPT ![t] = [call[t] EXCEPT !.at = "write", !.fd = i]]
      BY <3>0, <3>1
    <3>5. call' \in [Threads -> Call]
      BY <3>0, <3>3, <3>4
    <3>6. content' \in [Inodes -> Contents]
      BY <3>1 DEF TypeOK, Contents
    <3> QED
      BY <2>7, <3>1, <3>2, <3>5, <3>6 DEF Open, TypeOK, outside, Call
  <2>8. ASSUME NEW t \in Threads, Write(t) PROVE TypeOK'
    <3>0. call \in [Threads -> Call]
      BY DEF TypeOK, Call
    <3>1. [call[t] EXCEPT !.at = "replace", !.fd = NoInode] \in Call
      BY <3>0 DEF Call, Points
    <3>2. call' = [call EXCEPT ![t] = [call[t] EXCEPT !.at = "replace", !.fd = NoInode]]
      BY <2>8, <3>0 DEF Write
    <3>3. call' \in [Threads -> Call]
      BY <3>0, <3>1, <3>2
    <3>4. call[t].reason \in Contents
      BY <3>0 DEF Call, Contents
    <3>5. content' \in [Inodes -> Contents]
      BY <2>8, <3>4 DEF Write, TypeOK, Contents
    <3> QED
      BY <2>8, <3>3, <3>5 DEF Write, TypeOK, outside, Call
  <2>9. ASSUME NEW t \in Threads, Replace(t) PROVE TypeOK'
    <3>1. call' \in [Threads -> Call]
      BY <2>9, EndStays DEF Replace
    <3>2. content' \in [Inodes -> Contents]
      BY <2>9, ForgetKeepsContents DEF Replace, TypeOK
    <3> QED
      BY <2>9, <3>1, <3>2 DEF Replace, Replaced, TypeOK, outside, Call
  <2>10. ASSUME NEW t \in Threads, FailLook(t) \/ FailWrite(t) \/ FailBody(t)
         PROVE  TypeOK'
    <3>1. call' \in [Threads -> Call]
      BY <2>10, EndStays, GoToStays DEF FailLook, FailWrite, FailBody, Points
    <3> QED
      BY <2>10, <3>1 DEF FailLook, FailWrite, FailBody, Fault, TypeOK, files, Call
  <2>11. ASSUME NEW P \in {Api, Jobs}, Crash(P) PROVE TypeOK'
    <3>1. call' \in [Threads -> Call]
      BY <2>11, IdleIsACall DEF Crash, TypeOK, Call
    <3> QED
      BY <2>11, <3>1 DEF Crash, Fault, TypeOK, files, Call
  <2>12. CASE World
    BY <2>12 DEF World, TypeOK, files
  <2>13. CASE UNCHANGED vars
    BY <2>13 DEF vars, TypeOK
  <2> QED
    BY <2>1, <2>2, <2>3, <2>4, <2>5, <2>6, <2>7, <2>8, <2>9, <2>10, <2>11, <2>12, <2>13
    DEF Next, Step
<1> QED
  BY <1>1, <1>2, PTL DEF Spec

-----------------------------------------------------------------------------
(* Who does what: only a reset unlinks, only the API resets, only a job    *)
(* guards and checks.                                                      *)
Roles ==
  \A t \in Threads :
    /\ call[t].of = "reset" => t \in Api
    /\ call[t].at = "unlink" => call[t].of = "reset"

(* A trigger under way has its text under the temporary name; if not,      *)
(* another writer has renamed it, and the switch is tripped or was reset   *)
(* since.                                                                  *)
PendingIsNamed ==
  \A t \in Threads :
    call[t].at \in {"write", "replace"} => tmp # NoInode \/ Tripped \/ t \in cleared

SwitchInv == TypeOK /\ Roles /\ PendingIsNamed

(* What going on, and ending, does to the calls.                           *)
LEMMA GoToEffect ==
  ASSUME call \in [Threads -> Call], NEW t \in Threads, NEW p, GoTo(t, p)
  PROVE  /\ call'[t].at = p /\ call'[t].of = call[t].of
         /\ \A u \in Threads : u # t => call'[u] = call[u]
BY DEF GoTo, Call

LEMMA EndEffect ==
  ASSUME call \in [Threads -> Call], NEW t \in Threads, End(t)
  PROVE  /\ call'[t] = Idle /\ Idle.at = "idle" /\ Idle.of = "none"
         /\ \A u \in Threads : u # t => call'[u] = call[u]
BY DEF End, Idle

\* Every step but the three that touch the names leaves them alone, and it
\* takes no thread into a write.
LEMMA QuietSteps ==
  ASSUME SwitchInv, NEW t \in Threads,
         \/ Exists(t) \/ Read(t) \/ LookAgain(t) \/ FinishBody(t)
         \/ CheckLosses(t) \/ CheckStaleness(t) \/ ChecksPass(t)
         \/ FailLook(t) \/ FailWrite(t) \/ FailBody(t)
  PROVE  /\ UNCHANGED <<state, tmp, cleared>>
         /\ \A u \in Threads :
              /\ call'[u].at \in {"write", "replace"} => call'[u] = call[u]
              /\ call'[u].of = "reset" => call[u].of = "reset"
              /\ call'[u].at = "unlink" => call'[u].of = "reset"
<1>1. call \in [Threads -> Call]
  BY DEF SwitchInv, TypeOK, Call
<1>2. UNCHANGED <<state, tmp, cleared>>
  BY DEF Exists, Read, LookAgain, FinishBody, CheckLosses, CheckStaleness, ChecksPass,
         FailLook, FailWrite, FailBody, files
<1>3. ASSUME NEW u \in Threads, u # t PROVE call'[u] = call[u]
  BY <1>1, <1>3 DEF Exists, Read, LookAgain, FinishBody, CheckLosses, CheckStaleness,
                    ChecksPass, FailLook, FailWrite, FailBody, GoTo, End
<1>4. /\ call'[t].at \notin {"write", "replace"}
      /\ call'[t].of = "reset" => call[t].of = "reset"
      /\ call'[t].at = "unlink" => call'[t].of = "reset"
  <2>1. CASE Exists(t)
    BY <1>1, <2>1, GoToEffect, EndEffect DEF Exists
  <2>2. CASE Read(t) \/ LookAgain(t) \/ FailLook(t)
    BY <1>1, <2>2, GoToEffect, EndEffect DEF Read, LookAgain, FailLook
  <2>3. CASE FinishBody(t)
    <3>1. CASE End(t)
      BY <1>1, <3>1, EndEffect
    <3>2. CASE ~End(t)
      <4>1. call'[t] = [Idle EXCEPT !.of = "checks", !.at = "exists",
                            !.losing = facts.losing, !.prices = facts.prices]
        BY <1>1, <2>3, <3>2 DEF FinishBody
      <4> QED
        BY <4>1 DEF Idle
    <3> QED
      BY <3>1, <3>2
  <2>4. CASE CheckLosses(t) \/ CheckStaleness(t)
    <3>1. PICK r : call' = [call EXCEPT ![t].at = "open", ![t].reason = r]
      BY <2>4 DEF CheckLosses, CheckStaleness
    <3>2. call'[t] = [call[t] EXCEPT !.at = "open", !.reason = r]
      BY <1>1, <3>1
    <3>3. call'[t].at = "open" /\ call'[t].of = call[t].of
      BY <1>1, <3>2 DEF Call
    <3> QED
      BY <3>3
  <2>5. CASE ChecksPass(t) \/ FailWrite(t) \/ FailBody(t)
    BY <1>1, <2>5, EndEffect DEF ChecksPass, FailWrite, FailBody
  <2> QED
    BY <2>1, <2>2, <2>3, <2>4, <2>5
<1>5. ASSUME NEW u \in Threads
      PROVE  /\ call'[u].at \in {"write", "replace"} => call'[u] = call[u]
             /\ call'[u].of = "reset" => call[u].of = "reset"
             /\ call'[u].at = "unlink" => call'[u].of = "reset"
  <2>1. CASE u = t
    BY <1>4, <2>1
  <2>2. CASE u # t
    BY <1>3, <2>2 DEF SwitchInv, Roles
  <2> QED
    BY <2>1, <2>2
<1> QED
  BY <1>2, <1>5

(* The invariant the properties follow from, whatever interleaves, dies or *)
(* fails.                                                                  *)
THEOREM SwitchInvariant == Spec => []SwitchInv
<1>1. Init => Roles /\ PendingIsNamed
  BY DEF Init, Roles, PendingIsNamed, Idle
<1>2. SwitchInv /\ [Next]_vars => Roles' /\ PendingIsNamed'
  <2> SUFFICES ASSUME SwitchInv, [Next]_vars
               PROVE  Roles' /\ PendingIsNamed'
    OBVIOUS
  <2>0. call \in [Threads -> Call]
    BY DEF SwitchInv, TypeOK, Call
  <2>1. ASSUME NEW t \in Threads, StartTrigger(t) \/ StartReset(t) \/ StartJob(t)
        PROVE  Roles' /\ PendingIsNamed'
    <3>1. UNCHANGED <<state, tmp>> /\ cleared' = cleared \ {t}
      BY <2>1 DEF StartTrigger, StartReset, StartJob, Begin, files
    <3>2. ASSUME NEW u \in Threads, u # t PROVE call'[u] = call[u]
      BY <2>0, <2>1, <3>2 DEF StartTrigger, StartReset, StartJob, Begin
    <3>3. /\ call'[t].at \in {"open", "exists"}
          /\ call'[t].of = "reset" => t \in Api
      BY <2>0, <2>1 DEF StartTrigger, StartReset, StartJob, Begin, Idle
    <3> QED
      BY <3>1, <3>2, <3>3 DEF SwitchInv, Roles, PendingIsNamed, Tripped
  <2>2. ASSUME NEW t \in Threads,
               \/ Exists(t) \/ Read(t) \/ LookAgain(t) \/ FinishBody(t)
               \/ CheckLosses(t) \/ CheckStaleness(t) \/ ChecksPass(t)
               \/ FailLook(t) \/ FailWrite(t) \/ FailBody(t)
        PROVE  Roles' /\ PendingIsNamed'
    BY <2>2, QuietSteps DEF SwitchInv, Roles, PendingIsNamed, Tripped
  <2>3. ASSUME NEW t \in Threads, Unlink(t) PROVE Roles' /\ PendingIsNamed'
    <3>1. /\ state' = NoInode /\ tmp' = tmp
          /\ cleared' = IF Tripped THEN cleared \cup {u \in Threads : Busy(u)} ELSE cleared
      BY <2>3 DEF Unlink
    <3>2. /\ call'[t] = Idle
          /\ \A u \in Threads : u # t => call'[u] = call[u]
      BY <2>0, <2>3 DEF Unlink, End
    <3>3. Roles'
      BY <3>2 DEF SwitchInv, Roles, Idle
    <3>4. ASSUME NEW u \in Threads, call'[u].at \in {"write", "replace"}
          PROVE  tmp' # NoInode \/ u \in cleared'
      <4>1. u # t /\ call[u].at \in {"write", "replace"}
        BY <3>2, <3>4 DEF Idle
      <4> QED
        BY <3>1, <4>1 DEF SwitchInv, PendingIsNamed, Busy
    <3> QED
      BY <3>3, <3>4 DEF PendingIsNamed
  <2>4. ASSUME NEW t \in Threads, Open(t) PROVE Roles' /\ PendingIsNamed'
    <3>1. PICK i \in IF tmp = NoInode THEN Free ELSE {tmp} :
            tmp' = i /\ call' = [call EXCEPT ![t].at = "write", ![t].fd = i]
      BY <2>4 DEF Open
    <3>2. tmp' # NoInode
      BY <3>1, InodesAssumption DEF Free
    <3>3. Roles'
      BY <2>0, <3>1 DEF SwitchInv, Roles, Call
    <3> QED
      BY <3>2, <3>3 DEF PendingIsNamed
  <2>5. ASSUME NEW t \in Threads, Write(t) PROVE Roles' /\ PendingIsNamed'
    <3>1. /\ UNCHANGED <<state, tmp, cleared>>
          /\ call[t].at = "write"
          /\ call' = [call EXCEPT ![t].at = "replace", ![t].fd = NoInode]
      BY <2>5 DEF Write
    <3> QED
      BY <2>0, <3>1 DEF SwitchInv, Roles, PendingIsNamed, Tripped, Call
  <2>6. ASSUME NEW t \in Threads, Replace(t) PROVE Roles' /\ PendingIsNamed'
    <3>1. /\ call[t].at = "replace" /\ cleared' = cleared
          /\ state' = IF tmp = NoInode THEN state ELSE tmp
      BY <2>6 DEF Replace, Replaced
    <3>2. /\ call'[t] = Idle
          /\ \A u \in Threads : u # t => call'[u] = call[u]
      BY <2>0, <2>6 DEF Replace, End
    <3> QED
      BY <3>1, <3>2 DEF SwitchInv, Roles, PendingIsNamed, Tripped, Idle
  <2>7. ASSUME NEW P \in {Api, Jobs}, Crash(P) PROVE Roles' /\ PendingIsNamed'
    BY <2>0, <2>7 DEF Crash, SwitchInv, Roles, PendingIsNamed, Tripped, Idle, files
  <2>8. CASE World
    BY <2>8 DEF World, SwitchInv, Roles, PendingIsNamed, Tripped, files
  <2>9. CASE UNCHANGED vars
    BY <2>9 DEF vars, SwitchInv, Roles, PendingIsNamed, Tripped
  <2> QED
    BY <2>1, <2>2, <2>3, <2>4, <2>5, <2>6, <2>7, <2>8, <2>9 DEF Next, Step
<1> QED
  BY <1>1, <1>2, TypeCorrect, PTL DEF Spec, SwitchInv

-----------------------------------------------------------------------------
(* A step that takes the tripped switch back is the unlink of some thread. *)
LEMMA OnlyUnlinkClears ==
  ASSUME SwitchInv, [Next]_vars, Tripped, ~Tripped'
  PROVE  \E t \in Threads : Unlink(t)
<1>1. ASSUME NEW t \in Threads, Replace(t) PROVE FALSE
  BY <1>1, InodesAssumption DEF Replace, Replaced, Tripped
<1>2. ASSUME state' = state PROVE FALSE
  BY <1>2 DEF Tripped
<1>3. ASSUME NEW t \in Threads, Open(t) \/ Write(t) PROVE FALSE
  BY <1>2, <1>3 DEF Open, Write
<1>4. ASSUME NEW t \in Threads, StartTrigger(t) \/ StartReset(t) \/ StartJob(t)
      PROVE  FALSE
  BY <1>2, <1>4 DEF StartTrigger, StartReset, StartJob, Begin, files
<1>5. ASSUME NEW t \in Threads,
             \/ Exists(t) \/ Read(t) \/ LookAgain(t) \/ FinishBody(t)
             \/ CheckLosses(t) \/ CheckStaleness(t) \/ ChecksPass(t)
             \/ FailLook(t) \/ FailWrite(t) \/ FailBody(t)
      PROVE  FALSE
  BY <1>2, <1>5, QuietSteps
<1>6. ASSUME Crash(Api) \/ Crash(Jobs) \/ World \/ UNCHANGED vars PROVE FALSE
  BY <1>2, <1>6 DEF Crash, World, files, vars
<1> QED
  BY <1>1, <1>3, <1>4, <1>5, <1>6 DEF Next, Step

(* No race for the temporary file, no fault and no check takes a tripped   *)
(* switch back: only a user's reset does (OnlyAResetClears).               *)
THEOREM ResetOnly == Spec => OnlyAResetClears
<1>1. SwitchInv /\ [Next]_vars =>
        [Tripped /\ ~Tripped' =>
           \E t \in Api : call[t].of = "reset" /\ call[t].at = "unlink" /\ ~Busy(t)']_vars
  <2> SUFFICES ASSUME SwitchInv, [Next]_vars, Tripped, ~Tripped'
               PROVE  \E t \in Api :
                        call[t].of = "reset" /\ call[t].at = "unlink" /\ ~Busy(t)'
    OBVIOUS
  <2>1. PICK t \in Threads : Unlink(t)
    BY OnlyUnlinkClears
  <2>2. call[t].at = "unlink" /\ call[t].of = "reset" /\ t \in Api
    BY <2>1 DEF Unlink, SwitchInv, Roles
  <2>3. call'[t] = Idle
    BY <2>1 DEF Unlink, End, SwitchInv, TypeOK
  <2> QED
    BY <2>2, <2>3 DEF Busy, Idle
<1> QED
  BY <1>1, SwitchInvariant, PTL DEF Spec, OnlyAResetClears

(* A trigger that reaches its rename leaves the switch tripped, even when  *)
(* the rename raises because another writer took the file, unless the user *)
(* has reset since (TriggerTakesEffect).                                   *)
THEOREM TriggersHold == Spec => TriggerTakesEffect
<1>1. SwitchInv /\ [Next]_vars =>
        [\A t \in Threads :
           call[t].at = "replace" /\ Replace(t) => Tripped' \/ t \in cleared]_vars
  <2> SUFFICES ASSUME SwitchInv, NEW t \in Threads, call[t].at = "replace", Replace(t)
               PROVE  Tripped' \/ t \in cleared
    OBVIOUS
  <2> QED
    BY DEF SwitchInv, PendingIsNamed, Replace, Replaced, Tripped
<1> QED
  BY <1>1, SwitchInvariant, PTL DEF Spec, TriggerTakesEffect

(* A job begins its work only if there was no switch file at one moment of *)
(* its guard, or its look for the file failed: a torn, an empty and a      *)
(* vanished file stop it (GuardHolds).                                     *)
THEOREM GuardSound == Spec => GuardHolds
<1>1. SwitchInv /\ [Next]_vars =>
        [\A t \in Jobs :
           (call[t].at # "body" /\ call[t].at' = "body") => ~Tripped \/ FailLook(t)]_vars
  <2> SUFFICES ASSUME SwitchInv, [Next]_vars, NEW t \in Jobs,
                      call[t].at # "body", call'[t].at = "body"
               PROVE  ~Tripped \/ FailLook(t)
    OBVIOUS
  <2>0. call \in [Threads -> Call] /\ t \in Threads
    BY DEF SwitchInv, TypeOK, Call, Threads
  <2>1. ASSUME NEW u \in Threads, Exists(u) PROVE ~Tripped
    <3>1. CASE u = t
      BY <2>0, <2>1, <3>1, GoToEffect, EndEffect DEF Exists, Tripped
    <3>2. CASE u # t
      BY <2>0, <2>1, <3>2, GoToEffect, EndEffect DEF Exists
    <3> QED
      BY <3>1, <3>2
  <2>2. ASSUME NEW u \in Threads, Read(u) PROVE FALSE
    <3>1. state # NoInode => LooksActive(content[state])
      BY DEF SwitchInv, TypeOK, LooksActive
    <3>2. GoTo(u, "again") \/ End(u)
      BY <2>2, <3>1 DEF Read
    <3> QED
      BY <2>0, <3>2, GoToEffect, EndEffect
  <2>3. ASSUME NEW u \in Threads,
               \/ LookAgain(u) \/ Unlink(u) \/ ChecksPass(u) \/ Replace(u)
               \/ FailWrite(u) \/ FailBody(u)
        PROVE  FALSE
    BY <2>0, <2>3, EndEffect
    DEF LookAgain, Unlink, ChecksPass, Replace, FailWrite, FailBody
  <2>10. ASSUME NEW u \in Threads, FailLook(u) PROVE FailLook(t)
    BY <2>0, <2>10, GoToEffect, EndEffect DEF FailLook
  <2>6. ASSUME NEW u \in Threads, StartTrigger(u) \/ StartReset(u) \/ StartJob(u)
        PROVE  FALSE
    <3>1. PICK c \in {"open", "exists"} :
            call' = [call EXCEPT ![u] = call'[u]] /\ call'[u].at = c
      BY <2>0, <2>6 DEF StartTrigger, StartReset, StartJob, Begin, Idle
    <3> QED
      BY <2>0, <3>1
  <2>7. ASSUME NEW u \in Threads, FinishBody(u) PROVE FALSE
    <3>1. CASE End(u)
      BY <2>0, <3>1, EndEffect
    <3>2. CASE ~End(u)
      <4>1. call' = [call EXCEPT ![u] =
               [Idle EXCEPT !.of = "checks", !.at = "exists",
                            !.losing = facts.losing, !.prices = facts.prices]]
        BY <2>7, <3>2 DEF FinishBody
      <4> QED
        BY <2>0, <4>1 DEF Idle
    <3> QED
      BY <3>1, <3>2
  <2>8. ASSUME NEW u \in Threads, CheckLosses(u) \/ CheckStaleness(u) PROVE FALSE
    <3>1. PICK r : call' = [call EXCEPT ![u].at = "open", ![u].reason = r]
      BY <2>8 DEF CheckLosses, CheckStaleness
    <3> QED
      BY <2>0, <3>1 DEF Call
  <2>9. ASSUME NEW u \in Threads, Write(u) PROVE FALSE
    BY <2>0, <2>9 DEF Write, Call
  <2>4. ASSUME NEW u \in Threads, Open(u) PROVE FALSE
    <3>1. PICK i : call' = [call EXCEPT ![u].at = "write", ![u].fd = i]
      BY <2>4 DEF Open
    <3> QED
      BY <2>0, <3>1 DEF Call
  <2>5. ASSUME Crash(Api) \/ Crash(Jobs) \/ World \/ UNCHANGED vars PROVE FALSE
    BY <2>0, <2>5 DEF Crash, World, vars, Idle
  <2> QED
    BY <2>1, <2>2, <2>3, <2>4, <2>5, <2>6, <2>7, <2>8, <2>9, <2>10
    DEF Next, Step
<1> QED
  BY <1>1, SwitchInvariant, PTL DEF Spec, GuardHolds
=============================================================================
