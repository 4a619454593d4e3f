---------------------------- MODULE TrustLedger ----------------------------
(***************************************************************************)
(* What the promotion loop promises its reviewer: each lesson gets at most *)
(* one verdict, the verdict and the trust of the memory it stands for      *)
(* change together, and a refuted memory never becomes trusted again.      *)
(***************************************************************************)
EXTENDS Naturals, Sequences

CONSTANTS Keys, NoCase, NoRef, MaxCandidates

VARIABLES
  lessons,   \* submitted lessons: their key and their verdict
  trusted,   \* source refs whose memory is trusted
  refuted    \* source refs whose memory is refuted

ledgerVars == <<lessons, trusted, refuted>>

MemoryOf(l, op) ==
  IF lessons[l].ref # NoRef THEN <<"ref", lessons[l].ref>> ELSE <<op, l>>

LedgerInit == lessons = << >> /\ trusted = {} /\ refuted = {}

Submit(key) ==
  /\ Len(lessons) < MaxCandidates
  /\ key # <<NoCase, NoRef>> =>
       \A l \in 1..Len(lessons) :
         lessons[l].trust = "pending" =>
           <<lessons[l].case, lessons[l].ref>> # key
  /\ lessons' = Append(lessons, [case |-> key[1], ref |-> key[2],
                                 trust |-> "pending"])
  /\ UNCHANGED <<trusted, refuted>>

Verdict(l, op, verdict) ==
  /\ lessons[l].trust = "pending"
  /\ MemoryOf(l, op) \notin trusted \cup refuted
  /\ lessons' = [lessons EXCEPT ![l].trust = verdict]

Promote(l) ==
  /\ Verdict(l, "promote", "trusted")
  /\ trusted' = trusted \cup {MemoryOf(l, "promote")}
  /\ UNCHANGED refuted

Reject(l) ==
  /\ Verdict(l, "reject", "rejected")
  /\ refuted' = refuted \cup {MemoryOf(l, "reject")}
  /\ UNCHANGED trusted

Overrule(ref) ==
  /\ trusted' = trusted \ {ref}
  /\ refuted' = refuted \cup {ref}
  /\ UNCHANGED lessons

LedgerNext ==
  \/ \E key \in Keys : Submit(key)
  \/ \E l \in 1..Len(lessons) : Promote(l) \/ Reject(l)
  \/ \E ref \in trusted : Overrule(ref)

LedgerSpec == LedgerInit /\ [][LedgerNext]_ledgerVars
=============================================================================
