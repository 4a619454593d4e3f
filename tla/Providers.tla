------------------------------ MODULE Providers ------------------------------
(***************************************************************************)
(* data/providers.py: the registry of market data providers.  A caller     *)
(* asks the providers of its market one after the other, in the order of   *)
(* their priority, and passes over those that are observed only or cooling *)
(* after a failure.  The health of a provider is shared by all callers: a  *)
(* failure for one stock cools the provider for every other.               *)
(*                                                                         *)
(* Daily and index registries have the same code; this is one of the two.  *)
(* time() is abstract: the end of a cooldown is in the future or past.     *)
(***************************************************************************)
EXTENDS Naturals, Sequences

CONSTANTS
  Callers,      \* jobs and requests that fetch, each for stocks of one market
  MarketOf,     \* the market of a caller
  Chain,        \* the registered providers, in the order of their priority
  MarketsOf,    \* the markets a provider covers
  ObserveOnly,  \* providers that are listed and never asked
  Uncooled      \* providers registered without a cooldown

VARIABLES
  answers,  \* is the remote side of a provider able to answer
  cooldown, \* cooldown_until: "none", in the "future" or "past"
  call      \* the call of each caller

ProviderVars == <<answers, cooldown, call>>

Names == {Chain[i] : i \in DOMAIN Chain}
Covers(p, c) == MarketOf[c] \in MarketsOf[p]

\* `at' is the position in the chain; `good' is the answer under way.
NoCall == [pc |-> "idle", at |-> 1, good |-> FALSE]

ProvidersInit ==
  /\ answers \in [Names -> BOOLEAN]
  /\ cooldown = [p \in Names |-> "none"]
  /\ call = [c \in Callers |-> NoCall]

-----------------------------------------------------------------------------
(* fetch_daily_with_fallback.                                              *)
StartCall(c) ==
  /\ call[c].pc # "asking" /\ call[c].pc # "choosing"
  /\ call' = [call EXCEPT ![c] = [NoCall EXCEPT !.pc = "choosing"]]
  /\ UNCHANGED <<answers, cooldown>>

\* _provider_in_cooldown.
\* Variant for mutation: a cooldown that has ended still counts.
Cooling_ForEver(p) == cooldown[p] # "none"
Cooling(p) == cooldown[p] = "future"

Candidate(c) == Chain[call[c].at]
Choosing(c) == call[c].pc = "choosing" /\ call[c].at \in DOMAIN Chain

PassOver(c) ==
  /\ Choosing(c)
  /\ \/ ~Covers(Candidate(c), c)
     \/ Candidate(c) \in ObserveOnly
     \/ Cooling(Candidate(c))
  /\ call' = [call EXCEPT ![c].at = @ + 1]
  /\ UNCHANGED <<answers, cooldown>>

\* The cooldown that has ended is cleared before the provider is asked; its
\* answer is known later, when its health may have changed.
AskProvider(c) ==
  /\ Choosing(c)
  /\ LET p == Candidate(c) IN
       /\ Covers(p, c) /\ p \notin ObserveOnly /\ ~Cooling(p)
       /\ cooldown' = [cooldown EXCEPT ![p] = "none"]
       /\ call' = [call EXCEPT ![c].pc = "asking", ![c].good = answers[p]]
  /\ UNCHANGED answers

\* _record_provider_success.
TakeAnswer(c) ==
  /\ call[c].pc = "asking" /\ call[c].good
  /\ cooldown' = [cooldown EXCEPT ![Candidate(c)] = "none"]
  /\ call' = [call EXCEPT ![c].pc = "served"]
  /\ UNCHANGED answers

\* _record_provider_failure: no data or an exception.
Fail(c) ==
  /\ call[c].pc = "asking" /\ ~call[c].good
  /\ cooldown' = [cooldown EXCEPT ![Candidate(c)] =
                    IF Candidate(c) \in Uncooled THEN @ ELSE "future"]
  /\ call' = [call EXCEPT ![c].pc = "choosing", ![c].at = @ + 1]
  /\ UNCHANGED answers

\* RuntimeError: no provider is left.
Raise(c) ==
  /\ call[c].pc = "choosing" /\ call[c].at \notin DOMAIN Chain
  /\ call' = [call EXCEPT ![c].pc = "raised"]
  /\ UNCHANGED <<answers, cooldown>>

-----------------------------------------------------------------------------
(* The world: remote services that fail and recover, and time.             *)
GoOrComeBack(p) ==
  /\ answers' = [answers EXCEPT ![p] = ~@]
  /\ UNCHANGED <<cooldown, call>>

CooldownEnds(p) ==
  /\ cooldown[p] = "future"
  /\ cooldown' = [cooldown EXCEPT ![p] = "past"]
  /\ UNCHANGED <<answers, call>>

CallStep(c) == PassOver(c) \/ AskProvider(c) \/ TakeAnswer(c) \/ Fail(c) \/ Raise(c)

ProvidersNext ==
  \/ \E c \in Callers : StartCall(c) \/ CallStep(c)
  \/ \E p \in Names : GoOrComeBack(p) \/ CooldownEnds(p)

\* A job fetches every day, a call comes to its end (each fetch has a timeout)
\* and time passes.
ProvidersFairness ==
  /\ \A c \in Callers : WF_ProviderVars(StartCall(c)) /\ WF_ProviderVars(CallStep(c))
  /\ \A p \in Names : WF_ProviderVars(CooldownEnds(p))

ProvidersSpec == ProvidersInit /\ [][ProvidersNext]_ProviderVars /\ ProvidersFairness

-----------------------------------------------------------------------------
ProvidersTypeOK ==
  /\ answers \in [Names -> BOOLEAN]
  /\ cooldown \in [Names -> {"none", "future", "past"}]
  /\ call \in [Callers -> [pc : {"idle", "choosing", "asking", "served", "raised"},
                           at : 1 .. Len(Chain) + 1, good : BOOLEAN]]

(* A provider that is back for good serves again: a caller of a market it  *)
(* covers is served again and again, by it or by a better one, whatever    *)
(* failures of other callers are still being recorded against it.          *)
RecoveredProviderServes ==
  \A c \in Callers, p \in Names \ ObserveOnly :
    Covers(p, c) /\ <>[]answers[p] => []<>(call[c].pc = "served")
=============================================================================
