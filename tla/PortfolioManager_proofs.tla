----------------------- MODULE PortfolioManager_proofs -----------------------
(***************************************************************************)
(* Theorems about PortfolioManager, for any finite batch, any weights and  *)
(* any limits: the facts about one stock, about one step, and about what   *)
(* the targets of the batch and of each sector add up to.                  *)
(***************************************************************************)
EXTENDS PortfolioManager, NumberLemmas

USE DEF Recommendations

(* A weight the loops give to a stock, and the bounds it keeps.            *)
LEMMA WantedBounds ==
  ASSUME TypeOK, NEW s \in Stocks
  PROVE  /\ Wanted(s) \in Nat
         /\ Wanted(s) <= MaxStock
         /\ Wanted(s) >= Least(MaxStock, candidate[s].current)
<1> DEFINE cur == candidate[s].current
           sug == candidate[s].suggested
<1>1. cur \in Nat /\ sug \in Nat /\ candidate[s].sector \in Sectors
  BY WeightsAssumption DEF TypeOK, PortfolioCandidate
<1>2. SectorRemaining(s) \in Nat
  BY <1>1, LimitsAssumption DEF TypeOK, SectorRemaining, Greatest
<1>3. TotalRemaining \in Nat
  BY LimitsAssumption DEF TypeOK, TotalRemaining, Greatest
<1> DEFINE asked == Least(Least(sug, MaxStock),
                          Least(SectorRemaining(s), TotalRemaining))
<1>4. asked \in Nat /\ asked <= MaxStock
  BY <1>1, <1>2, <1>3, LimitsAssumption DEF Least
<1>5. Wanted(s) = IF Held(s) THEN Least(Greatest(asked, cur), MaxStock) ELSE asked
  BY DEF Wanted
<1>6. CASE Held(s)
  <2>1. Wanted(s) = Least(Greatest(asked, cur), MaxStock)
    BY <1>5, <1>6
  <2> HIDE DEF asked, cur
  <2>2. /\ Wanted(s) \in Nat
        /\ Wanted(s) <= MaxStock
        /\ Wanted(s) >= Least(MaxStock, cur)
    BY <1>1, <1>4, <2>1, LimitsAssumption DEF Least, Greatest
  <2> QED
    BY <2>2 DEF cur
<1>7. CASE ~Held(s)
  <2>1. Wanted(s) = asked
    BY <1>5, <1>7
  <2>2. cur = 0
    BY <1>1, <1>7 DEF Held
  <2>3. candidate[s].current = 0
    BY <2>2
  <2> HIDE DEF asked
  <2> QED
    BY <1>4, <2>1, <2>3, LimitsAssumption DEF Least
<1> QED
  BY <1>6, <1>7

(* The weights stay weights, and the usage counters stay numbers; a        *)
(* sector's usage never falls below zero, whatever is released.            *)
THEOREM TypeCorrect == Spec => []TypeOK
<1>1. Init => TypeOK
  <2> SUFFICES ASSUME Init PROVE TypeOK
    OBVIOUS
  <2>1. \A s \in Stocks : candidate[s].current \in Nat
    BY WeightsAssumption DEF Init, PortfolioCandidate
  <2> QED
    BY <2>1 DEF Init, TypeOK
<1>2. TypeOK /\ [Next]_vars => TypeOK'
  <2> SUFFICES ASSUME TypeOK, [Next]_vars PROVE TypeOK'
    OBVIOUS
  <2>0. \A s \in Stocks : /\ candidate[s].current \in Nat
                          /\ candidate[s].suggested \in Nat
                          /\ candidate[s].sector \in Sectors
    BY WeightsAssumption DEF TypeOK, PortfolioCandidate
  <2>1. CASE PassThrough
    BY <2>1, <2>0 DEF PassThrough, TypeOK, batch
  <2>2. ASSUME NEW s \in Stocks, Count(s) PROVE TypeOK'
    <3>1. (IF Counts(s) THEN candidate[s].current ELSE 0) \in Nat
      BY <2>0
    <3> QED
      BY <2>2, <2>0, <3>1 DEF Count, Use, Greatest, TypeOK, batch
  <2>3. ASSUME NEW s \in Stocks, CloseExit(s) PROVE TypeOK'
    <3>1. -candidate[s].current \in Int
      BY <2>0
    <3> QED
      BY <2>3, <2>0, <3>1 DEF CloseExit, Use, Greatest, TypeOK, batch
  <2>4. ASSUME NEW s \in Stocks, Hold(s) \/ RefuseFrozen(s) \/ RefuseSmall(s)
        PROVE  TypeOK'
    BY <2>4 DEF Hold, RefuseFrozen, RefuseSmall, LeaveAsIs, TypeOK, batch
  <2>5. ASSUME NEW s \in Stocks, Allocate(s) PROVE TypeOK'
    <3>1. Wanted(s) \in Nat
      BY WantedBounds
    <3>2. Charge(s) \in Int
      BY <2>0, <3>1 DEF Charge
    <3> QED
      BY <2>5, <2>0, <3>1, <3>2 DEF Allocate, Use, Greatest, TypeOK, batch
  <2>6. CASE UNCHANGED vars
    BY <2>6 DEF vars, TypeOK
  <2> QED
    BY <2>1, <2>2, <2>3, <2>4, <2>5, <2>6 DEF Next, Done
<1> QED
  BY <1>1, <1>2, PTL DEF Spec

-----------------------------------------------------------------------------
(* What is not decided is as it was held; what is decided is within the    *)
(* cap.  StockWithinCap speaks of the end of the batch only.               *)
DecidedWithinCap ==
  enabled =>
    \A s \in Stocks :
      IF s \in toDecide
      THEN target[s] = candidate[s].current
      ELSE /\ target[s] <= Greatest(MaxStock, candidate[s].current)
           /\ ~IsExit(s) => target[s] >= Least(MaxStock, candidate[s].current)

(* No order of the batch and no closing of other stocks takes a stock over *)
(* the per-stock limit or sells a holding below it (StockWithinCap).       *)
THEOREM StockCapHolds == Spec => []StockWithinCap
<1>1. Init => DecidedWithinCap
  BY DEF Init, DecidedWithinCap
<1>2. TypeOK /\ DecidedWithinCap /\ [Next]_vars => DecidedWithinCap'
  <2> SUFFICES ASSUME TypeOK, DecidedWithinCap, [Next]_vars
               PROVE  DecidedWithinCap'
    OBVIOUS
  <2>0. \A s \in Stocks : candidate[s].current \in Nat
    BY WeightsAssumption DEF TypeOK, PortfolioCandidate
  <2>1. CASE PassThrough
    BY <2>1 DEF PassThrough, DecidedWithinCap, batch
  <2>2. ASSUME NEW s \in Stocks, Count(s) PROVE DecidedWithinCap'
    BY <2>2 DEF Count, DecidedWithinCap, batch, IsExit
  <2>3. ASSUME NEW s \in Stocks, CloseExit(s) PROVE DecidedWithinCap'
    BY <2>3, <2>0, LimitsAssumption
    DEF CloseExit, DecidedWithinCap, TypeOK, batch, IsExit, Greatest
  <2>4. ASSUME NEW s \in Stocks, Hold(s) \/ RefuseFrozen(s) \/ RefuseSmall(s)
        PROVE  DecidedWithinCap'
    <3>1. /\ target' = target /\ toDecide' = toDecide \ {s}
          /\ s \in toDecide
          /\ UNCHANGED <<candidate, enabled>>
      BY <2>4 DEF Hold, RefuseFrozen, RefuseSmall, NextSurvivor, LeaveAsIs, batch
    <3> SUFFICES ASSUME enabled, NEW x \in Stocks
                 PROVE  IF x \in toDecide'
                        THEN target'[x] = candidate[x].current
                        ELSE /\ target'[x] <= Greatest(MaxStock, candidate[x].current)
                             /\ ~IsExit(x) => target'[x] >= Least(MaxStock, candidate[x].current)
      BY <3>1 DEF DecidedWithinCap, IsExit
    <3>2. CASE x = s
      <4>1. target'[s] = candidate[s].current
        BY <3>1 DEF DecidedWithinCap
      <4> QED
        BY <3>1, <3>2, <4>1, <2>0, LimitsAssumption DEF Greatest, Least
    <3>3. CASE x # s
      BY <3>1, <3>3 DEF DecidedWithinCap
    <3> QED
      BY <3>2, <3>3
  <2>5. ASSUME NEW s \in Stocks, Allocate(s) PROVE DecidedWithinCap'
    <3>1. /\ Wanted(s) \in Nat
          /\ Wanted(s) <= Greatest(MaxStock, candidate[s].current)
          /\ Wanted(s) >= Least(MaxStock, candidate[s].current)
      BY WantedBounds, <2>0, LimitsAssumption DEF Greatest
    <3>2. /\ target' = [target EXCEPT ![s] = Wanted(s)]
          /\ toDecide' = toDecide \ {s}
          /\ UNCHANGED <<candidate, enabled>>
      BY <2>5 DEF Allocate, batch
    <3> SUFFICES ASSUME enabled, NEW x \in Stocks
                 PROVE  IF x \in toDecide'
                        THEN target'[x] = candidate[x].current
                        ELSE /\ target'[x] <= Greatest(MaxStock, candidate[x].current)
                             /\ ~IsExit(x) => target'[x] >= Least(MaxStock, candidate[x].current)
      BY <3>2 DEF DecidedWithinCap, IsExit
    <3>3. CASE x = s
      BY <3>1, <3>2, <3>3 DEF TypeOK
    <3>4. CASE x # s
      BY <3>2, <3>4 DEF DecidedWithinCap, TypeOK
    <3> QED
      BY <3>3, <3>4
  <2>6. CASE UNCHANGED vars
    BY <2>6 DEF vars, DecidedWithinCap, IsExit
  <2> QED
    BY <2>1, <2>2, <2>3, <2>4, <2>5, <2>6 DEF Next, Done
<1>3. DecidedWithinCap => StockWithinCap
  BY DEF DecidedWithinCap, StockWithinCap
<1> QED
  BY <1>1, <1>2, <1>3, TypeCorrect, PTL DEF Spec

-----------------------------------------------------------------------------
(* A survivor is charged less than what the limits leave, or nothing.      *)
LEMMA ChargeFits ==
  ASSUME TypeOK, NEW s \in Stocks
  PROVE  /\ Charge(s) \in Int
         /\ Charge(s) <= 0 \/ Charge(s) <= TotalRemaining
         /\ Charge(s) <= 0 \/ Charge(s) <= SectorRemaining(s)
<1> DEFINE cur == candidate[s].current
           sug == candidate[s].suggested
<1>1. cur \in Nat /\ sug \in Nat /\ candidate[s].sector \in Sectors
  BY WeightsAssumption DEF TypeOK, PortfolioCandidate
<1>2. SectorRemaining(s) \in Nat
  BY <1>1, LimitsAssumption DEF TypeOK, SectorRemaining, Greatest
<1>3. TotalRemaining \in Nat
  BY LimitsAssumption DEF TypeOK, TotalRemaining, Greatest
<1> DEFINE asked == Least(Least(sug, MaxStock),
                          Least(SectorRemaining(s), TotalRemaining))
<1>4. asked \in Nat /\ asked <= SectorRemaining(s) /\ asked <= TotalRemaining
  BY <1>1, <1>2, <1>3, LimitsAssumption DEF Least
<1>5. Wanted(s) = IF Held(s) THEN Least(Greatest(asked, cur), MaxStock) ELSE asked
  BY DEF Wanted
<1>6. Charge(s) = Wanted(s) - cur
  BY DEF Charge
<1> HIDE DEF asked, cur
<1> QED
  BY <1>1, <1>2, <1>3, <1>4, <1>5, <1>6, LimitsAssumption DEF Least, Greatest

(* Once everything held is counted, no step takes the total or a sector    *)
(* over its limit (UsageRisesWithinLimits); what the limits are compared   *)
(* with is the manager's own usage, which releases may have understated.   *)
THEOREM UsageStaysWithin == Spec => UsageRisesWithinLimits
<1> DEFINE Rise == Serving =>
       /\ totalUsed' <= totalUsed \/ totalUsed' <= MaxTotal
       /\ \A k \in Sectors :
            sectorUsed'[k] <= sectorUsed[k] \/ sectorUsed'[k] <= MaxSector
<1>1. TypeOK /\ [Next]_vars => [Rise]_vars
  <2> SUFFICES ASSUME TypeOK, Next, Serving
               PROVE  /\ totalUsed' <= totalUsed \/ totalUsed' <= MaxTotal
                      /\ \A k \in Sectors :
                           sectorUsed'[k] <= sectorUsed[k] \/ sectorUsed'[k] <= MaxSector
    OBVIOUS
  <2>0. \A s \in Stocks : candidate[s].current \in Nat /\ candidate[s].sector \in Sectors
    BY WeightsAssumption DEF TypeOK, PortfolioCandidate
  <2>1. CASE UNCHANGED <<sectorUsed, totalUsed>>
    BY <2>1 DEF TypeOK
  <2>2. ASSUME NEW s \in Stocks, Count(s) PROVE FALSE
    BY <2>2 DEF Count, Serving
  <2>3. ASSUME NEW s \in Stocks, CloseExit(s)
        PROVE  /\ totalUsed' <= totalUsed
               /\ \A k \in Sectors : sectorUsed'[k] <= sectorUsed[k]
    BY <2>3, <2>0 DEF CloseExit, Use, Greatest, TypeOK
  <2>4. ASSUME NEW s \in Stocks, Allocate(s)
        PROVE  /\ totalUsed' <= totalUsed \/ totalUsed' <= MaxTotal
               /\ \A k \in Sectors :
                    sectorUsed'[k] <= sectorUsed[k] \/ sectorUsed'[k] <= MaxSector
    <3>1. /\ totalUsed' = Greatest(0, totalUsed + Charge(s))
          /\ sectorUsed' = [sectorUsed EXCEPT ![candidate[s].sector] =
                                               Greatest(0, @ + Charge(s))]
      BY <2>4 DEF Allocate, Use
    <3>2. /\ Charge(s) \in Int
          /\ Charge(s) <= 0 \/ Charge(s) <= Greatest(0, MaxTotal - totalUsed)
          /\ Charge(s) <= 0 \/ Charge(s) <= Greatest(0, MaxSector - sectorUsed[candidate[s].sector])
      BY ChargeFits DEF TotalRemaining, SectorRemaining
    <3>3. totalUsed' <= totalUsed \/ totalUsed' <= MaxTotal
      BY <3>1, <3>2, LimitsAssumption DEF Greatest, TypeOK
    <3>4. ASSUME NEW k \in Sectors
          PROVE  sectorUsed'[k] <= sectorUsed[k] \/ sectorUsed'[k] <= MaxSector
      <4>1. CASE k = candidate[s].sector
        <5>1. sectorUsed[k] \in Nat /\ sectorUsed'[k] = Greatest(0, sectorUsed[k] + Charge(s))
          BY <4>1, <3>1 DEF TypeOK
        <5> QED
          BY <4>1, <5>1, <3>2, LimitsAssumption DEF Greatest
      <4>2. CASE k # candidate[s].sector
        BY <4>2, <3>1 DEF TypeOK
      <4> QED
        BY <4>1, <4>2
    <3> QED
      BY <3>3, <3>4
  <2>5. ASSUME NEW s \in Stocks, Hold(s) \/ RefuseFrozen(s) \/ RefuseSmall(s)
        PROVE  UNCHANGED <<sectorUsed, totalUsed>>
    BY <2>5 DEF Hold, RefuseFrozen, RefuseSmall, LeaveAsIs
  <2>6. PassThrough \/ Done => UNCHANGED <<sectorUsed, totalUsed>>
    BY DEF PassThrough, Done, vars
  <2> QED
    BY <2>1, <2>2, <2>3, <2>4, <2>5, <2>6 DEF Next
<1> QED
  BY <1>1, TypeCorrect, PTL DEF Spec, UsageRisesWithinLimits

-----------------------------------------------------------------------------
\* The batch cs at the start: what is held and stays, what leaves, and the
\* targets w of what stays.
Kept(cs) == [s \in Stocks |-> IF cs[s].recommendation # "exit" THEN cs[s].current ELSE 0]
Leaving(cs) == [s \in Stocks |-> IF cs[s].recommendation = "exit" THEN cs[s].current ELSE 0]
Staying(cs, w) == [s \in Stocks |-> IF cs[s].recommendation = "exit" THEN 0 ELSE w[s]]
InSector(cs, k) == {s \in Stocks : cs[s].sector = k}

\* A usage counter while the holdings in U are counted, all but the rest,
\* and while they are served: it is behind the targets by at most what is
\* still to be released.
Counted(used, cs, U, rest) == used = SumFunctionOnSet(Kept(cs), U \ rest)
Bounded(used, cs, w, U, rest, limit) ==
  /\ SumFunctionOnSet(Staying(cs, w), U) <= used + SumFunctionOnSet(Leaving(cs), U \ rest)
  /\ SumFunctionOnSet(Staying(cs, w), U) <=
       Greatest(limit + SumFunctionOnSet(Leaving(cs), U), SumFunctionOnSet(Kept(cs), U))

Undecided(cs, w, rest) ==
  \A s \in Stocks : IF s \in rest THEN w[s] = cs[s].current
                    ELSE cs[s].recommendation = "exit" => w[s] = 0

OvershootInv ==
  enabled =>
    /\ Undecided(candidate, target, toDecide)
    /\ toCount # {} =>
         /\ toDecide = Stocks
         /\ Counted(totalUsed, candidate, Stocks, toCount)
         /\ \A k \in Sectors :
              Counted(sectorUsed[k], candidate, InSector(candidate, k), toCount)
    /\ toCount = {} =>
         /\ Bounded(totalUsed, candidate, target, Stocks, toDecide, MaxTotal)
         /\ \A k \in Sectors :
              Bounded(sectorUsed[k], candidate, target, InSector(candidate, k), toDecide, MaxSector)

Batches == [Stocks -> PortfolioCandidate]

LEMMA BatchWeights ==
  ASSUME NEW cs \in Batches, NEW s \in Stocks
  PROVE  /\ cs[s].current \in Nat /\ cs[s].suggested \in Nat /\ cs[s].sector \in Sectors
         /\ Kept(cs)[s] \in Nat /\ Leaving(cs)[s] \in Nat
BY WeightsAssumption DEF Batches, PortfolioCandidate, Kept, Leaving

LEMMA StayingWeights ==
  ASSUME NEW cs \in Batches, NEW w \in [Stocks -> Nat], NEW s \in Stocks
  PROVE  /\ Staying(cs, w)[s] \in Nat
         /\ cs[s].recommendation # "exit" => Staying(cs, w)[s] = w[s]
BY DEF Staying

LEMMA PartIsFinite ==
  ASSUME NEW U \in SUBSET Stocks
  PROVE  IsFiniteSet(U)
BY BatchAssumption, FS_Subset

\* One more is counted.
LEMMA CountOne ==
  ASSUME NEW cs \in Batches, NEW U \in SUBSET Stocks, NEW rest \in SUBSET Stocks,
         NEW s \in rest, NEW used \in Int, Counted(used, cs, U, rest)
  PROVE  /\ s \in U => Counted(used + Kept(cs)[s], cs, U, rest \ {s})
         /\ s \notin U => Counted(used, cs, U, rest \ {s})
<1>1. CASE s \in U
  <2> DEFINE V == U \ (rest \ {s})
  <2>1. V \in SUBSET Stocks /\ s \in V /\ V \ {s} = U \ rest
    BY <1>1
  <2>2. IsFiniteSet(V) /\ \A x \in V : Kept(cs)[x] \in Int
    BY <2>1, PartIsFinite, BatchWeights
  <2> HIDE DEF V
  <2>3. SumOver(Kept(cs), V) = Kept(cs)[s] + SumOver(Kept(cs), V \ {s})
    BY <2>1, <2>2, SumWithout
  <2>4. used = SumOver(Kept(cs), V \ {s})
    BY <2>1, SumOnSet DEF Counted
  <2>5. Kept(cs)[s] \in Nat
    BY BatchWeights
  <2>6. used + Kept(cs)[s] = SumOver(Kept(cs), V)
    BY <2>3, <2>4, <2>5
  <2>7. QED
    BY <1>1, <2>6, SumOnSet DEF Counted, V
<1>2. CASE s \notin U
  <2>1. U \ (rest \ {s}) = U \ rest
    BY <1>2
  <2>2. QED
    BY <1>2, <2>1 DEF Counted
<1>3. QED
  BY <1>1, <1>2

\* What is counted in full bounds the targets, which are the holdings.
LEMMA CountedIsBounded ==
  ASSUME NEW cs \in Batches, NEW w \in [Stocks -> Nat], NEW U \in SUBSET Stocks,
         NEW used \in Int, NEW limit \in Nat,
         Counted(used, cs, U, {}), \A s \in Stocks : w[s] = cs[s].current
  PROVE  Bounded(used, cs, w, U, Stocks, limit)
<1>1. \A s \in U : Staying(cs, w)[s] \in Int /\ Staying(cs, w)[s] = Kept(cs)[s]
  BY StayingWeights DEF Staying, Kept
<1>2. IsFiniteSet(U)
  BY PartIsFinite
<1>3. SumOver(Staying(cs, w), U) = SumOver(Kept(cs), U) /\ SumOver(Staying(cs, w), U) \in Int
  BY <1>1, <1>2, SumSame
<1>4. U \ {} = U /\ U \ Stocks = {}
  OBVIOUS
<1>5. used = SumOver(Kept(cs), U)
  BY <1>4, SumOnSet DEF Counted
<1>6. SumOver(Leaving(cs), U \ Stocks) = 0
  BY <1>4, SumOfNone
<1>7. SumOver(Leaving(cs), U) \in Int
  BY <1>2, BatchWeights, SumGrows
<1>8. SumOver(Staying(cs, w), U) <= used + SumOver(Leaving(cs), U \ Stocks)
  BY <1>3, <1>5, <1>6
<1>9. SumOver(Staying(cs, w), U) <=
        Greatest(limit + SumOver(Leaving(cs), U), SumOver(Kept(cs), U))
  BY <1>3, <1>7 DEF Greatest
<1>10. QED
  BY <1>8, <1>9, SumOnSet DEF Bounded

\* One is decided: it is closed and its weight released, or it is served
\* and charged, or it is of another sector.
LEMMA DecideOne ==
  ASSUME NEW cs \in Batches, NEW w \in [Stocks -> Nat], NEW v \in [Stocks -> Nat],
         NEW U \in SUBSET Stocks, NEW rest \in SUBSET Stocks, NEW s \in rest,
         NEW used \in Int, NEW next \in Int, NEW limit \in Nat,
         Bounded(used, cs, w, U, rest, limit),
         \A x \in Stocks : x # s => v[x] = w[x],
         s \in U /\ cs[s].recommendation = "exit" => next >= used - cs[s].current,
         s \in U /\ cs[s].recommendation # "exit" =>
           /\ next >= used + (v[s] - w[s])
           /\ v[s] <= w[s] \/ used + (v[s] - w[s]) <= limit,
         s \notin U => next = used
  PROVE  Bounded(next, cs, v, U, rest \ {s}, limit)
<1> DEFINE after == U \ (rest \ {s})
<1>1. PICK before, now \in Int :
        before = SumOver(Staying(cs, w), U) /\ now = SumOver(Staying(cs, v), U)
  <2>1. IsFiniteSet(U)
    BY PartIsFinite
  <2>2. \A x \in U : Staying(cs, w)[x] \in Nat /\ Staying(cs, v)[x] \in Nat
    BY StayingWeights
  <2>3. QED
    BY <2>1, <2>2, SumGrows
<1>2. PICK all \in Int, open \in Int, then \in Int :
        /\ all = SumOver(Leaving(cs), U)
        /\ open = SumOver(Leaving(cs), U \ rest)
        /\ then = SumOver(Leaving(cs), after)
        /\ then <= all /\ open <= all
  <2>1. IsFiniteSet(U)
    BY PartIsFinite
  <2>2. \A x \in U : Leaving(cs)[x] \in Nat
    BY BatchWeights
  <2>3. after \in SUBSET U /\ U \ rest \in SUBSET U
    OBVIOUS
  <2> HIDE DEF after
  <2>4. QED
    BY <2>1, <2>2, <2>3, SumGrows
<1>3. PICK kept \in Int : kept = SumOver(Kept(cs), U)
  <2>1. IsFiniteSet(U)
    BY PartIsFinite
  <2>2. \A x \in U : Kept(cs)[x] \in Nat
    BY BatchWeights
  <2>3. QED
    BY <2>1, <2>2, SumGrows
<1>4. before <= used + open /\ before <= Greatest(limit + all, kept)
  BY <1>1, <1>2, <1>3, SumOnSet DEF Bounded
<1>5. w[s] \in Int /\ v[s] \in Int /\ cs[s].current \in Int
  BY BatchWeights
<1>6. \A x \in Stocks : x # s => Staying(cs, w)[x] = Staying(cs, v)[x]
  BY DEF Staying
<1>7. s \in U => now = before + (Staying(cs, v)[s] - Staying(cs, w)[s])
  <2>1. IsFiniteSet(U)
    BY PartIsFinite
  <2>2. \A x \in U : Staying(cs, w)[x] \in Int /\ Staying(cs, v)[x] \in Int
    BY StayingWeights
  <2>3. QED
    BY <1>1, <1>6, <2>1, <2>2, SumChanged
<1>8. s \in U => then = Leaving(cs)[s] + open
  <2> SUFFICES ASSUME s \in U PROVE then = Leaving(cs)[s] + open
    OBVIOUS
  <2>1. after \in SUBSET Stocks /\ s \in after /\ after \ {s} = U \ rest
    OBVIOUS
  <2> HIDE DEF after
  <2>2. IsFiniteSet(after) /\ \A x \in after : Leaving(cs)[x] \in Int
    BY <2>1, PartIsFinite, BatchWeights
  <2>3. QED
    BY <1>2, <2>1, <2>2, SumWithout
<1>9. now <= next + then /\ now <= Greatest(limit + all, kept)
  <2>1. CASE s \notin U
    <3>1. after = U \ rest
      BY <2>1
    <3>2. then = open
      BY <1>2, <3>1
    <3>3. \A x \in U : Staying(cs, w)[x] \in Int /\ Staying(cs, w)[x] = Staying(cs, v)[x]
      BY <1>6, <2>1, StayingWeights
    <3>4. now = before
      BY <1>1, <3>3, PartIsFinite, SumSame
    <3>5. QED
      BY <1>4, <2>1, <3>2, <3>4
  <2>2. CASE s \in U /\ cs[s].recommendation = "exit"
    <3>1. /\ Staying(cs, v)[s] = 0 /\ Staying(cs, w)[s] = 0
          /\ Leaving(cs)[s] = cs[s].current
      BY <2>2 DEF Staying, Leaving
    <3>2. now = before + (0 - 0) /\ then = cs[s].current + open
      BY <1>7, <1>8, <2>2, <3>1
    <3>3. QED
      BY <1>4, <1>5, <2>2, <3>2
  <2>3. CASE s \in U /\ cs[s].recommendation # "exit"
    <3>1. /\ Staying(cs, v)[s] = v[s] /\ Staying(cs, w)[s] = w[s]
          /\ Leaving(cs)[s] = 0
      BY <2>3 DEF Staying, Leaving
    <3>2. now = before + (v[s] - w[s]) /\ then = 0 + open
      BY <1>7, <1>8, <2>3, <3>1
    <3>3. /\ next >= used + (v[s] - w[s])
          /\ v[s] <= w[s] \/ used + (v[s] - w[s]) <= limit
      BY <2>3
    <3>4. now <= next + then
      BY <1>4, <1>5, <3>2, <3>3
    <3>5. CASE v[s] <= w[s]
      BY <1>4, <1>5, <3>2, <3>4, <3>5 DEF Greatest
    <3>6. CASE used + (v[s] - w[s]) <= limit
      <4>1. now <= limit + all
        BY <1>2, <1>4, <1>5, <3>2, <3>6
      <4>2. QED
        BY <3>4, <4>1 DEF Greatest
    <3>7. QED
      BY <3>3, <3>5, <3>6
  <2>4. QED
    BY <2>1, <2>2, <2>3
<1>10. /\ SumOver(Staying(cs, v), U) <= next + SumOver(Leaving(cs), U \ (rest \ {s}))
       /\ SumOver(Staying(cs, v), U) <=
            Greatest(limit + SumOver(Leaving(cs), U), SumOver(Kept(cs), U))
  BY <1>1, <1>2, <1>3, <1>9
<1>11. QED
  BY <1>10, SumOnSet DEF Bounded

\* The counters of the total and of every sector, after one step.
LEMMA SectorsAre ==
  ASSUME NEW cs \in Batches, NEW k
  PROVE  InSector(cs, k) \in SUBSET Stocks
         /\ \A s \in Stocks : s \in InSector(cs, k) <=> cs[s].sector = k
BY DEF InSector

LEMMA OvershootInit == Init => OvershootInv
<1> SUFFICES ASSUME Init, enabled PROVE OvershootInv
  BY DEF OvershootInv
<1>1. candidate \in Batches /\ toCount = Stocks /\ toDecide = Stocks /\ totalUsed = 0
  BY DEF Init, Batches
<1>2. target \in [Stocks -> Nat] /\ \A s \in Stocks : target[s] = candidate[s].current
  BY <1>1, BatchWeights DEF Init
<1>3. \A k \in Sectors : sectorUsed[k] = 0
  BY DEF Init
<1>4. ASSUME NEW U \in SUBSET Stocks PROVE Counted(0, candidate, U, Stocks)
  <2>1. U \ Stocks = {}
    OBVIOUS
  <2>2. SumFunctionOnSet(Kept(candidate), {}) = 0
    BY SumOnSet, SumOfNone
  <2>3. QED
    BY <2>1, <2>2 DEF Counted
<1>5. Undecided(candidate, target, toDecide)
  BY <1>1, <1>2 DEF Undecided
<1>6. ASSUME Stocks = {}, NEW U \in SUBSET Stocks, NEW limit \in Nat
      PROVE  Bounded(0, candidate, target, U, Stocks, limit)
  <2>1. Counted(0, candidate, U, {})
    BY <1>4, <1>6
  <2>2. QED
    BY <1>1, <1>2, <2>1, CountedIsBounded
<1>7. Stocks \in SUBSET Stocks /\ \A k : InSector(candidate, k) \in SUBSET Stocks
  BY <1>1, SectorsAre
<1>8. toCount # {} => /\ Counted(totalUsed, candidate, Stocks, toCount)
                      /\ \A k \in Sectors :
                           Counted(sectorUsed[k], candidate, InSector(candidate, k), toCount)
  BY <1>1, <1>3, <1>4, <1>7
<1>9. toCount = {} =>
        /\ Bounded(totalUsed, candidate, target, Stocks, toDecide, MaxTotal)
        /\ \A k \in Sectors :
             Bounded(sectorUsed[k], candidate, target, InSector(candidate, k), toDecide, MaxSector)
  BY <1>1, <1>3, <1>6, <1>7, LimitsAssumption
<1>10. QED
  BY <1>1, <1>5, <1>8, <1>9 DEF OvershootInv

LEMMA OvershootCount ==
  ASSUME TypeOK, OvershootInv, NEW s \in Stocks, Count(s)
  PROVE  OvershootInv'
<1>1. /\ enabled /\ s \in toCount /\ toCount' = toCount \ {s}
      /\ candidate' = candidate /\ enabled' = enabled /\ toDecide' = toDecide /\ target' = target
  BY DEF Count, batch
<1>2. candidate \in Batches /\ target \in [Stocks -> Nat] /\ toCount \in SUBSET Stocks
  BY DEF TypeOK, Batches
<1>3. PICK w \in Nat : w = Kept(candidate)[s]
  BY <1>2, BatchWeights
<1>4. (IF Counts(s) THEN candidate[s].current ELSE 0) = w
  <2>1. candidate[s].current \in Nat
    BY <1>2, BatchWeights
  <2>2. QED
    BY <1>3, <2>1 DEF Counts, Held, IsExit, Kept
<1>5. candidate[s].sector \in Sectors
  BY <1>2, BatchWeights
<1>6. totalUsed' = totalUsed + w /\ totalUsed \in Int
  BY <1>4 DEF Count, TypeOK
<1>7. ASSUME NEW k \in Sectors
      PROVE  /\ sectorUsed[k] \in Int
             /\ sectorUsed'[k] = IF candidate[s].sector = k THEN sectorUsed[k] + w
                                                            ELSE sectorUsed[k]
  <2>1. sectorUsed' = [sectorUsed EXCEPT ![candidate[s].sector] = Greatest(0, @ + w)]
    BY <1>4 DEF Count, Use
  <2>2. sectorUsed \in [Sectors -> Nat]
    BY DEF TypeOK
  <2>3. Greatest(0, sectorUsed[k] + w) = sectorUsed[k] + w
    BY <2>2 DEF Greatest
  <2>4. QED
    BY <2>1, <2>2, <2>3
<1>8. /\ toDecide = Stocks
      /\ Undecided(candidate, target, toDecide)
      /\ Counted(totalUsed, candidate, Stocks, toCount)
      /\ \A k \in Sectors : Counted(sectorUsed[k], candidate, InSector(candidate, k), toCount)
  BY <1>1 DEF OvershootInv
<1>9. Counted(totalUsed', candidate, Stocks, toCount')
  BY <1>1, <1>2, <1>3, <1>6, <1>8, CountOne
<1>10. ASSUME NEW k \in Sectors
       PROVE  Counted(sectorUsed'[k], candidate, InSector(candidate, k), toCount')
  <2>1. InSector(candidate, k) \in SUBSET Stocks /\ (s \in InSector(candidate, k) <=> candidate[s].sector = k)
    BY <1>2, SectorsAre
  <2>2. Counted(sectorUsed[k], candidate, InSector(candidate, k), toCount)
    BY <1>8
  <2>3. CASE candidate[s].sector = k
    BY <1>1, <1>2, <1>3, <1>7, <2>1, <2>2, <2>3, CountOne
  <2>4. CASE candidate[s].sector # k
    BY <1>1, <1>2, <1>7, <2>1, <2>2, <2>4, CountOne
  <2>5. QED
    BY <2>3, <2>4
<1>11. ASSUME toCount' = {}
       PROVE  /\ Bounded(totalUsed', candidate, target, Stocks, toDecide, MaxTotal)
              /\ \A k \in Sectors :
                   Bounded(sectorUsed'[k], candidate, target, InSector(candidate, k), toDecide, MaxSector)
  <2>1. \A x \in Stocks : target[x] = candidate[x].current
    BY <1>8 DEF Undecided
  <2>2. totalUsed' \in Int /\ \A k \in Sectors : sectorUsed'[k] \in Int
    BY <1>6, <1>7
  <2>3. Bounded(totalUsed', candidate, target, Stocks, Stocks, MaxTotal)
    BY <1>2, <1>9, <1>11, <2>1, <2>2, CountedIsBounded, LimitsAssumption
  <2>4. ASSUME NEW k \in Sectors
        PROVE  Bounded(sectorUsed'[k], candidate, target, InSector(candidate, k), Stocks, MaxSector)
    <3>1. InSector(candidate, k) \in SUBSET Stocks
      BY <1>2, SectorsAre
    <3>2. Counted(sectorUsed'[k], candidate, InSector(candidate, k), {})
      BY <1>10, <1>11
    <3>3. sectorUsed'[k] \in Int
      BY <2>2
    <3>4. QED
      BY <1>2, <2>1, <3>1, <3>2, <3>3, CountedIsBounded, LimitsAssumption
  <2>5. QED
    BY <1>8, <2>3, <2>4
<1>12. QED
  BY <1>1, <1>8, <1>9, <1>10, <1>11 DEF OvershootInv

\* The targets v decide s, whose weight changes by d; the usage counters
\* then show that change, or more.
Decides(s, d, v) ==
  /\ \A x \in Stocks : x # s => v[x] = target[x]
  /\ IsExit(s) => d = -candidate[s].current /\ v[s] = 0
  /\ ~IsExit(s) => /\ d = v[s] - target[s]
                   /\ d <= 0 \/ totalUsed + d <= MaxTotal
                   /\ d <= 0 \/ sectorUsed[candidate[s].sector] + d <= MaxSector
Shows(s, d, total, used) ==
  /\ total >= totalUsed + d
  /\ \A k \in Sectors : IF candidate[s].sector = k THEN used[k] >= sectorUsed[k] + d
                                                   ELSE used[k] = sectorUsed[k]

LEMMA UsedAfter ==
  ASSUME TypeOK, NEW s \in Stocks, NEW d \in Int, Use(candidate[s].sector, d)
  PROVE  /\ sectorUsed' \in [Sectors -> Int]
         /\ \A k \in Sectors : IF candidate[s].sector = k THEN sectorUsed'[k] >= sectorUsed[k] + d
                                                          ELSE sectorUsed'[k] = sectorUsed[k]
<1>1. candidate[s].sector \in Sectors /\ sectorUsed \in [Sectors -> Nat]
  BY BatchWeights DEF TypeOK, Batches
<1>2. sectorUsed' = [sectorUsed EXCEPT ![candidate[s].sector] =
                       Greatest(0, sectorUsed[candidate[s].sector] + d)]
  BY DEF Use
<1>3. \A n \in Nat : Greatest(0, n + d) \in Int /\ Greatest(0, n + d) >= n + d
  BY DEF Greatest
<1>4. PICK g \in Int : /\ g = Greatest(0, sectorUsed[candidate[s].sector] + d)
                       /\ g >= sectorUsed[candidate[s].sector] + d
  BY <1>1, <1>3
<1>5. sectorUsed' = [sectorUsed EXCEPT ![candidate[s].sector] = g]
  BY <1>2, <1>4
<1>6. QED
  BY <1>1, <1>4, <1>5

LEMMA OvershootDecide ==
  ASSUME TypeOK, OvershootInv, enabled, toCount = {}, NEW s \in toDecide, NEW d \in Int,
         NEW v \in [Stocks -> Nat], Decides(s, d, v),
         NEW total \in Int, NEW used \in [Sectors -> Int], Shows(s, d, total, used)
  PROVE  /\ Undecided(candidate, v, toDecide \ {s})
         /\ Bounded(total, candidate, v, Stocks, toDecide \ {s}, MaxTotal)
         /\ \A k \in Sectors :
              Bounded(used[k], candidate, v, InSector(candidate, k), toDecide \ {s}, MaxSector)
<1>1. /\ candidate \in Batches /\ target \in [Stocks -> Nat] /\ toDecide \in SUBSET Stocks
      /\ totalUsed \in Int /\ sectorUsed \in [Sectors -> Nat] /\ s \in Stocks
  BY DEF TypeOK, Batches
<1>2. /\ Undecided(candidate, target, toDecide)
      /\ Bounded(totalUsed, candidate, target, Stocks, toDecide, MaxTotal)
      /\ \A k \in Sectors :
           Bounded(sectorUsed[k], candidate, target, InSector(candidate, k), toDecide, MaxSector)
  BY DEF OvershootInv
<1>3. IsExit(s) <=> candidate[s].recommendation = "exit"
  BY DEF IsExit
<1> USE DEF Decides, Shows
<1>4. Undecided(candidate, v, toDecide \ {s})
  BY <1>1, <1>2, <1>3 DEF Undecided
<1>5. candidate[s].current \in Nat /\ candidate[s].sector \in Sectors
  BY <1>1, BatchWeights
<1>6. target[s] \in Nat /\ v[s] \in Nat
  BY <1>1
<1>7. ASSUME NEW was \in Int, NEW now \in Int, NEW limit \in Nat, now >= was + d,
             ~IsExit(s) => d <= 0 \/ was + d <= limit
      PROVE  /\ candidate[s].recommendation = "exit" => now >= was - candidate[s].current
             /\ candidate[s].recommendation # "exit" =>
                  /\ now >= was + (v[s] - target[s])
                  /\ v[s] <= target[s] \/ was + (v[s] - target[s]) <= limit
  BY <1>3, <1>5, <1>6, <1>7
<1>8. Bounded(total, candidate, v, Stocks, toDecide \ {s}, MaxTotal)
  <2>1. /\ candidate[s].recommendation = "exit" => total >= totalUsed - candidate[s].current
        /\ candidate[s].recommendation # "exit" =>
             /\ total >= totalUsed + (v[s] - target[s])
             /\ v[s] <= target[s] \/ totalUsed + (v[s] - target[s]) <= MaxTotal
    BY <1>1, <1>7, LimitsAssumption
  <2>2. QED
    BY <1>1, <1>2, <2>1, DecideOne, LimitsAssumption
<1>9. ASSUME NEW k \in Sectors
      PROVE  Bounded(used[k], candidate, v, InSector(candidate, k), toDecide \ {s}, MaxSector)
  <2>1. InSector(candidate, k) \in SUBSET Stocks /\ (s \in InSector(candidate, k) <=> candidate[s].sector = k)
    BY <1>1, SectorsAre
  <2>2. Bounded(sectorUsed[k], candidate, target, InSector(candidate, k), toDecide, MaxSector)
    BY <1>2
  <2>3. sectorUsed[k] \in Int /\ used[k] \in Int
    BY <1>1
  <2>4. CASE candidate[s].sector = k
    <3>1. /\ candidate[s].recommendation = "exit" => used[k] >= sectorUsed[k] - candidate[s].current
          /\ candidate[s].recommendation # "exit" =>
               /\ used[k] >= sectorUsed[k] + (v[s] - target[s])
               /\ v[s] <= target[s] \/ sectorUsed[k] + (v[s] - target[s]) <= MaxSector
      BY <1>7, <2>3, <2>4, LimitsAssumption
    <3>2. QED
      BY <1>1, <2>1, <2>2, <2>3, <2>4, <3>1, DecideOne, LimitsAssumption
  <2>5. CASE candidate[s].sector # k
    <3>1. used[k] = sectorUsed[k]
      BY <2>5
    <3>2. QED
      BY <1>1, <2>1, <2>2, <2>3, <2>5, <3>1, DecideOne, LimitsAssumption
  <2>6. QED
    BY <2>4, <2>5
<1>10. QED
  BY <1>4, <1>8, <1>9

LEMMA OvershootClose ==
  ASSUME TypeOK, OvershootInv, NEW s \in Stocks, CloseExit(s)
  PROVE  OvershootInv'
<1>1. /\ enabled /\ toCount = {} /\ toCount' = {} /\ s \in toDecide /\ IsExit(s)
      /\ candidate' = candidate /\ toDecide' = toDecide \ {s}
      /\ target' = [target EXCEPT ![s] = 0]
  BY DEF CloseExit, batch
<1>2. candidate[s].current \in Nat /\ candidate[s].sector \in Sectors
  BY BatchWeights DEF TypeOK, Batches
<1>3. PICK d \in Int : d = -candidate[s].current
  BY <1>2
<1>4. PICK total \in Int : total = totalUsed' /\ total >= totalUsed + d
  BY <1>2, <1>3 DEF CloseExit, TypeOK
<1>5. PICK used \in [Sectors -> Int] :
        /\ used = sectorUsed'
        /\ \A k \in Sectors : IF candidate[s].sector = k THEN used[k] >= sectorUsed[k] + d
                                                         ELSE used[k] = sectorUsed[k]
  <2>1. Use(candidate[s].sector, d)
    BY <1>3 DEF CloseExit
  <2>2. QED
    BY <2>1, UsedAfter
<1>6. PICK v \in [Stocks -> Nat] :
        v = target' /\ v[s] = 0 /\ \A x \in Stocks : x # s => v[x] = target[x]
  BY <1>1 DEF TypeOK
<1>7. /\ Undecided(candidate, v, toDecide \ {s})
      /\ Bounded(total, candidate, v, Stocks, toDecide \ {s}, MaxTotal)
      /\ \A k \in Sectors :
           Bounded(used[k], candidate, v, InSector(candidate, k), toDecide \ {s}, MaxSector)
  <2>1. Decides(s, d, v)
    BY <1>1, <1>3, <1>6 DEF Decides
  <2>2. Shows(s, d, total, used)
    BY <1>4, <1>5 DEF Shows
  <2>3. QED
    BY <1>1, <2>1, <2>2, OvershootDecide
<1>8. QED
  BY <1>1, <1>4, <1>5, <1>6, <1>7 DEF OvershootInv

LEMMA OvershootLeave ==
  ASSUME TypeOK, OvershootInv, NEW s \in Stocks,
         Hold(s) \/ RefuseFrozen(s) \/ RefuseSmall(s)
  PROVE  OvershootInv'
<1>1. /\ enabled /\ toCount = {} /\ toCount' = {} /\ s \in toDecide /\ ~IsExit(s)
      /\ candidate' = candidate /\ toDecide' = toDecide \ {s}
      /\ target' = target /\ totalUsed' = totalUsed /\ sectorUsed' = sectorUsed
  BY DEF Hold, RefuseFrozen, RefuseSmall, NextSurvivor, LeaveAsIs, batch
<1>2. /\ target \in [Stocks -> Nat] /\ totalUsed \in Int
      /\ sectorUsed \in [Sectors -> Int] /\ \A k \in Sectors : sectorUsed[k] \in Int
  BY DEF TypeOK
<1>3. target[s] \in Nat
  BY <1>2
<1>4. totalUsed >= totalUsed + 0 /\ \A k \in Sectors : sectorUsed[k] >= sectorUsed[k] + 0
  BY <1>2
<1>5. 0 = target[s] - target[s]
  BY <1>3
<1>6. PICK v \in [Stocks -> Nat], total \in Int, used \in [Sectors -> Int], d \in Int :
        d = 0 /\ v = target /\ total = totalUsed /\ used = sectorUsed
  BY <1>2
<1>7. /\ Undecided(candidate, v, toDecide \ {s})
      /\ Bounded(total, candidate, v, Stocks, toDecide \ {s}, MaxTotal)
      /\ \A k \in Sectors :
           Bounded(used[k], candidate, v, InSector(candidate, k), toDecide \ {s}, MaxSector)
  <2>1. Decides(s, d, v)
    BY <1>1, <1>5, <1>6 DEF Decides
  <2>2. Shows(s, d, total, used)
    BY <1>4, <1>6 DEF Shows
  <2>3. QED
    BY <1>1, <2>1, <2>2, OvershootDecide
<1>8. QED
  BY <1>1, <1>6, <1>7 DEF OvershootInv

LEMMA OvershootAllocate ==
  ASSUME TypeOK, OvershootInv, NEW s \in Stocks, Allocate(s)
  PROVE  OvershootInv'
<1>1. /\ enabled /\ toCount = {} /\ toCount' = {} /\ s \in toDecide /\ ~IsExit(s)
      /\ candidate' = candidate /\ toDecide' = toDecide \ {s}
      /\ target' = [target EXCEPT ![s] = Wanted(s)]
  BY DEF Allocate, NextSurvivor, batch
<1>2. candidate[s].current \in Nat /\ candidate[s].sector \in Sectors
  BY BatchWeights DEF TypeOK, Batches
<1>3. PICK d \in Int :
        /\ d = Charge(s)
        /\ d <= 0 \/ d <= TotalRemaining
        /\ d <= 0 \/ d <= SectorRemaining(s)
  BY ChargeFits
<1>4. PICK total \in Int : total = totalUsed' /\ total >= totalUsed + d
  <2>1. totalUsed' = Greatest(0, totalUsed + d) /\ totalUsed \in Int
    BY <1>3 DEF Allocate, TypeOK
  <2>2. QED
    BY <2>1 DEF Greatest
<1>5. PICK used \in [Sectors -> Int] :
        /\ used = sectorUsed'
        /\ \A k \in Sectors : IF candidate[s].sector = k THEN used[k] >= sectorUsed[k] + d
                                                         ELSE used[k] = sectorUsed[k]
  <2>1. Use(candidate[s].sector, d)
    BY <1>3 DEF Allocate
  <2>2. QED
    BY <2>1, UsedAfter
<1>6. PICK v \in [Stocks -> Nat] :
        v = target' /\ v[s] = Wanted(s) /\ \A x \in Stocks : x # s => v[x] = target[x]
  <2>1. Wanted(s) \in Nat
    BY WantedBounds
  <2>2. QED
    BY <1>1, <2>1 DEF TypeOK
<1>7. d = v[s] - target[s]
  <2>1. target[s] = candidate[s].current
    BY <1>1 DEF OvershootInv, Undecided
  <2>2. QED
    BY <1>3, <1>6, <2>1 DEF Charge
<1>8. d <= 0 \/ totalUsed + d <= MaxTotal
  <2>1. totalUsed \in Int
    BY DEF TypeOK
  <2>2. QED
    BY <1>3, <2>1, LimitsAssumption DEF TotalRemaining, Greatest
<1>9. d <= 0 \/ sectorUsed[candidate[s].sector] + d <= MaxSector
  <2>1. sectorUsed[candidate[s].sector] \in Nat
    BY <1>2 DEF TypeOK
  <2>2. QED
    BY <1>3, <2>1, LimitsAssumption DEF SectorRemaining, Greatest
<1>10. /\ Undecided(candidate, v, toDecide \ {s})
       /\ Bounded(total, candidate, v, Stocks, toDecide \ {s}, MaxTotal)
       /\ \A k \in Sectors :
            Bounded(used[k], candidate, v, InSector(candidate, k), toDecide \ {s}, MaxSector)
  <2>1. Decides(s, d, v)
    BY <1>1, <1>6, <1>7, <1>8, <1>9 DEF Decides
  <2>2. Shows(s, d, total, used)
    BY <1>4, <1>5 DEF Shows
  <2>3. QED
    BY <1>1, <2>1, <2>2, OvershootDecide
<1>11. QED
  BY <1>1, <1>4, <1>5, <1>6, <1>10 DEF OvershootInv

\* At the end of the batch what closes has no target, and nothing is left.
LEMMA OvershootInvBounds == TypeOK /\ OvershootInv /\ toCount = {} => OvershootIsBounded
<1> SUFFICES ASSUME TypeOK, OvershootInv, toCount = {}, enabled, toDecide = {}
             PROVE  /\ Total(target) <= Greatest(MaxTotal + Total(Current(IsExit)),
                                                 Total(Current(Counts)))
                    /\ \A k \in Sectors :
                         TotalIn(target, k) <= Greatest(MaxSector + TotalIn(Current(IsExit), k),
                                                        TotalIn(Current(Counts), k))
  BY DEF OvershootIsBounded
<1>1. candidate \in Batches /\ target \in [Stocks -> Nat]
  BY DEF TypeOK, Batches
<1>2. /\ Undecided(candidate, target, {})
      /\ Bounded(totalUsed, candidate, target, Stocks, {}, MaxTotal)
      /\ \A k \in Sectors :
           Bounded(sectorUsed[k], candidate, target, InSector(candidate, k), {}, MaxSector)
  BY DEF OvershootInv
<1>3. Staying(candidate, target) = target
  BY <1>1, <1>2 DEF Undecided, Staying
<1>4. Current(IsExit) = Leaving(candidate)
  BY DEF Current, IsExit, Leaving
<1>5. Current(Counts) = Kept(candidate)
  <2>1. \A s \in Stocks : candidate[s].current \in Nat
    BY <1>1, BatchWeights
  <2>2. \A s \in Stocks : (IF Counts(s) THEN candidate[s].current ELSE 0) =
                          (IF candidate[s].recommendation # "exit" THEN candidate[s].current ELSE 0)
    BY <2>1 DEF Counts, Held, IsExit
  <2>3. QED
    BY <2>2 DEF Current, Kept
<1>6. /\ Total(target) = SumFunctionOnSet(target, Stocks)
      /\ Total(Leaving(candidate)) = SumFunctionOnSet(Leaving(candidate), Stocks)
      /\ Total(Kept(candidate)) = SumFunctionOnSet(Kept(candidate), Stocks)
  <2>1. DOMAIN target = Stocks /\ DOMAIN Leaving(candidate) = Stocks /\ DOMAIN Kept(candidate) = Stocks
    BY <1>1 DEF Leaving, Kept
  <2>2. QED
    BY <2>1 DEF Total, SumFunction
<1>7. \A w, k : TotalIn(w, k) = SumFunctionOnSet(w, InSector(candidate, k))
  BY DEF TotalIn, InSector
<1>8. QED
  BY <1>2, <1>3, <1>4, <1>5, <1>6, <1>7 DEF Bounded

(* Whatever the order of the batch, the targets exceed a limit by no more  *)
(* than the weight that was closed, in total and in every sector, unless   *)
(* the holdings exceeded it before (OvershootIsBounded).                   *)
THEOREM OvershootStaysBounded == Spec => []OvershootIsBounded
<1>1. Init => OvershootInv
  BY OvershootInit
<1>2. TypeOK /\ OvershootInv /\ [Next]_vars => OvershootInv'
  <2> SUFFICES ASSUME TypeOK, OvershootInv, [Next]_vars PROVE OvershootInv'
    OBVIOUS
  <2>1. CASE PassThrough
    BY <2>1 DEF PassThrough, batch, OvershootInv
  <2>2. ASSUME NEW s \in Stocks, Count(s) PROVE OvershootInv'
    BY <2>2, OvershootCount
  <2>3. ASSUME NEW s \in Stocks, CloseExit(s) PROVE OvershootInv'
    BY <2>3, OvershootClose
  <2>4. ASSUME NEW s \in Stocks, Hold(s) \/ RefuseFrozen(s) \/ RefuseSmall(s)
        PROVE  OvershootInv'
    BY <2>4, OvershootLeave
  <2>5. ASSUME NEW s \in Stocks, Allocate(s) PROVE OvershootInv'
    BY <2>5, OvershootAllocate
  <2>6. CASE UNCHANGED vars
    BY <2>6 DEF vars, OvershootInv
  <2> QED
    BY <2>1, <2>2, <2>3, <2>4, <2>5, <2>6 DEF Next, Done
<1>3. TypeOK /\ OvershootInv => OvershootIsBounded
  <2> SUFFICES ASSUME TypeOK, OvershootInv, enabled, toDecide = {} PROVE OvershootIsBounded
    BY DEF OvershootIsBounded
  <2>1. CASE toCount = {}
    BY <2>1, OvershootInvBounds
  <2>2. CASE toCount # {}
    <3>1. Stocks = {}
      BY <2>2 DEF OvershootInv
    <3>2. QED
      BY <2>2, <3>1 DEF TypeOK
  <2>3. QED
    BY <2>1, <2>2
<1> QED
  BY <1>1, <1>2, <1>3, TypeCorrect, PTL DEF Spec
=============================================================================
