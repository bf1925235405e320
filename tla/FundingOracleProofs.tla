--------------------------- MODULE FundingOracleProofs ---------------------------
(***************************************************************************)
(* The rate and the funding of FundingOracle stay within their bounds for  *)
(* any bounds, any rates asked for, any providers and any clock.           *)
(*                                                                         *)
(* The invariant is inductive with the bound on the rate as one of its     *)
(* parts: without it an update could move a rate that is out of bounds     *)
(* further than the time since the last one allows.                        *)
(***************************************************************************)
EXTENDS FundingOracle, TLAPS

Inv == TypeOK /\ RateBounded /\ ChangeBounded /\ FundingBounded

-----------------------------------------------------------------------------
(* Arithmetic.                                                             *)

LEMMA Products ==
    ASSUME NEW k \in Nat, NEW x \in Nat, NEW y \in Nat
    PROVE  k * x \in Nat /\ k * y \in Nat /\ k * (x + y) = k * x + k * y
OBVIOUS

LEMMA ProductOfBounded ==
    ASSUME NEW m \in Nat, NEW r \in Int, -m <= r, r <= m, NEW s \in Nat
    PROVE  r * s \in Int /\ m * s \in Nat /\ -(m * s) <= r * s /\ r * s <= m * s
<1>1. PICK a \in Nat : a = m - r
  OBVIOUS
<1>2. PICK b \in Nat : b = m + r
  OBVIOUS
<1>3. r * s \in Int /\ m * s \in Nat /\ a * s \in Nat /\ b * s \in Nat
  OBVIOUS
<1>4. a * s = m * s - r * s
  BY <1>1
<1>5. b * s = m * s + r * s
  BY <1>2
<1>6. QED
  BY ONLY <1>3, <1>4, <1>5

\* What accrues, in units of 1/BASE, is within the funding times the price.
LEMMA AccruedIsBounded ==
    ASSUME NEW funding \in Int, NEW price \in Nat, NEW most \in Nat, Abs(funding) <= most
    PROVE  /\ Accrued(funding, price) \in Int
           /\ BASE * Abs(Accrued(funding, price)) <= most * price
<1> USE BaseAssumption
<1>1. PICK size \in Nat : size = Abs(funding) /\ size <= most
  BY DEF Abs
<1>2. size * price \in Nat /\ most * price \in Nat /\ size * price <= most * price
  BY <1>1, ProductOfBounded
<1>3. PICK p \in Nat : p = size * price
  BY <1>2
<1>4. PICK d \in Nat : d = p \div BASE /\ BASE * d <= p
  OBVIOUS
<1>5. BaseMul(size, price) = d
  BY ONLY <1>3, <1>4 DEF BaseMul
<1>6. Accrued(funding, price) = d \/ Accrued(funding, price) = -d
  BY <1>1, <1>5 DEF Accrued, Abs
<1>7. Accrued(funding, price) \in Int /\ Abs(Accrued(funding, price)) = d
  BY ONLY <1>6, d \in Nat DEF Abs
<1>8. QED
  BY ONLY <1>2, <1>3, <1>4, <1>7, BASE \in Nat

\* Two moves of an index in a row, each at no more than its own highest price.
LEMMA MovesAddUpAtPrices ==
    ASSUME NEW k \in Nat, NEW s \in Nat, NEW t \in Nat,
           NEW g \in Nat, NEW h \in Nat, NEW p \in Nat, g <= h, p <= h,
           NEW a \in Int, NEW b \in Int, NEW c \in Int,
           BASE * Abs(b - a) <= k * s * g, BASE * Abs(c - b) <= k * t * p
    PROVE  BASE * Abs(c - a) <= k * (s + t) * h
<1> USE BaseAssumption
<1>1. k * s \in Nat /\ k * t \in Nat /\ k * (s + t) = k * s + k * t
  BY Products
<1>2. PICK u \in Nat, v \in Nat : u = k * s /\ v = k * t
  BY <1>1
<1>3. /\ g * u \in Nat /\ h * u \in Nat /\ g * u <= h * u
      /\ p * v \in Nat /\ h * v \in Nat /\ p * v <= h * v
  BY ProductOfBounded
<1>4. PICK w \in Nat, x \in Nat :
        /\ w = h * u /\ x = h * v
        /\ BASE * Abs(b - a) <= w /\ BASE * Abs(c - b) <= x
  <2>1. u * g = g * u /\ v * p = p * v
    OBVIOUS
  <2>2. Abs(b - a) \in Nat /\ Abs(c - b) \in Nat
    BY DEF Abs
  <2>3. BASE * Abs(b - a) \in Nat /\ BASE * Abs(c - b) \in Nat
    BY <2>2
  <2>4. QED
    BY ONLY <1>2, <1>3, <2>1, <2>3, BASE * Abs(b - a) <= k * s * g, BASE * Abs(c - b) <= k * t * p
<1>5. PICK i \in Nat, j \in Nat, l \in Nat :
        /\ i = Abs(b - a) /\ j = Abs(c - b) /\ l = Abs(c - a) /\ l <= i + j
  <2>1. Abs(b - a) \in Nat /\ Abs(c - b) \in Nat /\ Abs(c - a) \in Nat
    BY ONLY a \in Int, b \in Int, c \in Int DEF Abs
  <2>2. Abs(c - a) <= Abs(b - a) + Abs(c - b)
    BY ONLY a \in Int, b \in Int, c \in Int DEF Abs
  <2>3. QED
    BY ONLY <2>1, <2>2
<1>6. BASE * l <= BASE * i + BASE * j
  BY <1>5
<1>7. (u + v) * h = w + x
  BY <1>4
<1>8. QED
  BY ONLY <1>1, <1>2, <1>4, <1>5, <1>6, <1>7, BASE \in Nat

\* Two moves in a row, each within the time it took.
LEMMA MovesAddUp ==
    ASSUME NEW k \in Nat, NEW s \in Nat, NEW t \in Nat,
           NEW a \in Int, NEW b \in Int, NEW c \in Int,
           Abs(b - a) <= k * s, Abs(c - b) <= k * t
    PROVE  Abs(c - a) <= k * (s + t)
<1>1. k * s \in Nat /\ k * t \in Nat /\ k * (s + t) = k * s + k * t
  BY Products
<1>2. PICK p \in Nat, q \in Nat : p = k * s /\ q = k * t
  BY <1>1
<1>3. Abs(c - a) <= p + q
  BY ONLY <1>2, Abs(b - a) <= k * s, Abs(c - b) <= k * t,
          p \in Nat, q \in Nat, a \in Int, b \in Int, c \in Int DEF Abs
<1>4. QED
  BY <1>1, <1>2, <1>3

LEMMA SignedIntType == ASSUME NEW tenths \in Int PROVE SignedInt(tenths) \in Int
BY DEF SignedInt

\* The bounded rate is near the old one and within the absolute bound.
LEMMA BoundRateIsBounded ==
    ASSUME Inv, NEW newRate \in Int
    PROVE  /\ BoundRate(newRate) \in Int
           /\ -MaxAbs <= BoundRate(newRate) /\ BoundRate(newRate) <= MaxAbs
           /\ now - rate.timestamp \in Nat
           /\ Abs(BoundRate(newRate) - rate.value) <= MaxDiff * (now - rate.timestamp)
<1> USE FundingAssumption
<1>1. PICK old \in Int, time \in Nat :
        /\ old = rate.value /\ time = now - rate.timestamp
        /\ -MaxAbs <= old /\ old <= MaxAbs
  BY DEF Inv, TypeOK, RateBounded, Stamped
<1>2. PICK d \in Nat : d = MaxDiff * time
  OBVIOUS
<1>3. BoundRate(newRate) =
        IF newRate > old
        THEN Least(newRate, Least(old + d, MaxAbs))
        ELSE Greatest(newRate, Greatest(old - d, -MaxAbs))
  BY ONLY <1>1, <1>2 DEF BoundRate
<1>4. PICK new \in Int :
        /\ new = BoundRate(newRate)
        /\ -MaxAbs <= new /\ new <= MaxAbs /\ Abs(new - old) <= d
  BY <1>1, <1>2, <1>3 DEF Least, Greatest, Abs
<1>5. QED
  BY ONLY <1>1, <1>2, <1>4

LEMMA Fields ==
    ASSUME Inv
    PROVE  /\ rate.timestamp \in Nat /\ rate.value \in Int
           /\ index.timestamp \in Nat /\ index.value \in Int
           /\ anchor.rate \in Stamped /\ anchor.index \in Stamped
           /\ anchor.rate.timestamp \in Nat /\ anchor.rate.value \in Int
           /\ anchor.index.timestamp \in Nat /\ anchor.index.value \in Int
           /\ anchor.highest \in Nat
           /\ now \in Nat /\ MaxDiff \in Nat /\ MaxAbs \in Nat
BY FundingAssumption DEF Inv, TypeOK, Stamped

-----------------------------------------------------------------------------
(* The invariant and the steps.                                            *)

LEMMA InitInv == Init => Inv
<1> SUFFICES ASSUME Init PROVE Inv
  OBVIOUS
<1> USE FundingAssumption
<1>1. TypeOK
  BY DEF Init, TypeOK, Stamped, Answers
<1>2. RateBounded
  BY DEF Init, RateBounded
<1>3. MaxDiff * 0 = 0 /\ MaxAbs * 0 * 0 = 0 /\ BASE * 0 = 0
  BY BaseAssumption
<1>4. ChangeBounded /\ FundingBounded
  BY <1>3 DEF Init, ChangeBounded, FundingBounded, Abs
<1>5. QED
  BY <1>1, <1>2, <1>4 DEF Inv

\* An update with any rate, whoever asked for it.
LEMMA UpdateInv ==
    ASSUME Inv, NEW newRate \in Int, rate' = NewRate(newRate), simulated' = NoAnswer,
           provider' = provider, UNCHANGED <<now, index, anchor>>
    PROVE  Inv'
<1> USE FundingAssumption
<1>1. PICK new \in Int : /\ new = BoundRate(newRate)
                         /\ -MaxAbs <= new /\ new <= MaxAbs
                         /\ now - rate.timestamp \in Nat
                         /\ Abs(new - rate.value) <= MaxDiff * (now - rate.timestamp)
  BY BoundRateIsBounded
<1>2. rate' = [timestamp |-> now, value |-> new]
  BY <1>1 DEF NewRate
<1>3. TypeOK'
  BY <1>1, <1>2 DEF Inv, TypeOK, Stamped, Answers
<1>4. RateBounded'
  BY <1>1, <1>2 DEF RateBounded
<1>5. ChangeBounded'
  <2>1. PICK s \in Nat, t \in Nat :
          /\ s = rate.timestamp - anchor.rate.timestamp
          /\ t = now - rate.timestamp
          /\ s + t = now - anchor.rate.timestamp
    <3>1. rate.timestamp - anchor.rate.timestamp >= 0
      BY DEF Inv, ChangeBounded
    <3>2. QED
      BY ONLY <1>1, <3>1, Fields, Inv
  <2>2. Abs(rate.value - anchor.rate.value) <= MaxDiff * s
    BY <2>1 DEF Inv, ChangeBounded
  <2>3. Abs(new - anchor.rate.value) <= MaxDiff * (s + t)
    BY ONLY <1>1, <2>1, <2>2, MovesAddUp, Fields, Inv
  <2>4. s + t >= 0
    OBVIOUS
  <2>5. QED
    BY ONLY <1>2, <2>1, <2>3, <2>4, UNCHANGED <<now, index, anchor>> DEF ChangeBounded
<1>6. FundingBounded'
  BY DEF Inv, FundingBounded
<1>7. QED
  BY <1>3, <1>4, <1>5, <1>6 DEF Inv

\* What the funder answers is within the absolute bound for its seconds.
LEMMA GetFundingIsBounded ==
    ASSUME Inv, NEW t \in Nat
    PROVE  GetFunding(t) \in Int /\ Abs(GetFunding(t)) <= MaxAbs * t
<1> USE FundingAssumption
<1>1. PICK r \in Int : r = rate.value /\ -MaxAbs <= r /\ r <= MaxAbs
  BY DEF Inv, TypeOK, RateBounded, Stamped
<1>2. PICK p \in Int, q \in Nat : p = r * t /\ q = MaxAbs * t /\ -q <= p /\ p <= q
  BY <1>1, ProductOfBounded
<1>3. GetFunding(t) = p \/ GetFunding(t) = -p
  <2>1. CASE IsInverse
    <3>1. GetFunding(t) = (-1) * r * t
      BY ONLY <2>1, <1>1 DEF GetFunding
    <3>2. (-1) * r * t = -p
      BY <1>2
    <3>3. QED
      BY ONLY <3>1, <3>2
  <2>2. CASE ~IsInverse
    <3>1. GetFunding(t) = 1 * r * t
      BY ONLY <2>2, <1>1 DEF GetFunding
    <3>2. 1 * r * t = p
      BY <1>2
    <3>3. QED
      BY ONLY <3>1, <3>2
  <2>3. QED
    BY <2>1, <2>2
<1>4. PICK f \in Int : f = GetFunding(t) /\ (f = p \/ f = -p)
  BY ONLY <1>2, <1>3
<1>5. Abs(f) <= q
  BY ONLY <1>2, <1>4 DEF Abs
<1>6. QED
  BY ONLY <1>2, <1>4, <1>5

\* Funding that accrues with the rate and the price of the moment.
LEMMA LoadContextInv == ASSUME Inv, NEW price \in Prices, LoadContext(price) PROVE Inv'
<1> USE FundingAssumption
<1>1. PICK t \in Nat : t = now - index.timestamp
  BY DEF Inv, TypeOK, Stamped
<1>2. PICK f \in Int : f = GetFunding(t) /\ Abs(f) <= MaxAbs * t
  BY GetFundingIsBounded
<1>3. price \in Nat /\ MaxAbs * t \in Nat
  OBVIOUS
<1>4. PICK v \in Int : /\ v = index.value + Accrued(f, price)
                       /\ BASE * Abs(v - index.value) <= MaxAbs * t * price
  <2>1. /\ Accrued(f, price) \in Int
        /\ BASE * Abs(Accrued(f, price)) <= MaxAbs * t * price
    BY <1>2, <1>3, AccruedIsBounded
  <2>2. PICK v \in Int, accrued \in Int :
          /\ accrued = Accrued(f, price) /\ v = index.value + accrued
          /\ v - index.value = accrued
    BY <2>1, Fields
  <2>3. QED
    BY ONLY <2>1, <2>2
<1>5. index' = [timestamp |-> now, value |-> v]
  BY <1>1, <1>2, <1>4 DEF LoadContext
<1>6. PICK g \in Nat, h \in Nat : /\ g = anchor.highest /\ h = Greatest(g, price)
                                  /\ g <= h /\ price <= h
  BY <1>3, Fields DEF Greatest
<1>7. anchor' = [anchor EXCEPT !.highest = h] /\ UNCHANGED <<rate, provider, now, simulated>>
  BY <1>6 DEF LoadContext
<1>8. /\ anchor' \in [rate : Stamped, index : Stamped, highest : Nat]
      /\ anchor'.rate = anchor.rate /\ anchor'.index = anchor.index /\ anchor'.highest = h
  BY <1>7 DEF Inv, TypeOK
<1>9. TypeOK'
  BY <1>5, <1>7, <1>8 DEF Inv, TypeOK, Stamped
<1>10. RateBounded' /\ ChangeBounded'
  BY <1>7, <1>8 DEF Inv, RateBounded, ChangeBounded
<1>11. FundingBounded'
  <2>1. PICK s \in Nat : /\ s = index.timestamp - anchor.index.timestamp
                         /\ s + t = now - anchor.index.timestamp
    BY <1>1, Fields DEF Inv, FundingBounded
  <2>2. BASE * Abs(index.value - anchor.index.value) <= MaxAbs * s * g
    BY <1>6, <2>1 DEF Inv, FundingBounded
  <2>3. PICK a \in Int, b \in Int : a = anchor.index.value /\ b = index.value
    BY Fields
  <2>4. /\ BASE * Abs(b - a) <= MaxAbs * s * g
        /\ BASE * Abs(v - b) <= MaxAbs * t * price
    BY ONLY <1>4, <2>2, <2>3
  <2>5. BASE * Abs(v - a) <= MaxAbs * (s + t) * h
    BY ONLY <1>3, <1>6, <2>4, MovesAddUpAtPrices, MaxAbs \in Nat, s \in Nat, t \in Nat
  <2>6. s + t >= 0
    OBVIOUS
  <2>7. QED
    BY ONLY <1>5, <1>8, <2>1, <2>3, <2>5, <2>6 DEF FundingBounded
<1>12. QED
  BY <1>9, <1>10, <1>11 DEF Inv

LEMMA SimulateInv == ASSUME Inv, NEW tenths \in Int, Simulate(tenths) PROVE Inv'
<1>1. FromSolidity(BoundRate(SignedInt(tenths))) \in Int
  BY SignedIntType, BoundRateIsBounded DEF FromSolidity
<1>2. TypeOK'
  BY <1>1 DEF Inv, TypeOK, Simulate, Answers
<1>3. RateBounded' /\ ChangeBounded' /\ FundingBounded'
  BY DEF Inv, Simulate, RateBounded, ChangeBounded, FundingBounded
<1>4. QED
  BY <1>2, <1>3 DEF Inv

LEMMA RememberInv == ASSUME Inv, Remember PROVE Inv'
<1> USE FundingAssumption
<1>1. TypeOK'
  BY DEF Inv, TypeOK, Remember
<1>2. RateBounded'
  BY DEF Inv, RateBounded, Remember
<1>3. /\ anchor'.rate.timestamp = rate'.timestamp /\ anchor'.index.timestamp = index'.timestamp
      /\ anchor'.rate.value = rate'.value /\ anchor'.index.value = index'.value
      /\ rate'.timestamp \in Nat /\ index'.timestamp \in Nat
      /\ rate'.value \in Int /\ index'.value \in Int
  BY Fields DEF Remember
<1>4. MaxDiff * 0 = 0 /\ MaxAbs * 0 * 0 = 0 /\ BASE * 0 = 0 /\ anchor'.highest = 0
  BY BaseAssumption DEF Remember
<1>5. ChangeBounded' /\ FundingBounded'
  BY <1>3, <1>4 DEF ChangeBounded, FundingBounded, Abs
<1>6. QED
  BY <1>1, <1>2, <1>5 DEF Inv

LEMMA StepInv == Inv /\ [Next]_vars => Inv'
<1> SUFFICES ASSUME Inv, [Next]_vars PROVE Inv'
  OBVIOUS
<1> USE FundingAssumption
<1>1. ASSUME NEW tenths \in Asked, Simulate(tenths) PROVE Inv'
  BY <1>1, SimulateInv
<1>2. ASSUME NEW tenths \in Asked, NEW a \in Address, SetFundingRate(a, tenths) PROVE Inv'
  BY <1>2, SignedIntType, UpdateInv DEF SetFundingRate
<1>3. ASSUME NEW a \in Address, SetSimulatedRate(a) PROVE Inv'
  <2>1. 10 * simulated.answer \in Int
    BY <1>3 DEF Inv, TypeOK, Answers, SetSimulatedRate, NoAnswer
  <2>2. SignedInt(10 * simulated.answer) \in Int
    BY <2>1, SignedIntType
  <2>3. QED
    BY <1>3, <2>2, UpdateInv DEF SetSimulatedRate
<1>4. ASSUME NEW a \in Address, SetFundingRateProvider(a) PROVE Inv'
  BY <1>4 DEF SetFundingRateProvider, Inv, TypeOK, RateBounded, ChangeBounded, FundingBounded
<1>5. ASSUME NEW price \in Prices, LoadContext(price) PROVE Inv'
  BY <1>5, LoadContextInv
<1>6. ASSUME NEW seconds \in 1..MaxTime - now, Tick(seconds) PROVE Inv'
  <2>1. now' \in Nat /\ now' >= now
    BY <1>6, Fields DEF Tick
  <2>2. TypeOK'
    BY <1>6, <2>1 DEF Tick, Inv, TypeOK, Stamped
  <2>3. QED
    BY <1>6, <2>2 DEF Tick, Inv, RateBounded, ChangeBounded, FundingBounded
<1>7. CASE Remember
  BY <1>7, RememberInv
<1>8. CASE UNCHANGED vars
  BY <1>8 DEF vars, Inv, TypeOK, RateBounded, ChangeBounded, FundingBounded
<1>9. QED
  BY <1>1, <1>2, <1>3, <1>4, <1>5, <1>6, <1>7, <1>8 DEF Next

\* Funding rates, the provider and the answers stay well formed, and no time
\* stamp is ever ahead of the clock (P1FundingOracle.setFundingRate).
THEOREM TypeCorrect == Spec => []TypeOK
<1>1. Inv => TypeOK
  BY DEF Inv
<1>2. QED
  BY InitInv, StepInv, <1>1, PTL DEF Spec

\* No provider can set a rate beyond the absolute bound (_boundRate).
THEOREM RateStaysBounded == Spec => []RateBounded
<1>1. Inv => RateBounded
  BY DEF Inv
<1>2. QED
  BY InitInv, StepInv, <1>1, PTL DEF Spec

\* Between any two moments the rate moves by no more than the time between its
\* updates allows, however many of them there are (_boundRate).
THEOREM ChangeStaysBounded == Spec => []ChangeBounded
<1>1. Inv => ChangeBounded
  BY DEF Inv
<1>2. QED
  BY InitInv, StepInv, <1>1, PTL DEF Spec

\* The ledger's index never moves faster than the largest rate moves it at the highest
\* price it was loaded at, with either of the two oracles (getFunding and baseMul as
\* _loadContext of P1Settlement uses them).
THEOREM FundingStaysBounded == Spec => []FundingBounded
<1>1. Inv => FundingBounded
  BY DEF Inv
<1>2. QED
  BY InitInv, StepInv, <1>1, PTL DEF Spec

-----------------------------------------------------------------------------
(* Simulations.                                                            *)

\* An answer that is within reach of the rate is set as it is, and more so later: the
\* bound on the change only widens until the rate is set.
InReach(value) ==
    /\ -MaxAbs <= value /\ value <= MaxAbs
    /\ Abs(value - rate.value) <= MaxDiff * (now - rate.timestamp)

AnswerInReach == simulated.asked = "rate" => InReach(simulated.answer)

LEMMA AnswerType == ASSUME Inv, simulated.asked = "rate" PROVE simulated.answer \in Int
BY DEF Inv, TypeOK, Answers, NoAnswer

LEMMA TensAreExact == ASSUME NEW value \in Int PROVE SignedInt(10 * value) = value
BY DEF SignedInt

LEMMA InReachIsKept ==
    ASSUME Inv, NEW value \in Int, InReach(value)
    PROVE  BoundRate(value) = value
<1> USE FundingAssumption
<1>1. now - rate.timestamp \in Nat /\ rate.value \in Int
  BY BoundRateIsBounded, Fields
<1>2. PICK old \in Int, d \in Nat : old = rate.value /\ d = MaxDiff * (now - rate.timestamp)
  BY <1>1
<1>3. -MaxAbs <= value /\ value <= MaxAbs /\ Abs(value - old) <= d
  BY <1>2 DEF InReach
<1>4. BoundRate(value) =
        IF value > old
        THEN Least(value, Least(old + d, MaxAbs))
        ELSE Greatest(value, Greatest(old - d, -MaxAbs))
  BY ONLY <1>2 DEF BoundRate
<1>5. QED
  BY <1>3, <1>4 DEF Least, Greatest, Abs

LEMMA AnswerStaysInReach ==
    ASSUME Inv, AnswerInReach, [Next]_vars
    PROVE  AnswerInReach'
<1> USE FundingAssumption
<1>1. ASSUME NEW tenths \in Asked, Simulate(tenths) PROVE AnswerInReach'
  <2>1. InReach(BoundRate(SignedInt(tenths)))
    BY SignedIntType, BoundRateIsBounded DEF InReach
  <2>2. simulated'.answer = BoundRate(SignedInt(tenths)) /\ UNCHANGED <<rate, now>>
    BY <1>1 DEF Simulate, FromSolidity
  <2>3. QED
    BY <2>1, <2>2 DEF AnswerInReach, InReach
<1>2. ASSUME simulated' = NoAnswer PROVE AnswerInReach'
  BY <1>2 DEF AnswerInReach, NoAnswer
<1>3. ASSUME UNCHANGED <<simulated, rate, now>> PROVE AnswerInReach'
  BY <1>3 DEF AnswerInReach, InReach
<1>4. ASSUME NEW seconds \in 1..MaxTime - now, Tick(seconds) PROVE AnswerInReach'
  <2>1. SUFFICES ASSUME simulated.asked = "rate" PROVE InReach(simulated.answer)'
    BY <1>4 DEF AnswerInReach, Tick
  <2>2. InReach(simulated.answer) /\ simulated.answer \in Int
    BY <2>1, AnswerType DEF AnswerInReach
  <2>3. PICK t \in Nat, s \in Nat : t = now - rate.timestamp /\ s = seconds
    BY <1>4, BoundRateIsBounded, Fields
  <2>4. MaxDiff * t \in Nat /\ MaxDiff * s \in Nat /\ MaxDiff * (t + s) = MaxDiff * t + MaxDiff * s
    BY Products, MaxDiff \in Nat
  <2>5. now' - rate'.timestamp = t + s
    BY <1>4, <2>3, Fields DEF Tick
  <2>6. Abs(simulated.answer - rate.value) <= MaxDiff * t
    BY <2>2, <2>3 DEF InReach
  <2>7. Abs(simulated.answer - rate.value) \in Int
    BY <2>2, Fields DEF Abs
  <2>8. Abs(simulated.answer - rate.value) <= MaxDiff * (t + s)
    BY <2>4, <2>6, <2>7
  <2>9. QED
    BY <1>4, <2>2, <2>5, <2>8 DEF InReach, Tick
<1>5. QED
  BY <1>1, <1>2, <1>3, <1>4
     DEF Next, SetFundingRate, SetSimulatedRate, SetFundingRateProvider, LoadContext, Remember, vars

\* A provider that sets what getBoundedFundingRate has answered gets exactly this rate,
\* however much later, through the client's rounding and setFundingRate's own bounds,
\* unless the rate was set in between.
THEOREM SimulatedStaysSettable == Spec => SimulatedIsSet
<1>1. Init => AnswerInReach
  BY DEF Init, AnswerInReach, NoAnswer
<1>2. Inv /\ AnswerInReach /\ [Next]_vars => AnswerInReach'
  BY AnswerStaysInReach
<1>3. ASSUME Inv, AnswerInReach, NEW a \in Address, SetSimulatedRate(a)
      PROVE  rate'.value = simulated.answer
  <2>1. simulated.answer \in Int /\ InReach(simulated.answer)
    BY <1>3, AnswerType DEF SetSimulatedRate, AnswerInReach
  <2>2. SignedInt(10 * simulated.answer) = simulated.answer
    BY <2>1, TensAreExact
  <2>3. BoundRate(simulated.answer) = simulated.answer
    BY <1>3, <2>1, InReachIsKept
  <2>4. QED
    BY <1>3, <2>2, <2>3 DEF SetSimulatedRate, NewRate
<1>4. Inv /\ AnswerInReach
        => [\A a \in Address : SetSimulatedRate(a) => rate'.value = simulated.answer]_vars
  BY <1>3
<1>5. QED
  BY InitInv, StepInv, <1>1, <1>2, <1>4, PTL DEF Spec, SimulatedIsSet
=============================================================================
