------------------------------ MODULE FundingOracle ------------------------------
(***************************************************************************)
(* P1FundingOracle with its client (src/funding_oracle.ts): a provider     *)
(* asks for a rate, the contract bounds it by the change allowed since the *)
(* last update and by an absolute value, and the ledger accrues funding    *)
(* with the rate and the price of the moment, whenever somebody makes it.  *)
(*                                                                         *)
(* Rates are signed numbers of the contract's unit; SignedBalance is the   *)
(* reason that their flags may be forgotten.                               *)
(***************************************************************************)
EXTENDS BaseMath

CONSTANTS
    MaxAbs,         \* MAX_ABS_VALUE
    MaxDiff,        \* MAX_ABS_DIFF_PER_SECOND
    IsInverse,      \* whether it is P1InverseFundingOracle
    MaxUint128,     \* width of the value of an index
    Address,        \* who may become the provider
    Asked,          \* bound: the rates providers ask for, in tenths of a unit
    Prices,         \* bound: what the price oracle answers
    MaxTime         \* bound: last second of the clock

ASSUME FundingAssumption ==
    /\ MaxAbs \in Nat /\ MaxDiff \in Nat /\ MaxTime \in Nat
    /\ IsInverse \in BOOLEAN /\ Asked \subseteq Int
    /\ MaxUint128 \in Nat /\ Prices \subseteq Nat

VARIABLES
    rate,       \* _FUNDING_RATE_
    provider,   \* _FUNDING_RATE_PROVIDER_
    now,        \* block.timestamp
    index,      \* the ledger's _GLOBAL_INDEX_, which accrues funding
    simulated,  \* the provider's last getBoundedFundingRate, until the rate changes
    anchor      \* history: the rate and the index of some earlier time, and the
                \* highest price that funding has accrued at since

vars == <<rate, provider, now, index, simulated, anchor>>

Least(a, b) == IF a < b THEN a ELSE b
Greatest(a, b) == IF a > b THEN a ELSE b

Stamped == [timestamp : Nat, value : Int]

\* toSoliditySignedInt and setFunding: tenths are rounded, halves away from zero.
SignedInt(tenths) ==
    IF tenths < 0 THEN -((5 - tenths) \div 10) ELSE (tenths + 5) \div 10

\* Fault: the flag is not read.
MagnitudeOnly(value) == Abs(value)

\* fromSolidity.
FromSolidity(value) == value

\* Fault: what is asked for is bounded by its size alone.
BoundedInSize(newRate) == Greatest(Least(newRate, MaxAbs), -MaxAbs)

\* Fault: only the change is bounded.
BoundedInChange(newRate) ==
    LET maxDiff == MaxDiff * (now - rate.timestamp)
    IN  Greatest(Least(newRate, rate.value + maxDiff), rate.value - maxDiff)

\* _boundRate.
BoundRate(newRate) ==
    LET maxDiff == MaxDiff * (now - rate.timestamp)
    IN  IF newRate > rate.value
        THEN Least(newRate, Least(rate.value + maxDiff, MaxAbs))
        ELSE Greatest(newRate, Greatest(rate.value - maxDiff, -MaxAbs))

\* getFunding: what accrues in some seconds at the rate of now.
GetFunding(seconds) == (IF IsInverse THEN -1 ELSE 1) * rate.value * seconds

-----------------------------------------------------------------------------
NoAnswer == [asked |-> "nothing"]

Init ==
    /\ rate = [timestamp |-> 0, value |-> 0]
    /\ provider \in Address
    /\ now = 0
    /\ index = [timestamp |-> 0, value |-> 0]
    /\ simulated = NoAnswer
    /\ anchor = [rate |-> rate, index |-> index, highest |-> 0]

\* getBoundedFundingRate: the provider simulates setFundingRate.
Simulate(tenths) ==
    /\ simulated' = [asked |-> "rate", answer |-> FromSolidity(BoundRate(SignedInt(tenths)))]
    /\ UNCHANGED <<rate, provider, now, index, anchor>>

\* The index that setFundingRate stores.
NewRate(newRate) == [timestamp |-> now, value |-> BoundRate(newRate)]

\* setFundingRate, asked for with a rate of the client's own.
SetFundingRate(sender, tenths) ==
    /\ sender = provider
    /\ rate' = NewRate(SignedInt(tenths))
    /\ simulated' = NoAnswer
    /\ UNCHANGED <<provider, now, index, anchor>>

\* setFundingRate, asked for with the rate of a simulation.
SetSimulatedRate(sender) ==
    /\ sender = provider /\ simulated.asked = "rate"
    /\ rate' = NewRate(SignedInt(10 * simulated.answer))
    /\ simulated' = NoAnswer
    /\ UNCHANGED <<provider, now, index, anchor>>

\* setFundingRateProvider, by the owner.
SetFundingRateProvider(newProvider) ==
    /\ provider' = newProvider
    /\ UNCHANGED <<rate, now, index, simulated, anchor>>

\* What the index moves by: the funding times the price, its magnitude rounded down.
Accrued(funding, price) ==
    IF funding < 0 THEN -BaseMul(-funding, price) ELSE BaseMul(funding, price)

\* _loadContext of the ledger: funding accrues for the time since the last one, at the
\* price of now, or the call reverts since the index outgrows its width.
LoadContext(price) ==
    LET value == index.value + Accrued(GetFunding(now - index.timestamp), price)
    IN  /\ Abs(value) <= MaxUint128
        /\ index' = [timestamp |-> now, value |-> value]
        /\ anchor' = [anchor EXCEPT !.highest = Greatest(@, price)]
        /\ UNCHANGED <<rate, provider, now, simulated>>

Tick(seconds) ==
    /\ now' = now + seconds
    /\ UNCHANGED <<rate, provider, index, simulated, anchor>>

\* History: what is looked at later.
Remember ==
    /\ anchor' = [rate |-> rate, index |-> index, highest |-> 0]
    /\ UNCHANGED <<rate, provider, now, index, simulated>>

Next ==
    \/ \E tenths \in Asked : Simulate(tenths) \/ \E a \in Address : SetFundingRate(a, tenths)
    \/ \E a \in Address : SetSimulatedRate(a) \/ SetFundingRateProvider(a)
    \/ \E price \in Prices : LoadContext(price)
    \/ \E seconds \in 1..MaxTime - now : Tick(seconds)
    \/ Remember

Spec == Init /\ [][Next]_vars

-----------------------------------------------------------------------------
(* Properties                                                              *)

Answers == [asked : {"rate"}, answer : Int] \cup {NoAnswer}

\* Rates and indexes are stamped with the time of their last change.
TypeOK ==
    /\ rate \in Stamped /\ index \in Stamped
    /\ provider \in Address /\ now \in Nat
    /\ simulated \in Answers
    /\ anchor \in [rate : Stamped, index : Stamped, highest : Nat]
    /\ rate.timestamp <= now /\ index.timestamp <= now

\* The rate never leaves its absolute bound.
RateBounded == -MaxAbs <= rate.value /\ rate.value <= MaxAbs

\* However many updates there are in between, and whoever makes them, the rate has
\* moved from an earlier one by no more than the time between them allows.  So
\* "the fastest the funding rate can go from its min to its max" is 45 minutes.
ChangeBounded ==
    LET seconds == rate.timestamp - anchor.rate.timestamp
    IN  /\ seconds >= 0
        /\ Abs(rate.value - anchor.rate.value) <= MaxDiff * seconds

\* Funding may accrue late, with a rate and a price that are younger than the time it
\* is for, but the index never moves faster than the largest rate moves it at the
\* highest price it was loaded at in the meantime (P1Settlement._loadContext).
FundingBounded ==
    LET seconds == index.timestamp - anchor.index.timestamp
    IN  /\ seconds >= 0
        /\ BASE * Abs(index.value - anchor.index.value)
             <= MaxAbs * seconds * anchor.highest

\* What getBoundedFundingRate has answered is set as it is, however late, unless
\* the rate was set in between.
SimulatedIsSet ==
    [][\A a \in Address : SetSimulatedRate(a) => rate'.value = simulated.answer]_vars
=============================================================================
