------------------------- MODULE P1MirrorOracleProofs -------------------------
(***************************************************************************)
(* Theorems about P1MirrorOracle for any signers, first bytes, bars and    *)
(* prices: slots and signers agree, following checkSynced is accepted and  *)
(* makes the mirror equal to the original, and a poke's median is a price  *)
(* of the market.                                                          *)
(*                                                                         *)
(* The last one is a pigeonhole argument: each half of the ordered         *)
(* messages, the median included, has more messages than there are faulty  *)
(* signers, so one of its messages is honest; and what is honest on either *)
(* side of the median bounds it.                                           *)
(***************************************************************************)
EXTENDS P1MirrorOracle, TotalsProofs, FiniteSetTheorems

\* The original never has two signers in one slot.
MakersDistinct == Distinct(makers)

Inv == TypeOK /\ SlotsAreSigners /\ MakersDistinct

-----------------------------------------------------------------------------
(* Signers.                                                                *)

LEMMA SlotOfLifted ==
    ASSUME NEW signers, Distinct(signers), NEW s \in signers
    PROVE  (CHOOSE t \in signers : getSignerId[t] = getSignerId[s]) = s
BY DEF Distinct

LEMMA MakerSlotIsMaker ==
    ASSUME Inv, NEW i \in Id
    PROVE  /\ MakerSlot(i) # Nobody => MakerSlot(i) \in makers /\ getSignerId[MakerSlot(i)] = i
           /\ MakerSlot(i) = Nobody => i \notin Ids(makers)
<1>1. CASE i \in Ids(makers)
  <2>1. PICK s \in makers : getSignerId[s] = i
    BY <1>1 DEF Ids
  <2>2. MakerSlot(i) = s
    BY <1>1, <2>1, SlotOfLifted DEF Inv, MakersDistinct, MakerSlot
  <2>3. s # Nobody
    BY <2>1, MirrorAssumption DEF Inv, TypeOK
  <2>4. QED
    BY <2>1, <2>2, <2>3
<1>2. CASE i \notin Ids(makers)
  BY <1>2 DEF MakerSlot
<1>3. QED
  BY <1>1, <1>2

LEMMA SlotOfMaker ==
    ASSUME Inv, NEW s \in makers
    PROVE  getSignerId[s] \in Id /\ MakerSlot(getSignerId[s]) = s
<1>1. getSignerId[s] \in Id
  BY MirrorAssumption DEF Inv, TypeOK
<1>2. getSignerId[s] \in Ids(makers)
  BY DEF Ids
<1>3. MakerSlot(getSignerId[s]) = s
  BY <1>2, SlotOfLifted DEF MakerSlot, Inv, MakersDistinct
<1>4. QED
  BY <1>1, <1>3

LEMMA InvSyncs == Inv => SyncWorks
<1> SUFFICES ASSUME Inv
             PROVE  SyncWorks
  OBVIOUS
<1> DEFINE removed == {slot[i] : i \in ToRemove}
           added == {MakerSlot(i) : i \in ToAdd}
<1>1. \A s \in removed : s \in orcl /\ s \notin makers
  <2>1. TAKE s \in removed
  <2>2. PICK i \in Id : s = slot[i] /\ slot[i] # Nobody /\ slot[i] # MakerSlot(i)
    BY DEF ToRemove
  <2>3. s \in orcl /\ getSignerId[s] = i
    BY <2>2 DEF Inv, SlotsAreSigners
  <2>4. s \notin makers
    BY <2>2, <2>3, SlotOfMaker
  <2>5. QED
    BY <2>3, <2>4
<1>2. \A s \in added : s \in makers
  BY MakerSlotIsMaker DEF ToAdd
<1>3. Distinct(added)
  BY <1>2 DEF Distinct, Inv, MakersDistinct
<1>4. \A s \in added : slot[getSignerId[s]] \in removed \cup {Nobody}
  <2>1. TAKE s \in added
  <2>2. PICK i \in Id : s = MakerSlot(i) /\ MakerSlot(i) # Nobody /\ slot[i] # MakerSlot(i)
    BY DEF ToAdd
  <2>3. getSignerId[s] = i
    BY <2>2, MakerSlotIsMaker
  <2>4. slot[i] # Nobody => i \in ToRemove
    BY <2>2 DEF ToRemove
  <2>5. QED
    BY <2>3, <2>4
<1>5. (orcl \ removed) \cup added \subseteq makers
  <2>1. ASSUME NEW s \in orcl, s \notin removed
        PROVE  s \in makers
    <3>1. slot[getSignerId[s]] = s /\ getSignerId[s] \in Id /\ s # Nobody
      BY MirrorAssumption DEF Inv, TypeOK, SlotsAreSigners
    <3>2. getSignerId[s] \notin ToRemove
      BY <2>1, <3>1
    <3>3. MakerSlot(getSignerId[s]) = s
      BY <3>1, <3>2 DEF ToRemove
    <3>4. QED
      BY <3>1, <3>3, MakerSlotIsMaker
  <2>2. QED
    BY <1>2, <2>1
<1>6. makers \subseteq (orcl \ removed) \cup added
  <2>1. ASSUME NEW s \in makers
        PROVE  s \in (orcl \ removed) \cup added
    <3>1. getSignerId[s] \in Id /\ MakerSlot(getSignerId[s]) = s /\ s # Nobody
      BY SlotOfMaker, MirrorAssumption DEF Inv, TypeOK
    <3>2. CASE slot[getSignerId[s]] = s
      <4>1. s \in orcl
        BY <3>1, <3>2 DEF Inv, SlotsAreSigners
      <4>2. QED
        BY <4>1, <1>1
    <3>3. CASE slot[getSignerId[s]] # s
      <4>1. getSignerId[s] \in ToAdd
        BY <3>1, <3>3 DEF ToAdd
      <4>2. QED
        BY <3>1, <4>1
    <3>4. QED
      BY <3>2, <3>3
  <2>2. QED
    BY <2>1
<1>7. QED
  BY <1>1, <1>2, <1>3, <1>4, <1>5, <1>6 DEF SyncWorks

-----------------------------------------------------------------------------
(* Messages.                                                               *)

\* A bar of messages as poke requires them.
Accepted(ms) == /\ bar > 0 /\ ms \in [1..bar -> Acceptable]
                /\ Ordered(ms) /\ NoneTwice(ms)

LEMMA MessageType ==
    ASSUME Inv, NEW m \in Acceptable
    PROVE  /\ m.signer \in orcl /\ m.val \in Nat /\ m.age \in Nat /\ m.age > age
           /\ m.signer \notin Faulty => m.age <= now /\ m.val = market[m.age]
<1>1. m \in Messages /\ m.signer \in orcl /\ m.age > age
  BY DEF Acceptable, Newer
<1>2. m \in [signer : Signer, val : Value \cup Forged, age : 0..MaxTime]
  BY <1>1 DEF Messages
<1>3. m.val \in Nat /\ m.age \in Nat
  <2>1. m.val \in Value \cup Forged /\ m.age \in 0..MaxTime
    BY ONLY <1>2
  <2>2. Value \cup Forged \subseteq Nat
    BY MirrorAssumption
  <2>3. QED
    BY <2>1, <2>2
<1>4. m.signer \notin Faulty => m.age <= now /\ m.val = market[m.age]
  BY <1>1 DEF Messages
<1>5. QED
  BY <1>1, <1>3, <1>4

\* Neighbours in order make all of them ordered.
LEMMA Sorted ==
    ASSUME Inv, NEW ms, Accepted(ms), NEW i \in 1..bar, NEW j \in 1..bar, i <= j
    PROVE  ms[i].val <= ms[j].val
<1> DEFINE S == {d \in 0..bar - i : ms[i].val <= ms[i + d].val}
<1>1. bar \in Nat
  BY BarsAssumption DEF Inv, TypeOK
<1>2. \A k \in 1..bar : ms[k].val \in Nat
  BY MessageType DEF Accepted
<1>3. bar - i \in Nat
  BY <1>1
<1>4. 0 \in S
  BY <1>2, <1>3
<1>5. ASSUME NEW d \in 1..bar - i, d - 1 \in S
      PROVE  d \in S
  <2>1. i + (d - 1) \in 1..bar - 1 /\ i + (d - 1) \in 1..bar /\ i + d \in 1..bar
    BY <1>1, <1>5
  <2>2. ms[i + (d - 1)].val <= ms[(i + (d - 1)) + 1].val
    BY <2>1 DEF Accepted, Ordered
  <2>3. (i + (d - 1)) + 1 = i + d
    BY <1>1
  <2>4. ms[i].val <= ms[i + d].val
    BY <1>2, <1>5, <2>1, <2>2, <2>3
  <2>5. QED
    BY <1>3, <2>4
<1>6. \A d \in 0..bar - i : d \in S
  <2> HIDE DEF S
  <2>1. QED
    BY <1>3, <1>4, <1>5, IntervalInduction
<1>7. j - i \in S
  BY <1>1, <1>6
<1>8. QED
  BY <1>7

\* A bar is twice its half and one.
LEMMA MiddleOfBar ==
    ASSUME Inv, bar > 0
    PROVE  /\ bar \in Nat /\ Middle \in 1..bar /\ bar = 2 * Middle - 1
           /\ Cardinality(1..Middle) = Middle /\ Cardinality(Middle..bar) = Middle
           /\ IsFiniteSet(1..Middle) /\ IsFiniteSet(Middle..bar)
<1>1. bar \in Nat /\ bar % 2 = 1
  BY BarsAssumption DEF Inv, TypeOK
<1>2. Middle \in 1..bar /\ bar = 2 * Middle - 1
  BY <1>1 DEF Middle
<1>3. QED
  BY <1>1, <1>2, FS_Interval

\* Of as many messages as the middle's number, one is honest.
LEMMA OneIsHonest ==
    ASSUME Inv, NEW ms, Accepted(ms), 2 * Cardinality(Faulty \cap orcl) < bar,
           NEW I \in SUBSET (1..bar), IsFiniteSet(I), Cardinality(I) = Middle
    PROVE  \E i \in I : ms[i].signer \notin Faulty
<1> DEFINE F == Faulty \cap orcl
           f == [i \in I |-> ms[i].signer]
<1>1. SUFFICES ASSUME \A i \in I : ms[i].signer \in Faulty
               PROVE  FALSE
  OBVIOUS
<1>2. IsFiniteSet(F) /\ Cardinality(F) \in Nat
  BY MirrorAssumption, FS_Subset, FS_CardinalityType
<1>3. Cardinality(F) < Cardinality(I)
  BY <1>2, MiddleOfBar DEF Accepted
<1>4. f \in [I -> F]
  <2>1. \A i \in I : ms[i].signer \in orcl
    BY MessageType DEF Accepted
  <2>2. QED
    BY <1>1, <2>1
<1>5. PICK i \in I, j \in I : i # j /\ f[i] = f[j]
  <2> HIDE DEF F, f
  <2>1. QED
    BY <1>2, <1>3, <1>4, FS_PigeonHole
<1>6. ms[i].signer = ms[j].signer
  BY <1>5
<1>7. QED
  BY <1>5, <1>6 DEF Accepted, NoneTwice

LEMMA Remainder ==
    ASSUME NEW n \in Nat \ {0}, NEW v \in Nat
    PROVE  v % n \in 0..n - 1 /\ (v < n => v % n = v)
OBVIOUS

\* A price of the market is stored as it is.
LEMMA MarketPrice ==
    ASSUME Inv, NEW t \in 0..now
    PROVE  market[t] \in 0..Width - 1
BY MirrorAssumption DEF Inv, TypeOK

LEMMA MedianBetween ==
    ASSUME Inv, NEW ms, Accepted(ms), 2 * Cardinality(Faulty \cap orcl) < bar
    PROVE  \E t, u \in age + 1..now : market[t] <= Median(ms) /\ Median(ms) <= market[u]
<1>1. \A i \in 1..bar : ms[i] \in Acceptable
  BY DEF Accepted
<1>2. Middle \in 1..bar /\ bar \in Nat /\ 1..Middle \in SUBSET (1..bar)
        /\ Middle..bar \in SUBSET (1..bar)
  BY MiddleOfBar DEF Accepted
<1>3. PICK i \in 1..Middle : ms[i].signer \notin Faulty
  BY <1>2, MiddleOfBar, OneIsHonest DEF Accepted
<1>4. PICK j \in Middle..bar : ms[j].signer \notin Faulty
  BY <1>2, MiddleOfBar, OneIsHonest DEF Accepted
<1>5. ms[i].val <= ms[Middle].val /\ ms[Middle].val <= ms[j].val
  BY <1>2, Sorted
<1>6. age \in Nat /\ now \in Nat
  BY MirrorAssumption DEF Inv, TypeOK
<1>7. ms[i].age \in age + 1..now /\ ms[i].val = market[ms[i].age]
  BY <1>1, <1>2, <1>3, <1>6, MessageType
<1>8. ms[j].age \in age + 1..now /\ ms[j].val = market[ms[j].age]
  BY <1>1, <1>2, <1>4, <1>6, MessageType
<1>9. ms[Middle].val \in Nat /\ ms[j].val \in 0..Width - 1
  BY <1>1, <1>2, <1>6, <1>8, MessageType, MarketPrice
<1>10. Median(ms) = ms[Middle].val
  <2>1. ms[Middle].val < Width
    BY <1>5, <1>9, MirrorAssumption
  <2>2. Width \in Nat \ {0}
    BY MirrorAssumption
  <2>3. ms[Middle].val % Width = ms[Middle].val
    BY <1>9, <2>1, <2>2, Remainder
  <2>4. QED
    BY <2>3 DEF Median
<1>11. QED
  BY <1>5, <1>7, <1>8, <1>10

-----------------------------------------------------------------------------
(* Steps.                                                                  *)

LEMMA InitInv == Init => Inv
<1> SUFFICES ASSUME Init
             PROVE  Inv
  OBVIOUS
<1>1. TypeOK
  BY MirrorAssumption DEF Init, TypeOK
<1>2. SlotsAreSigners
  BY DEF Init, SlotsAreSigners
<1>3. MakersDistinct
  BY DEF Init, MakersDistinct, Distinct
<1>4. QED
  BY <1>1, <1>2, <1>3 DEF Inv

LEMMA LiftInv ==
    ASSUME Inv, NEW signers \in SUBSET Signer, Lift(signers)
    PROVE  Inv'
<1> DEFINE Holder(i) == CHOOSE s \in signers : getSignerId[s] = i
<1>1. \A i \in Id : /\ i \in Ids(signers) => /\ slot'[i] = Holder(i) /\ Holder(i) \in signers
                                             /\ getSignerId[Holder(i)] = i
                    /\ i \notin Ids(signers) => slot'[i] = slot[i]
  BY DEF Lift, Ids
<1>2. \A s \in signers : getSignerId[s] \in Id /\ Holder(getSignerId[s]) = s
  BY MirrorAssumption, SlotOfLifted DEF Lift, MayLift
<1>3. TypeOK'
  <2>1. slot' \in [Id -> Signer \cup {Nobody}]
    BY <1>1 DEF Lift, Inv, TypeOK
  <2>2. QED
    BY <2>1 DEF Lift, Inv, TypeOK, price, maker
<1>4. SlotsAreSigners'
  <2>1. ASSUME NEW s \in orcl'
        PROVE  slot'[getSignerId[s]] = s
    <3>1. CASE s \in signers
      <4>1. getSignerId[s] \in Ids(signers) /\ getSignerId[s] \in Id
        BY <1>2, <3>1 DEF Ids
      <4>2. slot'[getSignerId[s]] = Holder(getSignerId[s])
        BY <1>1, <4>1
      <4>3. QED
        BY <1>2, <3>1, <4>2
    <3>2. CASE s \in orcl
      <4>1. slot[getSignerId[s]] = s /\ getSignerId[s] \in Id /\ s # Nobody
        BY <3>2, MirrorAssumption DEF Inv, TypeOK, SlotsAreSigners
      <4>2. getSignerId[s] \notin Ids(signers)
        BY <4>1 DEF Lift, MayLift, Ids
      <4>3. QED
        BY <1>1, <4>1, <4>2
    <3>3. QED
      BY <2>1, <3>1, <3>2 DEF Lift
  <2>2. ASSUME NEW i \in Id, slot'[i] # Nobody
        PROVE  slot'[i] \in orcl' /\ getSignerId[slot'[i]] = i
    BY <1>1, <2>2 DEF Lift, Inv, SlotsAreSigners
  <2>3. QED
    BY <2>1, <2>2 DEF SlotsAreSigners
<1>5. MakersDistinct'
  BY DEF Lift, maker, Inv, MakersDistinct, Distinct
<1>6. QED
  BY <1>3, <1>4, <1>5 DEF Inv

LEMMA DropInv ==
    ASSUME Inv, NEW signers \in SUBSET Signer, Drop(signers)
    PROVE  Inv'
<1>1. \A i \in Id : slot'[i] = IF i \in Ids(signers) THEN Nobody ELSE slot[i]
  BY DEF Drop
<1>2. TypeOK'
  <2>1. slot' \in [Id -> Signer \cup {Nobody}]
    BY <1>1 DEF Drop, Inv, TypeOK
  <2>2. QED
    BY <2>1 DEF Drop, Inv, TypeOK, price, maker
<1>3. SlotsAreSigners'
  <2>1. ASSUME NEW s \in orcl'
        PROVE  slot'[getSignerId[s]] = s
    <3>1. s \in orcl /\ s \notin signers /\ slot[getSignerId[s]] = s /\ getSignerId[s] \in Id
      BY MirrorAssumption DEF Drop, Inv, TypeOK, SlotsAreSigners
    <3>2. getSignerId[s] \notin Ids(signers)
      BY <3>1 DEF Drop, Ids, Inv, SlotsAreSigners
    <3>3. QED
      BY <1>1, <3>1, <3>2
  <2>2. ASSUME NEW i \in Id, slot'[i] # Nobody
        PROVE  slot'[i] \in orcl' /\ getSignerId[slot'[i]] = i
    <3>1. i \notin Ids(signers) /\ slot'[i] = slot[i]
      BY <1>1, <2>2
    <3>2. slot[i] \in orcl /\ getSignerId[slot[i]] = i
      BY <2>2, <3>1 DEF Inv, SlotsAreSigners
    <3>3. slot[i] \notin signers
      BY <3>1, <3>2 DEF Ids
    <3>4. QED
      BY <3>1, <3>2, <3>3 DEF Drop
  <2>3. QED
    BY <2>1, <2>2 DEF SlotsAreSigners
<1>4. MakersDistinct'
  BY DEF Drop, maker, Inv, MakersDistinct, Distinct
<1>5. QED
  BY <1>2, <1>3, <1>4 DEF Inv

LEMMA PokeInv ==
    ASSUME Inv, Poke
    PROVE  Inv'
<1>1. PICK ms \in [1..bar -> Acceptable] : Ordered(ms) /\ NoneTwice(ms) /\ val' = Median(ms)
  BY DEF Poke
<1>2. ms[Middle].val \in Nat
  BY MiddleOfBar, MessageType DEF Poke
<1>3. val' \in 0..Width - 1
  BY <1>1, <1>2, MirrorAssumption, Remainder DEF Median
<1>4. TypeOK'
  BY <1>3, MirrorAssumption DEF Poke, maker, Inv, TypeOK
<1>5. SlotsAreSigners' /\ MakersDistinct'
  BY DEF Poke, maker, Inv, SlotsAreSigners, MakersDistinct, Distinct
<1>6. QED
  BY <1>4, <1>5 DEF Inv

LEMMA MakerInv ==
    ASSUME Inv, NEW s \in Signer, MakerLifts(s) \/ MakerDrops(s)
    PROVE  Inv'
<1>1. TypeOK'
  BY DEF MakerLifts, MakerDrops, price, Inv, TypeOK
<1>2. SlotsAreSigners'
  BY DEF MakerLifts, MakerDrops, Inv, SlotsAreSigners
<1>3. MakersDistinct'
  BY DEF MakerLifts, MakerDrops, Inv, MakersDistinct, Distinct, Ids
<1>4. QED
  BY <1>1, <1>2, <1>3 DEF Inv

LEMMA TickInv ==
    ASSUME Inv, NEW p \in Value, Tick(p)
    PROVE  Inv'
<1>1. now \in Nat /\ now' = now + 1 /\ now' \in 0..MaxTime
  BY MirrorAssumption DEF Tick, Inv, TypeOK
<1>2. market' \in [0..now' -> Value]
  <2>1. ASSUME NEW t \in 0..now + 1
        PROVE  (IF t = now + 1 THEN p ELSE market[t]) \in Value
    <3>1. t # now + 1 => t \in 0..now
      BY <1>1
    <3>2. QED
      BY <3>1 DEF Inv, TypeOK
  <2>2. QED
    BY <1>1, <2>1 DEF Tick
<1>3. TypeOK'
  BY <1>1, <1>2 DEF Tick, price, maker, Inv, TypeOK
<1>4. SlotsAreSigners' /\ MakersDistinct'
  BY DEF Tick, maker, Inv, SlotsAreSigners, MakersDistinct, Distinct
<1>5. QED
  BY <1>3, <1>4 DEF Inv

LEMMA NextInv == Inv /\ [Next]_vars => Inv'
<1> SUFFICES ASSUME Inv, [Next]_vars
             PROVE  Inv'
  OBVIOUS
<1>1. ASSUME NEW signers \in SUBSET Signer, Lift(signers) \/ Drop(signers)
      PROVE  Inv'
  BY <1>1, LiftInv, DropInv
<1>2. CASE SetBar
  BY <1>2 DEF SetBar, price, maker, Inv, TypeOK, SlotsAreSigners, MakersDistinct, Distinct
<1>3. CASE Poke
  BY <1>3, PokeInv
<1>4. ASSUME NEW s \in Signer, MakerLifts(s) \/ MakerDrops(s)
      PROVE  Inv'
  BY <1>4, MakerInv
<1>5. ASSUME NEW n \in Bars, MakerSetsBar(n)
      PROVE  Inv'
  BY <1>5 DEF MakerSetsBar, price, Inv, TypeOK, SlotsAreSigners, MakersDistinct, Distinct
<1>6. ASSUME NEW p \in Value, Tick(p)
      PROVE  Inv'
  BY <1>6, TickInv
<1>7. CASE UNCHANGED vars
  BY <1>7 DEF vars, Inv, TypeOK, SlotsAreSigners, MakersDistinct, Distinct
<1>8. QED
  BY <1>1, <1>2, <1>3, <1>4, <1>5, <1>6, <1>7 DEF Next

LEMMA StepIsHonest ==
    ASSUME Inv, [Next]_vars, age' # age \/ val' # val,
           2 * Cardinality(Faulty \cap orcl) < bar
    PROVE  \E t, u \in age + 1..now : market[t] <= val' /\ val' <= market[u]
<1>1. Poke
  BY DEF Next, vars, price, Lift, Drop, SetBar, MakerLifts, MakerDrops, MakerSetsBar, Tick
<1>2. PICK ms \in [1..bar -> Acceptable] : Ordered(ms) /\ NoneTwice(ms) /\ val' = Median(ms)
  BY <1>1 DEF Poke
<1>3. Accepted(ms)
  BY <1>1, <1>2 DEF Poke, Accepted
<1>4. QED
  BY <1>2, <1>3, MedianBetween

-----------------------------------------------------------------------------

LEMMA InvHolds == Spec => []Inv
<1>1. QED
  BY InitInv, NextInv, PTL DEF Spec

\* The price is within its width and its time has come.
THEOREM TypeCorrect == Spec => []TypeOK
<1>1. Inv => TypeOK
  BY DEF Inv
<1>2. QED
  BY <1>1, InvHolds, PTL

\* Slots and signers agree, so lift and drop may look at one of them only.
THEOREM SlotsHoldSigners == Spec => []SlotsAreSigners
<1>1. Inv => SlotsAreSigners
  BY DEF Inv
<1>2. QED
  BY <1>1, InvHolds, PTL

\* Doing what checkSynced says is accepted and makes the signers the original's.
THEOREM SyncAlwaysWorks == Spec => []SyncWorks
<1>1. QED
  BY InvSyncs, InvHolds, PTL

\* A poke with fewer faulty signers than half the bar sets a price of the market.
THEOREM MedianStaysHonest == Spec => MedianIsHonest
<1>1. Inv /\ [Next]_vars =>
        [ (age' # age \/ val' # val) /\ 2 * Cardinality(Faulty \cap orcl) < bar =>
            \E t, u \in age + 1..now : market[t] <= val' /\ val' <= market[u] ]_vars
  BY StepIsHonest DEF vars
<1>2. QED
  BY <1>1, InvHolds, PTL DEF Spec, MedianIsHonest
=============================================================================
