---------------------------- MODULE P1MirrorOracle ----------------------------
(***************************************************************************)
(* P1MirrorOracle: a copy of a Maker oracle, whose signers and number of   *)
(* required signers (the bar) anybody may bring in step with the           *)
(* original's, and whose price anybody may set to the median of one signed *)
(* message each of that many signers.                                      *)
(*                                                                         *)
(* The messages are outside the chain.  Honest signers sign the market's   *)
(* price of the moment; faulty ones sign any value for any time.           *)
(***************************************************************************)
EXTENDS Integers, FiniteSets

CONSTANTS
    Signer, Nobody,   \* addresses of signers, and address(0)
    Id,               \* their first bytes
    getSignerId,      \* from signers to first bytes
    Faulty,           \* signers whose keys are in wrong hands
    Value,            \* prices of the market
    Width,            \* 2^128, the width of the stored price
    Forged,           \* values faulty signers sign; may be beyond that width
    Bars,             \* bars the Maker oracle may set
    MaxTime           \* bound: last second of the clock

ASSUME MirrorAssumption ==
    /\ Nobody \notin Signer /\ getSignerId \in [Signer -> Id]
    /\ Faulty \subseteq Signer /\ IsFiniteSet(Faulty)
    /\ Width \in Nat \ {0} /\ Value \subseteq 0..Width - 1 /\ Forged \subseteq Nat
    /\ MaxTime \in Nat

\* The Maker oracle's bars are odd.
ASSUME BarsAssumption == \A n \in Bars : n \in Nat /\ n % 2 = 1

VARIABLES
    val, age, bar,    \* _VAL_, _AGE_, _BAR_
    orcl, slot,       \* _ORCL_, as the set of its signers, and _SLOT_
    makers, makerBar, \* the Maker oracle's signers and bar
    market,           \* the market's price at each second
    now               \* block.timestamp

price == <<val, age>>
maker == <<makers, makerBar>>
vars == <<val, age, bar, orcl, slot, makers, makerBar, market, now>>

\* The constructor: nothing is mirrored yet.
Init ==
    /\ val = 0 /\ age = 0 /\ bar = 0
    /\ orcl = {} /\ slot = [i \in Id |-> Nobody]
    /\ makers = {} /\ makerBar \in Bars
    /\ now = 0
    /\ market \in [0..0 -> Value]

-----------------------------------------------------------------------------
(* Signers and bar                                                         *)

Ids(signers) == {getSignerId[s] : s \in signers}
Distinct(signers) == \A s, t \in signers : getSignerId[s] = getSignerId[t] => s = t

\* lift requires that the original has the signers, and that their slots are free.
MayLift(signers) ==
    /\ signers \subseteq makers
    /\ \A s \in signers : slot[getSignerId[s]] = Nobody
    /\ Distinct(signers)

Lift(signers) ==
    /\ MayLift(signers)
    /\ orcl' = orcl \cup signers
    /\ slot' = [i \in Id |-> IF i \in Ids(signers)
                             THEN CHOOSE s \in signers : getSignerId[s] = i ELSE slot[i]]
    /\ UNCHANGED <<price, bar, maker, market, now>>

Drop(signers) ==
    /\ signers \cap makers = {} /\ signers \subseteq orcl
    /\ orcl' = orcl \ signers
    /\ slot' = [i \in Id |-> IF i \in Ids(signers) THEN Nobody ELSE slot[i]]
    /\ UNCHANGED <<price, bar, maker, market, now>>

SetBar ==
    /\ bar' = makerBar
    /\ UNCHANGED <<price, orcl, slot, maker, market, now>>

\* The original's slot.
MakerSlot(i) ==
    IF i \in Ids(makers) THEN CHOOSE s \in makers : getSignerId[s] = i ELSE Nobody

\* Fault: a slot that both have filled is taken for the same.
ToRemoveByPresence == {i \in Id : slot[i] # Nobody /\ MakerSlot(i) = Nobody}

\* What checkSynced answers: the ids to remove and the ids to add.
ToRemove == {i \in Id : slot[i] # Nobody /\ slot[i] # MakerSlot(i)}
ToAdd == {i \in Id : MakerSlot(i) # Nobody /\ slot[i] # MakerSlot(i)}

-----------------------------------------------------------------------------
(* The price                                                               *)

\* What there may be of signed messages: recover finds the signer of each.
Messages ==
    {m \in [signer : Signer, val : Value \cup Forged, age : 0..MaxTime] :
        \/ m.signer \in Faulty
        \/ m.age <= now /\ m.val = market[m.age]}

\* Fault: any message that is not from before the last one will do.
NotOlder(m) == m.age >= age

\* A message is newer than the last update.
Newer(m) == m.age > age

\* The bitmap of signers: each id signs once.
NoneTwice(ms) ==
    \A i, j \in 1..bar : i # j => getSignerId[ms[i].signer] # getSignerId[ms[j].signer]

\* Messages are ordered by value.
Ordered(ms) == \A i \in 1..bar - 1 : ms[i].val <= ms[i + 1].val

\* val_.length >> 1, counted from one.
Middle == bar \div 2 + 1

Median(ms) == ms[Middle].val % Width

Acceptable == {m \in Messages : m.signer \in orcl /\ Newer(m)}

\* Exactly the bar's number of messages; without any, the access to the median
\* reverts.
Poke ==
    /\ bar > 0
    /\ \E ms \in [1..bar -> Acceptable] :
         /\ Ordered(ms) /\ NoneTwice(ms)
         /\ val' = Median(ms)
    /\ age' = now
    /\ UNCHANGED <<bar, orcl, slot, maker, market, now>>

-----------------------------------------------------------------------------
(* The Maker oracle, the market and the clock                              *)

\* Its lift and drop: an id has at most one signer.
MakerLifts(s) ==
    /\ getSignerId[s] \notin Ids(makers)
    /\ makers' = makers \cup {s}
    /\ UNCHANGED <<price, bar, orcl, slot, makerBar, market, now>>

MakerDrops(s) ==
    /\ s \in makers
    /\ makers' = makers \ {s}
    /\ UNCHANGED <<price, bar, orcl, slot, makerBar, market, now>>

MakerSetsBar(n) ==
    /\ makerBar' = n
    /\ UNCHANGED <<price, bar, orcl, slot, makers, market, now>>

Tick(p) ==
    /\ now < MaxTime
    /\ now' = now + 1
    /\ market' = [t \in 0..now + 1 |-> IF t = now + 1 THEN p ELSE market[t]]
    /\ UNCHANGED <<price, bar, orcl, slot, maker>>

Next ==
    \/ \E signers \in SUBSET Signer : Lift(signers) \/ Drop(signers)
    \/ SetBar
    \/ Poke
    \/ \E s \in Signer : MakerLifts(s) \/ MakerDrops(s)
    \/ \E n \in Bars : MakerSetsBar(n)
    \/ \E p \in Value : Tick(p)

Spec == Init /\ [][Next]_vars

-----------------------------------------------------------------------------
(* Properties                                                              *)

\* The stored price is within its width, and of a time that has come.
TypeOK ==
    /\ val \in 0..Width - 1 /\ now \in 0..MaxTime /\ age \in 0..now
    /\ bar \in Bars \cup {0} /\ makerBar \in Bars
    /\ orcl \subseteq Signer /\ makers \subseteq Signer
    /\ slot \in [Id -> Signer \cup {Nobody}]
    /\ market \in [0..now -> Value]

\* "orcl is filled implies slot is filled" (P1MirrorOracle.sol:281), which lift and
\* drop rely on to look at one of them only: the slots hold the signers, all of
\* them and each in its own, however the original changes in between.
SlotsAreSigners ==
    /\ \A s \in orcl : slot[getSignerId[s]] = s
    /\ \A i \in Id : slot[i] # Nobody => slot[i] \in orcl /\ getSignerId[slot[i]] = i

\* At any time, whatever lift and drop were or were not called for before: dropping
\* what checkSynced lists is accepted, so is lifting what it lists then, and the
\* signers are the original's.
SyncWorks ==
    LET removed == {slot[i] : i \in ToRemove}
        added == {MakerSlot(i) : i \in ToAdd}
    IN  /\ removed \subseteq orcl /\ removed \cap makers = {}
        /\ added \subseteq makers /\ Distinct(added)
        /\ \A s \in added : slot[getSignerId[s]] \in removed \cup {Nobody}
        /\ (orcl \ removed) \cup added = makers

\* As long as fewer than half of a bar of the mirrored signers are faulty, a poke
\* sets a price between two of the market since the poke before: what they sign,
\* once or several times, for the past or for the future, with values that the
\* width cuts, does not get through.
MedianIsHonest ==
    [][ (age' # age \/ val' # val) /\ 2 * Cardinality(Faulty \cap orcl) < bar =>
          \E t, u \in age + 1..now : market[t] <= val' /\ val' <= market[u] ]_vars
=============================================================================
