------------------------- MODULE SignedBalanceProofs -------------------------
(***************************************************************************)
(* The contract's balance arithmetic implements integer arithmetic, for    *)
(* any fixed-point unit, slot width and amounts.                           *)
(***************************************************************************)
EXTENDS SignedBalance, TLAPS

LEMMA SignedArithmetic ==
    ASSUME NEW s \in SignedInt, NEW n \in Nat
    PROVE  /\ Add(s, n) \in SignedInt /\ ToInt(Add(s, n)) = ToInt(s) + n
           /\ Sub(s, n) \in SignedInt /\ ToInt(Sub(s, n)) = ToInt(s) - n
           /\ ToInt(s) \in Int /\ Abs(ToInt(s)) = s.value
BY DEF SignedInt, Add, Sub, ToInt, Pair, Abs

\* The comparison of signed numbers is that of integers, zeros included.
THEOREM GtComparesIntegers ==
    ASSUME NEW a \in SignedInt, NEW b \in SignedInt
    PROVE  Gt(a, b) <=> ToInt(a) > ToInt(b)
BY DEF SignedInt, Gt, ToInt

LEMMA PairType ==
    ASSUME NEW value \in Nat, NEW isPositive \in BOOLEAN
    PROVE  /\ Pair(value, isPositive) \in SignedInt
           /\ Pair(value, isPositive).value = value
           /\ Pair(value, isPositive).isPositive = isPositive
BY DEF Pair, SignedInt

LEMMA FieldTypes ==
    ASSUME TypeOK
    PROVE  /\ balance.margin \in Nat /\ balance.marginIsPositive \in BOOLEAN
           /\ balance.position \in Nat /\ balance.positionIsPositive \in BOOLEAN
           /\ GetMargin(balance) \in SignedInt /\ GetPosition(balance) \in SignedInt
           /\ localIndex \in SignedInt
<1> USE MathAssumption, AmountAssumption
<1>1. /\ balance.margin \in Nat /\ balance.marginIsPositive \in BOOLEAN
      /\ balance.position \in Nat /\ balance.positionIsPositive \in BOOLEAN
  BY DEF TypeOK, PackedBalance
<1>2. GetMargin(balance) \in SignedInt /\ GetPosition(balance) \in SignedInt
  BY <1>1, PairType DEF GetMargin, GetPosition
<1>3. IndexValue \cup {0} \subseteq Nat
  OBVIOUS
<1>4. localIndex \in SignedInt
  BY <1>3 DEF TypeOK, SignedInt
<1>5. QED
  BY <1>1, <1>2, <1>4

\* What storing one side of the balance does.
LEMMA StoredMargin ==
    ASSUME TypeOK, NEW new \in SignedInt, StoreMargin(new)
    PROVE  /\ balance' \in PackedBalance
           /\ GetMargin(balance)' = new
           /\ GetPosition(balance)' = GetPosition(balance)
           /\ FitsUint120(ToInt(new))
<1> USE MathAssumption
<1>1. /\ new.value \in Nat /\ new.isPositive \in BOOLEAN
      /\ new = Pair(new.value, new.isPositive)
  BY DEF SignedInt, Pair
<1>2. balance \in PackedBalance
  BY DEF TypeOK
<1>3. new.value \in 0..MaxUint120 /\ balance' = SetMargin(balance, new)
  BY <1>1 DEF StoreMargin
<1>4. balance' \in PackedBalance
  BY <1>1, <1>2, <1>3 DEF PackedBalance, SetMargin
<1>5. /\ balance'.margin = new.value /\ balance'.marginIsPositive = new.isPositive
      /\ balance'.position = balance.position
      /\ balance'.positionIsPositive = balance.positionIsPositive
  BY <1>2, <1>3 DEF PackedBalance, SetMargin
<1>6. FitsUint120(ToInt(new))
  BY <1>3, SignedArithmetic DEF FitsUint120
<1>7. QED
  BY <1>1, <1>4, <1>5, <1>6 DEF GetMargin, GetPosition

LEMMA StoredPosition ==
    ASSUME TypeOK, NEW new \in SignedInt, StorePosition(new)
    PROVE  /\ balance' \in PackedBalance
           /\ GetPosition(balance)' = new
           /\ GetMargin(balance)' = GetMargin(balance)
           /\ FitsUint120(ToInt(new))
<1> USE MathAssumption
<1>1. /\ new.value \in Nat /\ new.isPositive \in BOOLEAN
      /\ new = Pair(new.value, new.isPositive)
  BY DEF SignedInt, Pair
<1>2. balance \in PackedBalance
  BY DEF TypeOK
<1>3. new.value \in 0..MaxUint120 /\ balance' = SetPosition(balance, new)
  BY <1>1 DEF StorePosition
<1>4. balance' \in PackedBalance
  BY <1>1, <1>2, <1>3 DEF PackedBalance, SetPosition
<1>5. /\ balance'.position = new.value /\ balance'.positionIsPositive = new.isPositive
      /\ balance'.margin = balance.margin
      /\ balance'.marginIsPositive = balance.marginIsPositive
  BY <1>2, <1>3 DEF PackedBalance, SetPosition
<1>6. FitsUint120(ToInt(new))
  BY <1>3, SignedArithmetic DEF FitsUint120
<1>7. QED
  BY <1>1, <1>4, <1>5, <1>6 DEF GetMargin, GetPosition

LEMMA Multiplication ==
    ASSUME NEW d \in Int, NEW p \in Int
    PROVE  /\ Abs(d) * Abs(p) \in Int
           /\ d = 0 \/ p = 0 => d * p = 0
           /\ d * p < 0 <=> (d < 0 /\ p > 0) \/ (d > 0 /\ p < 0)
           /\ d = 0 \/ p = 0 => Abs(d) * Abs(p) = 0
BY DEF Abs

LEMMA RoundingZero ==
    ASSUME NEW a \in Int, NEW b \in Int, a = 0 \/ b = 0
    PROVE  BaseMul(a, b) = 0 /\ BaseMulRoundUp(a, b) = 0
<1> USE MathAssumption
<1>1. a * b = 0
  BY Multiplication
<1>2. 0 \div BASE = 0
  OBVIOUS
<1>3. QED
  BY ONLY <1>1, <1>2 DEF BaseMul, BaseMulRoundUp

LEMMA MinusZero ==
    ASSUME NEW z \in Int, z <= 0, z >= 0
    PROVE  -z = 0
OBVIOUS

\* No movement of the index, or no position: no funding.
LEMMA SettlementOfNothing ==
    ASSUME NEW d \in Int, NEW p \in Int, d = 0 \/ p = 0
    PROVE  Settlement(d, p) = 0
<1>1. ~(d * p < 0)
  BY Multiplication
<1>2. PICK a \in Int, b \in Int : a = Abs(d) /\ b = Abs(p) /\ (a = 0 \/ b = 0)
  BY DEF Abs
<1>3. PICK z \in Int : z = BaseMulRoundUp(a, b) /\ z <= 0 /\ z >= 0
  BY <1>2, RoundingZero
<1>4. Settlement(d, p) = -z
  BY ONLY <1>1, <1>2, <1>3 DEF Settlement
<1>5. QED
  BY ONLY <1>3, <1>4, MinusZero

LEMMA InitType == Init => TypeOK
BY MathAssumption, AmountAssumption DEF Init, TypeOK, PackedBalance, Pair

\* The flag of a settlement: a credit exactly when the product is negative.
LEMMA SettlementBySigns ==
    ASSUME NEW d \in SignedInt, NEW p \in SignedInt, p.value # 0
    PROVE  /\ d.isPositive # p.isPositive
                => Settlement(ToInt(d), ToInt(p)) = BaseMul(d.value, p.value)
           /\ d.isPositive = p.isPositive
                => Settlement(ToInt(d), ToInt(p)) = -BaseMulRoundUp(d.value, p.value)
<1> USE MathAssumption
<1>1. PICK x \in Int, y \in Int : x = ToInt(d) /\ y = ToInt(p)
  BY SignedArithmetic
<1>2. Abs(x) = d.value /\ Abs(y) = p.value /\ d.value \in Nat /\ p.value \in Nat
  BY <1>1, SignedArithmetic DEF SignedInt
<1>3. x * y < 0 <=> (x < 0 /\ y > 0) \/ (x > 0 /\ y < 0)
  BY Multiplication
<1>4. CASE d.value = 0
  <2>1. x = 0
    BY <1>2, <1>4 DEF Abs
  <2>2. PICK z \in Int : z = BaseMulRoundUp(d.value, p.value) /\ z <= 0 /\ z >= 0
    BY <1>2, <1>4, RoundingZero
  <2>3. BaseMul(d.value, p.value) = 0
    BY <1>2, <1>4, RoundingZero
  <2>4. Settlement(x, y) = 0
    BY <2>1, SettlementOfNothing
  <2>5. -z = 0
    BY ONLY <2>2, MinusZero
  <2>6. QED
    BY ONLY <1>1, <2>2, <2>3, <2>4, <2>5
<1>5. CASE d.value # 0
  <2>1. x * y < 0 <=> d.isPositive # p.isPositive
    BY <1>1, <1>2, <1>3, <1>5 DEF ToInt, SignedInt
  <2>2. QED
    BY <1>1, <1>2, <2>1 DEF Settlement
<1>6. QED
  BY <1>4, <1>5

\* What settling to an index computes.
LEMMA DiffType ==
    ASSUME TypeOK, NEW value \in IndexValue, NEW isPositive \in BOOLEAN
    PROVE  /\ Pair(value, isPositive) \in SignedInt
           /\ IndexDiff(Pair(value, isPositive)) \in SignedInt
           /\ ToInt(IndexDiff(Pair(value, isPositive)))
                = ToInt(Pair(value, isPositive)) - ToInt(localIndex)
<1>1. localIndex \in SignedInt /\ localIndex.value \in Nat
  BY FieldTypes DEF SignedInt
<1>2. PICK new \in SignedInt : new = Pair(value, isPositive)
  BY AmountAssumption, PairType
<1>3. CASE localIndex.isPositive
  <2>1. IndexDiff(new) = Sub(new, localIndex.value) /\ ToInt(localIndex) = localIndex.value
    BY <1>3 DEF IndexDiff, ToInt
  <2>2. QED
    BY <1>1, <1>2, <2>1, SignedArithmetic
<1>4. CASE ~localIndex.isPositive
  <2>1. IndexDiff(new) = Add(new, localIndex.value) /\ ToInt(localIndex) = -localIndex.value
    BY <1>4 DEF IndexDiff, ToInt
  <2>2. ToInt(new) \in Int
    BY SignedArithmetic
  <2>3. ToInt(new) + localIndex.value = ToInt(new) - (-localIndex.value)
    BY <1>1, <2>2
  <2>4. QED
    BY <1>1, <1>2, <2>1, <2>3, SignedArithmetic
<1>5. QED
  BY <1>3, <1>4

LEMMA RoundedType ==
    ASSUME NEW x \in Nat, NEW y \in Nat
    PROVE  BaseMul(x, y) \in Nat /\ BaseMulRoundUp(x, y) \in Nat
<1> USE MathAssumption
<1>1. PICK z \in Nat : z = x * y
  OBVIOUS
<1>2. z # 0 => (z - 1) \in Nat
  OBVIOUS
<1>3. \A w \in Nat : w \div BASE \in Nat
  OBVIOUS
<1>4. QED
  BY <1>1, <1>2, <1>3 DEF BaseMul, BaseMulRoundUp

\* The cases of an operation: which side it stores, and what.
LEMMA Operations ==
    ASSUME TypeOK, Next
    PROVE  \/ \E new \in SignedInt, amount \in Amount :
                 /\ StoreMargin(new) /\ localIndex' = localIndex
                 /\ ToInt(new) \in {ToInt(GetMargin(balance)) + amount,
                                    ToInt(GetMargin(balance)) - amount}
           \/ \E new \in SignedInt, amount \in Amount :
                 /\ StorePosition(new) /\ localIndex' = localIndex
                 /\ ToInt(new) \in {ToInt(GetPosition(balance)) + amount,
                                    ToInt(GetPosition(balance)) - amount}
           \/ \E value \in IndexValue, isPositive \in BOOLEAN :
                 Settle(Pair(value, isPositive))
<1> USE AmountAssumption
<1>1. GetMargin(balance) \in SignedInt /\ GetPosition(balance) \in SignedInt
  BY FieldTypes
<1>2. ASSUME NEW amount \in Amount,
             AddToMargin(amount) \/ SubFromMargin(amount)
      PROVE  \E new \in SignedInt :
                 /\ StoreMargin(new) /\ localIndex' = localIndex
                 /\ ToInt(new) \in {ToInt(GetMargin(balance)) + amount,
                                    ToInt(GetMargin(balance)) - amount}
  BY <1>1, <1>2, SignedArithmetic DEF AddToMargin, SubFromMargin
<1>3. ASSUME NEW amount \in Amount,
             AddToPosition(amount) \/ SubFromPosition(amount)
      PROVE  \E new \in SignedInt :
                 /\ StorePosition(new) /\ localIndex' = localIndex
                 /\ ToInt(new) \in {ToInt(GetPosition(balance)) + amount,
                                    ToInt(GetPosition(balance)) - amount}
  BY <1>1, <1>3, SignedArithmetic DEF AddToPosition, SubFromPosition
<1>4. QED
  BY <1>2, <1>3 DEF Next

\* Settling moves the margin by the rounded product of integers.
LEMMA SettleMargin ==
    ASSUME TypeOK, NEW value \in IndexValue, NEW isPositive \in BOOLEAN,
           Settle(Pair(value, isPositive))
    PROVE  /\ balance' \in PackedBalance
           /\ GetPosition(balance)' = GetPosition(balance)
           /\ ToInt(GetMargin(balance))'
                = ToInt(GetMargin(balance))
                    + Settlement(ToInt(Pair(value, isPositive)) - ToInt(localIndex),
                                 ToInt(GetPosition(balance)))
           /\ FitsUint120(ToInt(GetMargin(balance))')
<1> USE MathAssumption
<1>1. PICK diff \in SignedInt :
        /\ diff = IndexDiff(Pair(value, isPositive))
        /\ ToInt(diff) = ToInt(Pair(value, isPositive)) - ToInt(localIndex)
  BY DiffType
<1>2. PICK margin \in SignedInt, position \in SignedInt :
        margin = GetMargin(balance) /\ position = GetPosition(balance)
  BY FieldTypes
<1>3. position.value = balance.position /\ position.isPositive = balance.positionIsPositive
  BY <1>2 DEF GetPosition, Pair
<1>4. PICK down \in Nat, up \in Nat :
        /\ down = BaseMul(diff.value, position.value)
        /\ up = BaseMulRoundUp(diff.value, position.value)
  BY RoundedType DEF SignedInt
<1>5. CASE balance.position = 0 /\ UNCHANGED balance
  <2>1. ToInt(position) = 0
    <3>1. position.value = 0
      BY <1>3, <1>5
    <3>2. position.value = IF position.isPositive THEN ToInt(position) ELSE -ToInt(position)
      BY DEF ToInt, SignedInt
    <3>3. ToInt(position) \in Int
      BY SignedArithmetic
    <3>4. QED
      BY <3>1, <3>2, <3>3
  <2>2. Settlement(ToInt(diff), 0) = 0
    BY SettlementOfNothing, SignedArithmetic, 0 \in Int
  <2>3. FitsUint120(ToInt(margin))
    <3>1. margin.value \in 0..MaxUint120
      BY <1>2 DEF TypeOK, PackedBalance, GetMargin, Pair
    <3>2. QED
      BY <3>1, SignedArithmetic DEF FitsUint120
  <2>4. ToInt(margin) + 0 = ToInt(margin)
    BY SignedArithmetic
  <2>5. QED
    BY <1>1, <1>2, <1>5, <2>1, <2>2, <2>3, <2>4 DEF TypeOK
<1>6. CASE /\ balance.position # 0
           /\ diff.isPositive # balance.positionIsPositive
           /\ StoreMargin(Add(margin, down))
  <2>1. Settlement(ToInt(diff), ToInt(position)) = down
    BY <1>3, <1>4, <1>6, SettlementBySigns
  <2>2. PICK new \in SignedInt :
          new = Add(margin, down) /\ ToInt(new) = ToInt(margin) + down
    BY SignedArithmetic
  <2>3. QED
    BY <1>1, <1>2, <1>6, <2>1, <2>2, StoredMargin
<1>7. CASE /\ balance.position # 0
           /\ diff.isPositive = balance.positionIsPositive
           /\ StoreMargin(Sub(margin, up))
  <2>1. Settlement(ToInt(diff), ToInt(position)) = -up
    BY <1>3, <1>4, <1>7, SettlementBySigns
  <2>2. PICK new \in SignedInt :
          new = Sub(margin, up) /\ ToInt(new) = ToInt(margin) - up
    BY SignedArithmetic
  <2>3. ToInt(margin) - up = ToInt(margin) + (-up)
    BY SignedArithmetic
  <2>4. QED
    BY <1>1, <1>2, <1>7, <2>1, <2>2, <2>3, StoredMargin
<1>8. QED
  BY <1>1, <1>2, <1>3, <1>4, <1>5, <1>6, <1>7 DEF Settle

LEMMA NextType ==
    ASSUME TypeOK, [Next]_vars
    PROVE  TypeOK'
<1>1. ASSUME NEW new \in SignedInt, StoreMargin(new) \/ StorePosition(new),
             localIndex' = localIndex
      PROVE  TypeOK'
  BY <1>1, StoredMargin, StoredPosition DEF TypeOK
<1>2. ASSUME NEW value \in IndexValue, NEW isPositive \in BOOLEAN,
             Settle(Pair(value, isPositive))
      PROVE  TypeOK'
  BY <1>2, SettleMargin DEF TypeOK, Settle, Pair
<1>3. CASE UNCHANGED vars
  BY <1>3 DEF vars, TypeOK
<1>4. QED
  BY <1>1, <1>2, <1>3, Operations

LEMMA TypeCorrect == Spec => []TypeOK
<1>1. Init => TypeOK
  BY InitType
<1>2. TypeOK /\ [Next]_vars => TypeOK'
  BY NextType
<1>3. QED
  BY <1>1, <1>2, PTL DEF Spec

\* The contract's magnitudes and flags behave like integers in every
\* operation on a balance.
THEOREM SignedImplementsIntegers == Spec => ImplementsIntegers
<1> USE MathAssumption, AmountAssumption
<1> DEFINE m == ToInt(GetMargin(balance))
           p == ToInt(GetPosition(balance))
           i == ToInt(localIndex)
<1>1. Init => Integers!Init
  <2>1. ToInt(Pair(0, FALSE)) = 0
    <3>1. PICK z \in Int : z <= 0 /\ z >= 0 /\ z = 0
      OBVIOUS
    <3>2. ToInt(Pair(z, FALSE)) = -z
      BY DEF ToInt, Pair
    <3>3. QED
      BY ONLY <3>1, <3>2, MinusZero
  <2>2. SUFFICES ASSUME Init
                 PROVE  m = 0 /\ p = 0 /\ i = 0
    BY DEF Integers!Init
  <2>3. /\ GetMargin(balance) = Pair(0, FALSE)
        /\ GetPosition(balance) = Pair(0, FALSE)
        /\ localIndex = Pair(0, FALSE)
    BY <2>2 DEF Init, GetMargin, GetPosition
  <2>4. QED
    BY <2>1, <2>3
<1>2. ASSUME TypeOK, [Next]_vars
      PROVE  [Integers!Next]_<<m, p, i>>
  <2> USE DEF Integers!Next, Integers!MoveMargin, Integers!MovePosition,
              Integers!FitsUint120, Integers!Abs, FitsUint120, Abs
  <2>1. m \in Int /\ p \in Int
    BY <1>2, FieldTypes, SignedArithmetic
  <2>2. ASSUME NEW new \in SignedInt, NEW amount \in Amount,
               StoreMargin(new), localIndex' = localIndex,
               ToInt(new) \in {m + amount, m - amount}
        PROVE  Integers!Next
    <3>1. m' = ToInt(new) /\ p' = p /\ i' = i /\ FitsUint120(m')
      BY <1>2, <2>2, StoredMargin
    <3>2. m - amount = m + (-amount)
      BY <2>1
    <3>3. QED
      BY <2>2, <3>1, <3>2
  <2>3. ASSUME NEW new \in SignedInt, NEW amount \in Amount,
               StorePosition(new), localIndex' = localIndex,
               ToInt(new) \in {p + amount, p - amount}
        PROVE  Integers!Next
    <3>1. p' = ToInt(new) /\ m' = m /\ i' = i /\ FitsUint120(p')
      BY <1>2, <2>3, StoredPosition
    <3>2. p - amount = p + (-amount)
      BY <2>1
    <3>3. QED
      BY <2>3, <3>1, <3>2
  <2>4. ASSUME NEW value \in IndexValue, NEW isPositive \in BOOLEAN,
               Settle(Pair(value, isPositive))
        PROVE  Integers!Next
    <3>1. PICK h \in Int : h = ToInt(Pair(value, isPositive))
      BY <1>2, DiffType, SignedArithmetic
    <3>2. h \in {value, -value}
      BY <3>1 DEF ToInt, Pair
    <3>3. /\ m' = m + Settlement(h - i, p) /\ p' = p /\ i' = h
          /\ FitsUint120(m')
      BY <1>2, <2>4, <3>1, SettleMargin DEF Settle
    <3>4. Integers!Settle(h)
      BY <3>3 DEF Integers!Settle, Integers!Settlement, Integers!BaseMul,
                  Integers!BaseMulRoundUp, Settlement, BaseMul, BaseMulRoundUp
    <3>5. QED
      BY <3>2, <3>4
  <2>5. CASE UNCHANGED vars
    BY <2>5 DEF vars
  <2>6. QED
    BY <1>2, <2>2, <2>3, <2>4, <2>5, Operations
<1>3. QED
  BY <1>1, <1>2, TypeCorrect, PTL DEF Spec, ImplementsIntegers, Integers!Spec

-----------------------------------------------------------------------------
(* The final check of a trade                                              *)

\* What one half of a balance adds to either side, by flag and by sign.
LEMMA SideByFlag ==
    ASSUME NEW value \in Nat, NEW isPositive \in BOOLEAN, NEW unit \in Nat,
           NEW n \in Int, n = ToInt(Pair(value, isPositive))
    PROVE  /\ value * unit \in Nat
           /\ (IF isPositive THEN value * unit ELSE 0) = (IF n > 0 THEN n * unit ELSE 0)
           /\ (IF isPositive THEN 0 ELSE value * unit) = (IF n < 0 THEN -n * unit ELSE 0)
<1>1. PICK x \in Nat : x = value * unit
  OBVIOUS
<1>2. value = 0 => x = 0
  BY <1>1
<1>3. CASE isPositive
  <2>1. n = value
    BY <1>3 DEF ToInt, Pair
  <2>2. /\ x = IF n > 0 THEN n * unit ELSE 0
        /\ 0 = IF n < 0 THEN -n * unit ELSE 0
    BY <1>1, <1>2, <2>1
  <2>3. QED
    BY <1>1, <1>3, <2>2, Zenon
<1>4. CASE ~isPositive
  <2>1. n = -value /\ -n = value
    BY <1>4 DEF ToInt, Pair
  <2>2. n < 0 <=> value # 0
    BY <2>1
  <2>3. -n * unit = x
    BY <1>1, <2>1
  <2>4. QED
    BY <1>1, <1>2, <1>4, <2>1, <2>2, <2>3
<1>5. QED
  BY <1>3, <1>4

LEMMA PackedFields ==
    ASSUME NEW packed \in PackedBalance
    PROVE  /\ packed.margin \in Nat /\ packed.marginIsPositive \in BOOLEAN
           /\ packed.position \in Nat /\ packed.positionIsPositive \in BOOLEAN
           /\ Unpacked(packed).margin
                = ToInt(Pair(packed.margin, packed.marginIsPositive))
           /\ Unpacked(packed).position
                = ToInt(Pair(packed.position, packed.positionIsPositive))
           /\ Unpacked(packed).margin \in Int /\ Unpacked(packed).position \in Int
BY MathAssumption DEF PackedBalance, Unpacked, GetMargin, GetPosition, ToInt, Pair

LEMMA SidesByFlag ==
    ASSUME NEW packed \in PackedBalance, NEW price \in Nat
    PROVE  /\ PackedPositive(packed, price) = PositiveValue(Unpacked(packed), price)
           /\ PackedNegative(packed, price) = NegativeValue(Unpacked(packed), price)
           /\ PackedPositive(packed, price) \in Nat
           /\ PackedNegative(packed, price) \in Nat
<1> DEFINE m == Unpacked(packed).margin
           p == Unpacked(packed).position
<1>1. BASE \in Nat
  BY MathAssumption
<1>2. /\ packed.margin * BASE \in Nat
      /\ (IF packed.marginIsPositive THEN packed.margin * BASE ELSE 0)
           = (IF m > 0 THEN m * BASE ELSE 0)
      /\ (IF packed.marginIsPositive THEN 0 ELSE packed.margin * BASE)
           = (IF m < 0 THEN -m * BASE ELSE 0)
  <2>1. /\ packed.margin \in Nat /\ packed.marginIsPositive \in BOOLEAN /\ m \in Int
        /\ m = ToInt(Pair(packed.margin, packed.marginIsPositive))
    BY PackedFields
  <2>2. PICK unit \in Nat : unit = BASE
    BY <1>1
  <2>3. /\ packed.margin * unit \in Nat
        /\ (IF packed.marginIsPositive THEN packed.margin * unit ELSE 0)
             = (IF m > 0 THEN m * unit ELSE 0)
        /\ (IF packed.marginIsPositive THEN 0 ELSE packed.margin * unit)
             = (IF m < 0 THEN -m * unit ELSE 0)
    BY PackedFields, SideByFlag
  <2>4. QED
    BY <2>2, <2>3
<1>3. /\ packed.position * price \in Nat
      /\ (IF packed.positionIsPositive THEN packed.position * price ELSE 0)
           = (IF p > 0 THEN p * price ELSE 0)
      /\ (IF packed.positionIsPositive THEN 0 ELSE packed.position * price)
           = (IF p < 0 THEN -p * price ELSE 0)
  <2>1. PICK unit \in Nat : unit = price
    OBVIOUS
  <2>2. /\ packed.position * unit \in Nat
        /\ (IF packed.positionIsPositive THEN packed.position * unit ELSE 0)
             = (IF p > 0 THEN p * unit ELSE 0)
        /\ (IF packed.positionIsPositive THEN 0 ELSE packed.position * unit)
             = (IF p < 0 THEN -p * unit ELSE 0)
    <3>1. /\ packed.position \in Nat /\ packed.positionIsPositive \in BOOLEAN
          /\ p \in Int /\ p = ToInt(Pair(packed.position, packed.positionIsPositive))
      BY PackedFields
    <3> DEFINE amount == packed.position
               flag == packed.positionIsPositive
               n == p
    <3>2. amount \in Nat /\ flag \in BOOLEAN /\ n \in Int /\ n = ToInt(Pair(amount, flag))
      BY ONLY <3>1
    <3> HIDE DEF amount, flag, n
    <3>3. /\ amount * unit \in Nat
          /\ (IF flag THEN amount * unit ELSE 0) = (IF n > 0 THEN n * unit ELSE 0)
          /\ (IF flag THEN 0 ELSE amount * unit) = (IF n < 0 THEN -n * unit ELSE 0)
      BY ONLY <3>2, unit \in Nat, SideByFlag
    <3>4. QED
      BY <3>3 DEF amount, flag, n
  <2>3. QED
    BY <2>1, <2>2
<1>4. PICK a \in Nat, b \in Nat : a = packed.margin * BASE /\ b = packed.position * price
  BY <1>2, <1>3
<1>5. /\ PackedPositive(packed, price) \in Nat
      /\ PackedNegative(packed, price) \in Nat
  <2>1. packed.marginIsPositive \in BOOLEAN /\ packed.positionIsPositive \in BOOLEAN
    BY PackedFields
  <2>2. QED
    BY <1>4, <2>1 DEF PackedPositive, PackedNegative
<1>6. QED
  BY <1>2, <1>3, <1>5 DEF PackedPositive, PackedNegative, PositiveValue, NegativeValue

\* A trade's final check accepts on flags what it accepts on integers, whatever the
\* flags of zeros (_verifyAccountsFinalBalances of P1Trade).
THEOREM ZeroFlagsAreIgnored == Spec => []FinalCheckIgnoresZeroFlags
<1>1. TypeOK => FinalCheckIgnoresZeroFlags
  <2> DEFINE current == Unpacked(balance)
  <2>1. SUFFICES ASSUME TypeOK,
                        NEW initial \in PackedBalance, NEW price \in Price,
                        NEW requirement \in MinCollateral
                 PROVE  \/ PackedPositive(balance, price) * BASE
                             >= PackedNegative(balance, price) * requirement
                        \/ PackedImproved(initial, balance, price)
                        <=> \/ IsCollateralized(current, price, requirement)
                            \/ Improved(Unpacked(initial), current, price)
    BY DEF FinalCheckIgnoresZeroFlags
  <2>2. balance \in PackedBalance /\ price \in Nat /\ requirement \in Nat /\ BASE \in Nat
    BY <2>1, AmountAssumption, MathAssumption DEF TypeOK
  <2>3. /\ PackedPositive(balance, price) = PositiveValue(current, price)
        /\ PackedNegative(balance, price) = NegativeValue(current, price)
        /\ PackedPositive(initial, price) = PositiveValue(Unpacked(initial), price)
        /\ PackedNegative(initial, price) = NegativeValue(Unpacked(initial), price)
        /\ PackedPositive(balance, price) \in Nat /\ PackedNegative(balance, price) \in Nat
    BY <2>2, SidesByFlag
  <2>4. CASE IsCollateralized(current, price, requirement)
    BY <2>3, <2>4 DEF IsCollateralized
  <2>5. CASE ~IsCollateralized(current, price, requirement)
    <3>1. ~ (PackedPositive(balance, price) * BASE
               >= PackedNegative(balance, price) * requirement)
      BY <2>3, <2>5 DEF IsCollateralized
    <3>2. PICK p \in Nat, q \in Nat, i \in Int, j \in Int :
            /\ p = balance.position /\ q = initial.position
            /\ i = current.position /\ j = Unpacked(initial).position
      BY <2>2, PackedFields
    <3>3. /\ i = IF balance.positionIsPositive THEN p ELSE -p
          /\ j = IF initial.positionIsPositive THEN q ELSE -q
      BY <2>2, <3>2, PackedFields DEF ToInt, Pair
    <3>4. Abs(current.position) = p /\ Abs(Unpacked(initial).position) = q
      BY <3>2, <3>3 DEF Abs
    <3>5. balance.positionIsPositive \in BOOLEAN /\ initial.positionIsPositive \in BOOLEAN
      BY <2>2, PackedFields
    <3>6. CASE p = 0
      <4>1. PackedPositive(balance, price) = 0
        <5>1. SUFFICES ASSUME PackedPositive(balance, price) # 0
                       PROVE  FALSE
          OBVIOUS
        <5>2. balance.position * price = 0
          BY <2>2, <3>2, <3>6
        <5>3. PackedNegative(balance, price) = 0
          BY <2>2, <5>1, <5>2, PackedFields DEF PackedPositive, PackedNegative
        <5>4. PICK x \in Nat : x = PackedPositive(balance, price) * BASE
          BY <2>2, <2>3
        <5>5. PackedNegative(balance, price) * requirement = 0
          BY <2>2, <5>3
        <5>6. QED
          BY <3>1, <5>4, <5>5
      <4>2. ~PackedImproved(initial, balance, price)
        BY <4>1 DEF PackedImproved
      <4>3. ~Improved(Unpacked(initial), current, price)
        BY <2>3, <4>1 DEF Improved
      <4>4. QED
        BY <2>5, <3>1, <4>2, <4>3
    <3>7. CASE p # 0
      <4>1. CASE q < p
        <5>1. ~PackedImproved(initial, balance, price)
          BY <3>2, <4>1 DEF PackedImproved
        <5>2. ~Improved(Unpacked(initial), current, price)
          BY <3>2, <3>4, <4>1 DEF Improved
        <5>3. QED
          BY <2>5, <3>1, <5>1, <5>2
      <4>2. CASE p <= q
        <5>1. /\ current.position > 0 <=> balance.positionIsPositive
              /\ Unpacked(initial).position > 0 <=> initial.positionIsPositive
          BY <3>2, <3>3, <3>7, <4>2
        <5>2. PackedImproved(initial, balance, price)
                <=> Improved(Unpacked(initial), current, price)
          <6>1. balance.position = Abs(current.position)
                /\ initial.position = Abs(Unpacked(initial).position)
            BY <3>2, <3>4
          <6>2. (current.position > 0) = (Unpacked(initial).position > 0)
                  <=> balance.positionIsPositive = initial.positionIsPositive
            BY <3>5, <5>1
          <6> HIDE DEF current
          <6>3. CASE balance.positionIsPositive
            BY ONLY <2>3, <5>1, <6>1, <6>2, <6>3 DEF PackedImproved, Improved
          <6>4. CASE ~balance.positionIsPositive
            BY ONLY <2>3, <5>1, <6>1, <6>2, <6>4 DEF PackedImproved, Improved
          <6>5. QED
            BY <6>3, <6>4
        <5>3. QED
          BY <2>5, <3>1, <5>2
      <4>3. QED
        BY <4>1, <4>2
    <3>8. QED
      BY <3>6, <3>7
  <2>6. QED
    BY <2>4, <2>5
<1>2. QED
  BY <1>1, TypeCorrect, PTL
=============================================================================
