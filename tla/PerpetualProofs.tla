---------------------------- MODULE PerpetualProofs ----------------------------
(***************************************************************************)
(* The perpetual contract and its traders, for any number of accounts and  *)
(* any value of the other constants.                                       *)
(*                                                                         *)
(* The ledger (PerpetualV1): type correctness, solvency by an inductive    *)
(* invariant on sums over the accounts (TotalsProofs), what final          *)
(* settlement promises, and that callers endanger no account.              *)
(*                                                                         *)
(* With the orders traders (PerpetualOrders): no accepted fill is worse    *)
(* for the maker than the limits of the order; the ledger's guarantees are *)
(* left alone; and positions are backed by orders, each within its amount, *)
(* through every transaction and revert.                                   *)
(*                                                                         *)
(* With liquidation, deleveraging and the liquidator proxy                 *)
(* (PerpetualCloseouts): closing out leaves nobody with less in proportion *)
(* to what is left, the first of a transaction is always accepted, the     *)
(* insurance's fee leaves the liquidator safe and better off, and the      *)
(* contract stays solvent.                                                 *)
(***************************************************************************)
EXTENDS PerpetualOrders, PerpetualCloseouts, TotalsProofs

-----------------------------------------------------------------------------
(* Arithmetic                                                              *)

LEMMA Products ==
    ASSUME NEW x \in Int, NEW y \in Int, NEW z \in Int
    PROVE  /\ x * (y + z) = x * y + x * z
           /\ x * (y - z) = x * y - x * z
           /\ x * y \in Int /\ x * y = y * x
OBVIOUS

LEMMA Negative ==
    ASSUME NEW x \in Int, x < 0
    PROVE  \E k \in Nat : x = -k - 1
<1>1. -x - 1 \in Nat /\ x = -(-x - 1) - 1
  OBVIOUS
<1>2. QED
  BY <1>1

LEMMA NegativeProduct ==
    ASSUME NEW s \in Nat, NEW k \in Nat
    PROVE  s * (-k - 1) = -(s * k) - s /\ s * k \in Nat
<1>1. s * k \in Nat /\ s * 0 = 0 /\ s * 1 = s
  OBVIOUS
<1>2. s * (0 - k) = s * 0 - s * k /\ s * ((0 - k) - 1) = s * (0 - k) - s * 1
  BY Products
<1>3. -k - 1 = (0 - k) - 1
  OBVIOUS
<1>4. QED
  BY <1>1, <1>2, <1>3

LEMMA AbsProduct ==
    ASSUME NEW d \in Int, NEW p \in Int
    PROVE  /\ Abs(d) * Abs(p) \in Int /\ Abs(d) * Abs(p) >= 0
           /\ d * p < 0 => Abs(d) * Abs(p) = -(d * p)
           /\ d * p >= 0 => Abs(d) * Abs(p) = d * p
BY DEF Abs

LEMMA Division ==
    ASSUME NEW x \in Int, NEW n \in Nat \ {0}
    PROVE  /\ x \div n \in Int
           /\ n * (x \div n) <= x
           /\ x < n * (x \div n) + n
OBVIOUS

\* A value at one index and price, in terms of it at another.
LEMMA Revaluation ==
    ASSUME NEW m \in Int, NEW pos \in Int, NEW loc \in Int,
           NEW g \in Int, NEW h \in Int, NEW p \in Int, NEW q \in Int
    PROVE  m - pos * (h - loc) + pos * q
             = (m - pos * (g - loc) + pos * p) + ((q - p) - (h - g)) * pos
<1>1. /\ pos * (h - loc) = pos * h - pos * loc
      /\ pos * (g - loc) = pos * g - pos * loc
  BY Products
<1>2. ((q - p) - (h - g)) * pos = pos * ((q - p) - (h - g))
  BY Products
<1>3. pos * ((q - p) - (h - g)) = pos * (q - p) - pos * (h - g)
  BY Products
<1>4. pos * (q - p) = pos * q - pos * p /\ pos * (h - g) = pos * h - pos * g
  BY Products
<1>5. /\ pos * h \in Int /\ pos * g \in Int /\ pos * p \in Int
      /\ pos * q \in Int /\ pos * loc \in Int
  BY Products
<1>6. QED
  BY <1>1, <1>2, <1>3, <1>4, <1>5

USE ConstantsAssumption, MathAssumption DEF Account, Idle, Trading

-----------------------------------------------------------------------------
(* The ledger with any traders: the results a trader contract answers are  *)
(* bounded for the runs, and computed by the modules that model the        *)
(* traders, but what the ledger promises does not depend on them.          *)

AnyResult ==
    [marginAmount: Nat, positionAmount: Nat, isBuy: BOOLEAN,
     traderFlags: SUBSET TraderFlag]

LedgerTradeNext ==
    \/ \E accounts \in SUBSET Account : BeginTrade(accounts)
    \/ \E trader \in Operator, maker \in Account, taker \in Account,
          result \in AnyResult : TradeStep(trader, maker, taker, result)
    \/ EndTrade
    \/ RevertTrade

LedgerNext ==
    \/ MarginNext
    \/ LedgerTradeNext
    \/ \E account \in Account : WithdrawFinalSettlement(account)
    \/ AdminNext
    \/ \E account \in Account, operator \in Delegate, approved \in BOOLEAN :
          SetLocalOperator(account, operator, approved)
    \/ ChainNext

LedgerSpec == Init /\ [][LedgerNext]_vars

LEMMA SpecIsLedgerSpec == Spec => LedgerSpec
<1>1. TradeResult \subseteq AnyResult
  BY DEF TradeResult, AnyResult
<1>2. TradeNext => LedgerTradeNext
  BY <1>1 DEF TradeNext, LedgerTradeNext
<1>3. [Next]_vars => [LedgerNext]_vars
  BY <1>2 DEF Next, LedgerNext
<1>4. QED
  BY <1>3, PTL DEF Spec, LedgerSpec

-----------------------------------------------------------------------------
(* Type correctness                                                        *)

LEMMA AccountFits ==
    ASSUME NEW b \in [margin: Int, position: Int], Fits(b)
    PROVE  b \in Balance
BY DEF Fits, FitsUint120, Abs, Balance, Uint120

LEMMA FundingValueType ==
    ASSUME oraclePrice \in Nat, NEW rate \in Int
    PROVE  FundingValue(rate) \in Int
<1>1. rate * oraclePrice \in Int /\ (-rate) * oraclePrice \in Int
  OBVIOUS
<1>2. QED
  BY <1>1 DEF FundingValue, BaseMul

LEMMA LoadedType ==
    ASSUME TypeOK, NEW index \in LoadedIndexes
    PROVE  index \in Index
<1>1. CASE now = globalIndex.timestamp
  BY <1>1 DEF TypeOK, LoadedIndexes
<1>2. CASE now # globalIndex.timestamp
  <2>1. PICK rate \in Funding[funder] :
          /\ index = [timestamp |-> now,
                      value |-> globalIndex.value + FundingValue(rate)]
          /\ Abs(index.value) <= MaxUint128
    BY <1>2 DEF LoadedIndexes
  <2>2. rate \in Int /\ oraclePrice \in Nat
    BY DEF TypeOK, Funder, Price, Oracle
  <2>3. globalIndex.value + FundingValue(rate) \in Int
    BY <2>2, FundingValueType DEF TypeOK, Index
  <2>4. globalIndex.value + FundingValue(rate) \in -MaxUint128..MaxUint128
    BY <2>1, <2>3 DEF Abs
  <2>5. now \in 0..MaxTime
    BY DEF TypeOK
  <2>6. QED
    BY <2>1, <2>4, <2>5 DEF Index
<1>3. QED
  BY <1>1, <1>2

LEMMA SettlementType ==
    ASSUME NEW d \in Int, NEW p \in Int
    PROVE  Settlement(d, p) \in Int
<1>1. Abs(d) \in Int /\ Abs(p) \in Int
  BY DEF Abs
<1>2. Abs(d) * Abs(p) \in Int
  BY <1>1
<1>3. QED
  BY <1>1, <1>2 DEF Settlement, BaseMul, BaseMulRoundUp

LEMMA SettledType ==
    ASSUME NEW b \in Balance, NEW old \in Index, NEW new \in Index
    PROVE  /\ Settled(b, old, new) \in [margin: Int, position: Int]
           /\ Settled(b, old, new).position = b.position
<1>1. new.value - old.value \in Int /\ b.position \in Int /\ b.margin \in Int
  BY DEF Balance, Index, Uint120
<1>2. Settlement(new.value - old.value, b.position) \in Int
  BY <1>1, SettlementType
<1>3. QED
  BY <1>1, <1>2 DEF Settled, Balance, Uint120

LEMMA StoreIndexesType ==
    ASSUME TypeOK, NEW accounts, NEW index \in Index, StoreIndexes(accounts, index)
    PROVE  globalIndex' \in Index /\ localIndexes' \in [Account -> Index]
BY DEF TypeOK, StoreIndexes

LEMMA InitType == Init => TypeOK
<1> SUFFICES ASSUME Init
             PROVE  TypeOK
  OBVIOUS
<1>1. [margin |-> 0, position |-> 0] \in Balance
  BY DEF Balance, Uint120
<1>2. [timestamp |-> 0, value |-> 0] \in Index /\ [timestamp |-> 1, value |-> 0] \in Index
  BY DEF Index
<1>3. oraclePrice \in Price
  BY DEF Init, Price, Oracle
<1>4. balances \in [Account -> Balance] /\ localIndexes \in [Account -> Index]
  BY <1>1, <1>2 DEF Init
<1>5. localOperators \in [Account -> SUBSET Address]
  BY DEF Init
<1>6. tx \in Transaction \cup {NoTx} /\ now \in 1..MaxTime /\ held \in 0..TokenSupply
  BY DEF Init
<1>7. QED
  BY <1>2, <1>3, <1>4, <1>5, <1>6 DEF Init, TypeOK

LEMMA DepositType ==
    ASSUME TypeOK, NEW account \in Account, NEW amount \in Amount,
           Deposit(account, amount)
    PROVE  TypeOK'
<1>1. PICK index \in LoadedIndexes :
        LET settled == SettledAccount(account, index)
            balance == [settled EXCEPT !.margin = @ + amount]
        IN  /\ Fits(settled) /\ Fits(balance)
            /\ balances' = [balances EXCEPT ![account] = balance]
            /\ StoreIndexes({account}, index)
  BY DEF Deposit
<1> DEFINE settled == SettledAccount(account, index)
           balance == [settled EXCEPT !.margin = @ + amount]
<1>2. index \in Index
  BY LoadedType
<1>3. settled \in [margin: Int, position: Int]
  BY <1>2, SettledType DEF SettledAccount, TypeOK
<1>4. balance \in Balance
  <2>1. balance \in [margin: Int, position: Int]
    BY <1>3
  <2>2. QED
    BY <1>1, <2>1, AccountFits
<1>5. balances' \in [Account -> Balance]
  BY <1>1, <1>4 DEF TypeOK
<1>6. globalIndex' \in Index /\ localIndexes' \in [Account -> Index]
  BY <1>1, <1>2, StoreIndexesType
<1>7. held' \in 0..TokenSupply
  BY DEF Deposit, TypeOK
<1>8. QED
  BY <1>5, <1>6, <1>7 DEF Deposit, TypeOK, roles, settings, final, chain

LEMMA WithdrawType ==
    ASSUME TypeOK, NEW sender \in Address, NEW account \in Account,
           NEW amount \in Amount, Withdraw(sender, account, amount)
    PROVE  TypeOK'
<1>1. PICK index \in LoadedIndexes :
        LET settled == SettledAccount(account, index)
            balance == [settled EXCEPT !.margin = @ - amount]
        IN  /\ Fits(settled) /\ Fits(balance)
            /\ balances' = [balances EXCEPT ![account] = balance]
            /\ StoreIndexes({account}, index)
  BY DEF Withdraw
<1> DEFINE settled == SettledAccount(account, index)
           balance == [settled EXCEPT !.margin = @ - amount]
<1>2. index \in Index
  BY LoadedType
<1>3. settled \in [margin: Int, position: Int]
  BY <1>2, SettledType DEF SettledAccount, TypeOK
<1>4. balance \in Balance
  <2>1. balance \in [margin: Int, position: Int]
    BY <1>3
  <2>2. QED
    BY <1>1, <2>1, AccountFits
<1>5. balances' \in [Account -> Balance]
  BY <1>1, <1>4 DEF TypeOK
<1>6. globalIndex' \in Index /\ localIndexes' \in [Account -> Index]
  BY <1>1, <1>2, StoreIndexesType
<1>7. held' \in 0..TokenSupply
  BY DEF Withdraw, TypeOK
<1>8. QED
  BY <1>5, <1>6, <1>7 DEF Withdraw, TypeOK, roles, settings, final, chain

LEMMA BeginTradeType ==
    ASSUME TypeOK, NEW accounts \in SUBSET Account, BeginTrade(accounts)
    PROVE  TypeOK'
<1>1. PICK index \in LoadedIndexes :
        /\ \A a \in accounts : Fits(SettledBalances(accounts, index)[a])
        /\ balances' = SettledBalances(accounts, index)
        /\ StoreIndexes(accounts, index)
        /\ tx' = [active |-> TRUE,
                  accounts |-> accounts,
                  price |-> oraclePrice,
                  initialBalances |-> SettledBalances(accounts, index),
                  currentBalances |-> SettledBalances(accounts, index),
                  traderFlags |-> {},
                  undo |-> [balances |-> balances,
                            localIndexes |-> localIndexes,
                            globalIndex |-> globalIndex]]
  BY DEF BeginTrade
<1>2. index \in Index
  BY LoadedType
<1>3. \A a \in Account : SettledAccount(a, index) \in [margin: Int, position: Int]
  BY <1>2, SettledType DEF SettledAccount, TypeOK
<1>4. SettledBalances(accounts, index) \in [Account -> Balance]
  <2>1. ASSUME NEW a \in Account
        PROVE  SettledBalances(accounts, index)[a] \in Balance
    BY <1>1, <1>3, AccountFits DEF SettledBalances, TypeOK
  <2>2. QED
    BY <2>1 DEF SettledBalances
<1>5. globalIndex' \in Index /\ localIndexes' \in [Account -> Index]
  BY <1>1, <1>2, StoreIndexesType
<1>6. tx' \in Transaction
  BY <1>1, <1>4 DEF TypeOK, Transaction, Store
<1>7. QED
  BY <1>1, <1>4, <1>5, <1>6 DEF BeginTrade, TypeOK, roles, settings, final, chain

LEMMA ExchangeType ==
    ASSUME NEW b \in Balance, NEW result \in AnyResult
    PROVE  /\ MakerAfter(b, result) \in [margin: Int, position: Int]
           /\ TakerAfter(b, result) \in [margin: Int, position: Int]
<1>1. /\ b.margin \in Int /\ b.position \in Int
      /\ result.marginAmount \in Int /\ result.positionAmount \in Int
  BY DEF Balance, Uint120, AnyResult
<1>2. QED
  BY <1>1 DEF MakerAfter, TakerAfter

LEMMA TradeStepType ==
    ASSUME TypeOK, NEW trader \in Operator, NEW maker \in Account,
           NEW taker \in Account, NEW result \in AnyResult,
           TradeStep(trader, maker, taker, result)
    PROVE  TypeOK'
<1> DEFINE makerBalance == MakerAfter(tx.currentBalances[maker], result)
           takerBalance == TakerAfter(tx.currentBalances[taker], result)
           traded == [tx.currentBalances EXCEPT ![maker] = makerBalance,
                                                ![taker] = takerBalance]
<1>1. tx \in Transaction
  BY DEF TradeStep, TypeOK, NoTx
<1>2. tx.traderFlags \cup result.traderFlags \in SUBSET TraderFlag
  BY <1>1 DEF Transaction, AnyResult
<1>3. tx.currentBalances \in [Account -> Balance]
  BY <1>1 DEF Transaction
<1>4. /\ makerBalance \in [margin: Int, position: Int]
      /\ takerBalance \in [margin: Int, position: Int]
  BY <1>3, ExchangeType
<1>5. CASE maker = taker /\ UNCHANGED balances
           /\ tx' = [tx EXCEPT !.traderFlags = @ \cup result.traderFlags]
  <2>1. tx' \in Transaction
    BY <1>1, <1>2, <1>5 DEF Transaction
  <2>2. QED
    BY <1>5, <2>1 DEF TradeStep, TypeOK, roles, settings, final, chain
<1>6. CASE /\ maker # taker
           /\ Fits(makerBalance) /\ Fits(takerBalance)
           /\ tx' = [tx EXCEPT !.traderFlags = @ \cup result.traderFlags,
                               !.currentBalances = traded]
           /\ StoreTraded(maker, taker, traded)
  <2>1. makerBalance \in Balance /\ takerBalance \in Balance
    BY <1>4, <1>6, AccountFits
  <2> HIDE DEF makerBalance, takerBalance
  <2>2. traded \in [Account -> Balance]
    BY <1>3, <2>1
  <2> HIDE DEF traded
  <2>3. balances' \in [Account -> Balance]
    BY <1>6, <2>2 DEF StoreTraded, TypeOK
  <2>4. tx' \in Transaction
    BY <1>1, <1>2, <1>6, <2>2 DEF Transaction
  <2>5. QED
    BY <2>3, <2>4 DEF TradeStep, TypeOK, roles, settings, final, chain
<1>7. QED
  BY <1>5, <1>6 DEF TradeStep

LEMMA RevertTradeType ==
    ASSUME TypeOK, RevertTrade
    PROVE  TypeOK'
<1>1. tx \in Transaction
  BY DEF RevertTrade, TypeOK, NoTx
<1>2. tx.undo \in Store
  BY <1>1 DEF Transaction
<1>3. QED
  BY <1>2 DEF RevertTrade, TypeOK, Store, roles, settings, final, chain

LEMMA ValueType ==
    ASSUME NEW b \in [margin: Int, position: Int], NEW price \in Nat
    PROVE  /\ PositiveValue(b, price) \in Int
           /\ NegativeValue(b, price) \in Int
           /\ PositiveValue(b, price) - NegativeValue(b, price)
                = b.margin * BASE + b.position * price
<1>1. /\ b.margin * BASE \in Int /\ b.position * price \in Int
      /\ -b.margin * BASE = -(b.margin * BASE)
      /\ -b.position * price = -(b.position * price)
  OBVIOUS
<1>2. /\ b.margin = 0 => b.margin * BASE = 0
      /\ b.position = 0 => b.position * price = 0
  OBVIOUS
<1>3. QED
  BY <1>1, <1>2 DEF PositiveValue, NegativeValue

LEMMA WithdrawFinalSettlementType ==
    ASSUME TypeOK, NEW account \in Account, WithdrawFinalSettlement(account)
    PROVE  TypeOK'
<1> DEFINE settled == SettledAccount(account, globalIndex)
           positive == PositiveValue(settled, finalPrice)
           negative == NegativeValue(settled, finalPrice)
           accountValue == (positive - negative) \div BASE
           amount == IF held < accountValue THEN held ELSE accountValue
           remaining == RemainingBalance(accountValue, amount)
<1>1. settled \in [margin: Int, position: Int] /\ globalIndex \in Index
  BY SettledType DEF SettledAccount, TypeOK
<1>2. finalPrice \in Nat
  BY DEF TypeOK, Price, Oracle
<1>3. positive \in Int /\ negative \in Int
  BY <1>1, <1>2, ValueType
<1>4. /\ Fits(settled)
      /\ \/ /\ positive < negative
            /\ balances' = [balances EXCEPT ![account] = settled]
            /\ UNCHANGED held
         \/ /\ positive >= negative
            /\ Fits(remaining)
            /\ balances' = [balances EXCEPT ![account] = remaining]
            /\ held' = held - amount
      /\ StoreIndexes({account}, globalIndex)
  BY DEF WithdrawFinalSettlement
<1> HIDE DEF settled, positive, negative
<1>5. balances' \in [Account -> Balance] /\ held' \in 0..TokenSupply
  <2>1. CASE positive < negative /\ UNCHANGED held
             /\ balances' = [balances EXCEPT ![account] = settled]
    BY <1>1, <1>4, <2>1, AccountFits DEF TypeOK
  <2>2. CASE /\ positive >= negative
             /\ Fits(remaining)
             /\ balances' = [balances EXCEPT ![account] = remaining]
             /\ held' = held - amount
    <3>1. accountValue \in Int /\ accountValue >= 0
      BY <1>3, <2>2
    <3> HIDE DEF accountValue
    <3>2. amount \in Int /\ 0 <= amount /\ amount <= held
      BY <3>1 DEF TypeOK
    <3>3. remaining \in [margin: Int, position: Int]
      BY <3>1, <3>2 DEF RemainingBalance
    <3> HIDE DEF remaining, amount
    <3>4. QED
      BY <2>2, <3>2, <3>3, AccountFits DEF TypeOK
  <2>3. QED
    BY <1>4, <2>1, <2>2
<1>6. globalIndex' \in Index /\ localIndexes' \in [Account -> Index]
  BY <1>1, <1>4, StoreIndexesType
<1>7. QED
  BY <1>5, <1>6 DEF WithdrawFinalSettlement, TypeOK, roles, settings, final, chain

LEMMA EnableFinalSettlementType ==
    ASSUME TypeOK, NEW lowerBound, NEW upperBound,
           EnableFinalSettlement(lowerBound, upperBound)
    PROVE  TypeOK'
<1>1. PICK index \in LoadedIndexes : StoreIndexes({}, index)
  BY DEF EnableFinalSettlement
<1>2. globalIndex' \in Index /\ localIndexes' \in [Account -> Index]
  BY <1>1, LoadedType, StoreIndexesType
<1>3. QED
  BY <1>2 DEF EnableFinalSettlement, TypeOK, roles, settings, chain

LEMMA OtherAdminType ==
    ASSUME TypeOK,
           \/ \E operator \in Operator, approved \in BOOLEAN :
                 SetGlobalOperator(operator, approved)
           \/ \E newOracle \in Oracle : \E price \in Feed[newOracle] :
                 SetOracle(newOracle, price)
           \/ \E newFunder \in Funder : SetFunder(newFunder)
           \/ \E requirement \in MinCollateral : SetMinCollateral(requirement)
           \/ \E account \in Account, operator \in Delegate, approved \in BOOLEAN :
                 SetLocalOperator(account, operator, approved)
    PROVE  TypeOK'
<1>1. ASSUME NEW operator \in Operator, NEW approved \in BOOLEAN,
             SetGlobalOperator(operator, approved)
      PROVE  TypeOK'
  BY <1>1 DEF SetGlobalOperator, TypeOK, storage, settings, final, chain
<1>2. ASSUME NEW newOracle \in Oracle, NEW price \in Feed[newOracle],
             SetOracle(newOracle, price)
      PROVE  TypeOK'
  <2>1. price \in Price
    BY DEF Price
  <2>2. QED
    BY <1>2, <2>1 DEF SetOracle, TypeOK, storage, roles, final
<1>3. ASSUME NEW newFunder \in Funder, SetFunder(newFunder)
      PROVE  TypeOK'
  BY <1>3 DEF SetFunder, TypeOK, storage, roles, final, chain
<1>4. ASSUME NEW requirement \in MinCollateral, SetMinCollateral(requirement)
      PROVE  TypeOK'
  BY <1>4 DEF SetMinCollateral, TypeOK, storage, roles, final, chain
<1>5. ASSUME NEW account \in Account, NEW operator \in Delegate,
             NEW approved \in BOOLEAN, SetLocalOperator(account, operator, approved)
      PROVE  TypeOK'
  <2>1. operator \in Address
    BY DEF Address
  <2>2. localOperators' \in [Account -> SUBSET Address]
    BY <1>5, <2>1 DEF SetLocalOperator, TypeOK
  <2>3. QED
    BY <1>5, <2>2 DEF SetLocalOperator, TypeOK, storage, settings, final, chain
<1>6. QED
  BY <1>1, <1>2, <1>3, <1>4, <1>5

LEMMA ChainType ==
    ASSUME TypeOK, ChainNext
    PROVE  TypeOK'
<1>1. CASE Tick
  BY <1>1 DEF Tick, TypeOK, storage, roles, settings, final
<1>2. ASSUME NEW price \in Feed[oracle], PriceMoves(price)
      PROVE  TypeOK'
  <2>1. price \in Price
    BY DEF TypeOK, Price, Oracle
  <2>2. QED
    BY <1>2, <2>1 DEF PriceMoves, TypeOK, storage, roles, settings, final
<1>3. ASSUME NEW amount \in Amount, TokensArrive(amount)
      PROVE  TypeOK'
  BY <1>3 DEF TokensArrive, TypeOK, storage, roles, settings, final, chain
<1>4. QED
  BY <1>1, <1>2, <1>3 DEF ChainNext

LEMMA NextType ==
    ASSUME TypeOK, [LedgerNext]_vars
    PROVE  TypeOK'
<1>1. CASE MarginNext
  BY <1>1, DepositType, WithdrawType DEF MarginNext
<1>2. CASE LedgerTradeNext
  <2>1. CASE EndTrade
    BY <2>1 DEF EndTrade, TypeOK, storage, roles, settings, final, chain
  <2>2. QED
    BY <1>2, <2>1, BeginTradeType, TradeStepType, RevertTradeType DEF LedgerTradeNext
<1>3. CASE \E account \in Account : WithdrawFinalSettlement(account)
  BY <1>3, WithdrawFinalSettlementType
<1>4. CASE AdminNext
  BY <1>4, OtherAdminType, EnableFinalSettlementType DEF AdminNext
<1>5. CASE \E account \in Account, operator \in Delegate, approved \in BOOLEAN :
             SetLocalOperator(account, operator, approved)
  BY <1>5, OtherAdminType
<1>6. CASE ChainNext
  BY <1>6, ChainType
<1>7. CASE UNCHANGED vars
  BY <1>7 DEF vars, storage, roles, settings, final, chain, TypeOK
<1>8. QED
  BY <1>1, <1>2, <1>3, <1>4, <1>5, <1>6, <1>7 DEF LedgerNext

LEMMA TypeInvariant == LedgerSpec => []TypeOK
<1>1. Init => TypeOK
  BY InitType
<1>2. TypeOK /\ [LedgerNext]_vars => TypeOK'
  BY NextType
<1>3. QED
  BY <1>1, <1>2, PTL DEF LedgerSpec

\* Every variable of the contract keeps its type, whatever the number of
\* accounts and the widths of the stored numbers: no call stores a margin, a
\* position or an index that its packed slot cannot hold, and no payout makes
\* the contract's token balance negative.
THEOREM TypeCorrect == Spec => []TypeOK
BY SpecIsLedgerSpec, TypeInvariant

-----------------------------------------------------------------------------
(* Solvency: how each operation changes the sum of the exact values.       *)

\* Rounding debits up and credits down never favours the account.
LEMMA SettlementRounds ==
    ASSUME NEW d \in Int, NEW p \in Int
    PROVE  BASE * Settlement(d, p) <= -(d * p)
<1> DEFINE x == Abs(d) * Abs(p)
<1>1. x \in Int /\ x >= 0 /\ (d * p < 0 => x = -(d * p)) /\ (d * p >= 0 => x = d * p)
  BY AbsProduct
<1>2. d * p \in Int
  OBVIOUS
<1>3. CASE d * p < 0
  <2>1. Settlement(d, p) = x \div BASE
    BY <1>3 DEF Settlement, BaseMul
  <2> HIDE DEF x
  <2>2. BASE * (x \div BASE) <= x
    BY <1>1
  <2>3. QED
    BY <1>1, <1>3, <2>1, <2>2
<1>4. CASE d * p >= 0 /\ x = 0
  BY <1>1, <1>2, <1>4 DEF Settlement, BaseMulRoundUp
<1>5. CASE d * p >= 0 /\ x # 0
  <2>1. Settlement(d, p) = -((x - 1) \div BASE + 1)
    BY <1>2, <1>5 DEF Settlement, BaseMulRoundUp
  <2> HIDE DEF x
  <2>2. /\ (x - 1) \div BASE \in Int
        /\ x - 1 < BASE * ((x - 1) \div BASE) + BASE
    BY <1>1
  <2>3. BASE * ((x - 1) \div BASE + 1) = BASE * ((x - 1) \div BASE) + BASE
    BY <2>2
  <2>4. BASE * (-((x - 1) \div BASE + 1)) = -(BASE * ((x - 1) \div BASE + 1))
    BY <2>2
  <2>5. QED
    BY <1>1, <1>5, <2>1, <2>2, <2>3, <2>4
<1>6. QED
  BY <1>1, <1>2, <1>3, <1>4, <1>5

LEMMA ProductType ==
    ASSUME NEW x \in Int, NEW y \in Int
    PROVE  x * y \in Int
OBVIOUS

LEMMA ValuesType ==
    ASSUME NEW b \in [Account -> Balance], NEW l \in [Account -> Index],
           NEW g \in Index, NEW p \in Int
    PROVE  /\ Values(b, l, g, p) \in [1..N -> Int]
           /\ Positions(b) \in [1..N -> Int]
           /\ Total(Values(b, l, g, p), N) \in Int
           /\ Total(Positions(b), N) \in Int
<1>1. ASSUME NEW a \in Account
      PROVE  b[a].position \in Int /\ ExactValue(b[a], l[a], g, p) \in Int
  <2>1. PICK x \in Int, y \in Int, d \in Int :
          x = b[a].position /\ y = b[a].margin /\ d = g.value - l[a].value
    <3>1. b[a] \in Balance /\ l[a] \in Index
      OBVIOUS
    <3>2. b[a].position \in Int /\ b[a].margin \in Int
      BY ONLY <3>1 DEF Balance, Uint120
    <3>3. g.value - l[a].value \in Int
      BY ONLY <3>1, g \in Index DEF Index
    <3>4. QED
      BY <3>2, <3>3, Zenon
  <2>2. PICK e \in Int : e = BASE
    OBVIOUS
  <2>3. x * d \in Int /\ x * p \in Int /\ e * y \in Int
    BY ONLY <2>1, <2>2, ProductType, p \in Int
  <2>4. e * y - x * d + x * p \in Int
    BY ONLY <2>3
  <2>5. QED
    BY ONLY <2>1, <2>2, <2>4 DEF ExactValue, ExactMargin
<1>2. Values(b, l, g, p) \in [1..N -> Int] /\ Positions(b) \in [1..N -> Int]
  BY <1>1 DEF Values, Positions
<1>3. QED
  BY <1>2, TotalType

\* While positions cancel out, neither the index nor the price moves the sum.
LEMMA ZeroSumNeutral ==
    ASSUME NEW b \in [Account -> Balance], NEW l \in [Account -> Index],
           NEW g \in Index, NEW h \in Index, NEW p \in Int, NEW q \in Int,
           Total(Positions(b), N) = 0
    PROVE  Total(Values(b, l, h, q), N) = Total(Values(b, l, g, p), N)
<1> DEFINE c == (q - p) - (h.value - g.value)
<1>1. c \in Int
  <2>1. g.value \in Int /\ h.value \in Int
    BY ONLY g \in Index, h \in Index DEF Index
  <2>2. QED
    BY ONLY <2>1, p \in Int, q \in Int
<1>2. ASSUME NEW a \in 1..N
      PROVE  Values(b, l, h, q)[a] = Values(b, l, g, p)[a] + c * Positions(b)[a]
  <2> DEFINE m == BASE * b[a].margin
             pos == b[a].position
             loc == l[a].value
             gv == g.value
             hv == h.value
  <2>1. m \in Int /\ pos \in Int /\ loc \in Int /\ gv \in Int /\ hv \in Int
    <3>1. b[a] \in Balance /\ l[a] \in Index
      OBVIOUS
    <3>2. b[a].position \in Int /\ b[a].margin \in Int
      BY ONLY <3>1 DEF Balance, Uint120
    <3>3. BASE * b[a].margin \in Int
      BY ONLY <3>2, BASE \in Nat
    <3>4. l[a].value \in Int /\ g.value \in Int /\ h.value \in Int
      BY ONLY <3>1, g \in Index, h \in Index DEF Index
    <3>5. QED
      BY <3>2, <3>3, <3>4, Zenon
  <2>2. /\ Values(b, l, h, q)[a] = m - pos * (hv - loc) + pos * q
        /\ Values(b, l, g, p)[a] = m - pos * (gv - loc) + pos * p
        /\ Positions(b)[a] = pos
        /\ c = (q - p) - (hv - gv)
    BY DEF Values, Positions, ExactValue, ExactMargin
  <2> HIDE DEF m, pos, loc, gv, hv, c
  <2>3. m - pos * (hv - loc) + pos * q
          = (m - pos * (gv - loc) + pos * p) + ((q - p) - (hv - gv)) * pos
    BY ONLY <2>1, p \in Int, q \in Int, Revaluation
  <2>4. QED
    BY <2>2, <2>3
<1>3. PICK new \in [1..N -> Int] : new = Values(b, l, h, q)
  BY ValuesType
<1>4. PICK old \in [1..N -> Int] : old = Values(b, l, g, p)
  BY ValuesType
<1>5. PICK pos \in [1..N -> Int] : pos = Positions(b)
  BY ValuesType
<1>6. PICK d \in Int : d = c
  BY <1>1
<1>7. \A a \in 1..N : new[a] = old[a] + d * pos[a]
  BY <1>2, <1>3, <1>4, <1>5, <1>6
<1>8. N \in Nat
  OBVIOUS
<1>9. Total(new, N) = Total(old, N) + d * Total(pos, N)
  <2>1. new \in [1..N -> Int] /\ old \in [1..N -> Int] /\ pos \in [1..N -> Int] /\ d \in Int
    OBVIOUS
  <2>2. Combines(new, old, d, pos, N)
    BY ONLY <1>7, <1>8, <2>1 DEF Combines
  <2>3. QED
    BY ONLY <2>2, TotalCombined
<1>10. Total(pos, N) = 0 /\ Total(old, N) \in Int
  BY <1>4, <1>5, ValuesType
<1>11. QED
  BY <1>3, <1>4, <1>9, <1>10

\* An account settled to the index is worth its margin and its position.
LEMMA FreshValue ==
    ASSUME NEW b \in Balance, NEW l \in Index, NEW g \in Index, NEW p \in Int,
           l.value = g.value
    PROVE  ExactValue(b, l, g, p) = BASE * b.margin + b.position * p
<1>1. b.margin \in Int /\ b.position \in Int /\ g.value \in Int
  BY DEF Balance, Uint120, Index
<1>2. b.position * (g.value - l.value) = 0
  BY <1>1
<1>3. QED
  BY <1>1, <1>2 DEF ExactValue, ExactMargin

\* Settling an account never raises its value.
LEMMA SettlingRounds ==
    ASSUME NEW b \in Balance, NEW l \in Index, NEW g \in Index, NEW p \in Int,
           l.timestamp = g.timestamp => l = g
    PROVE  BASE * Settled(b, l, g).margin + b.position * p <= ExactValue(b, l, g, p)
<1>1. PICK m \in Int : m = b.margin
  BY DEF Balance, Uint120
<1>2. PICK pos \in Int : pos = b.position
  BY DEF Balance, Uint120
<1>3. PICK d \in Int : d = g.value - l.value
  BY DEF Index
<1>4. PICK s \in Int : s = Settlement(d, pos)
  BY SettlementType
<1>5. pos * p \in Int /\ pos * d \in Int /\ BASE * m \in Int /\ BASE * s \in Int
  <2>1. BASE \in Int
    OBVIOUS
  <2>2. QED
    BY ONLY <2>1, <1>1, <1>2, <1>3, <1>4, p \in Int, ProductType
<1>6. ExactValue(b, l, g, p) = (BASE * m - pos * d) + pos * p
  BY <1>1, <1>2, <1>3 DEF ExactValue, ExactMargin
<1>7. CASE l.timestamp = g.timestamp
  <2>1. l = g /\ Settled(b, l, g) = b
    BY <1>7 DEF Settled
  <2>2. d = 0
    BY <1>3, <2>1 DEF Index
  <2>3. pos * d = 0
    BY <2>2
  <2>4. QED
    BY <1>1, <1>2, <1>5, <1>6, <2>1, <2>3
<1>8. CASE l.timestamp # g.timestamp
  <2>1. Settled(b, l, g).margin = m + s
    BY <1>1, <1>2, <1>3, <1>4, <1>8 DEF Settled, Balance
  <2>2. BASE * s <= -(d * pos)
    BY <1>4, SettlementRounds
  <2>3. BASE * (m + s) = BASE * m + BASE * s /\ d * pos = pos * d
    BY Products
  <2>4. BASE * (m + s) + pos * p <= (BASE * m - pos * d) + pos * p
    BY <1>5, <2>2, <2>3
  <2>5. QED
    BY <1>2, <1>6, <2>1, <2>4
<1>9. QED
  BY <1>7, <1>8

\* The order of timestamps that makes skipping an account sound is kept.
LEMMA StoreIndexesSound ==
    ASSUME TypeOK, Sound(balances, localIndexes, globalIndex),
           NEW accounts \in SUBSET Account, NEW index \in LoadedIndexes,
           StoreIndexes(accounts, index)
    PROVE  /\ index.timestamp <= now
           /\ \A a \in Account :
                /\ localIndexes'[a].timestamp <= index.timestamp
                /\ localIndexes'[a].timestamp = index.timestamp
                     => localIndexes'[a] = index
           /\ \A a \in accounts : localIndexes'[a] = index
           /\ \A a \in Account :
                localIndexes[a].timestamp = index.timestamp => localIndexes[a] = index
<1>1. index \in Index /\ globalIndex \in Index /\ now \in Int
  BY LoadedType DEF TypeOK
<1>2. \/ index = globalIndex
      \/ index.timestamp = now /\ globalIndex.timestamp < now
  BY <1>1 DEF LoadedIndexes, Sound, Index
<1>3. ASSUME NEW a \in Account
      PROVE  /\ localIndexes[a] \in Index
             /\ localIndexes[a].timestamp <= index.timestamp
             /\ localIndexes[a].timestamp = index.timestamp => localIndexes[a] = index
  <2>1. localIndexes[a] \in Index
    BY DEF TypeOK
  <2>2. /\ localIndexes[a].timestamp <= globalIndex.timestamp
        /\ localIndexes[a].timestamp = globalIndex.timestamp => localIndexes[a] = globalIndex
    BY DEF Sound
  <2>3. /\ localIndexes[a].timestamp \in Int /\ globalIndex.timestamp \in Int
        /\ index.timestamp \in Int
    BY ONLY <1>1, <2>1 DEF Index
  <2>4. QED
    BY ONLY <1>1, <1>2, <2>1, <2>2, <2>3
<1>4. \A a \in Account : localIndexes'[a] =
        IF a \in accounts /\ localIndexes[a].timestamp # index.timestamp
        THEN index ELSE localIndexes[a]
  BY DEF StoreIndexes
<1>5. QED
  BY <1>1, <1>2, <1>3, <1>4 DEF Sound, Index

\* Settling one account and moving margin and tokens by the same amount.
LEMMA SettleOneSound ==
    ASSUME TypeOK, TypeOK', Sound(balances, localIndexes, globalIndex),
           NEW account \in Account, NEW index \in LoadedIndexes,
           StoreIndexes({account}, index), now' = now,
           balances'[account].margin
             = SettledAccount(account, index).margin + (held' - held),
           balances'[account].position = SettledAccount(account, index).position,
           \A a \in Account : a # account => balances'[a] = balances[a]
    PROVE  Sound(balances, localIndexes, globalIndex)'
<1>1. /\ index \in Index /\ globalIndex \in Index
      /\ balances \in [Account -> Balance]
      /\ localIndexes \in [Account -> Index] /\ localIndexes' \in [Account -> Index]
      /\ balances' \in [Account -> Balance]
      /\ held \in Int /\ held' \in Int
  BY LoadedType, StoreIndexesType DEF TypeOK
<1>2. PICK delta \in Int : delta = held' - held
  BY <1>1
<1>3. PICK new \in Balance : new = balances'[account]
  BY <1>1
<1>4. /\ new.margin = SettledAccount(account, index).margin + delta
      /\ new.position = SettledAccount(account, index).position
  BY <1>2, <1>3
<1>5. /\ index.timestamp <= now
      /\ \A a \in Account :
           /\ localIndexes'[a].timestamp <= index.timestamp
           /\ localIndexes'[a].timestamp = index.timestamp => localIndexes'[a] = index
      /\ localIndexes'[account] = index
      /\ localIndexes[account].timestamp = index.timestamp
           => localIndexes[account] = index
  <2>1. PICK accounts \in SUBSET Account : accounts = {account}
    OBVIOUS
  <2>2. StoreIndexes(accounts, index) /\ account \in accounts
    BY <2>1
  <2>3. QED
    BY ONLY <2>1, <2>2, TypeOK, Sound(balances, localIndexes, globalIndex),
            index \in LoadedIndexes, account \in Account, StoreIndexesSound
<1>6. globalIndex' = index /\ \A a \in Account : a # account => localIndexes'[a] = localIndexes[a]
  BY DEF StoreIndexes
<1>7. /\ Total(Positions(balances), N) = 0
      /\ Total(Values(balances, localIndexes, index, 0), N) \in Int
      /\ Total(Values(balances, localIndexes, index, 0), N) <= BASE * held
  <2>1. Total(Values(balances, localIndexes, index, 0), N)
          = Total(Values(balances, localIndexes, globalIndex, 0), N)
    <3>1. Total(Positions(balances), N) = 0
      BY DEF Sound
    <3>2. QED
      BY ONLY <1>1, <3>1, ZeroSumNeutral
  <2>2. QED
    BY <1>1, <2>1, ValuesType DEF Sound
<1>8. new.position = balances[account].position
  BY <1>1, <1>4, SettledType DEF SettledAccount
<1>9. PICK old \in Int :
        old = ExactValue(balances[account], localIndexes[account], index, 0)
  <2>1. Values(balances, localIndexes, index, 0) \in [1..N -> Int]
    BY <1>1, 0 \in Int, ValuesType
  <2>2. QED
    BY <2>1 DEF Values
<1>10. PICK fresh \in Int : /\ fresh = ExactValue(new, localIndexes'[account], index, 0)
                          /\ fresh <= old + BASE * delta
  <2>1. PICK m \in Int : m = SettledAccount(account, index).margin
    BY <1>1, SettledType DEF SettledAccount
  <2>2. BASE * m + balances[account].position * 0 <= old
    <3>1. balances[account] \in Balance /\ localIndexes[account] \in Index /\ index \in Index
      BY ONLY <1>1, account \in Account
    <3>2. localIndexes[account].timestamp = index.timestamp => localIndexes[account] = index
      BY <1>5
    <3>3. BASE * Settled(balances[account], localIndexes[account], index).margin
            + balances[account].position * 0
          <= ExactValue(balances[account], localIndexes[account], index, 0)
      BY ONLY <3>1, <3>2, 0 \in Int, SettlingRounds
    <3>4. QED
      BY ONLY <1>9, <2>1, <3>3 DEF SettledAccount
  <2>3. balances[account].position \in Int
    <3>1. balances[account] \in Balance
      BY <1>1
    <3>2. QED
      BY ONLY <3>1 DEF Balance, Uint120
  <2>4. BASE * m <= old /\ BASE * (m + delta) = BASE * m + BASE * delta
    <3>1. BASE * (m + delta) = BASE * m + BASE * delta
      BY Products
    <3>2. BASE * m \in Int /\ balances[account].position * 0 = 0
      BY <2>3
    <3>3. QED
      BY <2>2, <3>1, <3>2
  <2>5. ExactValue(new, localIndexes'[account], index, 0)
          = BASE * (m + delta) + new.position * 0
    <3>1. ExactValue(new, index, index, 0) = BASE * new.margin + new.position * 0
      BY <1>1, 0 \in Int, FreshValue
    <3>2. QED
      BY <1>4, <1>5, <2>1, <3>1
  <2>6. BASE * (m + delta) \in Int /\ BASE * delta \in Int /\ new.position * 0 = 0
    BY <1>8, <2>3
  <2>7. QED
    BY <2>4, <2>5, <2>6
<1>11. /\ Total(Values(balances', localIndexes', index, 0), N)
           = Total(Values(balances, localIndexes, index, 0), N) + (fresh - old)
      /\ Positions(balances') = Positions(balances)
  <2>1. PICK f \in [1..N -> Int] : f = Values(balances, localIndexes, index, 0)
    BY <1>1, 0 \in Int, ValuesType
  <2>2. Values(balances', localIndexes', index, 0) = [f EXCEPT ![account] = fresh]
    BY <1>1, <1>3, <1>6, <1>10, <2>1 DEF Values
  <2>3. N \in Nat /\ account \in 1..N
    OBVIOUS
  <2>4. Total([f EXCEPT ![account] = fresh], N) = Total(f, N) + (fresh - f[account])
    BY ONLY <2>3, TotalUpdate
  <2>5. f[account] = old
    BY <1>9, <2>1 DEF Values
  <2>6. Positions(balances') = Positions(balances)
    BY <1>1, <1>3, <1>8 DEF Positions
  <2>7. QED
    BY <2>1, <2>2, <2>4, <2>5, <2>6
<1>12. Total(Positions(balances'), N) = 0
  BY <1>7, <1>11
<1>13. Total(Values(balances', localIndexes', index, 0), N) <= BASE * held'
  <2>1. held' = held + delta /\ BASE * (held + delta) = BASE * held + BASE * delta
    BY <1>1, <1>2, Products
  <2>2. BASE * held \in Int /\ BASE * delta \in Int
    BY <1>1
  <2>3. QED
    BY <1>7, <1>10, <1>11, <2>1, <2>2
<1>14. QED
  BY <1>5, <1>6, <1>12, <1>13 DEF Sound

\* Settling any set of accounts.
LEMMA SettleManySound ==
    ASSUME TypeOK, TypeOK', Sound(balances, localIndexes, globalIndex),
           NEW accounts \in SUBSET Account, NEW index \in LoadedIndexes,
           balances' = SettledBalances(accounts, index),
           StoreIndexes(accounts, index), held' = held, now' = now
    PROVE  Sound(balances, localIndexes, globalIndex)'
<1>1. /\ index \in Index /\ globalIndex \in Index
      /\ balances \in [Account -> Balance] /\ balances' \in [Account -> Balance]
      /\ localIndexes \in [Account -> Index] /\ localIndexes' \in [Account -> Index]
      /\ held \in Int
  BY LoadedType DEF TypeOK
<1>2. /\ index.timestamp <= now
      /\ \A a \in Account :
           /\ localIndexes'[a].timestamp <= index.timestamp
           /\ localIndexes'[a].timestamp = index.timestamp => localIndexes'[a] = index
           /\ localIndexes[a].timestamp = index.timestamp => localIndexes[a] = index
      /\ \A a \in accounts : localIndexes'[a] = index
  BY StoreIndexesSound
<1>3. /\ globalIndex' = index
      /\ \A a \in Account : a \notin accounts => localIndexes'[a] = localIndexes[a]
  BY DEF StoreIndexes
<1>4. Total(Values(balances, localIndexes, index, 0), N) <= BASE * held
  <2>1. Total(Values(balances, localIndexes, index, 0), N)
          = Total(Values(balances, localIndexes, globalIndex, 0), N)
    <3>1. Total(Positions(balances), N) = 0
      BY DEF Sound
    <3>2. QED
      BY ONLY <1>1, <3>1, ZeroSumNeutral
  <2>2. QED
    BY <2>1 DEF Sound
<1>5. Positions(balances') = Positions(balances)
  <2>1. ASSUME NEW a \in Account
        PROVE  balances'[a].position = balances[a].position
    BY <1>1, SettledType DEF SettledBalances, SettledAccount
  <2>2. QED
    BY <2>1 DEF Positions
<1>6. PICK old \in [1..N -> Int] : old = Values(balances, localIndexes, index, 0)
  BY <1>1, 0 \in Int, ValuesType
<1>7. PICK fresh \in [1..N -> Int] : fresh = Values(balances', localIndexes', index, 0)
  BY <1>1, 0 \in Int, ValuesType
<1>8. \A a \in 1..N : fresh[a] <= old[a]
  <2> SUFFICES ASSUME NEW a \in Account
               PROVE  fresh[a] <= old[a]
    OBVIOUS
  <2>1. /\ fresh[a] = ExactValue(balances'[a], localIndexes'[a], index, 0)
        /\ old[a] = ExactValue(balances[a], localIndexes[a], index, 0)
        /\ fresh[a] \in Int /\ old[a] \in Int
    BY <1>6, <1>7 DEF Values
  <2>2. CASE a \in accounts
    <3>1. /\ balances'[a] = Settled(balances[a], localIndexes[a], index)
          /\ balances'[a].position = balances[a].position
      BY <1>1, <2>2, SettledType DEF SettledBalances, SettledAccount
    <3>2. BASE * balances'[a].margin + balances[a].position * 0 <= old[a]
      BY <1>1, <1>2, <2>1, <3>1, SettlingRounds
    <3>3. fresh[a] = BASE * balances'[a].margin + balances'[a].position * 0
      BY <1>1, <1>2, <2>1, <2>2, FreshValue
    <3>4. QED
      BY <3>1, <3>2, <3>3
  <2>3. CASE a \notin accounts
    <3>1. balances'[a] = balances[a] /\ localIndexes'[a] = localIndexes[a]
      BY <1>3, <2>3 DEF SettledBalances
    <3>2. QED
      BY <2>1, <3>1
  <2>4. QED
    BY <2>2, <2>3
<1>9. N \in Nat
  OBVIOUS
<1>10. /\ Total(fresh, N) <= Total(old, N)
       /\ Total(fresh, N) \in Int /\ Total(old, N) \in Int
  BY ONLY <1>8, <1>9, TotalMonotone, TotalType
<1>11. BASE * held \in Int
  BY <1>1
<1>12. Total(Values(balances', localIndexes', index, 0), N) <= BASE * held'
  BY <1>4, <1>6, <1>7, <1>10, <1>11
<1>13. QED
  BY <1>2, <1>3, <1>5, <1>12 DEF Sound

\* The balances b are the stored ones after a trade that moves the margin x and
\* the position y from the taker to the maker.
IsTrade(b, maker, taker, x, y) ==
    /\ maker # taker
    /\ b[maker].margin = balances[maker].margin + x
    /\ b[maker].position = balances[maker].position + y
    /\ b[taker].margin = balances[taker].margin - x
    /\ b[taker].position = balances[taker].position - y
    /\ \A a \in Account : a # maker /\ a # taker => b[a] = balances[a]

\* A trade between settled accounts keeps the stored balances in order.
LEMMA TradeSound ==
    ASSUME TypeOK, Sound(balances, localIndexes, globalIndex),
           NEW maker \in Account, NEW taker \in Account,
           localIndexes[maker] = globalIndex, localIndexes[taker] = globalIndex,
           NEW b \in [Account -> Balance], NEW x \in Int, NEW y \in Int,
           IsTrade(b, maker, taker, x, y)
    PROVE  Sound(b, localIndexes, globalIndex)
<1>1. /\ balances \in [Account -> Balance] /\ localIndexes \in [Account -> Index]
      /\ globalIndex \in Index /\ held \in Int
  BY DEF TypeOK
<1>2. ASSUME NEW c \in Balance, NEW a \in {maker, taker}
      PROVE  /\ ExactValue(c, localIndexes[a], globalIndex, 0) = BASE * c.margin
             /\ c.margin \in Int /\ c.position \in Int
  <2>1. c.position \in Int /\ c.margin \in Int
    BY DEF Balance, Uint120
  <2>2. ExactValue(c, localIndexes[a], globalIndex, 0) = BASE * c.margin + c.position * 0
    BY <1>1, FreshValue
  <2>3. BASE * c.margin \in Int /\ c.position * 0 = 0
    BY ONLY <2>1, BASE \in Nat
  <2>4. PICK m \in Int, none \in Int : m = BASE * c.margin /\ none = c.position * 0 /\ none = 0
    BY ONLY <2>3
  <2>5. QED
    BY ONLY <2>1, <2>2, <2>4
<1>3. PICK f \in [1..N -> Int] : f = Values(balances, localIndexes, globalIndex, 0)
  BY <1>1, 0 \in Int, ValuesType
<1>4. PICK pos \in [1..N -> Int] : pos = Positions(balances)
  BY <1>1, 0 \in Int, ValuesType
<1>5. PICK d \in Int : d = BASE * x
  OBVIOUS
<1>6. /\ ExactValue(b[maker], localIndexes[maker], globalIndex, 0) = f[maker] + d
      /\ ExactValue(b[taker], localIndexes[taker], globalIndex, 0) = f[taker] - d
  <2>1. /\ balances[maker] \in Balance /\ balances[taker] \in Balance
        /\ b[maker] \in Balance /\ b[taker] \in Balance
    BY <1>1
  <2>2. /\ f[maker] = BASE * balances[maker].margin
        /\ f[taker] = BASE * balances[taker].margin
        /\ ExactValue(b[maker], localIndexes[maker], globalIndex, 0)
             = BASE * (balances[maker].margin + x)
        /\ ExactValue(b[taker], localIndexes[taker], globalIndex, 0)
             = BASE * (balances[taker].margin - x)
    BY <1>2, <1>3, <2>1 DEF Values, IsTrade
  <2>3. PICK u \in Int : u = balances[maker].margin
    BY <1>2, <2>1
  <2>4. PICK v \in Int : v = balances[taker].margin
    BY <1>2, <2>1
  <2>5. /\ BASE * (u + x) = BASE * u + BASE * x
        /\ BASE * (v - x) = BASE * v - BASE * x
    <3>1. \A z \in Int : BASE * (z + x) = BASE * z + BASE * x
      BY ONLY x \in Int, BASE \in Nat, Products
    <3>2. \A z \in Int : BASE * (z - x) = BASE * z - BASE * x
      BY ONLY x \in Int, BASE \in Nat, Products
    <3>3. QED
      BY <3>1, <3>2
  <2>6. QED
    BY <1>5, <2>2, <2>3, <2>4, <2>5
<1>7. PICK g \in [1..N -> Int] : g = Values(b, localIndexes, globalIndex, 0)
  BY <1>1, 0 \in Int, ValuesType
<1>8. PICK newPos \in [1..N -> Int] : newPos = Positions(b)
  BY <1>1, 0 \in Int, ValuesType
<1>9. N \in Nat /\ maker \in 1..N /\ taker \in 1..N
  OBVIOUS
<1>10. Total(g, N) = Total(f, N)
  <2>1. g[maker] = f[maker] + d /\ g[taker] = f[taker] - d
    BY <1>3, <1>6, <1>7 DEF Values, IsTrade
  <2>2. PICK p \in Int, q \in Int : p = f[maker] /\ q = f[taker]
    OBVIOUS
  <2>3. (p + d) + (q - d) = p + q
    OBVIOUS
  <2>4. \A a \in 1..N : a # maker /\ a # taker => g[a] = f[a]
    BY <1>3, <1>6, <1>7 DEF Values, IsTrade
  <2>5. IsTransfer(f, g, maker, taker, N)
    BY <2>1, <2>2, <2>3, <2>4 DEF IsTransfer, IsTrade
  <2>6. QED
    BY ONLY <1>9, <2>5, TotalTransfer
<1>11. Total(newPos, N) = Total(pos, N)
  <2>1. newPos[maker] = pos[maker] + y /\ newPos[taker] = pos[taker] - y
    BY <1>4, <1>8 DEF Positions, IsTrade
  <2>2. PICK p \in Int, q \in Int : p = pos[maker] /\ q = pos[taker]
    OBVIOUS
  <2>3. (p + y) + (q - y) = p + q
    OBVIOUS
  <2>4. \A a \in 1..N : a # maker /\ a # taker => newPos[a] = pos[a]
    BY <1>4, <1>8 DEF Positions, IsTrade
  <2>5. IsTransfer(pos, newPos, maker, taker, N)
    BY <2>1, <2>2, <2>3, <2>4 DEF IsTransfer, IsTrade
  <2>6. QED
    BY ONLY <1>9, <2>5, TotalTransfer
<1>12. QED
  BY <1>3, <1>4, <1>7, <1>8, <1>10, <1>11 DEF Sound

-----------------------------------------------------------------------------
(* Solvency is inductive.                                                  *)

LEMMA InitSolvency == Init => SolvencyInv
<1> SUFFICES ASSUME Init
             PROVE  SolvencyInv
  OBVIOUS
<1>1. TypeOK
  BY InitType
<1>2. PICK f \in [1..N -> Int] : f = Values(balances, localIndexes, globalIndex, 0)
  BY <1>1, 0 \in Int, ValuesType DEF TypeOK
<1>3. PICK pos \in [1..N -> Int] : pos = Positions(balances)
  BY <1>1, 0 \in Int, ValuesType DEF TypeOK
<1>4. \A a \in 1..N : f[a] = 0 /\ pos[a] = 0
  <2> SUFFICES ASSUME NEW a \in 1..N
               PROVE  f[a] = 0 /\ pos[a] = 0
    OBVIOUS
  <2>1. /\ balances[a] = [margin |-> 0, position |-> 0]
        /\ localIndexes[a] = [timestamp |-> 0, value |-> 0]
        /\ globalIndex = [timestamp |-> 1, value |-> 0]
    BY DEF Init
  <2>2. f[a] = ExactValue(balances[a], localIndexes[a], globalIndex, 0)
    BY <1>2 DEF Values
  <2>3. ExactValue(balances[a], localIndexes[a], globalIndex, 0)
          = BASE * 0 - 0 * (0 - 0) + 0 * 0
    BY <2>1 DEF ExactValue, ExactMargin
  <2>4. BASE * 0 - 0 * (0 - 0) + 0 * 0 = 0
    OBVIOUS
  <2>5. pos[a] = 0
    BY <1>3, <2>1 DEF Positions
  <2>6. QED
    BY <2>2, <2>3, <2>4, <2>5
<1>5. N \in Nat
  OBVIOUS
<1>6. Total(f, N) = 0 /\ Total(pos, N) = 0
  BY ONLY <1>4, <1>5, TotalZero
<1>7. held = 0 /\ ~finalSettlement /\ tx = NoTx /\ now = 1
  BY DEF Init
<1>8. \A a \in Account : localIndexes[a].timestamp = 0
  BY DEF Init
<1>9. globalIndex.timestamp = 1 /\ BASE * held = 0
  BY <1>7 DEF Init
<1>10. Sound(balances, localIndexes, globalIndex)
  BY <1>2, <1>3, <1>6, <1>7, <1>8, <1>9 DEF Sound
<1>11. QED
  BY <1>7, <1>10 DEF SolvencyInv, NoTx

\* An operation of the contract while it trades, outside a trade transaction.
LEMMA TradingSolvency ==
    ASSUME ~tx.active, tx' = tx, finalSettlement' = finalSettlement,
           ~finalSettlement, Sound(balances, localIndexes, globalIndex)'
    PROVE  SolvencyInv'
BY DEF SolvencyInv

LEMMA DepositSolvency ==
    ASSUME TypeOK, SolvencyInv, NEW account \in Account, NEW amount \in Amount,
           Deposit(account, amount)
    PROVE  SolvencyInv'
<1>1. PICK index \in LoadedIndexes :
        LET settled == SettledAccount(account, index)
            balance == [settled EXCEPT !.margin = @ + amount]
        IN  /\ Fits(settled) /\ Fits(balance)
            /\ balances' = [balances EXCEPT ![account] = balance]
            /\ StoreIndexes({account}, index)
  BY DEF Deposit
<1>2. TypeOK'
  BY DepositType
<1>3. SettledAccount(account, index) \in [margin: Int, position: Int]
  BY LoadedType, SettledType DEF SettledAccount, TypeOK
<1>4. /\ balances'[account]
           = [SettledAccount(account, index) EXCEPT !.margin = @ + amount]
      /\ \A a \in Account : a # account => balances'[a] = balances[a]
      /\ StoreIndexes({account}, index)
  BY <1>1 DEF TypeOK
<1>5. held \in Int /\ held' = held + amount /\ now' = now /\ amount \in Int
  BY DEF Deposit, chain, TypeOK
<1>6. /\ balances'[account].margin
           = SettledAccount(account, index).margin + (held' - held)
      /\ balances'[account].position = SettledAccount(account, index).position
  BY <1>3, <1>4, <1>5
<1>7. Sound(balances, localIndexes, globalIndex)
  BY DEF Deposit, SolvencyInv
<1>8. Sound(balances, localIndexes, globalIndex)'
  BY ONLY TypeOK, <1>2, <1>4, <1>5, <1>6, <1>7, account \in Account, SettleOneSound
<1>9. QED
  BY <1>8, TradingSolvency DEF Deposit, final

LEMMA WithdrawSolvency ==
    ASSUME TypeOK, SolvencyInv, NEW sender \in Address, NEW account \in Account,
           NEW amount \in Amount, Withdraw(sender, account, amount)
    PROVE  SolvencyInv'
<1>1. PICK index \in LoadedIndexes :
        LET settled == SettledAccount(account, index)
            balance == [settled EXCEPT !.margin = @ - amount]
        IN  /\ Fits(settled) /\ Fits(balance)
            /\ balances' = [balances EXCEPT ![account] = balance]
            /\ StoreIndexes({account}, index)
  BY DEF Withdraw
<1>2. TypeOK'
  BY WithdrawType
<1>3. SettledAccount(account, index) \in [margin: Int, position: Int]
  BY LoadedType, SettledType DEF SettledAccount, TypeOK
<1>4. /\ balances'[account]
           = [SettledAccount(account, index) EXCEPT !.margin = @ - amount]
      /\ \A a \in Account : a # account => balances'[a] = balances[a]
      /\ StoreIndexes({account}, index)
  BY <1>1 DEF TypeOK
<1>5. held \in Int /\ held' = held - amount /\ now' = now /\ amount \in Int
  BY DEF Withdraw, chain, TypeOK
<1>6. /\ balances'[account].margin
           = SettledAccount(account, index).margin + (held' - held)
      /\ balances'[account].position = SettledAccount(account, index).position
  BY <1>3, <1>4, <1>5
<1>7. Sound(balances, localIndexes, globalIndex)
  BY DEF Withdraw, SolvencyInv
<1>8. Sound(balances, localIndexes, globalIndex)'
  BY ONLY TypeOK, <1>2, <1>4, <1>5, <1>6, <1>7, account \in Account, SettleOneSound
<1>9. QED
  BY <1>8, TradingSolvency DEF Withdraw, final

LEMMA BeginTradeSolvency ==
    ASSUME TypeOK, SolvencyInv, NEW accounts \in SUBSET Account, BeginTrade(accounts)
    PROVE  SolvencyInv'
<1>1. PICK index \in LoadedIndexes :
        /\ balances' = SettledBalances(accounts, index)
        /\ StoreIndexes(accounts, index)
        /\ tx' = [active |-> TRUE,
                  accounts |-> accounts,
                  price |-> oraclePrice,
                  initialBalances |-> SettledBalances(accounts, index),
                  currentBalances |-> SettledBalances(accounts, index),
                  traderFlags |-> {},
                  undo |-> [balances |-> balances,
                            localIndexes |-> localIndexes,
                            globalIndex |-> globalIndex]]
  BY DEF BeginTrade
<1>2. TypeOK'
  BY BeginTradeType
<1>3. ~finalSettlement /\ finalSettlement' = finalSettlement
      /\ held' = held /\ now' = now
  BY DEF BeginTrade, final, chain
<1>4. Sound(balances, localIndexes, globalIndex)
  BY <1>3 DEF SolvencyInv
<1>5. Sound(balances, localIndexes, globalIndex)'
  BY ONLY TypeOK, <1>1, <1>2, <1>3, <1>4, SettleManySound
<1>6. \A a \in accounts : localIndexes'[a] = index
  BY ONLY TypeOK, <1>1, <1>4, StoreIndexesSound
<1>7. \A a \in accounts : localIndexes'[a] = globalIndex'
  BY <1>1, <1>6 DEF StoreIndexes
<1>8. Sound(tx.undo.balances, tx.undo.localIndexes, tx.undo.globalIndex)'
  BY <1>1, <1>3, <1>4 DEF Sound
<1>9. /\ tx'.accounts = accounts
      /\ \A a \in accounts : tx'.currentBalances[a] = balances'[a]
  BY <1>1
<1>10. QED
  BY <1>3, <1>5, <1>7, <1>8, <1>9 DEF SolvencyInv

\* What a trade does to the two sides, whichever of them buys.
LEMMA Exchange ==
    ASSUME NEW m \in Balance, NEW t \in Balance, NEW result \in AnyResult
    PROVE  \E x \in Int, y \in Int :
             /\ MakerAfter(m, result).margin = m.margin + x
             /\ MakerAfter(m, result).position = m.position + y
             /\ TakerAfter(t, result).margin = t.margin - x
             /\ TakerAfter(t, result).position = t.position - y
<1>1. /\ m.margin \in Int /\ m.position \in Int
      /\ t.margin \in Int /\ t.position \in Int
      /\ result.marginAmount \in Int /\ result.positionAmount \in Int
      /\ result.isBuy \in BOOLEAN
  BY DEF Balance, Uint120, AnyResult
<1>2. CASE result.isBuy
  <2>1. PICK x \in Int, y \in Int : x = result.marginAmount /\ y = -result.positionAmount
    BY <1>1
  <2>2. QED
    BY <1>1, <1>2, <2>1 DEF MakerAfter, TakerAfter
<1>3. CASE ~result.isBuy
  <2>1. PICK x \in Int, y \in Int : x = -result.marginAmount /\ y = result.positionAmount
    BY <1>1
  <2>2. QED
    BY <1>1, <1>3, <2>1 DEF MakerAfter, TakerAfter
<1>4. QED
  BY <1>1, <1>2, <1>3

LEMMA TradeStepSolvency ==
    ASSUME TypeOK, SolvencyInv, NEW trader \in Operator, NEW maker \in Account,
           NEW taker \in Account, NEW result \in AnyResult,
           TradeStep(trader, maker, taker, result)
    PROVE  SolvencyInv'
<1> DEFINE makerBalance == MakerAfter(tx.currentBalances[maker], result)
           takerBalance == TakerAfter(tx.currentBalances[taker], result)
           traded == [tx.currentBalances EXCEPT ![maker] = makerBalance,
                                                ![taker] = takerBalance]
<1>1. /\ tx \in Transaction /\ tx.active
      /\ maker \in tx.accounts /\ taker \in tx.accounts
  BY DEF TradeStep, TypeOK, NoTx
<1>2. TypeOK'
  BY TradeStepType
<1>3. /\ ~finalSettlement /\ finalSettlement' = finalSettlement
      /\ held' = held /\ now' = now
      /\ localIndexes' = localIndexes /\ globalIndex' = globalIndex
  BY <1>1 DEF SolvencyInv, TradeStep, final, chain
<1>4. /\ Sound(balances, localIndexes, globalIndex)
      /\ Sound(tx.undo.balances, tx.undo.localIndexes, tx.undo.globalIndex)
      /\ \A a \in tx.accounts : tx.currentBalances[a] = balances[a]
                               /\ localIndexes[a] = globalIndex
  BY <1>1, <1>3 DEF SolvencyInv
<1>5. CASE maker = taker /\ UNCHANGED balances
           /\ tx' = [tx EXCEPT !.traderFlags = @ \cup result.traderFlags]
  <2>1. /\ tx'.active /\ tx'.accounts = tx.accounts /\ tx'.undo = tx.undo
        /\ tx'.currentBalances = tx.currentBalances
    BY <1>1, <1>5 DEF Transaction
  <2>2. /\ Sound(balances, localIndexes, globalIndex)'
        /\ Sound(tx.undo.balances, tx.undo.localIndexes, tx.undo.globalIndex)'
    BY <1>3, <1>4, <1>5, <2>1 DEF Sound
  <2>3. QED
    BY <1>3, <1>4, <1>5, <2>1, <2>2 DEF SolvencyInv
<1>6. CASE /\ maker # taker
           /\ tx' = [tx EXCEPT !.traderFlags = @ \cup result.traderFlags,
                               !.currentBalances = traded]
           /\ StoreTraded(maker, taker, traded)
  <2>1. /\ tx'.active /\ tx'.accounts = tx.accounts /\ tx'.undo = tx.undo
        /\ tx'.currentBalances = traded
    BY <1>1, <1>6 DEF Transaction
  <2>2. /\ tx.currentBalances \in [Account -> Balance] /\ tx.accounts \in SUBSET Account
        /\ balances \in [Account -> Balance] /\ balances' \in [Account -> Balance]
        /\ globalIndex \in Index
    BY <1>1, <1>2 DEF Transaction, TypeOK
  <2>3. /\ traded[maker] = makerBalance /\ traded[taker] = takerBalance
        /\ \A a \in Account : a # maker /\ a # taker => traded[a] = tx.currentBalances[a]
    BY <1>6, <2>2
  <2> HIDE DEF traded
  <2>4. /\ balances'[maker] = makerBalance /\ balances'[taker] = takerBalance
        /\ \A a \in Account : a # maker /\ a # taker => balances'[a] = balances[a]
    BY <1>6, <2>2, <2>3 DEF StoreTraded
  <2>5. PICK m \in Balance, t \in Balance : m = balances[maker] /\ t = balances[taker]
    BY <2>2
  <2>6. makerBalance = MakerAfter(m, result) /\ takerBalance = TakerAfter(t, result)
    BY <1>1, <1>4, <2>5
  <2>7. PICK x \in Int, y \in Int :
          /\ makerBalance.margin = m.margin + x
          /\ makerBalance.position = m.position + y
          /\ takerBalance.margin = t.margin - x
          /\ takerBalance.position = t.position - y
    BY <2>6, Exchange
  <2> HIDE DEF makerBalance, takerBalance
  <2>8. PICK b \in [Account -> Balance] : b = balances'
    BY <2>2
  <2>9. IsTrade(b, maker, taker, x, y)
    BY <1>6, <2>4, <2>5, <2>7, <2>8 DEF IsTrade
  <2>10. localIndexes[maker] = globalIndex /\ localIndexes[taker] = globalIndex
    BY <1>1, <1>4
  <2>11. Sound(b, localIndexes, globalIndex)
    BY ONLY TypeOK, <1>4, <2>9, <2>10, maker \in Account, taker \in Account, TradeSound
  <2>12. /\ Sound(balances, localIndexes, globalIndex)'
         /\ Sound(tx.undo.balances, tx.undo.localIndexes, tx.undo.globalIndex)'
    BY <1>3, <1>4, <2>1, <2>8, <2>11 DEF Sound
  <2>13. \A a \in tx.accounts : traded[a] = balances'[a]
    BY <1>4, <2>2, <2>3, <2>4
  <2>14. QED
    BY <1>3, <1>4, <2>1, <2>12, <2>13 DEF SolvencyInv
<1>7. QED
  BY <1>5, <1>6 DEF TradeStep

\* The end of a trade keeps the storage, a revert restores it.
LEMMA EndTradeSolvency ==
    ASSUME TypeOK, SolvencyInv, EndTrade \/ RevertTrade
    PROVE  SolvencyInv'
<1>1. /\ tx.active /\ tx' = NoTx /\ ~tx'.active /\ ~finalSettlement
      /\ finalSettlement' = finalSettlement /\ held' = held /\ now' = now
  BY DEF EndTrade, RevertTrade, SolvencyInv, final, chain, NoTx
<1>2. /\ Sound(balances, localIndexes, globalIndex)
      /\ Sound(tx.undo.balances, tx.undo.localIndexes, tx.undo.globalIndex)
  BY <1>1 DEF SolvencyInv
<1>3. CASE EndTrade
  <2>1. Sound(balances, localIndexes, globalIndex)'
    BY <1>1, <1>2, <1>3 DEF EndTrade, Sound, storage
  <2>2. QED
    BY <1>1, <2>1 DEF SolvencyInv
<1>4. CASE RevertTrade
  <2>1. Sound(balances, localIndexes, globalIndex)'
    BY <1>1, <1>2, <1>4 DEF RevertTrade, Sound
  <2>2. QED
    BY <1>1, <2>1 DEF SolvencyInv
<1>5. QED
  BY <1>3, <1>4

\* When final settlement is enabled the positions still cancel out, so that the
\* price at which they are settled is of no consequence to the contract.
LEMMA EnableFinalSettlementSolvency ==
    ASSUME TypeOK, SolvencyInv, NEW lowerBound, NEW upperBound,
           EnableFinalSettlement(lowerBound, upperBound)
    PROVE  SolvencyInv'
<1>1. PICK index \in LoadedIndexes : StoreIndexes({}, index)
  BY DEF EnableFinalSettlement
<1>2. /\ balances' = balances /\ held' = held /\ finalPrice' = oraclePrice
      /\ finalSettlement' /\ ~tx'.active
      /\ Sound(balances, localIndexes, globalIndex)
  BY DEF EnableFinalSettlement, SolvencyInv
<1>3. globalIndex' = index /\ localIndexes' = localIndexes
  <2>1. \A a \in Account : localIndexes'[a] = localIndexes[a]
    BY <1>1 DEF StoreIndexes
  <2>2. localIndexes' \in [Account -> Index] /\ localIndexes \in [Account -> Index]
    BY <1>1, LoadedType, StoreIndexesType DEF TypeOK
  <2>3. QED
    BY <1>1, <2>1, <2>2 DEF StoreIndexes
<1>4. \A a \in Account :
        /\ localIndexes'[a].timestamp <= index.timestamp
        /\ localIndexes'[a].timestamp = index.timestamp => localIndexes'[a] = index
  <2>1. PICK accounts \in SUBSET Account : accounts = {}
    OBVIOUS
  <2>2. StoreIndexes(accounts, index)
    BY <1>1, <2>1
  <2>3. QED
    BY ONLY TypeOK, <1>1, <1>2, <2>2, StoreIndexesSound
<1>5. SkipIsSound'
  BY <1>3, <1>4 DEF SkipIsSound
<1>6. Total(Values(balances, localIndexes, index, oraclePrice), N)
        = Total(Values(balances, localIndexes, globalIndex, 0), N)
  <2>1. /\ balances \in [Account -> Balance] /\ localIndexes \in [Account -> Index]
        /\ index \in Index /\ globalIndex \in Index
        /\ oraclePrice \in Int /\ 0 \in Int
    BY LoadedType DEF TypeOK, Price, Oracle
  <2>2. Total(Positions(balances), N) = 0
    BY <1>2 DEF Sound
  <2>3. QED
    BY ONLY <2>1, <2>2, ZeroSumNeutral
<1>7. (Claims(finalPrice) <= BASE * held)'
  BY <1>2, <1>3, <1>6 DEF Claims, Sound
<1>8. QED
  BY <1>2, <1>5, <1>7 DEF SolvencyInv

\* A payout is taken from the value of the account it goes to.
LEMMA PayoutRounds ==
    ASSUME TypeOK, SkipIsSound, NEW account \in Account,
           WithdrawFinalSettlement(account)
    PROVE  /\ balances'[account].margin \in Int /\ balances'[account].position \in Int
           /\ BASE * balances'[account].margin + balances'[account].position * finalPrice
                <= ExactValue(balances[account], localIndexes[account], globalIndex,
                              finalPrice) - BASE * (held - held')
<1> DEFINE settled == SettledAccount(account, globalIndex)
           positive == PositiveValue(settled, finalPrice)
           negative == NegativeValue(settled, finalPrice)
           accountValue == (positive - negative) \div BASE
           amount == IF held < accountValue THEN held ELSE accountValue
<1>1. /\ balances \in [Account -> Balance] /\ localIndexes \in [Account -> Index]
      /\ globalIndex \in Index /\ finalPrice \in Nat /\ held \in Int
      /\ balances[account] \in Balance /\ localIndexes[account] \in Index
  BY DEF TypeOK, Price, Oracle
<1>2. settled \in [margin: Int, position: Int]
  BY <1>1, SettledType DEF SettledAccount
<1>3. PICK m \in Int, pos \in Int : m = settled.margin /\ pos = settled.position
  BY <1>2
<1>4. PICK old \in Int :
        old = ExactValue(balances[account], localIndexes[account], globalIndex, finalPrice)
  <2>1. Values(balances, localIndexes, globalIndex, finalPrice) \in [1..N -> Int]
    BY <1>1, finalPrice \in Int, ValuesType
  <2>2. QED
    BY <2>1 DEF Values
<1>5. BASE * m + pos * finalPrice <= old
  <2>1. localIndexes[account].timestamp = globalIndex.timestamp
          => localIndexes[account] = globalIndex
    BY DEF SkipIsSound
  <2>2. PICK b \in Balance, l \in Index, p \in Int :
          b = balances[account] /\ l = localIndexes[account] /\ p = finalPrice
    BY <1>1
  <2>3. /\ BASE * Settled(b, l, globalIndex).margin + b.position * p
             <= ExactValue(b, l, globalIndex, p)
        /\ Settled(b, l, globalIndex).position = b.position
    <3>1. l.timestamp = globalIndex.timestamp => l = globalIndex
      BY ONLY <2>1, <2>2
    <3>2. p \in Int /\ globalIndex \in Index
      BY <1>1, <2>2
    <3>3. QED
      BY ONLY <3>1, <3>2, SettlingRounds, SettledType
  <2>4. QED
    BY <1>3, <1>4, <2>2, <2>3 DEF SettledAccount
<1>6. /\ positive \in Int /\ negative \in Int
      /\ positive - negative = m * BASE + pos * finalPrice
  BY <1>1, <1>2, <1>3, ValueType
<1>7. \/ /\ balances' = [balances EXCEPT ![account] = settled]
         /\ held' = held
      \/ /\ balances' = [balances EXCEPT
                            ![account] = RemainingBalance(accountValue, amount)]
         /\ held' = held - amount
  BY DEF WithdrawFinalSettlement
<1> HIDE DEF settled, positive, negative
<1>8. CASE balances' = [balances EXCEPT ![account] = settled] /\ held' = held
  <2>1. balances'[account] = settled
    BY <1>1, <1>8
  <2>2. BASE * (held - held') = 0
    BY <1>1, <1>8
  <2>3. QED
    BY <1>3, <1>4, <1>5, <2>1, <2>2
<1>9. CASE /\ balances' = [balances EXCEPT
                              ![account] = RemainingBalance(accountValue, amount)]
           /\ held' = held - amount
  <2>1. PICK x \in Int : x = positive - negative
    BY <1>6
  <2>2. PICK v \in Int : v = accountValue /\ BASE * v <= x
    BY <2>1, Division
  <2> HIDE DEF accountValue
  <2>3. PICK paid \in Int : paid = amount
    BY <1>1, <2>2
  <2> HIDE DEF amount
  <2>4. balances'[account] = [margin |-> v - paid, position |-> 0]
    BY <1>1, <1>9, <2>2, <2>3 DEF RemainingBalance
  <2>5. held - held' = paid
    BY <1>1, <1>9, <2>3
  <2>6. BASE * (v - paid) = BASE * v - BASE * paid
        /\ BASE * v \in Int /\ BASE * paid \in Int
    BY Products
  <2>7. x <= old
    <3>1. m * BASE = BASE * m
      OBVIOUS
    <3>2. QED
      BY <1>5, <1>6, <2>1, <3>1
  <2>8. 0 * finalPrice = 0
    BY <1>1
  <2>9. QED
    BY <1>4, <2>2, <2>4, <2>5, <2>6, <2>7, <2>8
<1>10. QED
  BY <1>7, <1>8, <1>9

LEMMA WithdrawFinalSettlementSolvency ==
    ASSUME TypeOK, SolvencyInv, NEW account \in Account,
           WithdrawFinalSettlement(account)
    PROVE  SolvencyInv'
<1>1. /\ SkipIsSound /\ Claims(finalPrice) <= BASE * held
      /\ finalSettlement' /\ ~tx'.active /\ finalPrice' = finalPrice
      /\ globalIndex' = globalIndex
  BY DEF SolvencyInv, WithdrawFinalSettlement, final, StoreIndexes
<1>2. TypeOK'
  BY WithdrawFinalSettlementType
<1>3. /\ balances \in [Account -> Balance] /\ balances' \in [Account -> Balance]
      /\ localIndexes \in [Account -> Index] /\ localIndexes' \in [Account -> Index]
      /\ globalIndex \in Index /\ held \in Int /\ held' \in Int
      /\ finalPrice \in Int
  BY <1>2 DEF TypeOK, Price, Oracle
<1>4. /\ localIndexes'[account] = globalIndex
      /\ \A a \in Account : a # account => /\ localIndexes'[a] = localIndexes[a]
                                          /\ balances'[a] = balances[a]
  BY <1>1 DEF WithdrawFinalSettlement, StoreIndexes, SkipIsSound, TypeOK
<1>5. SkipIsSound'
  <2>1. globalIndex.timestamp \in Int
    BY <1>3 DEF Index
  <2>2. ASSUME NEW a \in Account
        PROVE  /\ localIndexes'[a].timestamp <= globalIndex.timestamp
               /\ localIndexes'[a].timestamp = globalIndex.timestamp
                    => localIndexes'[a] = globalIndex
    BY <1>1, <1>4, <2>1 DEF SkipIsSound
  <2>3. QED
    BY <1>1, <2>2 DEF SkipIsSound
<1>6. PICK p \in Int : p = finalPrice
  BY <1>3
<1>7. PICK f \in [1..N -> Int] : f = Values(balances, localIndexes, globalIndex, p)
  BY <1>3, ValuesType
<1>8. PICK fresh \in Int :
        /\ fresh = ExactValue(balances'[account], localIndexes'[account], globalIndex, p)
        /\ fresh <= f[account] - BASE * (held - held')
  <2>1. f[account]
          = ExactValue(balances[account], localIndexes[account], globalIndex, finalPrice)
    BY <1>6, <1>7 DEF Values
  <2>2. /\ BASE * balances'[account].margin + balances'[account].position * p
             <= f[account] - BASE * (held - held')
        /\ balances'[account].margin \in Int /\ balances'[account].position \in Int
    BY <1>1, <1>6, <2>1, PayoutRounds
  <2>3. PICK new \in Balance : new = balances'[account]
    BY <1>3
  <2>4. ExactValue(new, globalIndex, globalIndex, p) = BASE * new.margin + new.position * p
    BY <1>3, FreshValue
  <2>5. PICK x \in Int, y \in Int : x = new.margin /\ y = new.position
    BY <2>2, <2>3
  <2>6. BASE * x + y * p \in Int
    OBVIOUS
  <2>7. QED
    BY <1>4, <2>2, <2>3, <2>4, <2>5, <2>6
<1>9. Values(balances', localIndexes', globalIndex, p) = [f EXCEPT ![account] = fresh]
  BY <1>3, <1>4, <1>7, <1>8 DEF Values
<1>10. N \in Nat /\ account \in 1..N
  OBVIOUS
<1>11. Total([f EXCEPT ![account] = fresh], N) = Total(f, N) + (fresh - f[account])
  BY ONLY <1>10, TotalUpdate
<1>12. PICK old \in Int : old = Total(f, N) /\ old <= BASE * held
  BY <1>1, <1>6, <1>7, <1>10, TotalType DEF Claims
<1>13. (Claims(finalPrice) <= BASE * held)'
  <2>1. BASE * (held - held') = BASE * held - BASE * held'
        /\ BASE * held \in Int /\ BASE * held' \in Int
    <3>1. PICK x \in Int, y \in Int : x = held /\ y = held'
      BY <1>3
    <3>2. BASE * (x - y) = BASE * x - BASE * y
      BY Products
    <3>3. BASE * x \in Int /\ BASE * y \in Int
      OBVIOUS
    <3>4. QED
      BY <3>1, <3>2, <3>3
  <2>2. PICK q \in Int : q = f[account]
    OBVIOUS
  <2>3. old + (fresh - q) <= BASE * held'
    <3>1. PICK before \in Int, after \in Int : before = BASE * held /\ after = BASE * held'
      BY <2>1
    <3>2. old <= before
      BY <1>12, <3>1
    <3>3. fresh <= q - (before - after)
      BY <1>8, <2>1, <2>2, <3>1
    <3>4. old + (fresh - q) <= after
      BY ONLY <3>2, <3>3, old \in Int, fresh \in Int, q \in Int, before \in Int, after \in Int
    <3>5. QED
      BY <3>1, <3>4
  <2>4. Claims(finalPrice)' = old + (fresh - q)
    BY <1>1, <1>6, <1>9, <1>11, <1>12, <2>2 DEF Claims
  <2>5. QED
    BY <2>3, <2>4
<1>14. QED
  BY <1>1, <1>5, <1>13 DEF SolvencyInv

\* Operations that leave the storage of balances and indexes alone, while time
\* passes and tokens arrive.
LEMMA OtherSolvency ==
    ASSUME TypeOK, TypeOK', SolvencyInv, ~tx.active, UNCHANGED <<storage, final, tx>>,
           held <= held', now <= now'
    PROVE  SolvencyInv'
<1>1. /\ balances' = balances /\ localIndexes' = localIndexes
      /\ globalIndex' = globalIndex /\ finalSettlement' = finalSettlement
      /\ finalPrice' = finalPrice /\ tx' = tx
  BY DEF storage, final
<1>2. PICK old \in Int, new \in Int : old = BASE * held /\ new = BASE * held' /\ old <= new
  <2>1. PICK x \in Int, y \in Int : x = held /\ y = held' /\ x <= y
    BY DEF TypeOK
  <2>2. BASE * x <= BASE * y /\ BASE * x \in Int /\ BASE * y \in Int
    <3>1. PICK z \in Nat : z = y - x
      BY <2>1
    <3>2. y = x + z /\ BASE * (x + z) = BASE * x + BASE * z
      BY <3>1, Products
    <3>3. BASE * z >= 0 /\ BASE * x \in Int /\ BASE * z \in Int
      OBVIOUS
    <3>4. QED
      BY <3>2, <3>3
  <2>3. QED
    BY <2>1, <2>2
<1>3. CASE ~finalSettlement
  <2>1. Sound(balances, localIndexes, globalIndex)
    BY <1>3 DEF SolvencyInv
  <2>2. PICK t \in Int : t = Total(Values(balances, localIndexes, globalIndex, 0), N)
    BY 0 \in Int, ValuesType DEF TypeOK
  <2>3. t <= BASE * held'
    BY <1>2, <2>1, <2>2 DEF Sound
  <2>4. globalIndex.timestamp <= now'
    <3>1. globalIndex.timestamp <= now
      BY <2>1 DEF Sound
    <3>2. globalIndex.timestamp \in Int /\ now \in Int /\ now' \in Int
      BY DEF TypeOK, Index
    <3>3. QED
      BY <3>1, <3>2
  <2>5. Sound(balances, localIndexes, globalIndex)'
    BY <1>1, <2>1, <2>2, <2>3, <2>4 DEF Sound
  <2>6. QED
    BY <1>1, <1>3, <2>5 DEF SolvencyInv
<1>4. CASE finalSettlement
  <2>1. SkipIsSound /\ Claims(finalPrice) <= BASE * held
    BY <1>4 DEF SolvencyInv
  <2>2. PICK p \in Int : p = finalPrice
    BY DEF TypeOK, Price, Oracle
  <2>3. PICK t \in Int : t = Total(Values(balances, localIndexes, globalIndex, p), N)
    BY ValuesType DEF TypeOK
  <2>4. t <= BASE * held'
    BY <1>2, <2>1, <2>2, <2>3 DEF Claims
  <2>5. SkipIsSound' /\ (Claims(finalPrice) <= BASE * held)'
    BY <1>1, <2>1, <2>2, <2>3, <2>4 DEF SkipIsSound, Claims
  <2>6. QED
    BY <1>1, <1>4, <2>5 DEF SolvencyInv
<1>5. QED
  BY <1>3, <1>4

LEMMA AdminSolvency ==
    ASSUME TypeOK, SolvencyInv,
           \/ \E operator \in Operator, approved \in BOOLEAN :
                 SetGlobalOperator(operator, approved)
           \/ \E newOracle \in Oracle : \E price \in Feed[newOracle] :
                 SetOracle(newOracle, price)
           \/ \E newFunder \in Funder : SetFunder(newFunder)
           \/ \E requirement \in MinCollateral : SetMinCollateral(requirement)
           \/ \E account \in Account, operator \in Delegate, approved \in BOOLEAN :
                 SetLocalOperator(account, operator, approved)
    PROVE  SolvencyInv'
<1>1. ~tx.active /\ UNCHANGED <<storage, final, tx>> /\ held' = held /\ now' = now
  BY DEF SetGlobalOperator, SetOracle, SetFunder, SetMinCollateral,
         SetLocalOperator, final, chain
<1>2. TypeOK'
  BY OtherAdminType
<1>3. held <= held' /\ now <= now'
  BY <1>1 DEF TypeOK
<1>4. QED
  BY <1>1, <1>2, <1>3, OtherSolvency

LEMMA ChainSolvency ==
    ASSUME TypeOK, SolvencyInv, ChainNext
    PROVE  SolvencyInv'
<1>1. ~tx.active /\ UNCHANGED <<storage, final, tx>>
  BY DEF ChainNext, Tick, PriceMoves, TokensArrive
<1>2. TypeOK'
  BY ChainType
<1>3. held <= held' /\ now <= now'
  BY DEF ChainNext, Tick, PriceMoves, TokensArrive, TypeOK, chain
<1>4. QED
  BY <1>1, <1>2, <1>3, OtherSolvency

LEMMA NextSolvency ==
    ASSUME TypeOK, SolvencyInv, [LedgerNext]_vars
    PROVE  SolvencyInv'
<1>1. CASE MarginNext
  BY <1>1, DepositSolvency, WithdrawSolvency DEF MarginNext
<1>2. CASE LedgerTradeNext
  BY <1>2, BeginTradeSolvency, TradeStepSolvency, EndTradeSolvency DEF LedgerTradeNext
<1>3. CASE \E account \in Account : WithdrawFinalSettlement(account)
  BY <1>3, WithdrawFinalSettlementSolvency
<1>4. CASE AdminNext
  BY <1>4, AdminSolvency, EnableFinalSettlementSolvency DEF AdminNext
<1>5. CASE \E account \in Account, operator \in Delegate, approved \in BOOLEAN :
             SetLocalOperator(account, operator, approved)
  BY <1>5, AdminSolvency
<1>6. CASE ChainNext
  BY <1>6, ChainSolvency
<1>7. CASE UNCHANGED vars
  <2>1. /\ balances' = balances /\ localIndexes' = localIndexes
        /\ globalIndex' = globalIndex /\ held' = held /\ now' = now /\ tx' = tx
        /\ finalSettlement' = finalSettlement /\ finalPrice' = finalPrice
    BY <1>7 DEF vars, storage, final, chain
  <2>2. CASE ~finalSettlement
    BY <2>1, <2>2 DEF SolvencyInv, Sound
  <2>3. CASE finalSettlement
    BY <2>1, <2>3 DEF SolvencyInv, SkipIsSound, Claims
  <2>4. QED
    BY <2>2, <2>3
<1>8. QED
  BY <1>1, <1>2, <1>3, <1>4, <1>5, <1>6, <1>7 DEF LedgerNext

LEMMA SolvencyInvariant == LedgerSpec => []SolvencyInv
<1>1. Init => SolvencyInv
  BY InitSolvency
<1>2. TypeOK /\ SolvencyInv /\ [LedgerNext]_vars => SolvencyInv'
  BY NextSolvency
<1>3. QED
  BY <1>1, <1>2, TypeInvariant, PTL DEF LedgerSpec

LEMMA LedgerSolvent == LedgerSpec => []Solvent
<1>1. TypeOK /\ SolvencyInv => Solvent
  <2> SUFFICES ASSUME TypeOK, SolvencyInv
               PROVE  Solvent
    OBVIOUS
  <2>1. CASE finalSettlement
    BY <2>1 DEF SolvencyInv, Solvent
  <2>2. CASE ~finalSettlement
    BY <2>2 DEF SolvencyInv, Sound, Solvent, Claims
  <2>3. QED
    BY <2>1, <2>2
<1>2. QED
  BY <1>1, TypeInvariant, SolvencyInvariant, PTL

\* The contract is never insolvent: whatever the accounts, prices, funding rates
\* and amounts, the claims of all accounts together, with funding settled to the
\* last fraction, are covered by the margin tokens it holds, between and inside
\* transactions and throughout final settlement.
THEOREM ContractSolvent == Spec => []Solvent
BY SpecIsLedgerSpec, LedgerSolvent

LEMMA LedgerZeroSum == LedgerSpec => []ZeroSum
<1>1. SolvencyInv => ZeroSum
  BY DEF SolvencyInv, Sound, ZeroSum
<1>2. QED
  BY <1>1, SolvencyInvariant, PTL

\* The positions of all accounts cancel out as long as trading is open.
THEOREM LongsAreShorts == Spec => []ZeroSum
BY SpecIsLedgerSpec, LedgerZeroSum

LEMMA LedgerSkipIsSound == LedgerSpec => []SkipIsSound
<1>1. SolvencyInv => SkipIsSound
  BY DEF SolvencyInv, Sound, SkipIsSound
<1>2. QED
  BY <1>1, SolvencyInvariant, PTL

\* An account _settleAccount skips, its index having the timestamp of the global
\* one, has no funding to pay or to be paid.
THEOREM SkippingLosesNoFunding == Spec => []SkipIsSound
BY SpecIsLedgerSpec, LedgerSkipIsSound

LEMMA LedgerMemory == LedgerSpec => []MemoryIsStorage
<1>1. SolvencyInv => MemoryIsStorage
  BY DEF SolvencyInv, MemoryIsStorage
<1>2. QED
  BY <1>1, SolvencyInvariant, PTL

\* What a trader contract reads through the getters while a trade is in progress
\* is what the trade will go on with.
THEOREM TradeMemoryIsStorage == Spec => []MemoryIsStorage
BY SpecIsLedgerSpec, LedgerMemory

-----------------------------------------------------------------------------
(* Final settlement: what is due is there, and what is closed stays closed. *)

\* A positive factor can be dropped from both sides.
LEMMA Cancellation ==
    ASSUME NEW c \in Nat \ {0}, NEW x \in Int, NEW y \in Int, c * x <= c * y
    PROVE  x <= y
<1>1. SUFFICES ASSUME x >= y + 1
               PROVE  FALSE
  OBVIOUS
<1>2. PICK z \in Nat : x = y + 1 + z
  <2>1. x - y - 1 \in Nat
    BY <1>1
  <2>2. QED
    BY <2>1
<1>3. c * (y + 1 + z) = c * y + c + c * z /\ c * z >= 0 /\ c * y \in Int
  OBVIOUS
<1>4. QED
  BY <1>2, <1>3

\* What an account may take is no more than its exact value.
LEMMA DueIsCovered ==
    ASSUME TypeOK, SkipIsSound, NEW a \in Account
    PROVE  LET settled == SettledAccount(a, globalIndex)
               due == (PositiveValue(settled, finalPrice)
                         - NegativeValue(settled, finalPrice)) \div BASE
           IN  /\ due \in Int
               /\ BASE * due <= ExactValue(balances[a], localIndexes[a], globalIndex,
                                           finalPrice)
<1> DEFINE settled == SettledAccount(a, globalIndex)
           value == PositiveValue(settled, finalPrice) - NegativeValue(settled, finalPrice)
<1>1. PICK b \in Balance, l \in Index, g \in Index, p \in Nat :
        b = balances[a] /\ l = localIndexes[a] /\ g = globalIndex /\ p = finalPrice
  BY DEF TypeOK, Price, Oracle
<1>2. settled = Settled(b, l, g)
  BY <1>1 DEF SettledAccount
<1>3. /\ settled \in [margin: Int, position: Int] /\ settled.position = b.position
  BY <1>2, SettledType
<1>4. BASE * settled.margin + b.position * p <= ExactValue(b, l, g, p)
  <2>1. l.timestamp = g.timestamp => l = g
    BY <1>1 DEF SkipIsSound
  <2>2. p \in Int
    OBVIOUS
  <2>3. QED
    BY <1>2, <2>1, <2>2, SettlingRounds
<1>5. value \in Int /\ value = settled.margin * BASE + settled.position * p
  BY <1>1, <1>3, ValueType
<1>6. PICK m \in Int, pos \in Int, v \in Int :
        m = settled.margin /\ pos = settled.position /\ v = value
  BY <1>3, <1>5
<1>7. m * BASE = BASE * m /\ BASE * m \in Int /\ pos * p \in Int
  OBVIOUS
<1>8. v = BASE * m + pos * p
  BY <1>5, <1>6, <1>7
<1>9. v \div BASE \in Int /\ BASE * (v \div BASE) <= v
  BY Division
<1>10. ExactValue(b, l, g, p) \in Int
  <2>1. Values(balances, localIndexes, globalIndex, p) \in [1..N -> Int]
    BY <1>1, p \in Int, ValuesType DEF TypeOK
  <2>2. QED
    BY <1>1, <2>1 DEF Values
<1>11. BASE * (v \div BASE) <= ExactValue(b, l, g, p)
  <2>1. BASE * (v \div BASE) \in Int
    BY <1>9
  <2>2. BASE * m + pos * p <= ExactValue(b, l, g, p)
    BY <1>3, <1>4, <1>6
  <2>3. QED
    BY <1>7, <1>8, <1>9, <1>10, <2>1, <2>2
<1>12. QED
  BY <1>1, <1>6, <1>9, <1>11

LEMMA LedgerPayouts == LedgerSpec => []PayoutsCovered
<1>1. TypeOK /\ SolvencyInv => PayoutsCovered
  <2> DEFINE Value(a) ==
               LET settled == SettledAccount(a, globalIndex)
               IN  PositiveValue(settled, finalPrice) - NegativeValue(settled, finalPrice)
             due == [a \in Account |-> Value(a) \div BASE]
  <2> SUFFICES ASSUME TypeOK, SolvencyInv, finalSettlement
               PROVE  Total(due, N) <= held
    BY DEF PayoutsCovered
  <2>1. SkipIsSound /\ Claims(finalPrice) <= BASE * held
    BY DEF SolvencyInv
  <2>2. PICK p \in Int : p = finalPrice
    BY DEF TypeOK, Price, Oracle
  <2>3. PICK exact \in [1..N -> Int] :
          exact = Values(balances, localIndexes, globalIndex, p)
    BY ValuesType DEF TypeOK
  <2>4. \A a \in Account : due[a] \in Int /\ BASE * due[a] <= exact[a]
    BY <2>1, <2>2, <2>3, DueIsCovered DEF Values
  <2> HIDE DEF due
  <2>5. PICK d \in [1..N -> Int] : d = due
    BY <2>4 DEF due
  <2> DEFINE scaled == [a \in 1..N |-> BASE * d[a]]
  <2>6. scaled \in [1..N -> Int] /\ Total(scaled, N) = BASE * Total(d, N)
    <3>1. BASE \in Int /\ N \in Nat
      OBVIOUS
    <3>2. scaled \in [1..N -> Int]
      BY <3>1
    <3>3. QED
      BY ONLY <3>1, <3>2, TotalScaled
  <2>7. \A a \in 1..N : scaled[a] <= exact[a]
    BY <2>4, <2>5
  <2> HIDE DEF scaled
  <2>8. Total(scaled, N) <= Total(exact, N)
    BY <2>6, <2>7, N \in Nat, TotalMonotone
  <2>9. PICK x \in Int, y \in Int, h \in Int :
          x = Total(d, N) /\ y = Total(exact, N) /\ h = held
    BY N \in Nat, TotalType DEF TypeOK
  <2>10. BASE * x <= BASE * h
    <3>1. y <= BASE * h
      BY <2>1, <2>2, <2>3, <2>9 DEF Claims
    <3>2. BASE * x \in Int /\ BASE * h \in Int
      OBVIOUS
    <3>3. QED
      BY <2>6, <2>8, <2>9, <3>1, <3>2
  <2>11. x <= h
    BY <2>10, BASE \in Nat \ {0}, Cancellation
  <2>12. QED
    BY <2>5, <2>9, <2>11
<1>2. QED
  BY <1>1, TypeInvariant, SolvencyInvariant, PTL

\* Everyone can be paid in full at the final price if no account is in debt.
THEOREM PayoutsStayCovered == Spec => []PayoutsCovered
BY SpecIsLedgerSpec, LedgerPayouts

LEMMA SettlementOfClosed ==
    ASSUME NEW d \in Int
    PROVE  Settlement(d, 0) = 0
<1>1. d * 0 = 0 /\ Abs(0) = 0 /\ Abs(d) \in Int
  BY DEF Abs
<1>2. Abs(d) * Abs(0) = 0
  BY <1>1
<1>3. BaseMulRoundUp(Abs(d), Abs(0)) = 0
  BY <1>2 DEF BaseMulRoundUp
<1>4. QED
  BY <1>1, <1>3 DEF Settlement

\* A payout closes the account's position or only settles it, and gives a closed
\* account nothing.
LEMMA PayoutCloses ==
    ASSUME TypeOK, NEW account \in Account, WithdrawFinalSettlement(account)
    PROVE  \A a \in Account :
             /\ balances'[a].position \in {0, balances[a].position}
             /\ balances[a].position = 0 => balances'[a].margin <= balances[a].margin
<1> DEFINE settled == SettledAccount(account, globalIndex)
           positive == PositiveValue(settled, finalPrice)
           negative == NegativeValue(settled, finalPrice)
           accountValue == (positive - negative) \div BASE
           amount == IF held < accountValue THEN held ELSE accountValue
<1>1. PICK b \in Balance, l \in Index, g \in Index, p \in Nat :
        /\ b = balances[account] /\ l = localIndexes[account]
        /\ g = globalIndex /\ p = finalPrice
  BY DEF TypeOK, Price, Oracle
<1>2. /\ settled = Settled(b, l, g) /\ settled \in [margin: Int, position: Int]
      /\ settled.position = b.position
  BY <1>1, SettledType DEF SettledAccount
<1>3. b.position = 0 => settled.margin = b.margin
  <2>1. b.margin \in Int /\ g.value - l.value \in Int
    BY DEF Balance, Uint120, Index
  <2>2. Settlement(g.value - l.value, 0) = 0
    BY <2>1, SettlementOfClosed
  <2>3. QED
    BY <1>2, <2>1, <2>2 DEF Settled, Balance
<1>4. CASE balances' = [balances EXCEPT ![account] = settled]
  <2>1. \A a \in Account : balances'[a] = IF a = account THEN settled ELSE balances[a]
    BY <1>4 DEF TypeOK
  <2>2. \A a \in Account : balances[a].margin \in Int
    BY DEF TypeOK, Balance, Uint120
  <2>3. QED
    BY <1>1, <1>2, <1>3, <2>1, <2>2
<1>5. CASE /\ positive >= negative
           /\ balances' = [balances EXCEPT
                              ![account] = RemainingBalance(accountValue, amount)]
  <2>1. /\ positive \in Int /\ negative \in Int
        /\ positive - negative = settled.margin * BASE + settled.position * p
    BY <1>1, <1>2, ValueType
  <2>2. PICK m \in Int, v \in Int : m = settled.margin /\ v = positive - negative /\ v >= 0
    BY <1>2, <1>5, <2>1
  <2>3. accountValue \in Int /\ accountValue >= 0
    <3>1. v \div BASE \in Int /\ v \div BASE >= 0
      BY <2>2
    <3>2. QED
      BY <2>2, <3>1
  <2>4. b.position = 0 => accountValue = m
    <3>1. SUFFICES ASSUME b.position = 0
                   PROVE  accountValue = m
      OBVIOUS
    <3>2. v = m * BASE
      <4>1. settled.position * p = 0 /\ m * BASE \in Int
        BY <1>2, <3>1
      <4>2. QED
        BY <2>1, <2>2, <4>1
    <3>3. (m * BASE) \div BASE = m
      OBVIOUS
    <3>4. QED
      BY <2>2, <3>2, <3>3
  <2>5. amount \in Int /\ amount >= 0
    BY <2>3 DEF TypeOK
  <2> HIDE DEF amount, accountValue
  <2>6. \A a \in Account : balances'[a] =
          IF a = account THEN [margin |-> accountValue - amount, position |-> 0]
          ELSE balances[a]
    BY <1>5 DEF TypeOK, RemainingBalance, amount, accountValue
  <2>7. \A a \in Account : balances[a].margin \in Int
    BY DEF TypeOK, Balance, Uint120
  <2>8. QED
    BY <1>1, <1>3, <2>2, <2>3, <2>4, <2>5, <2>6, <2>7
<1>6. QED
  BY <1>4, <1>5 DEF WithdrawFinalSettlement

LEMMA LedgerFinal == LedgerSpec => FinalIsFinal
<1> DEFINE Fixed ==
      /\ finalSettlement' /\ finalPrice' = finalPrice /\ globalIndex' = globalIndex
      /\ \A a \in Account :
           /\ balances'[a].position \in {0, balances[a].position}
           /\ balances[a].position = 0 => balances'[a].margin <= balances[a].margin
<1>1. TypeOK /\ SolvencyInv /\ [LedgerNext]_vars => (finalSettlement => Fixed) \/ UNCHANGED vars
  <2> SUFFICES ASSUME TypeOK, SolvencyInv, LedgerNext, finalSettlement
               PROVE  Fixed
    OBVIOUS
  <2>1. ~tx.active
    BY DEF SolvencyInv
  <2>2. \A a \in Account : balances[a].margin \in Int
    BY DEF TypeOK, Balance, Uint120
  <2>3. CASE \E account \in Account : WithdrawFinalSettlement(account)
    <3>1. PICK account \in Account : WithdrawFinalSettlement(account)
      BY <2>3
    <3>2. finalSettlement' /\ finalPrice' = finalPrice /\ globalIndex' = globalIndex
      BY <3>1 DEF WithdrawFinalSettlement, StoreIndexes, final
    <3>3. QED
      BY <3>1, <3>2, PayoutCloses
  <2>4. CASE MarginNext \/ LedgerTradeNext
    <3>1. CASE MarginNext
      BY <3>1 DEF MarginNext, Deposit, Withdraw
    <3>2. CASE LedgerTradeNext
      <4>1. ASSUME NEW accounts \in SUBSET Account, BeginTrade(accounts)
            PROVE  FALSE
        BY <4>1 DEF BeginTrade
      <4>2. ASSUME NEW trader, NEW maker, NEW taker, NEW result,
                   TradeStep(trader, maker, taker, result)
            PROVE  FALSE
        BY <2>1, <4>2 DEF TradeStep
      <4>3. ~EndTrade /\ ~RevertTrade
        BY <2>1 DEF EndTrade, RevertTrade
      <4>4. QED
        BY <3>2, <4>1, <4>2, <4>3 DEF LedgerTradeNext
    <3>3. QED
      BY <2>4, <3>1, <3>2
  <2>5. CASE \/ AdminNext \/ ChainNext
             \/ \E account \in Account, operator \in Delegate, approved \in BOOLEAN :
                   SetLocalOperator(account, operator, approved)
    <3>1. UNCHANGED <<storage, final>>
      BY <2>5 DEF AdminNext, ChainNext, SetGlobalOperator, SetOracle, SetFunder,
                  SetMinCollateral, EnableFinalSettlement, SetLocalOperator, Tick,
                  PriceMoves, TokensArrive
    <3>2. QED
      BY <2>2, <3>1 DEF storage, final
  <2>6. QED
    BY <2>3, <2>4, <2>5 DEF LedgerNext
<1>2. QED
  BY <1>1, TypeInvariant, SolvencyInvariant, PTL DEF LedgerSpec, FinalIsFinal

\* Once final settlement is enabled nothing but payouts moves a balance, and a
\* payout only closes: no order of calls turns the contract back.
THEOREM FinalStaysFinal == Spec => FinalIsFinal
BY SpecIsLedgerSpec, LedgerFinal

-----------------------------------------------------------------------------
(* No account is endangered by the caller's own actions.                   *)

\* What a trade in progress remembers is what it began with, at a price that has not
\* moved since; the accounts it does not name are untouched.
TransactionInv ==
    tx.active =>
        /\ tx.price = oraclePrice
        /\ \A a \in tx.accounts :
             tx.initialBalances[a] = Settled(tx.undo.balances[a],
                                             tx.undo.localIndexes[a], globalIndex)
        /\ \A a \in Account \ tx.accounts :
             balances[a] = tx.undo.balances[a] /\ localIndexes[a] = tx.undo.localIndexes[a]

LEMMA TransactionStep ==
    ASSUME TypeOK, TransactionInv, [LedgerNext]_vars
    PROVE  TransactionInv'
<1>1. CASE \E accounts \in SUBSET Account : BeginTrade(accounts)
  <2>1. PICK accounts \in SUBSET Account : BeginTrade(accounts)
    BY <1>1
  <2>2. PICK index \in LoadedIndexes :
          /\ balances' = SettledBalances(accounts, index)
          /\ StoreIndexes(accounts, index)
          /\ tx'.active /\ tx'.accounts = accounts /\ tx'.price = oraclePrice
          /\ tx'.initialBalances = SettledBalances(accounts, index)
          /\ tx'.undo.balances = balances /\ tx'.undo.localIndexes = localIndexes
    BY <2>1 DEF BeginTrade
  <2>3. globalIndex' = index /\ oraclePrice' = oraclePrice
    BY <2>1, <2>2 DEF BeginTrade, StoreIndexes, chain
  <2>4. \A a \in accounts : SettledBalances(accounts, index)[a]
          = Settled(balances[a], localIndexes[a], index)
    BY DEF SettledBalances, SettledAccount
  <2>5. \A a \in Account \ accounts :
          SettledBalances(accounts, index)[a] = balances[a]
          /\ localIndexes'[a] = localIndexes[a]
    BY <2>2 DEF SettledBalances, StoreIndexes
  <2>6. QED
    BY <2>2, <2>3, <2>4, <2>5 DEF TransactionInv
<1>2. CASE \E trader \in Operator, maker \in Account, taker \in Account,
              result \in AnyResult : TradeStep(trader, maker, taker, result)
  <2>1. PICK trader \in Operator, maker \in Account, taker \in Account,
             result \in AnyResult : TradeStep(trader, maker, taker, result)
    BY <1>2
  <2>2. /\ tx.active /\ maker \in tx.accounts /\ taker \in tx.accounts
        /\ UNCHANGED <<localIndexes, globalIndex, oraclePrice>>
    BY <2>1 DEF TradeStep, chain
  <2>3. tx \in Transaction
    BY <2>2 DEF TypeOK, NoTx
  <2>4. /\ tx'.active /\ tx'.accounts = tx.accounts /\ tx'.price = tx.price
        /\ tx'.initialBalances = tx.initialBalances /\ tx'.undo = tx.undo
    BY <2>1, <2>3 DEF TradeStep, Transaction
  <2>5. \A a \in Account \ tx.accounts : balances'[a] = balances[a]
    BY <2>1, <2>2 DEF TradeStep, StoreTraded, TypeOK
  <2>6. QED
    BY <2>2, <2>4, <2>5 DEF TransactionInv
<1>3. CASE UNCHANGED vars
  BY <1>3 DEF vars, storage, chain, TransactionInv
<1>4. CASE EndTrade \/ RevertTrade
  BY <1>4 DEF EndTrade, RevertTrade, TransactionInv, NoTx
<1>5. CASE \/ MarginNext \/ AdminNext \/ ChainNext
           \/ \E account \in Account : WithdrawFinalSettlement(account)
           \/ \E account \in Account, operator \in Delegate, approved \in BOOLEAN :
                 SetLocalOperator(account, operator, approved)
  <2>1. ~tx.active /\ tx' = tx
    BY <1>5 DEF MarginNext, Deposit, Withdraw, AdminNext, SetGlobalOperator, SetOracle,
                SetFunder, SetMinCollateral, EnableFinalSettlement, SetLocalOperator,
                ChainNext, Tick, PriceMoves, TokensArrive, WithdrawFinalSettlement
  <2>2. QED
    BY <2>1 DEF TransactionInv
<1>6. QED
  BY <1>1, <1>2, <1>3, <1>4, <1>5 DEF LedgerNext, LedgerTradeNext

LEMMA TransactionInvariant == LedgerSpec => []TransactionInv
<1>1. Init => TransactionInv
  BY DEF Init, TransactionInv, NoTx
<1>2. TypeOK /\ TransactionInv /\ [LedgerNext]_vars => TransactionInv'
  BY TransactionStep
<1>3. QED
  BY <1>1, <1>2, TypeInvariant, PTL DEF LedgerSpec

-----------------------------------------------------------------------------
\* The worth of assets and debts, as natural numbers.
LEMMA ValuesAreNat ==
    ASSUME NEW b \in [margin: Int, position: Int], NEW price \in Nat
    PROVE  PositiveValue(b, price) \in Nat /\ NegativeValue(b, price) \in Nat
<1>1. PICK m \in Int, x \in Int : m = b.margin /\ x = b.position
  OBVIOUS
<1>2. /\ m > 0 => m * BASE \in Nat
      /\ m < 0 => (-m) * BASE \in Nat /\ -m * BASE = (-m) * BASE
      /\ x > 0 => x * price \in Nat
      /\ x < 0 => (-x) * price \in Nat /\ -x * price = (-x) * price
  <2>1. \A s, t \in Nat : s * t \in Nat
    OBVIOUS
  <2>2. \A s \in Int, t \in Nat : -s * t = (-s) * t
    OBVIOUS
  <2>3. (m > 0 => m \in Nat) /\ (m < 0 => -m \in Nat) /\ (x > 0 => x \in Nat)
        /\ (x < 0 => -x \in Nat)
    OBVIOUS
  <2>4. QED
    BY <2>1, <2>2, <2>3
<1>3. QED
  BY <1>1, <1>2 DEF PositiveValue, NegativeValue

\* Covered no worse: the same comparison of ratios, over a common denominator.
NoWorse(before, after, price) ==
    PositiveValue(after, price) * NegativeValue(before, price)
      >= PositiveValue(before, price) * NegativeValue(after, price)

\* What NoAccountEndangered says of one account.
NotEndangered(before, after) ==
    \/ IsCollateralized(after, oraclePrice, minCollateral)
    \/ /\ ~IsCollateralized(before, oraclePrice, minCollateral)
       /\ Abs(after.position) <= Abs(before.position)
       /\ after.position * before.position >= 0
       /\ NoWorse(before, after, oraclePrice)

LEMMA SquareIsNat == ASSUME NEW x \in Int PROVE x * x >= 0
<1>1. CASE x >= 0
  BY <1>1
<1>2. CASE x < 0
  <2>1. (-x) * (-x) >= 0 /\ (-x) * (-x) = x * x
    BY <1>2
  <2>2. QED
    BY <2>1
<1>3. QED
  BY <1>1, <1>2

LEMMA SameIsNotEndangered ==
    ASSUME NEW b \in [margin: Int, position: Int], oraclePrice \in Nat
    PROVE  NotEndangered(b, b)
<1>1. PositiveValue(b, oraclePrice) * NegativeValue(b, oraclePrice) \in Int
  BY ValuesAreNat
<1>2. b.position * b.position >= 0 /\ Abs(b.position) \in Int
  BY SquareIsNat DEF Abs
<1>3. QED
  BY <1>1, <1>2 DEF NotEndangered, NoWorse

\* More margin never uncovers an account.
LEMMA MarginHelps ==
    ASSUME NEW b \in [margin: Int, position: Int], NEW amount \in Nat,
           NEW c, c = [b EXCEPT !.margin = @ + amount],
           oraclePrice \in Nat, minCollateral \in Nat
    PROVE  NotEndangered(b, c)
<1>1. /\ c \in [margin: Int, position: Int] /\ c.position = b.position
      /\ c.margin = b.margin + amount
  OBVIOUS
<1>2. PICK posB \in Nat, negB \in Nat, posC \in Nat, negC \in Nat :
        /\ posB = PositiveValue(b, oraclePrice) /\ negB = NegativeValue(b, oraclePrice)
        /\ posC = PositiveValue(c, oraclePrice) /\ negC = NegativeValue(c, oraclePrice)
  BY <1>1, ValuesAreNat
<1>3. posC >= posB /\ negC <= negB
  <2>1. PICK m \in Int, n \in Int : m = b.margin /\ n = c.margin /\ m <= n
    BY <1>1
  <2>2. m * BASE <= n * BASE
    <3>1. n * BASE = m * BASE + (n - m) * BASE /\ (n - m) * BASE >= 0
      BY <2>1
    <3>2. m * BASE \in Int /\ (n - m) * BASE \in Int
      OBVIOUS
    <3>3. QED
      BY <3>1, <3>2
  <2>3. /\ m * BASE \in Int /\ n * BASE \in Int
        /\ -m * BASE = -(m * BASE) /\ -n * BASE = -(n * BASE)
        /\ m > 0 => m * BASE > 0
        /\ n > 0 => n * BASE > 0
        /\ m < 0 => m * BASE < 0
        /\ n < 0 => n * BASE < 0
    OBVIOUS
  <2>4. PICK p \in Int, q \in Int :
          /\ p = IF b.position > 0 THEN b.position * oraclePrice ELSE 0
          /\ q = IF b.position < 0 THEN -b.position * oraclePrice ELSE 0
    OBVIOUS
  <2>5. /\ posB = (IF m > 0 THEN m * BASE ELSE 0) + p
        /\ posC = (IF n > 0 THEN n * BASE ELSE 0) + p
        /\ negB = (IF m < 0 THEN -m * BASE ELSE 0) + q
        /\ negC = (IF n < 0 THEN -n * BASE ELSE 0) + q
    BY <1>1, <1>2, <2>1, <2>4 DEF PositiveValue, NegativeValue
  <2>6. QED
    BY <2>1, <2>2, <2>3, <2>5
<1>4. \A s, t, u \in Nat : s <= t => s * u <= t * u
  <2>1. ASSUME NEW s \in Nat, NEW t \in Nat, NEW u \in Nat, s <= t
        PROVE  s * u <= t * u
    <3>1. t * u = s * u + (t - s) * u /\ (t - s) * u >= 0
      BY <2>1
    <3>2. s * u \in Int /\ (t - s) * u \in Int
      OBVIOUS
    <3>3. QED
      BY <3>1, <3>2
  <2>2. QED
    BY <2>1
<1>5. \A s, t \in Nat : s * t \in Nat
  OBVIOUS
<1>6. NoWorse(b, c, oraclePrice)
  <2>1. posC * negB >= posB * negB
    BY <1>3, <1>4
  <2>2. posB * negB >= posB * negC
    <3>1. negC * posB <= negB * posB /\ negC * posB = posB * negC
          /\ negB * posB = posB * negB
      BY <1>3, <1>4
    <3>2. QED
      BY <1>5, <3>1
  <2>3. QED
    BY <1>2, <1>5, <2>1, <2>2 DEF NoWorse
<1>7. IsCollateralized(b, oraclePrice, minCollateral)
        => IsCollateralized(c, oraclePrice, minCollateral)
  <2>1. posB * BASE <= posC * BASE /\ negC * minCollateral <= negB * minCollateral
    BY <1>3, <1>4
  <2>2. QED
    BY <1>2, <1>5, <2>1 DEF IsCollateralized
<1>8. Abs(c.position) <= Abs(b.position) /\ c.position * b.position >= 0
  BY <1>1, SquareIsNat DEF Abs
<1>9. QED
  BY <1>6, <1>7, <1>8 DEF NotEndangered

LEMMA NatProducts ==
    ASSUME NEW x \in Nat, NEW y \in Nat, NEW z \in Nat
    PROVE  /\ x * y \in Nat /\ x * y = y * x /\ (x * y) * z = x * (y * z)
           /\ x <= y => x * z <= y * z
<1>1. x * y \in Nat /\ x * y = y * x /\ (x * y) * z = x * (y * z)
  OBVIOUS
<1>2. ASSUME x <= y
      PROVE  x * z <= y * z
  <2>1. y * z = x * z + (y - x) * z /\ (y - x) * z >= 0
    BY <1>2
  <2>2. x * z \in Int /\ (y - x) * z \in Int
    OBVIOUS
  <2>3. QED
    BY <2>1, <2>2
<1>3. QED
  BY <1>1, <1>2

\* The part of a value that is margin is a whole number of tokens.
LEMMA MarginIsWhole ==
    ASSUME NEW b \in [margin: Int, position: Int], NEW price \in Nat
    PROVE  /\ b.position >= 0 =>
                NegativeValue(b, price) = BASE * (NegativeValue(b, price) \div BASE)
           /\ b.position <= 0 =>
                PositiveValue(b, price) = BASE * (PositiveValue(b, price) \div BASE)
<1>1. PICK m \in Int : m = b.margin
  OBVIOUS
<1>2. \A k \in Int : BASE * ((k * BASE) \div BASE) = k * BASE
  <2>1. \A k \in Int : (k * BASE) \div BASE = k
    OBVIOUS
  <2>2. \A k \in Int : BASE * k = k * BASE
    OBVIOUS
  <2>3. QED
    BY <2>1, <2>2
<1>3. 0 = 0 * BASE /\ -m * BASE = (-m) * BASE
  OBVIOUS
<1>4. ASSUME b.position >= 0
      PROVE  \E k \in Int : NegativeValue(b, price) = k * BASE
  <2>1. NegativeValue(b, price) = IF m < 0 THEN (-m) * BASE ELSE 0 * BASE
    <3>1. (-m) * BASE \in Int
      OBVIOUS
    <3>2. QED
      BY <1>1, <1>3, <1>4, <3>1 DEF NegativeValue
  <2>2. QED
    BY <2>1
<1>5. ASSUME b.position <= 0
      PROVE  \E k \in Int : PositiveValue(b, price) = k * BASE
  <2>1. PositiveValue(b, price) = IF m > 0 THEN m * BASE ELSE 0 * BASE
    <3>1. m * BASE \in Int
      OBVIOUS
    <3>2. QED
      BY <1>1, <1>3, <1>5, <3>1 DEF PositiveValue
  <2>2. QED
    BY <2>1
<1>6. QED
  BY <1>2, <1>4, <1>5

\* The final check of a trade is as good as it says: an account that passes it
\* undercollateralized was so before, and is covered no worse.
LEMMA ImprovedIsNotEndangered ==
    ASSUME NEW b \in [margin: Int, position: Int], NEW c \in [margin: Int, position: Int],
           oraclePrice \in Nat, minCollateral \in Nat, Improved(b, c, oraclePrice)
    PROVE  NotEndangered(b, c)
<1>1. PICK posB \in Nat, negB \in Nat, posC \in Nat, negC \in Nat :
        /\ posB = PositiveValue(b, oraclePrice) /\ negB = NegativeValue(b, oraclePrice)
        /\ posC = PositiveValue(c, oraclePrice) /\ negC = NegativeValue(c, oraclePrice)
  BY ValuesAreNat
<1>2. /\ Abs(c.position) <= Abs(b.position)
      /\ (c.position > 0) = (b.position > 0)
      /\ negB # 0
      /\ IF c.position > 0
         THEN (negC \div BASE) * posB <= (negB \div BASE) * posC
         ELSE (posB \div BASE) * negC <= (posC \div BASE) * negB
  BY <1>1 DEF Improved
<1>3. c.position * b.position >= 0
  <2>1. PICK x \in Int, y \in Int : x = c.position /\ y = b.position
    OBVIOUS
  <2>2. CASE x > 0
    <3>1. y > 0
      BY <1>2, <2>1, <2>2
    <3>2. x * y >= 0
      BY <2>2, <3>1
    <3>3. QED
      BY <2>1, <3>2
  <2>3. CASE x <= 0
    <3>1. y <= 0
      BY <1>2, <2>1, <2>3
    <3>2. (-x) * (-y) >= 0 /\ (-x) * (-y) = x * y
      BY <2>3, <3>1
    <3>3. QED
      BY <2>1, <3>2
  <2>4. QED
    BY <2>2, <2>3
<1>4. posC * negB >= posB * negC
  <2>1. ASSUME NEW s \in Nat, NEW t \in Nat, NEW u \in Nat, NEW v \in Nat,
               (s \div BASE) * t <= (u \div BASE) * v,
               s = BASE * (s \div BASE), u = BASE * (u \div BASE)
        PROVE  s * t <= u * v
    <3>1. PICK e \in Nat : e = BASE
      OBVIOUS
    <3>2. PICK p \in Nat, q \in Nat : p = s \div BASE /\ q = u \div BASE
      OBVIOUS
    <3>3. (e * p) * t = e * (p * t) /\ (e * q) * v = e * (q * v)
      OBVIOUS
    <3>4. p * t \in Nat /\ q * v \in Nat /\ p * t <= q * v
      BY <2>1, <3>2
    <3>5. (p * t) * e <= (q * v) * e /\ (p * t) * e = e * (p * t)
          /\ (q * v) * e = e * (q * v)
      BY <3>4, NatProducts
    <3>6. s = e * p /\ u = e * q
      BY <2>1, <3>1, <3>2
    <3>7. QED
      BY <3>3, <3>5, <3>6
  <2>2. CASE c.position > 0
    <3>1. b.position > 0
      BY <1>2, <2>2
    <3>2. negC = BASE * (negC \div BASE) /\ negB = BASE * (negB \div BASE)
      BY <1>1, <2>2, <3>1, MarginIsWhole
    <3>3. negC * posB <= negB * posC
      BY <1>2, <2>1, <2>2, <3>2
    <3>4. QED
      BY <3>3, NatProducts
  <2>3. CASE ~(c.position > 0)
    <3>1. b.position <= 0 /\ c.position <= 0
      BY <1>2, <2>3
    <3>2. posC = BASE * (posC \div BASE) /\ posB = BASE * (posB \div BASE)
      BY <1>1, <3>1, MarginIsWhole
    <3>3. QED
      BY <1>2, <2>1, <2>3, <3>2
  <2>4. QED
    BY <2>2, <2>3
<1>5. ASSUME IsCollateralized(b, oraclePrice, minCollateral)
      PROVE  IsCollateralized(c, oraclePrice, minCollateral)
  <2>1. PICK e \in Nat, r \in Nat : e = BASE /\ r = minCollateral
    OBVIOUS
  <2>2. posB * e >= negB * r
    BY <1>1, <1>5, <2>1 DEF IsCollateralized
  <2>3. negB * (negC * r) <= negB * (posC * e)
    <3>1. (negB * r) * negC <= (posB * e) * negC
      BY <2>2, NatProducts
    <3>2. (posB * negC) * e <= (posC * negB) * e
      BY <1>4, NatProducts
    <3>3. /\ (negB * r) * negC = negB * (negC * r)
          /\ (posB * e) * negC = (posB * negC) * e
          /\ (posC * negB) * e = negB * (posC * e)
      <4>1. \A s, t, u \in Nat : (s * t) * u = s * (u * t) /\ (s * t) * u = (s * u) * t
                                 /\ (s * t) * u = t * (s * u)
        OBVIOUS
      <4>2. QED
        BY <4>1
    <3>4. /\ negB * (negC * r) \in Int /\ (posB * negC) * e \in Int
          /\ negB * (posC * e) \in Int
      OBVIOUS
    <3>5. QED
      BY <3>1, <3>2, <3>3, <3>4
  <2>4. negC * r <= posC * e
    <3>1. negB \in Nat \ {0} /\ negC * r \in Int /\ posC * e \in Int
      BY <1>2
    <3>2. QED
      BY <2>3, <3>1, Cancellation
  <2>5. QED
    BY <1>1, <2>1, <2>4 DEF IsCollateralized
<1>6. QED
  BY <1>1, <1>2, <1>3, <1>4, <1>5 DEF NotEndangered, NoWorse

-----------------------------------------------------------------------------
\* Settling what is settled changes nothing.
LEMMA SettledOnce ==
    ASSUME NEW b, NEW l, NEW g, l.timestamp = g.timestamp
    PROVE  Settled(b, l, g) = b
BY DEF Settled

\* A settled account is a balance of integers, whether or not it fits.
LEMMA SettledRecord ==
    ASSUME TypeOK, NEW a \in Account, NEW g \in Index
    PROVE  SettledAccount(a, g) \in [margin: Int, position: Int]
BY SettledType DEF SettledAccount, TypeOK

LEMMA StoredIsSettled ==
    ASSUME NEW accounts, NEW index, StoreIndexes(accounts, index), NEW a \in Account
    PROVE  /\ a \in accounts => localIndexes'[a].timestamp = index.timestamp
           /\ a \notin accounts => localIndexes'[a] = localIndexes[a]
BY DEF StoreIndexes

LEMMA DepositNotEndangered ==
    ASSUME TypeOK, NEW account \in Account, NEW amount \in Amount,
           Deposit(account, amount), NEW a \in Account
    PROVE  NotEndangered(Before(a), Settled(balances'[a], localIndexes'[a], globalIndex'))
<1>1. PICK index \in LoadedIndexes :
        /\ balances' = [balances EXCEPT ![account] =
                          [SettledAccount(account, index) EXCEPT !.margin = @ + amount]]
        /\ StoreIndexes({account}, index)
  BY DEF Deposit
<1>2. index \in Index /\ globalIndex' = index
  BY <1>1, LoadedType DEF StoreIndexes
<1>3. Before(a) = SettledAccount(a, index) /\ Before(a) \in [margin: Int, position: Int]
  BY <1>2, SettledRecord DEF Before, Deposit
<1>4. oraclePrice \in Nat /\ minCollateral \in Nat /\ amount \in Nat
  BY DEF TypeOK, Price, Oracle
<1>5. CASE a = account
  <2>1. localIndexes'[a].timestamp = index.timestamp
    BY <1>1, <1>5, StoredIsSettled
  <2>2. balances'[a] = [Before(a) EXCEPT !.margin = @ + amount]
    BY <1>1, <1>3, <1>5 DEF TypeOK
  <2>3. Settled(balances'[a], localIndexes'[a], globalIndex') = balances'[a]
    BY <1>2, <2>1, SettledOnce
  <2>4. QED
    BY <1>3, <1>4, <2>2, <2>3, MarginHelps
<1>6. CASE a # account
  <2>1. localIndexes'[a] = localIndexes[a] /\ balances'[a] = balances[a]
    BY <1>1, <1>6, StoredIsSettled DEF TypeOK
  <2>2. QED
    BY <1>2, <1>3, <1>4, <2>1, SameIsNotEndangered DEF SettledAccount
<1>7. QED
  BY <1>5, <1>6

LEMMA WithdrawNotEndangered ==
    ASSUME TypeOK, NEW account \in Account, NEW sender, NEW amount \in Amount,
           Withdraw(sender, account, amount), NEW a \in Account
    PROVE  NotEndangered(Before(a), Settled(balances'[a], localIndexes'[a], globalIndex'))
<1>1. PICK index \in LoadedIndexes :
        LET balance == [SettledAccount(account, index) EXCEPT !.margin = @ - amount]
        IN  /\ IsCollateralized(balance, oraclePrice, minCollateral)
            /\ balances' = [balances EXCEPT ![account] = balance]
            /\ StoreIndexes({account}, index)
  BY DEF Withdraw
<1>2. index \in Index /\ globalIndex' = index
  BY <1>1, LoadedType DEF StoreIndexes
<1>3. Before(a) = SettledAccount(a, index) /\ Before(a) \in [margin: Int, position: Int]
  BY <1>2, SettledRecord DEF Before, Withdraw
<1>4. oraclePrice \in Nat
  BY DEF TypeOK, Price, Oracle
<1>5. CASE a = account
  <2>1. localIndexes'[a].timestamp = index.timestamp
    BY <1>1, <1>5, StoredIsSettled
  <2>2. IsCollateralized(balances'[a], oraclePrice, minCollateral)
    BY <1>1, <1>5 DEF TypeOK
  <2>3. Settled(balances'[a], localIndexes'[a], globalIndex') = balances'[a]
    BY <1>2, <2>1, SettledOnce
  <2>4. QED
    BY <2>2, <2>3 DEF NotEndangered
<1>6. CASE a # account
  <2>1. localIndexes'[a] = localIndexes[a] /\ balances'[a] = balances[a]
    BY <1>1, <1>6, StoredIsSettled DEF TypeOK
  <2>2. QED
    BY <1>2, <1>3, <1>4, <2>1, SameIsNotEndangered DEF SettledAccount
<1>7. QED
  BY <1>5, <1>6

LEMMA EndTradeNotEndangered ==
    ASSUME TypeOK, SolvencyInv, TransactionInv, EndTrade, NEW a \in Account
    PROVE  NotEndangered(Before(a), Settled(balances'[a], localIndexes'[a], globalIndex'))
<1>1. /\ tx.active /\ tx \in Transaction
      /\ balances' = balances /\ localIndexes' = localIndexes /\ globalIndex' = globalIndex
  BY DEF EndTrade, TypeOK, NoTx, storage
<1>2. /\ balances[a] \in Balance /\ localIndexes[a] \in Index /\ globalIndex \in Index
      /\ tx.undo.balances[a] \in Balance /\ tx.undo.localIndexes[a] \in Index
      /\ oraclePrice \in Nat /\ minCollateral \in Nat
  BY <1>1 DEF TypeOK, Transaction, Store, Price, Oracle
<1>3. Before(a) = Settled(tx.undo.balances[a], tx.undo.localIndexes[a], globalIndex)
  BY <1>1 DEF Before
<1>4. Before(a) \in [margin: Int, position: Int]
  BY <1>2, <1>3, SettledType
<1>5. CASE a \in tx.accounts
  <2>1. Before(a) = tx.initialBalances[a] /\ tx.price = oraclePrice
    BY <1>1, <1>3, <1>5 DEF TransactionInv
  <2>2. tx.currentBalances[a] = balances[a] /\ localIndexes[a] = globalIndex
    BY <1>1, <1>5 DEF SolvencyInv
  <2>3. Settled(balances'[a], localIndexes'[a], globalIndex') = tx.currentBalances[a]
    BY <1>1, <2>2, SettledOnce
  <2>4. tx.currentBalances[a] \in [margin: Int, position: Int]
    BY <1>2, <2>2 DEF Balance, Uint120
  <2>5. FinalBalanceAllowed(a)
    BY <1>5 DEF EndTrade
  <2>6. QED
    BY <1>2, <1>4, <2>1, <2>3, <2>4, <2>5, ImprovedIsNotEndangered
       DEF FinalBalanceAllowed, NotEndangered
<1>6. CASE a \notin tx.accounts
  <2>1. balances[a] = tx.undo.balances[a] /\ localIndexes[a] = tx.undo.localIndexes[a]
    BY <1>1, <1>6 DEF TransactionInv
  <2>2. QED
    BY <1>1, <1>2, <1>3, <1>4, <2>1, SameIsNotEndangered
<1>7. QED
  BY <1>5, <1>6

\* A revert puts back what was there before.
LEMMA RevertNotEndangered ==
    ASSUME TypeOK, RevertTrade, NEW a \in Account
    PROVE  NotEndangered(Before(a), Settled(balances'[a], localIndexes'[a], globalIndex'))
<1>1. /\ tx.active /\ tx \in Transaction
      /\ balances' = tx.undo.balances /\ localIndexes' = tx.undo.localIndexes
      /\ globalIndex' = tx.undo.globalIndex
  BY DEF RevertTrade, TypeOK, NoTx
<1>2. /\ globalIndex' \in Index /\ oraclePrice \in Nat
      /\ tx.undo.balances[a] \in Balance /\ tx.undo.localIndexes[a] \in Index
  BY <1>1 DEF TypeOK, Transaction, Store, Price, Oracle
<1>3. Before(a) = Settled(balances'[a], localIndexes'[a], globalIndex')
  BY <1>1 DEF Before
<1>4. Before(a) \in [margin: Int, position: Int]
  BY <1>1, <1>2, <1>3, SettledType
<1>5. QED
  BY <1>2, <1>3, <1>4, SameIsNotEndangered

\* Steps that leave balances and indexes alone between transactions.
LEMMA OthersNotEndangered ==
    ASSUME TypeOK, ~tx.active, UNCHANGED storage, NEW a \in Account
    PROVE  NotEndangered(Before(a), Settled(balances'[a], localIndexes'[a], globalIndex'))
<1>1. Before(a) = Settled(balances'[a], localIndexes'[a], globalIndex')
  BY DEF storage, Before, SettledAccount
<1>2. Before(a) \in [margin: Int, position: Int] /\ oraclePrice \in Nat
  BY SettledRecord DEF storage, Before, TypeOK, Price, Oracle
<1>3. QED
  BY <1>1, <1>2, SameIsNotEndangered

LEMMA LedgerEndangersNobody == LedgerSpec => NoAccountEndangered
<1> DEFINE Safe == \A a \in Account :
             LET before == Before(a)
                 after == Settled(balances'[a], localIndexes'[a], globalIndex')
                 beforePos == PositiveValue(before, oraclePrice)
                 beforeNeg == NegativeValue(before, oraclePrice)
                 afterPos == PositiveValue(after, oraclePrice)
                 afterNeg == NegativeValue(after, oraclePrice)
             IN  \/ IsCollateralized(after, oraclePrice, minCollateral)
                 \/ /\ ~IsCollateralized(before, oraclePrice, minCollateral)
                    /\ Abs(after.position) <= Abs(before.position)
                    /\ after.position * before.position >= 0
                    /\ afterPos * beforeNeg >= beforePos * afterNeg
<1>1. (\A a \in Account :
         NotEndangered(Before(a), Settled(balances'[a], localIndexes'[a], globalIndex')))
      => Safe
  BY DEF NotEndangered, NoWorse
<1>2. TypeOK /\ SolvencyInv /\ TransactionInv /\ [LedgerNext]_vars
        => (Trading' /\ UNCHANGED <<oraclePrice, minCollateral>> => Safe) \/ UNCHANGED vars
  <2> SUFFICES ASSUME TypeOK, SolvencyInv, TransactionInv, LedgerNext, Trading'
               PROVE  \A a \in Account : NotEndangered(Before(a),
                        Settled(balances'[a], localIndexes'[a], globalIndex'))
    BY <1>1
  <2>1. CASE MarginNext
    BY <2>1, DepositNotEndangered, WithdrawNotEndangered DEF MarginNext
  <2>2. CASE LedgerTradeNext
    <3>1. CASE EndTrade \/ RevertTrade
      BY <3>1, EndTradeNotEndangered, RevertNotEndangered
    <3>2. CASE \/ \E accounts \in SUBSET Account : BeginTrade(accounts)
               \/ \E trader \in Operator, maker \in Account, taker \in Account,
                     result \in AnyResult : TradeStep(trader, maker, taker, result)
      <4>1. tx'.active
        <5>1. CASE \E accounts \in SUBSET Account : BeginTrade(accounts)
          BY <5>1 DEF BeginTrade
        <5>2. CASE \E trader \in Operator, maker \in Account, taker \in Account,
                      result \in AnyResult : TradeStep(trader, maker, taker, result)
          <6>1. tx \in Transaction /\ tx.active
            BY <5>2 DEF TradeStep, TypeOK, NoTx
          <6>2. QED
            <7>1. PICK trader \in Operator, maker \in Account, taker \in Account,
                       result \in AnyResult : TradeStep(trader, maker, taker, result)
              BY <5>2
            <7>2. PICK flags, traded : \/ tx' = [tx EXCEPT !.traderFlags = flags]
                                       \/ tx' = [tx EXCEPT !.traderFlags = flags,
                                                           !.currentBalances = traded]
              BY <7>1 DEF TradeStep
            <7>3. QED
              BY <6>1, <7>2 DEF Transaction
        <5>3. QED
          BY <3>2, <5>1, <5>2
      <4>2. QED
        BY <4>1
    <3>3. QED
      BY <2>2, <3>1, <3>2 DEF LedgerTradeNext
  <2>3. CASE \E account \in Account : WithdrawFinalSettlement(account)
    BY <2>3 DEF WithdrawFinalSettlement, final
  <2>4. CASE \/ AdminNext \/ ChainNext
             \/ \E account \in Account, operator \in Delegate, approved \in BOOLEAN :
                   SetLocalOperator(account, operator, approved)
    <3>1. ~tx.active /\ UNCHANGED storage
      BY <2>4 DEF AdminNext, ChainNext, SetGlobalOperator, SetOracle, SetFunder,
                  SetMinCollateral, EnableFinalSettlement, SetLocalOperator, Tick,
                  PriceMoves, TokensArrive
    <3>2. QED
      BY <3>1, OthersNotEndangered
  <2>5. QED
    BY <2>1, <2>2, <2>3, <2>4 DEF LedgerNext
<1>3. QED
  BY <1>2, TypeInvariant, SolvencyInvariant, TransactionInvariant, PTL
     DEF LedgerSpec, NoAccountEndangered

\* Whatever callers do at an unchanged price and requirement, an account that is
\* undercollateralized afterwards was so before, with a position at least as large,
\* and is covered no worse: for whole trade transactions of any length too.
THEOREM CallersEndangerNobody == Spec => NoAccountEndangered
BY SpecIsLedgerSpec, LedgerEndangersNobody

-----------------------------------------------------------------------------
(* Fills, of one order at a time.                                          *)

LEMMA ProductMonotone ==
    ASSUME NEW x \in Nat, NEW y \in Nat, NEW z \in Nat, x <= y
    PROVE  x * z <= y * z /\ z * x <= z * y /\ x * z \in Nat /\ z * x = x * z
<1>1. PICK d \in Nat : y = x + d
  <2>1. y - x \in Nat /\ y = x + (y - x)
    OBVIOUS
  <2>2. QED
    BY <2>1
<1>2. (x + d) * z = x * z + d * z /\ d * z \in Nat /\ x * z \in Nat /\ z * x = x * z
  OBVIOUS
<1>3. z * y = y * z
  OBVIOUS
<1>4. QED
  BY <1>1, <1>2, <1>3

LEMMA QuotientMonotone ==
    ASSUME NEW x \in Int, NEW y \in Int, NEW n \in Nat \ {0}, x <= y
    PROVE  x \div n <= y \div n /\ x \div n \in Int /\ y \div n \in Int
OBVIOUS

LEMMA BaseMulMonotone ==
    ASSUME NEW x \in Nat, NEW y \in Nat, NEW z \in Nat, x <= y
    PROVE  /\ BaseMul(x, z) <= BaseMul(y, z) /\ BaseMul(z, x) <= BaseMul(z, y)
           /\ BaseMul(x, z) \in Nat /\ BaseMul(z, x) \in Nat
<1>1. PICK a \in Nat, b \in Nat : a = x * z /\ b = y * z /\ a <= b /\ z * x = a /\ z * y = b
  <2>1. x * z <= y * z /\ x * z \in Nat /\ z * x = x * z
    BY ProductMonotone
  <2>2. y * z \in Nat /\ z * y = y * z
    OBVIOUS
  <2>3. QED
    BY <2>1, <2>2
<1>2. PICK n \in Nat \ {0} : n = BASE
  BY MathAssumption
<1>3. a \div n <= b \div n /\ a \div n \in Nat
  <2>1. a \div n <= b \div n
    BY <1>1, QuotientMonotone
  <2>2. a \div n \in Nat
    OBVIOUS
  <2>3. QED
    BY <2>1, <2>2
<1>4. QED
  BY ONLY <1>1, <1>2, <1>3 DEF BaseMul

LEMMA BaseMulType ==
    ASSUME NEW x \in Nat, NEW y \in Nat
    PROVE  BaseMul(x, y) \in Nat
<1>1. x <= x
  OBVIOUS
<1>2. QED
  BY <1>1, BaseMulMonotone

\* A price net of a fee that is at most the price grows with the price.
LEMMA NetMonotone ==
    ASSUME NEW p \in Nat, NEW q \in Nat, NEW fee \in Nat, p <= q, fee <= BASE
    PROVE  p - BaseMul(fee, p) <= q - BaseMul(fee, q)
<1>1. PICK n \in Nat \ {0} : n = BASE
  BY MathAssumption
<1>2. PICK d \in Nat : q = p + d
  <2>1. q - p \in Nat /\ q = p + (q - p)
    OBVIOUS
  <2>2. QED
    BY <2>1
<1>3. fee * d <= n * d
  BY <1>1, ProductMonotone
<1>4. PICK a \in Nat, b \in Nat : a = fee * p /\ b = fee * d
  OBVIOUS
<1>5. fee * q = a + b
  BY <1>2, <1>4
<1>6. (a + n * d) \div n = a \div n + d
  OBVIOUS
<1>7. (a + b) \div n <= (a + n * d) \div n
  <2>1. PICK e \in Nat : e = n * d
    OBVIOUS
  <2>2. PICK low \in Int, high \in Int : low = a + b /\ high = a + e
    OBVIOUS
  <2>3. low <= high
    BY <1>3, <1>4, <2>1, <2>2
  <2>4. low \div n <= high \div n
    BY ONLY <2>3, low \in Int, high \in Int, n \in Nat \ {0}, QuotientMonotone
  <2>5. QED
    BY <2>1, <2>2, <2>4
<1>8. BaseMul(fee, p) = a \div n /\ BaseMul(fee, q) = (a + b) \div n
  BY ONLY <1>1, <1>4, <1>5 DEF BaseMul
<1>9. a \div n \in Int /\ (a + b) \div n \in Int
  OBVIOUS
<1>10. QED
  BY <1>2, <1>6, <1>7, <1>8, <1>9

\* A larger share of an amount, at a lower price, is no less.
LEMMA ShareMonotone ==
    ASSUME NEW amount \in Nat, NEW f \in Int, NEW g \in Int, f <= g, g >= 0,
           NEW p \in Nat \ {0}, NEW q \in Nat \ {0}, p <= q
    PROVE  (amount * f) \div q <= (amount * g) \div p
<1>1. PICK a \in Int, b \in Nat : a = amount * f /\ b = amount * g /\ a <= b
  <2>1. PICK d \in Nat : g = f + d
    <3>1. g - f \in Nat /\ g = f + (g - f)
      OBVIOUS
    <3>2. QED
      BY <3>1
  <2>2. amount * (f + d) = amount * f + amount * d /\ amount * d \in Nat
        /\ amount * f \in Int /\ amount * g \in Nat
    OBVIOUS
  <2>3. QED
    BY <2>1, <2>2
<1>2. a \div q <= b \div q
  BY <1>1, QuotientMonotone
<1>3. PICK k \in Nat : k = b \div q
  OBVIOUS
<1>4. q * k <= b
  BY <1>3
<1>5. p * k <= q * k
  BY ProductMonotone
<1>6. k <= b \div p
  <2>1. PICK e \in Nat : e = p * k
    OBVIOUS
  <2>2. e \div p = k
    BY <2>1
  <2>3. e <= b
    <3>1. q * k \in Nat
      OBVIOUS
    <3>2. QED
      BY <1>4, <1>5, <2>1, <3>1
  <2>4. QED
    BY <2>2, <2>3, QuotientMonotone
<1>7. a \div q \in Int /\ b \div p \in Int
  OBVIOUS
<1>8. QED
  BY <1>1, <1>2, <1>3, <1>6, <1>7

LEMMA MarginMonotone ==
    ASSUME NEW amount \in Nat, NEW p \in Int, NEW q \in Int, p <= q, q >= 0
    PROVE  BaseMul(amount, p) <= BaseMul(amount, q)
<1>1. PICK n \in Nat \ {0} : n = BASE
  BY MathAssumption
<1>2. PICK a \in Int, b \in Int : a = amount * p /\ b = amount * q /\ a <= b
  <2>1. PICK d \in Nat : q = p + d
    <3>1. q - p \in Nat /\ q = p + (q - p)
      OBVIOUS
    <3>2. QED
      BY <3>1
  <2>2. amount * (p + d) = amount * p + amount * d /\ amount * d \in Nat
        /\ amount * p \in Int /\ amount * q \in Int
    OBVIOUS
  <2>3. QED
    BY <2>1, <2>2
<1>3. a \div n <= b \div n
  BY <1>2, QuotientMonotone
<1>4. QED
  BY ONLY <1>1, <1>2, <1>3 DEF BaseMul

\* P1Orders: margin per unit of position is no worse than at the limits.
LEMMA PriceKept ==
    ASSUME NEW order \in OrderLimits, NEW fill \in FillTerms, order.limitFee <= BASE,
           ValidPrice(order, fill), ValidFee(order, fill),
           NEW limit \in FillTerms, limit = AtLimits(order, fill.amount)
    PROVE  /\ MarginPerPosition(order, fill) \in Int
           /\ MarginPerPosition(order, limit) \in Nat
           /\ IF order.isBuy
              THEN MarginPerPosition(order, fill) <= MarginPerPosition(order, limit)
              ELSE MarginPerPosition(order, fill) >= MarginPerPosition(order, limit)
<1>1. PICK p \in Nat, f \in Nat, P \in Nat, F \in Nat :
        /\ p = fill.price /\ f = fill.fee
        /\ P = limit.price /\ F = limit.fee
        /\ P = order.limitPrice /\ F = order.limitFee /\ F <= BASE
  BY DEF FillTerms, OrderLimits, AtLimits
<1>2. PICK x \in Nat, X \in Nat, y \in Nat :
        x = BaseMul(f, p) /\ X = BaseMul(F, P) /\ y = BaseMul(F, p)
  BY BaseMulType
<1>3. /\ limit.isNegativeFee = order.isNegativeLimitFee
      /\ order.isBuy \in BOOLEAN /\ order.isNegativeLimitFee \in BOOLEAN
      /\ fill.isNegativeFee \in BOOLEAN
  BY DEF FillTerms, OrderLimits, AtLimits
<1>4. /\ MarginPerPosition(order, fill)
           = IF order.isBuy # fill.isNegativeFee THEN p + x ELSE p - x
      /\ MarginPerPosition(order, limit)
           = IF order.isBuy # order.isNegativeLimitFee THEN P + X ELSE P - X
  BY <1>1, <1>2, <1>3 DEF MarginPerPosition, AddsFee
<1>5. P - X >= 0
  <2>1. 0 - BaseMul(F, 0) <= P - BaseMul(F, P)
    BY <1>1, NetMonotone, 0 \in Nat
  <2>2. BaseMul(F, 0) = 0
    <3>1. F * 0 = 0 /\ 0 \div BASE = 0
      BY MathAssumption
    <3>2. QED
      BY ONLY <3>1 DEF BaseMul
  <2>3. QED
    BY <1>2, <2>1, <2>2
<1>6. order.isBuy => p <= P
  BY <1>1, <1>3 DEF ValidPrice
<1>7. ~order.isBuy => p >= P
  BY <1>1, <1>3 DEF ValidPrice
<1>8. order.isNegativeLimitFee => fill.isNegativeFee /\ f >= F
  BY <1>1, <1>3 DEF ValidFee
<1>9. ~order.isNegativeLimitFee => fill.isNegativeFee \/ f <= F
  BY <1>1, <1>3 DEF ValidFee
<1>10. f >= F => x >= y
  BY <1>2, BaseMulMonotone
<1>11. f <= F => x <= y
  BY <1>2, BaseMulMonotone
<1>12. /\ p <= P => y <= X /\ p - y <= P - X
       /\ P <= p => X <= y /\ P - X <= p - y
  <2>1. p <= P => y <= X
    BY <1>2, BaseMulMonotone
  <2>2. p <= P => p - y <= P - X
    BY <1>1, <1>2, NetMonotone
  <2>3. P <= p => X <= y
    BY <1>2, BaseMulMonotone
  <2>4. P <= p => P - X <= p - y
    BY <1>1, <1>2, NetMonotone
  <2>5. QED
    BY <2>1, <2>2, <2>3, <2>4
<1>13. CASE order.isBuy
  <2>1. CASE order.isNegativeLimitFee
    <3>1. /\ MarginPerPosition(order, fill) = p - x
          /\ MarginPerPosition(order, limit) = P - X
      BY <1>3, <1>4, <1>8, <1>13, <2>1
    <3>2. p - x <= P - X /\ P - X >= 0
      <4>1. f >= F
        BY <1>8, <2>1
      <4>2. p <= P
        BY <1>6, <1>13
      <4>3. x >= y /\ p - y <= P - X
        BY <4>1, <4>2, <1>10, <1>12
      <4>4. QED
        BY ONLY <4>3, <1>5, x \in Nat, y \in Nat, X \in Nat, p \in Nat, P \in Nat
    <3>3. p - x \in Int /\ P - X \in Nat
      BY <3>2
    <3>4. QED
      BY ONLY <1>13, <3>1, <3>2, <3>3
  <2>2. CASE ~order.isNegativeLimitFee /\ fill.isNegativeFee
    <3>1. /\ MarginPerPosition(order, fill) = p - x
          /\ MarginPerPosition(order, limit) = P + X
      BY <1>3, <1>4, <1>8, <1>13, <2>2
    <3>2. p - x <= P + X /\ P + X >= 0
      BY <1>5, <1>6, <1>12, <1>13, <2>2
    <3>3. p - x \in Int /\ P + X \in Nat
      BY <3>2
    <3>4. QED
      BY ONLY <1>13, <3>1, <3>2, <3>3
  <2>3. CASE ~order.isNegativeLimitFee /\ ~fill.isNegativeFee
    <3>1. /\ MarginPerPosition(order, fill) = p + x
          /\ MarginPerPosition(order, limit) = P + X
      BY <1>3, <1>4, <1>8, <1>13, <2>3
    <3>2. p + x <= P + X /\ P + X >= 0
      <4>1. f <= F
        BY <1>9, <2>3
      <4>2. p <= P
        BY <1>6, <1>13
      <4>3. x <= y /\ y <= X
        BY <4>1, <4>2, <1>11, <1>12
      <4>4. QED
        BY ONLY <4>2, <4>3, x \in Nat, y \in Nat, X \in Nat, p \in Nat, P \in Nat
    <3>3. p + x \in Int /\ P + X \in Nat
      BY <3>2
    <3>4. QED
      BY ONLY <1>13, <3>1, <3>2, <3>3
  <2>4. QED
    BY <1>3, <2>1, <2>2, <2>3
<1>14. CASE ~order.isBuy
  <2>1. CASE order.isNegativeLimitFee
    <3>1. /\ MarginPerPosition(order, fill) = p + x
          /\ MarginPerPosition(order, limit) = P + X
      BY <1>3, <1>4, <1>8, <1>14, <2>1
    <3>2. p + x >= P + X /\ P + X >= 0
      <4>1. f >= F
        BY <1>8, <2>1
      <4>2. P <= p
        BY <1>7, <1>14
      <4>3. x >= y /\ X <= y
        BY <4>1, <4>2, <1>10, <1>12
      <4>4. QED
        BY ONLY <4>2, <4>3, x \in Nat, y \in Nat, X \in Nat, p \in Nat, P \in Nat
    <3>3. p + x \in Int /\ P + X \in Nat
      BY <3>2
    <3>4. QED
      BY ONLY <1>14, <3>1, <3>2, <3>3
  <2>2. CASE ~order.isNegativeLimitFee /\ fill.isNegativeFee
    <3>1. /\ MarginPerPosition(order, fill) = p + x
          /\ MarginPerPosition(order, limit) = P - X
      BY <1>3, <1>4, <1>8, <1>14, <2>2
    <3>2. p + x >= P - X /\ P - X >= 0
      BY <1>5, <1>7, <1>12, <1>14, <2>2
    <3>3. p + x \in Int /\ P - X \in Nat
      BY <3>2
    <3>4. QED
      BY ONLY <1>14, <3>1, <3>2, <3>3
  <2>3. CASE ~order.isNegativeLimitFee /\ ~fill.isNegativeFee
    <3>1. /\ MarginPerPosition(order, fill) = p - x
          /\ MarginPerPosition(order, limit) = P - X
      BY <1>3, <1>4, <1>8, <1>14, <2>3
    <3>2. p - x >= P - X /\ P - X >= 0
      <4>1. f <= F
        BY <1>9, <2>3
      <4>2. P <= p
        BY <1>7, <1>14
      <4>3. x <= y /\ P - X <= p - y
        BY <4>1, <4>2, <1>11, <1>12
      <4>4. QED
        BY ONLY <4>3, <1>5, x \in Nat, y \in Nat, X \in Nat, p \in Nat, P \in Nat
    <3>3. p - x \in Int /\ P - X \in Nat
      BY <3>2
    <3>4. QED
      BY ONLY <1>14, <3>1, <3>2, <3>3
  <2>4. QED
    BY <1>3, <2>1, <2>2, <2>3
<1>15. QED
  BY <1>13, <1>14

\* P1InverseOrders: the same of the share exchanged.
LEMMA ShareKept ==
    ASSUME NEW order \in OrderLimits, NEW fill \in FillTerms,
           ValidFee(order, fill),
           NEW limit \in FillTerms, limit = AtLimits(order, fill.amount)
    PROVE  /\ FeeFactor(order, fill) \in Int /\ FeeFactor(order, limit) \in Int
           /\ IF order.isBuy
              THEN FeeFactor(order, fill) >= FeeFactor(order, limit)
              ELSE FeeFactor(order, fill) <= FeeFactor(order, limit)
<1>1. PICK f \in Nat, F \in Nat, n \in Nat :
        f = fill.fee /\ F = limit.fee /\ F = order.limitFee /\ n = BASE
  BY MathAssumption DEF FillTerms, OrderLimits, AtLimits
<1>2. /\ limit.isNegativeFee = order.isNegativeLimitFee
      /\ order.isBuy \in BOOLEAN /\ order.isNegativeLimitFee \in BOOLEAN
      /\ fill.isNegativeFee \in BOOLEAN
  BY DEF FillTerms, OrderLimits, AtLimits
<1>3. /\ FeeFactor(order, fill)
           = IF order.isBuy # fill.isNegativeFee THEN n - f ELSE n + f
      /\ FeeFactor(order, limit)
           = IF order.isBuy # order.isNegativeLimitFee THEN n - F ELSE n + F
  BY <1>1, <1>2 DEF FeeFactor, AddsFee
<1>4. order.isNegativeLimitFee => fill.isNegativeFee /\ f >= F
  BY <1>1, <1>2 DEF ValidFee
<1>5. ~order.isNegativeLimitFee => fill.isNegativeFee \/ f <= F
  BY <1>1, <1>2 DEF ValidFee
<1>6. QED
  BY <1>1, <1>2, <1>3, <1>4, <1>5

\* Price and fee are checked one by one, in a way of its own for each side and
\* sign: together they keep the maker from paying more, or getting less, than
\* the limits of the order say, in both contracts.
THEOREM FillsKeepLimits ==
    ASSUME NEW order \in OrderLimits, NEW fill \in FillTerms
    PROVE  NoWorseThanLimits(order, fill)
<1> SUFFICES ASSUME ValidPrice(order, fill), ValidFee(order, fill),
                    Computable(order, fill), order.limitFee <= BASE,
                    order.isInverse => order.limitPrice # 0
             PROVE  LET limit == MarginAmount(order, AtLimits(order, fill.amount))
                    IN  IF TakesPosition(order)
                        THEN MarginAmount(order, fill) <= limit
                        ELSE MarginAmount(order, fill) >= limit
  BY DEF NoWorseThanLimits
<1>1. PICK limit \in FillTerms : limit = AtLimits(order, fill.amount)
  BY DEF FillTerms, OrderLimits, AtLimits
<1>2. PICK amount \in Nat : amount = fill.amount /\ amount = limit.amount
  BY <1>1 DEF FillTerms, AtLimits
<1>3. order.isBuy \in BOOLEAN /\ order.isInverse \in BOOLEAN
  BY DEF OrderLimits
<1>4. CASE ~order.isInverse
  <2>1. PICK p \in Int, q \in Nat :
          /\ p = MarginPerPosition(order, fill)
          /\ q = MarginPerPosition(order, limit)
          /\ IF order.isBuy THEN p <= q ELSE p >= q
    BY <1>1, PriceKept
  <2>2. p >= 0
    BY <1>4, <2>1 DEF Computable
  <2>3. IF order.isBuy THEN BaseMul(amount, p) <= BaseMul(amount, q)
                       ELSE BaseMul(amount, q) <= BaseMul(amount, p)
    BY <2>1, <2>2, MarginMonotone
  <2>4. BaseMul(amount, p) \in Nat /\ BaseMul(amount, q) \in Nat
    <3>1. p \in Nat
      BY <2>1, <2>2
    <3>2. QED
      BY <2>1, <3>1, BaseMulType
  <2>5. /\ MarginAmount(order, fill) = BaseMul(amount, p)
        /\ MarginAmount(order, limit) = BaseMul(amount, q)
    BY <1>2, <1>4, <2>1 DEF MarginAmount
  <2>6. TakesPosition(order) = order.isBuy
    BY <1>3, <1>4 DEF TakesPosition
  <2>7. QED
    BY <1>1, <1>3, <2>3, <2>4, <2>5, <2>6
<1>5. CASE order.isInverse
  <2>1. PICK f \in Int, F \in Int :
          /\ f = FeeFactor(order, fill) /\ F = FeeFactor(order, limit)
          /\ IF order.isBuy THEN f >= F ELSE f <= F
    BY <1>1, ShareKept
  <2>2. PICK p \in Nat \ {0}, P \in Nat \ {0} :
          /\ p = fill.price /\ P = limit.price
          /\ IF order.isBuy THEN p <= P ELSE p >= P
    <3>1. PICK p \in Nat, P \in Nat : p = fill.price /\ P = order.limitPrice
      BY DEF FillTerms, OrderLimits
    <3>2. limit.price = P
      BY <1>1, <3>1 DEF AtLimits
    <3>3. p # 0 /\ P # 0
      BY <1>5, <3>1 DEF Computable
    <3>4. IF order.isBuy THEN p <= P ELSE p >= P
      BY <1>3, <3>1 DEF ValidPrice
    <3>5. QED
      BY <3>1, <3>2, <3>3, <3>4
  <2>3. f >= 0
    BY <1>5, <2>1 DEF Computable
  <2>4. PICK a \in Int, b \in Int :
          a = (amount * f) \div p /\ b = (amount * F) \div P
    OBVIOUS
  <2>5. IF order.isBuy THEN a >= b ELSE a <= b
    <3>1. CASE order.isBuy
      BY <2>1, <2>2, <2>3, <2>4, <3>1, ShareMonotone
    <3>2. CASE ~order.isBuy
      <4>1. F >= 0
        BY <2>1, <2>3, <3>2
      <4>2. QED
        BY <2>1, <2>2, <2>4, <3>2, <4>1, ShareMonotone
    <3>3. QED
      BY <3>1, <3>2
  <2>6. /\ MarginAmount(order, fill) = a
        /\ MarginAmount(order, limit) = b
    BY <1>2, <1>5, <2>1, <2>2, <2>4 DEF MarginAmount
  <2>7. TakesPosition(order) = ~order.isBuy
    BY <1>3, <1>5 DEF TakesPosition
  <2>8. QED
    BY <1>1, <1>3, <2>5, <2>6, <2>7
<1>6. QED
  BY <1>4, <1>5

-----------------------------------------------------------------------------
(* A fill is a trade of the ledger.                                        *)

USE ConstantsAssumption, MathAssumption, OrdersAssumption DEF Account, Idle, Trading

LEMMA FillIsTrade ==
    ASSUME NEW h \in OrderHash, NEW fill \in Fills, Computable(Terms[h], fill)
    PROVE  /\ OrderTrade(Terms[h], fill) \in AnyResult
           /\ MarginAmount(Terms[h], fill) \in Nat
           /\ fill.amount \in Nat
<1> DEFINE order == Terms[h]
<1>1. fill \in FillTerms /\ order \in Order
  OBVIOUS
<1>2. PICK amount \in Nat, price \in Nat, fee \in Nat :
        amount = fill.amount /\ price = fill.price /\ fee = fill.fee
  BY <1>1 DEF FillTerms
<1>3. order.isInverse \in BOOLEAN /\ order.isBuy \in BOOLEAN
  BY <1>1 DEF Order
<1>4. MarginAmount(order, fill) \in Nat
  <2>1. CASE ~order.isInverse
    <3>1. BaseMul(fee, price) \in Nat
      BY BaseMulType
    <3>2. MarginPerPosition(order, fill) \in Nat
      BY <1>2, <2>1, <3>1 DEF MarginPerPosition, Computable
    <3>3. BaseMul(amount, MarginPerPosition(order, fill)) \in Nat
      BY <3>2, BaseMulType
    <3>4. QED
      BY <1>2, <2>1, <3>3 DEF MarginAmount
  <2>2. CASE order.isInverse
    <3>1. PICK factor \in Nat : factor = FeeFactor(order, fill)
      BY <1>2, <2>2 DEF FeeFactor, Computable
    <3>2. price # 0
      BY <1>2, <2>2 DEF Computable
    <3>3. amount * factor \in Nat
      OBVIOUS
    <3>4. (amount * factor) \div price \in Nat
      BY <3>2, <3>3
    <3>5. QED
      BY <1>2, <2>2, <3>1, <3>4 DEF MarginAmount
  <2>3. QED
    BY <1>3, <2>1, <2>2
<1>5. QED
  BY <1>2, <1>4 DEF OrderTrade, AnyResult

LEMMA OrdersStep ==
    ASSUME [OrdersNext]_allVars
    PROVE  [LedgerNext]_vars
<1>1. ASSUME NEW h \in OrderHash, NEW taker \in Account, NEW fill \in Fills,
             FillOrder(h, taker, fill)
      PROVE  LedgerNext
  <2>1. /\ Computable(Terms[h], fill)
        /\ TradeStep(TraderOf(Terms[h]), Terms[h].maker, taker, OrderTrade(Terms[h], fill))
    BY <1>1 DEF FillOrder
  <2>2. OrderTrade(Terms[h], fill) \in AnyResult
    BY <2>1, FillIsTrade
  <2>3. TraderOf(Terms[h]) \in Operator /\ Terms[h].maker \in Account
    BY DEF TraderOf, Order
  <2>4. QED
    BY <2>1, <2>2, <2>3 DEF LedgerNext, LedgerTradeNext
<1>2. CASE \E h \in OrderHash : ApproveOrder(h) \/ CancelOrder(h)
  BY <1>2 DEF ApproveOrder, CancelOrder
<1>3. CASE \E sender \in Address, accounts \in SUBSET Account :
              BeginOrdersTrade(sender, accounts)
  BY <1>3 DEF BeginOrdersTrade, LedgerNext, LedgerTradeNext
<1>4. CASE EndOrdersTrade \/ RevertOrdersTrade
  BY <1>4 DEF EndOrdersTrade, RevertOrdersTrade, LedgerNext, LedgerTradeNext
<1>5. CASE \/ MarginNext
           \/ \E account \in Account : WithdrawFinalSettlement(account)
           \/ AdminNext
           \/ \E account \in Account, operator \in Delegate, approved \in BOOLEAN :
                 SetLocalOperator(account, operator, approved)
           \/ ChainNext
  BY <1>5 DEF LedgerNext
<1>6. CASE UNCHANGED allVars
  BY <1>6 DEF allVars
<1>7. QED
  BY <1>1, <1>2, <1>3, <1>4, <1>5, <1>6 DEF OrdersNext

\* Every behaviour with the orders traders is one of the ledger.
LEMMA OrdersAreLedger == OrdersSpec => LedgerSpec
<1>1. [OrdersNext]_allVars => [LedgerNext]_vars
  BY OrdersStep
<1>2. QED
  BY <1>1, PTL DEF OrdersSpec, OrdersInit, LedgerSpec

\* With the orders traders, whatever orders are signed and however they are
\* filled, the perpetual contract keeps its promises: it stays solvent and zero-sum,
\* and nobody's account is endangered by what others do in a transaction.
THEOREM OrdersKeepTheLedger ==
    OrdersSpec => /\ [](TypeOK /\ Solvent /\ ZeroSum /\ SkipIsSound /\ PayoutsCovered)
                  /\ NoAccountEndangered /\ FinalIsFinal
BY OrdersAreLedger, TypeInvariant, LedgerSolvent, LedgerZeroSum, LedgerSkipIsSound,
   LedgerPayouts, LedgerEndangersNobody, LedgerFinal, PTL

-----------------------------------------------------------------------------
(* What is recorded of the orders.                                         *)

\* The balances that a fill moves, and which way.
LEMMA FillMoves ==
    ASSUME TypeOK, SolvencyInv, NEW h \in OrderHash, NEW taker \in Account,
           NEW fill \in Fills, FillOrder(h, taker, fill)
    PROVE  LET order == Terms[h]
               maker == order.maker
               amount == fill.amount
               margin == MarginAmount(order, fill)
           IN  /\ maker \in Account
               /\ \/ balances' = balances
                  \/ /\ maker # taker
                     /\ \A a \in Account \ {maker, taker} : balances'[a] = balances[a]
                     /\ TakesPosition(order) =>
                          /\ balances'[maker].position = balances[maker].position + amount
                          /\ balances'[taker].position = balances[taker].position - amount
                          /\ balances'[maker].margin = balances[maker].margin - margin
                     /\ ~TakesPosition(order) =>
                          /\ balances'[maker].position = balances[maker].position - amount
                          /\ balances'[taker].position = balances[taker].position + amount
                          /\ balances'[maker].margin = balances[maker].margin + margin
<1> DEFINE order == Terms[h]
           maker == order.maker
           result == OrderTrade(order, fill)
           makerBalance == MakerAfter(tx.currentBalances[maker], result)
           takerBalance == TakerAfter(tx.currentBalances[taker], result)
           traded == [tx.currentBalances EXCEPT ![maker] = makerBalance,
                                                ![taker] = takerBalance]
<1>1. maker \in Account
  BY DEF Order
<1>2. /\ tx.active /\ maker \in tx.accounts /\ taker \in tx.accounts
      /\ \/ balances' = balances
         \/ maker # taker /\ StoreTraded(maker, taker, traded)
  BY DEF FillOrder, TradeStep
<1>3. /\ tx.currentBalances[maker] = balances[maker]
      /\ tx.currentBalances[taker] = balances[taker]
  BY <1>2 DEF SolvencyInv
<1>4. tx.currentBalances \in [Account -> Balance] /\ balances \in [Account -> Balance]
  <2>1. tx \in Transaction
    BY <1>2 DEF TypeOK, NoTx
  <2>2. QED
    BY <2>1 DEF TypeOK, Transaction
<1>5. ASSUME maker # taker, StoreTraded(maker, taker, traded)
      PROVE  /\ \A a \in Account \ {maker, taker} : balances'[a] = balances[a]
             /\ balances'[maker] = MakerAfter(balances[maker], result)
             /\ balances'[taker] = TakerAfter(balances[taker], result)
  <2>1. traded[maker] = makerBalance /\ traded[taker] = takerBalance
    BY <1>1, <1>4, <1>5
  <2> HIDE DEF traded, makerBalance, takerBalance, maker
  <2>2. /\ balances'[maker] = makerBalance /\ balances'[taker] = takerBalance
        /\ \A a \in Account \ {maker, taker} : balances'[a] = balances[a]
    BY <1>1, <1>4, <1>5, <2>1 DEF StoreTraded
  <2>3. QED
    BY <1>3, <2>2 DEF makerBalance, takerBalance
<1>6. /\ TakesPosition(order) => ~result.isBuy
      /\ ~TakesPosition(order) => result.isBuy
      /\ result.positionAmount = fill.amount
      /\ result.marginAmount = MarginAmount(order, fill)
  BY DEF OrderTrade
<1> HIDE DEF result
<1>7. CASE balances' = balances
  BY <1>1, <1>7
<1>8. CASE maker # taker /\ StoreTraded(maker, taker, traded)
  <2>0. /\ balances'[maker] = MakerAfter(balances[maker], result)
        /\ balances'[taker] = TakerAfter(balances[taker], result)
    BY <1>5, <1>8
  <2>1. ~result.isBuy =>
          /\ balances'[maker].position = balances[maker].position + fill.amount
          /\ balances'[taker].position = balances[taker].position - fill.amount
          /\ balances'[maker].margin = balances[maker].margin - MarginAmount(order, fill)
    BY ONLY <1>6, <2>0 DEF MakerAfter, TakerAfter
  <2>2. result.isBuy =>
          /\ balances'[maker].position = balances[maker].position - fill.amount
          /\ balances'[taker].position = balances[taker].position + fill.amount
          /\ balances'[maker].margin = balances[maker].margin + MarginAmount(order, fill)
    BY ONLY <1>6, <2>0 DEF MakerAfter, TakerAfter
  <2>3. QED
    BY <1>1, <1>5, <1>6, <1>8, <2>1, <2>2
<1>9. QED
  BY <1>2, <1>7, <1>8

\* The orders whose fills give an account position; all others take it away.
Towards(a) == {h \in OrderHash : (Terms[h].maker = a) = TakesPosition(Terms[h])}

Backed(bals, filled) ==
    \A a \in Account :
        /\ bals[a].position <= SumFunctionOnSet(filled, Towards(a))
        /\ -bals[a].position <= SumFunctionOnSet(filled, OrderHash \ Towards(a))

\* Positions are backed also in the state a revert goes back to; an order that was
\* canceled before the transaction has not been filled in it.
OrdersInv ==
    /\ status \in [OrderHash -> {"Open", "Approved", "Canceled"}]
    /\ filledAmount \in [OrderHash -> Nat]
    /\ \A h \in OrderHash : filledAmount[h] <= Terms[h].amount
    /\ ~finalSettlement => Backed(balances, filledAmount)
    /\ tx.active =>
        /\ call.filledAmount \in [OrderHash -> Nat]
        /\ \A h \in OrderHash :
             /\ call.filledAmount[h] <= filledAmount[h]
             /\ status[h] = "Canceled" => call.filledAmount[h] = filledAmount[h]
        /\ Backed(tx.undo.balances, call.filledAmount)

\* Adding to what one order has filled adds as much to the sums it is in.
LEMMA FilledGrows ==
    ASSUME NEW filled \in [OrderHash -> Nat], NEW h \in OrderHash, NEW amount \in Nat,
           NEW hashes \in SUBSET OrderHash,
           NEW new \in [OrderHash -> Nat], new[h] = filled[h] + amount,
           \A g \in OrderHash \ {h} : new[g] = filled[g]
    PROVE  /\ SumFunctionOnSet(filled, hashes) \in Int
           /\ SumFunctionOnSet(new, hashes)
                = SumFunctionOnSet(filled, hashes) + (IF h \in hashes THEN amount ELSE 0)
<1>1. IsFiniteSet(hashes)
  BY FS_Subset
<1>3. \A g \in hashes : filled[g] \in Int /\ new[g] \in Int
  OBVIOUS
<1>4. SumFunctionOnSet(filled, hashes) \in Int
  BY <1>1, <1>3, SumType
<1>5. CASE h \in hashes
  <2>1. \A g \in hashes \ {h} : new[g] = filled[g]
    OBVIOUS
  <2>2. SumFunctionOnSet(new, hashes)
          = SumFunctionOnSet(filled, hashes) + (new[h] - filled[h])
    BY ONLY <1>1, <1>3, <1>5, <2>1, SumUpdate
  <2>3. new[h] - filled[h] = amount
    OBVIOUS
  <2>4. QED
    BY <1>4, <1>5, <2>2, <2>3
<1>6. CASE h \notin hashes
  <2>1. \A g \in hashes : filled[g] \in Int /\ new[g] = filled[g]
    BY <1>3, <1>6
  <2>2. SumFunctionOnSet(new, hashes) = SumFunctionOnSet(filled, hashes)
    BY ONLY <1>1, <2>1, SumSame
  <2>3. QED
    BY <1>4, <1>6, <2>2
<1>7. QED
  BY <1>5, <1>6

\* A fill backs the positions it makes.
LEMMA FillBacks ==
    ASSUME NEW bals, NEW new, \A a \in Account : bals[a].position \in Int,
           NEW filled \in [OrderHash -> Nat], NEW h \in OrderHash, NEW amount \in Nat,
           NEW taker \in Account, Backed(bals, filled),
           \/ new = bals
           \/ LET maker == Terms[h].maker
              IN  /\ maker # taker
                  /\ \A a \in Account \ {maker, taker} : new[a] = bals[a]
                  /\ TakesPosition(Terms[h]) =>
                       /\ new[maker].position = bals[maker].position + amount
                       /\ new[taker].position = bals[taker].position - amount
                  /\ ~TakesPosition(Terms[h]) =>
                       /\ new[maker].position = bals[maker].position - amount
                       /\ new[taker].position = bals[taker].position + amount
    PROVE  Backed(new, [filled EXCEPT ![h] = filled[h] + amount])
<1> DEFINE after == [filled EXCEPT ![h] = filled[h] + amount]
           Takes == TakesPosition(Terms[h])
           maker == Terms[h].maker
<1> SUFFICES ASSUME NEW a \in Account
             PROVE  /\ new[a].position <= SumFunctionOnSet(after, Towards(a))
                    /\ -new[a].position <= SumFunctionOnSet(after, OrderHash \ Towards(a))
  BY DEF Backed
<1>1. PICK up \in Int, down \in Int :
        /\ up = SumFunctionOnSet(filled, Towards(a))
        /\ down = SumFunctionOnSet(filled, OrderHash \ Towards(a))
        /\ SumFunctionOnSet(after, Towards(a)) = up + (IF h \in Towards(a) THEN amount ELSE 0)
        /\ SumFunctionOnSet(after, OrderHash \ Towards(a))
             = down + (IF h \in OrderHash \ Towards(a) THEN amount ELSE 0)
  <2>1. /\ Towards(a) \in SUBSET OrderHash /\ OrderHash \ Towards(a) \in SUBSET OrderHash
        /\ after \in [OrderHash -> Nat] /\ after[h] = filled[h] + amount
        /\ \A g \in OrderHash \ {h} : after[g] = filled[g]
    BY DEF Towards
  <2> HIDE DEF after
  <2>2. ASSUME NEW hashes \in SUBSET OrderHash
        PROVE  /\ SumFunctionOnSet(filled, hashes) \in Int
               /\ SumFunctionOnSet(after, hashes)
                    = SumFunctionOnSet(filled, hashes) + (IF h \in hashes THEN amount ELSE 0)
    <3>1. hashes \in SUBSET OrderHash
      OBVIOUS
    <3>2. QED
      BY ONLY <2>1, <3>1, filled \in [OrderHash -> Nat], h \in OrderHash, amount \in Nat,
              FilledGrows
  <2>3. QED
    BY <2>1, <2>2
<1>2. PICK p \in Int : p = bals[a].position /\ p <= up /\ -p <= down
  BY <1>1 DEF Backed
<1>3. h \in Towards(a) <=> (maker = a) = Takes
  BY DEF Towards
<1>4. Takes \in BOOLEAN
  BY DEF TakesPosition
<1> HIDE DEF after, Takes
<1>5. CASE new[a] = bals[a]
  BY <1>1, <1>2, <1>5
<1>6. CASE maker # taker /\ a = maker
  <2>1. new[a] = bals[a] \/ new[a].position = IF Takes THEN p + amount ELSE p - amount
    BY <1>2, <1>4, <1>6 DEF Takes
  <2>2. h \in Towards(a) <=> Takes
    BY <1>3, <1>4, <1>6
  <2>3. QED
    BY <1>1, <1>2, <1>4, <1>5, <2>1, <2>2
<1>7. CASE maker # taker /\ a = taker
  <2>1. new[a] = bals[a] \/ new[a].position = IF Takes THEN p - amount ELSE p + amount
    BY <1>2, <1>4, <1>7 DEF Takes
  <2>2. h \in Towards(a) <=> ~Takes
    BY <1>3, <1>4, <1>7
  <2>3. QED
    BY <1>1, <1>2, <1>4, <1>5, <2>1, <2>2
<1>8. QED
  BY <1>5, <1>6, <1>7

LEMMA SameBacking ==
    ASSUME NEW bals, NEW new, NEW filled, Backed(bals, filled),
           \A a \in Account : new[a].position = bals[a].position
    PROVE  Backed(new, filled)
BY DEF Backed

\* Only trades and payouts move positions.
LEMMA PositionsStay ==
    ASSUME TypeOK,
           \/ MarginNext
           \/ \E accounts \in SUBSET Account : BeginTrade(accounts)
    PROVE  \A a \in Account : balances'[a].position = balances[a].position
<1>1. \A a \in Account, index \in Index :
        /\ SettledAccount(a, index) \in [margin: Int, position: Int]
        /\ SettledAccount(a, index).position = balances[a].position
  BY SettledType DEF SettledAccount, TypeOK
<1>2. \A index \in LoadedIndexes : index \in Index
  BY LoadedType
<1>3. ASSUME NEW account \in Account, NEW amount \in Amount, Deposit(account, amount)
      PROVE  \A a \in Account : balances'[a].position = balances[a].position
  <2>1. PICK index \in Index :
          balances' = [balances EXCEPT ![account] =
                         [SettledAccount(account, index) EXCEPT !.margin = @ + amount]]
    BY <1>2, <1>3 DEF Deposit
  <2>2. QED
    BY <1>1, <2>1 DEF TypeOK
<1>4. ASSUME NEW sender, NEW account \in Account, NEW amount \in Amount,
             Withdraw(sender, account, amount)
      PROVE  \A a \in Account : balances'[a].position = balances[a].position
  <2>1. PICK index \in Index :
          balances' = [balances EXCEPT ![account] =
                         [SettledAccount(account, index) EXCEPT !.margin = @ - amount]]
    BY <1>2, <1>4 DEF Withdraw
  <2>2. QED
    BY <1>1, <2>1 DEF TypeOK
<1>5. ASSUME NEW accounts, BeginTrade(accounts)
      PROVE  \A a \in Account : balances'[a].position = balances[a].position
  <2>1. PICK index \in Index : balances' = SettledBalances(accounts, index)
    BY <1>2, <1>5 DEF BeginTrade
  <2>2. QED
    BY <1>1, <2>1 DEF SettledBalances
<1>6. QED
  BY <1>3, <1>4, <1>5 DEF MarginNext

LEMMA FillOrdersInv ==
    ASSUME TypeOK, SolvencyInv, OrdersInv, NEW h \in OrderHash, NEW taker \in Account,
           NEW fill \in Fills, FillOrder(h, taker, fill)
    PROVE  OrdersInv'
<1>1. /\ tx.active /\ Authorized(h) /\ NotOverfilled(h, fill)
      /\ Computable(Terms[h], fill)
      /\ filledAmount' = [filledAmount EXCEPT ![h] = filledAmount[h] + fill.amount]
      /\ status' = status /\ call' = call
  BY DEF FillOrder, NewFilledAmount
<1>2. /\ tx'.undo = tx.undo /\ ~finalSettlement
  <2>1. tx \in Transaction
    BY <1>1 DEF TypeOK, NoTx
  <2>2. tx'.undo = tx.undo
    BY <2>1 DEF FillOrder, TradeStep, Transaction
  <2>3. QED
    BY <1>1, <2>2 DEF SolvencyInv
<1>3. PICK amount \in Nat : amount = fill.amount
  BY <1>1, FillIsTrade
<1>4. status[h] # "Canceled"
  BY <1>1 DEF Authorized
<1>5. /\ filledAmount' \in [OrderHash -> Nat]
      /\ filledAmount'[h] = filledAmount[h] + amount
      /\ \A g \in OrderHash \ {h} : filledAmount'[g] = filledAmount[g]
  BY <1>1, <1>3 DEF OrdersInv
<1>6. Backed(balances', filledAmount')
  <2>1. \A a \in Account : balances[a].position \in Int
    BY DEF TypeOK, Balance, Uint120
  <2>2. Backed(balances, filledAmount) /\ filledAmount \in [OrderHash -> Nat]
    BY <1>2 DEF OrdersInv
  <2>3. \/ balances' = balances
        \/ LET maker == Terms[h].maker
           IN  /\ maker # taker
               /\ \A a \in Account \ {maker, taker} : balances'[a] = balances[a]
               /\ TakesPosition(Terms[h]) =>
                    /\ balances'[maker].position = balances[maker].position + amount
                    /\ balances'[taker].position = balances[taker].position - amount
               /\ ~TakesPosition(Terms[h]) =>
                    /\ balances'[maker].position = balances[maker].position - amount
                    /\ balances'[taker].position = balances[taker].position + amount
    BY <1>3, FillMoves
  <2>4. Backed(balances', [filledAmount EXCEPT ![h] = filledAmount[h] + amount])
    BY <2>1, <2>2, <2>3, FillBacks
  <2>5. QED
    BY <1>1, <1>3, <2>4
<1>7. filledAmount'[h] <= Terms[h].amount
  BY <1>1, <1>3, <1>5 DEF NotOverfilled
<1>8. QED
  BY <1>1, <1>2, <1>4, <1>5, <1>6, <1>7 DEF OrdersInv

LEMMA OrdersInvStep ==
    ASSUME TypeOK, SolvencyInv, OrdersInv, [OrdersNext]_allVars
    PROVE  OrdersInv'
<1>1. CASE \E h \in OrderHash, taker \in Account, fill \in Fills : FillOrder(h, taker, fill)
  BY <1>1, FillOrdersInv
<1>2. CASE \E h \in OrderHash : ApproveOrder(h) \/ CancelOrder(h)
  <2>1. /\ ~tx.active /\ tx' = tx /\ balances' = balances
        /\ finalSettlement' = finalSettlement /\ filledAmount' = filledAmount
    BY <1>2 DEF ApproveOrder, CancelOrder, vars, storage, final
  <2>2. status' \in [OrderHash -> {"Open", "Approved", "Canceled"}]
    BY <1>2 DEF ApproveOrder, CancelOrder, OrdersInv
  <2>3. QED
    BY <2>1, <2>2 DEF OrdersInv
<1>3. CASE \E sender \in Address, accounts \in SUBSET Account :
              BeginOrdersTrade(sender, accounts)
  <2>1. PICK accounts \in SUBSET Account :
          /\ BeginTrade(accounts)
          /\ call'.filledAmount = filledAmount
          /\ status' = status /\ filledAmount' = filledAmount
    BY <1>3 DEF BeginOrdersTrade
  <2>2. /\ ~finalSettlement /\ tx'.undo.balances = balances
    BY <2>1 DEF BeginTrade
  <2>3. Backed(balances, filledAmount) /\ Backed(balances', filledAmount)
    BY <2>1, <2>2, PositionsStay, SameBacking DEF OrdersInv
  <2>4. QED
    BY <2>1, <2>2, <2>3 DEF OrdersInv
<1>4. CASE EndOrdersTrade
  BY <1>4 DEF EndOrdersTrade, EndTrade, OrdersInv, NoTx, storage, final
<1>5. CASE RevertOrdersTrade
  <2>1. /\ tx.active /\ ~tx'.active
        /\ balances' = tx.undo.balances /\ filledAmount' = call.filledAmount
        /\ status' = status
    BY <1>5 DEF RevertOrdersTrade, RevertTrade, NoTx
  <2>2. /\ call.filledAmount \in [OrderHash -> Nat]
        /\ \A h \in OrderHash : call.filledAmount[h] <= filledAmount[h]
        /\ Backed(tx.undo.balances, call.filledAmount)
    BY <2>1 DEF OrdersInv
  <2>3. \A h \in OrderHash : call.filledAmount[h] <= Terms[h].amount
    BY <2>2 DEF OrdersInv, Order
  <2>4. QED
    BY <2>1, <2>2, <2>3 DEF OrdersInv
<1>6. CASE /\ \/ MarginNext
              \/ \E account \in Account : WithdrawFinalSettlement(account)
              \/ AdminNext
              \/ \E account \in Account, operator \in Delegate, approved \in BOOLEAN :
                    SetLocalOperator(account, operator, approved)
              \/ ChainNext
           /\ UNCHANGED ordersVars
  <2>1. ~tx.active /\ tx' = tx /\ status' = status /\ filledAmount' = filledAmount
    BY <1>6 DEF MarginNext, Deposit, Withdraw, AdminNext, SetGlobalOperator, SetOracle,
                SetFunder, SetMinCollateral, EnableFinalSettlement, SetLocalOperator,
                ChainNext, Tick, PriceMoves, TokensArrive, WithdrawFinalSettlement,
                ordersVars
  <2>2. CASE MarginNext
    <3>1. ~finalSettlement
      BY <2>2 DEF MarginNext, Deposit, Withdraw
    <3>2. Backed(balances', filledAmount)
      BY <2>2, <3>1, PositionsStay, SameBacking DEF OrdersInv
    <3>3. QED
      BY <2>1, <3>2 DEF OrdersInv
  <2>3. CASE ~MarginNext
    <3>1. finalSettlement' \/ (balances' = balances /\ finalSettlement' = finalSettlement)
      <4>1. CASE \E account \in Account : WithdrawFinalSettlement(account)
        BY <4>1 DEF WithdrawFinalSettlement, final
      <4>2. CASE \/ AdminNext
                 \/ \E account \in Account, operator \in Delegate, approved \in BOOLEAN :
                       SetLocalOperator(account, operator, approved)
        BY <4>2 DEF AdminNext, SetGlobalOperator, SetOracle, SetFunder, SetMinCollateral,
                    EnableFinalSettlement, SetLocalOperator, storage, final
      <4>3. CASE ChainNext
        BY <4>3 DEF ChainNext, Tick, PriceMoves, TokensArrive, storage, final
      <4>4. QED
        BY <1>6, <2>3, <4>1, <4>2, <4>3
    <3>2. QED
      BY <2>1, <3>1 DEF OrdersInv
  <2>4. QED
    BY <2>2, <2>3
<1>7. CASE UNCHANGED allVars
  BY <1>7 DEF allVars, vars, storage, final, ordersVars, OrdersInv
<1>8. QED
  BY <1>1, <1>2, <1>3, <1>4, <1>5, <1>6, <1>7 DEF OrdersNext

LEMMA OrdersInitially == OrdersInit => OrdersInv
<1> SUFFICES ASSUME OrdersInit
             PROVE  OrdersInv
  OBVIOUS
<1>1. /\ ~tx.active /\ filledAmount = [h \in OrderHash |-> 0]
      /\ balances = [a \in Account |-> [margin |-> 0, position |-> 0]]
      /\ status = [h \in OrderHash |-> "Open"]
  BY DEF OrdersInit, Init, NoTx
<1>2. \A hashes \in SUBSET OrderHash : 0 <= SumFunctionOnSet(filledAmount, hashes)
  <2>1. ASSUME NEW hashes \in SUBSET OrderHash
        PROVE  0 <= SumFunctionOnSet(filledAmount, hashes)
    <3>1. IsFiniteSet(hashes) /\ \A h \in hashes : filledAmount[h] \in Nat
      BY <1>1, FS_Subset
    <3>2. SumFunctionOnSet(filledAmount, hashes) \in Nat
      BY ONLY <3>1, SumOfNats
    <3>3. QED
      BY <3>2
  <2>2. QED
    BY <2>1
<1>3. Backed(balances, filledAmount)
  <2>1. \A a \in Account : balances[a].position = 0
    BY <1>1
  <2>2. \A a \in Account : Towards(a) \in SUBSET OrderHash
    BY DEF Towards
  <2>3. QED
    BY <1>2, <2>1, <2>2 DEF Backed
<1>4. \A h \in OrderHash : Terms[h].amount \in Nat
  BY DEF Order
<1>5. QED
  BY <1>1, <1>3, <1>4 DEF OrdersInv

LEMMA OrdersInvariant == OrdersSpec => [](TypeOK /\ SolvencyInv /\ OrdersInv)
<1>1. TypeOK /\ SolvencyInv /\ OrdersInv /\ [OrdersNext]_allVars => OrdersInv'
  BY OrdersInvStep
<1>2. QED
  BY <1>1, OrdersInitially, OrdersAreLedger, TypeInvariant, SolvencyInvariant, PTL
     DEF OrdersSpec

\* Whatever orders there are, positions never exceed what orders have filled, each
\* within its amount, over any number of transactions, fills and reverts.
THEOREM PositionsStayBacked == OrdersSpec => []PositionsBacked
<1>1. OrdersInv => PositionsBacked
  <2> SUFFICES ASSUME OrdersInv, ~finalSettlement
               PROVE  PositionsBacked
    BY DEF PositionsBacked
  <2> DEFINE within == [h \in OrderHash |->
                          IF filledAmount[h] > Terms[h].amount THEN Terms[h].amount
                                                               ELSE filledAmount[h]]
  <2>1. \A h \in OrderHash : filledAmount[h] \in Nat /\ within[h] = filledAmount[h]
    BY DEF OrdersInv, Order
  <2> HIDE DEF within
  <2>2. ASSUME NEW hashes \in SUBSET OrderHash
        PROVE  SumFunctionOnSet(within, hashes) = SumFunctionOnSet(filledAmount, hashes)
    <3>1. IsFiniteSet(hashes)
      BY FS_Subset
    <3>2. \A h \in hashes : filledAmount[h] \in Int /\ within[h] = filledAmount[h]
      BY <2>1
    <3>3. QED
      BY ONLY <3>1, <3>2, SumSame
  <2>3. \A a \in Account :
          /\ Towards(a) \in SUBSET OrderHash
          /\ balances[a].position <= SumFunctionOnSet(filledAmount, Towards(a))
          /\ -balances[a].position <= SumFunctionOnSet(filledAmount, OrderHash \ Towards(a))
    BY DEF OrdersInv, Backed, Towards
  <2>4. \A a \in Account :
          /\ balances[a].position <= SumFunctionOnSet(within, Towards(a))
          /\ -balances[a].position <= SumFunctionOnSet(within, OrderHash \ Towards(a))
    BY <2>2, <2>3
  <2>5. QED
    BY <2>4 DEF PositionsBacked, within, Towards
<1>2. QED
  BY <1>1, OrdersInvariant, PTL

\* A step that does not fill an order leaves what it has filled, unless it undoes a
\* transaction.
LEMMA FilledBy ==
    ASSUME OrdersInv, [OrdersNext]_allVars, NEW h \in OrderHash, filledAmount'[h] # filledAmount[h]
    PROVE  \/ \E taker \in Account, fill \in Fills :
                 /\ FillOrder(h, taker, fill)
                 /\ filledAmount'[h] = filledAmount[h] + fill.amount
           \/ tx.active /\ filledAmount' = call.filledAmount
<1>1. CASE \E g \in OrderHash, taker \in Account, fill \in Fills : FillOrder(g, taker, fill)
  <2>1. PICK g \in OrderHash, taker \in Account, fill \in Fills : FillOrder(g, taker, fill)
    BY <1>1
  <2>2. filledAmount' = [filledAmount EXCEPT ![g] = filledAmount[g] + fill.amount]
    BY <2>1 DEF FillOrder, NewFilledAmount
  <2>3. g = h /\ filledAmount'[h] = filledAmount[h] + fill.amount
    BY <2>2 DEF OrdersInv
  <2>4. QED
    BY <2>1, <2>3
<1>2. CASE RevertOrdersTrade
  BY <1>2 DEF RevertOrdersTrade, RevertTrade
<1>3. CASE UNCHANGED filledAmount
  BY <1>3
<1>4. QED
  BY <1>1, <1>2, <1>3
     DEF OrdersNext, allVars, ordersVars, ApproveOrder, CancelOrder, BeginOrdersTrade,
         EndOrdersTrade

\* A canceled order is never filled again: not by a signature or an approval given
\* before, not by a transaction that reverts.
THEOREM CancelStaysPermanent == OrdersSpec => CancelIsPermanent
<1>1. TypeOK /\ SolvencyInv /\ OrdersInv /\ [OrdersNext]_allVars
        => \A h \in OrderHash : status[h] = "Canceled" =>
             status'[h] = "Canceled" /\ filledAmount'[h] = filledAmount[h]
  <2> SUFFICES ASSUME OrdersInv, [OrdersNext]_allVars, NEW h \in OrderHash,
                      status[h] = "Canceled"
               PROVE  status'[h] = "Canceled" /\ filledAmount'[h] = filledAmount[h]
    OBVIOUS
  <2>1. status'[h] = "Canceled"
    <3>1. status \in [OrderHash -> {"Open", "Approved", "Canceled"}]
      BY DEF OrdersInv
    <3>2. CASE \E g \in OrderHash : ApproveOrder(g) \/ CancelOrder(g)
      BY <3>1, <3>2 DEF ApproveOrder, CancelOrder
    <3>3. CASE UNCHANGED status
      BY <3>3
    <3>4. QED
      BY <3>2, <3>3 DEF OrdersNext, allVars, ordersVars, FillOrder, BeginOrdersTrade,
                        EndOrdersTrade, RevertOrdersTrade
  <2>2. filledAmount'[h] = filledAmount[h]
    <3>1. \A taker \in Account, fill \in Fills : ~FillOrder(h, taker, fill)
      BY DEF FillOrder, Authorized
    <3>2. tx.active => call.filledAmount[h] = filledAmount[h]
      BY DEF OrdersInv
    <3>3. QED
      BY <3>1, <3>2, FilledBy
  <2>3. QED
    BY <2>1, <2>2
<1>2. QED
  BY <1>1, OrdersInvariant, PTL DEF OrdersSpec, CancelIsPermanent

\* A step that raises what an order has filled is a fill of that order.
LEMMA RaisedByFill ==
    ASSUME TypeOK, OrdersInv, [OrdersNext]_allVars, NEW h \in OrderHash,
           filledAmount'[h] > filledAmount[h]
    PROVE  \E taker \in Account, fill \in Fills :
              /\ FillOrder(h, taker, fill)
              /\ filledAmount'[h] = filledAmount[h] + fill.amount
<1>1. filledAmount'[h] # filledAmount[h]
  BY DEF OrdersInv
<1>2. ~(tx.active /\ filledAmount' = call.filledAmount)
  BY DEF OrdersInv
<1>3. QED
  BY <1>1, <1>2, FilledBy

LEMMA SameSign ==
    ASSUME NEW x \in Int, NEW y \in Int, (x >= 0 /\ y >= 0) \/ (x <= 0 /\ y <= 0)
    PROVE  x * y >= 0
<1>1. CASE x >= 0 /\ y >= 0
  <2>1. x \in Nat /\ y \in Nat
    BY <1>1
  <2>2. QED
    BY <2>1
<1>2. CASE x <= 0 /\ y <= 0
  <2>1. PICK a \in Nat, b \in Nat : x = -a /\ y = -b
    <3>1. -x \in Nat /\ -y \in Nat /\ x = -(-x) /\ y = -(-y)
      BY <1>2
    <3>2. QED
      BY <3>1
  <2>2. (-a) * (-b) = a * b /\ a * b \in Nat
    OBVIOUS
  <2>3. QED
    BY <2>1, <2>2
<1>3. QED
  BY <1>1, <1>2

\* A decrease-only order only ever brings its maker's position closer to zero, also
\* when other fills of the transaction have just changed it.
THEOREM DecreaseOnlyKept == OrdersSpec => DecreaseOnlyDecreases
<1>1. TypeOK /\ SolvencyInv /\ OrdersInv /\ [OrdersNext]_allVars
        => \A h \in OrderHash :
             Terms[h].isDecreaseOnly /\ filledAmount'[h] > filledAmount[h] =>
               LET before == balances[Terms[h].maker].position
                   after == balances'[Terms[h].maker].position
               IN  Abs(after) <= Abs(before) /\ after * before >= 0
  <2> SUFFICES ASSUME TypeOK, SolvencyInv, OrdersInv, [OrdersNext]_allVars,
                      NEW h \in OrderHash, Terms[h].isDecreaseOnly,
                      filledAmount'[h] > filledAmount[h]
               PROVE  LET before == balances[Terms[h].maker].position
                          after == balances'[Terms[h].maker].position
                      IN  Abs(after) <= Abs(before) /\ after * before >= 0
    OBVIOUS
  <2>1. PICK taker \in Account, fill \in Fills : FillOrder(h, taker, fill)
    BY RaisedByFill
  <2> DEFINE maker == Terms[h].maker
  <2>2. maker \in Account
    BY DEF Order
  <2>3. PICK p \in Int, amount \in Nat : p = balances[maker].position /\ amount = fill.amount
    <3>1. balances[maker].position \in Int
      BY <2>2 DEF TypeOK, Balance, Uint120
    <3>2. fill.amount \in Nat
      BY DEF FillTerms
    <3>3. QED
      BY <3>1, <3>2
  <2>4. /\ IF TakesPosition(Terms[h]) THEN p <= 0 ELSE p >= 0
        /\ amount <= Abs(p)
    BY <2>1, <2>3 DEF FillOrder, ValidRequest, DecreasesPosition, PositionNow
  <2>5. \/ balances'[maker].position = p
        \/ TakesPosition(Terms[h]) /\ balances'[maker].position = p + amount
        \/ ~TakesPosition(Terms[h]) /\ balances'[maker].position = p - amount
    BY <2>1, <2>3, FillMoves
  <2>6. PICK q \in Int : /\ q = balances'[maker].position
                         /\ Abs(q) <= Abs(p)
                         /\ (q >= 0 /\ p >= 0) \/ (q <= 0 /\ p <= 0)
    BY <2>3, <2>4, <2>5 DEF Abs
  <2>7. q * p >= 0
    BY ONLY <2>6, p \in Int, q \in Int, SameSign
  <2>8. QED
    BY <2>3, <2>6, <2>7
<1>2. QED
  BY <1>1, OrdersInvariant, PTL DEF OrdersSpec, DecreaseOnlyDecreases

\* What an order's limits say depends on its limits alone.
LEMMA LimitsOf ==
    ASSUME NEW order \in Order, NEW fill \in FillTerms
    PROVE  NoWorseThanLimits(order, fill)
<1> DEFINE limits ==
      [limitPrice |-> order.limitPrice, triggerPrice |-> order.triggerPrice,
       limitFee |-> order.limitFee, isNegativeLimitFee |-> order.isNegativeLimitFee,
       isBuy |-> order.isBuy, isInverse |-> order.isInverse]
<1>1. limits \in OrderLimits
  BY DEF Order, OrderLimits
<1>2. NoWorseThanLimits(limits, fill)
  BY <1>1, FillsKeepLimits
<1>3. /\ limits.limitPrice = order.limitPrice /\ limits.limitFee = order.limitFee
      /\ limits.isNegativeLimitFee = order.isNegativeLimitFee
      /\ limits.isBuy = order.isBuy /\ limits.isInverse = order.isInverse
  OBVIOUS
<1> HIDE DEF limits
<1>4. /\ ValidPrice(limits, fill) = ValidPrice(order, fill)
      /\ ValidFee(limits, fill) = ValidFee(order, fill)
      /\ TakesPosition(limits) = TakesPosition(order)
      /\ AtLimits(limits, fill.amount) = AtLimits(order, fill.amount)
  BY <1>3 DEF ValidPrice, ValidFee, TakesPosition, AtLimits
<1>5. ASSUME NEW terms
      PROVE  /\ Computable(limits, terms) = Computable(order, terms)
             /\ MarginAmount(limits, terms) = MarginAmount(order, terms)
  <2>1. AddsFee(limits, terms) = AddsFee(order, terms)
    BY <1>3 DEF AddsFee
  <2>2. /\ MarginPerPosition(limits, terms) = MarginPerPosition(order, terms)
        /\ FeeFactor(limits, terms) = FeeFactor(order, terms)
    BY <2>1 DEF MarginPerPosition, FeeFactor
  <2>3. QED
    BY <1>3, <2>2 DEF Computable, MarginAmount
<1>6. QED
  BY <1>2, <1>3, <1>4, <1>5 DEF NoWorseThanLimits

LEMMA LimitType ==
    ASSUME NEW order \in Order, NEW amount \in Nat, order.isInverse => order.limitPrice # 0
    PROVE  MarginAmount(order, AtLimits(order, amount)) \in Int
<1> DEFINE limit == AtLimits(order, amount)
<1>1. PICK price \in Nat, fee \in Nat, n \in Nat \ {0} :
        /\ limit.amount = amount /\ limit.price = price /\ limit.fee = fee /\ n = BASE
        /\ order.limitPrice = price
  BY DEF Order, AtLimits
<1> HIDE DEF limit
<1>2. CASE order.isInverse
  <2>1. PICK factor \in Int : factor = FeeFactor(order, limit)
    BY <1>1 DEF FeeFactor
  <2>2. price # 0 /\ amount * factor \in Int
    BY <1>1, <1>2
  <2>3. (amount * factor) \div price \in Int
    BY <2>2
  <2>4. QED
    BY <1>1, <1>2, <2>1, <2>3 DEF MarginAmount, limit
<1>3. CASE ~order.isInverse
  <2>1. BaseMul(fee, price) \in Nat
    BY BaseMulType
  <2>2. PICK each \in Int : each = MarginPerPosition(order, limit)
    BY <1>1, <2>1 DEF MarginPerPosition
  <2>3. amount * each \in Int
    OBVIOUS
  <2>4. BaseMul(amount, each) \in Int
    BY <1>1, <2>3 DEF BaseMul
  <2>5. QED
    BY <1>1, <1>3, <2>2, <2>4 DEF MarginAmount, limit
<1>4. QED
  BY <1>2, <1>3

\* No fill moves its maker's margin by more than price and fee limits together
\* allow, in either contract.
THEOREM MakersLimitStaysKept == OrdersSpec => MakersLimitKept
<1>1. TypeOK /\ SolvencyInv /\ OrdersInv /\ [OrdersNext]_allVars
        => \A h \in OrderHash :
             LET order == Terms[h]
                 amount == filledAmount'[h] - filledAmount[h]
                 paid == balances[order.maker].margin - balances'[order.maker].margin
                 limit == MarginAmount(order, AtLimits(order, amount))
             IN  tx.active /\ amount > 0 /\ order.limitFee <= BASE
                   /\ (order.isInverse => order.limitPrice # 0)
                   /\ balances'[order.maker].position # balances[order.maker].position
                 => paid <= IF TakesPosition(order) THEN limit ELSE -limit
  <2> SUFFICES ASSUME TypeOK, SolvencyInv, OrdersInv, [OrdersNext]_allVars,
                      NEW h \in OrderHash,
                      filledAmount'[h] - filledAmount[h] > 0,
                      Terms[h].limitFee <= BASE,
                      Terms[h].isInverse => Terms[h].limitPrice # 0,
                      balances'[Terms[h].maker].position # balances[Terms[h].maker].position
               PROVE  LET order == Terms[h]
                          amount == filledAmount'[h] - filledAmount[h]
                          paid == balances[order.maker].margin - balances'[order.maker].margin
                          limit == MarginAmount(order, AtLimits(order, amount))
                      IN  paid <= IF TakesPosition(order) THEN limit ELSE -limit
    BY Zenon
  <2> DEFINE order == Terms[h]
             maker == order.maker
  <2>1. filledAmount[h] \in Nat /\ filledAmount'[h] \in Nat
    BY OrdersInvStep DEF OrdersInv
  <2>2. PICK taker \in Account, fill \in Fills :
          FillOrder(h, taker, fill) /\ filledAmount'[h] = filledAmount[h] + fill.amount
    BY <2>1, RaisedByFill
  <2>3. order \in Order /\ maker \in Account /\ fill \in FillTerms
    BY DEF Order
  <2>4. filledAmount'[h] - filledAmount[h] = fill.amount
    BY <2>1, <2>2, <2>3 DEF FillTerms
  <2>5. /\ ValidPrice(order, fill) /\ ValidFee(order, fill) /\ Computable(order, fill)
    BY <2>2 DEF FillOrder, ValidRequest
  <2>6. PICK margin \in Nat, m \in Int :
          margin = MarginAmount(order, fill) /\ m = balances[maker].margin
    <3>1. MarginAmount(order, fill) \in Nat
      BY <2>5, FillIsTrade
    <3>2. balances[maker].margin \in Int
      BY <2>3 DEF TypeOK, Balance, Uint120
    <3>3. QED
      BY <3>1, <3>2
  <2>7. /\ TakesPosition(order) => balances'[maker].margin = m - margin
        /\ ~TakesPosition(order) => balances'[maker].margin = m + margin
    BY <2>2, <2>6, FillMoves
  <2> DEFINE limit == MarginAmount(order, AtLimits(order, fill.amount))
  <2>8. IF TakesPosition(order) THEN margin <= limit ELSE margin >= limit
    BY <2>3, <2>5, <2>6, LimitsOf DEF NoWorseThanLimits
  <2>9. limit \in Int
    <3>1. fill.amount \in Nat
      BY <2>3 DEF FillTerms
    <3>2. QED
      BY <2>3, <3>1, LimitType
  <2>10. QED
    BY <2>4, <2>6, <2>7, <2>8, <2>9
<1>2. QED
  BY <1>1, OrdersInvariant, PTL DEF OrdersSpec, MakersLimitKept

HIDE OrdersAssumption

-----------------------------------------------------------------------------
(* Closing out, one trade at a time.                                       *)

LEMMA NatOrder ==
    ASSUME NEW x \in Nat, NEW y \in Nat, NEW z \in Nat, x <= y
    PROVE  /\ x * z <= y * z /\ z * x <= z * y
           /\ x * z \in Nat /\ y * z \in Nat /\ z * x \in Nat /\ z * y \in Nat
<1>1. /\ x * z <= y * z /\ x * z \in Nat /\ y * z \in Nat
      /\ z * x = x * z /\ z * y = y * z
  BY NatProducts
<1>2. QED
  BY <1>1

LEMMA AbsIsNat == ASSUME NEW x \in Int PROVE Abs(x) \in Nat
BY DEF Abs

LEMMA NatQuotient == ASSUME NEW x \in Nat, NEW n \in Nat \ {0} PROVE x \div n \in Nat
OBVIOUS

LEMMA Gap ==
    ASSUME NEW x \in Int, NEW y \in Int, x < y
    PROVE  \E k \in Nat : y = x + 1 + k
<1>1. y - x - 1 \in Nat /\ y = x + 1 + (y - x - 1)
  OBVIOUS
<1>2. QED
  BY <1>1

\* A part of an amount, rounded down: all of it for all of the position, and less
\* than all for less.
LEMMA PartDown ==
    ASSUME NEW m \in Nat, NEW s \in Nat \ {0}, NEW c \in 0..s
    PROVE  /\ Fraction(m, c, s) \in 0..m
           /\ s * Fraction(m, c, s) <= m * c
           /\ c = s => Fraction(m, c, s) = m
           /\ c < s /\ m > 0 => Fraction(m, c, s) < m
<1>1. PICK f \in Int : /\ f = Fraction(m, c, s) /\ s * f <= m * c /\ m * c < s * f + s
                       /\ m * c \in Nat
  <2>1. m * c \in Nat
    BY NatProducts
  <2>2. /\ (m * c) \div s \in Int /\ s * ((m * c) \div s) <= m * c
        /\ m * c < s * ((m * c) \div s) + s
    BY <2>1, Division
  <2>3. QED
    BY <2>1, <2>2 DEF Fraction
<1>2. f >= 0
  <2>1. ASSUME f < 0
        PROVE  FALSE
    <3>1. PICK k \in Nat : f = -k - 1
      BY ONLY f \in Int, <2>1, Negative
    <3>2. s * f = -(s * k) - s /\ s * k \in Nat
      BY <3>1, NegativeProduct
    <3>3. QED
      BY <1>1, <3>2
  <2>2. QED
    BY <2>1
<1>3. m * c <= m * s /\ m * s \in Nat /\ m * s = s * m
  BY NatOrder, NatProducts
<1>4. f <= m
  <2>1. ASSUME f > m
        PROVE  FALSE
    <3>1. PICK k \in Nat : f = m + 1 + k
      BY <1>2, <2>1, Gap
    <3>2. s * f = s * m + s + s * k /\ s * k \in Nat
      BY <3>1
    <3>3. QED
      BY <1>1, <1>3, <3>2
  <2>2. QED
    BY <2>1
<1>5. c = s => f = m
  <2>1. ASSUME c = s, f < m
        PROVE  FALSE
    <3>1. PICK k \in Nat : m = f + 1 + k
      BY <1>2, <2>1, Gap
    <3>2. m * s = s * f + s + s * k /\ s * k \in Nat
      BY <3>1
    <3>3. QED
      BY <1>1, <2>1, <3>2
  <2>2. QED
    BY <1>4, <2>1
<1>6. c < s /\ m > 0 => f < m
  <2>1. ASSUME c < s, m > 0, f = m
        PROVE  FALSE
    <3>1. PICK k \in Nat : s = c + 1 + k
      BY <2>1, Gap
    <3>2. s * m = m * c + m + m * k /\ m * k \in Nat
      BY <3>1
    <3>3. QED
      BY <1>1, <2>1, <3>2
  <2>2. QED
    BY <1>4, <2>1
<1>7. QED
  BY <1>1, <1>2, <1>4, <1>5, <1>6

\* Rounded up.
LEMMA PartUp ==
    ASSUME NEW m \in Nat, NEW s \in Nat \ {0}, NEW c \in 0..s
    PROVE  /\ FractionRoundUp(m, c, s) \in 0..m
           /\ s * FractionRoundUp(m, c, s) >= m * c
           /\ c = s => FractionRoundUp(m, c, s) = m
<1>1. m * c \in Nat /\ m * c <= m * s /\ m * s \in Nat /\ m * s = s * m
  BY NatOrder, NatProducts
<1>2. CASE m * c = 0
  <2>1. FractionRoundUp(m, c, s) = 0
    BY <1>2 DEF FractionRoundUp
  <2>2. c = s => m = 0
    <3>1. ASSUME c = s, m > 0
          PROVE  FALSE
      <4>1. m * c > 0
        BY <3>1
      <4>2. QED
        BY <1>2, <4>1
    <3>2. QED
      BY <3>1
  <2>3. QED
    BY <1>2, <2>1, <2>2
<1>3. CASE m * c # 0
  <2>1. PICK q \in Int : /\ q = (m * c - 1) \div s
                         /\ s * q <= m * c - 1 /\ m * c - 1 < s * q + s
    <3>1. m * c - 1 \in Int
      BY <1>1
    <3>2. QED
      BY <3>1, Division
  <2>2. FractionRoundUp(m, c, s) = q + 1
    BY <1>3, <2>1 DEF FractionRoundUp
  <2>3. s * (q + 1) = s * q + s /\ s * q \in Int
    OBVIOUS
  <2>4. q >= 0
    <3>1. ASSUME q < 0
          PROVE  FALSE
      <4>1. PICK k \in Nat : q = -k - 1
        BY ONLY q \in Int, <3>1, Negative
      <4>2. s * q = -(s * k) - s /\ s * k \in Nat
        BY <4>1, NegativeProduct
      <4>3. QED
        BY <1>1, <1>3, <2>1, <4>2
    <3>2. QED
      BY <3>1
  <2>5. q < m
    <3>1. ASSUME q >= m
          PROVE  FALSE
      <4>1. PICK k \in Nat : q = m + k
        <5>1. q - m \in Nat /\ q = m + (q - m)
          BY <2>4, <3>1
        <5>2. QED
          BY <5>1
      <4>2. s * q = s * m + s * k /\ s * k \in Nat
        BY <4>1
      <4>3. QED
        BY <1>1, <2>1, <4>2
    <3>2. QED
      BY <3>1
  <2>6. c = s => q + 1 >= m
    <3>1. ASSUME c = s, q + 1 < m
          PROVE  FALSE
      <4>1. PICK k \in Nat : m = q + 1 + 1 + k
        BY <2>4, <3>1, Gap
      <4>2. m * s = s * q + s + s + s * k /\ s * k \in Nat
        BY <4>1
      <4>3. QED
        BY <1>1, <2>1, <3>1, <4>2
    <3>2. QED
      BY <2>4, <3>1
  <2>7. QED
    BY <1>1, <2>1, <2>2, <2>3, <2>4, <2>5, <2>6
<1>4. QED
  BY <1>2, <1>3

\* What is left of a long position with debts, or of a short one without.
LongLeft(before, after) ==
    /\ before.position > 0 /\ before.margin < 0
    /\ after.position \in 0..before.position /\ after.margin \in before.margin..0
    /\ before.position * (-after.margin) <= (-before.margin) * after.position
    /\ after.position = 0 => after.margin = 0

ShortLeft(before, after) ==
    /\ before.position < 0 /\ before.margin >= 0
    /\ after.position \in before.position..0 /\ after.margin \in 0..before.margin
    /\ before.margin * (-after.position) <= after.margin * (-before.position)
    /\ after.position = 0 => after.margin = 0
    /\ after.position < 0 /\ before.margin > 0 => after.margin > 0

LEMMA NoDebts ==
    ASSUME NEW b \in [margin: Int, position: Int], NEW price \in Nat,
           b.margin >= 0, b.position >= 0
    PROVE  NegativeValue(b, price) = 0
BY DEF NegativeValue

LEMMA ClosingLeaves ==
    ASSUME NEW b \in [margin: Int, position: Int], NEW price \in Nat, NEW amount,
           NEW isBuy, NEW allOrNothing, NEW flag,
           NegativeValue(b, price) # 0, MayClose(b, amount, isBuy, allOrNothing),
           NEW c \in 0..Abs(b.position)
    PROVE  LET after == MakerAfter(b, ClosingTrade(b, c, isBuy, flag))
           IN  /\ after \in [margin: Int, position: Int]
               /\ LongLeft(b, after) \/ ShortLeft(b, after)
<1> DEFINE trade == ClosingTrade(b, c, isBuy, flag)
           after == MakerAfter(b, trade)
<1>1. PICK m \in Int, p \in Int : m = b.margin /\ p = b.position
  OBVIOUS
<1>2. p # 0 /\ isBuy = (p > 0) /\ (m >= 0 \/ p > 0)
  BY <1>1 DEF MayClose
<1>3. CASE p > 0
  <2>1. m < 0
    BY <1>1, <1>3, NoDebts
  <2>2. PICK n \in Nat : n = -m /\ Abs(m) = n /\ Abs(p) = p
    BY <1>3, <2>1 DEF Abs
  <2>3. p \in Nat \ {0} /\ c \in 0..p
    BY <1>1, <1>3, <2>2
  <2>4. PICK u \in 0..n : /\ u = FractionRoundUp(n, c, p)
                          /\ p * u >= n * c /\ (c = p => u = n)
    BY <2>3, PartUp
  <2>5. isBuy /\ trade.marginAmount = u /\ trade.positionAmount = c /\ trade.isBuy
    BY <1>1, <1>2, <1>3, <2>2, <2>4 DEF ClosingTrade, MarginFraction
  <2>6. after = [margin |-> m + u, position |-> p - c]
    BY <1>1, <2>5 DEF MakerAfter
  <2>7. p * (-(m + u)) <= (-m) * (p - c)
    <3>1. -(m + u) = n - u /\ -m = n
      BY <2>2
    <3>2. p * (n - u) = p * n - p * u /\ n * (p - c) = n * p - n * c /\ p * n = n * p
      OBVIOUS
    <3>3. p * n \in Int /\ p * u \in Int /\ n * c \in Int
      BY <2>3
    <3>4. QED
      BY <2>4, <3>1, <3>2, <3>3
  <2>8. LongLeft(b, after)
    BY <1>1, <1>3, <2>1, <2>2, <2>3, <2>4, <2>6, <2>7 DEF LongLeft
  <2>9. after \in [margin: Int, position: Int]
    BY <2>3, <2>4, <2>6
  <2>10. QED
    BY <2>8, <2>9
<1>4. CASE p < 0
  <2>1. m \in Nat
    BY <1>2, <1>4
  <2>2. PICK s \in Nat \ {0} : s = -p /\ Abs(m) = m /\ Abs(p) = s
    BY <1>4, <2>1 DEF Abs
  <2>3. c \in 0..s
    BY <1>1, <2>2
  <2>4. PICK f \in 0..m : /\ f = Fraction(m, c, s) /\ s * f <= m * c
                          /\ (c = s => f = m) /\ (c < s /\ m > 0 => f < m)
    BY <2>1, <2>3, PartDown
  <2>5. ~isBuy /\ trade.marginAmount = f /\ trade.positionAmount = c /\ ~trade.isBuy
    <3>1. ~isBuy
      <4>1. ~(p > 0)
        BY <1>4
      <4>2. QED
        BY <1>2, <4>1, Zenon
    <3>2. trade = [marginAmount |-> Fraction(Abs(b.margin), c, Abs(b.position)),
                   positionAmount |-> c, isBuy |-> isBuy, traderFlags |-> {flag}]
      BY <3>1 DEF ClosingTrade, MarginFraction
    <3>3. QED
      BY <1>1, <2>2, <2>4, <3>1, <3>2
  <2>6. after = [margin |-> m - f, position |-> p + c]
    BY <1>1, <2>5 DEF MakerAfter
  <2>7. m * (-(p + c)) <= (m - f) * (-p)
    <3>1. -(p + c) = s - c /\ -p = s
      BY <2>2, <2>3
    <3>2. m * (s - c) = m * s - m * c /\ (m - f) * s = m * s - s * f
      BY <2>3
    <3>3. m * s \in Int /\ s * f \in Int /\ m * c \in Int
      BY <2>3
    <3>4. QED
      BY <2>4, <3>1, <3>2, <3>3
  <2>8. ShortLeft(b, after)
    <3>1. b.position = p /\ b.margin = m /\ after.position = p + c /\ after.margin = m - f
      BY ONLY <1>1, <2>6
    <3>2. p + c \in p..0 /\ m - f \in 0..m
      BY <1>4, <2>1, <2>2, <2>3
    <3>3. (p + c = 0 => m - f = 0) /\ (p + c < 0 /\ m > 0 => m - f > 0)
      BY <2>1, <2>2, <2>3, <2>4
    <3>4. QED
      BY ONLY <1>4, <2>1, <2>7, <3>1, <3>2, <3>3 DEF ShortLeft
  <2>9. after \in [margin: Int, position: Int]
    BY <2>3, <2>4, <2>6
  <2>10. QED
    BY <2>8, <2>9
<1>5. QED
  BY <1>2, <1>3, <1>4

\* What is left is covered no worse, smaller, on the same side, or nothing.
LeftInOrder(before, after, price) ==
    /\ Covered(before, after, price)
    /\ Abs(after.position) <= Abs(before.position)
    /\ after.position * before.position >= 0
    /\ after.position = 0 => after.margin = 0

LEMMA LongIsCovered ==
    ASSUME NEW b \in [margin: Int, position: Int], NEW a \in [margin: Int, position: Int],
           NEW price \in Nat, LongLeft(b, a)
    PROVE  /\ PositiveValue(b, price) = b.position * price
           /\ NegativeValue(b, price) = (-b.margin) * BASE
           /\ PositiveValue(a, price) = a.position * price
           /\ NegativeValue(a, price) = (-a.margin) * BASE
           /\ b.position * (-a.margin) <= (-b.margin) * a.position
           /\ LeftInOrder(b, a, price)
<1>1. PICK p \in Nat, q \in Nat, m \in Nat, n \in Nat :
        /\ p = b.position /\ q = a.position /\ m = -b.margin /\ n = -a.margin
        /\ p > 0 /\ m > 0 /\ q <= p /\ n <= m /\ p * n <= m * q /\ (q = 0 => n = 0)
        /\ b.margin = -m /\ a.margin = -n
  BY DEF LongLeft
<1>2. /\ PositiveValue(b, price) = p * price /\ NegativeValue(b, price) = m * BASE
  BY <1>1 DEF PositiveValue, NegativeValue
<1>3. /\ PositiveValue(a, price) = q * price /\ NegativeValue(a, price) = n * BASE
  <2>1. /\ (IF a.margin > 0 THEN a.margin * BASE ELSE 0) = 0
        /\ (IF a.position < 0 THEN -a.position * price ELSE 0) = 0
    BY <1>1
  <2>2. (IF a.position > 0 THEN a.position * price ELSE 0) = q * price
    <3>1. CASE q = 0
      BY <1>1, <3>1
    <3>2. CASE q > 0
      BY <1>1, <3>2
    <3>3. QED
      BY <3>1, <3>2
  <2>3. (IF a.margin < 0 THEN -a.margin * BASE ELSE 0) = n * BASE
    <3>1. CASE n = 0
      BY <1>1, <3>1
    <3>2. CASE n > 0
      <4>1. a.margin < 0 /\ -a.margin = n
        BY <1>1, <3>2
      <4>2. QED
        BY <4>1
    <3>3. QED
      BY <3>1, <3>2
  <2>4. q * price \in Int /\ n * BASE \in Int
    OBVIOUS
  <2>5. QED
    BY <2>1, <2>2, <2>3, <2>4 DEF PositiveValue, NegativeValue
<1>4. (q * price) * (m * BASE) >= (p * price) * (n * BASE)
  <2>1. PICK e \in Nat : e = price * BASE
    OBVIOUS
  <2>2. (p * n) * e <= (m * q) * e
    <3>1. p * n \in Nat /\ m * q \in Nat
      OBVIOUS
    <3>2. QED
      BY <1>1, <3>1, NatOrder
  <2>3. (q * price) * (m * BASE) = (m * q) * e /\ (p * price) * (n * BASE) = (p * n) * e
    BY <2>1
  <2>4. (m * q) * e \in Int /\ (p * n) * e \in Int
    OBVIOUS
  <2>5. QED
    BY <2>2, <2>3, <2>4
<1>5. Covered(b, a, price)
  BY <1>2, <1>3, <1>4 DEF Covered
<1>6. q * p >= 0
  OBVIOUS
<1>7. Abs(a.position) <= Abs(b.position)
  BY <1>1 DEF Abs
<1>8. QED
  BY <1>1, <1>2, <1>3, <1>5, <1>6, <1>7 DEF LeftInOrder

LEMMA ShortIsCovered ==
    ASSUME NEW b \in [margin: Int, position: Int], NEW a \in [margin: Int, position: Int],
           NEW price \in Nat, ShortLeft(b, a)
    PROVE  /\ PositiveValue(b, price) = b.margin * BASE
           /\ NegativeValue(b, price) = (-b.position) * price
           /\ PositiveValue(a, price) = a.margin * BASE
           /\ NegativeValue(a, price) = (-a.position) * price
           /\ b.margin * (-a.position) <= a.margin * (-b.position)
           /\ LeftInOrder(b, a, price)
<1>1. PICK p \in Nat, q \in Nat, m \in Nat, n \in Nat :
        /\ p = -b.position /\ q = -a.position /\ m = b.margin /\ n = a.margin
        /\ p > 0 /\ q <= p /\ n <= m /\ m * q <= n * p /\ (q = 0 => n = 0)
        /\ b.position = -p /\ a.position = -q
  BY DEF ShortLeft
<1>2. \A x \in [margin: Int, position: Int], u \in Nat, v \in Nat :
         x.margin = u /\ x.position = -v
         => PositiveValue(x, price) = u * BASE /\ NegativeValue(x, price) = v * price
  <2> SUFFICES ASSUME NEW x \in [margin: Int, position: Int], NEW u \in Nat, NEW v \in Nat,
                      x.margin = u, x.position = -v
               PROVE  PositiveValue(x, price) = u * BASE /\ NegativeValue(x, price) = v * price
    OBVIOUS
  <2>1. /\ (IF x.position > 0 THEN x.position * price ELSE 0) = 0
        /\ (IF x.margin < 0 THEN -x.margin * BASE ELSE 0) = 0
    OBVIOUS
  <2>2. (IF x.margin > 0 THEN x.margin * BASE ELSE 0) = u * BASE
    <3>1. CASE u = 0
      BY <3>1
    <3>2. CASE u > 0
      BY <3>2
    <3>3. QED
      BY <3>1, <3>2
  <2>3. (IF x.position < 0 THEN -x.position * price ELSE 0) = v * price
    <3>1. CASE v = 0
      BY <3>1
    <3>2. CASE v > 0
      <4>1. x.position < 0 /\ -x.position = v
        BY <3>2
      <4>2. QED
        BY <4>1
    <3>3. QED
      BY <3>1, <3>2
  <2>4. u * BASE \in Int /\ v * price \in Int
    OBVIOUS
  <2>5. QED
    BY <2>1, <2>2, <2>3, <2>4 DEF PositiveValue, NegativeValue
<1>3. /\ PositiveValue(b, price) = m * BASE /\ NegativeValue(b, price) = p * price
      /\ PositiveValue(a, price) = n * BASE /\ NegativeValue(a, price) = q * price
  BY <1>1, <1>2
<1>4. (n * BASE) * (p * price) >= (m * BASE) * (q * price)
  <2>1. PICK e \in Nat : e = price * BASE
    OBVIOUS
  <2>2. (m * q) * e <= (n * p) * e
    <3>1. m * q \in Nat /\ n * p \in Nat
      OBVIOUS
    <3>2. QED
      BY <1>1, <3>1, NatOrder
  <2>3. (n * BASE) * (p * price) = (n * p) * e /\ (m * BASE) * (q * price) = (m * q) * e
    BY <2>1
  <2>4. (m * q) * e \in Int /\ (n * p) * e \in Int
    OBVIOUS
  <2>5. QED
    BY <2>2, <2>3, <2>4
<1>5. Covered(b, a, price)
  BY <1>3, <1>4 DEF Covered
<1>6. (-q) * (-p) >= 0
  <2>1. (-q) * (-p) = q * p /\ q * p >= 0
    OBVIOUS
  <2>2. QED
    BY <2>1
<1>7. Abs(a.position) <= Abs(b.position)
  BY <1>1 DEF Abs
<1>8. QED
  BY <1>1, <1>3, <1>5, <1>6, <1>7 DEF LeftInOrder

\* P1Trade accepts what is left, unless the account was worth nothing.
LEMMA LeftIsAccepted ==
    ASSUME NEW b \in [margin: Int, position: Int], NEW a \in [margin: Int, position: Int],
           NEW price \in Nat, NEW requirement \in Nat,
           LongLeft(b, a) \/ ShortLeft(b, a),
           NegativeValue(b, price) # 0, PositiveValue(b, price) # 0
    PROVE  IsCollateralized(a, price, requirement) \/ Improved(b, a, price)
<1>1. CASE a.position = 0
  <2>1. a.margin = 0
    BY <1>1 DEF LongLeft, ShortLeft
  <2>2. PositiveValue(a, price) = 0 /\ NegativeValue(a, price) = 0
    BY <1>1, <2>1 DEF PositiveValue, NegativeValue
  <2>3. 0 * BASE = 0 /\ 0 * requirement = 0
    OBVIOUS
  <2>4. QED
    BY <2>2, <2>3 DEF IsCollateralized
<1>2. CASE a.position # 0 /\ LongLeft(b, a)
  <2>1. PICK p \in Nat, q \in Nat, m \in Nat, n \in Nat :
          /\ p = b.position /\ q = a.position /\ m = -b.margin /\ n = -a.margin
          /\ p > 0 /\ q > 0 /\ q <= p /\ p * n <= m * q
    BY <1>2 DEF LongLeft
  <2>2. /\ PositiveValue(b, price) = p * price /\ NegativeValue(b, price) = m * BASE
        /\ PositiveValue(a, price) = q * price /\ NegativeValue(a, price) = n * BASE
    BY <1>2, <2>1, LongIsCovered
  <2>3. (n * BASE) \div BASE = n /\ (m * BASE) \div BASE = m
    OBVIOUS
  <2>4. price # 0 /\ q * price # 0
    <3>1. price # 0
      BY <2>2
    <3>2. QED
      BY <2>1, <3>1
  <2>5. n * (p * price) <= m * (q * price)
    <3>1. (p * n) * price <= (m * q) * price
      <4>1. p * n \in Nat /\ m * q \in Nat
        OBVIOUS
      <4>2. QED
        BY <2>1, <4>1, NatOrder
    <3>2. n * (p * price) = (p * n) * price /\ m * (q * price) = (m * q) * price
      OBVIOUS
    <3>3. QED
      BY <3>1, <3>2
  <2>6. Abs(a.position) <= Abs(b.position) /\ a.position > 0 /\ b.position > 0
    BY <2>1 DEF Abs
  <2>7. Improved(b, a, price)
    BY <2>2, <2>3, <2>4, <2>5, <2>6 DEF Improved
  <2>8. QED
    BY <2>7
<1>3. CASE a.position # 0 /\ ShortLeft(b, a)
  <2>1. PICK p \in Nat, q \in Nat, m \in Nat, n \in Nat :
          /\ p = -b.position /\ q = -a.position /\ m = b.margin /\ n = a.margin
          /\ p > 0 /\ q > 0 /\ q <= p /\ m * q <= n * p /\ (m > 0 => n > 0)
    BY <1>3 DEF ShortLeft
  <2>2. /\ PositiveValue(b, price) = m * BASE /\ NegativeValue(b, price) = p * price
        /\ PositiveValue(a, price) = n * BASE /\ NegativeValue(a, price) = q * price
    BY <1>3, <2>1, ShortIsCovered
  <2>3. (n * BASE) \div BASE = n /\ (m * BASE) \div BASE = m
    OBVIOUS
  <2>4. m # 0
    BY <2>2
  <2>5. n * BASE # 0
    BY <2>1, <2>4
  <2>6. m * (q * price) <= n * (p * price)
    <3>1. (m * q) * price <= (n * p) * price
      <4>1. n * p \in Nat /\ m * q \in Nat
        OBVIOUS
      <4>2. QED
        BY <2>1, <4>1, NatOrder
    <3>2. m * (q * price) = (m * q) * price /\ n * (p * price) = (n * p) * price
      OBVIOUS
    <3>3. QED
      BY <3>1, <3>2
  <2>7. Abs(a.position) <= Abs(b.position) /\ ~(a.position > 0) /\ ~(b.position > 0)
    BY <2>1 DEF Abs
  <2>8. Improved(b, a, price)
    BY <2>2, <2>3, <2>5, <2>6, <2>7 DEF Improved
  <2>9. QED
    BY <2>8
<1>4. QED
  BY <1>1, <1>2, <1>3

-----------------------------------------------------------------------------
(* The ledger with the contracts that close out.                           *)

Between(x, start, end) == IF start < end THEN x \in start..end ELSE x \in end..start

\* What the proxy asks for: as much as takes the liquidator from where it began to the
\* position it named; it has got no more than that.
ProxyOrder(order) ==
    /\ order.maker \in tx.accounts /\ order.taker \in tx.accounts
    /\ order.maker # order.taker
    /\ order.before = tx.initialBalances[order.taker]
    /\ order.max \in Int
    /\ order.amount = Abs(order.max - order.before.position)
    /\ order.isBuy <=> order.max > order.before.position
    /\ tx.traderFlags # {} =>
         Between(balances[order.taker].position, order.before.position, order.max)

\* A transaction has the price of its oracle, has settled its accounts, sees their
\* balances as they are stored, and until its first trade as they were at the start.
CloseoutInv ==
    /\ insurance \in [fund: Fund, fee: Fees]
    /\ tx.active =>
        /\ tx.price = oraclePrice
        /\ \A a \in tx.accounts : /\ tx.currentBalances[a] = balances[a]
                                  /\ localIndexes[a].timestamp = globalIndex.timestamp
        /\ tx.traderFlags = {} => \A a \in tx.accounts : tx.initialBalances[a] = balances[a]
        /\ pending.order = NoOrder \/ ProxyOrder(pending.order)

LEMMA ActiveTransaction ==
    ASSUME TypeOK, tx.active
    PROVE  /\ tx \in Transaction /\ tx.accounts \subseteq Account
           /\ tx.price \in Nat /\ minCollateral \in Nat
           /\ balances \in [Account -> [margin: Int, position: Int]]
           /\ tx.initialBalances \in [Account -> Balance]
<1>1. tx \in Transaction
  BY DEF TypeOK, NoTx
<1>2. Balance \subseteq [margin: Int, position: Int]
  BY DEF Balance, Uint120
<1>3. QED
  <2>1. /\ tx.accounts \subseteq Account /\ tx.price \in Nat
        /\ tx.initialBalances \in [Account -> Balance]
    BY <1>1 DEF Transaction, Price, Oracle
  <2>2. minCollateral \in Nat
    BY DEF TypeOK
  <2>3. balances \in [Account -> [margin: Int, position: Int]]
    BY <1>2 DEF TypeOK
  <2>4. QED
    BY <1>1, <2>1, <2>2, <2>3

\* What a trade of the loop does to the two accounts.
LEMMA StepOfTwo ==
    ASSUME TypeOK, CloseoutInv, NEW trader, NEW maker, NEW taker, NEW result,
           TradeStep(trader, maker, taker, result)
    PROVE  /\ tx.active /\ maker \in tx.accounts /\ taker \in tx.accounts
           /\ maker = taker => balances' = balances
           /\ maker # taker =>
                /\ balances'[maker] = MakerAfter(balances[maker], result)
                /\ balances'[taker] = TakerAfter(balances[taker], result)
           /\ \A a \in Account : a # maker /\ a # taker => balances'[a] = balances[a]
           /\ tx'.active /\ tx'.accounts = tx.accounts /\ tx'.price = tx.price
           /\ tx'.initialBalances = tx.initialBalances
           /\ tx'.traderFlags = tx.traderFlags \cup result.traderFlags
           /\ \A a \in tx.accounts : tx'.currentBalances[a] = balances'[a]
           /\ UNCHANGED <<localIndexes, globalIndex, oraclePrice, minCollateral>>
<1>1. /\ tx.active /\ maker \in tx.accounts /\ taker \in tx.accounts
      /\ UNCHANGED <<localIndexes, globalIndex, oraclePrice, minCollateral>>
  BY DEF TradeStep, settings, chain
<1>2. /\ tx \in Transaction /\ tx.accounts \subseteq Account
      /\ balances \in [Account -> [margin: Int, position: Int]]
      /\ tx.currentBalances \in [Account -> Balance]
  BY <1>1, ActiveTransaction DEF Transaction
<1>3. \A a \in tx.accounts : tx.currentBalances[a] = balances[a]
  BY <1>1 DEF CloseoutInv
<1>4. DOMAIN tx = {"active", "accounts", "price", "initialBalances", "currentBalances",
                   "traderFlags", "undo"}
  BY <1>2 DEF Transaction
<1>5. CASE /\ maker = taker /\ UNCHANGED balances
           /\ tx' = [tx EXCEPT !.traderFlags = tx.traderFlags \cup result.traderFlags]
  <2>1. /\ tx'.active = tx.active /\ tx'.accounts = tx.accounts /\ tx'.price = tx.price
        /\ tx'.initialBalances = tx.initialBalances
        /\ tx'.traderFlags = tx.traderFlags \cup result.traderFlags
        /\ tx'.currentBalances = tx.currentBalances
    BY <1>4, <1>5
  <2>2. QED
    BY <1>1, <1>3, <1>5, <2>1
<1>6. CASE maker # taker
  <2> DEFINE made == MakerAfter(tx.currentBalances[maker], result)
             took == TakerAfter(tx.currentBalances[taker], result)
             traded == [tx.currentBalances EXCEPT ![maker] = made, ![taker] = took]
  <2>1. /\ tx' = [tx EXCEPT !.traderFlags = tx.traderFlags \cup result.traderFlags,
                            !.currentBalances = traded]
        /\ balances' = [balances EXCEPT ![maker] = traded[maker], ![taker] = traded[taker]]
    BY <1>6 DEF TradeStep, StoreTraded
  <2>2. made = MakerAfter(balances[maker], result) /\ took = TakerAfter(balances[taker], result)
    BY <1>1, <1>3
  <2> HIDE DEF made, took
  <2>3. /\ traded[maker] = made /\ traded[taker] = took
        /\ \A a \in tx.accounts : a # maker /\ a # taker => traded[a] = tx.currentBalances[a]
    BY <1>1, <1>2, <1>6
  <2> HIDE DEF traded
  <2>4. /\ tx'.active = tx.active /\ tx'.accounts = tx.accounts /\ tx'.price = tx.price
        /\ tx'.initialBalances = tx.initialBalances
        /\ tx'.traderFlags = tx.traderFlags \cup result.traderFlags
        /\ tx'.currentBalances = traded
    BY <1>4, <2>1
  <2>5. /\ balances'[maker] = made /\ balances'[taker] = took
        /\ \A a \in Account : a # maker /\ a # taker => balances'[a] = balances[a]
    BY <1>1, <1>2, <1>6, <2>1, <2>3
  <2>6. \A a \in tx.accounts : traded[a] = balances'[a]
    BY <1>2, <1>3, <2>3, <2>5
  <2>7. QED
    BY <1>1, <1>6, <2>2, <2>4, <2>5, <2>6
<1>7. QED
  BY <1>5, <1>6 DEF TradeStep

\* Both contracts answer with a closing trade of the maker's position or less of it.
IsClosing(maker, taker, amount, isBuy, allOrNothing, flag, c) ==
    /\ c \in 0..Abs(balances[maker].position) /\ c <= amount
    /\ MayClose(balances[maker], amount, isBuy, allOrNothing)
    /\ NegativeValue(balances[maker], tx.price) # 0
    /\ ClosingTrade(balances[maker], c, isBuy, flag) \in AnyResult
    /\ \E trader \in Operator :
         TradeStep(trader, maker, taker, ClosingTrade(balances[maker], c, isBuy, flag))

LEMMA Debts ==
    ASSUME NEW b \in [margin: Int, position: Int], NEW price \in Nat, NEW r \in Nat,
           ~IsCollateralized(b, price, r) \/ Underwater(b, price)
    PROVE  NegativeValue(b, price) # 0
<1>1. PICK p \in Nat, n \in Nat : p = PositiveValue(b, price) /\ n = NegativeValue(b, price)
  BY ValuesAreNat
<1>2. 0 * r = 0 /\ p * BASE \in Nat
  OBVIOUS
<1>3. QED
  BY <1>1, <1>2 DEF IsCollateralized, Underwater

LEMMA ClosingResult ==
    ASSUME NEW b \in [margin: Int, position: Int], NEW amount,
           NEW isBuy, NEW allOrNothing, NEW flag \in {2, 4},
           MayClose(b, amount, isBuy, allOrNothing), NEW c \in 0..Abs(b.position)
    PROVE  ClosingTrade(b, c, isBuy, flag) \in AnyResult
<1>1. PICK m \in Nat, s \in Nat \ {0} : m = Abs(b.margin) /\ s = Abs(b.position)
  BY DEF MayClose, Abs
<1>2. Fraction(m, c, s) \in Nat /\ FractionRoundUp(m, c, s) \in Nat
  BY <1>1, PartDown, PartUp
<1>3. MarginFraction(b, c, isBuy) \in Nat
  BY <1>1, <1>2 DEF MarginFraction
<1>4. isBuy \in BOOLEAN
  BY DEF MayClose
<1>5. {flag} \in SUBSET TraderFlag /\ c \in Nat
  BY <1>1, CloseoutsAssumption
<1>6. QED
  BY <1>3, <1>4, <1>5 DEF ClosingTrade, AnyResult

LEMMA LiquidateCloses ==
    ASSUME TypeOK, CloseoutInv, NEW maker, NEW taker, NEW amount \in Nat,
           NEW isBuy, NEW allOrNothing,
           Liquidate(maker, taker, amount, isBuy, allOrNothing)
    PROVE  \E c \in Nat : IsClosing(maker, taker, amount, isBuy, allOrNothing, 2, c)
<1> DEFINE c == Least(amount, Abs(balances[maker].position))
           trade == ClosingTrade(balances[maker], c, isBuy, 2)
<1>1. /\ ~IsCollateralized(balances[maker], tx.price, minCollateral)
      /\ MayClose(balances[maker], amount, isBuy, allOrNothing)
      /\ TradeStep(P1Liquidation, maker, taker, trade)
  BY DEF Liquidate
<1>2. maker \in tx.accounts /\ tx.active
  BY <1>1 DEF TradeStep
<1>3. /\ balances[maker] \in [margin: Int, position: Int]
      /\ tx.price \in Nat /\ minCollateral \in Nat
  BY <1>2, ActiveTransaction
<1>4. c \in 0..Abs(balances[maker].position) /\ c <= amount /\ c \in Nat
  BY <1>3 DEF Least, Abs
<1> HIDE DEF c
<1>5. NegativeValue(balances[maker], tx.price) # 0
  BY <1>1, <1>3, Debts
<1>6. trade \in AnyResult
  BY <1>1, <1>3, <1>4, ClosingResult
<1>7. P1Liquidation \in Operator
  BY CloseoutsAssumption
<1>8. QED
  BY <1>1, <1>4, <1>5, <1>6, <1>7 DEF IsClosing

LEMMA DeleverageCloses ==
    ASSUME TypeOK, CloseoutInv, NEW maker, NEW taker, NEW amount \in Nat,
           NEW isBuy, NEW allOrNothing,
           Deleverage(maker, taker, amount, isBuy, allOrNothing)
    PROVE  \E c \in Nat : /\ IsClosing(maker, taker, amount, isBuy, allOrNothing, 4, c)
                          /\ c <= Abs(balances[taker].position)
<1> DEFINE c == DeleveragedAmount(amount, maker, taker)
           trade == ClosingTrade(balances[maker], c, isBuy, 4)
<1>1. /\ Underwater(balances[maker], tx.price)
      /\ MayClose(balances[maker], amount, isBuy, allOrNothing)
      /\ TradeStep(P1Deleveraging, maker, taker, trade)
  BY DEF Deleverage
<1>2. maker \in tx.accounts /\ taker \in tx.accounts /\ tx.active
  BY <1>1 DEF TradeStep
<1>3. /\ balances[maker] \in [margin: Int, position: Int]
      /\ balances[taker] \in [margin: Int, position: Int]
      /\ tx.price \in Nat /\ minCollateral \in Nat
  BY <1>2, ActiveTransaction
<1>4. /\ c \in 0..Abs(balances[maker].position) /\ c <= amount /\ c \in Nat
      /\ c <= Abs(balances[taker].position)
  <2>1. PICK x \in Nat, y \in Nat : /\ x = Abs(balances[maker].position)
                                   /\ y = Abs(balances[taker].position)
    <3>1. balances[maker].position \in Int /\ balances[taker].position \in Int
      BY <1>3
    <3>2. QED
      BY <3>1, AbsIsNat
  <2>2. c = Least(amount, Least(x, y))
    BY <2>1 DEF DeleveragedAmount
  <2>3. QED
    BY <2>1, <2>2 DEF Least
<1> HIDE DEF c
<1>5. NegativeValue(balances[maker], tx.price) # 0
  BY <1>1, <1>3, Debts
<1>6. trade \in AnyResult
  BY <1>1, <1>3, <1>4, ClosingResult
<1>7. P1Deleveraging \in Operator
  BY CloseoutsAssumption
<1>8. QED
  BY <1>1, <1>4, <1>5, <1>6, <1>7 DEF IsClosing

LEMMA OthersTradeType ==
    ASSUME NEW trade \in OrderTrades
    PROVE  /\ trade.maker \in Account /\ trade.taker \in Account /\ trade.result \in AnyResult
           /\ trade.result.traderFlags # {} /\ OrdersTrader \in Operator
<1>1. trade \in [maker: Account, taker: Account,
                 result: [marginAmount: Nat, positionAmount: Nat, isBuy: BOOLEAN,
                          traderFlags: (SUBSET TraderFlag) \ {{}}]]
  BY CloseoutsAssumption
<1>2. /\ trade.maker \in Account /\ trade.taker \in Account
      /\ trade.result \in [marginAmount: Nat, positionAmount: Nat, isBuy: BOOLEAN,
                          traderFlags: (SUBSET TraderFlag) \ {{}}]
  BY <1>1
<1>3. trade.result \in AnyResult /\ trade.result.traderFlags # {}
  BY <1>2 DEF AnyResult
<1>4. QED
  BY <1>2, <1>3, CloseoutsAssumption

\* Every trade of the loop: of others, or closing out.
AnyTrade(maker, taker, result) ==
    /\ \E trader \in Operator : TradeStep(trader, maker, taker, result)
    /\ maker \in Account /\ taker \in Account
    /\ result \in AnyResult /\ result.traderFlags # {}

\* The steps of the traders, as steps of the loop.
LEMMA ClosingIsTrade ==
    ASSUME TypeOK, NEW maker, NEW taker, NEW amount, NEW isBuy, NEW allOrNothing, NEW flag,
           NEW c, IsClosing(maker, taker, amount, isBuy, allOrNothing, flag, c)
    PROVE  AnyTrade(maker, taker, ClosingTrade(balances[maker], c, isBuy, flag))
<1>1. ClosingTrade(balances[maker], c, isBuy, flag).traderFlags # {}
  BY DEF ClosingTrade
<1>2. tx.active /\ maker \in tx.accounts /\ taker \in tx.accounts
  BY DEF IsClosing, TradeStep
<1>3. tx.accounts \subseteq Account
  BY <1>2, ActiveTransaction
<1>4. QED
  BY <1>1, <1>2, <1>3 DEF IsClosing, AnyTrade

LEMMA AnyTradeType ==
    ASSUME TypeOK, NEW maker, NEW taker, NEW result, AnyTrade(maker, taker, result)
    PROVE  TypeOK'
BY TradeStepType DEF AnyTrade

LEMMA AnyTradeInv ==
    ASSUME TypeOK, CloseoutInv, NEW maker, NEW taker, NEW result,
           AnyTrade(maker, taker, result), UNCHANGED <<insurance, pending>>,
           pending.order # NoOrder =>
             Between(balances'[pending.order.taker].position, pending.order.before.position,
                     pending.order.max)
    PROVE  CloseoutInv'
<1>1. PICK trader \in Operator : TradeStep(trader, maker, taker, result)
  BY DEF AnyTrade
<1>2. /\ tx.active /\ tx'.active /\ tx'.accounts = tx.accounts /\ tx'.price = tx.price
      /\ tx'.initialBalances = tx.initialBalances
      /\ tx'.traderFlags # {}
      /\ \A a \in tx.accounts : tx'.currentBalances[a] = balances'[a]
      /\ UNCHANGED <<localIndexes, globalIndex, oraclePrice>>
  BY <1>1, StepOfTwo DEF AnyTrade
<1>3. pending.order # NoOrder => ProxyOrder(pending.order)'
  <2>1. ASSUME pending.order # NoOrder
        PROVE  ProxyOrder(pending.order)'
    <3>1. ProxyOrder(pending.order)
      BY <1>2, <2>1 DEF CloseoutInv
    <3>2. QED
      BY <1>2, <2>1, <3>1 DEF ProxyOrder
  <2>2. QED
    BY <2>1
<1>4. QED
  BY <1>2, <1>3 DEF CloseoutInv, NoOrder

\* The proxy's trade takes its liquidator towards the position it named, no further.
LEMMA ProxyTradeBetween ==
    ASSUME TypeOK, CloseoutInv, ProxyTrade
    PROVE  /\ \E c \in Nat : IsClosing(pending.order.maker, pending.order.taker,
                                       pending.order.amount, pending.order.isBuy, FALSE, 2, c)
           /\ Between(balances'[pending.order.taker].position, pending.order.before.position,
                      pending.order.max)
<1> DEFINE order == pending.order
<1>1. /\ tx.active /\ order # NoOrder /\ tx.traderFlags = {}
      /\ Liquidate(order.maker, order.taker, order.amount, order.isBuy, FALSE)
  BY DEF ProxyTrade
<1>2. ProxyOrder(order)
  BY <1>1 DEF CloseoutInv
<1> HIDE DEF order
<1>3. /\ order.maker \in Account /\ order.taker \in Account /\ order.taker \in tx.accounts
      /\ tx.initialBalances[order.taker] = balances[order.taker]
      /\ balances[order.taker] \in [margin: Int, position: Int]
  BY <1>1, <1>2, ActiveTransaction DEF ProxyOrder, CloseoutInv
<1>4. PICK x \in Int, m \in Int :
        /\ x = balances[order.taker].position /\ x = order.before.position /\ m = order.max
        /\ order.amount = Abs(m - x) /\ (order.isBuy <=> m > x)
  BY <1>2, <1>3 DEF ProxyOrder
<1>5. order.amount \in Nat
  BY <1>4 DEF Abs
<1>6. PICK c \in Nat : IsClosing(order.maker, order.taker, order.amount, order.isBuy, FALSE, 2, c)
  BY <1>1, <1>5, LiquidateCloses
<1> DEFINE trade == ClosingTrade(balances[order.maker], c, order.isBuy, 2)
<1>7. PICK trader \in Operator : TradeStep(trader, order.maker, order.taker, trade)
  BY <1>6 DEF IsClosing
<1>8. order.maker # order.taker
  BY <1>2 DEF ProxyOrder
<1>9. trade.positionAmount = c /\ trade.isBuy = order.isBuy
  BY DEF ClosingTrade
<1> HIDE DEF trade
<1>10. balances'[order.taker] = TakerAfter(balances[order.taker], trade)
  BY <1>7, <1>8, StepOfTwo
<1>11. balances'[order.taker].position = IF m > x THEN x + c ELSE x - c
  <2>1. balances'[order.taker].position =
          IF order.isBuy THEN x + c ELSE x - c
    <3>1. TakerAfter(balances[order.taker], trade).position =
            IF trade.isBuy THEN x + c ELSE x - c
      BY <1>4, <1>9 DEF TakerAfter
    <3>2. QED
      BY <1>9, <1>10, <3>1
  <2>2. CASE m > x
    BY <1>4, <2>1, <2>2
  <2>3. CASE ~(m > x)
    <3>1. ~order.isBuy
      BY <1>4, <2>3, Zenon
    <3>2. QED
      BY <2>1, <2>3, <3>1
  <2>4. QED
    BY <2>2, <2>3
<1>12. c <= Abs(m - x)
  BY <1>4, <1>6 DEF IsClosing
<1>13. Between(balances'[order.taker].position, x, m)
  <2>1. CASE m > x
    BY <1>11, <1>12, <2>1 DEF Between, Abs
  <2>2. CASE ~(m > x)
    BY <1>11, <1>12, <2>2 DEF Between, Abs
  <2>3. QED
    BY <2>1, <2>2
<1>14. QED
  BY <1>4, <1>6, <1>13 DEF order

LEMMA BeginCloseoutInv ==
    ASSUME TypeOK, NEW accounts \in SUBSET Account, BeginTrade(accounts),
           insurance \in [fund: Fund, fee: Fees], insurance' = insurance
    PROVE  /\ tx'.active /\ tx'.accounts = accounts /\ tx'.traderFlags = {}
           /\ tx'.initialBalances = balances'
           /\ \A a \in accounts : balances'[a] = SettledAccount(a, globalIndex')
           /\ pending'.order = NoOrder \/ ProxyOrder(pending.order)' => CloseoutInv'
<1>1. PICK index \in LoadedIndexes :
        /\ balances' = SettledBalances(accounts, index)
        /\ StoreIndexes(accounts, index)
        /\ tx'.active /\ tx'.accounts = accounts /\ tx'.price = oraclePrice
        /\ tx'.initialBalances = SettledBalances(accounts, index)
        /\ tx'.currentBalances = SettledBalances(accounts, index)
        /\ tx'.traderFlags = {}
  BY DEF BeginTrade
<1>2. globalIndex' = index /\ oraclePrice' = oraclePrice
  BY <1>1 DEF BeginTrade, StoreIndexes, chain
<1>3. \A a \in accounts : localIndexes'[a].timestamp = globalIndex'.timestamp
  BY <1>1, <1>2 DEF StoreIndexes
<1>4. \A a \in accounts : balances'[a] = SettledAccount(a, globalIndex')
  BY <1>1, <1>2 DEF SettledBalances
<1>5. QED
  BY <1>1, <1>2, <1>3, <1>4 DEF CloseoutInv

LEMMA BeginLiquidationInv ==
    ASSUME TypeOK, CloseoutInv,
           NEW liquidatee \in Account, NEW liquidator \in Account,
           NEW isBuy, NEW maxPosition \in MaxPosition,
           BeginLiquidation(liquidator, liquidatee, liquidator, isBuy, maxPosition)
    PROVE  TypeOK' /\ CloseoutInv'
<1> DEFINE accounts == {liquidatee, liquidator}
           settled == SettledAccount(liquidator, globalIndex')
           delta == maxPosition - settled.position
<1>1. /\ liquidator # liquidatee /\ BeginTrade(accounts) /\ isBuy = (delta > 0)
      /\ pending'.order = [amount |-> Abs(delta), isBuy |-> isBuy, maker |-> liquidatee,
                           taker |-> liquidator, before |-> settled, max |-> maxPosition]
      /\ insurance' = insurance
  BY DEF BeginLiquidation
<1>2. accounts \in SUBSET Account
  OBVIOUS
<1>3. TypeOK'
  BY <1>1, <1>2, BeginTradeType
<1>4. /\ tx'.accounts = accounts /\ tx'.traderFlags = {}
      /\ tx'.initialBalances = balances' /\ balances'[liquidator] = settled
      /\ pending'.order = NoOrder \/ ProxyOrder(pending.order)' => CloseoutInv'
  BY <1>1, <1>2, BeginCloseoutInv DEF CloseoutInv
<1>5. settled.position \in Int
  BY <1>3, <1>4 DEF TypeOK, Balance, Uint120
<1>6. maxPosition \in Int
  BY CloseoutsAssumption
<1>7. isBuy <=> maxPosition > settled.position
  <2>1. delta > 0 <=> maxPosition > settled.position
    BY <1>5, <1>6
  <2>2. QED
    BY <1>1, <2>1, Zenon
<1> HIDE DEF settled
<1>8. ProxyOrder(pending.order)'
  BY <1>1, <1>4, <1>6, <1>7 DEF ProxyOrder
<1>9. QED
  BY <1>3, <1>4, <1>8

\* The fee goes from the liquidator to the fund, which may be the liquidator.
LEMMA FeeMoves ==
    ASSUME TypeOK, insurance \in [fund: Fund, fee: Fees],
           NEW fee \in Nat, NEW liquidator \in Account, FeePaid(fee, liquidator)
    PROVE  /\ balances' \in [Account -> Balance]
           /\ balances'[liquidator].position = balances[liquidator].position
           /\ liquidator # insurance.fund =>
                /\ balances'[liquidator].margin = balances[liquidator].margin - fee
                /\ IsCollateralized(balances'[liquidator], oraclePrice, minCollateral)
                /\ balances'[insurance.fund].position = balances[insurance.fund].position
                /\ balances'[insurance.fund].margin
                     = Settled(balances[insurance.fund], localIndexes[insurance.fund],
                               globalIndex).margin + fee
           /\ \A a \in Account :
                a # liquidator /\ a # insurance.fund => balances'[a] = balances[a]
           /\ (/\ liquidator = insurance.fund
               /\ localIndexes[liquidator].timestamp = globalIndex.timestamp)
                => balances'[liquidator] = balances[liquidator]
           /\ UNCHANGED globalIndex /\ localIndexes' \in [Account -> Index]
<1> DEFINE paid == [balances EXCEPT ![liquidator].margin = @ - fee]
           fund == Settled(paid[insurance.fund], localIndexes[insurance.fund], globalIndex)
           funded == [fund EXCEPT !.margin = @ + fee]
<1>1. /\ Fits(paid[liquidator]) /\ Fits(fund) /\ Fits(funded)
      /\ IsCollateralized(paid[liquidator], oraclePrice, minCollateral)
      /\ balances' = [paid EXCEPT ![insurance.fund] = funded]
      /\ StoreIndexes({insurance.fund}, globalIndex)
  BY DEF FeePaid
<1>2. PICK f \in Account : f = insurance.fund
  BY CloseoutsAssumption
<1>3. PICK m \in Int, x \in Int : /\ m = balances[liquidator].margin
                                  /\ x = balances[liquidator].position
                                  /\ balances[liquidator] = [margin |-> m, position |-> x]
  <2>1. balances[liquidator] \in [margin: Int, position: Int]
    BY DEF TypeOK, Balance, Uint120
  <2>2. QED
    BY <2>1
<1>4. /\ paid[liquidator] = [margin |-> m - fee, position |-> x]
      /\ \A a \in Account \ {liquidator} : paid[a] = balances[a]
      /\ DOMAIN paid = Account
  BY <1>3 DEF TypeOK
<1> HIDE DEF paid
<1>5. paid[liquidator] \in Balance
  <2>1. paid[liquidator] \in [margin: Int, position: Int]
    BY <1>3, <1>4
  <2>2. QED
    BY <1>1, <2>1, AccountFits
<1>6. paid \in [Account -> Balance]
  <2>1. \A a \in Account : paid[a] \in Balance
    BY <1>4, <1>5 DEF TypeOK
  <2>2. paid = [a \in Account |-> paid[a]]
    BY <1>1, <1>4 DEF paid, TypeOK
  <2>3. QED
    BY <2>1, <2>2
<1>7. PICK n \in Int, y \in Int : fund = [margin |-> n, position |-> y] /\ y = paid[f].position
  <2>1. fund \in [margin: Int, position: Int] /\ fund.position = paid[f].position
    BY <1>2, <1>6, SettledType DEF TypeOK
  <2>2. QED
    BY <2>1
<1>8. funded = [margin |-> n + fee, position |-> y]
  BY <1>7
<1> HIDE DEF fund, funded
<1>9. funded \in Balance
  <2>1. funded \in [margin: Int, position: Int]
    BY <1>8
  <2>2. QED
    BY <1>1, <2>1, AccountFits
<1>10. /\ balances' \in [Account -> Balance]
       /\ balances'[f] = funded /\ \A a \in Account \ {f} : balances'[a] = paid[a]
  BY <1>1, <1>2, <1>6, <1>9
<1>11. UNCHANGED globalIndex /\ localIndexes' \in [Account -> Index]
  BY <1>1, StoreIndexesType DEF StoreIndexes, TypeOK
<1>12. CASE liquidator # f
  <2>1. balances'[liquidator] = [margin |-> m - fee, position |-> x]
    BY <1>4, <1>10, <1>12
  <2>2. IsCollateralized(balances'[liquidator], oraclePrice, minCollateral)
    BY <1>1, <1>4, <2>1
  <2>3. balances'[liquidator].position = x /\ balances'[liquidator].margin = m - fee
    BY <2>1
  <2>4. /\ balances'[f].position = balances[f].position
        /\ balances'[f].margin
             = Settled(balances[f], localIndexes[f], globalIndex).margin + fee
    <3>1. fund = Settled(balances[f], localIndexes[f], globalIndex)
      BY <1>2, <1>4, <1>12 DEF fund
    <3>2. balances'[f] = [margin |-> n + fee, position |-> y] /\ y = balances[f].position
      BY <1>4, <1>7, <1>8, <1>10, <1>12
    <3>3. fund.margin = n
      BY <1>7
    <3>4. QED
      BY <3>1, <3>2, <3>3
  <2>5. \A a \in Account : a # liquidator /\ a # f => balances'[a] = balances[a]
    BY <1>4, <1>10
  <2>6. QED
    BY <1>2, <1>3, <1>10, <1>11, <1>12, <2>2, <2>3, <2>4, <2>5
<1>13. CASE liquidator = f
  <2>1. balances'[liquidator].position = x
    BY <1>4, <1>7, <1>8, <1>10, <1>13
  <2>2. ASSUME localIndexes[liquidator].timestamp = globalIndex.timestamp
        PROVE  balances'[liquidator] = balances[liquidator]
    <3>1. fund = paid[liquidator]
      BY <1>2, <1>13, <2>2 DEF fund, Settled
    <3>2. n = m - fee /\ y = x
      BY <1>4, <1>7, <3>1
    <3>3. funded = [margin |-> m, position |-> x]
      <4>1. n + fee = m
        BY <3>2
      <4>2. QED
        BY <1>8, <3>2, <4>1
    <3>4. QED
      BY <1>3, <1>10, <1>13, <3>3
  <2>3. \A a \in Account : a # liquidator => balances'[a] = balances[a]
    BY <1>4, <1>10, <1>13
  <2>4. QED
    BY <1>2, <1>3, <1>10, <1>11, <1>13, <2>1, <2>2, <2>3
<1>14. QED
  BY <1>12, <1>13

\* The fee is a part of a profit.
LEMMA FeeType ==
    ASSUME insurance \in [fund: Fund, fee: Fees],
           NEW delta \in [margin: Int, position: Int], NEW price \in Nat
    PROVE  FeeAmount(delta, price) \in Nat
<1>1. PICK profit \in Int : profit = PositiveValue(delta, price) - NegativeValue(delta, price)
  BY ValuesAreNat
<1>2. PICK f \in Nat : f = insurance.fee
  BY CloseoutsAssumption
<1>3. CASE profit > 0
  <2>1. \A x \in Nat : x \div BASE \in Nat
    BY NatQuotient
  <2>2. profit * f \in Nat
    BY <1>3
  <2>3. ((profit * f) \div BASE) \div BASE \in Nat
    BY ONLY <2>1, <2>2
  <2>4. QED
    BY <1>1, <1>2, <1>3, <2>3 DEF FeeAmount
<1>4. CASE ~(profit > 0)
  BY <1>1, <1>4 DEF FeeAmount
<1>5. QED
  BY <1>3, <1>4

\* What the proxy does after its trade: nothing, or the payment of the fee.
Delta(liquidator) ==
    [margin |-> balances[liquidator].margin - pending.order.before.margin,
     position |-> balances[liquidator].position - pending.order.before.position]

LEMMA EndOfLiquidation ==
    ASSUME TypeOK, CloseoutInv, EndLiquidation
    PROVE  LET liquidator == pending.order.taker
               fee == FeeAmount(Delta(liquidator), oraclePrice)
           IN  /\ tx.active /\ ProxyOrder(pending.order) /\ tx.traderFlags # {}
               /\ liquidator \in tx.accounts /\ liquidator \in Account
               /\ FinalBalanceAllowed(liquidator)
               /\ fee \in Nat /\ Delta(liquidator) \in [margin: Int, position: Int]
               /\ pending.order.before \in [margin: Int, position: Int]
               /\ oraclePrice \in Nat
               /\ \/ fee = 0 /\ UNCHANGED storage
                  \/ fee > 0 /\ FeePaid(fee, liquidator)
<1>1. /\ tx.active /\ pending.order # NoOrder /\ tx.traderFlags # {}
      /\ \A a \in tx.accounts : FinalBalanceAllowed(a)
  BY DEF EndLiquidation
<1>2. ProxyOrder(pending.order)
  BY <1>1 DEF CloseoutInv
<1>3. PICK liquidator \in tx.accounts : liquidator = pending.order.taker
  BY <1>2 DEF ProxyOrder
<1>4. /\ liquidator \in Account
      /\ balances[liquidator] \in [margin: Int, position: Int]
      /\ tx.initialBalances[liquidator] \in [margin: Int, position: Int]
      /\ oraclePrice \in Nat
  <2>1. /\ tx.accounts \subseteq Account /\ tx.price \in Nat
        /\ balances \in [Account -> [margin: Int, position: Int]]
        /\ tx.initialBalances \in [Account -> Balance]
    BY <1>1, ActiveTransaction
  <2>2. oraclePrice = tx.price
    BY <1>1 DEF CloseoutInv
  <2>3. QED
    BY <2>1, <2>2 DEF Balance, Uint120
<1>5. pending.order.before \in [margin: Int, position: Int]
  BY <1>2, <1>3, <1>4 DEF ProxyOrder
<1>6. Delta(liquidator) \in [margin: Int, position: Int]
  <2>1. \A b, c \in [margin: Int, position: Int] :
          [margin |-> b.margin - c.margin, position |-> b.position - c.position]
            \in [margin: Int, position: Int]
    OBVIOUS
  <2>2. QED
    BY <1>4, <1>5, <2>1 DEF Delta
<1>7. FeeAmount(Delta(liquidator), oraclePrice) \in Nat
  BY <1>4, <1>6, FeeType DEF CloseoutInv
<1>8. \/ FeeAmount(Delta(liquidator), oraclePrice) = 0 /\ UNCHANGED storage
      \/ /\ FeeAmount(Delta(liquidator), oraclePrice) > 0
         /\ FeePaid(FeeAmount(Delta(liquidator), oraclePrice), liquidator)
  BY <1>3 DEF EndLiquidation, Delta
<1>9. FinalBalanceAllowed(liquidator)
  BY <1>1
<1>10. QED
  BY <1>1, <1>2, <1>3, <1>4, <1>5, <1>6, <1>7, <1>8, <1>9

LEMMA EndLiquidationInv ==
    ASSUME TypeOK, CloseoutInv, EndLiquidation
    PROVE  TypeOK' /\ CloseoutInv'
<1> DEFINE liquidator == pending.order.taker
           fee == FeeAmount(Delta(liquidator), oraclePrice)
<1>1. /\ liquidator \in Account /\ fee \in Nat
      /\ \/ fee = 0 /\ UNCHANGED storage
         \/ fee > 0 /\ FeePaid(fee, liquidator)
  BY EndOfLiquidation
<1> HIDE DEF fee, liquidator
<1>2. /\ tx' = NoTx /\ insurance' = insurance
      /\ UNCHANGED <<roles, settings, final, held, chain>>
  BY DEF EndLiquidation
<1>3. /\ balances' \in [Account -> Balance] /\ globalIndex' = globalIndex
      /\ localIndexes' \in [Account -> Index]
  <2>1. CASE UNCHANGED storage
    BY <2>1 DEF storage, TypeOK
  <2>2. CASE FeePaid(fee, liquidator)
    BY <1>1, <2>2, FeeMoves DEF CloseoutInv
  <2>3. QED
    BY <1>1, <2>1, <2>2
<1>4. TypeOK'
  BY <1>2, <1>3 DEF TypeOK, roles, settings, final, chain
<1>5. CloseoutInv'
  BY <1>2 DEF CloseoutInv, NoTx
<1>6. QED
  BY <1>4, <1>5

LEMMA CloseoutStep ==
    ASSUME TypeOK, CloseoutInv, [CloseoutsNext]_combinedVars
    PROVE  TypeOK' /\ CloseoutInv'
<1>1. ASSUME NEW sender \in Sender, NEW accounts \in Parties, BeginCloseouts(sender, accounts)
      PROVE  TypeOK' /\ CloseoutInv'
  <2>1. /\ accounts \in SUBSET Account /\ BeginTrade(accounts) /\ insurance' = insurance
        /\ pending'.order = NoOrder
    BY <1>1, CloseoutsAssumption DEF BeginCloseouts
  <2>2. QED
    BY <2>1, BeginTradeType, BeginCloseoutInv DEF CloseoutInv
<1>2. ASSUME NEW trade \in OrderTrades, OtherTrade(trade)
      PROVE  TypeOK' /\ CloseoutInv'
  <2>1. /\ AnyTrade(trade.maker, trade.taker, trade.result)
        /\ UNCHANGED <<insurance, pending>> /\ pending.order = NoOrder
    BY <1>2, OthersTradeType DEF OtherTrade, AnyTrade, closeoutVars
  <2>2. QED
    BY <2>1, AnyTradeType, AnyTradeInv
<1>3. ASSUME NEW maker \in Account, NEW taker \in Account, NEW amount \in Amount,
             NEW isBuy \in BOOLEAN, NEW allOrNothing \in BOOLEAN, pending.order = NoOrder,
             Liquidate(maker, taker, amount, isBuy, allOrNothing)
      PROVE  TypeOK' /\ CloseoutInv'
  <2>1. amount \in Nat /\ UNCHANGED <<insurance, pending>>
    BY <1>3 DEF Liquidate, closeoutVars
  <2>2. PICK c \in Nat : IsClosing(maker, taker, amount, isBuy, allOrNothing, 2, c)
    BY <1>3, <2>1, LiquidateCloses
  <2>3. QED
    BY <1>3, <2>1, <2>2, ClosingIsTrade, AnyTradeType, AnyTradeInv
<1>4. ASSUME NEW maker \in Account, NEW taker \in Account, NEW amount \in Amount,
             NEW isBuy \in BOOLEAN, NEW allOrNothing \in BOOLEAN, pending.order = NoOrder,
             Deleverage(maker, taker, amount, isBuy, allOrNothing)
      PROVE  TypeOK' /\ CloseoutInv'
  <2>1. amount \in Nat /\ UNCHANGED <<insurance, pending>>
    BY <1>4 DEF Deleverage
  <2>2. PICK c \in Nat : IsClosing(maker, taker, amount, isBuy, allOrNothing, 4, c)
    BY <1>4, <2>1, DeleverageCloses
  <2>3. QED
    BY <1>4, <2>1, <2>2, ClosingIsTrade, AnyTradeType, AnyTradeInv
<1>5. CASE EndCloseouts \/ RevertCloseouts
  <2>1. tx' = NoTx /\ insurance' = insurance
    BY <1>5 DEF EndCloseouts, EndTrade, RevertCloseouts, RevertTrade
  <2>2. CloseoutInv'
    BY <2>1 DEF CloseoutInv, NoTx
  <2>3. CASE EndCloseouts
    BY <2>2, <2>3 DEF EndCloseouts, EndTrade, TypeOK, storage, roles, settings, final, chain
  <2>4. CASE RevertCloseouts
    BY <2>2, <2>4, RevertTradeType DEF RevertCloseouts
  <2>5. QED
    BY <1>5, <2>3, <2>4
<1>6. ASSUME NEW liquidatee \in Account, NEW liquidator \in Account, NEW isBuy \in BOOLEAN,
             NEW maxPosition \in MaxPosition,
             BeginLiquidation(liquidator, liquidatee, liquidator, isBuy, maxPosition)
      PROVE  TypeOK' /\ CloseoutInv'
  BY <1>6, BeginLiquidationInv
<1>7. CASE ProxyTrade
  <2>1. PICK c \in Nat : IsClosing(pending.order.maker, pending.order.taker,
                                   pending.order.amount, pending.order.isBuy, FALSE, 2, c)
    BY <1>7, ProxyTradeBetween
  <2>2. UNCHANGED <<insurance, pending>>
    BY <1>7 DEF ProxyTrade, Liquidate, closeoutVars
  <2>3. Between(balances'[pending.order.taker].position, pending.order.before.position,
                pending.order.max)
    BY <1>7, ProxyTradeBetween
  <2>4. AnyTrade(pending.order.maker, pending.order.taker,
                 ClosingTrade(balances[pending.order.maker], c, pending.order.isBuy, 2))
    BY <2>1, ClosingIsTrade
  <2>5. QED
    BY <2>2, <2>3, <2>4, AnyTradeType, AnyTradeInv
<1>8. CASE EndLiquidation
  BY <1>8, EndLiquidationInv
<1>9. ASSUME UNCHANGED vars, insurance' \in [fund: Fund, fee: Fees],
             ~tx.active \/ UNCHANGED <<insurance, pending>>
      PROVE  TypeOK' /\ CloseoutInv'
  <2>1. /\ UNCHANGED <<balances, localIndexes, globalIndex, globalOperators, localOperators,
                       oracle, funder, minCollateral, finalSettlement, finalPrice, held,
                       oraclePrice, now, tx>>
    BY <1>9 DEF vars, storage, roles, settings, final, chain
  <2>2. TypeOK'
    BY <2>1 DEF TypeOK
  <2>3. CASE ~tx.active
    BY <1>9, <2>1, <2>2, <2>3 DEF CloseoutInv
  <2>4. CASE UNCHANGED <<insurance, pending>>
    BY <2>1, <2>2, <2>4 DEF CloseoutInv, ProxyOrder
  <2>5. QED
    BY <1>9, <2>3, <2>4
<1>10. CASE \/ \E a \in Account : Mark(a) \/ Unmark(a)
            \/ \E operator \in Sender : SetDeleveragingOperator(operator)
            \/ \E fund \in Fund, fee \in Fees : SetInsurance(fund, fee)
  <2>1. UNCHANGED vars /\ ~tx.active /\ insurance' \in [fund: Fund, fee: Fees]
    BY <1>10 DEF Mark, Unmark, SetDeleveragingOperator, SetInsurance, CloseoutInv
  <2>2. QED
    BY <1>9, <2>1
<1>11. CASE (Tick \/ \E price \in Feed[oracle] : PriceMoves(price)) /\ UNCHANGED closeoutVars
  <2>1. ChainNext /\ tx' = tx /\ ~tx.active /\ insurance' = insurance
    BY <1>11 DEF ChainNext, Tick, PriceMoves, closeoutVars
  <2>2. QED
    BY <2>1, ChainType DEF CloseoutInv
<1>12. CASE UNCHANGED combinedVars
  BY <1>9, <1>12 DEF combinedVars, closeoutVars, CloseoutInv
<1>13. QED
  BY <1>1, <1>2, <1>3, <1>4, <1>5, <1>6, <1>7, <1>8, <1>10, <1>11, <1>12 DEF CloseoutsNext

LEMMA CloseoutsInitially ==
    ASSUME CloseoutsInit
    PROVE  TypeOK /\ CloseoutInv
<1>1. tx = NoTx /\ insurance \in [fund: Fund, fee: Fees]
  BY DEF CloseoutsInit
<1>2. balances \in [Account -> Balance] /\ held \in 0..TokenSupply
  BY CloseoutsAssumption DEF CloseoutsInit
<1>3. localIndexes \in [Account -> Index] /\ globalIndex \in Index
  BY DEF CloseoutsInit, Index
<1>4. oraclePrice \in Price
  BY DEF CloseoutsInit, Price
<1>5. /\ globalOperators \subseteq Operator /\ localOperators \in [Account -> SUBSET Address]
      /\ oracle \in Oracle /\ funder \in Funder /\ minCollateral \in MinCollateral
      /\ finalSettlement \in BOOLEAN /\ finalPrice \in Price \cup {0}
      /\ now \in 1..MaxTime /\ tx \in Transaction \cup {NoTx}
  <2>1. /\ globalOperators = Operator /\ localOperators = [a \in Account |-> {}]
        /\ oracle \in Oracle /\ funder \in Funder /\ minCollateral \in MinCollateral
        /\ finalSettlement = FALSE /\ finalPrice = 0 /\ now = 1 /\ tx = NoTx
    BY DEF CloseoutsInit
  <2>2. now \in 1..MaxTime
    BY <2>1
  <2>3. localOperators \in [Account -> SUBSET Address]
    BY ONLY <2>1
  <2>4. QED
    BY ONLY <2>1, <2>2, <2>3
<1>6. TypeOK
  BY <1>2, <1>3, <1>4, <1>5 DEF TypeOK
<1>7. QED
  BY <1>1, <1>6 DEF CloseoutInv, NoTx

LEMMA CloseoutsInvariant == CloseoutsSpec => [](TypeOK /\ CloseoutInv)
<1>1. CloseoutsInit => TypeOK /\ CloseoutInv
  BY CloseoutsInitially
<1>2. TypeOK /\ CloseoutInv /\ [CloseoutsNext]_combinedVars => (TypeOK /\ CloseoutInv)'
  BY CloseoutStep
<1>3. QED
  BY <1>1, <1>2, PTL DEF CloseoutsSpec

-----------------------------------------------------------------------------
(* What a closeout does to its maker.                                      *)

Closes(maker, taker) ==
    \E c \in Nat, amount \in Nat, isBuy \in BOOLEAN, allOrNothing \in BOOLEAN, flag \in {2, 4} :
        IsClosing(maker, taker, amount, isBuy, allOrNothing, flag, c)

LEMMA ClosesOutCloses ==
    ASSUME TypeOK, CloseoutInv, NEW maker, NEW taker,
           ClosesOut(maker, taker)
    PROVE  Closes(maker, taker)
<1>1. CASE Deleverages(maker, taker)
  <2>1. PICK amount \in Amount, isBuy \in BOOLEAN, allOrNothing \in BOOLEAN :
          Deleverage(maker, taker, amount, isBuy, allOrNothing)
    BY <1>1 DEF Deleverages
  <2>2. amount \in Nat
    OBVIOUS
  <2>3. PICK c \in Nat : IsClosing(maker, taker, amount, isBuy, allOrNothing, 4, c)
    BY <2>1, <2>2, DeleverageCloses
  <2>4. QED
    BY <2>2, <2>3 DEF Closes
<1>2. CASE ~Deleverages(maker, taker)
  <2>1. PICK amount \in Amount \cup {pending.order.amount}, isBuy \in BOOLEAN,
             allOrNothing \in BOOLEAN : Liquidate(maker, taker, amount, isBuy, allOrNothing)
    BY <1>2 DEF ClosesOut
  <2>2. tx.active
    BY <2>1 DEF Liquidate
  <2>3. pending.order.amount \in Nat
    <3>1. CASE pending.order = NoOrder
      BY <3>1 DEF NoOrder
    <3>2. CASE ProxyOrder(pending.order)
      <4>1. tx.initialBalances[pending.order.taker] \in Balance
        BY <2>2, <3>2, ActiveTransaction DEF ProxyOrder
      <4>2. pending.order.before \in Balance /\ pending.order.max \in Int
        BY <3>2, <4>1 DEF ProxyOrder
      <4>3. pending.order.max - pending.order.before.position \in Int
        BY <4>2 DEF Balance, Uint120
      <4>4. QED
        BY <3>2, <4>3, AbsIsNat DEF ProxyOrder
    <3>3. QED
      BY <2>2, <3>1, <3>2 DEF CloseoutInv
  <2>4. amount \in Nat
    BY <2>1, <2>3
  <2>5. PICK c \in Nat : IsClosing(maker, taker, amount, isBuy, allOrNothing, 2, c)
    BY <2>1, <2>4, LiquidateCloses
  <2>6. QED
    BY <2>4, <2>5 DEF Closes
<1>3. QED
  BY <1>1, <1>2

LEMMA ClosedLeft ==
    ASSUME TypeOK, CloseoutInv, NEW maker, NEW taker, maker # taker, Closes(maker, taker)
    PROVE  /\ tx.active /\ maker \in tx.accounts /\ maker \in Account
           /\ balances[maker] \in [margin: Int, position: Int]
           /\ balances'[maker] \in [margin: Int, position: Int]
           /\ tx.price \in Nat /\ minCollateral \in Nat
           /\ NegativeValue(balances[maker], tx.price) # 0
           /\ LongLeft(balances[maker], balances'[maker])
                \/ ShortLeft(balances[maker], balances'[maker])
           /\ tx'.price = tx.price /\ tx'.initialBalances = tx.initialBalances
           /\ tx'.currentBalances[maker] = balances'[maker]
           /\ minCollateral' = minCollateral
<1>1. PICK c \in Nat, amount \in Nat, isBuy \in BOOLEAN, allOrNothing \in BOOLEAN, flag \in {2, 4} :
        IsClosing(maker, taker, amount, isBuy, allOrNothing, flag, c)
  BY DEF Closes
<1> DEFINE trade == ClosingTrade(balances[maker], c, isBuy, flag)
<1>2. PICK trader \in Operator : TradeStep(trader, maker, taker, trade)
  BY <1>1 DEF IsClosing
<1> HIDE DEF trade
<1>3. /\ tx.active /\ maker \in tx.accounts /\ balances'[maker] = MakerAfter(balances[maker], trade)
      /\ tx'.price = tx.price /\ tx'.initialBalances = tx.initialBalances
      /\ tx'.currentBalances[maker] = balances'[maker]
      /\ minCollateral' = minCollateral
  BY <1>2, StepOfTwo
<1>4. /\ balances[maker] \in [margin: Int, position: Int] /\ maker \in Account
      /\ tx.price \in Nat /\ minCollateral \in Nat
  BY <1>3, ActiveTransaction
<1>5. /\ c \in 0..Abs(balances[maker].position)
      /\ MayClose(balances[maker], amount, isBuy, allOrNothing)
      /\ NegativeValue(balances[maker], tx.price) # 0
  BY <1>1 DEF IsClosing
<1>6. LET after == MakerAfter(balances[maker], trade)
      IN  /\ after \in [margin: Int, position: Int]
          /\ LongLeft(balances[maker], after) \/ ShortLeft(balances[maker], after)
  BY <1>4, <1>5, ClosingLeaves DEF trade
<1>7. QED
  BY <1>3, <1>4, <1>5, <1>6

\* Closing out a part of an account, for any price, requirement and amounts and however
\* the division rounds, leaves the rest covered no worse than all of it was, smaller and on
\* the same side.
THEOREM CloseoutsHurtNobody == CloseoutsSpec => CloseoutNeverHurts
<1> DEFINE A == \A maker, taker \in Traded :
                  maker # taker /\ ClosesOut(maker, taker) =>
                    LET before == balances[maker]
                        after == balances'[maker]
                    IN  /\ Covered(before, after, tx.price)
                        /\ Abs(after.position) <= Abs(before.position)
                        /\ after.position * before.position >= 0
                        /\ after.position = 0 => after.margin = 0
<1>1. TypeOK /\ CloseoutInv => A
  <2> SUFFICES ASSUME TypeOK, CloseoutInv, NEW maker \in Traded, NEW taker \in Traded,
                      maker # taker, ClosesOut(maker, taker)
               PROVE  LeftInOrder(balances[maker], balances'[maker], tx.price)
    BY DEF LeftInOrder
  <2>1. Closes(maker, taker)
    BY ClosesOutCloses
  <2>2. QED
    BY <2>1, ClosedLeft, LongIsCovered, ShortIsCovered
<1> HIDE DEF A
<1>2. CloseoutsSpec => [][A]_combinedVars
  BY <1>1, CloseoutsInvariant, PTL
<1>3. [][A]_combinedVars <=> CloseoutNeverHurts
  BY DEF A, CloseoutNeverHurts
<1>4. QED
  BY <1>2, <1>3

\* The ledger's own check accepts the maker of a transaction's first closeout, unless the
\* account had nothing to be covered by.
THEOREM FirstCloseoutIsAccepted == CloseoutsSpec => CloseoutsAccepted
<1> DEFINE A == \A maker, taker \in Traded :
                  maker # taker /\ tx.traderFlags = {} /\ ClosesOut(maker, taker)
                  => \/ FinalBalanceAllowed(maker)'
                     \/ PositiveValue(balances[maker], tx.price) = 0
<1>1. TypeOK /\ CloseoutInv => A
  <2> SUFFICES ASSUME TypeOK, CloseoutInv, NEW maker \in Traded, NEW taker \in Traded,
                      maker # taker, tx.traderFlags = {}, ClosesOut(maker, taker),
                      PositiveValue(balances[maker], tx.price) # 0
               PROVE  FinalBalanceAllowed(maker)'
    OBVIOUS
  <2>1. Closes(maker, taker)
    BY ClosesOutCloses
  <2> DEFINE before == balances[maker]
             after == balances'[maker]
  <2>2. /\ before \in [margin: Int, position: Int] /\ after \in [margin: Int, position: Int]
        /\ tx.price \in Nat /\ minCollateral \in Nat
        /\ NegativeValue(before, tx.price) # 0
        /\ LongLeft(before, after) \/ ShortLeft(before, after)
    BY <2>1, ClosedLeft
  <2>3. /\ tx.active /\ maker \in tx.accounts
        /\ tx'.price = tx.price /\ tx'.initialBalances = tx.initialBalances
        /\ tx'.currentBalances[maker] = after /\ minCollateral' = minCollateral
    BY <2>1, ClosedLeft
  <2>4. tx.initialBalances[maker] = before
    BY <2>3 DEF CloseoutInv
  <2> HIDE DEF before, after
  <2>5. IsCollateralized(after, tx.price, minCollateral) \/ Improved(before, after, tx.price)
    BY <2>2, LeftIsAccepted DEF before
  <2>6. QED
    BY <2>3, <2>4, <2>5 DEF FinalBalanceAllowed
<1> HIDE DEF A
<1>2. CloseoutsSpec => [][A]_combinedVars
  BY <1>1, CloseoutsInvariant, PTL
<1>3. [][A]_combinedVars <=> CloseoutsAccepted
  BY DEF A, CloseoutsAccepted
<1>4. QED
  BY <1>2, <1>3

\* Only an account that was under water when the transaction began, its funding settled, is
\* ever deleveraged, whenever and with whatever balance it was marked.
THEOREM OnlyUnderwaterDeleveraged == CloseoutsSpec => DeleveragedWereUnderwater
<1> DEFINE A == \A maker, taker \in Traded : Deleverages(maker, taker)
                  => Underwater(tx.initialBalances[maker], tx.price)
<1>1. CloseoutInv => A
  <2> SUFFICES ASSUME CloseoutInv, NEW maker \in Traded, NEW taker \in Traded,
                      Deleverages(maker, taker)
               PROVE  Underwater(tx.initialBalances[maker], tx.price)
    OBVIOUS
  <2>1. /\ tx.active /\ tx.traderFlags = {} /\ Underwater(balances[maker], tx.price)
        /\ maker \in tx.accounts
    BY DEF Deleverages, Deleverage, FirstOfTransaction, TradeStep
  <2>2. tx.initialBalances[maker] = balances[maker]
    BY <2>1 DEF CloseoutInv
  <2>3. QED
    BY <2>1, <2>2
<1> HIDE DEF A
<1>2. CloseoutsSpec => [][A]_combinedVars
  BY <1>1, CloseoutsInvariant, PTL
<1>3. [][A]_combinedVars <=> DeleveragedWereUnderwater
  BY DEF A, DeleveragedWereUnderwater
<1>4. QED
  BY <1>2, <1>3

\* Deleveraging takes from both positions, and from neither more than there is.
THEOREM DeleveragingOnlyCloses == CloseoutsSpec => DeleveragingCloses
<1> DEFINE A == \A maker, taker \in Traded : Deleverages(maker, taker) =>
                  \A a \in {maker, taker} :
                    /\ Abs(balances'[a].position) <= Abs(balances[a].position)
                    /\ balances'[a].position * balances[a].position >= 0
<1>1. TypeOK /\ CloseoutInv => A
  <2> SUFFICES ASSUME TypeOK, CloseoutInv, NEW maker \in Traded, NEW taker \in Traded,
                      Deleverages(maker, taker), NEW a \in {maker, taker}
               PROVE  /\ Abs(balances'[a].position) <= Abs(balances[a].position)
                      /\ balances'[a].position * balances[a].position >= 0
    OBVIOUS
  <2>1. PICK amount \in Amount, isBuy \in BOOLEAN, allOrNothing \in BOOLEAN :
          Deleverage(maker, taker, amount, isBuy, allOrNothing)
    BY DEF Deleverages
  <2>2. amount \in Nat
    OBVIOUS
  <2>3. PICK c \in Nat : /\ IsClosing(maker, taker, amount, isBuy, allOrNothing, 4, c)
                         /\ c <= Abs(balances[taker].position)
    BY <2>1, <2>2, DeleverageCloses
  <2> DEFINE trade == ClosingTrade(balances[maker], c, isBuy, 4)
  <2>4. PICK trader \in Operator : TradeStep(trader, maker, taker, trade)
    BY <2>3 DEF IsClosing
  <2>5. trade.positionAmount = c /\ trade.isBuy = isBuy
    BY DEF ClosingTrade
  <2> HIDE DEF trade
  <2>6. /\ tx.active /\ maker \in tx.accounts /\ taker \in tx.accounts
        /\ maker = taker => balances' = balances
        /\ maker # taker => /\ balances'[maker] = MakerAfter(balances[maker], trade)
                            /\ balances'[taker] = TakerAfter(balances[taker], trade)
    BY <2>4, StepOfTwo
  <2>7. maker # taker
    BY <2>6 DEF Traded
  <2>8. /\ balances[maker] \in [margin: Int, position: Int]
        /\ balances[taker] \in [margin: Int, position: Int]
    BY <2>6, ActiveTransaction
  <2>9. PICK x \in Int, y \in Int : x = balances[maker].position /\ y = balances[taker].position
    BY <2>8
  <2>10. /\ isBuy <=> x > 0
         /\ x # 0 /\ c <= Abs(x) /\ c <= Abs(y)
    <3>1. MayClose(balances[maker], amount, isBuy, allOrNothing) /\ c \in 0..Abs(x)
      BY <2>3, <2>9 DEF IsClosing
    <3>2. x # 0 /\ isBuy = (x > 0)
      BY <2>9, <3>1 DEF MayClose
    <3>3. c <= Abs(x)
      BY <3>1, AbsIsNat
    <3>4. QED
      BY <2>3, <2>9, <3>2, <3>3, Zenon
  <2>11. x * y <= 0
    BY <2>1, <2>9 DEF Deleverage
  <2>12. x > 0 => y <= 0
    <3>1. ASSUME x > 0, y > 0
          PROVE  FALSE
      <4>1. x * y > 0
        BY <3>1
      <4>2. QED
        BY <2>11, <4>1
    <3>2. QED
      BY <3>1
  <2>13. x < 0 => y >= 0
    <3>1. ASSUME x < 0, y < 0
          PROVE  FALSE
      <4>1. (-x) * (-y) > 0 /\ (-x) * (-y) = x * y
        BY <3>1
      <4>2. QED
        BY <2>11, <4>1
    <3>2. QED
      BY <3>1
  <2>14. /\ balances'[maker].position = IF x > 0 THEN x - c ELSE x + c
         /\ balances'[taker].position = IF x > 0 THEN y + c ELSE y - c
    <3>1. CASE x > 0
      BY <2>5, <2>6, <2>7, <2>9, <2>10, <3>1 DEF MakerAfter, TakerAfter
    <3>2. CASE ~(x > 0)
      <4>1. ~isBuy
        BY <2>10, <3>2
      <4>2. QED
        BY <2>5, <2>6, <2>7, <2>9, <3>2, <4>1 DEF MakerAfter, TakerAfter
    <3>3. QED
      BY <3>1, <3>2
  <2>15. \A s, t \in Int : (s >= 0 /\ t >= 0) \/ (s <= 0 /\ t <= 0) => s * t >= 0
    BY SameSign
  <2>16. CASE a = maker
    <3>1. PICK z \in Int : z = balances'[maker].position
      BY <2>14
    <3>2. /\ Abs(z) <= Abs(x)
          /\ (z >= 0 /\ x >= 0) \/ (z <= 0 /\ x <= 0)
      BY <2>10, <2>14, <3>1 DEF Abs
    <3>3. QED
      BY <2>9, <2>15, <2>16, <3>1, <3>2
  <2>17. CASE a = taker
    <3>1. PICK z \in Int : z = balances'[taker].position
      BY <2>14
    <3>2. /\ Abs(z) <= Abs(y)
          /\ (z >= 0 /\ y >= 0) \/ (z <= 0 /\ y <= 0)
      BY <2>10, <2>12, <2>13, <2>14, <3>1 DEF Abs
    <3>3. QED
      BY <2>9, <2>15, <2>17, <3>1, <3>2
  <2>18. QED
    BY <2>16, <2>17
<1> HIDE DEF A
<1>2. CloseoutsSpec => [][A]_combinedVars
  BY <1>1, CloseoutsInvariant, PTL
<1>3. [][A]_combinedVars <=> DeleveragingCloses
  BY DEF A, DeleveragingCloses
<1>4. QED
  BY <1>2, <1>3

-----------------------------------------------------------------------------
(* The proxy's liquidator.                                                 *)

NetWorth(b, price) == PositiveValue(b, price) - NegativeValue(b, price)

LEMMA NetWorthIs ==
    ASSUME NEW b \in [margin: Int, position: Int], NEW price \in Nat
    PROVE  /\ NetWorth(b, price) = b.margin * BASE + b.position * price
           /\ NetWorth(b, price) \in Int
<1>1. PICK m \in Int, x \in Int : m = b.margin /\ x = b.position
  OBVIOUS
<1>2. ASSUME NEW k \in Int, NEW u \in Nat
      PROVE  /\ (IF k > 0 THEN k * u ELSE 0) - (IF k < 0 THEN -k * u ELSE 0) = k * u
             /\ (IF k > 0 THEN k * u ELSE 0) \in Int /\ (IF k < 0 THEN -k * u ELSE 0) \in Int
             /\ k * u \in Int
  <2>1. k * u \in Int /\ -k * u = -(k * u)
    OBVIOUS
  <2>2. CASE k = 0
    BY <2>2
  <2>3. CASE k # 0
    BY <2>1, <2>3
  <2>4. QED
    BY <2>2, <2>3
<1>3. /\ (IF m > 0 THEN m * BASE ELSE 0) - (IF m < 0 THEN -m * BASE ELSE 0) = m * BASE
      /\ (IF m > 0 THEN m * BASE ELSE 0) \in Int /\ (IF m < 0 THEN -m * BASE ELSE 0) \in Int
      /\ m * BASE \in Int
  BY <1>2
<1>4. /\ (IF x > 0 THEN x * price ELSE 0) - (IF x < 0 THEN -x * price ELSE 0) = x * price
      /\ (IF x > 0 THEN x * price ELSE 0) \in Int /\ (IF x < 0 THEN -x * price ELSE 0) \in Int
      /\ x * price \in Int
  BY <1>2
<1>5. \A p1, p2, n1, n2, s, t \in Int :
        p1 - n1 = s /\ p2 - n2 = t => (p1 + p2) - (n1 + n2) = s + t
  OBVIOUS
<1>6. NetWorth(b, price) = ((IF m > 0 THEN m * BASE ELSE 0) + (IF x > 0 THEN x * price ELSE 0))
                         - ((IF m < 0 THEN -m * BASE ELSE 0) + (IF x < 0 THEN -x * price ELSE 0))
  BY <1>1 DEF NetWorth, PositiveValue, NegativeValue
<1>7. NetWorth(b, price) = m * BASE + x * price
  BY ONLY <1>3, <1>4, <1>5, <1>6
<1>8. m * BASE + x * price \in Int
  BY <1>3, <1>4
<1>9. QED
  BY <1>1, <1>7, <1>8

\* A fee is at most half of the profit it is taken of.
LEMMA FeeIsHalf ==
    ASSUME NEW profit \in Nat, NEW f \in Nat, 2 * f <= BASE
    PROVE  LET fee == ((profit * f) \div BASE) \div BASE
           IN  fee \in Nat /\ 2 * (fee * BASE) <= profit
<1>1. PICK e \in Nat \ {0} : e = BASE
  OBVIOUS
<1>2. PICK k \in Nat : k = profit * f
  OBVIOUS
<1>3. PICK q \in Nat : q = k \div e /\ e * q <= k
  <2>1. k \div e \in Nat
    BY NatQuotient
  <2>2. e * (k \div e) <= k
    BY Division
  <2>3. QED
    BY <2>1, <2>2
<1>4. PICK fee \in Nat : fee = q \div e /\ e * fee <= q
  <2>1. q \div e \in Nat
    BY NatQuotient
  <2>2. e * (q \div e) <= q
    BY Division
  <2>3. QED
    BY <2>1, <2>2
<1>5. e * (2 * q) <= e * profit
  <2>1. (2 * f) * profit <= e * profit
    <3>1. 2 * f \in Nat /\ 2 * f <= e
      BY <1>1
    <3>2. QED
      BY <3>1, NatOrder
  <2>2. (2 * f) * profit = 2 * k
    BY <1>2
  <2>3. e * (2 * q) = 2 * (e * q) /\ e * q \in Int /\ e * profit \in Int
    OBVIOUS
  <2>4. QED
    BY <1>3, <2>1, <2>2, <2>3
<1>6. 2 * q <= profit
  <2>1. 2 * q \in Int
    OBVIOUS
  <2>2. QED
    BY <1>5, <2>1, Cancellation
<1>7. 2 * (fee * e) <= profit
  <2>1. fee * e = e * fee /\ fee * e \in Int
    OBVIOUS
  <2>2. QED
    BY <1>4, <1>6, <2>1
<1>8. fee = ((profit * f) \div BASE) \div BASE
  BY <1>1, <1>2, <1>3, <1>4
<1>9. QED
  BY <1>1, <1>7, <1>8

LEMMA LiquidatorPays ==
    ASSUME TypeOK, CloseoutInv, EndLiquidation
    PROVE  LET liquidator == pending.order.taker
               before == pending.order.before
               profit == NetWorth(balances[liquidator], oraclePrice)
                           - NetWorth(before, oraclePrice)
           IN  \/ balances'[liquidator] = balances[liquidator]
               \/ /\ liquidator # insurance.fund
                  /\ IsCollateralized(balances'[liquidator], oraclePrice, minCollateral)
                  /\ balances'[liquidator].position = balances[liquidator].position
                  /\ 2 * (NetWorth(balances'[liquidator], oraclePrice)
                            - NetWorth(before, oraclePrice)) >= profit
<1> DEFINE liquidator == pending.order.taker
           fee == FeeAmount(Delta(liquidator), oraclePrice)
           b == balances[liquidator]
           c == pending.order.before
           a == balances'[liquidator]
           profit == NetWorth(b, oraclePrice) - NetWorth(c, oraclePrice)
<1>1. /\ tx.active /\ liquidator \in tx.accounts /\ liquidator \in Account
      /\ fee \in Nat /\ Delta(liquidator) \in [margin: Int, position: Int]
      /\ c \in [margin: Int, position: Int] /\ oraclePrice \in Nat
      /\ \/ fee = 0 /\ UNCHANGED storage
         \/ fee > 0 /\ FeePaid(fee, liquidator)
  BY EndOfLiquidation
<1>2. b \in [margin: Int, position: Int]
  BY <1>1, ActiveTransaction
<1>3. CASE fee = 0 /\ UNCHANGED storage
  BY <1>3 DEF storage
<1>4. CASE fee > 0 /\ FeePaid(fee, liquidator)
  <2>1. /\ balances' \in [Account -> Balance]
        /\ a.position = b.position
        /\ liquidator # insurance.fund =>
             /\ a.margin = b.margin - fee
             /\ IsCollateralized(a, oraclePrice, minCollateral)
        /\ (/\ liquidator = insurance.fund
            /\ localIndexes[liquidator].timestamp = globalIndex.timestamp) => a = b
    <3>1. insurance \in [fund: Fund, fee: Fees]
      BY DEF CloseoutInv
    <3>2. PICK l \in Account, paid \in Nat :
            l = liquidator /\ paid = fee /\ FeePaid(paid, l)
      BY <1>1, <1>4
    <3>3. /\ balances' \in [Account -> Balance]
          /\ balances'[l].position = balances[l].position
          /\ l # insurance.fund =>
               /\ balances'[l].margin = balances[l].margin - paid
               /\ IsCollateralized(balances'[l], oraclePrice, minCollateral)
          /\ (l = insurance.fund /\ localIndexes[l].timestamp = globalIndex.timestamp)
               => balances'[l] = balances[l]
      BY <3>1, <3>2, FeeMoves
    <3>4. QED
      BY <3>2, <3>3
  <2>2. CASE liquidator = insurance.fund
    <3>1. localIndexes[liquidator].timestamp = globalIndex.timestamp
      BY <1>1 DEF CloseoutInv
    <3>2. QED
      BY <2>1, <2>2, <3>1
  <2>3. CASE liquidator # insurance.fund
    <3>1. a \in [margin: Int, position: Int]
      BY <1>1, <2>1 DEF Balance, Uint120
    <3>2. PICK bm \in Int, bp \in Int, cm \in Int, cp \in Int, p \in Nat :
            /\ bm = b.margin /\ bp = b.position /\ cm = c.margin /\ cp = c.position
            /\ p = oraclePrice
      BY <1>1, <1>2
    <3>3. Delta(liquidator) = [margin |-> bm - cm, position |-> bp - cp]
      BY <3>2 DEF Delta
    <3>4. /\ NetWorth(b, p) = bm * BASE + bp * p
          /\ NetWorth(c, p) = cm * BASE + cp * p
          /\ NetWorth(a, p) = (bm - fee) * BASE + bp * p
          /\ NetWorth(Delta(liquidator), p) = (bm - cm) * BASE + (bp - cp) * p
      <4>1. /\ NetWorth(b, p) = b.margin * BASE + b.position * p
            /\ NetWorth(c, p) = c.margin * BASE + c.position * p
            /\ NetWorth(a, p) = a.margin * BASE + a.position * p
            /\ NetWorth(Delta(liquidator), p)
                 = Delta(liquidator).margin * BASE + Delta(liquidator).position * p
        BY <1>1, <1>2, <3>1, NetWorthIs
      <4>2. Delta(liquidator).margin = bm - cm /\ Delta(liquidator).position = bp - cp
        BY <3>3
      <4>3. a.margin = bm - fee /\ a.position = bp
        BY <2>1, <2>3, <3>2
      <4>4. QED
        BY <3>2, <4>1, <4>2, <4>3
    <3>5. PICK gain \in Int : gain = NetWorth(Delta(liquidator), p)
      BY <1>1, NetWorthIs
    <3>6. fee = IF gain > 0 THEN ((gain * insurance.fee) \div BASE) \div BASE ELSE 0
      BY <3>2, <3>5 DEF FeeAmount, NetWorth
    <3>7. gain > 0
      BY <1>4, <3>6
    <3>8. 2 * (fee * BASE) <= gain
      <4>1. PICK f \in Nat : f = insurance.fee /\ 2 * f <= BASE
        BY CloseoutsAssumption DEF CloseoutInv
      <4>2. gain \in Nat
        BY <3>7
      <4>3. QED
        BY <3>6, <3>7, <4>1, <4>2, FeeIsHalf
    <3> HIDE DEF fee
    <3>9. /\ NetWorth(b, p) - NetWorth(c, p) = gain
          /\ NetWorth(a, p) - NetWorth(c, p) = gain - fee * BASE
      <4>1. /\ bm * BASE \in Int /\ cm * BASE \in Int /\ bp * p \in Int /\ cp * p \in Int
            /\ fee * BASE \in Int
        BY <1>1
      <4>2. /\ (bm - cm) * BASE = bm * BASE - cm * BASE
            /\ (bp - cp) * p = bp * p - cp * p
            /\ (bm - fee) * BASE = bm * BASE - fee * BASE
        BY <1>1
      <4>3. QED
        BY <3>4, <3>5, <4>1, <4>2
    <3>10. 2 * (NetWorth(a, p) - NetWorth(c, p)) >= NetWorth(b, p) - NetWorth(c, p)
      <4>1. PICK k \in Int : k = fee * BASE
        BY <1>1
      <4>2. QED
        BY <3>8, <3>9, <4>1
    <3>11. QED
      BY <2>1, <2>3, <3>2, <3>10
  <2>4. QED
    BY <2>2, <2>3
<1>5. QED
  BY <1>1, <1>3, <1>4

\* Whoever liquidates through the proxy ends between its position and the one it named,
\* keeps at least half of the profit, and is collateralized or covered no worse than before,
\* the fee paid.
THEOREM LiquidatorStaysSafe == CloseoutsSpec => LiquidatorIsSafe
<1> DEFINE A == EndLiquidation =>
                  LET liquidator == pending.order.taker
                      before == pending.order.before
                      after == balances'[liquidator]
                      Worth(balance) == PositiveValue(balance, oraclePrice)
                                          - NegativeValue(balance, oraclePrice)
                      profit == Worth(balances[liquidator]) - Worth(before)
                  IN  /\ IF before.position < pending.order.max
                         THEN after.position \in before.position..pending.order.max
                         ELSE after.position \in pending.order.max..before.position
                      /\ liquidator # insurance.fund /\ profit > 0
                           => 2 * (Worth(after) - Worth(before)) >= profit
                      /\ \/ IsCollateralized(after, oraclePrice, minCollateral)
                         \/ Covered(before, after, oraclePrice)
<1>1. TypeOK /\ CloseoutInv => A
  <2> SUFFICES ASSUME TypeOK, CloseoutInv, EndLiquidation
               PROVE  LET liquidator == pending.order.taker
                          before == pending.order.before
                          after == balances'[liquidator]
                          profit == NetWorth(balances[liquidator], oraclePrice)
                                      - NetWorth(before, oraclePrice)
                      IN  /\ Between(after.position, before.position, pending.order.max)
                          /\ liquidator # insurance.fund /\ profit > 0
                               => 2 * (NetWorth(after, oraclePrice)
                                         - NetWorth(before, oraclePrice)) >= profit
                          /\ \/ IsCollateralized(after, oraclePrice, minCollateral)
                             \/ Covered(before, after, oraclePrice)
    BY DEF NetWorth, Between
  <2> DEFINE liquidator == pending.order.taker
             before == pending.order.before
             after == balances'[liquidator]
             profit == NetWorth(balances[liquidator], oraclePrice)
                         - NetWorth(before, oraclePrice)
  <2>1. /\ tx.active /\ ProxyOrder(pending.order) /\ tx.traderFlags # {}
        /\ liquidator \in tx.accounts /\ liquidator \in Account
        /\ FinalBalanceAllowed(liquidator)
        /\ before \in [margin: Int, position: Int] /\ oraclePrice \in Nat
    BY EndOfLiquidation
  <2>2. /\ Between(balances[liquidator].position, before.position, pending.order.max)
        /\ before = tx.initialBalances[liquidator]
    BY <2>1 DEF ProxyOrder
  <2>3. /\ balances[liquidator] = tx.currentBalances[liquidator] /\ tx.price = oraclePrice
        /\ balances[liquidator] \in [margin: Int, position: Int] /\ minCollateral \in Nat
    BY <2>1, ActiveTransaction DEF CloseoutInv
  <2>4. \/ after = balances[liquidator]
        \/ /\ liquidator # insurance.fund
           /\ IsCollateralized(after, oraclePrice, minCollateral)
           /\ after.position = balances[liquidator].position
           /\ 2 * (NetWorth(after, oraclePrice) - NetWorth(before, oraclePrice)) >= profit
    BY LiquidatorPays
  <2> HIDE DEF liquidator, before, after
  <2>5. CASE after = balances[liquidator]
    <3>1. profit \in Int
      BY <2>1, <2>3, NetWorthIs
    <3>2. profit > 0 => 2 * (NetWorth(after, oraclePrice) - NetWorth(before, oraclePrice)) >= profit
      <4>1. 2 * (NetWorth(after, oraclePrice) - NetWorth(before, oraclePrice)) = 2 * profit
        BY <2>5
      <4>2. QED
        BY <3>1, <4>1
    <3>3. IsCollateralized(after, oraclePrice, minCollateral)
            \/ Improved(before, after, oraclePrice)
      BY <2>1, <2>2, <2>3, <2>5 DEF FinalBalanceAllowed
    <3>4. IsCollateralized(after, oraclePrice, minCollateral)
            \/ Covered(before, after, oraclePrice)
      <4>1. CASE Improved(before, after, oraclePrice)
        <5>1. NotEndangered(before, after)
          BY <2>1, <2>3, <2>5, <4>1, ImprovedIsNotEndangered
        <5>2. QED
          BY <5>1 DEF NotEndangered, NoWorse, Covered
      <4>2. QED
        BY <3>3, <4>1
    <3>5. QED
      BY <2>2, <2>5, <3>2, <3>4 DEF liquidator, before, after
  <2>6. CASE /\ liquidator # insurance.fund
             /\ IsCollateralized(after, oraclePrice, minCollateral)
             /\ after.position = balances[liquidator].position
             /\ 2 * (NetWorth(after, oraclePrice) - NetWorth(before, oraclePrice)) >= profit
    BY <2>2, <2>6 DEF liquidator, before, after
  <2>7. QED
    BY <2>4, <2>5, <2>6
<1> HIDE DEF A
<1>2. CloseoutsSpec => [][A]_combinedVars
  BY <1>1, CloseoutsInvariant, PTL
<1>3. [][A]_combinedVars <=> LiquidatorIsSafe
  BY DEF A, LiquidatorIsSafe
<1>4. QED
  BY <1>2, <1>3

-----------------------------------------------------------------------------
(* The ledger's promises, kept through closeouts and the proxy's fee.      *)

LEMMA CloseoutsInitSolvency ==
    ASSUME CloseoutsInit
    PROVE  SolvencyInv
<1>1. TypeOK
  BY CloseoutsInitially
<1>2. PICK f \in [1..N -> Int] : f = Values(balances, localIndexes, globalIndex, 0)
  BY <1>1, 0 \in Int, ValuesType DEF TypeOK
<1>3. Margins(balances) \in [1..N -> Int]
  BY <1>1 DEF TypeOK, Margins, Balance, Uint120
<1>4. PICK margins \in [1..N -> Int] : margins = Margins(balances)
  BY <1>3
<1>5. \A a \in 1..N : f[a] = BASE * margins[a]
  <2> SUFFICES ASSUME NEW a \in 1..N
               PROVE  f[a] = BASE * margins[a]
    OBVIOUS
  <2>1. /\ balances[a] \in Balance /\ localIndexes[a] \in Index /\ globalIndex \in Index
        /\ localIndexes[a].value = globalIndex.value
    BY <1>1 DEF TypeOK, CloseoutsInit
  <2>2. f[a] = BASE * balances[a].margin + balances[a].position * 0
    BY <1>2, <2>1, 0 \in Int, FreshValue DEF Values
  <2>3. balances[a].margin \in Int /\ balances[a].position \in Int
    BY <2>1 DEF Balance, Uint120
  <2>4. margins[a] = balances[a].margin
    BY <1>4 DEF Margins
  <2>5. \A m \in Int, x \in Int : BASE * m + x * 0 = BASE * m
    OBVIOUS
  <2>6. QED
    BY <2>2, <2>3, <2>4, <2>5
<1>6. Total(f, N) = BASE * Total(margins, N)
  <2>1. N \in Nat /\ BASE \in Int
    OBVIOUS
  <2>2. QED
    BY ONLY <1>5, <2>1, TotalScaled
<1>7. held = Total(margins, N) /\ held \in Int
  BY <1>1, <1>4 DEF CloseoutsInit, TypeOK
<1>8. BASE * held \in Int
  BY <1>7
<1>9. /\ Total(Positions(balances), N) = 0 /\ ~finalSettlement /\ tx = NoTx /\ now = 1
      /\ globalIndex = [timestamp |-> 1, value |-> 0]
      /\ \A a \in Account : localIndexes[a] = globalIndex
  BY DEF CloseoutsInit
<1>10. Sound(balances, localIndexes, globalIndex)
  BY <1>2, <1>6, <1>7, <1>8, <1>9 DEF Sound
<1>11. QED
  BY <1>9, <1>10 DEF SolvencyInv, NoTx

LEMMA FeeSound ==
    ASSUME TypeOK, insurance \in [fund: Fund, fee: Fees],
           Sound(balances, localIndexes, globalIndex),
           NEW fee \in Nat, NEW liquidator \in Account, localIndexes[liquidator] = globalIndex,
           FeePaid(fee, liquidator), UNCHANGED <<held, now>>
    PROVE  Sound(balances, localIndexes, globalIndex)'
<1>1. PICK fund \in Account : fund = insurance.fund
  BY CloseoutsAssumption
<1>2. /\ globalIndex' = globalIndex /\ globalIndex \in Index
      /\ balances \in [Account -> Balance] /\ balances' \in [Account -> Balance]
      /\ localIndexes \in [Account -> Index] /\ localIndexes' \in [Account -> Index]
      /\ held \in Int
  BY FeeMoves DEF TypeOK
<1>3. /\ localIndexes'[fund] = globalIndex
      /\ \A a \in Account \ {fund} : localIndexes'[a] = localIndexes[a]
  <2>1. StoreIndexes({fund}, globalIndex)
    BY <1>1 DEF FeePaid
  <2>2. localIndexes[fund].timestamp = globalIndex.timestamp => localIndexes[fund] = globalIndex
    BY DEF Sound
  <2>3. QED
    BY <2>1, <2>2 DEF StoreIndexes
<1>4. /\ globalIndex.timestamp <= now
      /\ \A a \in Account :
           /\ localIndexes'[a].timestamp <= globalIndex.timestamp
           /\ localIndexes'[a].timestamp = globalIndex.timestamp => localIndexes'[a] = globalIndex
  <2>1. globalIndex.timestamp \in Int
    BY <1>2 DEF Index
  <2>2. QED
    BY <1>3, <2>1 DEF Sound
<1>5. CASE liquidator = fund
  <2>1. balances'[fund] = balances[fund]
    BY <1>1, <1>5, FeeMoves
  <2>2. \A a \in Account : balances'[a] = balances[a]
    BY <1>1, <1>5, <2>1, FeeMoves
  <2>3. balances' = balances
    <3>1. /\ balances' = [a \in Account |-> balances'[a]]
          /\ balances = [a \in Account |-> balances[a]]
      BY <1>2
    <3>2. [a \in Account |-> balances'[a]] = [a \in Account |-> balances[a]]
      BY <2>2, Zenon
    <3>3. QED
      BY <3>1, <3>2
  <2>4. localIndexes' = localIndexes
    <3>1. /\ localIndexes' = [a \in Account |-> localIndexes'[a]]
          /\ localIndexes = [a \in Account |-> localIndexes[a]]
      BY <1>2
    <3>2. \A a \in Account : localIndexes'[a] = localIndexes[a]
      BY <1>3, <1>5
    <3>3. [a \in Account |-> localIndexes'[a]] = [a \in Account |-> localIndexes[a]]
      BY <3>2, Zenon
    <3>4. QED
      BY <3>1, <3>3
  <2>5. QED
    BY <1>2, <2>3, <2>4 DEF Sound
<1>6. CASE liquidator # fund
  <2>1. PICK f \in [1..N -> Int] : f = Values(balances, localIndexes, globalIndex, 0)
    BY <1>2, 0 \in Int, ValuesType
  <2>2. PICK h \in [1..N -> Int] : h = Values(balances', localIndexes', globalIndex, 0)
    BY <1>2, 0 \in Int, ValuesType
  <2>3. PICK m \in Int, s \in Int, paid \in Int :
          /\ m = balances[liquidator].margin
          /\ s = Settled(balances[fund], localIndexes[fund], globalIndex).margin
          /\ paid = BASE * fee
    <3>1. balances[liquidator].margin \in Int
      BY <1>2 DEF Balance, Uint120
    <3>2. Settled(balances[fund], localIndexes[fund], globalIndex).margin \in Int
      BY <1>2, SettledType
    <3>3. QED
      <4>1. BASE * fee \in Int
        BY ONLY fee \in Nat, BASE \in Nat
      <4>2. QED
        BY <3>1, <3>2, <4>1, Zenon
  <2>4. /\ balances'[liquidator].margin = m - fee
        /\ balances'[liquidator].position = balances[liquidator].position
        /\ balances'[fund].margin = s + fee
        /\ balances'[fund].position = balances[fund].position
        /\ \A a \in Account : a # liquidator /\ a # fund => balances'[a] = balances[a]
    BY <1>1, <1>6, <2>3, FeeMoves
  <2>5. ASSUME NEW b \in Balance
        PROVE  ExactValue(b, globalIndex, globalIndex, 0) = BASE * b.margin
    <3>1. ExactValue(b, globalIndex, globalIndex, 0) = BASE * b.margin + b.position * 0
      BY <1>2, 0 \in Int, FreshValue
    <3>2. PICK x \in Int, y \in Int : x = b.position /\ y = BASE * b.margin
      <4>1. b.position \in Int /\ b.margin \in Int
        BY ONLY b \in Balance DEF Balance, Uint120
      <4>2. BASE * b.margin \in Int
        BY ONLY <4>1, BASE \in Nat
      <4>3. QED
        BY <4>1, <4>2, Zenon
    <3>3. y + x * 0 = y
      BY ONLY x \in Int, y \in Int
    <3>4. QED
      BY <3>1, <3>2, <3>3
  <2>6. h[liquidator] = f[liquidator] - paid
    <3>1. f[liquidator] = BASE * m
      BY <1>2, <2>1, <2>3, <2>5 DEF Values
    <3>2. h[liquidator] = BASE * (m - fee)
      BY <1>2, <1>3, <1>6, <2>2, <2>4, <2>5 DEF Values
    <3>3. BASE * (m - fee) = BASE * m - BASE * fee
      OBVIOUS
    <3>4. QED
      BY <2>3, <3>1, <3>2, <3>3
  <2>7. h[fund] <= f[fund] + paid
    <3>1. h[fund] = BASE * (s + fee)
      BY <1>2, <1>3, <2>2, <2>4, <2>5 DEF Values
    <3>2. BASE * s <= f[fund]
      <4>1. localIndexes[fund].timestamp = globalIndex.timestamp
              => localIndexes[fund] = globalIndex
        BY DEF Sound
      <4>2. BASE * s + balances[fund].position * 0 <= f[fund]
        BY <1>2, <2>1, <2>3, <4>1, 0 \in Int, SettlingRounds DEF Values
      <4>3. PICK x \in Int : x = balances[fund].position
        <5>1. balances[fund] \in Balance
          BY <1>2
        <5>2. balances[fund].position \in Int
          BY ONLY <5>1 DEF Balance, Uint120
        <5>3. QED
          BY <5>2, Zenon
      <4>4. x * 0 = 0
        BY ONLY x \in Int
      <4>5. PICK worth \in Int : worth = BASE * s
        BY s \in Int, BASE \in Nat
      <4>6. PICK v \in Int : v = f[fund]
        BY fund \in 1..N
      <4>7. worth + 0 <= v
        BY <4>2, <4>3, <4>4, <4>5, <4>6
      <4>8. QED
        BY <4>5, <4>6, <4>7
    <3>3. PICK v \in Int, worth \in Int : v = f[fund] /\ worth = BASE * s
      BY s \in Int, BASE \in Nat, fund \in 1..N
    <3>4. BASE * (s + fee) = BASE * s + BASE * fee
      BY ONLY s \in Int, fee \in Int, BASE \in Int
    <3>5. h[fund] = worth + paid /\ worth <= v
      BY ONLY <2>3, <3>1, <3>2, <3>3, <3>4
    <3>6. worth + paid <= v + paid
      BY ONLY <3>5, worth \in Int, v \in Int, paid \in Int
    <3>7. QED
      BY ONLY <3>3, <3>5, <3>6
  <2>8. \A a \in Account : a # liquidator /\ a # fund => h[a] = f[a]
    BY <1>2, <1>3, <2>1, <2>2, <2>4 DEF Values
  <2>9. PICK g \in [1..N -> Int] :
          /\ g[liquidator] = h[liquidator] /\ g[fund] = f[fund] + paid
          /\ \A a \in 1..N : a # liquidator /\ a # fund => g[a] = f[a]
    <3>1. f[liquidator] \in Int /\ f[fund] \in Int
      BY ONLY f \in [1..N -> Int], liquidator \in 1..N, fund \in 1..N
    <3>2. h[liquidator] \in Int /\ f[fund] + paid \in Int
      BY ONLY <2>6, <3>1, paid \in Int
    <3>3. [f EXCEPT ![liquidator] = h[liquidator], ![fund] = f[fund] + paid] \in [1..N -> Int]
      BY ONLY f \in [1..N -> Int], <3>2
    <3>4. QED
      BY <1>6, <3>3
  <2>10. Total(g, N) = Total(f, N)
    <3>1. IsTransfer(f, g, liquidator, fund, N)
      <4>1. PICK before \in Int, after \in Int, other \in Int, otherAfter \in Int :
              /\ before = f[liquidator] /\ after = g[liquidator]
              /\ other = f[fund] /\ otherAfter = g[fund]
        BY liquidator \in 1..N, fund \in 1..N
      <4>2. after = before - paid /\ otherAfter = other + paid
        BY ONLY <2>6, <2>9, <4>1
      <4>3. QED
        BY ONLY <1>6, <2>9, <4>1, <4>2 DEF IsTransfer
    <3>2. N \in Nat /\ liquidator \in 1..N /\ fund \in 1..N
      OBVIOUS
    <3>3. QED
      BY ONLY <3>1, <3>2, TotalTransfer
  <2>11. Total(h, N) <= Total(g, N)
    <3>1. \A a \in 1..N : h[a] <= g[a]
      <4> SUFFICES ASSUME NEW a \in 1..N
                   PROVE  h[a] <= g[a]
        OBVIOUS
      <4>1. CASE a = liquidator
        <5>1. h[liquidator] \in Int /\ g[liquidator] = h[liquidator]
          BY <2>9
        <5>2. QED
          BY ONLY <4>1, <5>1
      <4>2. CASE a = fund
        BY <2>7, <2>9, <4>2
      <4>3. CASE a # liquidator /\ a # fund
        BY <2>8, <2>9, <4>3
      <4>4. QED
        BY <4>1, <4>2, <4>3
    <3>2. N \in Nat
      OBVIOUS
    <3>3. QED
      BY ONLY <3>1, <3>2, TotalMonotone
  <2>12. Positions(balances') = Positions(balances)
    <3>1. \A a \in Account : balances'[a].position = balances[a].position
      BY <2>4
    <3>2. QED
      BY <3>1 DEF Positions
  <2>13. Total(f, N) \in Int /\ Total(h, N) \in Int /\ Total(f, N) <= BASE * held
    BY <1>2, <2>1, <2>2, 0 \in Int, ValuesType DEF Sound
  <2>14. Total(h, N) <= BASE * held
    <3>1. PICK before \in Int, after \in Int : before = Total(f, N) /\ after = Total(h, N)
      BY <2>13
    <3>2. PICK k \in Int : k = BASE * held
      <4>1. BASE * held \in Int
        BY ONLY <1>2, BASE \in Nat
      <4>2. QED
        BY <4>1, Zenon
    <3>3. after <= before /\ before <= k
      BY <2>10, <2>11, <2>13, <3>1, <3>2
    <3>4. after <= k
      BY ONLY <3>3, before \in Int, after \in Int, k \in Int
    <3>5. QED
      BY <3>1, <3>2, <3>4
  <2>15. QED
    BY <1>2, <1>4, <2>2, <2>12, <2>14 DEF Sound
<1>7. QED
  BY <1>5, <1>6

\* Every step but the payment of the fee is one of the ledger with any traders.
LEMMA CloseoutsLedgerStep ==
    ASSUME TypeOK, CloseoutInv, [CloseoutsNext]_combinedVars, ~EndLiquidation
    PROVE  [LedgerNext]_vars
<1>1. ASSUME NEW accounts \in SUBSET Account, BeginTrade(accounts)
      PROVE  LedgerNext
  BY <1>1 DEF LedgerNext, LedgerTradeNext
<1>2. ASSUME NEW maker, NEW taker, NEW result, AnyTrade(maker, taker, result)
      PROVE  LedgerNext
  BY <1>2 DEF AnyTrade, LedgerNext, LedgerTradeNext
<1>3. ASSUME NEW sender \in Sender, NEW accounts \in Parties, BeginCloseouts(sender, accounts)
      PROVE  LedgerNext
  BY <1>1, <1>3, CloseoutsAssumption DEF BeginCloseouts
<1>4. ASSUME NEW trade \in OrderTrades, OtherTrade(trade)
      PROVE  LedgerNext
  <2>1. AnyTrade(trade.maker, trade.taker, trade.result)
    BY <1>4, OthersTradeType DEF OtherTrade, AnyTrade
  <2>2. QED
    BY <1>2, <2>1
<1>5. ASSUME NEW maker \in Account, NEW taker \in Account, NEW amount \in Amount,
             NEW isBuy \in BOOLEAN, NEW allOrNothing \in BOOLEAN,
             \/ Liquidate(maker, taker, amount, isBuy, allOrNothing)
             \/ Deleverage(maker, taker, amount, isBuy, allOrNothing)
      PROVE  LedgerNext
  <2>1. amount \in Nat
    OBVIOUS
  <2>2. CASE Liquidate(maker, taker, amount, isBuy, allOrNothing)
    <3>1. PICK c \in Nat : IsClosing(maker, taker, amount, isBuy, allOrNothing, 2, c)
      BY <2>1, <2>2, LiquidateCloses
    <3>2. QED
      BY <1>2, <3>1, ClosingIsTrade
  <2>3. CASE Deleverage(maker, taker, amount, isBuy, allOrNothing)
    <3>1. PICK c \in Nat : IsClosing(maker, taker, amount, isBuy, allOrNothing, 4, c)
      BY <2>1, <2>3, DeleverageCloses
    <3>2. QED
      BY <1>2, <3>1, ClosingIsTrade
  <2>4. QED
    BY <1>5, <2>2, <2>3
<1>6. CASE EndCloseouts \/ RevertCloseouts
  BY <1>6 DEF EndCloseouts, RevertCloseouts, LedgerNext, LedgerTradeNext
<1>7. ASSUME NEW liquidatee \in Account, NEW liquidator \in Account, NEW isBuy \in BOOLEAN,
             NEW maxPosition \in MaxPosition,
             BeginLiquidation(liquidator, liquidatee, liquidator, isBuy, maxPosition)
      PROVE  LedgerNext
  <2>1. BeginTrade({liquidatee, liquidator}) /\ {liquidatee, liquidator} \in SUBSET Account
    BY <1>7 DEF BeginLiquidation
  <2>2. QED
    BY <1>1, <2>1
<1>8. CASE ProxyTrade
  <2>1. PICK c \in Nat : IsClosing(pending.order.maker, pending.order.taker,
                                   pending.order.amount, pending.order.isBuy, FALSE, 2, c)
    BY <1>8, ProxyTradeBetween
  <2>2. QED
    BY <1>2, <2>1, ClosingIsTrade
<1>9. CASE \/ \E a \in Account : Mark(a) \/ Unmark(a)
           \/ \E operator \in Sender : SetDeleveragingOperator(operator)
           \/ \E fund \in Fund, fee \in Fees : SetInsurance(fund, fee)
           \/ UNCHANGED combinedVars
  BY <1>9 DEF Mark, Unmark, SetDeleveragingOperator, SetInsurance, combinedVars
<1>10. CASE (Tick \/ \E price \in Feed[oracle] : PriceMoves(price)) /\ UNCHANGED closeoutVars
  BY <1>10 DEF LedgerNext, ChainNext
<1>11. QED
  BY <1>3, <1>4, <1>5, <1>6, <1>7, <1>8, <1>9, <1>10 DEF CloseoutsNext

LEMMA CloseoutsSolvency ==
    ASSUME TypeOK, CloseoutInv, SolvencyInv, [CloseoutsNext]_combinedVars
    PROVE  SolvencyInv'
<1>1. CASE EndLiquidation
  <2> DEFINE liquidator == pending.order.taker
             fee == FeeAmount(Delta(liquidator), oraclePrice)
  <2>1. /\ tx.active /\ liquidator \in tx.accounts /\ liquidator \in Account /\ fee \in Nat
        /\ \/ fee = 0 /\ UNCHANGED storage
           \/ fee > 0 /\ FeePaid(fee, liquidator)
    BY <1>1, EndOfLiquidation
  <2> HIDE DEF fee, liquidator
  <2>2. /\ tx' = NoTx /\ UNCHANGED <<held, now, finalSettlement>>
    BY <1>1 DEF EndLiquidation, final, chain
  <2>3. /\ Sound(balances, localIndexes, globalIndex) /\ ~finalSettlement
        /\ localIndexes[liquidator] = globalIndex
    BY <2>1 DEF SolvencyInv
  <2>4. CASE UNCHANGED storage
    BY <2>2, <2>3, <2>4 DEF SolvencyInv, Sound, storage, NoTx
  <2>5. CASE FeePaid(fee, liquidator)
    <3>1. Sound(balances, localIndexes, globalIndex)'
      BY <2>1, <2>2, <2>3, <2>5, FeeSound DEF CloseoutInv
    <3>2. QED
      BY <2>2, <2>3, <3>1 DEF SolvencyInv, NoTx
  <2>6. QED
    BY <2>1, <2>4, <2>5
<1>2. CASE ~EndLiquidation
  BY <1>2, CloseoutsLedgerStep, NextSolvency
<1>3. QED
  BY <1>1, <1>2

\* Closing out accounts, the proxy's fee and whatever else is traded keep the contract
\* solvent and its positions in balance, from any state that is so.
THEOREM CloseoutsKeepSolvent == CloseoutsSpec => [](Solvent /\ ZeroSum)
<1>1. CloseoutsInit => SolvencyInv
  BY CloseoutsInitSolvency
<1>2. TypeOK /\ CloseoutInv /\ SolvencyInv /\ [CloseoutsNext]_combinedVars => SolvencyInv'
  BY CloseoutsSolvency
<1>3. SolvencyInv => Solvent /\ ZeroSum
  <2> SUFFICES ASSUME SolvencyInv
               PROVE  Solvent /\ ZeroSum
    OBVIOUS
  <2>1. CASE finalSettlement
    BY <2>1 DEF SolvencyInv, Solvent, ZeroSum
  <2>2. CASE ~finalSettlement
    BY <2>2 DEF SolvencyInv, Sound, Solvent, ZeroSum, Claims
  <2>3. QED
    BY <2>1, <2>2
<1>4. QED
  BY <1>1, <1>2, <1>3, CloseoutsInvariant, PTL DEF CloseoutsSpec
=============================================================================
