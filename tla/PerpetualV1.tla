----------------------------- MODULE PerpetualV1 -----------------------------
(***************************************************************************)
(* The PerpetualV1 contract: margin balances and positions of accounts,    *)
(* the funding index, deposits, withdrawals, trades, final settlement and  *)
(* administration (contracts/protocol/v1/impl and PerpetualV1.sol).        *)
(*                                                                         *)
(* A transaction is atomic on chain, so every entry point is one action,   *)
(* except P1Trade.trade.  Its loop calls one trader contract per trade and *)
(* checks the accounts only after the last of them; it is modelled with    *)
(* one action per iteration, `tx' holding the memory of the transaction    *)
(* and the storage a revert goes back to.  Everything else waits until     *)
(* `tx' is NoTx, which is what atomicity and nonReentrant give.            *)
(*                                                                         *)
(* Arithmetic is that of P1Math: signed numbers are integers, fixed-point  *)
(* ones have BASE as their unit.                                           *)
(***************************************************************************)
EXTENDS P1Math, Totals

CONSTANTS
    N,              \* how many accounts there are: accounts are 1..N
    Operator,       \* addresses that may be made operators: traders, proxies
    Feed,           \* per oracle contract, the prices it may report
    Funding,        \* per funder contract, the signed rates it may return
    TraderFlag,     \* bits a trader may set in traderFlags
    Delegate,       \* addresses an account may name as its local operator
    MinCollateral,  \* collateral requirements the admin may set
    Amount,         \* token and position amounts a call may name
    MaxUint128,     \* width of the value of an index
    MaxTime,        \* last timestamp: the clock of the model stops there
    TokenSupply     \* supply of the margin token: no balance exceeds it

ASSUME ConstantsAssumption ==
    /\ N \in Nat \ {0}
    /\ Feed \in [DOMAIN Feed -> SUBSET Nat]
    /\ Funding \in [DOMAIN Funding -> SUBSET Int]
    /\ Delegate \subseteq (1..N) \cup Operator
    /\ MinCollateral \subseteq Nat
    /\ Amount \subseteq Nat
    /\ MaxUint128 \in Nat
    /\ MaxTime \in Nat \ {0}
    /\ TokenSupply \in Nat

VARIABLES
    balances,         \* _BALANCES_
    localIndexes,     \* _LOCAL_INDEXES_
    globalIndex,      \* _GLOBAL_INDEX_
    globalOperators,  \* the addresses set in _GLOBAL_OPERATORS_
    localOperators,   \* _LOCAL_OPERATORS_: per account, its operators
    oracle,           \* _ORACLE_
    funder,           \* _FUNDER_
    minCollateral,    \* _MIN_COLLATERAL_
    finalSettlement,  \* _FINAL_SETTLEMENT_ENABLED_
    finalPrice,       \* _FINAL_SETTLEMENT_PRICE_
    held,             \* margin tokens owned by the contract
    oraclePrice,      \* what oracle answers now
    now,              \* block.timestamp
    tx                \* the trade transaction in progress, or NoTx

storage == <<balances, localIndexes, globalIndex>>
roles == <<globalOperators, localOperators>>
final == <<finalSettlement, finalPrice>>
settings == <<oracle, funder, minCollateral>>
chain == <<oraclePrice, now>>
vars == <<storage, roles, settings, final, held, chain, tx>>

Account == 1..N
Address == Account \cup Operator
Oracle == DOMAIN Feed
Funder == DOMAIN Funding
Price == UNION {Feed[o] : o \in Oracle}
Index == [timestamp: 0..MaxTime, value: -MaxUint128..MaxUint128]
NoTx == [active |-> FALSE]

-----------------------------------------------------------------------------
(* Funding: P1Settlement._loadContext and _settleAccount.                  *)

\* How the funder's answer moves the index: the rate times the price, its
\* magnitude rounded down.
FundingValue(rate) ==
    IF rate > 0 THEN BaseMul(rate, oraclePrice)
                ELSE -BaseMul(-rate, oraclePrice)

\* Fault: the index moves again within one timestamp.
LoadedIndexesEveryTime ==
    {[timestamp |-> now, value |-> globalIndex.value + FundingValue(rate)] :
        rate \in Funding[funder]}

\* The indexes _loadContext may store: the one it found if no time has passed
\* since, else one moved by the funder's answer, if it fits its uint128.
LoadedIndexes ==
    IF now = globalIndex.timestamp
    THEN {globalIndex}
    ELSE {index \in {[timestamp |-> now,
                      value |-> globalIndex.value + FundingValue(rate)] :
                        rate \in Funding[funder]} : Abs(index.value) <= MaxUint128}

\* The balance of an account once settled to an index.
Settled(balance, oldIndex, newIndex) ==
    IF oldIndex.timestamp = newIndex.timestamp
    THEN balance
    ELSE [balance EXCEPT !.margin =
            @ + Settlement(newIndex.value - oldIndex.value, balance.position)]

SettledAccount(account, index) ==
    Settled(balances[account], localIndexes[account], index)

HasAccountPermissions(account, sender) ==
    \/ account = sender
    \/ sender \in globalOperators
    \/ sender \in localOperators[account]

-----------------------------------------------------------------------------
(* Storage updates shared by the entry points.                             *)

\* Settle a set of accounts to an index, as _settleAccounts does.
SettledBalances(accounts, index) ==
    [a \in Account |-> IF a \in accounts THEN SettledAccount(a, index)
                                         ELSE balances[a]]

\* _settleAccount keeps the local index it has if no time has passed.
StoreIndexes(accounts, index) ==
    /\ globalIndex' = index
    /\ localIndexes' =
         [a \in Account |->
            IF a \in accounts /\ localIndexes[a].timestamp # index.timestamp
            THEN index ELSE localIndexes[a]]

\* Fault: the noFinalSettlement modifier is forgotten.
TradingAlways == ~tx.active

Idle == ~tx.active
Trading == Idle /\ ~finalSettlement

-----------------------------------------------------------------------------
(* Initial state: the contract just after initializeV1.                    *)

Init ==
    /\ balances = [a \in Account |-> [margin |-> 0, position |-> 0]]
    /\ localIndexes = [a \in Account |-> [timestamp |-> 0, value |-> 0]]
    /\ globalIndex = [timestamp |-> 1, value |-> 0]
    /\ globalOperators = {}
    /\ localOperators = [a \in Account |-> {}]
    /\ oracle \in Oracle
    /\ funder \in Funder
    /\ minCollateral \in MinCollateral
    /\ finalSettlement = FALSE
    /\ finalPrice = 0
    /\ held = 0
    /\ oraclePrice \in Feed[oracle]
    /\ now = 1
    /\ tx = NoTx

-----------------------------------------------------------------------------
(* P1Margin                                                                *)

\* Fault: the new margin is stored without toUint120.
DepositUnchecked(account, amount) ==
    /\ Trading
    /\ held + amount <= TokenSupply
    /\ \E index \in LoadedIndexes :
         LET settled == SettledAccount(account, index)
         IN  /\ balances' = [balances EXCEPT ![account] =
                               [settled EXCEPT !.margin = @ + amount]]
             /\ StoreIndexes({account}, index)
    /\ held' = held + amount
    /\ UNCHANGED <<roles, settings, final, chain, tx>>

\* deposit: anyone pays tokens into an account.
Deposit(account, amount) ==
    /\ Trading
    /\ held + amount <= TokenSupply
    /\ \E index \in LoadedIndexes :
         LET settled == SettledAccount(account, index)
             balance == [settled EXCEPT !.margin = @ + amount]
         IN  /\ Fits(settled) /\ Fits(balance)
             /\ balances' = [balances EXCEPT ![account] = balance]
             /\ StoreIndexes({account}, index)
    /\ held' = held + amount
    /\ UNCHANGED <<roles, settings, final, chain, tx>>

\* withdraw: the account's owner or an operator takes tokens out of it.
Withdraw(sender, account, amount) ==
    /\ Trading
    /\ HasAccountPermissions(account, sender)
    /\ amount <= held
    /\ \E index \in LoadedIndexes :
         LET settled == SettledAccount(account, index)
             balance == [settled EXCEPT !.margin = @ - amount]
         IN  /\ Fits(settled) /\ Fits(balance)
             /\ IsCollateralized(balance, oraclePrice, minCollateral)
             /\ balances' = [balances EXCEPT ![account] = balance]
             /\ StoreIndexes({account}, index)
    /\ held' = held - amount
    /\ UNCHANGED <<roles, settings, final, chain, tx>>

-----------------------------------------------------------------------------
(* P1Trade                                                                 *)

\* trade up to its loop: load the context, settle the accounts, copy them.
BeginTrade(accounts) ==
    /\ Trading
    /\ accounts # {}
    /\ \E index \in LoadedIndexes :
         LET settled == SettledBalances(accounts, index)
         IN  /\ \A a \in accounts : Fits(settled[a])
             /\ balances' = settled
             /\ StoreIndexes(accounts, index)
             /\ tx' = [active |-> TRUE,
                       accounts |-> accounts,
                       price |-> oraclePrice,
                       initialBalances |-> settled,
                       currentBalances |-> settled,
                       traderFlags |-> {},
                       undo |-> [balances |-> balances,
                                 localIndexes |-> localIndexes,
                                 globalIndex |-> globalIndex]]
    /\ UNCHANGED <<roles, settings, final, held, chain>>

\* What a trader contract answers; the contract trusts its global operators
\* with any of it.
TradeResult ==
    [marginAmount: Amount \cup {0}, positionAmount: Amount \cup {0},
     isBuy: BOOLEAN, traderFlags: SUBSET TraderFlag]

\* Fault: the maker's side of a sale is not reversed.
MakerAfterAlwaysSells(balance, result) ==
    [margin |-> IF result.isBuy THEN balance.margin + result.marginAmount
                                ELSE balance.margin - result.marginAmount,
     position |-> balance.position - result.positionAmount]

\* isBuy is the taker's side: a maker whose taker buys is paid the margin and
\* gives the position.
MakerAfter(balance, result) ==
    IF result.isBuy
    THEN [margin |-> balance.margin + result.marginAmount,
          position |-> balance.position - result.positionAmount]
    ELSE [margin |-> balance.margin - result.marginAmount,
          position |-> balance.position + result.positionAmount]

TakerAfter(balance, result) ==
    IF result.isBuy
    THEN [margin |-> balance.margin - result.marginAmount,
          position |-> balance.position + result.positionAmount]
    ELSE [margin |-> balance.margin + result.marginAmount,
          position |-> balance.position - result.positionAmount]

\* Write the two balances a trade changed in memory to storage.
StoreTraded(maker, taker, current) ==
    balances' = [balances EXCEPT ![maker] = current[maker],
                                 ![taker] = current[taker]]

\* One iteration of the loop of trade: a trade of an account with itself only
\* leaves its flags.
TradeStep(trader, maker, taker, result) ==
    /\ tx.active
    /\ trader \in globalOperators
    /\ maker \in tx.accounts /\ taker \in tx.accounts
    /\ LET makerBalance == MakerAfter(tx.currentBalances[maker], result)
           takerBalance == TakerAfter(tx.currentBalances[taker], result)
           traded == [tx.currentBalances EXCEPT ![maker] = makerBalance,
                                                ![taker] = takerBalance]
           flags == tx.traderFlags \cup result.traderFlags
       IN  \/ /\ maker = taker
              /\ tx' = [tx EXCEPT !.traderFlags = flags]
              /\ UNCHANGED balances
           \/ /\ maker # taker
              /\ Fits(makerBalance) /\ Fits(takerBalance)
              /\ tx' = [tx EXCEPT !.traderFlags = flags,
                                  !.currentBalances = traded]
              /\ StoreTraded(maker, taker, traded)
    /\ UNCHANGED <<localIndexes, globalIndex, roles, settings, final, held,
                   chain>>

\* The test of _verifyAccountsFinalBalances: collateralized, or brought closer
\* to it.
FinalBalanceAllowed(account) ==
    \/ IsCollateralized(tx.currentBalances[account], tx.price, minCollateral)
    \/ Improved(tx.initialBalances[account], tx.currentBalances[account],
                tx.price)

\* trade after its loop: every account must be in order.
EndTrade ==
    /\ tx.active
    /\ \A a \in tx.accounts : FinalBalanceAllowed(a)
    /\ tx' = NoTx
    /\ UNCHANGED <<storage, roles, settings, final, held, chain>>

\* A trader, a later trade of the list or the final check reverts.
RevertTrade ==
    /\ tx.active
    /\ balances' = tx.undo.balances
    /\ localIndexes' = tx.undo.localIndexes
    /\ globalIndex' = tx.undo.globalIndex
    /\ tx' = NoTx
    /\ UNCHANGED <<roles, settings, final, held, chain>>

-----------------------------------------------------------------------------
(* P1FinalSettlement                                                       *)

\* Fault: the payout is not deducted.
RemainingUndeducted(accountValue, amount) ==
    [margin |-> accountValue, position |-> 0]

\* What an account keeps of its value after a payout: all of it if the contract
\* has run out of tokens, nothing if it was paid in full.
RemainingBalance(accountValue, amount) ==
    [margin |-> accountValue - amount, position |-> 0]

\* withdrawFinalSettlement: an account takes its value at the final price, or
\* what is left in the contract.  An account with debts is only settled.
WithdrawFinalSettlement(account) ==
    /\ Idle /\ finalSettlement
    /\ LET settled == SettledAccount(account, globalIndex)
           positive == PositiveValue(settled, finalPrice)
           negative == NegativeValue(settled, finalPrice)
           accountValue == (positive - negative) \div BASE
           amount == IF held < accountValue THEN held ELSE accountValue
           remaining == RemainingBalance(accountValue, amount)
       IN  /\ Fits(settled)
           /\ \/ /\ positive < negative
                 /\ balances' = [balances EXCEPT ![account] = settled]
                 /\ UNCHANGED held
              \/ /\ positive >= negative
                 /\ Fits(remaining)
                 /\ balances' = [balances EXCEPT ![account] = remaining]
                 /\ held' = held - amount
    /\ StoreIndexes({account}, globalIndex)
    /\ UNCHANGED <<roles, settings, final, chain, tx>>

-----------------------------------------------------------------------------
(* P1Admin and P1Operator                                                  *)

SetGlobalOperator(operator, approved) ==
    /\ Idle
    /\ globalOperators' = IF approved THEN globalOperators \cup {operator}
                                      ELSE globalOperators \ {operator}
    /\ UNCHANGED <<storage, localOperators, settings, final, held, chain, tx>>

\* The new oracle is asked for a price, which must not be zero.
SetOracle(newOracle, price) ==
    /\ Idle
    /\ price # 0
    /\ oracle' = newOracle
    /\ oraclePrice' = price
    /\ UNCHANGED <<storage, roles, funder, minCollateral, final, held, now, tx>>

SetFunder(newFunder) ==
    /\ Idle
    /\ funder' = newFunder
    /\ UNCHANGED <<storage, roles, oracle, minCollateral, final, held, chain, tx>>

SetMinCollateral(requirement) ==
    /\ Idle
    /\ requirement >= BASE
    /\ minCollateral' = requirement
    /\ UNCHANGED <<storage, roles, oracle, funder, final, held, chain, tx>>

\* The admin names the bounds between which the price must be.
EnableFinalSettlement(lowerBound, upperBound) ==
    /\ Trading
    /\ oraclePrice >= lowerBound /\ oraclePrice <= upperBound
    /\ \E index \in LoadedIndexes : StoreIndexes({}, index)
    /\ finalPrice' = oraclePrice
    /\ finalSettlement' = TRUE
    /\ UNCHANGED <<balances, roles, settings, held, chain, tx>>

\* Not stopped by final settlement, unlike trading.
SetLocalOperator(account, operator, approved) ==
    /\ Idle
    /\ localOperators' =
         [localOperators EXCEPT ![account] =
            IF approved THEN @ \cup {operator} ELSE @ \ {operator}]
    /\ UNCHANGED <<storage, globalOperators, settings, final, held, chain, tx>>

-----------------------------------------------------------------------------
(* The chain around the contract.                                          *)

\* A block later.
Tick ==
    /\ Idle
    /\ now < MaxTime
    /\ now' = now + 1
    /\ UNCHANGED <<storage, roles, settings, final, held, oraclePrice, tx>>

PriceMoves(price) ==
    /\ Idle
    /\ oraclePrice' = price
    /\ UNCHANGED <<storage, roles, settings, final, held, now, tx>>

\* Anyone may send margin tokens to the contract without a deposit.
TokensArrive(amount) ==
    /\ Idle
    /\ held + amount <= TokenSupply
    /\ held' = held + amount
    /\ UNCHANGED <<storage, roles, settings, final, chain, tx>>

MarginNext ==
    \E account \in Account, amount \in Amount :
        \/ Deposit(account, amount)
        \/ \E sender \in Address : Withdraw(sender, account, amount)

TradeNext ==
    \/ \E accounts \in SUBSET Account : BeginTrade(accounts)
    \/ \E trader \in Operator, maker \in Account, taker \in Account,
          result \in TradeResult : TradeStep(trader, maker, taker, result)
    \/ EndTrade
    \/ RevertTrade

AdminNext ==
    \/ \E operator \in Operator, approved \in BOOLEAN :
          SetGlobalOperator(operator, approved)
    \/ \E newOracle \in Oracle : \E price \in Feed[newOracle] :
          SetOracle(newOracle, price)
    \/ \E newFunder \in Funder : SetFunder(newFunder)
    \/ \E requirement \in MinCollateral : SetMinCollateral(requirement)
    \/ \E lowerBound \in Price, upperBound \in Price :
          EnableFinalSettlement(lowerBound, upperBound)

ChainNext ==
    \/ Tick
    \/ \E price \in Feed[oracle] : PriceMoves(price)
    \/ \E amount \in Amount : TokensArrive(amount)

Next ==
    \/ MarginNext
    \/ TradeNext
    \/ \E account \in Account : WithdrawFinalSettlement(account)
    \/ AdminNext
    \/ \E account \in Account, operator \in Delegate, approved \in BOOLEAN :
          SetLocalOperator(account, operator, approved)
    \/ ChainNext

Spec == Init /\ [][Next]_vars

-----------------------------------------------------------------------------
(* Properties                                                              *)

Store == [balances: [Account -> Balance],
          localIndexes: [Account -> Index],
          globalIndex: Index]

Transaction ==
    [active: {TRUE}, accounts: SUBSET Account, price: Price,
     initialBalances: [Account -> Balance],
     currentBalances: [Account -> Balance],
     traderFlags: SUBSET TraderFlag, undo: Store]

\* Every variable of the contract keeps its type: margins and positions fit the
\* uint120 they are stored in, the index its uint128, and the contract's tokens
\* are never a negative number.
TypeOK ==
    /\ balances \in [Account -> Balance]
    /\ localIndexes \in [Account -> Index]
    /\ globalIndex \in Index
    /\ globalOperators \subseteq Operator
    /\ localOperators \in [Account -> SUBSET Address]
    /\ oracle \in Oracle /\ funder \in Funder
    /\ minCollateral \in MinCollateral
    /\ finalSettlement \in BOOLEAN
    /\ finalPrice \in Price \cup {0}
    /\ held \in 0..TokenSupply
    /\ oraclePrice \in Price
    /\ now \in 1..MaxTime
    /\ tx \in Transaction \cup {NoTx}

Positions(bals) == [a \in Account |-> bals[a].position]

\* Every long is somebody's short: the positions of all accounts cancel out
\* while trading is open, between the trades of a transaction and after a
\* revert too.
ZeroSum == ~finalSettlement => Total(Positions(balances), N) = 0

\* A margin, in units of 1/BASE token, if funding were settled to the last
\* fraction; and with the position sold at a price.
ExactMargin(balance, local, index) ==
    BASE * balance.margin - balance.position * (index.value - local.value)

ExactValue(balance, local, index, price) ==
    ExactMargin(balance, local, index) + balance.position * price

Values(bals, locals, index, price) ==
    [a \in Account |-> ExactValue(bals[a], locals[a], index, price)]

Claims(price) == Total(Values(balances, localIndexes, globalIndex, price), N)

\* The contract never owes more than it holds: however often and in whatever
\* order accounts are settled, rounding does not create claims beyond its
\* tokens; in final settlement this holds at the final price, before, between
\* and after the payouts.
Solvent == Claims(IF finalSettlement THEN finalPrice ELSE 0) <= BASE * held

\* _settleAccount may skip an account whose local index has the timestamp of
\* the new one: no index with that timestamp has another value, so no funding
\* is lost.
SkipIsSound ==
    \A a \in Account :
        /\ localIndexes[a].timestamp <= globalIndex.timestamp
        /\ localIndexes[a].timestamp = globalIndex.timestamp
             => localIndexes[a] = globalIndex

\* Stored balances and indexes that are in order while trading is open.
Sound(bals, locals, index) ==
    /\ index.timestamp <= now
    /\ \A a \in Account :
        /\ locals[a].timestamp <= index.timestamp
        /\ locals[a].timestamp = index.timestamp => locals[a] = index
    /\ Total(Positions(bals), N) = 0
    /\ Total(Values(bals, locals, index, 0), N) <= BASE * held

\* Why the contract stays solvent, the state a revert goes back to included:
\* an account's position only changes in a transaction that has settled it.
SolvencyInv ==
    /\ ~finalSettlement => Sound(balances, localIndexes, globalIndex)
    /\ finalSettlement => ~tx.active /\ SkipIsSound /\ Claims(finalPrice) <= BASE * held
    /\ tx.active =>
        /\ Sound(tx.undo.balances, tx.undo.localIndexes, tx.undo.globalIndex)
        /\ \A a \in tx.accounts : /\ tx.currentBalances[a] = balances[a]
                                 /\ localIndexes[a] = globalIndex

\* The balances trade keeps in memory never drift from the stored ones a
\* trader contract reads through the getters in the middle of the loop.
MemoryIsStorage ==
    tx.active => \A a \in tx.accounts : tx.currentBalances[a] = balances[a]

\* In final settlement, if no account is in debt, everyone can be paid in full:
\* what is due to all the accounts is in the contract.
PayoutsCovered ==
    LET Value(a) ==
            LET settled == SettledAccount(a, globalIndex)
            IN  PositiveValue(settled, finalPrice)
                  - NegativeValue(settled, finalPrice)
    IN  finalSettlement /\ (\A a \in Account : Value(a) >= 0)
          => Total([a \in Account |-> Value(a) \div BASE], N) <= held

\* The balance an account had before the transaction this step completes,
\* with the funding due at the index the step leaves.
Before(account) ==
    IF tx.active
    THEN Settled(tx.undo.balances[account], tx.undo.localIndexes[account],
                 globalIndex')
    ELSE SettledAccount(account, globalIndex')

\* The caller's own actions never endanger an account: deposits, withdrawals
\* and whole trade transactions, at an unchanged price and requirement, leave an account
\* undercollateralized only if it was before, with a position no larger, on
\* the same side, and covered no worse.
NoAccountEndangered ==
    [][ (Trading' /\ UNCHANGED <<oraclePrice, minCollateral>>)
        => \A a \in Account :
             LET before == Before(a)
                 after == Settled(balances'[a], localIndexes'[a], globalIndex')
                 beforePos == PositiveValue(before, oraclePrice)
                 beforeNeg == NegativeValue(before, oraclePrice)
                 afterPos == PositiveValue(after, oraclePrice)
                 afterNeg == NegativeValue(after, oraclePrice)
             IN  \/ IsCollateralized(after, oraclePrice, minCollateral)
                 \/ /\ ~IsCollateralized(before, oraclePrice, minCollateral)
                    /\ Abs(after.position) <= Abs(before.position)
                    /\ after.position * before.position >= 0
                    /\ afterPos * beforeNeg >= beforePos * afterNeg
      ]_vars

\* Final settlement is final: from then on the price and the index are fixed,
\* positions only close, and a closed account never gains anything.
FinalIsFinal ==
    [][ finalSettlement =>
        /\ finalSettlement' /\ finalPrice' = finalPrice
        /\ globalIndex' = globalIndex
        /\ \A a \in Account :
             /\ balances'[a].position \in {0, balances[a].position}
             /\ balances[a].position = 0
                  => balances'[a].margin <= balances[a].margin
      ]_vars

=============================================================================
