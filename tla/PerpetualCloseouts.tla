--------------------------- MODULE PerpetualCloseouts ---------------------------
(***************************************************************************)
(* PerpetualV1 with the contracts that close out accounts in trouble:      *)
(* P1Liquidation, which global operators may call for an account below the *)
(* collateral requirement, P1Deleveraging, which anybody may call for an   *)
(* account under water that has been marked for a while, and               *)
(* P1LiquidatorProxy, which liquidates for others and takes a fee of the   *)
(* profit.  A third trader, trusted with any trade, stands for P1Orders.   *)
(***************************************************************************)
EXTENDS PerpetualV1

CONSTANTS
    P1Liquidation, P1Deleveraging, P1LiquidatorProxy, OrdersTrader, \* operators
    PriceReader,    \* operators whom the price oracle answers, besides the perpetual
    Timelock,       \* DELEVERAGING_TIMELOCK_S
    Fund,           \* accounts that may be the insurance fund
    Fees,           \* insurance fees the proxy's owner may set
    Sender,         \* bound: who sends trades and may be the deleveraging operator
    Stock,          \* bound: balances of the accounts at the start
    Parties,        \* bound: the accounts that trade in one transaction
    OrderTrades,    \* bound: the trades of OrdersTrader: maker, taker and what it answers
    MaxPosition     \* bound: the largest positions liquidators accept

ASSUME CloseoutsAssumption ==
    /\ {P1Liquidation, P1Deleveraging, P1LiquidatorProxy, OrdersTrader} \subseteq Operator
    /\ {2, 4} \subseteq TraderFlag
    /\ Sender \subseteq Address /\ Fund \subseteq Account
    /\ Timelock \in Nat /\ \A fee \in Fees : fee \in Nat /\ 2 * fee <= BASE
    /\ Stock \subseteq [Account -> Balance] /\ Parties \subseteq SUBSET Account
    /\ OrderTrades \subseteq
         [maker: Account, taker: Account,
          result: [marginAmount: Nat, positionAmount: Nat, isBuy: BOOLEAN,
                   traderFlags: (SUBSET TraderFlag) \ {{}}]]
    /\ MaxPosition \subseteq Int

VARIABLES
    marked,                 \* _MARKED_TIMESTAMP_, 0 for an account that is not marked
    deleveragingOperator,   \* _DELEVERAGING_OPERATOR_
    insurance,              \* _INSURANCE_FUND_ and _INSURANCE_FEE_
    pending                 \* the sender of the trade in progress, the marks a revert goes
                            \* back to, and the proxy's order if it is the sender

closeoutVars == <<marked, deleveragingOperator, insurance, pending>>
combinedVars == <<vars, closeoutVars>>

Margins(bals) == [a \in Account |-> bals[a].margin]

\* The system after some trading: operators are set, positions are open, and no
\* more is owed than was deposited.
CloseoutsInit ==
    /\ balances \in {stock \in Stock : /\ Total(Positions(stock), N) = 0
                                       /\ Total(Margins(stock), N) \in 0..TokenSupply}
    /\ held = Total(Margins(balances), N)
    /\ localIndexes = [a \in Account |-> [timestamp |-> 1, value |-> 0]]
    /\ globalIndex = [timestamp |-> 1, value |-> 0]
    /\ globalOperators = Operator
    /\ localOperators = [a \in Account |-> {}]
    /\ oracle \in Oracle /\ funder \in Funder /\ minCollateral \in MinCollateral
    /\ finalSettlement = FALSE /\ finalPrice = 0
    /\ oraclePrice \in Feed[oracle]
    /\ now = 1
    /\ tx = NoTx
    /\ marked = [a \in Account |-> 0]
    /\ deleveragingOperator \in Sender
    /\ insurance \in [fund : Fund, fee : Fees]
    /\ pending = NoTx

-----------------------------------------------------------------------------
(* What both contracts compute.                                            *)

Underwater(balance, price) ==
    PositiveValue(balance, price) < NegativeValue(balance, price)

Fraction(target, numerator, denominator) == (target * numerator) \div denominator

FractionRoundUp(target, numerator, denominator) ==
    IF target * numerator = 0 THEN 0
    ELSE (target * numerator - 1) \div denominator + 1

\* Fault: the margin is rounded down whatever its sign.
FractionDown(balance, amount, isBuy) ==
    Fraction(Abs(balance.margin), amount, Abs(balance.position))

\* The part of the margin that goes with a part of the position: a debt is
\* rounded up, so that what is left is covered no worse, and assets down.
MarginFraction(balance, amount, isBuy) ==
    IF isBuy THEN FractionRoundUp(Abs(balance.margin), amount, Abs(balance.position))
             ELSE Fraction(Abs(balance.margin), amount, Abs(balance.position))

\* What _verifyTrade of both requires of the maker's balance.  Dividing by a
\* position of zero reverts.
MayClose(balance, amount, isBuy, allOrNothing) ==
    /\ balance.position # 0
    /\ allOrNothing => Abs(balance.position) >= amount
    /\ isBuy = (balance.position > 0)
    /\ balance.margin >= 0 \/ balance.position > 0

Least(a, b) == IF a < b THEN a ELSE b

ClosingTrade(balance, amount, isBuy, flag) ==
    [marginAmount |-> MarginFraction(balance, amount, isBuy), positionAmount |-> amount,
     isBuy |-> isBuy, traderFlags |-> {flag}]

-----------------------------------------------------------------------------
(* P1Liquidation                                                           *)

\* trade, called by P1Trade's loop.
Liquidate(maker, taker, amount, isBuy, allOrNothing) ==
    LET balance == balances[maker]
        closed == Least(amount, Abs(balance.position))
    IN  /\ tx.active
        /\ pending.sender \in globalOperators
        /\ ~IsCollateralized(balance, tx.price, minCollateral)
        /\ MayClose(balance, amount, isBuy, allOrNothing)
        /\ TradeStep(P1Liquidation, maker, taker, ClosingTrade(balance, closed, isBuy, 2))
        /\ UNCHANGED closeoutVars

-----------------------------------------------------------------------------
(* P1Deleveraging                                                          *)

\* _verifyPermissions
MayDeleverage(sender, maker) ==
    \/ sender = deleveragingOperator
    \/ marked[maker] # 0 /\ now - marked[maker] >= Timelock

\* Fault: other trades of the transaction may come before.
AnyTime == TRUE

\* traderFlags == 0
FirstOfTransaction == tx.traderFlags = {}

\* Fault: the size of the taker's position is no limit.
MakersPosition(amount, maker, taker) == Least(amount, Abs(balances[maker].position))

DeleveragedAmount(amount, maker, taker) ==
    Least(amount, Least(Abs(balances[maker].position), Abs(balances[taker].position)))

\* trade, called by P1Trade's loop.  The sign of a taker's position of zero may
\* be either.
Deleverage(maker, taker, amount, isBuy, allOrNothing) ==
    LET balance == balances[maker]
        closed == DeleveragedAmount(amount, maker, taker)
    IN  /\ tx.active /\ FirstOfTransaction
        /\ MayDeleverage(pending.sender, maker)
        /\ Underwater(balance, tx.price)
        /\ MayClose(balance, amount, isBuy, allOrNothing)
        /\ balances[taker].position * balance.position <= 0
        /\ allOrNothing => Abs(balances[taker].position) >= amount
        /\ TradeStep(P1Deleveraging, maker, taker, ClosingTrade(balance, closed, isBuy, 4))
        /\ marked' = IF closed = Abs(balance.position) THEN [marked EXCEPT ![maker] = 0] ELSE marked
        /\ UNCHANGED <<deleveragingOperator, insurance, pending>>

\* The price oracle answers the contracts it knows.
CanReadPrice == P1Deleveraging \in PriceReader

\* mark looks at the stored balance, whatever funding is due, and starts the
\* time anew for an account that is marked.
Mark(account) ==
    /\ Idle /\ CanReadPrice
    /\ Underwater(balances[account], oraclePrice)
    /\ marked' = [marked EXCEPT ![account] = now]
    /\ UNCHANGED <<vars, deleveragingOperator, insurance, pending>>

Unmark(account) ==
    /\ Idle /\ CanReadPrice
    /\ ~Underwater(balances[account], oraclePrice)
    /\ marked' = [marked EXCEPT ![account] = 0]
    /\ UNCHANGED <<vars, deleveragingOperator, insurance, pending>>

SetDeleveragingOperator(operator) ==
    /\ Idle
    /\ deleveragingOperator' = operator
    /\ UNCHANGED <<vars, marked, insurance, pending>>

-----------------------------------------------------------------------------
(* P1LiquidatorProxy                                                       *)

NoOrder == [amount |-> 0]

\* liquidate, up to its trade: settle the liquidator and find out how much of
\* the position it may take.
BeginLiquidation(sender, liquidatee, liquidator, isBuy, maxPosition) ==
    LET settled == SettledAccount(liquidator, globalIndex')
        delta == maxPosition - settled.position
    IN  /\ HasAccountPermissions(liquidator, sender)
        /\ liquidator # liquidatee
        /\ BeginTrade({liquidatee, liquidator})
        /\ delta # 0 /\ isBuy = (delta > 0)
        /\ pending' = [sender |-> P1LiquidatorProxy, marked |-> marked,
                       order |-> [amount |-> Abs(delta), isBuy |-> isBuy,
                                  maker |-> liquidatee, taker |-> liquidator,
                                  before |-> settled, max |-> maxPosition]]
        /\ UNCHANGED <<marked, deleveragingOperator, insurance>>

\* Its only trade.
ProxyTrade ==
    /\ tx.active /\ pending.order # NoOrder /\ tx.traderFlags = {}
    /\ Liquidate(pending.order.maker, pending.order.taker, pending.order.amount,
                 pending.order.isBuy, FALSE)

\* Fault: the fee is a part of all that was taken over.
FeeOfAssets(delta, price) == (PositiveValue(delta, price) * insurance.fee) \div (BASE * BASE)

\* _getLiquidatedAndFeeAmount: a part of the profit, at the oracle's price.
FeeAmount(delta, price) ==
    LET profit == PositiveValue(delta, price) - NegativeValue(delta, price)
    IN  IF profit > 0 THEN ((profit * insurance.fee) \div BASE) \div BASE ELSE 0

\* The fee is withdrawn from the liquidator, who must be able to spare it, and
\* deposited for the insurance fund.
FeePaid(fee, liquidator) ==
    LET paid == [balances EXCEPT ![liquidator].margin = @ - fee]
        fund == Settled(paid[insurance.fund], localIndexes[insurance.fund], globalIndex)
        funded == [fund EXCEPT !.margin = @ + fee]
    IN  /\ fee <= held
        /\ Fits(paid[liquidator]) /\ Fits(fund) /\ Fits(funded)
        /\ IsCollateralized(paid[liquidator], oraclePrice, minCollateral)
        /\ balances' = [paid EXCEPT ![insurance.fund] = funded]
        /\ StoreIndexes({insurance.fund}, globalIndex)

\* liquidate after its trade.
EndLiquidation ==
    LET liquidator == pending.order.taker
        delta == [margin |-> balances[liquidator].margin - pending.order.before.margin,
                  position |-> balances[liquidator].position - pending.order.before.position]
        fee == FeeAmount(delta, oraclePrice)
    IN  /\ tx.active /\ pending.order # NoOrder /\ tx.traderFlags # {}
        /\ \A a \in tx.accounts : FinalBalanceAllowed(a)
        /\ tx' = NoTx /\ pending' = NoTx
        /\ \/ fee = 0 /\ UNCHANGED storage
           \/ fee > 0 /\ FeePaid(fee, liquidator)
        /\ UNCHANGED <<roles, settings, final, held, chain,
                       marked, deleveragingOperator, insurance>>

SetInsurance(fund, fee) ==
    /\ Idle
    /\ insurance' = [fund |-> fund, fee |-> fee]
    /\ UNCHANGED <<vars, marked, deleveragingOperator, pending>>

-----------------------------------------------------------------------------
(* Trade transactions of others, and everything else.                      *)

BeginCloseouts(sender, accounts) ==
    /\ BeginTrade(accounts)
    /\ pending' = [sender |-> sender, marked |-> marked, order |-> NoOrder]
    /\ UNCHANGED <<marked, deleveragingOperator, insurance>>

OtherTrade(trade) ==
    /\ tx.active /\ pending.order = NoOrder
    /\ TradeStep(OrdersTrader, trade.maker, trade.taker, trade.result)
    /\ UNCHANGED closeoutVars

EndCloseouts ==
    /\ tx.active /\ pending.order = NoOrder
    /\ EndTrade
    /\ pending' = NoTx
    /\ UNCHANGED <<marked, deleveragingOperator, insurance>>

RevertCloseouts ==
    /\ RevertTrade
    /\ marked' = pending.marked
    /\ pending' = NoTx
    /\ UNCHANGED <<deleveragingOperator, insurance>>

CloseoutsNext ==
    \/ \E sender \in Sender, accounts \in Parties : BeginCloseouts(sender, accounts)
    \/ \E trade \in OrderTrades : OtherTrade(trade)
    \/ \E maker \in Account, taker \in Account, amount \in Amount, isBuy \in BOOLEAN,
          allOrNothing \in BOOLEAN :
          /\ tx.active /\ pending.order = NoOrder
          /\ \/ Liquidate(maker, taker, amount, isBuy, allOrNothing)
             \/ Deleverage(maker, taker, amount, isBuy, allOrNothing)
    \/ EndCloseouts
    \/ RevertCloseouts
    \/ \E a \in Account : Mark(a) \/ Unmark(a)
    \/ \E operator \in Sender : SetDeleveragingOperator(operator)
    \/ \E liquidatee \in Account, liquidator \in Account, isBuy \in BOOLEAN,
          maxPosition \in MaxPosition :
          BeginLiquidation(liquidator, liquidatee, liquidator, isBuy, maxPosition)
    \/ ProxyTrade
    \/ EndLiquidation
    \/ \E fund \in Fund, fee \in Fees : SetInsurance(fund, fee)
    \/ (Tick \/ \E price \in Feed[oracle] : PriceMoves(price)) /\ UNCHANGED closeoutVars

CloseoutsSpec == CloseoutsInit /\ [][CloseoutsNext]_combinedVars

-----------------------------------------------------------------------------
(* Properties                                                              *)

\* The accounts that a trade of the loop changes.
Traded ==
    IF tx.active /\ tx'.active THEN {a \in Account : balances'[a] # balances[a]} ELSE {}

Deleverages(maker, taker) ==
    \E amount \in Amount, isBuy, allOrNothing \in BOOLEAN :
        Deleverage(maker, taker, amount, isBuy, allOrNothing)

ClosesOut(maker, taker) ==
    \/ Deleverages(maker, taker)
    \/ \E amount \in Amount \cup {pending.order.amount}, isBuy, allOrNothing \in BOOLEAN :
          Liquidate(maker, taker, amount, isBuy, allOrNothing)

Covered(before, after, price) ==
    PositiveValue(after, price) * NegativeValue(before, price)
      >= PositiveValue(before, price) * NegativeValue(after, price)

\* Closing out a part of an account, rounded as it is, leaves the rest covered
\* no worse than all of it was, smaller and on the same side; all of it leaves
\* nothing.
CloseoutNeverHurts ==
    [][ \A maker, taker \in Traded :
          maker # taker /\ ClosesOut(maker, taker) =>
            LET before == balances[maker]
                after == balances'[maker]
            IN  /\ Covered(before, after, tx.price)
                /\ Abs(after.position) <= Abs(before.position)
                /\ after.position * before.position >= 0
                /\ after.position = 0 => after.margin = 0 ]_combinedVars

\* So P1Trade's own check never stands in the way of the first such trade of a
\* transaction: it accepts the maker, unless a part is asked for of an account
\* that has nothing but debts, or whose long position is worth nothing.
CloseoutsAccepted ==
    [][ \A maker, taker \in Traded :
          maker # taker /\ tx.traderFlags = {} /\ ClosesOut(maker, taker)
          => \/ FinalBalanceAllowed(maker)'
             \/ PositiveValue(balances[maker], tx.price) = 0
      ]_combinedVars

\* Deleveraging is for accounts that were under water when the transaction
\* began, with their funding settled, and were not brought there by its other
\* trades; however stale the balance was that mark looked at.
DeleveragedWereUnderwater ==
    [][ \A maker, taker \in Traded : Deleverages(maker, taker)
            => Underwater(tx.initialBalances[maker], tx.price) ]_combinedVars

\* Deleveraging only ever closes positions: neither account's position grows or
\* changes sides.
DeleveragingCloses ==
    [][ \A maker, taker \in Traded : Deleverages(maker, taker) =>
            \A a \in {maker, taker} :
              /\ Abs(balances'[a].position) <= Abs(balances[a].position)
              /\ balances'[a].position * balances[a].position >= 0 ]_combinedVars

\* A liquidator who goes through the proxy ends with no position beyond the one
\* it named, keeps at least half of the profit, and is collateralized after it
\* has paid the fee or no worse off than before.
LiquidatorIsSafe ==
    [][ EndLiquidation =>
          LET liquidator == pending.order.taker
              before == pending.order.before
              after == balances'[liquidator]
              Worth(balance) == PositiveValue(balance, oraclePrice)
                                  - NegativeValue(balance, oraclePrice)
              profit == Worth(balances[liquidator]) - Worth(before)
          IN  /\ IF before.position < pending.order.max
                 THEN after.position \in before.position..pending.order.max
                 ELSE after.position \in pending.order.max..before.position
              /\ liquidator # insurance.fund /\ profit > 0
                   => 2 * (Worth(after) - Worth(before)) >= profit
              /\ \/ IsCollateralized(after, oraclePrice, minCollateral)
                 \/ Covered(before, after, oraclePrice) ]_combinedVars

=============================================================================
